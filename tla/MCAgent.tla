------------------------------ MODULE MCAgent ------------------------------
(* Instances of Agent for TLC. *)
EXTENDS Agent

Plain == [kind |-> "request", badConfig |-> FALSE, badKey |-> FALSE, bad |-> FALSE,
          dryRun |-> FALSE, offline |-> FALSE, timeout |-> 2, chunks |-> 2, save |-> "no"]

\* A plain request and its variations: other kinds of message, every early
\* return, no timeout, one that is negative as an int, one that wraps.
MCJobs == {Plain, [Plain EXCEPT !.kind = "reply"], [Plain EXCEPT !.kind = "alert"],
           [Plain EXCEPT !.badConfig = TRUE],
           [Plain EXCEPT !.badKey = TRUE], [Plain EXCEPT !.bad = TRUE],
           [Plain EXCEPT !.dryRun = TRUE], [Plain EXCEPT !.offline = TRUE],
           [Plain EXCEPT !.timeout = 0], [Plain EXCEPT !.timeout = 5],
           [Plain EXCEPT !.timeout = 9], [Plain EXCEPT !.chunks = 0],
           [Plain EXCEPT !.save = "impossible"]}
=============================================================================
