----------------------------- MODULE MCService -----------------------------
(* Instances of Service for TLC. *)
EXTENDS Service

CONSTANT a

MCKeys == Owners \cup {Broadcast}
MCRank == [o \in Owners |-> IF o = Svc THEN 0 ELSE 1]

Standard == [connect |-> TRUE, named |-> TRUE, restart |-> TRUE,
             heartbeat |-> TRUE, scheduling |-> FALSE]

\* The default configuration, and its variations in one flag.
MCConfigs == {Standard, [Standard EXCEPT !.connect = FALSE],
              [Standard EXCEPT !.named = FALSE], [Standard EXCEPT !.restart = FALSE],
              [Standard EXCEPT !.scheduling = TRUE],
              [Standard EXCEPT !.heartbeat = FALSE]}
StandardOnly == {Standard}
=============================================================================
