----------------------------- MODULE MCReceiver -----------------------------
(* Instances of Receiver for TLC. *)
EXTENDS Receiver

CONSTANTS two, one, bad

\* two has two chunks; one has one, which does not parse; bad has two chunks and
\* its conversion throws.
MCTotal == [m \in MsgIds |-> IF m = one THEN 1 ELSE 2]
MCContent == [m \in MsgIds |-> CASE m = bad -> "rejected"
                                [] m = one -> "unparsable"
                                [] OTHER -> "good"]
=============================================================================
