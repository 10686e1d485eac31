----------------------------- MODULE MCEndpoint -----------------------------
(* Instances of Endpoint for TLC. *)
EXTENDS Endpoint, TLC

CONSTANTS a, b, ka, kb

Kind(op, instruction) == [op |-> op, instruction |-> instruction, force |-> FALSE,
                          flaw |-> "none", reply_to |-> TRUE]

MCSuppliedKey == [c \in Clients |-> IF c = a THEN ka ELSE kb]

\* The requests that take and give back a lock.
LockKinds == {Kind("cmd", "lock"), Kind("cmd", "unlock")}

\* One request of every sort.
AllKinds == LockKinds \cup
  {[Kind("cmd", "unlock") EXCEPT !.force = TRUE],
   [Kind("cmd", "unlock") EXCEPT !.reply_to = FALSE],
   Kind("set", "other"), Kind("cmd", "set_condition"), Kind("get", "is-locked"),
   Kind("get", "other"), [Kind("unknown", "other") EXCEPT !.reply_to = FALSE],
   [Kind("set", "other") EXCEPT !.flaw = "bad_key", !.reply_to = FALSE],
   [Kind("alert", "other") EXCEPT !.reply_to = FALSE]}

Symmetric == Permutations(GeneratedKeys)
=============================================================================
