----------------------------- MODULE Reassembly -----------------------------
(***************************************************************************)
(* What the receiver promises, without threads, locks or a map             *)
(* (src/library/receiver.hh, class receiver): chunks of a message are      *)
(* collected in any order; a collection is closed when it is complete or   *)
(* has waited too long; a closed collection is turned into one message,    *)
(* valid exactly when nothing was missing and the body parses, or dropped  *)
(* when it cannot be converted; messages come out once each.               *)
(***************************************************************************)
EXTENDS Naturals, Sequences

CONSTANTS MsgIds, Total, Content, Packs, NoMsg

Chunks(m) == 0 .. (Total[m] - 1)

VARIABLES
  id,       \* the message each collection is for, NoMsg before it is opened
  got,      \* the chunks collected so far, while the collection is open
  late,     \* collections that have waited too long
  verdict,  \* "none" while open, then "valid", "invalid" or "thrown"
  out       \* the messages that came out, in order

vars == <<id, got, late, verdict, out>>

Init ==
  /\ id = [p \in Packs |-> NoMsg]
  /\ got = [p \in Packs |-> {}]
  /\ late = {}
  /\ verdict = [p \in Packs |-> "none"]
  /\ out = <<>>

IsOpen(p) == id[p] /= NoMsg /\ verdict[p] = "none"

\* The first chunk of a message opens a collection.
Open(p, m, c) ==
  /\ id[p] = NoMsg
  /\ id' = [id EXCEPT ![p] = m]
  /\ got' = [got EXCEPT ![p] = {c}]
  /\ UNCHANGED <<late, verdict, out>>

\* A chunk that was missing is added.
Collect(p, c) ==
  /\ IsOpen(p)
  /\ c \notin got[p]
  /\ got' = [got EXCEPT ![p] = @ \cup {c}]
  /\ UNCHANGED <<id, late, verdict, out>>

Expire(p) ==
  /\ id[p] /= NoMsg
  /\ late' = late \cup {p}
  /\ UNCHANGED <<id, got, verdict, out>>

Verdict(p) ==
  CASE Content[id[p]] = "rejected" -> "thrown"
    [] Content[id[p]] = "good" /\ got[p] = Chunks(id[p]) -> "valid"
    [] OTHER -> "invalid"

MayClose(p) == IsOpen(p) /\ (got[p] = Chunks(id[p]) \/ p \in late)

\* Only a complete or late collection is closed. Its chunks are used up.
CloseWith(p) ==
  /\ verdict' = [verdict EXCEPT ![p] = Verdict(p)]
  /\ got' = [got EXCEPT ![p] = {}]
  /\ UNCHANGED <<id, late>>

Close(p) == MayClose(p) /\ CloseWith(p) /\ UNCHANGED out

Entry(p, v) == [pack |-> p, id |-> id[p], valid |-> v = "valid"]

CameOut(p) == \E i \in DOMAIN out : out[i].pack = p

\* The message of a closed collection comes out, once.
Emit(p) ==
  /\ verdict[p] \in {"valid", "invalid"}
  /\ ~CameOut(p)
  /\ out' = Append(out, Entry(p, verdict[p]))
  /\ UNCHANGED <<id, got, late, verdict>>

\* A message of one chunk comes out as it is closed.
CloseAndEmit(p) ==
  /\ MayClose(p)
  /\ Verdict(p) /= "thrown"
  /\ ~CameOut(p)
  /\ CloseWith(p)
  /\ out' = Append(out, Entry(p, Verdict(p)))

Next ==
  \E p \in Packs :
    \/ \E m \in MsgIds : \E c \in Chunks(m) : Open(p, m, c)
    \/ id[p] \in MsgIds /\ \E c \in Chunks(id[p]) : Collect(p, c)
    \/ Expire(p)
    \/ Close(p)
    \/ CloseAndEmit(p)
    \/ Emit(p)

Spec == Init /\ [][Next]_vars
=============================================================================
