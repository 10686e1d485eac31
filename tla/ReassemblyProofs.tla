-------------------------- MODULE ReassemblyProofs --------------------------
(***************************************************************************)
(* More proofs about Receiver, on top of type correctness and coherence:   *)
(* no chunk is used twice, no wake-up is lost, and the threads implement   *)
(* the promise of module Reassembly; and who frees a pack and what can     *)
(* touch it afterwards: for any messages, packs, redeliveries and          *)
(* undefined behaviours.                                                   *)
(***************************************************************************)
EXTENDS ReceiverProofs, FunctionTheorems

USE ReceiverAssumption

Began(p) == pack[p].state /= "unborn"

\* Until its conversion a pack has no verdict; a valid one has all its chunks.
VerdictOK(p) ==
  /\ ~Began(p) => pack[p].id = NoMsg /\ pack[p].chunks = {}
  /\ ~Began(p) \/ waiter[p] \in {"start", "asleep", "woken", "convert"}
       => converted[p] = "none"
  /\ converted[p] = "valid" => pack[p].chunks = Chunks(pack[p].id)

\* What finished a pack, and who may hold its mutex.
MutexOK(p) ==
  /\ waiter[p] \in {"unlock", "erase", "push", "done"} => p \in expired \/ Complete(p)
  /\ pack[p].locked => \/ waiter[p] \in {"convert", "unlock"}
                       \/ waiter[p] = "done" /\ Content[pack[p].id] = "rejected"

\* A pack of which a message came out has been converted.
EmittedOK(e) ==
  /\ waiter[e.pack] \in {"none", "done"}
  /\ converted[e.pack] \in {"valid", "invalid"}
  /\ e.valid => converted[e.pack] = "valid"

\* The listener is at work on a pack that was just made.
NewPackOK ==
  /\ listener.pc = "inline" => converted[listener.pack] = "none"
  /\ listener.pc = "detach" => /\ pack[listener.pack].chunks = {listener.chunk}
                               /\ Total[listener.msg] /= 1
  /\ listener.pc = "find" =>
       \E p \in Packs : Began(p) /\ pack[p].id = listener.msg

\* A pack gives at most one message.
OncePerPack ==
  \A i, j \in DOMAIN Outbox : Outbox[i].pack = Outbox[j].pack => i = j

\* The packs that hold a chunk, and whether the listener is still to store it:
\* together at most as many as there were deliveries.
Holders(m, c) == {p \in Packs : pack[p].id = m /\ c \in pack[p].chunks}
Handling(m, c) ==
  listener.pc \in {"count", "find", "lock"} /\ listener.msg = m /\ listener.chunk = c

UsesOK ==
  /\ DOMAIN copies = MsgIds
  /\ \A m \in MsgIds : \A c \in Chunks(m) :
       /\ IsFiniteSet(Holders(m, c))
       /\ Cardinality(Holders(m, c)) + (IF Handling(m, c) THEN 1 ELSE 0) <= copies[m][c]

Tracked ==
  /\ \A p \in Packs : VerdictOK(p) /\ MutexOK(p)
  /\ \A i \in DOMAIN Outbox : EmittedOK(Outbox[i])
  /\ NewPackOK
  /\ OncePerPack
  /\ UsesOK
  /\ NoLostWakeup

\* While the receiver lives, a pack stays in the map until its own thread, or
\* the dangling key of another, erases it; and a message of one chunk has one
\* pack, unless another thread has erased it.
Kept ==
  /\ object = "alive" =>
       \A p \in Packs :
         /\ pack[p].state = "live" => incoming[pack[p].id] = p
         /\ pack[p].state = "freed" => waiter[p] \in {"push", "done"} \/ ErasedByOther(p)
  /\ \A p, q \in Packs :
       Began(p) /\ Began(q) /\ pack[p].id = pack[q].id /\ Total[pack[p].id] = 1 /\ p /= q
         => ErasedByOther(p) \/ ErasedByOther(q)

-----------------------------------------------------------------------------
(* Frames. *)

\* A pack of which nothing changes but that it may be freed.
Untouched(q) ==
  /\ SamePack(q) /\ pack'[q].locked = pack[q].locked
  /\ waiter'[q] = waiter[q] /\ converted'[q] = converted[q]

LEMMA UntouchedOK ==
  ASSUME NEW q \in Packs, Untouched(q), VerdictOK(q), MutexOK(q),
         q \in expired => q \in expired'
  PROVE  VerdictOK(q)' /\ MutexOK(q)'
BY DEF Untouched, SamePack, VerdictOK, MutexOK, Began, Complete

\* The outbox is a sequence of messages made from packs that were begun.
LEMMA OutboxEntries ==
  ASSUME TypeOK, Coherent
  PROVE  /\ Outbox \in Seq(MessageRecord)
         /\ Len(Outbox) \in Nat /\ DOMAIN Outbox = 1 .. Len(Outbox)
         /\ \A i \in DOMAIN Outbox : /\ Outbox[i] \in MessageRecord
                                     /\ Outbox[i].pack \in Packs
                                     /\ Began(Outbox[i].pack)
                                     /\ pack[Outbox[i].pack].id = Outbox[i].id
                                     /\ Outbox[i].id \in MsgIds
                                     /\ Outbox[i].valid \in BOOLEAN
<1>1. queue \in Seq(MessageRecord) /\ submitted \in Seq(MessageRecord)
  BY DEF TypeOK
<1>2. /\ Len(queue) \in Nat /\ DOMAIN queue = 1 .. Len(queue)
      /\ Len(submitted) \in Nat /\ DOMAIN submitted = 1 .. Len(submitted)
  BY <1>1, LenProperties
<1>3. /\ Outbox \in Seq(MessageRecord) /\ Len(Outbox) = Len(submitted) + Len(queue)
      /\ \A i \in 1 .. Len(submitted) + Len(queue) : Outbox[i] =
           IF i <= Len(submitted) THEN submitted[i] ELSE queue[i - Len(submitted)]
  BY <1>1, ConcatProperties DEF Outbox
<1>4. Len(Outbox) \in Nat /\ DOMAIN Outbox = 1 .. Len(Outbox)
  BY <1>3, LenProperties
<1>5. ASSUME NEW i \in DOMAIN Outbox
      PROVE  Outbox[i] \in MessageRecord /\ EntryOK(Outbox[i])
  <2>1. CASE i <= Len(submitted)
    <3>1. i \in DOMAIN submitted /\ Outbox[i] = submitted[i]
      BY <1>2, <1>3, <1>4, <2>1
    <3> QED BY <1>1, <1>2, <3>1, ElementOfSeq DEF Coherent, OutboxOK
  <2>2. CASE ~(i <= Len(submitted))
    <3>1. i - Len(submitted) \in DOMAIN queue /\ Outbox[i] = queue[i - Len(submitted)]
      BY <1>2, <1>3, <1>4, <2>2
    <3> QED BY <1>1, <1>2, <3>1, ElementOfSeq DEF Coherent, OutboxOK
  <2> QED BY <2>1, <2>2
<1>6. ASSUME NEW i \in DOMAIN Outbox
      PROVE  /\ Outbox[i].pack \in Packs /\ Began(Outbox[i].pack)
             /\ pack[Outbox[i].pack].id = Outbox[i].id /\ Outbox[i].id \in MsgIds
             /\ Outbox[i].valid \in BOOLEAN
  BY <1>5 DEF MessageRecord, EntryOK, Began
<1> QED BY <1>3, <1>4, <1>5, <1>6

\* The first element of a sequence moves to the end of the one before it.
LEMMA MoveHead ==
  ASSUME NEW S, NEW s \in Seq(S), NEW q \in Seq(S), q /= <<>>
  PROVE  Append(s, Head(q)) \o Tail(q) = s \o q
<1>1. Len(q) \in Nat \ {0}
  BY EmptySeq
<1>2. Head(q) \in S /\ Tail(q) \in Seq(S) /\ Head(q) = q[1]
  BY HeadTailProperties
<1>3. 1 \in 1 .. Len(q) /\ Len(q) \in 1 .. Len(q)
  BY <1>1
<1>4. SubSeq(q, 1, Len(q)) = <<q[1]>> \o SubSeq(q, 1 + 1, Len(q))
  BY <1>3, SubSeqRecursiveFirst
<1>5. q = <<Head(q)>> \o Tail(q)
  BY <1>2, <1>4, SubSeqFull, TailIsSubSeq
<1>6. Append(s, Head(q)) = s \o <<Head(q)>>
  BY <1>2, AppendIsConcat
<1>7. <<Head(q)>> \in Seq(S)
  BY <1>2
<1>8. (s \o <<Head(q)>>) \o Tail(q) = s \o (<<Head(q)>> \o Tail(q))
  BY <1>2, <1>7, ConcatAssociative
<1> QED BY <1>5, <1>6, <1>8

\* Submitting the first message of the queue leaves the outbox as it is.
LEMMA PopKeepsOutbox ==
  ASSUME TypeOK, PopAndSubmit
  PROVE  Outbox' = Outbox
<1>1. /\ queue \in Seq(MessageRecord) /\ submitted \in Seq(MessageRecord)
      /\ queue /= <<>> /\ queue' = Tail(queue)
      /\ submitted' = Append(submitted, Head(queue))
  BY DEF PopAndSubmit, TypeOK
<1> QED BY <1>1, MoveHead DEF Outbox

\* Queueing a message appends it to the outbox.
LEMMA PushToOutbox ==
  ASSUME TypeOK, NEW e \in MessageRecord, queue' = Append(queue, e),
         submitted' = submitted
  PROVE  Outbox' = Append(Outbox, e)
<1>1. queue \in Seq(MessageRecord) /\ submitted \in Seq(MessageRecord)
  BY DEF TypeOK
<1>2. <<e>> \in Seq(MessageRecord)
  OBVIOUS
<1>3. Append(queue, e) = queue \o <<e>>
  BY <1>1, AppendIsConcat
<1>4. submitted \o (queue \o <<e>>) = (submitted \o queue) \o <<e>>
  BY <1>1, <1>2, ConcatAssociative
<1>5. submitted \o queue \in Seq(MessageRecord)
  BY <1>1, ConcatProperties
<1>6. Append(submitted \o queue, e) = (submitted \o queue) \o <<e>>
  BY <1>5, AppendIsConcat
<1> QED BY <1>3, <1>4, <1>6 DEF Outbox

\* The messages that came out stay as they were.
Settled ==
  \A q \in Packs :
    Began(q) /\ converted[q] \in {"valid", "invalid"} /\ waiter[q] \in {"none", "done"} =>
      /\ waiter'[q] = waiter[q] /\ converted'[q] = converted[q]

LEMMA EmittedStays ==
  ASSUME Settled, NEW e \in MessageRecord,
         Began(e.pack), pack[e.pack].id = e.id, EmittedOK(e)
  PROVE  EmittedOK(e)'
<1>1. e.pack \in Packs
  BY DEF MessageRecord
<1>2. waiter'[e.pack] = waiter[e.pack] /\ converted'[e.pack] = converted[e.pack]
  BY <1>1 DEF Settled, EmittedOK
<1> QED BY <1>2 DEF EmittedOK

\* Nothing comes out.
LEMMA OutboxStays ==
  ASSUME TypeOK, Coherent, Tracked, Settled, Outbox' = Outbox
  PROVE  OncePerPack' /\ \A i \in DOMAIN Outbox' : EmittedOK(Outbox[i])'
<1>1. ASSUME NEW i \in DOMAIN Outbox PROVE EmittedOK(Outbox[i])'
  <2>1. PICK e \in MessageRecord : e = Outbox[i]
    BY OutboxEntries
  <2>2. Began(e.pack) /\ pack[e.pack].id = e.id /\ EmittedOK(e)
    BY <2>1, OutboxEntries DEF Tracked
  <2>3. EmittedOK(e)'
    BY <2>2, EmittedStays
  <2> QED BY <2>1, <2>3 DEF EmittedOK
<1> QED BY <1>1 DEF Tracked, OncePerPack

\* The message of a pack comes out.
LEMMA OutboxGrows ==
  ASSUME TypeOK, Coherent, Tracked, Settled, NEW e \in MessageRecord,
         Outbox' = Append(Outbox, e), EmittedOK(e)',
         ~(converted[e.pack] \in {"valid", "invalid"} /\ waiter[e.pack] \in {"none", "done"})
  PROVE  OncePerPack' /\ \A i \in DOMAIN Outbox' : EmittedOK(Outbox[i])'
<1>1. /\ Outbox \in Seq(MessageRecord) /\ Len(Outbox) \in Nat
      /\ DOMAIN Outbox = 1 .. Len(Outbox)
  BY OutboxEntries
<1>2. /\ Outbox' \in Seq(MessageRecord) /\ Len(Outbox') = Len(Outbox) + 1
      /\ \A i \in 1 .. Len(Outbox) : Outbox'[i] = Outbox[i]
      /\ Outbox'[Len(Outbox) + 1] = e
  BY <1>1, AppendProperties
<1>3. DOMAIN Outbox' = 1 .. Len(Outbox) + 1
  BY <1>2, LenProperties
<1>4. ASSUME NEW i \in 1 .. Len(Outbox)
      PROVE  EmittedOK(Outbox[i])' /\ Outbox[i].pack /= e.pack
  <2>1. PICK d \in MessageRecord : d = Outbox[i]
    BY <1>1, OutboxEntries
  <2>2. Began(d.pack) /\ pack[d.pack].id = d.id /\ EmittedOK(d)
    BY <1>1, <2>1, OutboxEntries DEF Tracked
  <2>3. EmittedOK(d)'
    BY <2>2, EmittedStays
  <2>4. d.pack /= e.pack
    BY <2>2 DEF EmittedOK
  <2>5. Outbox'[i] = d
    BY <1>2, <2>1
  <2> QED BY <2>1, <2>3, <2>4, <2>5 DEF EmittedOK
<1>5. ASSUME NEW i \in DOMAIN Outbox' PROVE EmittedOK(Outbox[i])'
  <2>1. CASE i = Len(Outbox) + 1
    BY <1>2, <2>1 DEF EmittedOK
  <2>2. CASE i /= Len(Outbox) + 1
    BY <1>1, <1>3, <1>4, <2>2
  <2> QED BY <2>1, <2>2
<1>6. OncePerPack'
  <2> SUFFICES ASSUME NEW i \in DOMAIN Outbox', NEW j \in DOMAIN Outbox',
                      Outbox'[i].pack = Outbox'[j].pack
               PROVE  i = j
    BY DEF OncePerPack
  <2>1. CASE i \in 1 .. Len(Outbox) /\ j \in 1 .. Len(Outbox)
    BY <1>1, <1>2, <2>1 DEF Tracked, OncePerPack
  <2>2. CASE i = Len(Outbox) + 1 /\ j \in 1 .. Len(Outbox)
    BY <1>2, <1>4, <2>2
  <2>3. CASE j = Len(Outbox) + 1 /\ i \in 1 .. Len(Outbox)
    BY <1>2, <1>4, <2>3
  <2> QED BY <1>1, <1>3, <2>1, <2>2, <2>3
<1> QED BY <1>5, <1>6

\* No chunk is delivered or stored; the listener may have dropped one.
LEMMA UsesStay ==
  ASSUME TypeOK, Tracked, copies' = copies,
         \A q \in Packs : pack'[q].id = pack[q].id /\ pack'[q].chunks = pack[q].chunks,
         \A m, c : Handling(m, c)' => Handling(m, c)
  PROVE  UsesOK'
<1> SUFFICES ASSUME NEW m \in MsgIds, NEW c \in Chunks(m)
             PROVE  /\ IsFiniteSet(Holders(m, c))'
                    /\ Cardinality(Holders(m, c))' + (IF Handling(m, c)' THEN 1 ELSE 0)
                         <= copies'[m][c]
  BY DEF Tracked, UsesOK, Chunks
<1>1. Holders(m, c)' = Holders(m, c)
  BY DEF Holders
<1>2. IsFiniteSet(Holders(m, c)) /\ copies[m][c] \in Nat
      /\ Cardinality(Holders(m, c)) + (IF Handling(m, c) THEN 1 ELSE 0) <= copies[m][c]
  BY DEF Tracked, UsesOK, TypeOK
<1>3. Cardinality(Holders(m, c)) \in Nat
  BY <1>2, FS_CardinalityType
<1> QED BY <1>1, <1>2, <1>3

-----------------------------------------------------------------------------
(* Every step keeps Tracked. *)

LEMMA InitTracked == Init => Tracked
<1> SUFFICES ASSUME Init PROVE Tracked
  OBVIOUS
<1> USE DEF Init
<1>1. Outbox = <<>>
  BY ConcatEmptySeq, EmptySeq DEF Outbox
<1>2. DOMAIN Outbox = {}
  BY <1>1
<1>3. \A p \in Packs : VerdictOK(p) /\ MutexOK(p)
  BY DEF VerdictOK, MutexOK, Began, Unborn
<1>4. UsesOK
  <2> SUFFICES ASSUME NEW m \in MsgIds, NEW c \in Chunks(m)
               PROVE  /\ IsFiniteSet(Holders(m, c))
                      /\ Cardinality(Holders(m, c)) + (IF Handling(m, c) THEN 1 ELSE 0)
                           <= copies[m][c]
    BY DEF UsesOK
  <2>1. Holders(m, c) = {}
    BY DEF Holders, Unborn
  <2>2. copies[m][c] = 0 /\ ~Handling(m, c)
    BY DEF Handling, Idle
  <2> QED BY <2>1, <2>2, FS_EmptySet
<1> QED BY <1>2, <1>3, <1>4 DEF Tracked, NewPackOK, OncePerPack, NoLostWakeup, Idle

\* The broker delivers a chunk.
LEMMA DeliverTracked ==
  ASSUME TypeOK, Coherent, Coherent', Tracked,
         NEW m \in MsgIds, NEW c \in Chunks(m), Deliver(m, c)
  PROVE  Tracked'
<1>1. /\ UNCHANGED <<pack, waiter, converted, expired, queue, submitted>>
      /\ listener.pc = "idle" /\ copies' = [copies EXCEPT ![m][c] = @ + 1]
      /\ listener' = [pc |-> "count", msg |-> m, chunk |-> c, pack |-> NoPack]
  BY DEF Deliver, mapVars, waitVars, outVars
<1>2. \A p \in Packs : VerdictOK(p)' /\ MutexOK(p)'
  BY <1>1 DEF Tracked, VerdictOK, MutexOK, Began, Complete
<1>3. OncePerPack' /\ \A i \in DOMAIN Outbox' : EmittedOK(Outbox[i])'
  <2>1. Outbox' = Outbox /\ Settled
    BY <1>1 DEF Outbox, Settled, Began
  <2> QED BY <2>1, OutboxStays
<1>4. NewPackOK' /\ NoLostWakeup'
  BY <1>1 DEF Tracked, NewPackOK, NoLostWakeup, Complete
<1>5. UsesOK'
  <2> SUFFICES ASSUME NEW n \in MsgIds, NEW d \in Chunks(n)
               PROVE  /\ IsFiniteSet(Holders(n, d))'
                      /\ Cardinality(Holders(n, d))' + (IF Handling(n, d)' THEN 1 ELSE 0)
                           <= copies'[n][d]
    BY <1>1 DEF Tracked, UsesOK, Chunks
  <2>1. Holders(n, d)' = Holders(n, d) /\ ~Handling(n, d)
    BY <1>1 DEF Holders, Handling
  <2>2. IsFiniteSet(Holders(n, d)) /\ copies[n][d] \in Nat
        /\ Cardinality(Holders(n, d)) <= copies[n][d]
    BY <2>1, FS_CardinalityType DEF Tracked, UsesOK, TypeOK
  <2>3. Cardinality(Holders(n, d)) \in Nat
    BY <2>2, FS_CardinalityType
  <2>4. copies'[n][d] = IF n = m /\ d = c THEN copies[n][d] + 1 ELSE copies[n][d]
    <3>1. copies[m] \in [Chunks(m) -> Nat] /\ n \in DOMAIN copies /\ m \in DOMAIN copies
      BY DEF TypeOK, Tracked, UsesOK
    <3>2. CASE n = m
      BY <1>1, <3>1, <3>2
    <3>3. CASE n /= m
      BY <1>1, <3>1, <3>3
    <3> QED BY <3>2, <3>3
  <2>5. Handling(n, d)' => n = m /\ d = c
    BY <1>1 DEF Handling
  <2> QED BY <2>1, <2>2, <2>3, <2>4, <2>5
<1> QED BY <1>2, <1>3, <1>4, <1>5 DEF Tracked

\* The listener moves on, or another thread does something that no pack sees.
LEMMA MoveTracked ==
  ASSUME TypeOK, Coherent, Coherent', Tracked,
         \/ CountFound \/ Detach \/ Find \/ CheckCanceled \/ PopTimesOut
         \/ PopAndSubmit \/ Cancel \/ Crash
  PROVE  Tracked'
<1>1. UNCHANGED <<pack, waiter, converted, expired, copies>>
  BY DEF CountFound, Detach, Find, CheckCanceled, PopTimesOut, PopAndSubmit, Cancel,
         Crash, mapVars, waitVars, outVars, envVars
<1>2. Outbox' = Outbox
  <2>1. CASE PopAndSubmit
    BY <2>1, PopKeepsOutbox
  <2>2. CASE CountFound \/ Detach \/ Find \/ CheckCanceled \/ PopTimesOut \/ Cancel \/ Crash
    BY <2>2 DEF CountFound, Detach, Find, CheckCanceled, PopTimesOut, Cancel, Crash,
                outVars, Outbox
  <2> QED BY <2>1, <2>2
<1>3. listener \in ListenerRecord
  BY DEF TypeOK
<1>4. /\ listener'.pc \in {listener.pc, "idle", "find", "lock"}
      /\ listener'.pc = "find" => \/ listener.pc = "find"
                                  \/ /\ listener.pc = "count"
                                     /\ incoming[listener.msg] /= NoPack
      /\ listener'.pc = "lock" => listener.pc \in {"lock", "find"}
      /\ listener'.pc /= "idle" =>
           listener'.msg = listener.msg /\ listener'.chunk = listener.chunk
      /\ listener'.pc \in {"inline", "detach", "notify"} => listener' = listener
      /\ listener.pc = "notify" => listener' = listener
  <2>1. CASE CountFound
    BY <1>3, <2>1 DEF CountFound, ListenerRecord
  <2>2. CASE Detach
    BY <2>2 DEF Detach, Idle
  <2>3. CASE Find
    <3>1. listener.pc = "find"
      BY <2>3 DEF Find
    <3>2. \/ listener' = Idle
          \/ listener' = [listener EXCEPT !.pc = "lock", !.pack = incoming[listener.msg]]
      BY <2>3 DEF Find
    <3>3. CASE listener' = Idle
      BY <3>1, <3>3 DEF Idle
    <3>4. CASE listener' = [listener EXCEPT !.pc = "lock", !.pack = incoming[listener.msg]]
      BY <1>3, <3>1, <3>4 DEF ListenerRecord
    <3> QED BY <3>2, <3>3, <3>4
  <2>4. CASE CheckCanceled \/ PopTimesOut \/ PopAndSubmit \/ Cancel \/ Crash
    <3>1. listener' = listener
      BY <2>4 DEF CheckCanceled, PopTimesOut, PopAndSubmit, Cancel, Crash
    <3> QED BY <3>1
  <2> QED BY <2>1, <2>2, <2>3, <2>4
<1>5. \A p \in Packs : VerdictOK(p)' /\ MutexOK(p)'
  BY <1>1 DEF Tracked, VerdictOK, MutexOK, Began, Complete
<1>6. OncePerPack' /\ \A i \in DOMAIN Outbox' : EmittedOK(Outbox[i])'
  BY <1>1, <1>2, OutboxStays DEF Settled, Began
<1>7. NewPackOK'
  <2>1. listener'.pc = "find" =>
          \E p \in Packs : Began(p) /\ pack[p].id = listener'.msg
    <3>1. CASE listener.pc = "find"
      BY <1>4, <3>1 DEF Tracked, NewPackOK
    <3>2. CASE listener.pc = "count" /\ incoming[listener.msg] /= NoPack
      <4>1. listener.msg \in MsgIds
        BY <3>2 DEF Coherent, ListenerOK
      <4>2. PICK p \in Packs : p = incoming[listener.msg]
        BY <3>2, <4>1 DEF TypeOK
      <4>3. Began(p) /\ pack[p].id = listener.msg
        BY <3>2, <4>1, <4>2 DEF Coherent, MapOK, Began
      <4> QED BY <1>4, <4>3
    <3> QED BY <1>4, <3>1, <3>2
  <2> QED BY <1>1, <1>4, <2>1 DEF Tracked, NewPackOK, Began
<1>8. UsesOK'
  <2>1. \A m, c : Handling(m, c)' => Handling(m, c)
    BY <1>4 DEF Handling
  <2> QED BY <1>1, <2>1, UsesStay
<1>9. NoLostWakeup'
  <2> QED BY <1>1, <1>4 DEF Tracked, NoLostWakeup, Complete
<1> QED BY <1>5, <1>6, <1>7, <1>8, <1>9 DEF Tracked

\* A sleeping thread is woken, by the listener, its deadline or nothing.
LEMMA WakeTracked ==
  ASSUME TypeOK, Coherent, Coherent', Tracked,
         Notify \/ (\E p \in Packs : DeadlinePasses(p) \/ SpuriousWakeup(p))
  PROVE  Tracked'
<1>1. UNCHANGED <<pack, converted, queue, submitted, copies>> /\ expired \subseteq expired'
  BY DEF Notify, DeadlinePasses, SpuriousWakeup, mapVars, outVars, envVars
<1>2. \A q \in Packs : \/ waiter'[q] = waiter[q]
                       \/ waiter[q] \in {"asleep", "woken"} /\ waiter'[q] = "woken"
  BY DEF Notify, DeadlinePasses, SpuriousWakeup, TypeOK
<1>3. /\ listener' \in {listener, Idle}
      /\ listener' /= listener =>
           /\ listener.pc = "notify"
           /\ waiter[listener.pack] = "asleep" => waiter'[listener.pack] = "woken"
  BY DEF Notify, DeadlinePasses, SpuriousWakeup, TypeOK, Coherent, ListenerOK
<1>4. \A p \in Packs : VerdictOK(p)' /\ MutexOK(p)'
  BY <1>1, <1>2 DEF Tracked, VerdictOK, MutexOK, Began, Complete
<1>5. OncePerPack' /\ \A i \in DOMAIN Outbox' : EmittedOK(Outbox[i])'
  <2>1. Outbox' = Outbox /\ Settled
    BY <1>1, <1>2 DEF Outbox, Settled, Began
  <2> QED BY <2>1, OutboxStays
<1>6. NewPackOK'
  BY <1>1, <1>3 DEF Tracked, NewPackOK, Began, Idle
<1>7. UsesOK'
  <2>1. \A m, c : Handling(m, c)' => Handling(m, c)
    BY <1>3 DEF Handling, Idle
  <2> QED BY <1>1, <2>1, UsesStay
<1>8. NoLostWakeup'
  BY <1>1, <1>2, <1>3 DEF Tracked, NoLostWakeup, Complete
<1> QED BY <1>4, <1>5, <1>6, <1>7, <1>8 DEF Tracked

\* A step of the wait thread of p, which has a message to make.
LEMMA OwnThreadTracked ==
  ASSUME TypeOK, Coherent, Coherent', Tracked, NEW p \in Packs,
         waiter[p] \notin {"none", "done"},
         \A q \in Packs : /\ SamePack(q)
                          /\ pack'[q].state = "live" => pack[q].state = "live",
         \A q \in Packs \ {p} : Untouched(q),
         UNCHANGED <<expired, listener, copies>>,
         VerdictOK(p)', MutexOK(p)',
         waiter'[p] = "asleep" => ~Complete(p),
         \/ Outbox' = Outbox
         \/ OncePerPack' /\ \A i \in DOMAIN Outbox' : EmittedOK(Outbox[i])'
  PROVE  Tracked'
<1>1. \A q \in Packs : VerdictOK(q)' /\ MutexOK(q)'
  BY UntouchedOK DEF Tracked
<1>2. OncePerPack' /\ \A i \in DOMAIN Outbox' : EmittedOK(Outbox[i])'
  <2>1. Settled
    BY DEF Settled, Untouched, SamePack, Began
  <2> QED BY <2>1, OutboxStays
<1>3. NewPackOK'
  <2>1. listener.pc = "inline" => listener.pack \in Packs /\ listener.pack /= p
    BY DEF Coherent, ListenerOK, WaiterOK
  <2>2. listener.pc = "detach" => listener.pack \in Packs
    BY DEF Coherent, ListenerOK
  <2> QED BY <2>1, <2>2 DEF Tracked, NewPackOK, Untouched, SamePack, Began
<1>4. UsesOK'
  BY UsesStay DEF SamePack, Handling
<1>5. NoLostWakeup'
  BY DEF Tracked, NoLostWakeup, Untouched, SamePack, Complete
<1> QED BY <1>1, <1>2, <1>3, <1>4, <1>5 DEF Tracked

\* The thread looks whether its pack is finished.
LEMMA ProcessOrSleepTracked ==
  ASSUME TypeOK, Coherent, Coherent', Tracked, NEW p \in Packs,
         StartWaiting(p) \/ ReturnFromWait(p)
  PROVE  Tracked'
<1>1. PICK finished \in BOOLEAN :
        ProcessOrSleep(p, finished) /\ (~finished => ~Complete(p))
  BY DEF TypeOK, StartWaiting, ReturnFromWait, Complete
<1>2. waiter[p] \in {"start", "woken"} /\ converted[p] = "none"
  BY DEF StartWaiting, ReturnFromWait, Tracked, VerdictOK
<1>3. /\ pack[p].state = "live" /\ pack' = [pack EXCEPT ![p].locked = finished]
      /\ waiter' = [waiter EXCEPT ![p] = IF finished THEN "convert" ELSE "asleep"]
      /\ UNCHANGED <<converted, expired, listener, queue, submitted, copies>>
  BY <1>1 DEF ProcessOrSleep, outVars, envVars
<1>4. pack[p] \in PackRecord
  BY DEF TypeOK
<1>5. /\ \A q \in Packs \ {p} : pack'[q] = pack[q] /\ waiter'[q] = waiter[q]
      /\ pack'[p] = [pack[p] EXCEPT !.locked = finished]
      /\ waiter'[p] = IF finished THEN "convert" ELSE "asleep"
  BY <1>3 DEF TypeOK
<1>6. /\ SamePack(p) /\ pack'[p].state = pack[p].state
      /\ pack'[p].locked = finished
  BY <1>4, <1>5 DEF PackRecord, SamePack
<1>7. \A q \in Packs \ {p} : Untouched(q)
  BY <1>3, <1>5 DEF Untouched, SamePack
<1>8. VerdictOK(p)' /\ MutexOK(p)'
  BY <1>2, <1>3, <1>5, <1>6 DEF VerdictOK, MutexOK, Began
<1>9. Outbox' = Outbox
  BY <1>3 DEF Outbox
<1> QED BY <1>1, <1>2, <1>3, <1>5, <1>6, <1>7, <1>8, <1>9, OwnThreadTracked
        DEF Untouched

\* The pack is converted, and its mutex held on if that throws.
LEMMA ConvertTracked ==
  ASSUME TypeOK, Coherent, Coherent', Tracked, NEW p \in Packs, Convert(p)
  PROVE  Tracked'
<1>1. /\ waiter[p] = "convert" /\ pack[p].state = "live"
      /\ pack' = [pack EXCEPT ![p].processing = TRUE]
      /\ converted' = [converted EXCEPT ![p] = Conversion(p)]
      /\ waiter' = [waiter EXCEPT ![p] = IF Conversion(p) = "thrown"
                                         THEN "done" ELSE "unlock"]
      /\ UNCHANGED <<expired, listener, queue, submitted, copies>>
  BY DEF Convert, outVars, envVars
<1>2. pack[p] \in PackRecord
  BY DEF TypeOK
<1>3. /\ \A q \in Packs \ {p} : /\ pack'[q] = pack[q] /\ waiter'[q] = waiter[q]
                                /\ converted'[q] = converted[q]
      /\ pack'[p] = [pack[p] EXCEPT !.processing = TRUE]
      /\ waiter'[p] = IF Conversion(p) = "thrown" THEN "done" ELSE "unlock"
      /\ converted'[p] = Conversion(p)
  BY <1>1 DEF TypeOK
<1>4. /\ SamePack(p) /\ pack'[p].state = pack[p].state /\ pack'[p].locked = pack[p].locked
  BY <1>2, <1>3 DEF PackRecord, SamePack
<1>5. \A q \in Packs \ {p} : Untouched(q)
  BY <1>3 DEF Untouched, SamePack
<1>6. VerdictOK(p)' /\ MutexOK(p)'
  <2>1. /\ Conversion(p) = "thrown" => Content[pack[p].id] = "rejected"
        /\ Conversion(p) = "valid" => pack[p].chunks = Chunks(pack[p].id)
    BY DEF Conversion
  <2>2. p \in expired \/ Complete(p)
    BY <1>1 DEF Coherent, WaiterOK
  <2>3. VerdictOK(p)'
    BY <1>1, <1>3, <1>4, <2>1 DEF VerdictOK, Began, SamePack
  <2>4. pack[p].locked
    BY <1>1 DEF Coherent, WaiterOK
  <2>5. MutexOK(p)'
    BY <1>1, <1>3, <1>4, <2>1, <2>2, <2>4 DEF MutexOK, SamePack, Complete
  <2> QED BY <2>3, <2>5
<1>7. Outbox' = Outbox
  BY <1>1 DEF Outbox
<1> QED BY <1>1, <1>3, <1>4, <1>5, <1>6, <1>7, OwnThreadTracked DEF Untouched

\* The mutex is unlocked.
LEMMA UnlockTracked ==
  ASSUME TypeOK, Coherent, Coherent', Tracked, NEW p \in Packs, Unlock(p)
  PROVE  Tracked'
<1>1. /\ waiter[p] = "unlock" /\ pack[p].state = "live"
      /\ pack' = [pack EXCEPT ![p].locked = FALSE]
      /\ waiter' = [waiter EXCEPT ![p] = "erase"]
      /\ UNCHANGED <<converted, expired, listener, queue, submitted, copies>>
  BY DEF Unlock, outVars, envVars
<1>2. pack[p] \in PackRecord
  BY DEF TypeOK
<1>3. /\ \A q \in Packs \ {p} : pack'[q] = pack[q] /\ waiter'[q] = waiter[q]
      /\ pack'[p] = [pack[p] EXCEPT !.locked = FALSE]
      /\ waiter'[p] = "erase"
  BY <1>1 DEF TypeOK
<1>4. /\ SamePack(p) /\ pack'[p].state = pack[p].state /\ ~pack'[p].locked
  BY <1>2, <1>3 DEF PackRecord, SamePack
<1>5. \A q \in Packs \ {p} : Untouched(q)
  BY <1>1, <1>3 DEF Untouched, SamePack
<1>6. VerdictOK(p)' /\ MutexOK(p)'
  <2>1. VerdictOK(p) /\ (p \in expired \/ Complete(p))
    BY <1>1 DEF Tracked, MutexOK
  <2>2. VerdictOK(p)'
    BY <1>1, <1>3, <1>4, <2>1 DEF VerdictOK, Began, SamePack
  <2>3. MutexOK(p)'
    <3>1. ~pack'[p].locked
      BY <1>4
    <3>2. p \in expired' \/ Complete(p)'
      BY <1>1, <1>4, <2>1 DEF SamePack, Complete
    <3> QED BY <3>1, <3>2, Zenon DEF MutexOK
  <2> QED BY <2>2, <2>3
<1>7. Outbox' = Outbox
  BY <1>1 DEF Outbox
<1>8. \A q \in Packs : /\ SamePack(q)
                       /\ pack'[q].state = "live" => pack[q].state = "live"
  BY <1>3, <1>4, <1>5 DEF Untouched
<1> QED BY <1>1, <1>3, <1>5, <1>6, <1>7, <1>8, OwnThreadTracked

\* A pack is erased, the thread's own or, through a dangling key, any other.
LEMMA EraseTracked ==
  ASSUME TypeOK, Coherent, Coherent', Tracked, NEW p \in Packs, Erase(p)
  PROVE  Tracked'
<1>1. PICK id :
        pack' = [q \in Packs |-> IF q \in DestroyedBy(id)
                                 THEN [pack[q] EXCEPT !.state = "freed"] ELSE pack[q]]
  BY DEF Erase
<1>2. /\ waiter[p] = "erase"
      /\ waiter' = [waiter EXCEPT ![p] = "push"]
      /\ UNCHANGED <<converted, expired, listener, queue, submitted, copies>>
  BY DEF Erase, outVars, envVars
<1>3. /\ \A q \in Packs \ {p} : waiter'[q] = waiter[q]
      /\ waiter'[p] = "push"
  BY <1>2 DEF TypeOK
<1>4. ASSUME NEW q \in Packs
      PROVE  /\ SamePack(q) /\ pack'[q].locked = pack[q].locked
             /\ pack'[q].state = "live" => pack[q].state = "live"
  <2>1. pack[q] \in PackRecord
    BY DEF TypeOK
  <2>2. CASE q \in DestroyedBy(id)
    <3>1. pack[q].state = "live"
      BY <2>2 DEF DestroyedBy, Coherent, MapOK
    <3> QED BY <1>1, <2>1, <2>2, <3>1 DEF PackRecord, SamePack
  <2>3. CASE q \notin DestroyedBy(id)
    BY <1>1, <2>1, <2>3 DEF SamePack
  <2> QED BY <2>2, <2>3
<1>5. \A q \in Packs \ {p} : Untouched(q)
  BY <1>2, <1>3, <1>4 DEF Untouched
<1>6. VerdictOK(p)' /\ MutexOK(p)'
  BY <1>2, <1>3, <1>4 DEF Tracked, Coherent, WaiterOK, VerdictOK, MutexOK, Began, SamePack, Complete
<1>7. Outbox' = Outbox
  BY <1>2 DEF Outbox
<1> QED BY <1>2, <1>3, <1>4, <1>5, <1>6, <1>7, OwnThreadTracked

\* The message comes out, for the first time.
LEMMA PushTracked ==
  ASSUME TypeOK, Coherent, Coherent', Tracked, NEW p \in Packs, Push(p)
  PROVE  Tracked'
<1>1. /\ waiter[p] = "push" /\ waiter' = [waiter EXCEPT ![p] = "done"]
      /\ queue' = Append(queue, Message(p, converted[p]))
      /\ UNCHANGED <<pack, converted, expired, listener, submitted, copies>>
  BY DEF Push, mapVars, envVars
<1>2. /\ \A q \in Packs \ {p} : waiter'[q] = waiter[q]
      /\ waiter'[p] = "done"
  BY <1>1 DEF TypeOK
<1>3. /\ Began(p) /\ pack[p].id \in MsgIds /\ converted[p] \in {"valid", "invalid"}
      /\ p \in expired \/ Complete(p)
  BY <1>1 DEF Coherent, WaiterOK, PackOK, Tracked, MutexOK, Began
<1>4. PICK e \in MessageRecord : e = Message(p, converted[p])
  BY <1>3, MessageType
<1>5. e.pack = p /\ e.id = pack[p].id /\ (e.valid => converted[p] = "valid")
  BY <1>4 DEF Message
<1>6. \A q \in Packs : SamePack(q) /\ pack'[q].state = pack[q].state
                       /\ pack'[q].locked = pack[q].locked
  BY <1>1 DEF SamePack
<1>7. \A q \in Packs \ {p} : Untouched(q)
  BY <1>1, <1>2, <1>6 DEF Untouched
<1>8. VerdictOK(p)' /\ MutexOK(p)'
  BY <1>1, <1>2, <1>3 DEF Tracked, VerdictOK, MutexOK, Began, Complete
<1>9. OncePerPack' /\ \A i \in DOMAIN Outbox' : EmittedOK(Outbox[i])'
  <2>1. Settled
    BY <1>1, <1>2 DEF Settled, Began
  <2>2. Outbox' = Append(Outbox, e)
    BY <1>1, <1>4, PushToOutbox
  <2>3. EmittedOK(e)'
    BY <1>1, <1>2, <1>3, <1>5 DEF EmittedOK
  <2> QED BY <1>1, <1>5, <2>1, <2>2, <2>3, OutboxGrows
<1> QED BY <1>1, <1>2, <1>6, <1>7, <1>8, <1>9, OwnThreadTracked

\* The listener makes a pack for its chunk.
LEMMA CreateTracked ==
  ASSUME TypeOK, Coherent, Coherent', Tracked, Create
  PROVE  Tracked'
<1> DEFINE m == listener.msg
           c == listener.chunk
           s == CHOOSE q \in Packs : pack[q].state = "unborn"
<1>1. PICK p \in Packs : p = s /\ pack[p].state = "unborn"
  BY DEF Create
<1>2. m \in MsgIds /\ c \in Chunks(m) /\ listener.pc = "count"
  BY DEF Create, Coherent, ListenerOK
<1>3. /\ pack' = [pack EXCEPT ![p] = FirstChunk(m, c)]
      /\ waiter' = [waiter EXCEPT ![p] = IF HasWaitThread(m) THEN "start" ELSE @]
      /\ listener' = [listener EXCEPT !.pack = p,
                            !.pc = IF Total[m] = 1 THEN "inline" ELSE "detach"]
      /\ UNCHANGED <<converted, expired, queue, submitted, copies>>
  BY <1>1 DEF Create, outVars, envVars
<1> HIDE DEF s
<1>4. waiter[p] = "none" /\ converted[p] = "none" /\ pack[p].chunks = {}
  BY <1>1 DEF Coherent, WaiterOK, Tracked, VerdictOK, Began
<1>5. /\ pack'[p] = FirstChunk(m, c)
      /\ waiter'[p] = IF Total[m] /= 1 THEN "start" ELSE "none"
      /\ \A q \in Packs \ {p} : pack'[q] = pack[q] /\ waiter'[q] = waiter[q]
  BY <1>3, <1>4 DEF TypeOK, HasWaitThread
<1>6. /\ listener'.msg = m /\ listener'.chunk = c /\ listener'.pack = p
      /\ listener'.pc = IF Total[m] = 1 THEN "inline" ELSE "detach"
  BY <1>3 DEF TypeOK, ListenerRecord
<1>7. /\ pack'[p].state = "live" /\ pack'[p].id = m /\ pack'[p].chunks = {c}
      /\ ~pack'[p].locked
  BY <1>5 DEF FirstChunk
<1>8. ASSUME NEW q \in Packs PROVE VerdictOK(q)' /\ MutexOK(q)'
  <2>1. CASE q = p
    BY <1>3, <1>4, <1>5, <1>7, <2>1 DEF VerdictOK, MutexOK, Began
  <2>2. CASE q /= p
    BY <1>3, <1>5, <2>2, UntouchedOK DEF Untouched, SamePack, Tracked
  <2> QED BY <2>1, <2>2
<1>9. OncePerPack' /\ \A i \in DOMAIN Outbox' : EmittedOK(Outbox[i])'
  <2>1. Outbox' = Outbox /\ Settled
    BY <1>1, <1>3, <1>5 DEF Outbox, Settled, Began
  <2> QED BY <2>1, OutboxStays
<1>10. NewPackOK'
  BY <1>3, <1>4, <1>6, <1>7 DEF NewPackOK
<1>11. UsesOK'
  <2>1. DOMAIN copies' = MsgIds
    BY <1>3 DEF Tracked, UsesOK
  <2>2. ASSUME NEW n \in MsgIds, NEW d \in Chunks(n)
        PROVE  /\ IsFiniteSet(Holders(n, d))'
               /\ Cardinality(Holders(n, d))' + (IF Handling(n, d)' THEN 1 ELSE 0)
                    <= copies'[n][d]
    <3>1. /\ IsFiniteSet(Holders(n, d))
          /\ Cardinality(Holders(n, d)) + (IF Handling(n, d) THEN 1 ELSE 0) <= copies[n][d]
      BY DEF Tracked, UsesOK
    <3>2. /\ Cardinality(Holders(n, d)) \in Nat /\ copies[n][d] \in Nat
          /\ copies'[n][d] = copies[n][d]
      BY <1>3, <3>1, FS_CardinalityType DEF TypeOK
    <3>3. ~Handling(n, d)'
      BY <1>6 DEF Handling
    <3>4. CASE n = m /\ d = c
      <4>1. Handling(n, d)
        BY <1>2, <3>4 DEF Handling
      <4>2. p \notin Holders(n, d)
        BY <1>4 DEF Holders
      <4>3. Holders(n, d)' = Holders(n, d) \cup {p}
        BY <1>5, <1>7, <3>4 DEF Holders
      <4>4. /\ IsFiniteSet(Holders(n, d) \cup {p})
            /\ Cardinality(Holders(n, d) \cup {p}) = Cardinality(Holders(n, d)) + 1
        BY <3>1, <4>2, FS_AddElement
      <4> QED BY <3>1, <3>2, <3>3, <4>1, <4>3, <4>4
    <3>5. CASE ~(n = m /\ d = c)
      <4>1. Holders(n, d)' = Holders(n, d)
        BY <1>4, <1>5, <1>7, <3>5 DEF Holders
      <4> QED BY <3>1, <3>2, <3>3, <4>1
    <3> QED BY <3>4, <3>5
  <2> QED BY <2>1, <2>2 DEF UsesOK, Chunks
<1>12. NoLostWakeup'
  BY <1>2, <1>5 DEF Tracked, NoLostWakeup, Complete
<1> QED BY <1>8, <1>9, <1>10, <1>11, <1>12 DEF Tracked

\* A single chunk is processed by the listener.
LEMMA ProcessInlineTracked ==
  ASSUME TypeOK, Coherent, Coherent', Tracked, ProcessInline
  PROVE  Tracked'
<1>1. PICK p \in Packs : p = listener.pack
  BY DEF ProcessInline, Coherent, ListenerOK
<1>2. /\ listener.pc = "inline" /\ pack[p].state = "live" /\ pack[p].id \in MsgIds
      /\ Complete(p) /\ converted[p] = "none" /\ waiter[p] = "none"
  BY <1>1 DEF ProcessInline, Coherent, ListenerOK, PackOK, WaiterOK, Tracked, NewPackOK
<1>3. /\ converted' = [converted EXCEPT ![p] = Conversion(p)]
      /\ listener' = Idle
      /\ UNCHANGED <<waiter, expired, submitted, copies>>
  BY <1>1 DEF ProcessInline, envVars
<1>4. \/ Conversion(p) = "thrown" /\ queue' = queue
      \/ Conversion(p) /= "thrown" /\ queue' = Append(queue, Message(p, Conversion(p)))
  BY <1>1 DEF ProcessInline
<1>5. pack' = [pack EXCEPT ![p] = [@ EXCEPT !.processing = TRUE, !.state = "live"]]
  <2>1. p \notin DestroyedBy(IF Conversion(p) = "thrown" THEN NoMsg ELSE InlineKey(pack[p].id))
    BY DEF DestroyedBy, InlineKey
  <2>2. pack' = [pack EXCEPT ![p] = [@ EXCEPT !.processing = TRUE, !.state =
                   IF p \in DestroyedBy(IF Conversion(p) = "thrown" THEN NoMsg
                                        ELSE InlineKey(pack[p].id))
                   THEN "freed" ELSE "live"]]
    BY <1>1 DEF ProcessInline
  <2> QED BY <2>1, <2>2, Zenon
<1>6. /\ pack[p] \in PackRecord
      /\ pack'[p] = [pack[p] EXCEPT !.processing = TRUE, !.state = "live"]
      /\ converted'[p] = Conversion(p)
      /\ \A q \in Packs \ {p} : pack'[q] = pack[q] /\ converted'[q] = converted[q]
  BY <1>3, <1>5 DEF TypeOK
<1>7. /\ SamePack(p) /\ pack'[p].state = pack[p].state
      /\ pack'[p].locked = pack[p].locked
  BY <1>2, <1>6 DEF PackRecord, SamePack
<1>8. \A q \in Packs : SamePack(q) /\ pack'[q].state = pack[q].state
  BY <1>6, <1>7 DEF SamePack
<1>9. ASSUME NEW q \in Packs PROVE VerdictOK(q)' /\ MutexOK(q)'
  <2>1. CASE q = p
    <3>1. Conversion(p) = "valid" => pack[p].chunks = Chunks(pack[p].id)
      BY DEF Conversion
    <3>2. VerdictOK(p)'
      BY <1>2, <1>3, <1>6, <1>7, <3>1 DEF VerdictOK, Began, SamePack
    <3>3. ~pack[p].locked
      BY <1>2 DEF Tracked, MutexOK
    <3>4. MutexOK(p)'
      BY <1>2, <1>3, <1>7, <3>3 DEF MutexOK
    <3> QED BY <2>1, <3>2, <3>4
  <2>2. CASE q /= p
    BY <1>3, <1>6, <2>2, UntouchedOK DEF Untouched, SamePack, Tracked
  <2> QED BY <2>1, <2>2
<1>10. OncePerPack' /\ \A i \in DOMAIN Outbox' : EmittedOK(Outbox[i])'
  <2>1. Settled
    BY <1>2, <1>3, <1>6 DEF Settled
  <2>2. CASE Conversion(p) = "thrown"
    BY <1>3, <1>4, <2>1, <2>2, OutboxStays DEF Outbox
  <2>3. CASE Conversion(p) /= "thrown"
    <3>1. PICK e \in MessageRecord : e = Message(p, Conversion(p))
      BY <1>2, MessageType
    <3>2. e.pack = p /\ (e.valid => Conversion(p) = "valid")
      BY <3>1 DEF Message
    <3>3. Outbox' = Append(Outbox, e)
      BY <1>3, <1>4, <2>3, <3>1, PushToOutbox
    <3>4. EmittedOK(e)'
      BY <1>2, <1>3, <1>6, <2>3, <3>2, ConversionType DEF EmittedOK
    <3> QED BY <1>2, <2>1, <3>2, <3>3, <3>4, OutboxGrows
  <2> QED BY <2>2, <2>3
<1>11. NewPackOK'
  BY <1>3 DEF NewPackOK, Idle
<1>12. UsesOK'
  BY <1>3, <1>8, UsesStay DEF SamePack, Handling, Idle
<1>13. NoLostWakeup'
  BY <1>2, <1>3, <1>8 DEF Tracked, NoLostWakeup, SamePack, Complete
<1> QED BY <1>9, <1>10, <1>11, <1>12, <1>13 DEF Tracked

\* A chunk is stored: the pack holds one it did not hold, so it was neither
\* complete nor turned into a valid message.
LEMMA StoreTracked ==
  ASSUME TypeOK, Coherent, Coherent', Tracked, Store
  PROVE  Tracked'
<1>p. PICK p \in Packs : p = listener.pack
  BY DEF Store, Coherent, ListenerOK
<1>c. PICK c \in Nat : c = listener.chunk
  BY DEF TypeOK, ListenerRecord
<1>1. /\ pack[p].state = "live" /\ pack[p].id = listener.msg /\ listener.msg \in MsgIds
      /\ c \in Chunks(pack[p].id) /\ listener.pc = "lock"
  BY <1>p, <1>c DEF Store, Coherent, ListenerOK
<1>2. UNCHANGED <<waiter, converted, expired, queue, submitted, copies>>
  BY DEF Store, waitVars, outVars, envVars
<1>3. OncePerPack' /\ \A i \in DOMAIN Outbox' : EmittedOK(Outbox[i])'
  <2>1. Outbox' = Outbox /\ Settled
    BY <1>2 DEF Outbox, Settled
  <2> QED BY <2>1, OutboxStays
<1>4. CASE c \in pack[p].chunks
  <2>1. pack' = pack /\ listener' = Idle
    BY <1>p, <1>c, <1>4 DEF Store
  <2>2. \A q \in Packs : VerdictOK(q)' /\ MutexOK(q)'
    BY <1>2, <2>1 DEF Tracked, VerdictOK, MutexOK, Began, Complete
  <2>3. NewPackOK' /\ NoLostWakeup'
    BY <1>1, <1>2, <2>1 DEF NewPackOK, Idle, Tracked, NoLostWakeup, Complete
  <2>4. UsesOK'
    BY <1>2, <2>1, UsesStay DEF Handling, Idle
  <2> QED BY <1>3, <2>2, <2>3, <2>4 DEF Tracked
<1>5. CASE c \notin pack[p].chunks
  <2>1. /\ listener' = [listener EXCEPT !.pc = "notify"]
        /\ pack' = [pack EXCEPT ![p].chunks = @ \cup {c}, ![p].received = @ + 1]
    BY <1>p, <1>c, <1>5 DEF Store
  <2>2. /\ pack'[p] = [pack[p] EXCEPT !.chunks = pack[p].chunks \cup {c},
                                      !.received = pack[p].received + 1]
        /\ \A q \in Packs \ {p} : pack'[q] = pack[q]
    <3>1. pack \in [Packs -> PackRecord]
      BY DEF TypeOK
    <3> QED BY <2>1, <3>1 DEF PackRecord
  <2>3. pack[p] \in PackRecord
    BY DEF TypeOK
  <2>4. /\ pack'[p].chunks = pack[p].chunks \cup {c} /\ pack'[p].id = pack[p].id
        /\ pack'[p].state = pack[p].state /\ pack'[p].locked = pack[p].locked
    BY <2>2, <2>3 DEF PackRecord
  <2>5. /\ listener'.pc = "notify" /\ listener'.pack = p
    BY <1>p, <2>1 DEF TypeOK, ListenerRecord
  <2>6. pack[p].chunks /= Chunks(pack[p].id) /\ ~Complete(p)
    BY <1>1, <1>5, CompleteHasAll DEF Coherent
  <2>7. VerdictOK(p)' /\ MutexOK(p)'
    <3>1. VerdictOK(p) /\ MutexOK(p)
      BY DEF Tracked
    <3>2. VerdictOK(p)'
      BY <1>1, <1>2, <2>4, <2>6, <3>1 DEF VerdictOK, Began
    <3>3. MutexOK(p)'
      BY <1>2, <2>4, <2>6, <3>1 DEF MutexOK
    <3> QED BY <3>2, <3>3
  <2>8. ASSUME NEW q \in Packs, q /= p PROVE VerdictOK(q)' /\ MutexOK(q)'
    BY <1>2, <2>2, <2>8, UntouchedOK DEF Untouched, SamePack, Tracked
  <2>9. NewPackOK'
    BY <2>5 DEF NewPackOK
  <2>10. UsesOK'
    <3>1. DOMAIN copies' = MsgIds
      BY <1>2 DEF Tracked, UsesOK
    <3>2. ASSUME NEW q \in Packs
          PROVE  /\ pack'[q].id = pack[q].id
                 /\ \A d : d \in pack'[q].chunks <=>
                            d \in pack[q].chunks \/ (q = p /\ d = c)
      BY <2>2, <2>4
    <3>3. ASSUME NEW n \in MsgIds, NEW d \in Chunks(n)
          PROVE  /\ IsFiniteSet(Holders(n, d))'
                 /\ Cardinality(Holders(n, d))' + (IF Handling(n, d)' THEN 1 ELSE 0)
                      <= copies'[n][d]
      <4>1. /\ IsFiniteSet(Holders(n, d))
            /\ Cardinality(Holders(n, d)) + (IF Handling(n, d) THEN 1 ELSE 0) <= copies[n][d]
        BY DEF Tracked, UsesOK
      <4>2. /\ Cardinality(Holders(n, d)) \in Nat /\ copies[n][d] \in Nat
            /\ copies'[n][d] = copies[n][d]
        BY <1>2, <4>1, FS_CardinalityType DEF TypeOK
      <4>3. ~Handling(n, d)'
        BY <2>5 DEF Handling
      <4>4. CASE n = listener.msg /\ d = c
        <5>1. Handling(n, d)
          BY <1>c, <1>1, <4>4 DEF Handling
        <5>2. p \notin Holders(n, d)
          BY <1>5, <4>4 DEF Holders
        <5>3. Holders(n, d)' = Holders(n, d) \cup {p}
          BY <1>1, <3>2, <4>4 DEF Holders
        <5>4. /\ IsFiniteSet(Holders(n, d) \cup {p})
              /\ Cardinality(Holders(n, d) \cup {p}) = Cardinality(Holders(n, d)) + 1
          BY <4>1, <5>2, FS_AddElement
        <5> QED BY <4>1, <4>2, <4>3, <5>1, <5>3, <5>4
      <4>5. CASE ~(n = listener.msg /\ d = c)
        <5>1. Holders(n, d)' = Holders(n, d)
          BY <1>1, <3>2, <4>5 DEF Holders
        <5> QED BY <4>1, <4>2, <4>3, <5>1
      <4> QED BY <4>4, <4>5
    <3> QED BY <3>1, <3>3 DEF UsesOK, Chunks
  <2>11. NoLostWakeup'
    BY <1>1, <1>2, <2>2, <2>5 DEF Tracked, NoLostWakeup, Complete
  <2> QED BY <1>3, <2>7, <2>8, <2>9, <2>10, <2>11 DEF Tracked
<1> QED BY <1>4, <1>5

\* The receiver is destroyed, with its packs.
LEMMA DestroyTracked ==
  ASSUME TypeOK, Coherent, Coherent', Tracked, Destroy
  PROVE  Tracked'
<1>1. /\ pack' = [p \in Packs |-> IF pack[p].state = "live"
                                   THEN [pack[p] EXCEPT !.state = "freed"] ELSE pack[p]]
      /\ listener.pc = "idle"
      /\ UNCHANGED <<listener, copies, waiter, converted, expired, queue, submitted>>
  BY DEF Destroy, waitVars, outVars
<1>2. ASSUME NEW q \in Packs
      PROVE  Untouched(q) /\ pack'[q].state /= "live"
  <2>1. pack[q] \in PackRecord
    BY DEF TypeOK
  <2>2. CASE pack[q].state = "live"
    BY <1>1, <2>1, <2>2 DEF PackRecord, Untouched, SamePack
  <2>3. CASE pack[q].state /= "live"
    BY <1>1, <2>1, <2>3 DEF Untouched, SamePack
  <2> QED BY <2>2, <2>3
<1>3. \A q \in Packs : VerdictOK(q)' /\ MutexOK(q)'
  BY <1>1, <1>2, UntouchedOK DEF Tracked
<1>4. OncePerPack' /\ \A i \in DOMAIN Outbox' : EmittedOK(Outbox[i])'
  <2>1. Outbox' = Outbox /\ Settled
    BY <1>1 DEF Outbox, Settled
  <2> QED BY <2>1, OutboxStays
<1>5. NewPackOK' /\ NoLostWakeup'
  BY <1>1, <1>2 DEF NewPackOK, NoLostWakeup
<1>6. UsesOK'
  BY <1>1, <1>2, UsesStay DEF Untouched, SamePack, Handling
<1> QED BY <1>3, <1>4, <1>5, <1>6 DEF Tracked

\* Nothing happens.
LEMMA StutterTracked ==
  ASSUME TypeOK, Coherent, Tracked, UNCHANGED vars
  PROVE  Tracked'
<1>1. UNCHANGED <<pack, waiter, converted, expired, listener, queue, submitted, copies>>
  BY DEF vars, mapVars, waitVars, outVars, envVars
<1>2. \A q \in Packs : VerdictOK(q)' /\ MutexOK(q)'
  BY <1>1 DEF Tracked, VerdictOK, MutexOK, Began, Complete
<1>3. OncePerPack' /\ \A i \in DOMAIN Outbox' : EmittedOK(Outbox[i])'
  BY <1>1, OutboxStays DEF Outbox, Settled
<1>4. NewPackOK' /\ NoLostWakeup'
  BY <1>1 DEF Tracked, NewPackOK, NoLostWakeup, Began, Complete
<1>5. UsesOK'
  BY <1>1, UsesStay DEF Handling
<1> QED BY <1>2, <1>3, <1>4, <1>5 DEF Tracked

LEMMA NextTracked ==
  TypeOK /\ Coherent /\ Coherent' /\ Tracked /\ [Next]_vars => Tracked'
<1> SUFFICES ASSUME TypeOK, Coherent, Coherent', Tracked, [Next]_vars
             PROVE  Tracked'
  OBVIOUS
<1>1. CASE ListenerStep
  BY <1>1, CreateTracked, MoveTracked, ProcessInlineTracked, StoreTracked, WakeTracked
     DEF ListenerStep
<1>2. ASSUME NEW p \in Packs, WaiterStep(p)
      PROVE  Tracked'
  BY <1>2, ProcessOrSleepTracked, ConvertTracked, UnlockTracked, EraseTracked,
     PushTracked, MoveTracked DEF WaiterStep
<1>3. CASE \E p \in Packs : TimerStep(p)
  BY <1>3, WakeTracked DEF TimerStep
<1>4. CASE ExecutorStep
  BY <1>4, MoveTracked DEF ExecutorStep
<1>5. CASE Environment
  BY <1>5, DeliverTracked, WakeTracked, MoveTracked, DestroyTracked DEF Environment
<1>6. CASE UNCHANGED vars
  BY <1>6, StutterTracked
<1> QED BY <1>1, <1>2, <1>3, <1>4, <1>5, <1>6 DEF Next

\* In every reachable state the threads can be followed: what each pack may have
\* become, who holds its mutex, which messages came out of it and which
\* deliveries its chunks are from.
THEOREM TrackedAlways == Spec => [](TypeOK /\ Coherent /\ Tracked)
<1>1. TypeOK /\ Coherent /\ Tracked /\ [Next]_vars => (TypeOK /\ Coherent /\ Tracked)'
  BY NextInv, NextTracked
<1>2. Init => TypeOK /\ Coherent /\ Tracked
  BY InitInv, InitTracked
<1> QED BY <1>1, <1>2, PTL DEF Spec

\* No wake-up is lost: whatever the order of chunks, deadlines and spurious
\* wake-ups, a thread sleeps on a complete pack only while the listener is about
\* to notify it.
THEOREM WakeupIsNotLost == Spec => []NoLostWakeup
<1>1. Tracked => NoLostWakeup
  BY DEF Tracked
<1> QED BY <1>1, TrackedAlways, PTL

\* No chunk serves two valid messages: each valid message of a UUID has a pack
\* of its own, and each of these packs holds the chunk from a delivery of its own.
THEOREM ValidMessagesUseDeliveries == Spec => []ValidUsesDeliveries
<1>1. TypeOK /\ Coherent /\ Tracked => ValidUsesDeliveries
  <2> SUFFICES ASSUME TypeOK, Coherent, Tracked, NEW m \in MsgIds, NEW c \in Chunks(m)
               PROVE  Cardinality({i \in DOMAIN Outbox : Outbox[i].id = m /\ Outbox[i].valid})
                        <= copies[m][c]
    BY DEF ValidUsesDeliveries
  <2> DEFINE S == {i \in DOMAIN Outbox : Outbox[i].id = m /\ Outbox[i].valid}
             f == [i \in S |-> Outbox[i].pack]
  <2>1. ASSUME NEW i \in S PROVE Outbox[i].pack \in Holders(m, c)
    <3>1. PICK e \in MessageRecord : e = Outbox[i]
      BY OutboxEntries
    <3>2. e.pack \in Packs /\ pack[e.pack].id = m /\ e.valid /\ EmittedOK(e)
      BY <3>1, OutboxEntries DEF Tracked
    <3>3. pack[e.pack].chunks = Chunks(m)
      BY <3>2 DEF EmittedOK, Tracked, VerdictOK
    <3> QED BY <3>1, <3>2, <3>3 DEF Holders
  <2>2. \A i, j \in S : Outbox[i].pack = Outbox[j].pack => i = j
    BY DEF Tracked, OncePerPack
  <2> HIDE DEF S
  <2>3. f \in [S -> Holders(m, c)] /\ \A i, j \in S : f[i] = f[j] => i = j
    BY <2>1, <2>2
  <2> HIDE DEF f
  <2>4. f \in Injection(S, Holders(m, c))
    BY <2>3, Fun_IsInj
  <2>5. /\ IsFiniteSet(Holders(m, c))
        /\ Cardinality(Holders(m, c)) + (IF Handling(m, c) THEN 1 ELSE 0) <= copies[m][c]
        /\ copies[m][c] \in Nat
    BY DEF Tracked, UsesOK, TypeOK
  <2>6. IsFiniteSet(S) /\ Cardinality(S) <= Cardinality(Holders(m, c))
    BY <2>4, <2>5, FS_Injection
  <2>7. Cardinality(S) \in Nat /\ Cardinality(Holders(m, c)) \in Nat
    BY <2>5, <2>6, FS_CardinalityType
  <2>8. Cardinality(S) <= copies[m][c]
    BY <2>5, <2>6, <2>7
  <2> QED BY <2>8 DEF S
<1> QED BY <1>1, TrackedAlways, PTL

\* A chunk that the listener handles for a complete pack came at least twice.
LEMMA ChunkCameTwice ==
  ASSUME TypeOK, Coherent, Tracked, NEW p \in Packs, Began(p), Complete(p),
         pack[p].id = listener.msg, listener.pc \in {"count", "find", "lock"}
  PROVE  \E c \in Chunks(listener.msg) : copies[listener.msg][c] > 1
<1>1. PICK m \in MsgIds : m = listener.msg
  BY DEF Coherent, ListenerOK
<1>2. PICK c \in Chunks(m) : c = listener.chunk
  BY <1>1 DEF Coherent, ListenerOK
<1>3. p \in Holders(m, c)
  BY <1>1, <1>2, CompleteHasAll DEF Coherent, Began, Holders
<1>4. Handling(m, c)
  BY <1>1, <1>2 DEF Handling
<1>5. /\ IsFiniteSet(Holders(m, c)) /\ copies[m][c] \in Nat
      /\ Cardinality(Holders(m, c)) + 1 <= copies[m][c]
  BY <1>4 DEF Tracked, UsesOK, TypeOK
<1>6. Cardinality(Holders(m, c)) \in Nat /\ Cardinality(Holders(m, c)) /= 0
  BY <1>3, <1>5, FS_CardinalityType, FS_EmptySet
<1>7. copies[m][c] > 1
  BY <1>5, <1>6
<1> QED BY <1>1, <1>7

\* The listener waits for good only for the mutex of a message whose conversion
\* threw, after a timeout or for a chunk that came twice.
THEOREM ListenerStuckOnlyOnThrown == Spec => []ListenerStuckCause
<1>1. TypeOK /\ Coherent /\ Tracked => ListenerStuckCause
  <2> SUFFICES ASSUME TypeOK, Coherent, Tracked, NEW p \in Packs, p = listener.pack,
                      listener.pc = "lock", pack[p].locked, waiter[p] = "done"
               PROVE  /\ Content[listener.msg] = "rejected"
                      /\ \/ p \in expired
                         \/ \E c \in Chunks(listener.msg) : copies[listener.msg][c] > 1
    BY DEF ListenerStuckCause, Coherent, ListenerOK
  <2>1. pack[p].id = listener.msg /\ Began(p)
    BY DEF Coherent, ListenerOK, Began
  <2>2. Content[listener.msg] = "rejected" /\ (p \in expired \/ Complete(p))
    BY <2>1 DEF Tracked, MutexOK
  <2> QED BY <2>1, <2>2, ChunkCameTwice
<1> QED BY <1>1, TrackedAlways, PTL

-----------------------------------------------------------------------------
(* The threads implement the promise of module Reassembly. *)

\* A step in which the promise does nothing.
LEMMA PromiseStutters ==
  ASSUME Outbox' = Outbox, expired' = expired, converted' = converted,
         \A q \in Packs : /\ pack'[q].id = pack[q].id
                          /\ converted[q] = "none" => pack'[q].chunks = pack[q].chunks
  PROVE  UNCHANGED Promise!vars
<1>1. [p \in Packs |-> pack[p].id]' = [p \in Packs |-> pack[p].id]
  OBVIOUS
<1>2. [p \in Packs |-> IF converted[p] = "none" THEN pack[p].chunks ELSE {}]'
        = [p \in Packs |-> IF converted[p] = "none" THEN pack[p].chunks ELSE {}]
  OBVIOUS
<1> QED BY <1>1, <1>2 DEF Promise!vars

LEMMA QuietIsStutter ==
  ASSUME TypeOK, Coherent,
         \/ \E m \in MsgIds : \E c \in Chunks(m) : Deliver(m, c)
         \/ CountFound \/ Detach \/ Find \/ CheckCanceled \/ PopTimesOut
         \/ PopAndSubmit \/ Cancel \/ Crash \/ Notify
         \/ \E p \in Packs : SpuriousWakeup(p)
         \/ UNCHANGED vars
  PROVE  UNCHANGED Promise!vars
<1>1. UNCHANGED <<pack, converted, expired>>
  BY DEF Deliver, CountFound, Detach, Find, CheckCanceled, PopTimesOut, PopAndSubmit,
         Cancel, Crash, Notify, SpuriousWakeup, vars, mapVars, waitVars
<1>2. Outbox' = Outbox
  <2>1. CASE PopAndSubmit
    BY <2>1, PopKeepsOutbox
  <2>2. CASE ~PopAndSubmit
    BY <2>2 DEF Deliver, CountFound, Detach, Find, CheckCanceled, PopTimesOut, Cancel,
                Crash, Notify, SpuriousWakeup, vars, outVars, Outbox
  <2> QED BY <2>1, <2>2
<1> QED BY <1>1, <1>2, PromiseStutters

\* The steps of wait threads and of the owner that change only locks and states.
LEMMA LockIsStutter ==
  ASSUME TypeOK, Coherent, Coherent',
         \/ \E p \in Packs : StartWaiting(p) \/ ReturnFromWait(p) \/ Unlock(p) \/ Erase(p)
         \/ Destroy
  PROVE  UNCHANGED Promise!vars
<1>1. UNCHANGED <<converted, expired, queue, submitted>>
  BY DEF StartWaiting, ReturnFromWait, ProcessOrSleep, Unlock, Erase, Destroy, waitVars, outVars
<1>2. ASSUME NEW q \in Packs
      PROVE  pack'[q].id = pack[q].id /\ pack'[q].chunks = pack[q].chunks
  <2>1. pack[q] \in PackRecord
    BY DEF TypeOK
  <2>2. \/ pack'[q] = pack[q]
        \/ \E b : pack'[q] = [pack[q] EXCEPT !.locked = b]
        \/ pack'[q] = [pack[q] EXCEPT !.state = "freed"]
    <3>1. CASE Destroy
      BY <3>1 DEF Destroy
    <3>2. ASSUME NEW p \in Packs, Erase(p)
          PROVE  pack'[q] = pack[q] \/ pack'[q] = [pack[q] EXCEPT !.state = "freed"]
      BY <3>2 DEF Erase
    <3>3. ASSUME NEW p \in Packs, Unlock(p)
          PROVE  pack'[q] = pack[q] \/ pack'[q] = [pack[q] EXCEPT !.locked = FALSE]
      BY <3>3 DEF Unlock, TypeOK
    <3>4. ASSUME NEW p \in Packs, NEW b, ProcessOrSleep(p, b)
          PROVE  pack'[q] = pack[q] \/ pack'[q] = [pack[q] EXCEPT !.locked = b]
      BY <3>4 DEF ProcessOrSleep, TypeOK
    <3> QED BY <3>1, <3>2, <3>3, <3>4 DEF StartWaiting, ReturnFromWait
  <2> QED BY <2>1, <2>2 DEF PackRecord
<1> QED BY <1>1, <1>2, PromiseStutters DEF Outbox

LEMMA CreateOpens ==
  ASSUME TypeOK, Coherent, Tracked, Create
  PROVE  Promise!Next
<1> DEFINE s == CHOOSE q \in Packs : pack[q].state = "unborn"
<1>1. PICK p \in Packs : p = s /\ pack[p].state = "unborn"
  BY DEF Create
<1>2. PICK m \in MsgIds : \E c \in Chunks(m) : m = listener.msg /\ c = listener.chunk
  BY DEF Create, Coherent, ListenerOK
<1>c. PICK c \in Chunks(m) : m = listener.msg /\ c = listener.chunk
  BY <1>2
<1>3. /\ pack' = [pack EXCEPT ![p] = FirstChunk(m, c)]
      /\ UNCHANGED <<converted, expired, queue, submitted>>
  BY <1>1, <1>c DEF Create, outVars
<1> HIDE DEF s
<1>4. converted[p] = "none" /\ pack[p].id = NoMsg
  BY <1>1 DEF Tracked, VerdictOK, Began
<1>5. /\ pack'[p].id = m /\ pack'[p].chunks = {c}
      /\ \A q \in Packs \ {p} : pack'[q] = pack[q]
  BY <1>3 DEF TypeOK, FirstChunk
<1>6. [q \in Packs |-> pack[q].id]' = [[q \in Packs |-> pack[q].id] EXCEPT ![p] = m]
  BY <1>5
<1>7. [q \in Packs |-> IF converted[q] = "none" THEN pack[q].chunks ELSE {}]'
        = [[q \in Packs |-> IF converted[q] = "none" THEN pack[q].chunks ELSE {}]
             EXCEPT ![p] = {c}]
  <2>1. converted' = converted
    BY <1>3
  <2>2. \A q \in Packs : pack'[q].chunks = IF q = p THEN {c} ELSE pack[q].chunks
    BY <1>5
  <2> QED BY <1>4, <2>1, <2>2
<1>8. Promise!Open(p, m, c)
  BY <1>3, <1>4, <1>6, <1>7 DEF Promise!Open, Outbox
<1>9. Promise!Chunks(m) = Chunks(m)
  BY DEF Promise!Chunks, Chunks
<1> QED BY <1>8, <1>9 DEF Promise!Next

LEMMA StoreCollects ==
  ASSUME TypeOK, Coherent, Store
  PROVE  Promise!Next \/ UNCHANGED Promise!vars
<1>p. PICK p \in Packs : p = listener.pack
  BY DEF Store, Coherent, ListenerOK
<1>c. PICK c \in Nat : c = listener.chunk
  BY DEF TypeOK, ListenerRecord
<1>1. pack[p].id \in MsgIds /\ c \in Chunks(pack[p].id)
  BY <1>p, <1>c DEF Store, Coherent, ListenerOK
<1>2. UNCHANGED <<converted, expired, queue, submitted>>
  BY DEF Store, waitVars, outVars
<1>3. CASE c \in pack[p].chunks
  <2>1. pack' = pack
    BY <1>p, <1>c, <1>3 DEF Store
  <2> QED BY <1>2, <2>1, PromiseStutters DEF Outbox
<1>4. CASE c \notin pack[p].chunks
  <2>1. pack' = [pack EXCEPT ![p].chunks = @ \cup {c}, ![p].received = @ + 1]
    BY <1>p, <1>c, <1>4 DEF Store
  <2>2. /\ pack'[p] = [pack[p] EXCEPT !.chunks = pack[p].chunks \cup {c},
                                      !.received = pack[p].received + 1]
        /\ \A q \in Packs \ {p} : pack'[q] = pack[q]
    <3>1. pack \in [Packs -> PackRecord]
      BY DEF TypeOK
    <3> QED BY <2>1, <3>1 DEF PackRecord
  <2>3. pack[p] \in PackRecord
    BY DEF TypeOK
  <2>4. pack'[p].chunks = pack[p].chunks \cup {c} /\ pack'[p].id = pack[p].id
    BY <2>2, <2>3 DEF PackRecord
  <2>5. CASE converted[p] /= "none"
    BY <1>2, <2>2, <2>4, <2>5, PromiseStutters DEF Outbox
  <2>6. CASE converted[p] = "none"
    <3>1. [q \in Packs |-> pack[q].id]' = [q \in Packs |-> pack[q].id]
      BY <2>2, <2>4
    <3>2. [q \in Packs |-> IF converted[q] = "none" THEN pack[q].chunks ELSE {}]'
            = [[q \in Packs |-> IF converted[q] = "none" THEN pack[q].chunks ELSE {}]
                 EXCEPT ![p] = @ \cup {c}]
      BY <1>2, <2>2, <2>4, <2>6
    <3>3. Promise!IsOpen(p)
      BY <1>1, <2>6 DEF Promise!IsOpen
    <3>4. Promise!Collect(p, c)
      BY <1>2, <1>4, <2>6, <3>1, <3>2, <3>3 DEF Promise!Collect, Outbox
    <3>5. Promise!Chunks(pack[p].id) = Chunks(pack[p].id)
      BY DEF Promise!Chunks, Chunks
    <3>6. Promise!Next
      BY <1>1, <3>4, <3>5 DEF Promise!Next
    <3> QED BY <3>6
  <2> QED BY <2>5, <2>6
<1> QED BY <1>3, <1>4

LEMMA DeadlineExpires ==
  ASSUME TypeOK, Coherent, NEW p \in Packs, DeadlinePasses(p)
  PROVE  Promise!Next
<1>1. /\ waiter[p] /= "none" /\ expired' = expired \cup {p}
      /\ UNCHANGED <<pack, converted, queue, submitted>>
  BY DEF DeadlinePasses, mapVars, outVars
<1>2. pack[p].id /= NoMsg
  BY <1>1 DEF Coherent, WaiterOK, PackOK
<1>3. Promise!Expire(p)
  BY <1>1, <1>2 DEF Promise!Expire, Outbox
<1> QED BY <1>3 DEF Promise!Next

\* The conversion of a pack, by its wait thread or by the listener.
LEMMA ConversionCloses ==
  ASSUME TypeOK, Coherent, NEW p \in Packs,
         Began(p), converted[p] = "none", p \in expired \/ Complete(p),
         converted' = [converted EXCEPT ![p] = Conversion(p)], expired' = expired,
         \A q \in Packs : pack'[q].id = pack[q].id /\ pack'[q].chunks = pack[q].chunks
  PROVE  Promise!MayClose(p) /\ Promise!CloseWith(p) /\ Promise!Verdict(p) = Conversion(p)
<1>1. pack[p].id \in MsgIds
  BY DEF Coherent, PackOK, Began
<1>2. Complete(p) => pack[p].chunks = Chunks(pack[p].id)
  BY CompleteHasAll DEF Coherent, Began
<1>3. Promise!Chunks(pack[p].id) = Chunks(pack[p].id)
  BY DEF Promise!Chunks, Chunks
<1>4. Promise!MayClose(p)
  BY <1>1, <1>2, <1>3 DEF Promise!MayClose, Promise!IsOpen
<1>5. Promise!Verdict(p) = Conversion(p)
  BY <1>3 DEF Promise!Verdict, Conversion
<1>6. [q \in Packs |-> pack[q].id]' = [q \in Packs |-> pack[q].id]
  OBVIOUS
<1>7. [q \in Packs |-> IF converted[q] = "none" THEN pack[q].chunks ELSE {}]'
        = [[q \in Packs |-> IF converted[q] = "none" THEN pack[q].chunks ELSE {}]
             EXCEPT ![p] = {}]
  <2>1. converted'[p] /= "none" /\ \A q \in Packs \ {p} : converted'[q] = converted[q]
    BY ConversionType DEF TypeOK
  <2> QED BY <2>1
<1> QED BY <1>4, <1>5, <1>6, <1>7 DEF Promise!CloseWith

LEMMA ConvertCloses ==
  ASSUME TypeOK, Coherent, Tracked, NEW p \in Packs, Convert(p)
  PROVE  Promise!Next
<1>1. /\ waiter[p] = "convert"
      /\ pack' = [pack EXCEPT ![p].processing = TRUE]
      /\ converted' = [converted EXCEPT ![p] = Conversion(p)]
      /\ UNCHANGED <<expired, queue, submitted>>
  BY DEF Convert, outVars
<1>2. ASSUME NEW q \in Packs
      PROVE  pack'[q].id = pack[q].id /\ pack'[q].chunks = pack[q].chunks
  <2>1. pack[q] \in PackRecord
    BY DEF TypeOK
  <2>2. pack'[q] = pack[q] \/ pack'[q] = [pack[q] EXCEPT !.processing = TRUE]
    BY <1>1 DEF TypeOK
  <2> QED BY <2>1, <2>2 DEF PackRecord
<1>3. Began(p) /\ converted[p] = "none" /\ (p \in expired \/ Complete(p))
  BY <1>1 DEF Coherent, WaiterOK, Tracked, VerdictOK, Began
<1>4. Promise!MayClose(p) /\ Promise!CloseWith(p)
  BY <1>1, <1>2, <1>3, ConversionCloses
<1>5. Promise!Close(p)
  BY <1>1, <1>4 DEF Promise!Close, Outbox
<1> QED BY <1>5 DEF Promise!Next

\* No message came out of a pack whose conversion or queueing is still to come.
LEMMA NotOutYet ==
  ASSUME TypeOK, Coherent, Tracked, NEW p \in Packs,
         ~(converted[p] \in {"valid", "invalid"} /\ waiter[p] \in {"none", "done"})
  PROVE  ~Promise!CameOut(p)
<1> SUFFICES ASSUME NEW i \in DOMAIN Outbox, Outbox[i].pack = p PROVE FALSE
  BY DEF Promise!CameOut
<1>1. PICK e \in MessageRecord : e = Outbox[i]
  BY OutboxEntries
<1>2. EmittedOK(e)
  BY <1>1 DEF Tracked
<1> QED BY <1>1, <1>2 DEF EmittedOK

LEMMA InlineCloses ==
  ASSUME TypeOK, Coherent, Tracked, ProcessInline
  PROVE  Promise!Next
<1>1. PICK p \in Packs : p = listener.pack
  BY DEF ProcessInline, Coherent, ListenerOK
<1>2. /\ Began(p) /\ Complete(p) /\ converted[p] = "none"
  BY <1>1 DEF ProcessInline, Coherent, ListenerOK, Tracked, NewPackOK, Began
<1>3. /\ converted' = [converted EXCEPT ![p] = Conversion(p)]
      /\ UNCHANGED <<expired, submitted>>
      /\ \/ Conversion(p) = "thrown" /\ queue' = queue
         \/ Conversion(p) /= "thrown" /\ queue' = Append(queue, Message(p, Conversion(p)))
  BY <1>1 DEF ProcessInline
<1>4. ASSUME NEW q \in Packs
      PROVE  pack'[q].id = pack[q].id /\ pack'[q].chunks = pack[q].chunks
  <2>1. pack[q] \in PackRecord
    BY DEF TypeOK
  <2>2. \/ pack'[q] = pack[q]
        \/ \E b : pack'[q] = [pack[q] EXCEPT !.processing = TRUE, !.state = b]
    BY <1>1 DEF ProcessInline, TypeOK
  <2> QED BY <2>1, <2>2 DEF PackRecord
<1>5. /\ Promise!MayClose(p) /\ Promise!CloseWith(p)
      /\ Promise!Verdict(p) = Conversion(p)
  BY <1>2, <1>3, <1>4, ConversionCloses
<1>6. CASE Conversion(p) = "thrown"
  <2>1. Promise!Close(p)
    BY <1>3, <1>5, <1>6 DEF Promise!Close, Outbox
  <2> QED BY <2>1 DEF Promise!Next
<1>7. CASE Conversion(p) /= "thrown"
  <2>1. PICK e \in MessageRecord : e = Message(p, Conversion(p))
    BY <1>2, MessageType DEF Coherent, PackOK, Began
  <2>2. Outbox' = Append(Outbox, e)
    BY <1>3, <1>7, <2>1, PushToOutbox
  <2>3. e = Promise!Entry(p, Conversion(p))
    BY <2>1 DEF Promise!Entry, Message
  <2>4. ~Promise!CameOut(p)
    BY <1>2, NotOutYet
  <2>5. Promise!CloseAndEmit(p)
    BY <1>5, <1>7, <2>2, <2>3, <2>4 DEF Promise!CloseAndEmit
  <2> QED BY <2>5 DEF Promise!Next
<1> QED BY <1>6, <1>7

LEMMA PushEmits ==
  ASSUME TypeOK, Coherent, Tracked, NEW p \in Packs, Push(p)
  PROVE  Promise!Next
<1>1. /\ waiter[p] = "push" /\ queue' = Append(queue, Message(p, converted[p]))
      /\ UNCHANGED <<pack, converted, expired, submitted>>
  BY DEF Push, mapVars
<1>2. pack[p].id \in MsgIds /\ converted[p] \in {"valid", "invalid"}
  BY <1>1 DEF Coherent, WaiterOK, PackOK
<1>3. PICK e \in MessageRecord : e = Message(p, converted[p])
  BY <1>2, MessageType
<1>4. Outbox' = Append(Outbox, e)
  BY <1>1, <1>3, PushToOutbox
<1>5. e = Promise!Entry(p, converted[p])
  BY <1>3 DEF Promise!Entry, Message
<1>6. ~Promise!CameOut(p)
  BY <1>1, NotOutYet
<1>7. Promise!Emit(p)
  BY <1>1, <1>2, <1>4, <1>5, <1>6 DEF Promise!Emit
<1> QED BY <1>7 DEF Promise!Next

\* Every step is a step of the promise or leaves it alone.
LEMMA NextKeepsPromise ==
  TypeOK /\ Coherent /\ Coherent' /\ Tracked /\ [Next]_vars => [Promise!Next]_(Promise!vars)
<1> SUFFICES ASSUME TypeOK, Coherent, Coherent', Tracked, [Next]_vars
             PROVE  Promise!Next \/ UNCHANGED Promise!vars
  OBVIOUS
<1>1. CASE ListenerStep
  BY <1>1, CreateOpens, QuietIsStutter, InlineCloses, StoreCollects DEF ListenerStep
<1>2. ASSUME NEW p \in Packs, WaiterStep(p)
      PROVE  Promise!Next \/ UNCHANGED Promise!vars
  BY <1>2, LockIsStutter, ConvertCloses, PushEmits, QuietIsStutter DEF WaiterStep
<1>3. CASE \E p \in Packs : TimerStep(p)
  BY <1>3, DeadlineExpires DEF TimerStep
<1>4. CASE ExecutorStep
  BY <1>4, QuietIsStutter DEF ExecutorStep
<1>5. CASE Environment
  BY <1>5, QuietIsStutter, LockIsStutter DEF Environment
<1>6. CASE UNCHANGED vars
  BY <1>6, QuietIsStutter
<1> QED BY <1>1, <1>2, <1>3, <1>4, <1>5, <1>6 DEF Next

LEMMA InitKeepsPromise == Init => Promise!Init
<1> SUFFICES ASSUME Init PROVE Promise!Init
  OBVIOUS
<1>1. Outbox = <<>>
  BY ConcatEmptySeq, EmptySeq DEF Outbox, Init
<1> QED BY <1>1 DEF Init, Promise!Init, Unborn

\* The listener, the wait threads and the executor of receiver.cc, in any
\* interleaving and whatever is erased through a dangling key, keep the promise
\* of class receiver: module Receiver implements module Reassembly.
THEOREM ReceiverKeepsPromise == Spec => ImplementsReassembly
<1>1. TypeOK /\ Coherent /\ Tracked /\ [Next]_vars => [Promise!Next]_(Promise!vars)
  BY NextInv, NextKeepsPromise
<1> QED BY <1>1, InitKeepsPromise, TrackedAlways, PTL
        DEF Spec, ImplementsReassembly, Promise!Spec

-----------------------------------------------------------------------------
(* Who erases a pack, and what it was. *)

\* A wait thread that has erased stays so, with what it converted.
FinishedStay ==
  \A q \in Packs : waiter[q] \in {"push", "done"} =>
    waiter'[q] \in {"push", "done"} /\ converted'[q] = converted[q]

\* A step that frees no pack, makes none and leaves the map alone.
FreesNothing ==
  /\ incoming' = incoming
  /\ object' = "alive" => object = "alive"
  /\ \A q \in Packs : pack'[q].id = pack[q].id /\ pack'[q].state = pack[q].state
  /\ FinishedStay

LEMMA ErasedStays ==
  ASSUME NEW p \in Packs, ErasedByOther(p), FinishedStay, pack'[p].state = "freed"
  PROVE  ErasedByOther(p)'
BY DEF ErasedByOther, FinishedStay

LEMMA KeptByFrame ==
  ASSUME Kept, FreesNothing
  PROVE  Kept'
<1>1. \A p \in Packs : ErasedByOther(p) => ErasedByOther(p)'
  BY ErasedStays DEF FreesNothing, ErasedByOther
<1>2. \A p \in Packs : Began(p)' <=> Began(p)
  BY DEF FreesNothing, Began
<1> QED BY <1>1, <1>2 DEF Kept, FreesNothing, FinishedStay

LEMMA QuietFreesNothing ==
  ASSUME TypeOK, Coherent,
         \/ \E m \in MsgIds : \E c \in Chunks(m) : Deliver(m, c)
         \/ CountFound \/ Detach \/ Find \/ CheckCanceled \/ PopTimesOut
         \/ PopAndSubmit \/ Cancel \/ Crash \/ Notify
         \/ \E p \in Packs : DeadlinePasses(p) \/ SpuriousWakeup(p) \/ Push(p)
         \/ UNCHANGED vars
  PROVE  FreesNothing
<1>1. UNCHANGED <<incoming, pack>> /\ (object' = "alive" => object = "alive")
  BY DEF Deliver, CountFound, Detach, Find, CheckCanceled, PopTimesOut, PopAndSubmit, Cancel,
         Crash, Notify, DeadlinePasses, SpuriousWakeup, Push, vars, mapVars, envVars
<1>2. ASSUME NEW q \in Packs, waiter[q] \in {"push", "done"}
      PROVE  waiter'[q] \in {"push", "done"} /\ converted'[q] = converted[q]
  <2>1. CASE UNCHANGED <<waiter, converted>>
    BY <1>2, <2>1
  <2>2. CASE Notify \/ \E p \in Packs : DeadlinePasses(p) \/ SpuriousWakeup(p) \/ Push(p)
    BY <1>2, <2>2 DEF Notify, DeadlinePasses, SpuriousWakeup, Push, TypeOK
  <2> QED BY <2>1, <2>2 DEF Deliver, CountFound, Detach, Find, CheckCanceled, PopTimesOut,
             PopAndSubmit, Cancel, Crash, vars, waitVars
<1> QED BY <1>1, <1>2 DEF FreesNothing, FinishedStay

LEMMA WorkFreesNothing ==
  ASSUME TypeOK, Coherent, NEW p \in Packs,
         \/ ProcessInline /\ p = listener.pack
         \/ Store /\ p = listener.pack
         \/ StartWaiting(p) \/ ReturnFromWait(p) \/ Convert(p) \/ Unlock(p)
  PROVE  FreesNothing
<1>1. UNCHANGED <<incoming, object>>
  BY DEF ProcessInline, MapWithout, InlineKey, Store, StartWaiting, ReturnFromWait,
         ProcessOrSleep, Convert, Unlock, envVars
<1>2. ASSUME NEW q \in Packs
      PROVE  pack'[q].id = pack[q].id /\ pack'[q].state = pack[q].state
  <2>1. pack[q] \in PackRecord /\ pack \in [Packs -> PackRecord]
    BY DEF TypeOK
  <2>2. CASE ProcessInline /\ p = listener.pack
    <3>1. p \notin DestroyedBy(IF Conversion(p) = "thrown" THEN NoMsg ELSE InlineKey(pack[p].id))
      BY DEF DestroyedBy, InlineKey
    <3>2. pack[p].state = "live" /\ pack' = [pack EXCEPT ![p] =
            [@ EXCEPT !.processing = TRUE, !.state =
               IF p \in DestroyedBy(IF Conversion(p) = "thrown" THEN NoMsg
                                    ELSE InlineKey(pack[p].id))
               THEN "freed" ELSE "live"]]
      BY <2>2 DEF ProcessInline
    <3>3. pack' = [pack EXCEPT ![p] = [@ EXCEPT !.processing = TRUE, !.state = "live"]]
      BY <3>1, <3>2, Zenon
    <3>4. \/ q /= p /\ pack'[q] = pack[q]
          \/ q = p /\ pack'[q] = [pack[q] EXCEPT !.processing = TRUE, !.state = "live"]
      BY <2>1, <3>3
    <3> QED BY <2>1, <3>2, <3>4 DEF PackRecord
  <2>3. CASE Store /\ p = listener.pack
    <3>1. \/ pack' = pack
          \/ \E c : pack' = [pack EXCEPT ![p].chunks = @ \cup {c}, ![p].received = @ + 1]
      BY <2>3 DEF Store
    <3>2. ASSUME NEW c,
                 pack' = [pack EXCEPT ![p].chunks = @ \cup {c}, ![p].received = @ + 1]
          PROVE  pack'[q].id = pack[q].id /\ pack'[q].state = pack[q].state
      <4>1. \/ pack'[q] = pack[q]
            \/ pack'[q] = [pack[q] EXCEPT !.chunks = pack[q].chunks \cup {c},
                                          !.received = pack[q].received + 1]
        BY <2>1, <3>2 DEF PackRecord
      <4> QED BY <2>1, <4>1 DEF PackRecord
    <3> QED BY <3>1, <3>2
  <2>4. CASE StartWaiting(p) \/ ReturnFromWait(p) \/ Convert(p) \/ Unlock(p)
    <3>1. \/ \E b : pack' = [pack EXCEPT ![p].locked = b]
          \/ pack' = [pack EXCEPT ![p].processing = TRUE]
      <4>1. CASE StartWaiting(p)
        BY <4>1 DEF StartWaiting, ProcessOrSleep
      <4>2. CASE ReturnFromWait(p)
        BY <4>2 DEF ReturnFromWait, ProcessOrSleep
      <4>3. CASE Convert(p)
        BY <4>3 DEF Convert
      <4>4. CASE Unlock(p)
        BY <4>4 DEF Unlock
      <4> QED BY <2>4, <4>1, <4>2, <4>3, <4>4
    <3>2. \/ pack'[q] = pack[q]
          \/ \E b : pack'[q] = [pack[q] EXCEPT !.locked = b]
          \/ pack'[q] = [pack[q] EXCEPT !.processing = TRUE]
      <4>1. ASSUME NEW b, pack' = [pack EXCEPT ![p].locked = b]
            PROVE  pack'[q] = pack[q] \/ pack'[q] = [pack[q] EXCEPT !.locked = b]
        BY <2>1, <4>1
      <4>2. ASSUME pack' = [pack EXCEPT ![p].processing = TRUE]
            PROVE  pack'[q] = pack[q] \/ pack'[q] = [pack[q] EXCEPT !.processing = TRUE]
        BY <2>1, <4>2
      <4> QED BY <3>1, <4>1, <4>2, Zenon
    <3> QED BY <2>1, <3>2 DEF PackRecord
  <2> QED BY <2>2, <2>3, <2>4
<1>3. ASSUME NEW q \in Packs, waiter[q] \in {"push", "done"}
      PROVE  waiter'[q] = waiter[q] /\ converted'[q] = converted[q]
  <2>1. CASE ProcessInline /\ p = listener.pack
    <3>1. q /= p
      BY <1>3, <2>1 DEF ProcessInline, Coherent, ListenerOK, WaiterOK
    <3> QED BY <2>1, <3>1 DEF ProcessInline, TypeOK
  <2>2. CASE StartWaiting(p) \/ ReturnFromWait(p) \/ Convert(p) \/ Unlock(p)
    BY <1>3, <2>2 DEF StartWaiting, ReturnFromWait, ProcessOrSleep, Convert, Unlock, TypeOK
  <2> QED BY <2>1, <2>2 DEF Store, waitVars
<1> QED BY <1>1, <1>2, <1>3 DEF FreesNothing, FinishedStay

\* A pack is made for a UUID that has no live pack.
LEMMA CreateKept ==
  ASSUME TypeOK, Coherent, Kept, object = "alive", Create
  PROVE  Kept'
<1> DEFINE s == CHOOSE q \in Packs : pack[q].state = "unborn"
<1>1. PICK p \in Packs : p = s /\ pack[p].state = "unborn"
  BY DEF Create
<1>2. PICK m \in MsgIds : m = listener.msg
  BY DEF Create, Coherent, ListenerOK
<1>3. /\ incoming[m] = NoPack /\ incoming' = [incoming EXCEPT ![m] = p]
      /\ pack' = [pack EXCEPT ![p] = FirstChunk(m, listener.chunk)]
      /\ waiter' = [waiter EXCEPT ![p] = IF HasWaitThread(m) THEN "start" ELSE @]
      /\ converted' = converted
  BY <1>1, <1>2 DEF Create
<1> HIDE DEF s
<1>4. /\ pack'[p].id = m /\ pack'[p].state = "live"
      /\ \A q \in Packs \ {p} : pack'[q] = pack[q] /\ waiter'[q] = waiter[q]
      /\ incoming'[m] = p /\ \A n \in MsgIds \ {m} : incoming'[n] = incoming[n]
  BY <1>3 DEF TypeOK, FirstChunk
<1>5. FinishedStay
  <2>1. waiter[p] = "none"
    BY <1>1 DEF Coherent, WaiterOK
  <2> QED BY <1>3, <1>4, <2>1 DEF FinishedStay
<1>6. ASSUME NEW q \in Packs \ {p}, ErasedByOther(q)
      PROVE  ErasedByOther(q)'
  <2>1. pack[q].state = "freed"
    BY <1>6 DEF ErasedByOther
  <2>2. pack'[q].state = "freed"
    BY <1>4, <2>1
  <2> QED BY <1>5, <1>6, <2>2, ErasedStays
<1>7. ASSUME NEW q \in Packs, Began(q), pack[q].id = m
      PROVE  /\ q /= p /\ pack[q].state = "freed"
             /\ Total[m] = 1 => ErasedByOther(q)'
  <2>1. pack[q].state \in {"live", "freed"} /\ q /= p
    BY <1>1, <1>7 DEF TypeOK, PackRecord, Began
  <2>2. pack[q].state /= "live"
    BY <1>3, <1>7 DEF Kept
  <2>3. waiter[q] \in {"push", "done"} => Total[m] /= 1
    BY <1>7 DEF Coherent, WaiterOK
  <2> QED BY <1>6, <2>1, <2>2, <2>3 DEF Kept
<1>8. ASSUME NEW q \in Packs
      PROVE  /\ pack'[q].state = "live" => incoming'[pack'[q].id] = q
             /\ pack'[q].state = "freed" =>
                  waiter'[q] \in {"push", "done"} \/ ErasedByOther(q)'
  <2>1. CASE q = p
    BY <1>4, <2>1
  <2>2. CASE q /= p
    <3>1. pack'[q] = pack[q] /\ waiter'[q] = waiter[q]
      BY <1>4, <2>2
    <3>2. pack[q].state = "live" => pack[q].id \in MsgIds \ {m}
      BY <1>7 DEF Coherent, PackOK, Began
    <3> QED BY <1>4, <1>6, <2>2, <3>1, <3>2 DEF Kept
  <2> QED BY <2>1, <2>2
<1>9. ASSUME NEW q \in Packs, NEW r \in Packs, Began(q)', Began(r)',
             pack'[q].id = pack'[r].id, Total[pack'[q].id] = 1, q /= r
      PROVE  ErasedByOther(q)' \/ ErasedByOther(r)'
  <2>1. CASE q = p
    <3>1. Began(r) /\ pack[r].id = m
      BY <1>4, <1>9, <2>1 DEF Began
    <3> QED BY <1>4, <1>7, <1>9, <2>1, <3>1
  <2>2. CASE r = p
    <3>1. Began(q) /\ pack[q].id = m
      BY <1>4, <1>9, <2>2 DEF Began
    <3> QED BY <1>4, <1>7, <1>9, <2>2, <3>1
  <2>3. CASE q /= p /\ r /= p
    <3>1. Began(q) /\ Began(r) /\ pack[q].id = pack[r].id /\ Total[pack[q].id] = 1
      BY <1>4, <1>9, <2>3 DEF Began
    <3> QED BY <1>6, <1>9, <2>3, <3>1 DEF Kept
  <2> QED BY <2>1, <2>2, <2>3
<1> QED BY <1>8, <1>9 DEF Kept

\* A pack erased by a wait thread is that thread's own, unlocked by it, or was
\* found under a dangling key.
LEMMA EraseOwn ==
  ASSUME TypeOK, Coherent, Kept, object = "alive", NEW p \in Packs, NEW q \in Packs,
         Erase(p), pack[q].state = "live", pack'[q].state = "freed", q /= p
  PROVE  "dangling_id" \in Undefined
<1> SUFFICES ASSUME "dangling_id" \notin Undefined PROVE FALSE
  OBVIOUS
<1>1. ReadableIds(p) = {pack[p].id}
  BY DEF ReadableIds
<1>2. /\ pack' = [r \in Packs |-> IF r \in DestroyedBy(pack[p].id)
                                  THEN [pack[r] EXCEPT !.state = "freed"] ELSE pack[r]]
      /\ waiter[p] = "erase"
  BY <1>1 DEF Erase
<1>3. pack[p].id \in MsgIds /\ pack[p].state \in {"live", "freed"}
  BY <1>2 DEF Coherent, WaiterOK, PackOK, TypeOK, PackRecord
<1>4. incoming[pack[p].id] = p
  BY <1>2, <1>3 DEF Kept, ErasedByOther
<1>5. q \notin DestroyedBy(pack[p].id)
  BY <1>4 DEF DestroyedBy
<1> QED BY <1>2, <1>5

LEMMA EraseKept ==
  ASSUME TypeOK, Coherent, Kept, object = "alive", NEW p \in Packs, Erase(p)
  PROVE  Kept'
<1>1. PICK id \in ReadableIds(p) :
        /\ incoming' = MapWithout(id)
        /\ pack' = [q \in Packs |-> IF q \in DestroyedBy(id)
                                    THEN [pack[q] EXCEPT !.state = "freed"] ELSE pack[q]]
  BY DEF Erase
<1>2. /\ waiter[p] = "erase" /\ waiter' = [waiter EXCEPT ![p] = "push"]
      /\ converted' = converted
  BY DEF Erase
<1>3. waiter'[p] = "push" /\ \A q \in Packs \ {p} : waiter'[q] = waiter[q]
  BY <1>2 DEF TypeOK
<1>4. FinishedStay
  BY <1>2, <1>3 DEF FinishedStay
<1>5. converted[p] \in {"valid", "invalid"}
  BY <1>2 DEF Coherent, WaiterOK
<1>6. \A q \in Packs : \/ q \in DestroyedBy(id) /\ pack'[q] = [pack[q] EXCEPT !.state = "freed"]
                       \/ q \notin DestroyedBy(id) /\ pack'[q] = pack[q]
  BY <1>1
<1>7. \A q \in DestroyedBy(id) : id \in MsgIds /\ incoming[id] = q /\ pack[q].state = "live"
  BY DEF DestroyedBy, Coherent, MapOK, TypeOK
<1>8. ASSUME NEW q \in Packs
      PROVE  pack'[q].id = pack[q].id /\ (Began(q)' <=> Began(q))
  BY <1>6, <1>7 DEF TypeOK, PackRecord, Began
<1>9. ASSUME NEW q \in Packs, pack'[q].state = "freed"
      PROVE  waiter'[q] \in {"push", "done"} \/ ErasedByOther(q)'
  <2>1. CASE q = p
    BY <1>3, <2>1
  <2>2. CASE q /= p /\ pack[q].state = "live"
    <3>1. "dangling_id" \in Undefined
      BY <1>9, <2>2, EraseOwn
    <3> QED BY <1>2, <1>3, <1>5, <1>9, <2>2, <3>1 DEF ErasedByOther
  <2>3. CASE q /= p /\ pack[q].state /= "live"
    <3>1. pack[q].state = "freed"
      BY <1>6, <1>7, <1>9, <2>3
    <3> QED BY <1>3, <1>4, <1>9, <2>3, <3>1, ErasedStays DEF Kept
  <2> QED BY <2>1, <2>2, <2>3
<1>10. ASSUME NEW q \in Packs, pack'[q].state = "live"
       PROVE  incoming'[pack'[q].id] = q
  <2>1. pack'[q] = pack[q] /\ q \notin DestroyedBy(id)
    BY <1>6, <1>10 DEF TypeOK, PackRecord
  <2>2. incoming[pack[q].id] = q /\ pack[q].id \in MsgIds /\ pack[q].id /= id
    BY <1>10, <2>1 DEF Kept, Coherent, PackOK, DestroyedBy
  <2> QED BY <1>1, <2>1, <2>2 DEF MapWithout, TypeOK
<1>11. ASSUME NEW q \in Packs, ErasedByOther(q)
       PROVE  ErasedByOther(q)'
  <2>1. pack'[q].state = "freed"
    BY <1>6, <1>7, <1>11 DEF ErasedByOther
  <2> QED BY <1>4, <1>11, <2>1, ErasedStays
<1> QED BY <1>8, <1>9, <1>10, <1>11 DEF Kept

LEMMA DestroyKept ==
  ASSUME TypeOK, Coherent, Kept, Destroy
  PROVE  Kept'
<1>1. /\ pack' = [p \in Packs |-> IF pack[p].state = "live"
                                   THEN [pack[p] EXCEPT !.state = "freed"] ELSE pack[p]]
      /\ object' = "destroyed" /\ UNCHANGED <<waiter, converted>>
  BY DEF Destroy, waitVars
<1>2. \A q \in Packs : /\ (Began(q)' <=> Began(q)) /\ pack'[q].id = pack[q].id
                       /\ pack[q].state = "freed" => pack'[q].state = "freed"
  BY <1>1 DEF TypeOK, PackRecord, Began
<1>3. \A q \in Packs : ErasedByOther(q) => ErasedByOther(q)'
  BY <1>1, <1>2 DEF ErasedByOther
<1> QED BY <1>1, <1>2, <1>3 DEF Kept

\* Every step but the making and the erasing of packs.
LEMMA OtherStepsFreeNothing ==
  ASSUME TypeOK, Coherent, [Next]_vars
  PROVE  \/ FreesNothing
         \/ object = "alive" /\ Create
         \/ object = "alive" /\ \E p \in Packs : Erase(p)
         \/ Destroy
<1>1. CASE ListenerStep
  <2>1. ProcessInline \/ Store => listener.pack \in Packs
    BY DEF ProcessInline, Store, Coherent, ListenerOK
  <2> QED BY <1>1, <2>1, QuietFreesNothing, WorkFreesNothing DEF ListenerStep
<1>2. ASSUME NEW p \in Packs, WaiterStep(p)
      PROVE  FreesNothing \/ (object = "alive" /\ Erase(p))
  BY <1>2, WorkFreesNothing, QuietFreesNothing DEF WaiterStep
<1>3. CASE \E p \in Packs : TimerStep(p)
  BY <1>3, QuietFreesNothing DEF TimerStep
<1>4. CASE ExecutorStep
  BY <1>4, QuietFreesNothing DEF ExecutorStep
<1>5. CASE Environment
  BY <1>5, QuietFreesNothing DEF Environment
<1>6. CASE UNCHANGED vars
  BY <1>6, QuietFreesNothing
<1> QED BY <1>1, <1>2, <1>3, <1>4, <1>5, <1>6 DEF Next

LEMMA NextKept ==
  TypeOK /\ Coherent /\ Kept /\ [Next]_vars => Kept'
BY OtherStepsFreeNothing, KeptByFrame, CreateKept, EraseKept, DestroyKept

LEMMA InitKept == Init => Kept
BY DEF Init, Kept, Began, Unborn

\* A live pack stays in the map until its own thread or the dangling key of
\* another erases it, and a message of one chunk is given one pack unless another
\* message's thread has erased it.
THEOREM KeptAlways == Spec => []Kept
<1>1. TypeOK /\ Coherent /\ Kept /\ [Next]_vars => Kept'
  BY NextKept
<1> QED BY <1>1, InitKept, TypeCorrect, Coherence, PTL DEF Spec

\* A single-chunk message is queued once, however often it is redelivered, unless
\* another message's wait thread has erased its pack.
THEOREM SingleChunkQueuedOnce == Spec => []SingleChunkOnce
<1>1. TypeOK /\ Coherent /\ Tracked /\ Kept => SingleChunkOnce
  <2> SUFFICES ASSUME TypeOK, Coherent, Tracked, Kept,
                      NEW i \in DOMAIN Outbox, NEW j \in DOMAIN Outbox,
                      i /= j, Outbox[i].id = Outbox[j].id, Total[Outbox[i].id] = 1
               PROVE  ErasedByOther(Outbox[i].pack) \/ ErasedByOther(Outbox[j].pack)
    BY DEF SingleChunkOnce
  <2>1. Outbox[i].pack /= Outbox[j].pack
    BY DEF Tracked, OncePerPack
  <2> QED BY <2>1, OutboxEntries DEF Kept
<1> QED BY <1>1, KeptAlways, TrackedAlways, PTL

\* Only the wait thread of another pack erases a pack whose mutex is locked.
THEOREM LockedErasedByOther == Spec => LockedEraseCause
<1> DEFINE Cause == \A p \in Packs :
             /\ pack[p].state = "live" /\ pack'[p].state = "freed" /\ object' = "alive"
             /\ pack[p].locked
             => /\ "dangling_id" \in Undefined
                /\ \E q \in Packs \ {p} : waiter[q] = "erase" /\ waiter'[q] = "push"
<1>1. TypeOK /\ Coherent /\ Tracked /\ Kept /\ [Next]_vars => [Cause]_vars
  <2> SUFFICES ASSUME TypeOK, Coherent, Tracked, Kept, [Next]_vars,
                      NEW p \in Packs, pack[p].state = "live",
                      pack'[p].state = "freed", object' = "alive", pack[p].locked
               PROVE  /\ "dangling_id" \in Undefined
                      /\ \E q \in Packs \ {p} : waiter[q] = "erase" /\ waiter'[q] = "push"
    OBVIOUS
  <2>1. ~FreesNothing /\ ~Destroy
    BY DEF FreesNothing, Destroy
  <2>2. ~Create
    <3>1. ASSUME NEW s, pack' = [pack EXCEPT ![s] = FirstChunk(listener.msg, listener.chunk)]
          PROVE  FALSE
      <4>1. pack'[p] = pack[p] \/ pack'[p] = FirstChunk(listener.msg, listener.chunk)
        BY <3>1 DEF TypeOK
      <4> QED BY <4>1 DEF FirstChunk
    <3> QED BY <3>1 DEF Create
  <2>3. PICK q \in Packs : Erase(q) /\ object = "alive"
    BY <2>1, <2>2, OtherStepsFreeNothing
  <2>4. waiter[q] = "erase" /\ waiter'[q] = "push"
    BY <2>3 DEF Erase, TypeOK
  <2>5. q /= p
    BY <2>4 DEF Tracked, MutexOK
  <2>6. "dangling_id" \in Undefined
    BY <2>3, <2>5, EraseOwn
  <2> QED BY <2>4, <2>5, <2>6
<1> HIDE DEF Cause
<1>2. Spec => [][Cause]_vars
  BY <1>1, KeptAlways, TrackedAlways, PTL DEF Spec
<1> QED BY <1>2 DEF Cause, LockedEraseCause

\* Memory that is gone is touched, while the receiver lives, only by a
\* notification, for a message that had timed out or of which a chunk came twice,
\* in a pack that another message's thread erased, or in the unlocked map.
THEOREM CrashHasCause == Spec => CrashCause
<1> DEFINE Late == /\ listener.pc \in {"detach", "find", "lock"}
                   /\ \/ \E p \in expired : pack[p].id = listener.msg
                      \/ \E c \in Chunks(listener.msg) : copies[listener.msg][c] > 1
           Astray == \E p \in Packs :
                       /\ ErasedByOther(p)
                       /\ \/ waiter[p] \in {"start", "woken", "convert", "unlock"}
                          \/ pack[p].id = listener.msg
           Raced == \E p \in Packs : MapRace(p)
           Cause ==
             object = "alive" /\ object' = "crashed" =>
               \/ listener.pc = "notify"
               \/ /\ listener.pc \in {"detach", "find", "lock"}
                  /\ \/ \E p \in expired : pack[p].id = listener.msg
                     \/ \E c \in Chunks(listener.msg) : copies[listener.msg][c] > 1
               \/ \E p \in Packs :
                    /\ ErasedByOther(p)
                    /\ \/ waiter[p] \in {"start", "woken", "convert", "unlock"}
                       \/ pack[p].id = listener.msg
               \/ \E p \in Packs : MapRace(p)
<1>1. TypeOK /\ Coherent /\ Tracked /\ Kept /\ [Next]_vars => [Cause]_vars
  <2> SUFFICES ASSUME TypeOK, Coherent, Tracked, Kept, Next,
                      object = "alive", object' = "crashed"
               PROVE  listener.pc = "notify" \/ Late \/ Astray \/ Raced
    BY DEF vars, envVars
  <2>1. ListenerTouchesFreed \/ (\E p \in Packs : WaiterTouchesFreed(p)) \/ Raced
    <3>1. CASE ListenerStep
      BY <3>1 DEF ListenerStep, Create, CountFound, ProcessInline, Detach, Find, Store,
                  Notify, envVars
    <3>2. ASSUME NEW p \in Packs, WaiterStep(p)
          PROVE  WaiterTouchesFreed(p) \/ MapRace(p)
      BY <3>2 DEF WaiterStep, StartWaiting, ReturnFromWait, ProcessOrSleep, Convert,
                  Unlock, Erase, Push, envVars
    <3>3. ASSUME NEW p \in Packs, TimerStep(p) PROVE FALSE
      BY <3>3 DEF TimerStep, DeadlinePasses, envVars
    <3>4. ~ExecutorStep
      BY DEF ExecutorStep, CheckCanceled, PopTimesOut, PopAndSubmit, envVars
    <3>5. ~Environment
      BY DEF Environment, Deliver, SpuriousWakeup, Cancel, Destroy, envVars
    <3> QED BY <3>1, <3>2, <3>3, <3>4, <3>5 DEF Next
  <2>2. ASSUME NEW p \in Packs, WaiterTouchesFreed(p)
        PROVE  Astray
    BY <2>2 DEF WaiterTouchesFreed, Kept
  <2>3. ASSUME NEW p \in Packs, pack[p].state = "freed", pack[p].id = listener.msg
        PROVE  \/ Astray
               \/ Began(p) /\ Total[pack[p].id] /= 1 /\ (p \in expired \/ Complete(p))
    BY <2>3 DEF Kept, Coherent, WaiterOK, Tracked, MutexOK, Began
  <2>4. CASE listener.pc = "find" /\ ListenerTouchesFreed
    <3>1. incoming[listener.msg] = NoPack
      BY <2>4 DEF ListenerTouchesFreed
    <3>2. PICK p \in Packs : Began(p) /\ pack[p].id = listener.msg
      BY <2>4 DEF Tracked, NewPackOK
    <3>3. pack[p].state = "freed"
      <4>1. pack[p].state \in {"live", "freed"}
        BY <3>2 DEF TypeOK, PackRecord, Began
      <4> QED BY <3>1, <3>2, <4>1 DEF Kept
    <3> HIDE DEF Astray
    <3> QED BY <2>3, <2>4, <3>2, <3>3, ChunkCameTwice
  <2>5. CASE listener.pc \in {"inline", "detach", "lock"} /\ ListenerTouchesFreed
    <3>1. PICK p \in Packs : p = listener.pack
      BY <2>5 DEF Coherent, ListenerOK
    <3>2. pack[p].state = "freed" /\ pack[p].id = listener.msg
      BY <2>5, <3>1 DEF ListenerTouchesFreed, Coherent, ListenerOK
    <3> HIDE DEF Astray
    <3>3. listener.pc = "inline" => Astray
      BY <2>3, <3>2 DEF Coherent, ListenerOK
    <3>4. CASE listener.pc = "lock"
      BY <2>3, <3>2, <3>4, ChunkCameTwice
    <3>5. CASE listener.pc = "detach"
      <4>1. pack[p].chunks = {listener.chunk} /\ Total[pack[p].id] /= 1
        BY <3>1, <3>2, <3>5 DEF Tracked, NewPackOK
      <4>2. pack[p].received = Cardinality(pack[p].chunks)
        BY <3>2 DEF Coherent, PackOK
      <4>3. Cardinality({listener.chunk}) = 1
        BY FS_Singleton
      <4> QED BY <2>3, <3>2, <3>5, <4>1, <4>2, <4>3 DEF Complete
    <3> QED BY <2>5, <3>3, <3>4, <3>5
  <2> QED BY <2>1, <2>2, <2>4, <2>5 DEF ListenerTouchesFreed
<1> HIDE DEF Cause
<1>2. Spec => [][Cause]_vars
  BY <1>1, KeptAlways, TrackedAlways, PTL DEF Spec
<1> QED BY <1>2 DEF Cause, CrashCause

=============================================================================
