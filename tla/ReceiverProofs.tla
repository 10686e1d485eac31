--------------------------- MODULE ReceiverProofs ---------------------------
(***************************************************************************)
(* Proofs about Receiver for any messages, packs, redelivery bound and set *)
(* of undefined behaviours.                                                *)
(***************************************************************************)
EXTENDS Receiver, TLAPS, FiniteSetTheorems, SequenceTheorems

USE ReceiverAssumption

\* What a conversion may end with.
LEMMA ConversionType ==
  ASSUME NEW p \in Packs
  PROVE  Conversion(p) \in {"valid", "invalid", "thrown"}
BY DEF Conversion

\* A message made from a pack that was created is a message record.
LEMMA MessageType ==
  ASSUME NEW p \in Packs, NEW result, pack[p].id \in MsgIds
  PROVE  Message(p, result) \in MessageRecord
BY DEF Message, MessageRecord

\* The initial state is well typed and coherent.
LEMMA InitInv == Init => TypeOK /\ Coherent
<1> SUFFICES ASSUME Init PROVE TypeOK /\ Coherent
  OBVIOUS
<1> USE DEF Init
<1>1. TypeOK
  BY EmptySeq DEF TypeOK, PackRecord, ListenerRecord, WaiterPlace, Unborn, Idle, MessageRecord
<1>2. Coherent
  BY DEF Coherent, PackOK, WaiterOK, ListenerOK, MapOK, OutboxOK, Unborn, Idle
<1> QED BY <1>1, <1>2

\* A message has finitely many chunks, as many as its message ID says.
LEMMA ChunksFinite ==
  ASSUME NEW m \in MsgIds
  PROVE  IsFiniteSet(Chunks(m)) /\ Cardinality(Chunks(m)) = Total[m]
<1> DEFINE b == Total[m] - 1
<1>1. 0 \in Int /\ b \in Int /\ b >= 0 /\ b - 0 + 1 = Total[m]
  OBVIOUS
<1>2. Chunks(m) = 0 .. b
  BY DEF Chunks
<1> HIDE DEF b
<1>3. IsFiniteSet(0 .. b) /\ Cardinality(0 .. b) = IF 0 > b THEN 0 ELSE b - 0 + 1
  BY <1>1, FS_Interval, Zenon
<1>4. Cardinality(0 .. b) = b - 0 + 1
  BY <1>1, <1>3
<1> QED BY <1>1, <1>2, <1>3, <1>4, Zenon

\* A complete pack holds every chunk of its message: it counts as many distinct
\* chunks as the message has.
LEMMA CompleteHasAll ==
  ASSUME NEW p \in Packs, PackOK(p), pack[p].state /= "unborn", Complete(p)
  PROVE  pack[p].chunks = Chunks(pack[p].id)
<1> DEFINE m == pack[p].id
<1>1. m \in MsgIds /\ pack[p].chunks \subseteq Chunks(m)
      /\ Total[m] = Cardinality(pack[p].chunks)
  BY DEF PackOK, Complete
<1> QED BY <1>1, ChunksFinite, FS_Subset

\* What most steps leave alone: no pack is forgotten or given another message,
\* and no timeout is undone.
PacksKept ==
  /\ expired \subseteq expired'
  /\ \A p \in Packs : pack[p].state /= "unborn" =>
       pack'[p].state /= "unborn" /\ pack'[p].id = pack[p].id

\* Good entries stay good.
LEMMA EntryKept ==
  ASSUME PacksKept, NEW e \in MessageRecord, EntryOK(e)
  PROVE  EntryOK(e)'
BY DEF PacksKept, EntryOK, MessageRecord

LEMMA OutboxKept ==
  ASSUME TypeOK, OutboxOK, PacksKept, UNCHANGED <<queue, submitted>>
  PROVE  OutboxOK'
<1>1. /\ \A i \in DOMAIN queue : queue[i] \in MessageRecord
      /\ \A i \in DOMAIN submitted : submitted[i] \in MessageRecord
  BY LenProperties DEF TypeOK
<1>2. /\ \A i \in DOMAIN queue : EntryOK(queue[i])'
      /\ \A i \in DOMAIN submitted : EntryOK(submitted[i])'
  <2>1. \A e \in MessageRecord : EntryOK(e) => EntryOK(e)'
    BY EntryKept
  <2> QED BY <1>1, <2>1 DEF OutboxOK, EntryOK
<1> QED BY <1>2 DEF OutboxOK

\* A good entry is queued.
LEMMA OutboxAppend ==
  ASSUME TypeOK, OutboxOK, PacksKept, NEW e \in MessageRecord, EntryOK(e)',
         queue' = Append(queue, e), submitted' = submitted
  PROVE  OutboxOK'
<1>1. queue \in Seq(MessageRecord) /\ submitted \in Seq(MessageRecord)
  BY DEF TypeOK
<1>2. \A x \in MessageRecord : EntryOK(x) => EntryOK(x)'
  BY EntryKept
<1>3. \A i \in DOMAIN queue : queue[i] \in MessageRecord /\ EntryOK(queue[i])
  BY <1>1, LenProperties DEF OutboxOK
<1>4. \A i \in DOMAIN submitted : submitted[i] \in MessageRecord /\ EntryOK(submitted[i])
  BY <1>1, LenProperties DEF OutboxOK
<1>5. ASSUME NEW i \in DOMAIN queue' PROVE EntryOK(queue[i])'
  <2>1. DOMAIN queue = 1 .. Len(queue) /\ DOMAIN queue' = 1 .. Len(queue) + 1
        /\ Len(queue) \in Nat
    BY <1>1, AppendProperties, LenProperties
  <2>2. CASE i = Len(queue) + 1
    <3>1. queue'[i] = e
      BY <1>1, <2>2, AppendProperties
    <3> QED BY <3>1 DEF EntryOK
  <2>3. CASE i /= Len(queue) + 1
    <3>1. i \in DOMAIN queue /\ queue'[i] = queue[i]
      BY <1>1, <2>1, <2>3, AppendProperties
    <3> QED BY <1>2, <1>3, <3>1 DEF EntryOK
  <2> QED BY <2>2, <2>3
<1>6. \A i \in DOMAIN submitted' : EntryOK(submitted[i])'
  BY <1>2, <1>4 DEF EntryOK
<1> QED BY <1>5, <1>6 DEF OutboxOK

\* A pack of which nothing that PackOK speaks of changes.
SamePack(q) ==
  /\ pack'[q].state = "unborn" <=> pack[q].state = "unborn"
  /\ pack'[q].id = pack[q].id
  /\ pack'[q].chunks = pack[q].chunks
  /\ pack'[q].received = pack[q].received

LEMMA SamePackOK ==
  ASSUME NEW q \in Packs, SamePack(q), PackOK(q)
  PROVE  PackOK(q)'
BY DEF SamePack, PackOK

\* The wait thread of a pack that is the same, at the same place.
LEMMA SameWaiterOK ==
  ASSUME NEW q \in Packs, SamePack(q), pack'[q].locked = pack[q].locked,
         WaiterOK(q), waiter'[q] = waiter[q], converted'[q] = converted[q],
         q \in expired => q \in expired'
  PROVE  WaiterOK(q)'
BY DEF SamePack, WaiterOK, Complete

\* The listener stays where it is while packs change only in what it ignores.
LEMMA SameListenerOK ==
  ASSUME ListenerOK, listener' \in {listener, Idle}, \A q \in Packs : SamePack(q)
  PROVE  ListenerOK'
BY DEF ListenerOK, SamePack, Complete, Idle

\* The map stays the same while the packs keep their message and state.
LEMMA SameMapOK ==
  ASSUME TypeOK, MapOK, incoming' = incoming,
         \A q \in Packs : SamePack(q) /\ pack'[q].state = pack[q].state
  PROVE  MapOK'
<1> SUFFICES ASSUME NEW k \in MsgIds, incoming[k] /= NoPack
             PROVE  pack'[incoming[k]].state = "live" /\ pack'[incoming[k]].id = k
  BY DEF MapOK
<1>1. incoming[k] \in Packs
  BY DEF TypeOK
<1> QED BY <1>1 DEF MapOK, SamePack

\* Creating a pack for the first chunk of a message.
LEMMA CreateInv ==
  ASSUME TypeOK, Coherent, Create
  PROVE  TypeOK' /\ Coherent'
<1> DEFINE m == listener.msg
           p == CHOOSE q \in Packs : pack[q].state = "unborn"
<1>1. p \in Packs /\ pack[p].state = "unborn"
  BY DEF Create
<1>2. m \in MsgIds /\ listener.chunk \in Chunks(m) /\ listener.pc = "count"
  BY DEF Create, Coherent, ListenerOK
<1>3. /\ incoming' = [incoming EXCEPT ![m] = p]
      /\ pack' = [pack EXCEPT ![p] = FirstChunk(m, listener.chunk)]
      /\ waiter' = [waiter EXCEPT ![p] = IF HasWaitThread(m) THEN "start" ELSE @]
      /\ listener' = [listener EXCEPT !.pack = p,
                            !.pc = IF Total[m] = 1 THEN "inline" ELSE "detach"]
      /\ UNCHANGED <<converted, expired, outVars, envVars>>
  BY DEF Create
<1>4. waiter[p] = "none"
  BY <1>1 DEF Coherent, WaiterOK
<1> HIDE DEF p
<1>5. TypeOK'
  <2>1. FirstChunk(m, listener.chunk) \in PackRecord
    BY <1>2 DEF FirstChunk, PackRecord, Chunks
  <2>2. listener' \in ListenerRecord
    BY <1>1, <1>3 DEF TypeOK, ListenerRecord
  <2>3. waiter' \in [Packs -> WaiterPlace]
    BY <1>1, <1>3 DEF TypeOK, WaiterPlace
  <2> QED BY <1>1, <1>2, <1>3, <2>1, <2>2, <2>3 DEF TypeOK, outVars, envVars
<1>6. ASSUME NEW q \in Packs PROVE PackOK(q)' /\ WaiterOK(q)'
  <2>1. CASE q = p
    <3>1. pack'[q] = FirstChunk(m, listener.chunk)
      BY <1>1, <1>3, <2>1 DEF TypeOK
    <3>2. waiter'[q] = IF Total[m] /= 1 THEN "start" ELSE "none"
      BY <1>1, <1>3, <1>4, <2>1 DEF TypeOK, HasWaitThread
    <3>3. Cardinality({listener.chunk}) = 1
      BY FS_Singleton
    <3> QED BY <1>2, <3>1, <3>2, <3>3 DEF PackOK, WaiterOK, FirstChunk
  <2>2. CASE q /= p
    <3>1. pack'[q] = pack[q] /\ waiter'[q] = waiter[q] /\ converted' = converted
          /\ expired' = expired
      BY <1>1, <1>3, <2>2 DEF TypeOK
    <3> QED BY <3>1, SamePackOK, SameWaiterOK DEF SamePack, Coherent
  <2> QED BY <2>1, <2>2
<1>7. ListenerOK'
  <2>1. pack'[p] = FirstChunk(m, listener.chunk)
    BY <1>1, <1>3 DEF TypeOK
  <2>2. /\ listener'.msg = m /\ listener'.chunk = listener.chunk /\ listener'.pack = p
        /\ listener'.pc = IF Total[m] = 1 THEN "inline" ELSE "detach"
    BY <1>3 DEF TypeOK, ListenerRecord
  <2> QED BY <1>1, <1>2, <2>1, <2>2 DEF ListenerOK, FirstChunk, Complete
<1>8. MapOK'
  <2> SUFFICES ASSUME NEW k \in MsgIds, incoming'[k] /= NoPack
               PROVE  pack'[incoming'[k]].state = "live" /\ pack'[incoming'[k]].id = k
    BY DEF MapOK
  <2>1. CASE k = m
    BY <1>1, <1>2, <1>3, <2>1 DEF TypeOK, FirstChunk
  <2>2. CASE k /= m
    <3>1. incoming'[k] = incoming[k] /\ incoming[k] \in Packs
      BY <1>2, <1>3, <2>2 DEF TypeOK
    <3>2. pack[incoming[k]].state = "live" /\ pack[incoming[k]].id = k
      BY <3>1 DEF Coherent, MapOK
    <3> QED BY <1>1, <1>3, <3>1, <3>2 DEF TypeOK
  <2> QED BY <2>1, <2>2
<1>9. OutboxOK'
  <2>1. PacksKept
    BY <1>1, <1>3 DEF PacksKept, TypeOK
  <2> QED BY <1>3, <2>1, OutboxKept DEF Coherent, outVars
<1> QED BY <1>5, <1>6, <1>7, <1>8, <1>9 DEF Coherent

\* The listener moves on without changing a pack or the map.
LEMMA ListenerMovesInv ==
  ASSUME TypeOK, Coherent,
         \/ \E m \in MsgIds : \E c \in Chunks(m) : Deliver(m, c)
         \/ CountFound \/ Detach \/ Find
  PROVE  TypeOK' /\ Coherent'
<1>1. UNCHANGED <<mapVars, waitVars, outVars, object>>
  BY DEF Deliver, CountFound, Detach, Find, envVars
<1>2. MapOK' /\ OutboxOK' /\ \A p \in Packs : PackOK(p)' /\ WaiterOK(p)'
  BY <1>1 DEF Coherent, PackOK, WaiterOK, MapOK, OutboxOK, EntryOK, Complete,
              mapVars, waitVars, outVars
<1>3. ASSUME NEW m \in MsgIds, NEW c \in Chunks(m), Deliver(m, c)
      PROVE  TypeOK' /\ ListenerOK'
  <2>1. listener' = [pc |-> "count", msg |-> m, chunk |-> c, pack |-> NoPack]
        /\ copies' = [copies EXCEPT ![m][c] = @ + 1]
    BY <1>3 DEF Deliver
  <2>2. listener' \in ListenerRecord /\ ListenerOK'
    BY <2>1 DEF ListenerRecord, ListenerOK, Chunks
  <2>3. \A k \in MsgIds : copies'[k] \in [Chunks(k) -> Nat]
    BY <1>3, <2>1 DEF TypeOK
  <2> QED BY <1>1, <2>2, <2>3 DEF TypeOK, mapVars, waitVars, outVars
<1>4. ASSUME CountFound \/ Detach \/ Find
      PROVE  TypeOK' /\ ListenerOK'
  <2>1. listener' \in ListenerRecord
    <3>1. CASE CountFound
      BY <3>1 DEF TypeOK, ListenerRecord, CountFound
    <3>2. CASE Detach
      BY <3>2 DEF ListenerRecord, Detach, Idle
    <3>3. CASE Find
      <4>1. Idle \in ListenerRecord
        BY DEF ListenerRecord, Idle
      <4>2. incoming[listener.msg] \in Packs
        BY <3>3 DEF Find, Coherent, ListenerOK, TypeOK
      <4>3. [listener EXCEPT !.pc = "lock", !.pack = incoming[listener.msg]] \in ListenerRecord
        BY <4>2 DEF TypeOK, ListenerRecord
      <4> QED BY <3>3, <4>1, <4>3 DEF Find
    <3> QED BY <1>4, <3>1, <3>2, <3>3
  <2>2. ListenerOK'
    <3>1. CASE CountFound
      BY <1>1, <3>1 DEF CountFound, Coherent, ListenerOK, TypeOK, ListenerRecord
    <3>2. CASE Detach
      BY <3>2 DEF Detach, ListenerOK, Idle
    <3>3. CASE Find
      <4>1. incoming[listener.msg] \in Packs /\ listener.msg \in MsgIds
            /\ listener.chunk \in Chunks(listener.msg)
            /\ pack[incoming[listener.msg]].state = "live"
            /\ pack[incoming[listener.msg]].id = listener.msg
        BY <3>3 DEF Find, Coherent, ListenerOK, MapOK, TypeOK
      <4>2. listener' = Idle \/ listener' = [listener EXCEPT !.pc = "lock",
                                                         !.pack = incoming[listener.msg]]
        BY <3>3 DEF Find
      <4>3. CASE listener' = Idle
        BY <4>3 DEF ListenerOK, Idle
      <4>4. CASE listener' = [listener EXCEPT !.pc = "lock", !.pack = incoming[listener.msg]]
        <5>1. /\ listener'.pc = "lock" /\ listener'.pack = incoming[listener.msg]
              /\ listener'.msg = listener.msg /\ listener'.chunk = listener.chunk
          BY <4>4 DEF TypeOK, ListenerRecord
        <5>2. pack' = pack
          BY <1>1 DEF mapVars
        <5> QED BY <4>1, <5>1, <5>2 DEF ListenerOK
      <4> QED BY <4>2, <4>3, <4>4
    <3> QED BY <1>4, <3>1, <3>2, <3>3
  <2>3. copies' = copies
    BY <1>4 DEF CountFound, Detach, Find, envVars
  <2> QED BY <1>1, <2>1, <2>2, <2>3 DEF TypeOK, mapVars, waitVars, outVars
<1> QED BY <1>2, <1>3, <1>4 DEF Coherent

\* A single chunk is processed by the listener.
LEMMA ProcessInlineInv ==
  ASSUME TypeOK, Coherent, ProcessInline
  PROVE  TypeOK' /\ Coherent'
<1> DEFINE p == listener.pack
<1>1. p \in Packs /\ pack[p].state = "live" /\ pack[p].id \in MsgIds /\ Complete(p)
  BY DEF ProcessInline, Coherent, ListenerOK, PackOK
<1>2. incoming' = incoming /\ listener' = Idle
  BY DEF ProcessInline, MapWithout, InlineKey
<1>3. pack' = [pack EXCEPT ![p] = [@ EXCEPT !.processing = TRUE, !.state = "live"]]
  <2>1. DestroyedBy(NoMsg) = {}
    BY DEF DestroyedBy
  <2>2. p \notin DestroyedBy(IF Conversion(p) = "thrown" THEN NoMsg ELSE InlineKey(pack[p].id))
    BY <2>1 DEF InlineKey
  <2>3. pack' = [pack EXCEPT ![p] = [@ EXCEPT !.processing = TRUE, !.state =
                   IF p \in DestroyedBy(IF Conversion(p) = "thrown" THEN NoMsg
                                        ELSE InlineKey(pack[p].id))
                   THEN "freed" ELSE "live"]]
    BY DEF ProcessInline
  <2> QED BY <2>2, <2>3, Zenon
<1>4. /\ converted' = [converted EXCEPT ![p] = Conversion(p)]
      /\ UNCHANGED <<waiter, expired, submitted, executor, canceled, envVars>>
  BY DEF ProcessInline
<1>5. queue' = IF Conversion(p) = "thrown" THEN queue
               ELSE Append(queue, Message(p, Conversion(p)))
  BY DEF ProcessInline
<1>6. /\ Conversion(p) = "invalid" => Content[pack[p].id] = "unparsable"
      /\ Conversion(p) \in {"valid", "invalid", "thrown"}
  BY <1>1, CompleteHasAll DEF Conversion, Coherent
<1>7. Message(p, Conversion(p)) \in MessageRecord
  BY <1>1, MessageType
<1>8. waiter[p] = "none"
  BY <1>1 DEF Coherent, WaiterOK, ListenerOK, ProcessInline
<1> HIDE DEF p
<1>9. /\ pack' \in [Packs -> PackRecord]
      /\ \A q \in Packs : /\ SamePack(q) /\ pack'[q].locked = pack[q].locked
                          /\ pack'[q].state = pack[q].state
  <2>1. /\ pack'[p] = [pack[p] EXCEPT !.processing = TRUE, !.state = "live"]
        /\ \A q \in Packs \ {p} : pack'[q] = pack[q]
        /\ pack[p] \in PackRecord
    BY <1>1, <1>3 DEF TypeOK
  <2>2. pack'[p] \in PackRecord /\ SamePack(p) /\ pack'[p].locked = pack[p].locked
        /\ pack'[p].state = pack[p].state
    BY <1>1, <2>1 DEF PackRecord, SamePack
  <2> QED BY <1>1, <1>3, <2>1, <2>2 DEF TypeOK, SamePack
<1>10. TypeOK'
  <2>1. queue' \in Seq(MessageRecord)
    BY <1>5, <1>7, AppendProperties DEF TypeOK
  <2>2. listener' \in ListenerRecord
    BY <1>2 DEF ListenerRecord, Idle
  <2>3. converted' \in [Packs -> {"none", "valid", "invalid", "thrown"}]
    BY <1>1, <1>4, <1>6 DEF TypeOK
  <2> QED BY <1>2, <1>4, <1>9, <2>1, <2>2, <2>3 DEF TypeOK, envVars
<1>11. ASSUME NEW q \in Packs PROVE PackOK(q)' /\ WaiterOK(q)'
  <2>1. PackOK(q)'
    BY <1>9, SamePackOK DEF Coherent
  <2>2. waiter'[q] = waiter[q] /\ expired' = expired
    BY <1>4
  <2>3. CASE q = p
    BY <1>8, <2>1, <2>2, <2>3 DEF WaiterOK
  <2>4. CASE q /= p
    <3>1. converted'[q] = converted[q]
      BY <1>1, <1>4, <2>4 DEF TypeOK
    <3> QED BY <1>9, <2>1, <2>2, <3>1, SameWaiterOK DEF Coherent
  <2> QED BY <2>1, <2>3, <2>4
<1>12. ListenerOK'
  BY <1>2, <1>9, SameListenerOK DEF Coherent
<1>13. MapOK'
  BY <1>2, <1>9, SameMapOK DEF Coherent
<1>14. OutboxOK'
  <2>1. PacksKept
    BY <1>4, <1>9 DEF PacksKept, SamePack
  <2>2. CASE Conversion(p) = "thrown"
    BY <1>4, <1>5, <2>1, <2>2, OutboxKept DEF Coherent
  <2>3. CASE Conversion(p) /= "thrown"
    <3>1. PICK e \in MessageRecord : e = Message(p, Conversion(p))
      BY <1>7
    <3>2. e.pack = p /\ e.id = pack[p].id /\ (e.valid \/ Conversion(p) = "invalid")
      BY <1>6, <2>3, <3>1 DEF Message
    <3>3. pack'[p].state /= "unborn" /\ pack'[p].id = pack[p].id
      BY <1>1, <1>9 DEF SamePack
    <3>4. EntryOK(e)'
      BY <1>6, <3>2, <3>3 DEF EntryOK
    <3> QED BY <1>4, <1>5, <2>1, <2>3, <3>1, <3>4, OutboxAppend DEF Coherent
  <2> QED BY <2>2, <2>3
<1> QED BY <1>10, <1>11, <1>12, <1>13, <1>14 DEF Coherent

\* A chunk is stored in a pack whose mutex is free, so that no wait thread is
\* converting it.
LEMMA StoreInv ==
  ASSUME TypeOK, Coherent, Store
  PROVE  TypeOK' /\ Coherent'
<1>p. PICK p \in Packs : p = listener.pack
  BY DEF Store, Coherent, ListenerOK
<1>c. PICK c \in Nat : c = listener.chunk
  BY DEF TypeOK, ListenerRecord
<1>1. /\ p \in Packs /\ pack[p].state = "live" /\ ~pack[p].locked
      /\ pack[p].id = listener.msg /\ listener.msg \in MsgIds
      /\ c \in Chunks(pack[p].id) /\ listener.pc = "lock"
  BY <1>p, <1>c DEF Store, Coherent, ListenerOK
<1>2. UNCHANGED <<incoming, waitVars, outVars, envVars>>
  BY DEF Store
<1>3. CASE c \in pack[p].chunks
  <2>1. pack' = pack /\ listener' = Idle
    BY <1>p, <1>c, <1>3 DEF Store
  <2>2. listener' \in ListenerRecord
    BY <2>1 DEF ListenerRecord, Idle
  <2>3. TypeOK'
    BY <1>2, <2>1, <2>2 DEF TypeOK, waitVars, outVars, envVars
  <2>4. \A q \in Packs : SamePack(q) /\ pack'[q].state = pack[q].state
    BY <2>1 DEF SamePack
  <2>5. ListenerOK' /\ MapOK'
    BY <1>2, <2>1, <2>4, SameListenerOK, SameMapOK DEF Coherent
  <2>6. OutboxOK' /\ \A q \in Packs : PackOK(q)' /\ WaiterOK(q)'
    BY <1>2, <2>1 DEF Coherent, OutboxOK, EntryOK, PackOK, WaiterOK, Complete, waitVars, outVars
  <2> QED BY <2>3, <2>5, <2>6 DEF Coherent
<1>4. CASE c \notin pack[p].chunks
  <2> DEFINE r == [pack[p] EXCEPT !.chunks = pack[p].chunks \cup {c},
                                  !.received = pack[p].received + 1]
  <2>1. /\ listener' = [listener EXCEPT !.pc = "notify"]
        /\ pack' = [pack EXCEPT ![p].chunks = @ \cup {c}, ![p].received = @ + 1]
    BY <1>p, <1>c, <1>4 DEF Store
  <2>2. /\ pack'[p] = r
        /\ pack' \in [Packs -> PackRecord]
        /\ \A q \in Packs \ {p} : pack'[q] = pack[q]
    <3>1. pack \in [Packs -> PackRecord]
      BY DEF TypeOK
    <3> QED BY <1>1, <2>1, <3>1 DEF PackRecord
  <2>3. pack[p] \in PackRecord
    BY <1>1 DEF TypeOK
  <2>4. /\ pack'[p].chunks = pack[p].chunks \cup {c}
        /\ pack'[p].received = pack[p].received + 1
        /\ pack'[p].id = pack[p].id /\ pack'[p].state = pack[p].state
        /\ pack'[p].locked = pack[p].locked
    BY <2>2, <2>3 DEF PackRecord
  <2> HIDE DEF r
  <2>5. TypeOK'
    <3>2. listener' \in ListenerRecord
      BY <2>1 DEF TypeOK, ListenerRecord
    <3> QED BY <1>2, <2>2, <3>2 DEF TypeOK, waitVars, outVars, envVars
  <2>6. PackOK(p)'
    <3>1. /\ pack[p].chunks \subseteq Chunks(pack[p].id)
          /\ pack[p].received = Cardinality(pack[p].chunks)
      BY <1>1 DEF Coherent, PackOK
    <3>2. IsFiniteSet(Chunks(pack[p].id))
      BY <1>1, ChunksFinite
    <3>3. IsFiniteSet(pack[p].chunks)
      BY <3>1, <3>2, FS_Subset
    <3>4. Cardinality(pack[p].chunks \cup {c}) = Cardinality(pack[p].chunks) + 1
      BY <1>4, <3>3, FS_AddElement
    <3> QED BY <1>1, <2>4, <3>1, <3>4 DEF PackOK
  <2>7. WaiterOK(p)'
    BY <1>1, <1>2, <2>4 DEF Coherent, WaiterOK, waitVars
  <2>8. ASSUME NEW q \in Packs, q /= p PROVE PackOK(q)' /\ WaiterOK(q)'
    BY <1>2, <2>2, <2>8 DEF Coherent, PackOK, WaiterOK, Complete, waitVars
  <2>9. ListenerOK'
    <3>1. /\ listener'.pc = "notify" /\ listener'.pack = p
          /\ listener'.msg = listener.msg /\ listener'.chunk = c
      BY <1>p, <1>c, <2>1 DEF TypeOK, ListenerRecord
    <3> QED BY <1>p, <1>c, <1>1, <2>4, <3>1 DEF ListenerOK
  <2>10. \A q \in Packs : pack'[q].id = pack[q].id /\ pack'[q].state = pack[q].state
    BY <2>2, <2>4
  <2>11. MapOK'
    <3> SUFFICES ASSUME NEW k \in MsgIds, incoming[k] /= NoPack
                 PROVE  pack'[incoming[k]].state = "live" /\ pack'[incoming[k]].id = k
      BY <1>2 DEF MapOK
    <3>1. incoming[k] \in Packs
      BY DEF TypeOK
    <3>2. pack[incoming[k]].state = "live" /\ pack[incoming[k]].id = k
      BY DEF Coherent, MapOK
    <3> QED BY <2>10, <3>1, <3>2
  <2>12. OutboxOK'
    <3>1. PacksKept
      BY <1>2, <2>10 DEF PacksKept, waitVars
    <3> QED BY <1>2, <3>1, OutboxKept DEF Coherent, outVars
  <2>13. \A q \in Packs : PackOK(q)' /\ WaiterOK(q)'
    BY <2>6, <2>7, <2>8
  <2> QED BY <2>5, <2>9, <2>11, <2>12, <2>13 DEF Coherent
<1> QED BY <1>3, <1>4

\* Waking does not touch the packs.
LEMMA WakeInv ==
  ASSUME TypeOK, Coherent,
         Notify \/ \E p \in Packs : DeadlinePasses(p) \/ SpuriousWakeup(p)
  PROVE  TypeOK' /\ Coherent'
<1>1. /\ UNCHANGED <<mapVars, converted, outVars, envVars>>
      /\ listener' \in {listener, Idle}
  BY DEF Notify, DeadlinePasses, SpuriousWakeup
<1>2. expired \subseteq expired' /\ expired' \subseteq Packs
  BY DEF TypeOK, Notify, DeadlinePasses, SpuriousWakeup
<1>3. \E p \in Packs : /\ waiter[p] \in {"asleep", "woken"}
                       /\ waiter' = [waiter EXCEPT ![p] = "woken"]
                       \/ waiter' = waiter
  BY DEF Coherent, ListenerOK, Notify, DeadlinePasses, SpuriousWakeup
<1>4. waiter' \in [Packs -> WaiterPlace]
  BY <1>3 DEF TypeOK, WaiterPlace
<1>5. \A q \in Packs : waiter'[q] = waiter[q]
                       \/ (waiter[q] \in {"asleep", "woken"} /\ waiter'[q] = "woken")
  BY <1>3 DEF TypeOK
<1>6. listener' \in ListenerRecord
  BY <1>1 DEF TypeOK, ListenerRecord, Idle
<1>7. TypeOK'
  BY <1>1, <1>2, <1>4, <1>6 DEF TypeOK, mapVars, outVars, envVars
<1>8. ASSUME NEW q \in Packs PROVE PackOK(q)' /\ WaiterOK(q)'
  BY <1>1, <1>2, <1>5 DEF Coherent, PackOK, WaiterOK, Complete, mapVars
<1>9. \A q \in Packs : SamePack(q) /\ pack'[q].state = pack[q].state
  BY <1>1 DEF SamePack, mapVars
<1>10. ListenerOK' /\ MapOK'
  BY <1>1, <1>9, SameListenerOK, SameMapOK DEF Coherent, mapVars
<1>11. OutboxOK'
  <2>1. PacksKept
    BY <1>2, <1>9 DEF PacksKept, SamePack
  <2> QED BY <1>1, <2>1, OutboxKept DEF Coherent, outVars
<1> QED BY <1>7, <1>8, <1>10, <1>11 DEF Coherent

\* A step of the wait thread of p that changes only the lock or the processing
\* mark of its own pack keeps everything but what WaiterOK says of p.
LEMMA OwnPackInv ==
  ASSUME TypeOK, Coherent, NEW p \in Packs, pack[p].state = "live",
         NEW r \in PackRecord, r.state = "live", r.id = pack[p].id,
         r.chunks = pack[p].chunks, r.received = pack[p].received,
         pack' = [pack EXCEPT ![p] = r],
         NEW w \in WaiterPlace, waiter' = [waiter EXCEPT ![p] = w],
         converted' \in [Packs -> {"none", "valid", "invalid", "thrown"}],
         \A q \in Packs \ {p} : converted'[q] = converted[q],
         UNCHANGED <<incoming, expired, listener, outVars, envVars>>,
         WaiterOK(p)'
  PROVE  TypeOK' /\ Coherent'
<1>1. /\ pack' \in [Packs -> PackRecord] /\ pack'[p] = r
      /\ \A q \in Packs \ {p} : pack'[q] = pack[q]
      /\ waiter' \in [Packs -> WaiterPlace]
      /\ \A q \in Packs \ {p} : waiter'[q] = waiter[q]
  BY DEF TypeOK
<1>2. TypeOK'
  BY <1>1 DEF TypeOK, outVars, envVars
<1>3. \A q \in Packs : SamePack(q) /\ pack'[q].state = pack[q].state
  BY <1>1 DEF SamePack
<1>4. ASSUME NEW q \in Packs PROVE PackOK(q)' /\ WaiterOK(q)'
  <2>1. PackOK(q)'
    BY <1>3, SamePackOK DEF Coherent
  <2>2. CASE q /= p
    BY <1>1, <1>3, <2>1, <2>2, SameWaiterOK DEF Coherent
  <2> QED BY <2>1, <2>2
<1>5. ListenerOK' /\ MapOK'
  BY <1>3, SameListenerOK, SameMapOK DEF Coherent
<1>6. OutboxOK'
  <2>1. PacksKept
    BY <1>3 DEF PacksKept, SamePack
  <2> QED BY <2>1, OutboxKept DEF Coherent, outVars
<1> QED BY <1>2, <1>4, <1>5, <1>6 DEF Coherent

\* The thread decides with the mutex held whether the pack is finished.
LEMMA ProcessOrSleepInv ==
  ASSUME TypeOK, Coherent, NEW p \in Packs, StartWaiting(p) \/ ReturnFromWait(p)
  PROVE  TypeOK' /\ Coherent'
<1>1. PICK finished \in BOOLEAN :
        ProcessOrSleep(p, finished) /\ (finished => p \in expired \/ Complete(p))
  BY DEF TypeOK, StartWaiting, ReturnFromWait, Complete
<1>2. waiter[p] /= "none"
  BY DEF StartWaiting, ReturnFromWait
<1> DEFINE r == [pack[p] EXCEPT !.locked = finished]
           w == IF finished THEN "convert" ELSE "asleep"
<1>3. /\ pack[p].state = "live" /\ pack[p] \in PackRecord
      /\ pack' = [pack EXCEPT ![p] = r] /\ waiter' = [waiter EXCEPT ![p] = w]
      /\ UNCHANGED <<incoming, converted, expired, listener, outVars, envVars>>
  BY <1>1 DEF ProcessOrSleep, TypeOK
<1>4. /\ r \in PackRecord /\ r.state = "live" /\ r.id = pack[p].id
      /\ r.chunks = pack[p].chunks /\ r.received = pack[p].received
      /\ r.locked = finished
  BY <1>1, <1>3 DEF PackRecord
<1>5. w \in WaiterPlace
  BY DEF WaiterPlace
<1> HIDE DEF r
<1>6. WaiterOK(p)'
  <2>1. pack'[p] = r /\ waiter'[p] = w
    BY <1>3 DEF TypeOK
  <2>2. Total[pack[p].id] /= 1
    BY <1>2 DEF Coherent, WaiterOK
  <2> QED BY <1>1, <1>3, <1>4, <2>1, <2>2 DEF WaiterOK, Complete
<1> HIDE DEF w
<1> QED BY <1>3, <1>4, <1>5, <1>6, OwnPackInv DEF TypeOK

\* The conversion of a pack that is complete and holds all chunks of a good
\* message is valid.
LEMMA ConvertInv ==
  ASSUME TypeOK, Coherent, NEW p \in Packs, Convert(p)
  PROVE  TypeOK' /\ Coherent'
<1>1. /\ pack[p].state = "live" /\ pack[p].locked /\ pack[p].id \in MsgIds
      /\ p \in expired \/ Complete(p)
      /\ Total[pack[p].id] /= 1
  BY DEF Convert, Coherent, WaiterOK, PackOK
<1>2. /\ Conversion(p) = "invalid" => p \in expired \/ Content[pack[p].id] = "unparsable"
      /\ Conversion(p) \in {"valid", "invalid", "thrown"}
  BY <1>1, CompleteHasAll DEF Conversion, Coherent
<1> DEFINE r == [pack[p] EXCEPT !.processing = TRUE]
           w == IF Conversion(p) = "thrown" THEN "done" ELSE "unlock"
<1>3. /\ pack[p] \in PackRecord
      /\ pack' = [pack EXCEPT ![p] = r] /\ waiter' = [waiter EXCEPT ![p] = w]
      /\ converted' = [converted EXCEPT ![p] = Conversion(p)]
      /\ UNCHANGED <<incoming, expired, listener, outVars, envVars>>
  BY DEF Convert, TypeOK
<1>4. /\ r \in PackRecord /\ r.state = "live" /\ r.id = pack[p].id
      /\ r.chunks = pack[p].chunks /\ r.received = pack[p].received
      /\ r.locked
  BY <1>1, <1>3 DEF PackRecord
<1>5. w \in WaiterPlace
  BY DEF WaiterPlace
<1>6. /\ converted' \in [Packs -> {"none", "valid", "invalid", "thrown"}]
      /\ converted'[p] = Conversion(p)
      /\ \A q \in Packs \ {p} : converted'[q] = converted[q]
  BY <1>2, <1>3 DEF TypeOK
<1> HIDE DEF r
<1>7. WaiterOK(p)'
  <2>1. pack'[p] = r /\ waiter'[p] = w
    BY <1>3 DEF TypeOK
  <2> QED BY <1>1, <1>2, <1>3, <1>4, <1>6, <2>1 DEF WaiterOK, Complete
<1> HIDE DEF w
<1> QED BY <1>1, <1>3, <1>4, <1>5, <1>6, <1>7, OwnPackInv

\* The mutex is unlocked.
LEMMA UnlockInv ==
  ASSUME TypeOK, Coherent, NEW p \in Packs, Unlock(p)
  PROVE  TypeOK' /\ Coherent'
<1> DEFINE r == [pack[p] EXCEPT !.locked = FALSE]
<1>1. /\ waiter[p] = "unlock" /\ pack[p].state = "live" /\ pack[p] \in PackRecord
      /\ pack' = [pack EXCEPT ![p] = r] /\ waiter' = [waiter EXCEPT ![p] = "erase"]
      /\ UNCHANGED <<incoming, converted, expired, listener, outVars, envVars>>
  BY DEF Unlock, TypeOK
<1>2. /\ r \in PackRecord /\ r.state = "live" /\ r.id = pack[p].id
      /\ r.chunks = pack[p].chunks /\ r.received = pack[p].received
  BY <1>1 DEF PackRecord
<1> HIDE DEF r
<1>3. WaiterOK(p)'
  <2>1. pack'[p] = r /\ waiter'[p] = "erase"
    BY <1>1 DEF TypeOK
  <2> QED BY <1>1, <1>2, <2>1 DEF Coherent, WaiterOK, Complete
<1>4. "erase" \in WaiterPlace
  BY DEF WaiterPlace
<1> QED BY <1>1, <1>2, <1>3, <1>4, OwnPackInv DEF TypeOK

\* Whatever key is erased, the packs left in the map are alive: each pack is in
\* it under one key only.
LEMMA EraseInv ==
  ASSUME TypeOK, Coherent, NEW p \in Packs, Erase(p)
  PROVE  TypeOK' /\ Coherent'
<1>1. PICK id \in ReadableIds(p) :
        /\ incoming' = MapWithout(id)
        /\ pack' = [q \in Packs |-> IF q \in DestroyedBy(id)
                                   THEN [pack[q] EXCEPT !.state = "freed"] ELSE pack[q]]
  BY DEF Erase
<1>2. /\ waiter[p] = "erase"
      /\ waiter' = [waiter EXCEPT ![p] = "push"]
      /\ UNCHANGED <<converted, expired, listener, outVars, envVars>>
  BY DEF Erase
<1>3. \A q \in DestroyedBy(id) : q \in Packs /\ pack[q].state = "live"
  BY DEF DestroyedBy, Coherent, MapOK
<1>4. ASSUME NEW q \in Packs
      PROVE  /\ pack'[q] \in PackRecord /\ SamePack(q) /\ pack'[q].locked = pack[q].locked
             /\ q \notin DestroyedBy(id) => pack'[q].state = pack[q].state
  <2>1. pack[q] \in PackRecord
    BY DEF TypeOK
  <2>2. CASE q \in DestroyedBy(id)
    BY <1>1, <1>3, <2>1, <2>2 DEF PackRecord, SamePack
  <2>3. CASE q \notin DestroyedBy(id)
    BY <1>1, <2>1, <2>3 DEF SamePack
  <2> QED BY <2>2, <2>3
<1>5. /\ waiter' \in [Packs -> WaiterPlace] /\ waiter'[p] = "push"
      /\ \A q \in Packs \ {p} : waiter'[q] = waiter[q]
  BY <1>2 DEF TypeOK, WaiterPlace
<1>6. incoming' \in [MsgIds -> Packs \cup {NoPack}]
  BY <1>1 DEF TypeOK, MapWithout
<1>7. TypeOK'
  <2>1. pack' \in [Packs -> PackRecord]
    BY <1>1, <1>4
  <2> QED BY <1>2, <1>5, <1>6, <2>1 DEF TypeOK, outVars, envVars
<1>8. ASSUME NEW q \in Packs PROVE PackOK(q)' /\ WaiterOK(q)'
  <2>1. PackOK(q)'
    BY <1>4, SamePackOK DEF Coherent
  <2>2. CASE q = p
    BY <1>2, <1>4, <1>5, <2>1, <2>2 DEF Coherent, WaiterOK, SamePack
  <2>3. CASE q /= p
    BY <1>2, <1>4, <1>5, <2>1, <2>3, SameWaiterOK DEF Coherent
  <2> QED BY <2>2, <2>3
<1>9. ListenerOK'
  BY <1>2, <1>4, SameListenerOK DEF Coherent
<1>10. MapOK'
  <2> SUFFICES ASSUME NEW k \in MsgIds, incoming'[k] /= NoPack
               PROVE  pack'[incoming'[k]].state = "live" /\ pack'[incoming'[k]].id = k
    BY DEF MapOK
  <2>1. k /= id /\ incoming'[k] = incoming[k]
    BY <1>1 DEF TypeOK, MapWithout
  <2>2. incoming[k] \in Packs /\ pack[incoming[k]].state = "live" /\ pack[incoming[k]].id = k
    BY <2>1 DEF TypeOK, Coherent, MapOK
  <2>3. incoming[k] \notin DestroyedBy(id)
    BY <2>1, <2>2 DEF DestroyedBy, Coherent, MapOK
  <2> QED BY <1>4, <2>1, <2>2, <2>3 DEF SamePack
<1>11. OutboxOK'
  <2>1. PacksKept
    BY <1>2, <1>4 DEF PacksKept, SamePack
  <2> QED BY <1>2, <2>1, OutboxKept DEF Coherent, outVars
<1> QED BY <1>7, <1>8, <1>9, <1>10, <1>11 DEF Coherent

\* The message of a converted pack is queued.
LEMMA PushInv ==
  ASSUME TypeOK, Coherent, NEW p \in Packs, Push(p)
  PROVE  TypeOK' /\ Coherent'
<1>1. /\ waiter[p] = "push" /\ waiter' = [waiter EXCEPT ![p] = "done"]
      /\ queue' = Append(queue, Message(p, converted[p]))
      /\ UNCHANGED <<mapVars, converted, expired, listener, submitted, executor,
                     canceled, envVars>>
  BY DEF Push
<1>2. /\ pack[p].state /= "unborn" /\ pack[p].id \in MsgIds
      /\ Total[pack[p].id] /= 1
      /\ converted[p] \in {"valid", "invalid"}
      /\ converted[p] = "invalid" => p \in expired \/ Content[pack[p].id] = "unparsable"
  BY <1>1 DEF Coherent, PackOK, WaiterOK
<1>3. PICK e \in MessageRecord : e = Message(p, converted[p])
  BY <1>2, MessageType
<1>4. \A q \in Packs : SamePack(q) /\ pack'[q].locked = pack[q].locked
                        /\ pack'[q].state = pack[q].state
  BY <1>1 DEF SamePack, mapVars
<1>5. /\ waiter' \in [Packs -> WaiterPlace] /\ waiter'[p] = "done"
      /\ \A q \in Packs \ {p} : waiter'[q] = waiter[q]
  BY <1>1 DEF TypeOK, WaiterPlace
<1>6. TypeOK'
  <2>1. queue' \in Seq(MessageRecord)
    BY <1>1, <1>3, AppendProperties DEF TypeOK
  <2> QED BY <1>1, <1>5, <2>1 DEF TypeOK, mapVars, envVars
<1>7. ASSUME NEW q \in Packs PROVE PackOK(q)' /\ WaiterOK(q)'
  <2>1. PackOK(q)'
    BY <1>4, SamePackOK DEF Coherent
  <2>2. CASE q = p
    BY <1>1, <1>2, <1>5, <2>1, <2>2 DEF WaiterOK, mapVars
  <2>3. CASE q /= p
    BY <1>1, <1>4, <1>5, <2>1, <2>3, SameWaiterOK DEF Coherent
  <2> QED BY <2>2, <2>3
<1>8. ListenerOK' /\ MapOK'
  BY <1>1, <1>4, SameListenerOK, SameMapOK DEF Coherent, mapVars
<1>9. OutboxOK'
  <2>1. PacksKept
    BY <1>1, <1>4 DEF PacksKept, SamePack
  <2>2. e.pack = p /\ e.id = pack[p].id /\ (e.valid \/ converted[p] = "invalid")
    BY <1>2, <1>3 DEF Message
  <2>3. EntryOK(e)'
    BY <1>1, <1>2, <2>2 DEF EntryOK, mapVars
  <2> QED BY <1>1, <1>3, <2>1, <2>3, OutboxAppend DEF Coherent
<1> QED BY <1>6, <1>7, <1>8, <1>9 DEF Coherent

\* A step that leaves the packs, the threads and the map alone, and moves entries
\* of the outbox at most from the queue to the submitted messages.
LEMMA QuietInv ==
  ASSUME TypeOK, Coherent, UNCHANGED <<mapVars, waitVars, listener, copies>>,
         queue' \in Seq(MessageRecord), submitted' \in Seq(MessageRecord),
         executor' \in {"check", "pop", "stopped"}, canceled' \in BOOLEAN,
         object' \in {"alive", "destroyed", "crashed"},
         \A i \in DOMAIN queue' : EntryOK(queue'[i]),
         \A i \in DOMAIN submitted' : EntryOK(submitted'[i])
  PROVE  TypeOK' /\ Coherent'
<1>1. TypeOK'
  BY DEF TypeOK, mapVars, waitVars
<1>2. OutboxOK'
  BY DEF OutboxOK, EntryOK, mapVars, waitVars
<1>3. ListenerOK' /\ MapOK' /\ \A p \in Packs : PackOK(p)' /\ WaiterOK(p)'
  BY DEF Coherent, PackOK, WaiterOK, ListenerOK, MapOK, Complete, mapVars, waitVars
<1> QED BY <1>1, <1>2, <1>3 DEF Coherent

\* The executor takes the first message of the queue and submits it.
LEMMA PopInv ==
  ASSUME TypeOK, Coherent, PopAndSubmit
  PROVE  TypeOK' /\ Coherent'
<1>1. /\ queue \in Seq(MessageRecord) /\ queue /= <<>>
      /\ submitted \in Seq(MessageRecord)
      /\ queue' = Tail(queue) /\ submitted' = Append(submitted, Head(queue))
  BY DEF PopAndSubmit, TypeOK
<1>2. /\ \A i \in DOMAIN queue : EntryOK(queue[i])
      /\ \A i \in DOMAIN submitted : EntryOK(submitted[i])
  BY DEF Coherent, OutboxOK
<1>3. /\ Len(queue) \in Nat \ {0} /\ DOMAIN queue = 1 .. Len(queue)
      /\ Len(submitted) \in Nat /\ DOMAIN submitted = 1 .. Len(submitted)
  BY <1>1, LenProperties, EmptySeq
<1>4. /\ Head(queue) = queue[1] /\ Head(queue) \in MessageRecord
      /\ queue' \in Seq(MessageRecord) /\ Len(queue') = Len(queue) - 1
      /\ \A i \in 1 .. Len(queue') : queue'[i] = queue[i + 1]
  BY <1>1, HeadTailProperties
<1>5. DOMAIN queue' = 1 .. Len(queue')
  BY <1>4, LenProperties
<1>6. ASSUME NEW i \in DOMAIN queue' PROVE EntryOK(queue'[i])
  <2>1. i + 1 \in DOMAIN queue /\ queue'[i] = queue[i + 1]
    BY <1>3, <1>4, <1>5
  <2> QED BY <1>2, <2>1
<1>7. /\ submitted' \in Seq(MessageRecord) /\ Len(submitted') = Len(submitted) + 1
      /\ \A i \in 1 .. Len(submitted) : submitted'[i] = submitted[i]
      /\ submitted'[Len(submitted) + 1] = queue[1]
  BY <1>1, <1>4, AppendProperties
<1>8. DOMAIN submitted' = 1 .. Len(submitted) + 1
  BY <1>7, LenProperties
<1>9. ASSUME NEW i \in DOMAIN submitted' PROVE EntryOK(submitted'[i])
  <2>1. CASE i = Len(submitted) + 1
    BY <1>2, <1>3, <1>7, <2>1
  <2>2. CASE i /= Len(submitted) + 1
    <3>1. i \in DOMAIN submitted /\ submitted'[i] = submitted[i]
      BY <1>3, <1>7, <1>8, <2>2
    <3> QED BY <1>2, <3>1
  <2> QED BY <2>1, <2>2
<1>10. /\ executor' \in {"check", "pop", "stopped"} /\ canceled' \in BOOLEAN
       /\ object' \in {"alive", "destroyed", "crashed"}
       /\ UNCHANGED <<mapVars, waitVars, listener, copies>>
  BY DEF PopAndSubmit, TypeOK, envVars
<1> QED BY <1>4, <1>6, <1>7, <1>9, <1>10, QuietInv

\* Neither the executor's other steps, nor cancellation, nor a crash touch the
\* packs.
LEMMA ExecutorInv ==
  ASSUME TypeOK, Coherent, CheckCanceled \/ PopTimesOut \/ Cancel \/ Crash
  PROVE  TypeOK' /\ Coherent'
<1>1. UNCHANGED <<mapVars, waitVars, listener, copies, queue, submitted>>
  BY DEF CheckCanceled, PopTimesOut, Cancel, Crash, outVars, envVars
<1>2. /\ executor' \in {"check", "pop", "stopped"} /\ canceled' \in BOOLEAN
      /\ object' \in {"alive", "destroyed", "crashed"}
  BY DEF TypeOK, CheckCanceled, PopTimesOut, Cancel, Crash, outVars, envVars
<1>3. /\ \A i \in DOMAIN queue' : EntryOK(queue'[i])
      /\ \A i \in DOMAIN submitted' : EntryOK(submitted'[i])
  BY <1>1 DEF Coherent, OutboxOK
<1>4. queue' \in Seq(MessageRecord) /\ submitted' \in Seq(MessageRecord)
  BY <1>1 DEF TypeOK
<1> QED BY <1>1, <1>2, <1>3, <1>4, QuietInv

\* The owner destroys the receiver: its packs are gone, the map is empty.
LEMMA DestroyInv ==
  ASSUME TypeOK, Coherent, Destroy
  PROVE  TypeOK' /\ Coherent'
<1>1. /\ pack' = [p \in Packs |-> IF pack[p].state = "live"
                                   THEN [pack[p] EXCEPT !.state = "freed"] ELSE pack[p]]
      /\ incoming' = [m \in MsgIds |-> NoPack] /\ object' = "destroyed"
      /\ UNCHANGED <<listener, copies, waitVars, outVars>>
  BY DEF Destroy
<1>2. ASSUME NEW q \in Packs
      PROVE  pack'[q] \in PackRecord /\ SamePack(q) /\ pack'[q].locked = pack[q].locked
  <2>1. pack[q] \in PackRecord
    BY DEF TypeOK
  <2>2. CASE pack[q].state = "live"
    BY <1>1, <2>1, <2>2 DEF PackRecord, SamePack
  <2>3. CASE pack[q].state /= "live"
    BY <1>1, <2>1, <2>3 DEF SamePack
  <2> QED BY <2>2, <2>3
<1>3. TypeOK'
  <2>1. pack' \in [Packs -> PackRecord]
    BY <1>1, <1>2
  <2>2. incoming' \in [MsgIds -> Packs \cup {NoPack}]
    BY <1>1
  <2> QED BY <1>1, <2>1, <2>2 DEF TypeOK, waitVars, outVars
<1>4. ASSUME NEW q \in Packs PROVE PackOK(q)' /\ WaiterOK(q)'
  BY <1>1, <1>2, SamePackOK, SameWaiterOK DEF Coherent, waitVars
<1>5. ListenerOK'
  BY <1>1, <1>2, SameListenerOK DEF Coherent
<1>6. MapOK'
  BY <1>1 DEF MapOK
<1>7. OutboxOK'
  <2>1. PacksKept
    BY <1>1, <1>2 DEF PacksKept, SamePack, waitVars
  <2> QED BY <1>1, <2>1, OutboxKept DEF Coherent, outVars
<1> QED BY <1>3, <1>4, <1>5, <1>6, <1>7 DEF Coherent

\* Every step preserves type correctness and coherence.
LEMMA NextInv ==
  TypeOK /\ Coherent /\ [Next]_vars => TypeOK' /\ Coherent'
<1> SUFFICES ASSUME TypeOK, Coherent, [Next]_vars
             PROVE  TypeOK' /\ Coherent'
  OBVIOUS
<1>1. CASE ListenerStep
  BY <1>1, CreateInv, ListenerMovesInv, ProcessInlineInv, StoreInv, WakeInv, ExecutorInv
     DEF ListenerStep
<1>2. ASSUME NEW p \in Packs, WaiterStep(p)
      PROVE  TypeOK' /\ Coherent'
  BY <1>2, ProcessOrSleepInv, ConvertInv, UnlockInv, EraseInv, PushInv, ExecutorInv
     DEF WaiterStep
<1>3. CASE \E p \in Packs : TimerStep(p)
  BY <1>3, WakeInv DEF TimerStep
<1>4. CASE ExecutorStep
  BY <1>4, ExecutorInv, PopInv DEF ExecutorStep
<1>5. CASE Environment
  BY <1>5, ListenerMovesInv, WakeInv, ExecutorInv, DestroyInv DEF Environment
<1>6. CASE UNCHANGED vars
  BY <1>6 DEF TypeOK, Coherent, PackOK, WaiterOK, ListenerOK, MapOK, OutboxOK, EntryOK,
              Complete, vars, mapVars, waitVars, outVars, envVars
<1> QED BY <1>1, <1>2, <1>3, <1>4, <1>5, <1>6 DEF Next

\* Every reachable state is well typed.
THEOREM TypeCorrect == Spec => []TypeOK
<1>1. TypeOK /\ Coherent /\ [Next]_vars => (TypeOK /\ Coherent)'
  BY NextInv
<1> QED BY <1>1, InitInv, PTL DEF Spec

\* In every reachable state the map, the packs, the threads and the queue of
\* receiver.cc fit together, for any number of messages, chunks and redeliveries
\* and whatever the wait threads erase.
THEOREM Coherence == Spec => []Coherent
<1>1. TypeOK /\ Coherent /\ [Next]_vars => (TypeOK /\ Coherent)'
  BY NextInv
<1> QED BY <1>1, InitInv, PTL DEF Spec

\* A message is marked invalid only because its pack timed out or its body does
\* not parse.
THEOREM InvalidNeedsTimeout == Spec => []InvalidOnlyAfterTimeout
<1>1. TypeOK /\ Coherent => InvalidOnlyAfterTimeout
  <2> SUFFICES ASSUME TypeOK, Coherent, NEW i \in DOMAIN Outbox
               PROVE  EntryOK(Outbox[i])
    BY DEF InvalidOnlyAfterTimeout, EntryOK
  <2>1. queue \in Seq(MessageRecord) /\ submitted \in Seq(MessageRecord)
    BY DEF TypeOK
  <2>2. DOMAIN Outbox = 1 .. Len(submitted) + Len(queue)
    BY <2>1, ConcatProperties, LenProperties DEF Outbox
  <2>3. Outbox[i] = IF i <= Len(submitted) THEN submitted[i] ELSE queue[i - Len(submitted)]
    BY <2>1, <2>2, ConcatProperties DEF Outbox
  <2>4. CASE i <= Len(submitted)
    BY <2>1, <2>2, <2>3, <2>4, LenProperties DEF Coherent, OutboxOK
  <2>5. CASE ~(i <= Len(submitted))
    <3>1. Len(submitted) \in Nat /\ Len(queue) \in Nat
      BY <2>1, LenProperties
    <3>2. i - Len(submitted) \in 1 .. Len(queue)
      BY <2>2, <2>5, <3>1
    <3> QED BY <2>1, <2>3, <2>5, <3>2, LenProperties DEF Coherent, OutboxOK
  <2> QED BY <2>4, <2>5
<1> QED BY <1>1, TypeCorrect, Coherence, PTL

=============================================================================
