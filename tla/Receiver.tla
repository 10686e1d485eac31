------------------------------ MODULE Receiver ------------------------------
(***************************************************************************)
(* The receiving side of dripline: receiver::handle_message_chunk collects *)
(* AMQP chunks into message packs, one detached wait_for_message thread    *)
(* per multi-chunk pack decides when a pack is finished, and               *)
(* concurrent_receiver hands finished messages through a queue to the      *)
(* thread in execute() (src/library/receiver.cc, receiver.hh).             *)
(*                                                                         *)
(* Three kinds of thread interleave here: the listener (the caller of      *)
(* handle_message_chunk), the wait thread of each pack, and the executor.  *)
(* A step ends where another thread may see what the code has done: before *)
(* each access to the map, to a pack mutex or condition variable, to       *)
(* f_processing and to the queue.                                          *)
(***************************************************************************)
EXTENDS Naturals, FiniteSets, Sequences

CONSTANTS
  MsgIds,      \* UUIDs of the dripline messages on the wire
  Total,       \* chunks of each message (third part of the AMQP message ID)
  Content,     \* what message::process_message finds in a complete message
  Packs,       \* incoming_message_pack objects that may be created
  MaxCopies,   \* bound: deliveries of one chunk (1 = no redelivery)
  Undefined,   \* undefined behaviours whose bad outcomes are explored
  NoPack, NoMsg

ASSUME ReceiverAssumption ==
  /\ Total \in [MsgIds -> Nat \ {0}]
  /\ Content \in [MsgIds -> {"good", "unparsable", "rejected"}]
  /\ MaxCopies \in Nat
  /\ Undefined \subseteq {"dangling_id", "map_race"}
  /\ NoPack \notin Packs
  /\ NoMsg \notin MsgIds

Chunks(m) == 0 .. (Total[m] - 1)

VARIABLES
  incoming,    \* f_incoming_messages: the pack stored under each UUID
  pack,        \* the pack objects, with the fields of incoming_message_pack
  waiter,      \* where the wait_for_message thread of each pack stands
  converted,   \* t_message of process_message_pack, per pack
  expired,     \* packs whose f_single_message_wait_ms deadline has passed
  listener,    \* handle_message_chunk: its location and local variables
  queue,       \* f_message_queue
  submitted,   \* messages popped by execute() and given to submit_message
  executor,    \* where execute() stands
  canceled,    \* f_canceled
  object,      \* the receiver object: "alive", "destroyed", or the process "crashed"
  copies       \* deliveries so far of each chunk (the broker's side)

mapVars  == <<incoming, pack>>
waitVars == <<waiter, converted, expired>>
outVars  == <<queue, submitted, executor, canceled>>
envVars  == <<object, copies>>
vars     == <<mapVars, waitVars, listener, outVars, envVars>>

Unborn == [state |-> "unborn", id |-> NoMsg, chunks |-> {}, received |-> 0,
           processing |-> FALSE, locked |-> FALSE]

\* A new pack holding its first chunk (lines 75 to 81).
FirstChunk(m, c) == [state |-> "live", id |-> m, chunks |-> {c}, received |-> 1,
                     processing |-> FALSE, locked |-> FALSE]

Idle == [pc |-> "idle", msg |-> NoMsg, chunk |-> 0, pack |-> NoPack]

Complete(p) == pack[p].received = Total[pack[p].id]

\* Several chunks are waited for by a thread of their own (lines 83 to 94).
HasWaitThread(m) == Total[m] /= 1

\* Mutant: missing chunks are filled in and the message passes for complete.
FilledConversion(p) == IF Content[pack[p].id] = "rejected" THEN "thrown" ELSE "valid"

\* Mutant: a message that is not valid makes the conversion throw.
StrictConversion(p) ==
  IF Content[pack[p].id] = "good" /\ pack[p].chunks = Chunks(pack[p].id)
  THEN "valid" ELSE "thrown"

\* message::process_message: what becomes of the chunks collected in a pack.
\* A missing chunk or an unparsable body gives a message with is_valid false;
\* an unknown encoding or message type throws, whatever chunks are there.
Conversion(p) ==
  LET m == pack[p].id
  IN  CASE Content[m] = "rejected" -> "thrown"
        [] Content[m] = "good" /\ pack[p].chunks = Chunks(m) -> "valid"
        [] OTHER -> "invalid"

\* The message made from a pack, given how its conversion went.
Message(p, result) == [pack |-> p, id |-> pack[p].id, valid |-> result = "valid"]

\* std::map::erase by key: the pack found under it is destroyed.
MapWithout(id) ==
  IF id \in MsgIds THEN [incoming EXCEPT ![id] = NoPack] ELSE incoming
DestroyedBy(id) == {p \in Packs : id \in MsgIds /\ incoming[id] = p}

Init ==
  /\ incoming = [m \in MsgIds |-> NoPack]
  /\ pack = [p \in Packs |-> Unborn]
  /\ waiter = [p \in Packs |-> "none"]
  /\ converted = [p \in Packs |-> "none"]
  /\ expired = {}
  /\ listener = Idle
  /\ queue = <<>>
  /\ submitted = <<>>
  /\ executor = "check"
  /\ canceled = FALSE
  /\ object = "alive"
  /\ copies = [m \in MsgIds |-> [c \in Chunks(m) |-> 0]]

-----------------------------------------------------------------------------
(* The listener thread: handle_message_chunk. *)

\* The broker delivers a chunk, in any order and possibly more than once, and
\* the listening loop, not canceled yet, calls handle_message_chunk with it.
Deliver(m, c) ==
  /\ listener.pc = "idle"
  /\ ~canceled
  /\ copies[m][c] < MaxCopies
  /\ copies' = [copies EXCEPT ![m][c] = @ + 1]
  /\ listener' = [pc |-> "count", msg |-> m, chunk |-> c, pack |-> NoPack]
  /\ UNCHANGED <<mapVars, waitVars, outVars, object>>

\* incoming_messages().count(uuid) found nothing: make the pack and put the
\* chunk in it. A single chunk is processed at once, several get a wait thread.
Create ==
  /\ listener.pc = "count"
  /\ incoming[listener.msg] = NoPack
  /\ \E p \in Packs : pack[p].state = "unborn"
  /\ LET m == listener.msg
         p == CHOOSE q \in Packs : pack[q].state = "unborn"
     IN  /\ incoming' = [incoming EXCEPT ![m] = p]
         /\ pack' = [pack EXCEPT ![p] = FirstChunk(m, listener.chunk)]
         /\ waiter' = [waiter EXCEPT ![p] = IF HasWaitThread(m) THEN "start" ELSE @]
         /\ listener' = [listener EXCEPT !.pack = p,
                            !.pc = IF Total[m] = 1 THEN "inline" ELSE "detach"]
  /\ UNCHANGED <<converted, expired, outVars, envVars>>

\* The UUID is in the map: go on to look the pack up.
CountFound ==
  /\ listener.pc = "count"
  /\ incoming[listener.msg] /= NoPack
  /\ listener' = [listener EXCEPT !.pc = "find"]
  /\ UNCHANGED <<mapVars, waitVars, outVars, envVars>>

\* Mutant: the pack of a single chunk is erased by its UUID.
UuidKey(m) == m

\* The key that the listener gives process_message_pack for a single chunk is
\* the whole AMQP message ID (line 87), which is no key of the map.
InlineKey(m) == NoMsg

\* process_message_pack called by the listener itself for a single chunk. The
\* mutex is unlocked without having been locked, which leaves it free.
ProcessInline ==
  /\ listener.pc = "inline"
  /\ LET p == listener.pack
         result == Conversion(p)
         key == IF result = "thrown" THEN NoMsg ELSE InlineKey(pack[p].id)
     IN  /\ pack[p].state = "live"
         /\ pack' = [pack EXCEPT ![p] =
                      [@ EXCEPT !.processing = TRUE,
                                !.state = IF p \in DestroyedBy(key) THEN "freed" ELSE "live"]]
         /\ incoming' = MapWithout(key)
         /\ converted' = [converted EXCEPT ![p] = result]
         /\ queue' = IF result = "thrown" THEN queue
                     ELSE Append(queue, Message(p, result))
  /\ listener' = Idle
  /\ UNCHANGED <<waiter, expired, submitted, executor, canceled, envVars>>

\* t_pack.f_thread.detach(), and the return that ends the life of
\* t_parsed_message_id, which the wait thread still refers to.
Detach ==
  /\ listener.pc = "detach"
  /\ pack[listener.pack].state = "live"
  /\ listener' = Idle
  /\ UNCHANGED <<mapVars, waitVars, outVars, envVars>>

\* incoming_messages()[uuid] and the test of f_processing.
Find ==
  /\ listener.pc = "find"
  /\ incoming[listener.msg] /= NoPack
  /\ LET p == incoming[listener.msg]
     IN  listener' = IF pack[p].processing THEN Idle
                     ELSE [listener EXCEPT !.pc = "lock", !.pack = p]
  /\ UNCHANGED <<mapVars, waitVars, outVars, envVars>>

\* Lock the pack's mutex, drop a duplicate or store the chunk, and unlock.
Store ==
  /\ listener.pc = "lock"
  /\ LET p == listener.pack
         c == listener.chunk
     IN  /\ pack[p].state = "live"
         /\ ~pack[p].locked
         /\ IF c \in pack[p].chunks
            THEN /\ listener' = Idle
                 /\ UNCHANGED pack
            ELSE /\ listener' = [listener EXCEPT !.pc = "notify"]
                 /\ pack' = [pack EXCEPT ![p].chunks = @ \cup {c},
                                         ![p].received = @ + 1]
  /\ UNCHANGED <<incoming, waitVars, outVars, envVars>>

\* f_conv.notify_one(): only the pack's own wait thread can be waiting.
Notify ==
  /\ listener.pc = "notify"
  /\ LET p == listener.pack
     IN  /\ pack[p].state = "live"
         /\ waiter' = IF waiter[p] = "asleep"
                      THEN [waiter EXCEPT ![p] = "woken"] ELSE waiter
  /\ listener' = Idle
  /\ UNCHANGED <<mapVars, converted, expired, outVars, envVars>>

-----------------------------------------------------------------------------
(* The wait thread of a pack: wait_for_message and process_message_pack. *)

\* The thread holds the mutex. Either the pack is finished, and is processed
\* with the mutex held (t_lock is released, not unlocked), or wait_until gives
\* the mutex up and sleeps.
ProcessOrSleep(p, finished) ==
  /\ pack[p].state = "live"
  /\ ~pack[p].locked
  /\ waiter' = [waiter EXCEPT ![p] = IF finished THEN "convert" ELSE "asleep"]
  /\ pack' = [pack EXCEPT ![p].locked = finished]
  /\ UNCHANGED <<incoming, converted, expired, listener, outVars, envVars>>

\* Mutants: the thread sleeps without looking at the pack; it never sleeps.
StartBySleeping(p) == waiter[p] = "start" /\ ProcessOrSleep(p, FALSE)
StartByProcessing(p) == waiter[p] = "start" /\ ProcessOrSleep(p, TRUE)

\* The thread starts: a pack may be complete already.
StartWaiting(p) == waiter[p] = "start" /\ ProcessOrSleep(p, Complete(p))

\* Mutant: wait instead of wait_until.
NoDeadline(p) == FALSE /\ UNCHANGED vars

\* The deadline, fixed before the first wait, passes: a sleeping thread wakes,
\* and from now on wait_until returns timeout.
DeadlinePasses(p) ==
  /\ waiter[p] \in {"asleep", "woken"}
  /\ p \notin expired
  /\ expired' = expired \cup {p}
  /\ waiter' = [waiter EXCEPT ![p] = "woken"]
  /\ UNCHANGED <<mapVars, converted, listener, outVars, envVars>>

\* A condition variable may wake a thread for no reason.
SpuriousWakeup(p) ==
  /\ waiter[p] = "asleep"
  /\ waiter' = [waiter EXCEPT ![p] = "woken"]
  /\ UNCHANGED <<mapVars, converted, expired, listener, outVars, envVars>>

\* Mutant: every wake-up finishes the pack.
ReturnOnAnyWakeup(p) == waiter[p] = "woken" /\ ProcessOrSleep(p, TRUE)

\* wait_until takes the mutex again and returns: after a timeout the pack is
\* finished whatever it holds, before it only when it is complete.
ReturnFromWait(p) ==
  waiter[p] = "woken" /\ ProcessOrSleep(p, p \in expired \/ Complete(p))

\* Set f_processing and convert. When the conversion throws, the handlers log
\* and return: the mutex stays locked and the pack stays in the map.
Convert(p) ==
  /\ waiter[p] = "convert"
  /\ pack[p].state = "live"
  /\ pack' = [pack EXCEPT ![p].processing = TRUE]
  /\ converted' = [converted EXCEPT ![p] = Conversion(p)]
  /\ waiter' = [waiter EXCEPT ![p] = IF Conversion(p) = "thrown"
                                     THEN "done" ELSE "unlock"]
  /\ UNCHANGED <<incoming, expired, listener, outVars, envVars>>

\* Mutant: the pack is erased with its mutex still locked.
NoUnlock(p) ==
  /\ waiter[p] = "unlock"
  /\ pack[p].state = "live"
  /\ waiter' = [waiter EXCEPT ![p] = "erase"]
  /\ UNCHANGED <<mapVars, converted, expired, listener, outVars, envVars>>

\* a_pack.f_mutex.unlock()
Unlock(p) ==
  /\ waiter[p] = "unlock"
  /\ pack[p].state = "live"
  /\ pack' = [pack EXCEPT ![p].locked = FALSE]
  /\ waiter' = [waiter EXCEPT ![p] = "erase"]
  /\ UNCHANGED <<incoming, converted, expired, listener, outVars, envVars>>

\* What a_message_id reads as in the wait thread. It refers to a local variable
\* of the handle_message_chunk call that created the pack: once that call has
\* returned, the build may find there the old string, that of a later call, or
\* something that is no key.
ReadableIds(p) ==
  IF "dangling_id" \in Undefined /\ ~(listener.pc = "detach" /\ listener.pack = p)
  THEN MsgIds \cup {NoMsg}
  ELSE {pack[p].id}

\* incoming_messages().erase(a_message_id)
Erase(p) ==
  /\ waiter[p] = "erase"
  /\ \E id \in ReadableIds(p) :
       /\ incoming' = MapWithout(id)
       /\ pack' = [q \in Packs |-> IF q \in DestroyedBy(id)
                                  THEN [pack[q] EXCEPT !.state = "freed"] ELSE pack[q]]
  /\ waiter' = [waiter EXCEPT ![p] = "push"]
  /\ UNCHANGED <<converted, expired, listener, outVars, envVars>>

\* concurrent_receiver::process_message
Push(p) ==
  /\ waiter[p] = "push"
  /\ queue' = Append(queue, Message(p, converted[p]))
  /\ waiter' = [waiter EXCEPT ![p] = "done"]
  /\ UNCHANGED <<mapVars, converted, expired, listener, submitted, executor,
                 canceled, envVars>>

-----------------------------------------------------------------------------
(* The executor thread: concurrent_receiver::execute. *)

\* while( ! is_canceled() )
CheckCanceled ==
  /\ executor = "check"
  /\ executor' = IF canceled THEN "stopped" ELSE "pop"
  /\ UNCHANGED <<mapVars, waitVars, listener, queue, submitted, canceled, envVars>>

\* Mutant: execute() ends when no message comes in time.
PopTimeoutEnds ==
  /\ executor = "pop"
  /\ queue = <<>>
  /\ executor' = "stopped"
  /\ UNCHANGED <<mapVars, waitVars, listener, queue, submitted, canceled, envVars>>

\* timed_wait_and_pop gives up on an empty queue
PopTimesOut ==
  /\ executor = "pop"
  /\ queue = <<>>
  /\ executor' = "check"
  /\ UNCHANGED <<mapVars, waitVars, listener, queue, submitted, canceled, envVars>>

\* Pop a message and submit it. When submit_message throws, the handler calls
\* signal_handler::cancel_all and the thread ends.
PopAndSubmit ==
  /\ executor = "pop"
  /\ queue /= <<>>
  /\ submitted' = Append(submitted, Head(queue))
  /\ queue' = Tail(queue)
  /\ \/ /\ executor' = "check"
        /\ UNCHANGED canceled
     \/ /\ executor' = "stopped"
        /\ canceled' = TRUE
  /\ UNCHANGED <<mapVars, waitVars, listener, envVars>>

-----------------------------------------------------------------------------
(* The owner of the receiver, and memory errors. *)

\* cancelable::cancel, from any thread
Cancel ==
  /\ ~canceled
  /\ canceled' = TRUE
  /\ UNCHANGED <<mapVars, waitVars, listener, queue, submitted, executor, envVars>>

\* The owner has joined the listener and the executor and destroys the
\* receiver, its map and the packs in it. Nobody joins the wait threads.
Destroy ==
  /\ canceled
  /\ listener.pc = "idle"
  /\ executor = "stopped"
  /\ object' = "destroyed"
  /\ incoming' = [m \in MsgIds |-> NoPack]
  /\ pack' = [p \in Packs |-> IF pack[p].state = "live"
                              THEN [pack[p] EXCEPT !.state = "freed"] ELSE pack[p]]
  /\ UNCHANGED <<listener, copies, waitVars, outVars>>

\* The listener's next access is to memory that is gone. Looking up a UUID that
\* was erased after count() makes a pack with an empty f_messages, which the
\* next line indexes.
ListenerTouchesFreed ==
  \/ /\ listener.pc \in {"inline", "detach", "lock", "notify"}
     /\ pack[listener.pack].state = "freed"
  \/ /\ listener.pc = "find"
     /\ incoming[listener.msg] = NoPack

\* So is a wait thread's: its pack, or the receiver itself.
WaiterTouchesFreed(p) ==
  \/ /\ waiter[p] \in {"start", "woken", "convert", "unlock"}
     /\ pack[p].state = "freed"
  \/ /\ waiter[p] \in {"erase", "push"}
     /\ object = "destroyed"

\* A wait thread erases while another thread is inside the map, which has no
\* lock of its own.
MapRace(p) ==
  /\ "map_race" \in Undefined
  /\ waiter[p] = "erase"
  /\ \/ listener.pc \in {"count", "find"}
     \/ \E q \in Packs \ {p} : waiter[q] = "erase"

\* The outcome of undefined behaviour that ends the process.
Crash ==
  /\ object' = "crashed"
  /\ UNCHANGED <<mapVars, waitVars, listener, outVars, copies>>

-----------------------------------------------------------------------------
ListenerStep ==
  /\ object = "alive"
  /\ \/ Create \/ CountFound \/ ProcessInline \/ Detach \/ Find \/ Store \/ Notify
     \/ ListenerTouchesFreed /\ Crash

WaiterStep(p) ==
  \/ /\ object = "alive"
     /\ \/ StartWaiting(p) \/ ReturnFromWait(p) \/ Convert(p)
        \/ Unlock(p) \/ Erase(p) \/ Push(p)
  \/ /\ object /= "crashed"
     /\ WaiterTouchesFreed(p) \/ MapRace(p)
     /\ Crash

TimerStep(p) == object /= "crashed" /\ DeadlinePasses(p)

ExecutorStep ==
  /\ object = "alive"
  /\ CheckCanceled \/ PopTimesOut \/ PopAndSubmit

Environment ==
  /\ object = "alive"
  /\ \/ \E m \in MsgIds : \E c \in Chunks(m) : Deliver(m, c)
     \/ \E p \in Packs : SpuriousWakeup(p)
     \/ Cancel
     \/ Destroy

Next ==
  \/ ListenerStep
  \/ \E p \in Packs : WaiterStep(p) \/ TimerStep(p)
  \/ ExecutorStep
  \/ Environment

Spec == Init /\ [][Next]_vars

\* Every thread runs on, and every deadline passes. Nothing is assumed of the
\* broker, of cancellation or of the owner.
Fairness ==
  /\ WF_vars(ListenerStep)
  /\ WF_vars(ExecutorStep)
  /\ \A p \in Packs : WF_vars(WaiterStep(p)) /\ WF_vars(TimerStep(p))

FairSpec == Spec /\ Fairness

-----------------------------------------------------------------------------
(* Properties. *)

MessageRecord == [pack : Packs, id : MsgIds, valid : BOOLEAN]
PackRecord == [state : {"unborn", "live", "freed"}, id : MsgIds \cup {NoMsg},
               chunks : SUBSET Nat, received : Nat, processing : BOOLEAN, locked : BOOLEAN]
ListenerRecord == [pc : {"idle", "count", "inline", "detach", "find", "lock", "notify"},
                   msg : MsgIds \cup {NoMsg}, chunk : Nat, pack : Packs \cup {NoPack}]
WaiterPlace == {"none", "start", "asleep", "woken", "convert", "unlock", "erase",
                "push", "done"}

\* The variables have the types of the members and locals they stand for.
TypeOK ==
  /\ incoming \in [MsgIds -> Packs \cup {NoPack}]
  /\ pack \in [Packs -> PackRecord]
  /\ waiter \in [Packs -> WaiterPlace]
  /\ converted \in [Packs -> {"none", "valid", "invalid", "thrown"}]
  /\ expired \in SUBSET Packs
  /\ listener \in ListenerRecord
  /\ queue \in Seq(MessageRecord)
  /\ submitted \in Seq(MessageRecord)
  /\ executor \in {"check", "pop", "stopped"}
  /\ canceled \in BOOLEAN
  /\ object \in {"alive", "destroyed", "crashed"}
  /\ \A m \in MsgIds : copies[m] \in [Chunks(m) -> Nat]

\* How the parts of the state hang together; the conjuncts of Coherent.

\* A pack counts the chunks it holds, which are chunks of its own message.
PackOK(p) ==
  pack[p].state /= "unborn" =>
    /\ pack[p].id \in MsgIds
    /\ pack[p].chunks \subseteq Chunks(pack[p].id)
    /\ pack[p].received = Cardinality(pack[p].chunks)

\* A wait thread converts its pack with the mutex held, after a timeout or when
\* all chunks are there, and goes on only with a message.
WaiterOK(p) ==
  /\ waiter[p] /= "none" => pack[p].state /= "unborn" /\ Total[pack[p].id] /= 1
  /\ waiter[p] \in {"convert", "unlock"} => pack[p].locked
  /\ waiter[p] = "convert" => p \in expired \/ Complete(p)
  /\ waiter[p] \in {"unlock", "erase", "push"} =>
       /\ converted[p] \in {"valid", "invalid"}
       /\ converted[p] = "invalid" =>
            p \in expired \/ Content[pack[p].id] = "unparsable"

\* The listener works on a pack of the message it handles.
ListenerOK ==
  /\ listener.pc /= "idle" =>
       listener.msg \in MsgIds /\ listener.chunk \in Chunks(listener.msg)
  /\ listener.pc \in {"inline", "detach", "lock", "notify"} =>
       /\ listener.pack \in Packs
       /\ pack[listener.pack].state /= "unborn"
       /\ pack[listener.pack].id = listener.msg
  /\ listener.pc = "inline" => Total[listener.msg] = 1 /\ Complete(listener.pack)

\* The map holds packs that are not destroyed, each under its own UUID.
MapOK ==
  \A m \in MsgIds : incoming[m] /= NoPack =>
    pack[incoming[m]].state = "live" /\ pack[incoming[m]].id = m

\* A queued or submitted message is that of its pack; it is marked invalid only
\* after a timeout or because its body does not parse.
EntryOK(e) ==
  /\ pack[e.pack].state /= "unborn"
  /\ pack[e.pack].id = e.id
  /\ e.valid \/ e.pack \in expired \/ Content[e.id] = "unparsable"

OutboxOK ==
  /\ \A i \in DOMAIN queue : EntryOK(queue[i])
  /\ \A i \in DOMAIN submitted : EntryOK(submitted[i])

\* The map, the packs, the threads and the queue of receiver.cc fit together
\* in every state: no thread works on a pack of another message, no pack counts
\* a chunk twice, none is converted early.
Coherent ==
  /\ \A p \in Packs : PackOK(p) /\ WaiterOK(p)
  /\ ListenerOK
  /\ MapOK
  /\ OutboxOK

\* Every message that ever entered the queue, in order.
Outbox == submitted \o queue

\* A wait thread never sleeps on a complete pack that nobody will notify it
\* of: the store and the notification of handle_message_chunk (lines 117-121)
\* leave no gap in which a complete message waits for its timeout.
NoLostWakeup ==
  \A p \in Packs :
    waiter[p] = "asleep" /\ pack[p].state = "live" /\ Complete(p) =>
      listener.pc = "notify" /\ listener.pack = p

\* The threads implement the promise of module Reassembly. Chunks stored in a
\* pack after its conversion are lost, so they do not count as collected.
Promise == INSTANCE Reassembly WITH
  id      <- [p \in Packs |-> pack[p].id],
  got     <- [p \in Packs |-> IF converted[p] = "none" THEN pack[p].chunks ELSE {}],
  late    <- expired,
  verdict <- converted,
  out     <- Outbox

\* Whatever the interleaving, and whatever the wait thread erases: chunks are
\* collected once, a pack is converted only when complete or timed out, and each
\* converted pack is queued at most once (handle_message_chunk,
\* wait_for_message, process_message_pack against class receiver's promise).
ImplementsReassembly == Promise!Spec

\* A message reaches the queue marked invalid only because its pack timed out
\* or its body does not parse: neither a late start of the wait thread, nor a
\* spurious wake-up, nor a duplicate counted as a new chunk cuts a message.
InvalidOnlyAfterTimeout ==
  \A i \in DOMAIN Outbox :
    ~Outbox[i].valid => \/ Outbox[i].pack \in expired
                        \/ Content[Outbox[i].id] = "unparsable"

\* A pack that is gone and may have been erased by the wait thread of another
\* pack, whose dangling key read as the UUID of this one.
ErasedByOther(p) ==
  /\ "dangling_id" \in Undefined
  /\ pack[p].state = "freed"
  /\ \E q \in Packs \ {p} :
       waiter[q] \in {"push", "done"} /\ converted[q] \in {"valid", "invalid"}

\* A single-chunk message is queued once, however often it is redelivered: its
\* pack, erased by a key that is none (line 87), stays in the map and keeps later
\* copies out. Only another message's wait thread can erase that pack.
SingleChunkOnce ==
  \A i, j \in DOMAIN Outbox :
    i /= j /\ Outbox[i].id = Outbox[j].id /\ Total[Outbox[i].id] = 1
      => ErasedByOther(Outbox[i].pack) \/ ErasedByOther(Outbox[j].pack)

\* A chunk is never used for two valid messages: of a UUID there are at most as
\* many valid messages as there were deliveries of each of its chunks.
ValidUsesDeliveries ==
  \A m \in MsgIds : \A c \in Chunks(m) :
    Cardinality({i \in DOMAIN Outbox : Outbox[i].id = m /\ Outbox[i].valid})
      <= copies[m][c]

\* The comment of wait_for_message (lines 147, 158, 165): a pack is erased only
\* after its mutex was unlocked.
UnlockedWhenErased ==
  [][\A p \in Packs :
       pack[p].state = "live" /\ pack'[p].state = "freed" /\ object' = "alive"
         => ~pack[p].locked]_vars

\* A pack is erased with its mutex locked only by the wait thread of another
\* pack, through the dangling reference of line 92: its own thread has unlocked.
LockedEraseCause ==
  [][\A p \in Packs :
       /\ pack[p].state = "live" /\ pack'[p].state = "freed" /\ object' = "alive"
       /\ pack[p].locked
       => /\ "dangling_id" \in Undefined
          /\ \E q \in Packs \ {p} : waiter[q] = "erase" /\ waiter'[q] = "push"]_vars

\* A live receiver touches memory that is gone only by notifying a pack whose
\* thread has already finished it, by working on a chunk of a message that had
\* timed out or of which a chunk came twice, by using a pack that another
\* message's wait thread erased, or in the map while a wait thread erases.
CrashCause ==
  [][object = "alive" /\ object' = "crashed" =>
       \/ listener.pc = "notify"
       \/ /\ listener.pc \in {"detach", "find", "lock"}
          /\ \/ \E p \in expired : pack[p].id = listener.msg
             \/ \E c \in Chunks(listener.msg) : copies[listener.msg][c] > 1
       \/ \E p \in Packs :
            /\ ErasedByOther(p)
            /\ \/ waiter[p] \in {"start", "woken", "convert", "unlock"}
               \/ pack[p].id = listener.msg
       \/ \E p \in Packs : MapRace(p)]_vars

\* The listener blocks for good only on the pack of a message whose conversion
\* threw, and that after a timeout or a repeated chunk: in every other case a
\* locked mutex has a thread that is about to unlock it.
ListenerStuckCause ==
  LET p == listener.pack
  IN  listener.pc = "lock" /\ pack[p].locked /\ waiter[p] = "done" =>
        /\ Content[listener.msg] = "rejected"
        /\ \/ p \in expired
           \/ \E c \in Chunks(listener.msg) : copies[listener.msg][c] > 1

\* Every pack whose content can be converted is queued in the end, complete or
\* not, while the receiver lives.
PackIsQueued ==
  \A p \in Packs :
    (pack[p].state = "live" /\ Content[pack[p].id] /= "rejected") ~>
      (object /= "alive" \/ \E i \in DOMAIN Outbox : Outbox[i].pack = p)

\* execute() empties the queue unless the receiver is canceled.
QueueDrains == (queue /= <<>>) ~> (queue = <<>> \/ canceled \/ object /= "alive")

\* handle_message_chunk returns to the listening loop, except when it waits for
\* the mutex of a pack whose conversion threw.
ListenerReturns ==
  (listener.pc /= "idle") ~>
    \/ listener.pc = "idle"
    \/ object /= "alive"
    \/ Content[listener.msg] = "rejected"

=============================================================================
