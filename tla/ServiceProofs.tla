--------------------------- MODULE ServiceProofs ---------------------------
(***************************************************************************)
(* Proofs about Service for any owners, configurations, messages and       *)
(* faults: type correctness, that a listening service is set up and serves *)
(* its children, that its threads are joined and its queues removed.       *)
(***************************************************************************)
EXTENDS Service, TLAPS

\* The places of main from which run() can still start to listen, or listens.
Starting == {"setup", "begin", "open", "exchanges", "declare", "bind", "consume"}
Serving == {"spawn", "listen", "join"}

\* The items left in a loop are items of that loop; f_status while the service
\* listens, when it fails and when run() calls stop().
FlowOK ==
  /\ main \in {"open", "declare", "consume", "unconsume", "remove"} => todo \subseteq Users
  /\ main = "bind" => todo \subseteq Bindings
  /\ main \in {"spawn", "join"} => todo \subseteq Spawned
  /\ main \in Serving => status \in {listening, processing}
  /\ main \in {"setup", "begin", "failed", "reset"} \/ (main = "stop" /\ ~unwinding)
       => status \in {nothing, listening, processing}

\* Messages are not multiplied, and run() fails at most twice.
CountsOK ==
  /\ \A o \in Owners : inbox[o] + messages <= MaxMessages
  /\ main \in Starting \cup Serving \cup {"failed", "reset"} => nFailures <= 1
  /\ main = "reset" => nFailures = 1

\* A queue exists only with the channel that declared it.
QueuesOK == \A o \in Owners : queue[o] => chan[o] = "open"

\* What the loops of start() have done so far, on the channels that still work.
Declared(o) == chan[o] /= "none" /\ (chan[o] = "open" => queue[o])
IsBound(b) == chan[b[1]] = "open" => b[2] \in bound[b[1]]
Consuming(o) == chan[o] = "open" => consumer[o] /\ tag[o]

SetUpOK ==
  /\ main = "declare" => \A o \in Users \ todo : Declared(o)
  /\ main \in {"bind", "consume", "spawn", "listen"} => \A o \in Users : Declared(o)
  /\ main = "bind" => \A b \in Bindings \ todo : IsBound(b)
  /\ main \in {"consume", "spawn", "listen"} => \A b \in Bindings : IsBound(b)
  /\ main = "consume" => \A o \in Users \ todo : Consuming(o)
  /\ main \in {"spawn", "listen"} => \A o \in Users : Consuming(o)

\* Which threads are joinable: those that listen() has started and not joined.
Joinable(t) ==
  \/ main = "spawn" /\ t \in Spawned \ todo
  \/ main = "listen" /\ t \in Spawned
  \/ main = "join" /\ t \in todo

ThreadsOK ==
  /\ \A t \in Threads : main \in {"spawn", "listen"} /\ Joinable(t) => thread[t] /= "none"
  /\ threadFaults = MaxThreadFaults =>
       /\ main /= "aborted"
       /\ \A t \in Threads : thread[t] /= "none" => Joinable(t)

\* Until the restart no child is canceled without the service, and no listener
\* has ended without the service being canceled.
FirstRunOK ==
  /\ main = "setup" => nFailures = 0 /\ \A o \in Owners : ~canceled[o]
  /\ nFailures = 0 /\ main \in Starting \cup Serving =>
       \A o \in Owners : canceled[o] => canceled[Svc]
  /\ nFailures = 0 /\ main \in Starting => \A t \in Threads : thread[t] = "none"
  /\ nFailures = 0 /\ main \in Serving =>
       \A t \in Threads : thread[t] = "ended" => canceled[Svc]

\* The queues that the loop of stop() has left behind, in the order of the loop.
RemovedOK ==
  main = "remove" =>
    \A o \in Users \ todo :
      /\ queue[o] => faults < MaxFaults
      /\ \A p \in todo : Rank[o] <= Rank[p]

Inv ==
  /\ TypeOK
  /\ FlowOK
  /\ CountsOK
  /\ QueuesOK
  /\ SetUpOK
  /\ ThreadsOK
  /\ FirstRunOK
  /\ RemovedOK
  /\ QueueLeftCause

---------------------------------------------------------------------------
(* The sets the loops run over do not change once run() is called.         *)
LEMMA SameSets ==
    ASSUME UNCHANGED <<config, sync, async>>
    PROVE  Users' = Users /\ Bindings' = Bindings /\ Spawned' = Spawned
BY DEF Users, Bindings, Spawned

LEMMA SetsTyped ==
    ASSUME TypeOK
    PROVE  /\ Users \subseteq Owners /\ Svc \in Users /\ async \subseteq Users
           /\ Bindings \subseteq Users \X Keys
           /\ Bindings \subseteq Owners \X Keys
           /\ Spawned \subseteq Threads
<1>1. Svc \in Owners /\ Broadcast \in Keys /\ Owners \subseteq Keys
  BY ServiceAssumption DEF ServiceAssumption
<1>2. sync \subseteq Owners /\ async \subseteq Owners
  BY DEF TypeOK, Names
<1>3. Users \subseteq Owners /\ Svc \in Users /\ async \subseteq Users
  BY <1>1, <1>2 DEF Users
<1>4. Bindings \subseteq Users \X Keys
  BY <1>1, <1>2, <1>3 DEF Bindings
<1>5. Spawned \subseteq Threads
  BY DEF Spawned
<1>6. QED
  BY <1>3, <1>4, <1>5

LEMMA Numbers ==
    /\ MaxMessages \in Nat /\ MaxThreadFaults \in Nat /\ MaxFaults \in Nat
    /\ \A o \in Owners : Rank[o] \in Nat
    /\ \A o, p \in Owners : Rank[o] = Rank[p] => o = p
BY ServiceAssumption, CoreAssumption DEF ServiceAssumption, CoreAssumption

(* Listeners and receivers of asynchronous children are spawned.           *)
LEMMA ListenersSpawned ==
    ASSUME TypeOK, NEW c \in async
    PROVE  <<"listener", c>> \in Spawned /\ <<"listener", c>> \in Threads
<1>1. c \in Names
  BY DEF TypeOK
<1>2. <<"listener", c>> \in Threads
  BY <1>1 DEF Threads
<1>3. QED
  BY <1>2 DEF Spawned

LEMMA ReceiversAreThreads ==
    ASSUME NEW o \in Owners
    PROVE  <<"receiver", o>> \in Threads
BY DEF Threads

LEMMA ListenersAreThreads ==
    ASSUME NEW c \in Names
    PROVE  <<"listener", c>> \in Threads
BY DEF Threads

(* cancel() cancels the service and no longer anything that it was not.    *)
LEMMA CancelEffect ==
    ASSUME TypeOK, CancelService
    PROVE  /\ canceled' \in [Owners -> BOOLEAN]
           /\ canceled'[Svc]
           /\ \A o \in Owners : canceled[o] => canceled'[o]
<1>1. Svc \in Owners
  BY ServiceAssumption DEF ServiceAssumption
<1>2. CASE canceled[Svc]
  BY <1>1, <1>2 DEF CancelService, TypeOK
<1>3. CASE ~canceled[Svc]
  <2>1. canceled' = [o \in Owners |-> canceled[o] \/ o \in Users]
    BY <1>3 DEF CancelService
  <2>2. Svc \in Users
    BY DEF Users
  <2>3. QED
    BY <2>1, <2>2, <1>1
<1>4. QED
  BY <1>2, <1>3

---------------------------------------------------------------------------
(* The calls of core.                                                      *)
LEMMA FaultsTyped ==
    ASSUME CoreTypeOK, NEW P, NEW ok \in BOOLEAN, Result(P, ok)
    PROVE  /\ faults' \in 0 .. MaxFaults
           /\ faults' <= faults
           /\ ok => P
           /\ ~ok /\ P => faults' < MaxFaults
BY Numbers DEF CoreTypeOK, Result

LEMMA OpenEffect ==
    ASSUME CoreTypeOK, NEW o \in Owners, NEW ok \in BOOLEAN, OpenChannel(o, ok)
    PROVE  /\ CoreTypeOK'
           /\ chan'[o] = (IF ok THEN "open" ELSE "none")
           /\ ~queue'[o]
           /\ \A q \in Owners \ {o} : chan'[q] = chan[q] /\ queue'[q] = queue[q]
<1>1. faults' \in 0 .. MaxFaults
  BY FaultsTyped DEF OpenChannel
<1>2. QED
  BY <1>1 DEF OpenChannel, CoreTypeOK

LEMMA ExchangeEffect ==
    ASSUME CoreTypeOK, NEW ok \in BOOLEAN, SetupExchange(Svc, ok)
    PROVE  CoreTypeOK' /\ UNCHANGED <<chan, queue, bound, consumer, tag>>
<1>1. faults' \in 0 .. MaxFaults
  BY FaultsTyped DEF SetupExchange
<1>2. QED
  BY <1>1 DEF SetupExchange, CoreTypeOK

LEMMA QueueEffect ==
    ASSUME CoreTypeOK, NEW o \in Owners, NEW ok \in BOOLEAN, SetupQueue(o, ok)
    PROVE  /\ CoreTypeOK'
           /\ UNCHANGED <<chan, bound, consumer, tag>>
           /\ ok => chan[o] = "open" /\ queue'[o]
           /\ ~ok => UNCHANGED queue
           /\ \A q \in Owners \ {o} : queue'[q] = queue[q]
<1>1. faults' \in 0 .. MaxFaults
  BY FaultsTyped DEF SetupQueue
<1>2. ok => chan[o] = "open"
  BY DEF SetupQueue, Result
<1>3. QED
  BY <1>1, <1>2 DEF SetupQueue, CoreTypeOK

LEMMA BindEffect ==
    ASSUME CoreTypeOK, NEW o \in Owners, NEW k \in Keys, NEW ok \in BOOLEAN,
           BindKey(o, k, ok)
    PROVE  /\ CoreTypeOK'
           /\ UNCHANGED <<chan, queue, consumer, tag>>
           /\ ok => k \in bound'[o]
           /\ \A q \in Owners : bound[q] \subseteq bound'[q]
<1>1. faults' \in 0 .. MaxFaults
  BY FaultsTyped DEF BindKey
<1>2. bound' \in [Owners -> SUBSET Keys]
  BY DEF BindKey, CoreTypeOK
<1>3. QED
  BY <1>1, <1>2 DEF BindKey, CoreTypeOK

LEMMA ConsumeEffect ==
    ASSUME CoreTypeOK, NEW o \in Owners, NEW ok \in BOOLEAN,
           StartConsuming(o, ok)
    PROVE  /\ CoreTypeOK'
           /\ UNCHANGED <<chan, queue, bound>>
           /\ ok => consumer'[o] /\ tag'[o]
           /\ \A q \in Owners \ {o} : consumer'[q] = consumer[q] /\ tag'[q] = tag[q]
<1>1. faults' \in 0 .. MaxFaults
  BY FaultsTyped DEF StartConsuming
<1>2. QED
  BY <1>1 DEF StartConsuming, CoreTypeOK

LEMMA StopEffect ==
    ASSUME CoreTypeOK, NEW o \in Owners, NEW ok \in BOOLEAN,
           StopConsuming(o, ok)
    PROVE  CoreTypeOK' /\ UNCHANGED <<chan, queue, bound>>
<1>1. faults' \in 0 .. MaxFaults
  BY FaultsTyped DEF StopConsuming
<1>2. QED
  BY <1>1 DEF StopConsuming, CoreTypeOK

(* A removal that fails on a channel that works has cost a fault.          *)
LEMMA RemoveEffect ==
    ASSUME CoreTypeOK, NEW o \in Owners, NEW ok \in BOOLEAN, RemoveQueue(o, ok)
    PROVE  /\ CoreTypeOK'
           /\ faults' <= faults
           /\ UNCHANGED chan
           /\ \A q \in Owners : queue'[q] => queue[q]
           /\ ok => ~queue'[o]
           /\ ~ok /\ chan[o] = "open" => faults' < MaxFaults
<1>1. /\ faults' \in 0 .. MaxFaults
      /\ faults' <= faults
      /\ ~ok /\ chan[o] = "open" => faults' < MaxFaults
  BY FaultsTyped DEF RemoveQueue
<1>2. bound' \in [Owners -> SUBSET Keys]
  BY DEF RemoveQueue, CoreTypeOK
<1>3. QED
  BY <1>1, <1>2 DEF RemoveQueue, CoreTypeOK

LEMMA BreakEffect ==
    ASSUME CoreTypeOK, NEW o \in Owners, Break(o)
    PROVE  /\ CoreTypeOK'
           /\ faults' < MaxFaults
           /\ chan'[o] = "broken"
           /\ ~queue'[o]
           /\ UNCHANGED tag
           /\ \A q \in Owners \ {o} : /\ chan'[q] = chan[q]
                                      /\ queue'[q] = queue[q]
                                      /\ bound'[q] = bound[q]
                                      /\ consumer'[q] = consumer[q]
<1>1. faults' \in 0 .. MaxFaults /\ faults' < MaxFaults
  BY Numbers DEF Break, CoreTypeOK
<1>2. QED
  BY <1>1 DEF Break, CoreTypeOK

---------------------------------------------------------------------------
(* What a step leaves alone.                                               *)
LEMMA OtherThread ==
    ASSUME Inv,
           UNCHANGED <<coreVars, config, sync, async, flowVars, unwinding>>
    PROVE  (FlowOK /\ QueuesOK /\ SetUpOK /\ RemovedOK /\ QueueLeftCause)'
<1>1. Users' = Users /\ Bindings' = Bindings /\ Spawned' = Spawned
  BY SameSets
<1>2. (FlowOK /\ QueuesOK /\ RemovedOK)'
  BY <1>1 DEF Inv, FlowOK, QueuesOK, RemovedOK, coreVars, flowVars
<1>3. SetUpOK'
  BY <1>1 DEF Inv, SetUpOK, Declared, IsBound, Consuming, coreVars, flowVars
<1>4. QueueLeftCause'
  BY <1>1 DEF Inv, QueueLeftCause, coreVars, flowVars
<1>5. QED
  BY <1>2, <1>3, <1>4

(* main leaves a loop of start() or stop() for one that sets nothing up.   *)
LEMMA OtherPlace ==
    ASSUME Inv, UNCHANGED <<coreVars, config, sync, async>>,
           main' \notin {"declare", "bind", "consume", "remove", "returned"},
           main' \in {"spawn", "listen"} => main \in {"spawn", "listen"}
    PROVE  (QueuesOK /\ SetUpOK /\ RemovedOK /\ QueueLeftCause)'
<1>1. Users' = Users /\ Bindings' = Bindings /\ Spawned' = Spawned
  BY SameSets
<1>2. (QueuesOK /\ RemovedOK /\ QueueLeftCause)'
  BY DEF Inv, QueuesOK, RemovedOK, QueueLeftCause, coreVars
<1>3. SetUpOK'
  BY <1>1 DEF Inv, SetUpOK, Declared, IsBound, Consuming, coreVars
<1>4. QED
  BY <1>2, <1>3

---------------------------------------------------------------------------
(* The calling thread: run() and listen().                                 *)
LEMMA RunKeeps ==
    ASSUME Inv, Run
    PROVE  Inv'
<1>1. TypeOK /\ FlowOK /\ CountsOK /\ ThreadsOK /\ FirstRunOK
  BY DEF Inv
<1>2. (QueuesOK /\ SetUpOK /\ RemovedOK /\ QueueLeftCause)'
  BY OtherPlace DEF Run
<1>3. FlowOK'
  BY <1>1 DEF FlowOK, Serving, Run
<1>4. TypeOK'
  BY <1>1 DEF TypeOK, CoreTypeOK, MainPlaces, coreVars, runVars, boundVars, Run
<1>5. CountsOK'
  BY <1>1 DEF CountsOK, Starting, runVars, boundVars, Run
<1>6. ThreadsOK'
  BY <1>1 DEF ThreadsOK, Joinable, boundVars, Run
<1>7. FirstRunOK'
  BY <1>1 DEF FirstRunOK, Starting, Run
<1>8. QED
  BY <1>2, <1>3, <1>4, <1>5, <1>6, <1>7 DEF Inv

LEMMA BeginKeeps ==
    ASSUME Inv, Begin
    PROVE  Inv'
<1>1. TypeOK /\ FlowOK /\ CountsOK /\ ThreadsOK /\ FirstRunOK
  BY DEF Inv
<1>2. Users' = Users /\ Bindings' = Bindings /\ Spawned' = Spawned
  BY SameSets DEF Begin
<1>3. (QueuesOK /\ SetUpOK /\ RemovedOK /\ QueueLeftCause)'
  BY OtherPlace DEF Begin, Goto
<1>4. FlowOK'
  BY <1>1, <1>2 DEF FlowOK, Serving, Begin, Goto
<1>5. TypeOK'
  <2>1. CoreTypeOK' /\ nFailures' \in 0 .. 2 /\ served' \in BOOLEAN
    <3>1. nFailures' = 0 \/ nFailures' = nFailures
      BY DEF Begin
    <3>2. CoreTypeOK' /\ served' \in BOOLEAN
      BY <1>1 DEF TypeOK, CoreTypeOK, coreVars, Begin
    <3>3. QED
      BY <1>1, <3>1, <3>2 DEF TypeOK
  <2>2. CASE Goto("stop", {})
    BY <1>1, <2>1, <2>2 DEF TypeOK, MainPlaces, boundVars, Begin, Goto
  <2>3. CASE Goto("open", Users)
    BY <1>1, <2>1, SetsTyped DEF TypeOK, MainPlaces, boundVars, Begin, Goto
  <2>4. CASE Goto("threw", {})
    BY <1>1, <2>1, <2>4 DEF TypeOK, MainPlaces, boundVars, Begin, Goto
  <2>5. QED
    BY <2>2, <2>3, <2>4 DEF Begin
<1>6. CountsOK'
  BY <1>1 DEF CountsOK, Starting, boundVars, Begin, Goto
<1>7. ThreadsOK'
  BY <1>1 DEF ThreadsOK, Joinable, boundVars, Begin, Goto
<1>8. FirstRunOK'
  BY <1>1 DEF FirstRunOK, Starting, Serving, Begin, Goto
<1>9. QED
  BY <1>3, <1>4, <1>5, <1>6, <1>7, <1>8 DEF Inv

LEMMA SpawnKeeps ==
    ASSUME Inv, Spawn
    PROVE  Inv'
<1>1. TypeOK /\ FlowOK /\ CountsOK /\ ThreadsOK /\ FirstRunOK
  BY DEF Inv
<1>2. Users' = Users /\ Bindings' = Bindings /\ Spawned' = Spawned
  BY SameSets DEF Spawn
<1>3. (QueuesOK /\ SetUpOK /\ RemovedOK /\ QueueLeftCause)'
  BY OtherPlace DEF Spawn, Goto, Advance
<1>4. FlowOK'
  BY <1>1, <1>2 DEF FlowOK, Serving, Spawn, Goto, Advance
<1>5. TypeOK'
  BY <1>1, Numbers DEF TypeOK, CoreTypeOK, MainPlaces, coreVars, runVars,
    Spawn, Goto, Advance
<1>6. CountsOK'
  BY <1>1 DEF CountsOK, Serving, runVars, Spawn, Goto, Advance
<1>7. ThreadsOK'
  BY <1>1, <1>2 DEF TypeOK, FlowOK, ThreadsOK, Joinable, Spawn, Goto, Advance
<1>8. FirstRunOK'
  BY <1>1 DEF TypeOK, FirstRunOK, Starting, Serving, runVars, Spawn, Goto,
    Advance
<1>9. QED
  BY <1>3, <1>4, <1>5, <1>6, <1>7, <1>8 DEF Inv

LEMMA ListenCanceledKeeps ==
    ASSUME Inv, ListenCanceled
    PROVE  Inv'
<1>1. TypeOK /\ FlowOK /\ CountsOK /\ ThreadsOK /\ FirstRunOK
  BY DEF Inv
<1>2. Users' = Users /\ Bindings' = Bindings /\ Spawned' = Spawned
  BY SameSets DEF ListenCanceled
<1>3. (QueuesOK /\ SetUpOK /\ RemovedOK /\ QueueLeftCause)'
  BY OtherPlace DEF ListenCanceled, Goto, ListenerReturns
<1>4. FlowOK'
  BY <1>1, <1>2 DEF FlowOK, Serving, ListenCanceled, Goto, ListenerReturns,
    Joined
<1>5. TypeOK'
  BY <1>1, SetsTyped DEF TypeOK, CoreTypeOK, MainPlaces, coreVars, boundVars,
    ListenCanceled, Goto, ListenerReturns, Joined
<1>6. CountsOK'
  BY <1>1 DEF CountsOK, Serving, boundVars, ListenCanceled, Goto,
    ListenerReturns
<1>7. ThreadsOK'
  BY <1>1 DEF ThreadsOK, Joinable, boundVars, ListenCanceled, Goto,
    ListenerReturns, Joined
<1>8. FirstRunOK'
  BY DEF FirstRunOK, Starting, ListenCanceled, Goto, ListenerReturns
<1>9. QED
  BY <1>3, <1>4, <1>5, <1>6, <1>7, <1>8 DEF Inv

LEMMA ListenErrorKeeps ==
    ASSUME Inv, ListenError
    PROVE  Inv'
<1>1. TypeOK /\ FlowOK /\ CountsOK /\ ThreadsOK /\ FirstRunOK
  BY DEF Inv
<1>2. Users' = Users /\ Bindings' = Bindings /\ Spawned' = Spawned
  BY SameSets DEF ListenError
<1>3. (QueuesOK /\ SetUpOK /\ RemovedOK /\ QueueLeftCause)'
  BY OtherPlace DEF ListenError, Goto, ListenerReturns
<1>4. FlowOK'
  BY <1>2 DEF FlowOK, ListenError, Goto, ListenerReturns, Joined
<1>5. TypeOK'
  BY <1>1, CancelEffect, SetsTyped DEF TypeOK, CoreTypeOK, MainPlaces,
    coreVars, boundVars, ListenError, Goto, ListenerReturns, Joined
<1>6. CountsOK'
  BY <1>1 DEF CountsOK, Serving, boundVars, ListenError, Goto, ListenerReturns
<1>7. ThreadsOK'
  BY <1>1 DEF ThreadsOK, Joinable, boundVars, ListenError, Goto,
    ListenerReturns, Joined
<1>8. FirstRunOK'
  BY <1>1, CancelEffect DEF FirstRunOK, Starting, ListenError, Goto,
    ListenerReturns
<1>9. QED
  BY <1>3, <1>4, <1>5, <1>6, <1>7, <1>8 DEF Inv

LEMMA ListenQuietKeeps ==
    ASSUME Inv, ListenQuiet
    PROVE  Inv'
<1>1. TypeOK /\ FlowOK /\ CountsOK /\ ThreadsOK /\ FirstRunOK
  BY DEF Inv
<1>2. Users' = Users /\ Bindings' = Bindings /\ Spawned' = Spawned
  BY SameSets DEF ListenQuiet
<1>3. (FlowOK /\ QueuesOK /\ SetUpOK /\ RemovedOK /\ QueueLeftCause)'
  BY OtherThread DEF ListenQuiet
<1>4. TypeOK'
  BY <1>1 DEF TypeOK, CoreTypeOK, coreVars, flowVars, boundVars, ListenQuiet
<1>5. CountsOK'
  BY <1>1 DEF CountsOK, flowVars, boundVars, ListenQuiet
<1>6. ThreadsOK'
  BY <1>1, <1>2 DEF ThreadsOK, Joinable, flowVars, boundVars, ListenQuiet
<1>7. FirstRunOK'
  BY <1>1 DEF FirstRunOK, flowVars, ListenQuiet
<1>8. QED
  BY <1>3, <1>4, <1>5, <1>6, <1>7 DEF Inv

LEMMA ListenMessageKeeps ==
    ASSUME Inv, ListenMessage
    PROVE  Inv'
<1>1. TypeOK /\ FlowOK /\ CountsOK /\ ThreadsOK /\ FirstRunOK
  BY DEF Inv
<1>2. Users' = Users /\ Bindings' = Bindings /\ Spawned' = Spawned
  BY SameSets DEF ListenMessage
<1>3. (QueuesOK /\ SetUpOK /\ RemovedOK /\ QueueLeftCause)'
  BY OtherPlace DEF ListenMessage
<1>4. FlowOK'
  BY DEF FlowOK, ListenMessage
<1>5. TypeOK'
  BY <1>1, Numbers, SetsTyped DEF TypeOK, CoreTypeOK, CountsOK, coreVars,
    Statuses, ListenMessage
<1>6. CountsOK'
  BY <1>1, Numbers DEF TypeOK, CountsOK, ListenMessage
<1>7. ThreadsOK'
  BY <1>1, <1>2 DEF ThreadsOK, Joinable, ListenMessage
<1>8. FirstRunOK'
  BY <1>1 DEF FirstRunOK, ListenMessage
<1>9. QED
  BY <1>3, <1>4, <1>5, <1>6, <1>7, <1>8 DEF Inv

LEMMA ListenNextKeeps ==
    ASSUME Inv, ListenNext
    PROVE  Inv'
<1>1. TypeOK /\ FlowOK /\ CountsOK /\ ThreadsOK /\ FirstRunOK
  BY DEF Inv
<1>2. Users' = Users /\ Bindings' = Bindings /\ Spawned' = Spawned
  BY SameSets DEF ListenNext
<1>3. (QueuesOK /\ SetUpOK /\ RemovedOK /\ QueueLeftCause)'
  BY OtherPlace DEF ListenNext
<1>4. FlowOK'
  BY DEF FlowOK, ListenNext
<1>5. TypeOK'
  BY <1>1 DEF TypeOK, CoreTypeOK, coreVars, runVars, boundVars, Statuses,
    ListenNext
<1>6. CountsOK'
  BY <1>1 DEF CountsOK, runVars, boundVars, ListenNext
<1>7. ThreadsOK'
  BY <1>1, <1>2 DEF ThreadsOK, Joinable, boundVars, ListenNext
<1>8. FirstRunOK'
  BY <1>1 DEF FirstRunOK, runVars, ListenNext
<1>9. QED
  BY <1>3, <1>4, <1>5, <1>6, <1>7, <1>8 DEF Inv

LEMMA JoinKeeps ==
    ASSUME Inv, Join
    PROVE  Inv'
<1>1. TypeOK /\ FlowOK /\ CountsOK /\ ThreadsOK /\ FirstRunOK
  BY DEF Inv
<1>2. Users' = Users /\ Bindings' = Bindings /\ Spawned' = Spawned
  BY SameSets DEF Join
<1>3. (QueuesOK /\ SetUpOK /\ RemovedOK /\ QueueLeftCause)'
  BY OtherPlace DEF Join, Goto
<1>4. FlowOK'
  BY <1>1, <1>2 DEF FlowOK, Serving, Join, Goto
<1>5. TypeOK'
  BY <1>1 DEF TypeOK, CoreTypeOK, MainPlaces, coreVars, boundVars, Join, Goto
<1>6. CountsOK'
  BY <1>1 DEF CountsOK, Serving, boundVars, Join, Goto
<1>7. ThreadsOK'
  BY <1>1 DEF TypeOK, ThreadsOK, Joinable, boundVars, Join, Goto
<1>8. FirstRunOK'
  BY <1>1 DEF FirstRunOK, Starting, Serving, Join, Goto
<1>9. QED
  BY <1>3, <1>4, <1>5, <1>6, <1>7, <1>8 DEF Inv

LEMMA CatchFailureKeeps ==
    ASSUME Inv, CatchFailure
    PROVE  Inv'
<1>1. TypeOK /\ FlowOK /\ CountsOK /\ ThreadsOK /\ FirstRunOK
  BY DEF Inv
<1>2. (QueuesOK /\ SetUpOK /\ RemovedOK /\ QueueLeftCause)'
  BY OtherPlace DEF CatchFailure, Goto
<1>3. FlowOK'
  BY <1>1 DEF FlowOK, Serving, CatchFailure, Goto
<1>4. TypeOK'
  BY <1>1 DEF TypeOK, CoreTypeOK, MainPlaces, CountsOK, coreVars, boundVars,
    CatchFailure, Goto
<1>5. CountsOK'
  BY <1>1 DEF TypeOK, CountsOK, Starting, Serving, boundVars, CatchFailure,
    Goto
<1>6. ThreadsOK'
  BY <1>1 DEF ThreadsOK, Joinable, boundVars, CatchFailure, Goto
<1>7. FirstRunOK'
  BY DEF FirstRunOK, Starting, Serving, CatchFailure, Goto
<1>8. QED
  BY <1>2, <1>3, <1>4, <1>5, <1>6, <1>7 DEF Inv

LEMMA ResetCancelKeeps ==
    ASSUME Inv, ResetCancel
    PROVE  Inv'
<1>1. TypeOK /\ FlowOK /\ CountsOK /\ ThreadsOK /\ FirstRunOK
  BY DEF Inv
<1>2. (QueuesOK /\ SetUpOK /\ RemovedOK /\ QueueLeftCause)'
  BY OtherPlace DEF ResetCancel, Goto
<1>3. FlowOK'
  BY <1>1 DEF FlowOK, Serving, ResetCancel, Goto
<1>4. TypeOK'
  BY <1>1 DEF TypeOK, CoreTypeOK, MainPlaces, coreVars, runVars, boundVars,
    ResetCancel, Goto
<1>5. CountsOK'
  BY <1>1 DEF CountsOK, runVars, boundVars, ResetCancel
<1>6. ThreadsOK'
  BY <1>1 DEF ThreadsOK, Joinable, boundVars, ResetCancel, Goto
<1>7. FirstRunOK'
  BY <1>1 DEF FirstRunOK, CountsOK, runVars, ResetCancel, Goto
<1>8. QED
  BY <1>2, <1>3, <1>4, <1>5, <1>6, <1>7 DEF Inv

---------------------------------------------------------------------------
(* The calling thread: stop() and the destructor.                          *)
LEMMA StopBeginKeeps ==
    ASSUME Inv, StopBegin
    PROVE  Inv'
<1>1. TypeOK /\ FlowOK /\ CountsOK /\ ThreadsOK /\ FirstRunOK
  BY DEF Inv
<1>2. Users' = Users /\ Bindings' = Bindings /\ Spawned' = Spawned
  BY SameSets DEF StopBegin
<1>3. (QueuesOK /\ SetUpOK)'
  BY DEF Inv, QueuesOK, SetUpOK, coreVars, StopBegin, Goto, StopReturns
<1>4. FlowOK'
  BY <1>2 DEF FlowOK, Serving, StopBegin, Goto, StopReturns
<1>5. RemovedOK'
  BY <1>2 DEF RemovedOK, StopBegin, Goto, StopReturns
<1>6. QueueLeftCause'
  BY <1>1 DEF QueueLeftCause, FlowOK, StopBegin, Goto, StopReturns,
    queue_bound, consuming, processing
<1>7. TypeOK'
  BY <1>1, CancelEffect, SetsTyped DEF TypeOK, CoreTypeOK, MainPlaces,
    coreVars, runVars, boundVars, Statuses, StopBegin, Goto, StopReturns
<1>8. CountsOK'
  BY <1>1 DEF CountsOK, Starting, Serving, boundVars, StopBegin, Goto,
    StopReturns
<1>9. ThreadsOK'
  BY <1>1 DEF ThreadsOK, Joinable, boundVars, StopBegin, Goto, StopReturns
<1>10. FirstRunOK'
  BY DEF FirstRunOK, Starting, Serving, StopBegin, Goto, StopReturns
<1>11. QED
  BY <1>3, <1>4, <1>5, <1>6, <1>7, <1>8, <1>9, <1>10 DEF Inv

LEMMA LeaveKeeps ==
    ASSUME Inv, Leave
    PROVE  Inv'
<1>1. TypeOK /\ FlowOK /\ CountsOK /\ ThreadsOK /\ FirstRunOK
  BY DEF Inv
<1>2. (QueuesOK /\ SetUpOK /\ RemovedOK /\ QueueLeftCause)'
  BY OtherPlace DEF Leave, Goto
<1>3. FlowOK'
  BY DEF FlowOK, Serving, Leave, Goto
<1>4. TypeOK'
  BY <1>1, CancelEffect DEF TypeOK, CoreTypeOK, MainPlaces, coreVars, runVars,
    boundVars, Leave, Goto
<1>5. CountsOK'
  BY <1>1 DEF CountsOK, Starting, Serving, boundVars, Leave, Goto
<1>6. ThreadsOK'
  BY <1>1 DEF ThreadsOK, Joinable, boundVars, Leave, Goto
<1>7. FirstRunOK'
  BY DEF FirstRunOK, Starting, Serving, Leave, Goto
<1>8. QED
  BY <1>2, <1>3, <1>4, <1>5, <1>6, <1>7 DEF Inv

LEMMA DestroyKeeps ==
    ASSUME Inv, Destroy
    PROVE  Inv'
<1>1. TypeOK /\ FlowOK /\ CountsOK /\ ThreadsOK /\ FirstRunOK
  BY DEF Inv
<1>2. (QueuesOK /\ SetUpOK /\ RemovedOK /\ QueueLeftCause)'
  BY OtherPlace DEF Destroy, Goto
<1>3. FlowOK'
  BY DEF FlowOK, Serving, Destroy, Goto
<1>4. TypeOK'
  BY <1>1, CancelEffect DEF TypeOK, CoreTypeOK, MainPlaces, coreVars,
    boundVars, Destroy, Goto
<1>5. CountsOK'
  BY <1>1 DEF CountsOK, Starting, Serving, boundVars, Destroy, Goto
<1>6. ThreadsOK'
  BY <1>1 DEF ThreadsOK, Joinable, boundVars, Destroy, Goto
<1>7. FirstRunOK'
  BY DEF FirstRunOK, Starting, Serving, Destroy, Goto
<1>8. QED
  BY <1>2, <1>3, <1>4, <1>5, <1>6, <1>7 DEF Inv

LEMMA DestroyMembersKeeps ==
    ASSUME Inv, DestroyMembers
    PROVE  Inv'
<1>1. TypeOK /\ FlowOK /\ CountsOK /\ ThreadsOK /\ FirstRunOK
  BY DEF Inv
<1>2. (QueuesOK /\ SetUpOK /\ RemovedOK /\ QueueLeftCause)'
  BY OtherPlace DEF DestroyMembers, Goto
<1>3. FlowOK'
  BY DEF FlowOK, Serving, DestroyMembers, Goto
<1>4. TypeOK'
  BY <1>1 DEF TypeOK, CoreTypeOK, MainPlaces, coreVars, runVars, boundVars,
    DestroyMembers, Goto
<1>5. CountsOK'
  BY <1>1 DEF CountsOK, Starting, Serving, boundVars, DestroyMembers, Goto
<1>6. ThreadsOK'
  BY <1>1 DEF ThreadsOK, Joinable, boundVars, DestroyMembers, Goto
<1>7. FirstRunOK'
  BY DEF FirstRunOK, Starting, Serving, DestroyMembers, Goto
<1>8. QED
  BY <1>2, <1>3, <1>4, <1>5, <1>6, <1>7 DEF Inv

---------------------------------------------------------------------------
(* The other threads.                                                      *)
LEMMA LoopEndsKeeps ==
    ASSUME Inv, NEW t \in Threads, LoopEnds(t)
    PROVE  Inv'
<1>1. TypeOK /\ FlowOK /\ CountsOK /\ ThreadsOK /\ FirstRunOK
  BY DEF Inv
<1>2. t[2] \in Owners /\ UNCHANGED <<main, todo, status, canceled, runVars>>
  BY ServiceAssumption DEF ServiceAssumption, Threads, Names, LoopEnds, flowVars
<1>3. (FlowOK /\ QueuesOK /\ SetUpOK /\ RemovedOK /\ QueueLeftCause)'
  BY OtherThread DEF LoopEnds, runVars
<1>4. Spawned' = Spawned
  BY SameSets DEF LoopEnds
<1>5. TypeOK'
  BY <1>1 DEF TypeOK, CoreTypeOK, coreVars, flowVars, runVars, boundVars, LoopEnds
<1>6. CountsOK'
  BY <1>1 DEF CountsOK, flowVars, runVars, boundVars, LoopEnds
<1>7. \A u \in Threads : thread'[u] = "none" <=> thread[u] = "none"
  BY <1>1 DEF TypeOK, LoopEnds
<1>8. ThreadsOK'
  BY <1>1, <1>2, <1>4, <1>7 DEF ThreadsOK, Joinable, boundVars, LoopEnds
<1>9. FirstRunOK'
  <2>1. \A u \in Threads : thread'[u] = "ended" => thread[u] = "ended" \/ u = t
    BY <1>1 DEF TypeOK, LoopEnds
  <2>2. nFailures = 0 /\ main \in Serving => canceled[Svc] \/ ~canceled[t[2]]
    BY <1>1, <1>2 DEF FirstRunOK
  <2>3. QED
    BY <1>1, <1>2, <1>7, <2>1, <2>2 DEF FirstRunOK, runVars, LoopEnds
<1>10. QED
  BY <1>3, <1>5, <1>6, <1>8, <1>9 DEF Inv

LEMMA ReceiverHandlesKeeps ==
    ASSUME Inv, NEW o \in Owners, ReceiverHandles(o)
    PROVE  Inv'
<1>1. TypeOK /\ FlowOK /\ CountsOK /\ ThreadsOK /\ FirstRunOK
  BY DEF Inv
<1>2. Users' = Users /\ Bindings' = Bindings /\ Spawned' = Spawned
  BY SameSets DEF ReceiverHandles
<1>3. (FlowOK /\ QueuesOK /\ SetUpOK /\ RemovedOK /\ QueueLeftCause)'
  BY OtherThread DEF runVars, ReceiverHandles
<1>4. TypeOK'
  BY <1>1, CancelEffect, Numbers DEF TypeOK, CoreTypeOK, coreVars, flowVars,
    runVars, boundVars, ReceiverHandles
<1>5. CountsOK'
  BY <1>1, Numbers DEF TypeOK, CountsOK, flowVars, runVars, boundVars,
    ReceiverHandles
<1>6. ThreadsOK'
  <2>1. \A t \in Threads : thread'[t] = "none" <=> thread[t] = "none"
    BY <1>1 DEF TypeOK, ReceiverHandles
  <2>2. QED
    BY <1>1, <1>2, <2>1 DEF ThreadsOK, Joinable, flowVars, boundVars,
      ReceiverHandles
<1>7. FirstRunOK'
  <2>1. CASE UNCHANGED <<thread, canceled>>
    BY <1>1, <2>1 DEF FirstRunOK, flowVars, runVars, ReceiverHandles
  <2>2. CASE CancelService
    <3>1. canceled'[Svc]
      BY <1>1, <2>2, CancelEffect
    <3>2. thread[<<"receiver", o>>] = "running" /\ UNCHANGED <<main, nFailures>>
      BY DEF ReceiverHandles, flowVars, runVars
    <3>3. main # "setup" /\ ~(nFailures = 0 /\ main \in Starting)
      BY <1>1, <3>2, ReceiversAreThreads DEF FirstRunOK, Starting
    <3>4. QED
      BY <3>1, <3>2, <3>3 DEF FirstRunOK
  <2>3. QED
    BY <2>1, <2>2 DEF ReceiverHandles
<1>8. QED
  BY <1>3, <1>4, <1>5, <1>6, <1>7 DEF Inv

LEMMA ChildMessageKeeps ==
    ASSUME Inv, NEW c \in Names, ChildMessage(c)
    PROVE  Inv'
<1>1. TypeOK /\ FlowOK /\ CountsOK /\ ThreadsOK /\ FirstRunOK
  BY DEF Inv
<1>2. Users' = Users /\ Bindings' = Bindings /\ Spawned' = Spawned
  BY SameSets DEF ChildMessage
<1>3. (FlowOK /\ QueuesOK /\ SetUpOK /\ RemovedOK /\ QueueLeftCause)'
  BY OtherThread DEF runVars, ChildMessage
<1>4. TypeOK'
  <2>1. c \in Owners /\ inbox[c] + messages <= MaxMessages
    BY <1>1 DEF Names, CountsOK
  <2>2. inbox' \in [Owners -> 0 .. MaxMessages] /\ messages' \in 0 .. MaxMessages
    BY <1>1, <2>1, Numbers DEF TypeOK, ChildMessage
  <2>3. QED
    BY <1>1, <2>2 DEF TypeOK, CoreTypeOK, coreVars, flowVars, runVars,
      ChildMessage
<1>5. CountsOK'
  BY <1>1, Numbers DEF TypeOK, CountsOK, flowVars, runVars, ChildMessage
<1>6. ThreadsOK'
  BY <1>1, <1>2 DEF ThreadsOK, Joinable, flowVars, ChildMessage
<1>7. FirstRunOK'
  BY <1>1 DEF FirstRunOK, flowVars, runVars, ChildMessage
<1>8. QED
  BY <1>3, <1>4, <1>5, <1>6, <1>7 DEF Inv

LEMMA ChildErrorKeeps ==
    ASSUME Inv, NEW c \in Names, ChildError(c)
    PROVE  Inv'
<1>1. TypeOK /\ FlowOK /\ CountsOK /\ ThreadsOK /\ FirstRunOK
  BY DEF Inv
<1>2. Users' = Users /\ Bindings' = Bindings /\ Spawned' = Spawned
  BY SameSets DEF ChildError
<1>3. /\ <<"listener", c>> \in Threads /\ thread[<<"listener", c>>] = "running"
      /\ thread' \in [Threads -> {"none", "running", "ended"}]
      /\ \A t \in Threads : thread'[t] = "none" <=> thread[t] = "none"
  BY <1>1, ListenersAreThreads DEF TypeOK, ChildError
<1>4. main # "setup" /\ ~(nFailures = 0 /\ main \in Starting)
  BY <1>1, <1>3 DEF FirstRunOK, Starting
<1>5. CASE ChildCancels /\ UNCHANGED <<main, todo>> /\ listenError' \in BOOLEAN
  <2>1. canceled' \in [Owners -> BOOLEAN] /\ canceled'[Svc]
    BY <1>1, <1>5, CancelEffect DEF ChildCancels
  <2>2. (FlowOK /\ QueuesOK /\ SetUpOK /\ RemovedOK /\ QueueLeftCause)'
    BY <1>5, OtherThread DEF ChildError, flowVars
  <2>3. TypeOK'
    BY <1>1, <1>3, <1>5, <2>1 DEF TypeOK, CoreTypeOK, coreVars, boundVars, ChildError
  <2>4. CountsOK'
    BY <1>1, <1>5 DEF CountsOK, boundVars, ChildError
  <2>5. ThreadsOK'
    BY <1>1, <1>2, <1>3, <1>5 DEF ThreadsOK, Joinable, boundVars, ChildError
  <2>6. FirstRunOK'
    BY <1>4, <1>5, <2>1 DEF FirstRunOK, ChildError
  <2>7. QED
    BY <2>2, <2>3, <2>4, <2>5, <2>6 DEF Inv
<1>6. CASE /\ main \notin {"spawn", "listen", "join"}
           /\ Goto("aborted", {}) /\ UNCHANGED <<canceled, listenError>>
  <2>1. threadFaults # MaxThreadFaults
    BY <1>1, <1>3, <1>6 DEF ThreadsOK, Joinable
  <2>2. (QueuesOK /\ SetUpOK /\ RemovedOK /\ QueueLeftCause)'
    BY <1>6, OtherPlace DEF ChildError, Goto
  <2>3. TypeOK'
    BY <1>1, <1>3, <1>6 DEF TypeOK, CoreTypeOK, MainPlaces, coreVars, boundVars, ChildError, Goto
  <2>4. (FlowOK /\ CountsOK)'
    BY <1>1, <1>6 DEF FlowOK, CountsOK, Starting, Serving, boundVars, ChildError, Goto
  <2>5. (ThreadsOK /\ FirstRunOK)'
    BY <1>6, <2>1 DEF ThreadsOK, Joinable, FirstRunOK, Starting, Serving, boundVars,
      ChildError, Goto
  <2>6. QED
    BY <2>2, <2>3, <2>4, <2>5 DEF Inv
<1>7. QED
  <2>1. CASE main \in {"spawn", "listen", "join"}
    BY <1>5, <2>1 DEF ChildError
  <2>2. CASE main \notin {"spawn", "listen", "join"}
    <3>1. CASE ChildCancels /\ UNCHANGED <<main, todo, listenError>>
      BY <1>1, <1>5, <3>1 DEF TypeOK
    <3>2. CASE Goto("aborted", {}) /\ UNCHANGED <<canceled, listenError>>
      BY <1>6, <2>2, <3>2
    <3>3. QED
      BY <2>2, <3>1, <3>2 DEF ChildError
  <2>3. QED
    BY <2>1, <2>2

LEMMA InterruptKeeps ==
    ASSUME Inv, Interrupt
    PROVE  Inv'
<1>1. TypeOK /\ FlowOK /\ CountsOK /\ ThreadsOK /\ FirstRunOK
  BY DEF Inv
<1>2. Users' = Users /\ Bindings' = Bindings /\ Spawned' = Spawned
  BY SameSets DEF Interrupt
<1>3. (FlowOK /\ QueuesOK /\ SetUpOK /\ RemovedOK /\ QueueLeftCause)'
  BY OtherThread DEF runVars, Interrupt
<1>4. TypeOK'
  BY <1>1, CancelEffect DEF TypeOK, CoreTypeOK, coreVars, flowVars, runVars,
    boundVars, Interrupt
<1>5. CountsOK'
  BY <1>1 DEF CountsOK, flowVars, runVars, boundVars, Interrupt
<1>6. ThreadsOK'
  BY <1>1, <1>2 DEF ThreadsOK, Joinable, flowVars, boundVars, Interrupt
<1>7. FirstRunOK'
  BY <1>1, CancelEffect DEF FirstRunOK, flowVars, runVars, Interrupt
<1>8. QED
  BY <1>3, <1>4, <1>5, <1>6, <1>7 DEF Inv

LEMMA AddChildKeeps ==
    ASSUME Inv, NEW n \in Names, AddChild(n) \/ AddAsyncChild(n)
    PROVE  Inv'
<1>1. /\ main = "setup" /\ sync' \subseteq Names /\ async' \subseteq Names
      /\ UNCHANGED <<coreVars, config, flowVars, canceled, thread, inbox, runVars,
                     boundVars>>
  BY DEF Inv, TypeOK, AddChild, AddAsyncChild
<1>2. TypeOK'
  BY <1>1 DEF Inv, TypeOK, CoreTypeOK, coreVars, flowVars, runVars, boundVars
<1>3. (FlowOK /\ CountsOK)'
  BY <1>1 DEF Inv, FlowOK, CountsOK, Starting, Serving, flowVars, runVars, boundVars
<1>4. (QueuesOK /\ SetUpOK /\ RemovedOK /\ QueueLeftCause)'
  BY <1>1 DEF Inv, QueuesOK, SetUpOK, RemovedOK, QueueLeftCause, coreVars, flowVars
<1>5. \A t \in Threads : thread[t] = "none"
  BY <1>1 DEF Inv, FirstRunOK, Starting
<1>6. (ThreadsOK /\ FirstRunOK)'
  BY <1>1, <1>5 DEF Inv, ThreadsOK, Joinable, FirstRunOK, Starting, Serving, flowVars,
    runVars, boundVars
<1>7. QED
  BY <1>2, <1>3, <1>4, <1>6 DEF Inv

---------------------------------------------------------------------------
(* A step of start(): what it does to the owners' queues apart, main goes  *)
(* on with the loop, on to the next one, or throws.                        *)
LEMMA StartStep ==
    ASSUME Inv, CoreTypeOK',
           UNCHANGED <<config, sync, async, canceled, thread, inbox, nFailures,
                       served, unwinding, boundVars>>,
           listenError' \in BOOLEAN,
           main \in {"open", "exchanges", "declare", "bind", "consume"},
           \/ StartFails
           \/ todo' \subseteq todo /\ UNCHANGED <<main, status>>
           \/ /\ status' \in Statuses
              /\ \/ Goto("exchanges", {}) \/ Goto("declare", Users)
                 \/ Goto("bind", Bindings) \/ Goto("consume", Users)
                 \/ Goto("spawn", Spawned) /\ status' = listening
    PROVE  (/\ TypeOK /\ FlowOK /\ CountsOK /\ ThreadsOK /\ FirstRunOK
            /\ RemovedOK /\ QueueLeftCause)'
<1>1. TypeOK /\ FlowOK /\ CountsOK /\ ThreadsOK /\ FirstRunOK
  BY DEF Inv
<1>2. Users' = Users /\ Bindings' = Bindings /\ Spawned' = Spawned
  BY SameSets
<1>3. CASE StartFails
  <2>1. TypeOK'
    BY <1>1, <1>3 DEF TypeOK, MainPlaces, boundVars, StartFails, Goto
  <2>2. QED
    BY <1>1, <1>3, <2>1 DEF FlowOK, CountsOK, ThreadsOK, Joinable, FirstRunOK,
      RemovedOK, QueueLeftCause, Starting, Serving, boundVars, StartFails, Goto
<1>4. CASE todo' \subseteq todo /\ UNCHANGED <<main, status>>
  <2>1. TypeOK'
    BY <1>1, <1>4 DEF TypeOK, boundVars
  <2>2. (FlowOK /\ CountsOK /\ RemovedOK /\ QueueLeftCause)'
    BY <1>1, <1>2, <1>4 DEF FlowOK, CountsOK, RemovedOK, QueueLeftCause, Serving,
      boundVars
  <2>3. (ThreadsOK /\ FirstRunOK)'
    BY <1>1, <1>4 DEF ThreadsOK, Joinable, FirstRunOK, boundVars
  <2>4. QED
    BY <2>1, <2>2, <2>3
<1>5. ASSUME NEW m \in {"exchanges", "declare", "bind", "consume", "spawn"},
             main' = m, status' \in Statuses,
             m = "exchanges" => todo' = {},
             m \in {"declare", "consume"} => todo' = Users,
             m = "bind" => todo' = Bindings,
             m = "spawn" => todo' = Spawned /\ status' = listening
      PROVE  (/\ TypeOK /\ FlowOK /\ CountsOK /\ ThreadsOK /\ FirstRunOK
              /\ RemovedOK /\ QueueLeftCause)'
  <2>1. TypeOK'
    BY <1>1, <1>5, SetsTyped DEF TypeOK, MainPlaces, boundVars
  <2>2. (FlowOK /\ CountsOK)'
    BY <1>1, <1>2, <1>5 DEF FlowOK, CountsOK, Starting, Serving, boundVars
  <2>3. (RemovedOK /\ QueueLeftCause)'
    BY <1>5 DEF RemovedOK, QueueLeftCause
  <2>4. (ThreadsOK /\ FirstRunOK)'
    BY <1>1, <1>2, <1>5 DEF ThreadsOK, Joinable, FirstRunOK, Starting, Serving,
      boundVars
  <2>5. QED
    BY <2>1, <2>2, <2>3, <2>4
<1>6. listening \in Statuses
  BY DEF Statuses
<1>7. QED
  BY <1>3, <1>4, <1>5, <1>6 DEF Goto

LEMMA OpenChannelsKeeps ==
    ASSUME Inv, OpenChannels
    PROVE  Inv'
<1>1. TypeOK /\ FlowOK /\ QueuesOK
  BY DEF Inv
<1>2. PICK o \in todo, ok \in BOOLEAN :
        /\ OpenChannel(o, ok)
        /\ StartFails \/ Advance(o, channel_created, "exchanges", {})
  BY DEF OpenChannels
<1>3. o \in Owners /\ channel_created \in Statuses
  BY <1>1, SetsTyped DEF FlowOK, OpenChannels, Statuses
<1>4. /\ CoreTypeOK'
      /\ ~queue'[o]
      /\ \A q \in Owners \ {o} : chan'[q] = chan[q] /\ queue'[q] = queue[q]
  BY <1>1, <1>2, <1>3, OpenEffect DEF TypeOK
<1>5. (/\ TypeOK /\ FlowOK /\ CountsOK /\ ThreadsOK /\ FirstRunOK /\ RemovedOK
       /\ QueueLeftCause)'
  BY <1>1, <1>2, <1>3, <1>4, StartStep DEF TypeOK, OpenChannels, Advance, runVars
<1>6. QueuesOK'
  BY <1>1, <1>4 DEF QueuesOK
<1>7. SetUpOK'
  BY <1>2 DEF SetUpOK, OpenChannels, StartFails, Advance, Goto
<1>8. QED
  BY <1>5, <1>6, <1>7 DEF Inv

LEMMA SetupExchangesKeeps ==
    ASSUME Inv, SetupExchanges
    PROVE  Inv'
<1>1. TypeOK /\ QueuesOK
  BY DEF Inv
<1>2. PICK ok \in BOOLEAN :
        /\ SetupExchange(Svc, ok)
        /\ \/ status' = exchange_declared /\ Goto("declare", Users)
           \/ StartFails
  BY DEF SetupExchanges
<1>3. CoreTypeOK' /\ UNCHANGED <<chan, queue>>
  BY <1>1, <1>2, ExchangeEffect DEF TypeOK
<1>4. exchange_declared \in Statuses
  BY DEF Statuses
<1>5. (/\ TypeOK /\ FlowOK /\ CountsOK /\ ThreadsOK /\ FirstRunOK /\ RemovedOK
       /\ QueueLeftCause)'
  BY <1>1, <1>2, <1>3, <1>4, StartStep DEF TypeOK, SetupExchanges, runVars
<1>6. QueuesOK'
  BY <1>1, <1>3 DEF QueuesOK
<1>7. Users' = Users
  BY SameSets DEF SetupExchanges
<1>8. SetUpOK'
  BY <1>2, <1>7 DEF SetUpOK, StartFails, Goto
<1>9. QED
  BY <1>5, <1>6, <1>8 DEF Inv

LEMMA SetupQueuesKeeps ==
    ASSUME Inv, SetupQueues
    PROVE  Inv'
<1>1. TypeOK /\ FlowOK /\ QueuesOK /\ SetUpOK
  BY DEF Inv
<1>2. PICK o \in todo, ok \in BOOLEAN :
        /\ SetupQueue(o, ok)
        /\ (ok /\ Advance(o, queue_declared, "bind", Bindings)) \/ StartFails
  BY DEF SetupQueues, Checked
<1>3. o \in Owners /\ queue_declared \in Statuses
  BY <1>1, SetsTyped DEF FlowOK, SetupQueues, Statuses
<1>4. /\ CoreTypeOK'
      /\ UNCHANGED chan
      /\ ok => chan[o] = "open" /\ queue'[o]
      /\ ~ok => UNCHANGED queue
      /\ \A q \in Owners \ {o} : queue'[q] = queue[q]
  BY <1>1, <1>2, <1>3, QueueEffect DEF TypeOK
<1>5. (/\ TypeOK /\ FlowOK /\ CountsOK /\ ThreadsOK /\ FirstRunOK /\ RemovedOK
       /\ QueueLeftCause)'
  BY <1>1, <1>2, <1>3, <1>4, StartStep DEF TypeOK, SetupQueues, Advance, runVars
<1>6. QueuesOK'
  BY <1>1, <1>4 DEF QueuesOK
<1>7. Users' = Users /\ Bindings' = Bindings /\ Users \subseteq Owners
  BY <1>1, SameSets, SetsTyped DEF SetupQueues
<1>8. SetUpOK'
  <2>1. CASE StartFails
    BY <2>1 DEF SetUpOK, StartFails, Goto
  <2>2. CASE ok /\ Advance(o, queue_declared, "bind", Bindings)
    <3>1. \A q \in Users \ (todo \ {o}) : Declared(q)'
      BY <1>1, <1>4, <1>7, <2>2 DEF SetUpOK, SetupQueues, Declared
    <3>2. CASE todo = {o}
      BY <1>7, <2>2, <3>1, <3>2 DEF SetUpOK, Advance, Goto
    <3>3. CASE todo # {o}
      BY <1>7, <2>2, <3>1, <3>3 DEF SetUpOK, SetupQueues, Advance
    <3>4. QED
      BY <3>2, <3>3
  <2>3. QED
    BY <1>2, <2>1, <2>2
<1>9. QED
  BY <1>5, <1>6, <1>8 DEF Inv

LEMMA BindKeysKeeps ==
    ASSUME Inv, BindKeys
    PROVE  Inv'
<1>1. TypeOK /\ FlowOK /\ QueuesOK /\ SetUpOK
  BY DEF Inv
<1>2. PICK b \in todo, ok \in BOOLEAN :
        /\ BindKey(b[1], b[2], ok)
        /\ (ok /\ Advance(b, queue_bound, "consume", Users)) \/ StartFails
  BY DEF BindKeys, Checked
<1>3. /\ b \in Bindings /\ b[1] \in Owners /\ b[2] \in Keys
      /\ Bindings \subseteq Owners \X Keys /\ queue_bound \in Statuses
  BY <1>1, SetsTyped DEF FlowOK, BindKeys, Statuses
<1>4. /\ CoreTypeOK'
      /\ UNCHANGED <<chan, queue>>
      /\ ok => b[2] \in bound'[b[1]]
      /\ \A q \in Owners : bound[q] \subseteq bound'[q]
  BY <1>1, <1>2, <1>3, BindEffect DEF TypeOK
<1>5. (/\ TypeOK /\ FlowOK /\ CountsOK /\ ThreadsOK /\ FirstRunOK /\ RemovedOK
       /\ QueueLeftCause)'
  BY <1>1, <1>2, <1>3, <1>4, StartStep DEF TypeOK, BindKeys, Advance, runVars
<1>6. QueuesOK'
  BY <1>1, <1>4 DEF QueuesOK
<1>7. Users' = Users /\ Bindings' = Bindings
  BY SameSets DEF BindKeys
<1>8. SetUpOK'
  <2>1. CASE StartFails
    BY <2>1 DEF SetUpOK, StartFails, Goto
  <2>2. CASE ok /\ Advance(b, queue_bound, "consume", Users)
    <3>1. \A c \in Bindings \ (todo \ {b}) : IsBound(c)'
      BY <1>1, <1>3, <1>4, <2>2 DEF SetUpOK, BindKeys, IsBound
    <3>2. \A q \in Users : Declared(q)'
      BY <1>1, <1>4 DEF SetUpOK, BindKeys, Declared
    <3>3. CASE todo = {b}
      BY <1>7, <2>2, <3>1, <3>2, <3>3 DEF SetUpOK, Advance, Goto
    <3>4. CASE todo # {b}
      BY <1>7, <2>2, <3>1, <3>2, <3>4 DEF SetUpOK, BindKeys, Advance
    <3>5. QED
      BY <3>3, <3>4
  <2>3. QED
    BY <1>2, <2>1, <2>2
<1>9. QED
  BY <1>5, <1>6, <1>8 DEF Inv

LEMMA StartConsumingAllKeeps ==
    ASSUME Inv, StartConsumingAll
    PROVE  Inv'
<1>1. TypeOK /\ FlowOK /\ QueuesOK /\ SetUpOK
  BY DEF Inv
<1>2. PICK o \in todo, ok \in BOOLEAN :
        /\ StartConsuming(o, ok)
        /\ (ok /\ Advance(o, listening, "spawn", Spawned)) \/ StartFails
  BY DEF StartConsumingAll, Checked
<1>3. o \in Owners /\ listening \in Statuses
  BY <1>1, SetsTyped DEF FlowOK, StartConsumingAll, Statuses
<1>4. /\ CoreTypeOK'
      /\ UNCHANGED <<chan, queue, bound>>
      /\ ok => consumer'[o] /\ tag'[o]
      /\ \A q \in Owners \ {o} : consumer'[q] = consumer[q] /\ tag'[q] = tag[q]
  BY <1>1, <1>2, <1>3, ConsumeEffect DEF TypeOK
<1>5. (/\ TypeOK /\ FlowOK /\ CountsOK /\ ThreadsOK /\ FirstRunOK /\ RemovedOK
       /\ QueueLeftCause)'
  BY <1>1, <1>2, <1>3, <1>4, StartStep DEF StartConsumingAll, Advance
<1>6. QueuesOK'
  BY <1>1, <1>4 DEF QueuesOK
<1>7. Users' = Users /\ Bindings' = Bindings /\ Users \subseteq Owners
  BY <1>1, SameSets, SetsTyped DEF StartConsumingAll
<1>8. SetUpOK'
  <2>1. CASE StartFails
    BY <2>1 DEF SetUpOK, StartFails, Goto
  <2>2. CASE ok /\ Advance(o, listening, "spawn", Spawned)
    <3>1. \A q \in Users \ (todo \ {o}) : Consuming(q)'
      BY <1>1, <1>4, <1>7, <2>2 DEF SetUpOK, StartConsumingAll, Consuming
    <3>2. \A q \in Users : Declared(q)'
      BY <1>1, <1>4 DEF SetUpOK, StartConsumingAll, Declared
    <3>3. \A b \in Bindings : IsBound(b)'
      BY <1>1, <1>4 DEF SetUpOK, StartConsumingAll, IsBound
    <3>4. CASE todo = {o}
      BY <1>7, <2>2, <3>1, <3>2, <3>3, <3>4 DEF SetUpOK, Advance, Goto
    <3>5. CASE todo # {o}
      BY <1>7, <2>2, <3>1, <3>2, <3>3, <3>5 DEF SetUpOK, StartConsumingAll, Advance
    <3>6. QED
      BY <3>4, <3>5
  <2>3. QED
    BY <1>2, <2>1, <2>2
<1>9. QED
  BY <1>5, <1>6, <1>8 DEF Inv

(* A step of stop(), in the same way.                                      *)
LEMMA StopStep ==
    ASSUME Inv, CoreTypeOK',
           UNCHANGED <<config, sync, async, canceled, thread, inbox, runVars,
                       boundVars>>,
           main \in {"unconsume", "remove"},
           \/ todo' \subseteq todo /\ UNCHANGED <<main, status>>
           \/ /\ status' \in Statuses
              /\ \/ Goto("remove", Users) \/ StopReturns(TRUE) \/ StopReturns(FALSE)
    PROVE  (/\ TypeOK /\ FlowOK /\ CountsOK /\ ThreadsOK /\ FirstRunOK
            /\ SetUpOK)'
<1>1. TypeOK /\ FlowOK /\ CountsOK /\ ThreadsOK /\ FirstRunOK
  BY DEF Inv
<1>2. Users' = Users
  BY SameSets
<1>3. CASE todo' \subseteq todo /\ UNCHANGED <<main, status>>
  <2>1. TypeOK'
    BY <1>1, <1>3 DEF TypeOK, runVars, boundVars
  <2>2. (FlowOK /\ CountsOK /\ SetUpOK)'
    BY <1>1, <1>2, <1>3 DEF FlowOK, CountsOK, SetUpOK, Starting, Serving, runVars,
      boundVars
  <2>3. (ThreadsOK /\ FirstRunOK)'
    BY <1>1, <1>3 DEF ThreadsOK, Joinable, FirstRunOK, runVars, boundVars
  <2>4. QED
    BY <2>1, <2>2, <2>3
<1>4. ASSUME NEW m \in {"remove", "members", "returned", "threw"},
             main' = m, status' \in Statuses,
             todo' = IF m = "remove" THEN Users ELSE {}
      PROVE  (/\ TypeOK /\ FlowOK /\ CountsOK /\ ThreadsOK /\ FirstRunOK
              /\ SetUpOK)'
  <2>1. TypeOK'
    BY <1>1, <1>4, SetsTyped DEF TypeOK, MainPlaces, runVars, boundVars
  <2>2. (FlowOK /\ CountsOK /\ SetUpOK)'
    BY <1>1, <1>2, <1>4 DEF FlowOK, CountsOK, SetUpOK, Starting, Serving, boundVars
  <2>3. (ThreadsOK /\ FirstRunOK)'
    BY <1>1, <1>4 DEF ThreadsOK, Joinable, FirstRunOK, Starting, Serving, boundVars
  <2>4. QED
    BY <2>1, <2>2, <2>3
<1>5. QED
  BY <1>3, <1>4 DEF Goto, StopReturns

LEMMA StopConsumingAllKeeps ==
    ASSUME Inv, StopConsumingAll
    PROVE  Inv'
<1>1. TypeOK /\ FlowOK /\ QueuesOK
  BY DEF Inv
<1>2. PICK o \in todo, ok \in BOOLEAN :
        /\ StopConsuming(o, ok)
        /\ \/ StopReturns(FALSE) /\ UNCHANGED status
           \/ Advance(o, queue_bound, "remove", Users)
  BY DEF StopConsumingAll
<1>3. o \in Owners /\ queue_bound \in Statuses /\ status \in Statuses
  BY <1>1, SetsTyped DEF TypeOK, FlowOK, StopConsumingAll, Statuses
<1>4. CoreTypeOK' /\ UNCHANGED <<chan, queue>>
  BY <1>1, <1>2, <1>3, StopEffect DEF TypeOK
<1>5. (/\ TypeOK /\ FlowOK /\ CountsOK /\ ThreadsOK /\ FirstRunOK /\ SetUpOK)'
  BY <1>2, <1>3, <1>4, StopStep DEF StopConsumingAll, Advance
<1>6. QueuesOK'
  BY <1>1, <1>4 DEF QueuesOK
<1>7. Users' = Users
  BY SameSets DEF StopConsumingAll
<1>8. (RemovedOK /\ QueueLeftCause)'
  BY <1>2, <1>7 DEF RemovedOK, QueueLeftCause, StopConsumingAll, StopReturns,
    Advance, Goto
<1>9. QED
  BY <1>5, <1>6, <1>8 DEF Inv

LEMMA RemoveQueuesKeeps ==
    ASSUME Inv, RemoveQueues
    PROVE  Inv'
<1>1. TypeOK /\ FlowOK /\ QueuesOK /\ RemovedOK
  BY DEF Inv
<1>2. PICK o \in todo, ok \in BOOLEAN :
        /\ IsNext(o)
        /\ RemoveQueue(o, ok)
        /\ \/ /\ todo = {o} /\ StopReturns(ok)
              /\ status' = IF ok THEN exchange_declared ELSE status
           \/ todo # {o} /\ todo' = todo \ {o} /\ UNCHANGED <<status, main>>
  BY DEF RemoveQueues
<1>3. /\ o \in Owners /\ todo \subseteq Users /\ Users \subseteq Owners
      /\ exchange_declared \in Statuses /\ status \in Statuses
  BY <1>1, SetsTyped DEF TypeOK, FlowOK, RemoveQueues, Statuses
<1>4. /\ CoreTypeOK'
      /\ faults' <= faults /\ faults \in Nat /\ faults' \in Nat
      /\ UNCHANGED chan
      /\ \A q \in Owners : queue'[q] => queue[q]
      /\ ok => ~queue'[o]
      /\ ~ok /\ chan[o] = "open" => faults' < MaxFaults
  BY <1>1, <1>2, <1>3, RemoveEffect, Numbers DEF TypeOK, CoreTypeOK
<1>5. (/\ TypeOK /\ FlowOK /\ CountsOK /\ ThreadsOK /\ FirstRunOK /\ SetUpOK)'
  BY <1>2, <1>3, <1>4, StopStep DEF RemoveQueues
<1>6. QueuesOK'
  BY <1>1, <1>4 DEF QueuesOK
<1>7. Users' = Users
  BY SameSets DEF RemoveQueues
<1>8. \A p \in Users \ (todo \ {o}) :
        /\ queue'[p] => faults' < MaxFaults
        /\ \A q \in todo : Rank[p] <= Rank[q]
  <2>1. ASSUME NEW p \in Users \ todo
        PROVE  /\ queue'[p] => faults' < MaxFaults
               /\ \A q \in todo : Rank[p] <= Rank[q]
    BY <1>1, <1>3, <1>4, Numbers DEF RemovedOK, RemoveQueues
  <2>2. queue'[o] => faults' < MaxFaults
    BY <1>1, <1>3, <1>4 DEF QueuesOK
  <2>3. QED
    BY <1>2, <2>1, <2>2 DEF IsNext
<1>9. RemovedOK'
  BY <1>2, <1>7, <1>8 DEF RemovedOK, StopReturns, Goto
<1>10. QueueLeftCause'
  <2>1. SUFFICES ASSUME main' = "returned", NEW p \in Users, queue'[p]
                 PROVE  (\E q \in Users : Rank[q] > Rank[p]) /\ faults' < MaxFaults
    BY <1>7 DEF QueueLeftCause
  <2>2. todo = {o} /\ ok
    BY <1>2, <2>1 DEF RemoveQueues, StopReturns, Goto
  <2>3. p # o
    BY <1>4, <2>1, <2>2
  <2>4. Rank[p] <= Rank[o] /\ faults' < MaxFaults
    BY <1>8, <2>1, <2>2, <2>3
  <2>5. Rank[p] \in Nat /\ Rank[o] \in Nat /\ Rank[p] # Rank[o]
    BY <1>3, <2>3, Numbers
  <2>6. QED
    BY <1>3, <2>2, <2>4, <2>5
<1>11. QED
  BY <1>5, <1>6, <1>9, <1>10 DEF Inv

(* A lost connection takes the queue, and everything on it, with it.       *)
LEMMA LoseConnectionKeeps ==
    ASSUME Inv, NEW o \in Owners, LoseConnection(o)
    PROVE  Inv'
<1>1. /\ TypeOK /\ FlowOK /\ CountsOK /\ QueuesOK /\ SetUpOK /\ ThreadsOK
      /\ FirstRunOK /\ RemovedOK /\ QueueLeftCause
  BY DEF Inv
<1>2. /\ UNCHANGED <<config, sync, async, main, todo, status, canceled, thread,
                     inbox, runVars, boundVars>>
      /\ Break(o)
  BY DEF LoseConnection, flowVars
<1>3. /\ CoreTypeOK' /\ faults' < MaxFaults
      /\ chan'[o] = "broken"
      /\ ~queue'[o]
      /\ UNCHANGED tag
      /\ \A q \in Owners \ {o} : /\ chan'[q] = chan[q] /\ queue'[q] = queue[q]
                                 /\ bound'[q] = bound[q]
                                 /\ consumer'[q] = consumer[q]
  BY <1>1, <1>2, BreakEffect DEF TypeOK
<1>4. /\ Users' = Users /\ Bindings' = Bindings /\ Spawned' = Spawned
      /\ Users \subseteq Owners /\ Bindings \subseteq Owners \X Keys
  BY <1>1, <1>2, SameSets, SetsTyped
<1>5. TypeOK'
  BY <1>1, <1>2, <1>3 DEF TypeOK, runVars, boundVars
<1>6. (FlowOK /\ CountsOK /\ ThreadsOK /\ FirstRunOK)'
  <2>1. (FlowOK /\ CountsOK)'
    BY <1>1, <1>2, <1>4 DEF FlowOK, CountsOK, runVars, boundVars
  <2>2. (ThreadsOK /\ FirstRunOK)'
    BY <1>1, <1>2, <1>4 DEF ThreadsOK, Joinable, FirstRunOK, runVars, boundVars
  <2>3. QED
    BY <2>1, <2>2
<1>7. QueuesOK'
  BY <1>1, <1>3 DEF QueuesOK
<1>8. SetUpOK'
  <2>1. /\ \A q \in Users : Declared(q) => Declared(q)'
        /\ \A q \in Users : Consuming(q) => Consuming(q)'
    BY <1>3, <1>4 DEF Declared, Consuming
  <2>2. \A b \in Bindings : IsBound(b) => IsBound(b)'
    BY <1>3, <1>4 DEF IsBound
  <2>3. QED
    BY <1>1, <1>2, <1>4, <2>1, <2>2 DEF SetUpOK
<1>9. \A q \in Users : queue'[q] => queue[q]
  BY <1>3, <1>4
<1>10. RemovedOK'
  BY <1>1, <1>2, <1>3, <1>4 DEF RemovedOK
<1>11. QueueLeftCause'
  BY <1>1, <1>2, <1>3, <1>4, <1>9 DEF QueueLeftCause
<1>12. QED
  BY <1>5, <1>6, <1>7, <1>8, <1>10, <1>11 DEF Inv

---------------------------------------------------------------------------
LEMMA InitInv == Init => Inv
<1>1. SUFFICES ASSUME Init PROVE Inv
  OBVIOUS
<1>2. CoreTypeOK
  BY <1>1, Numbers DEF Init, CoreInit, CoreTypeOK
<1>3. TypeOK
  <2>1. inbox \in [Owners -> 0 .. MaxMessages] /\ messages \in 0 .. MaxMessages
    BY <1>1, Numbers DEF Init
  <2>2. threadFaults \in 0 .. MaxThreadFaults /\ nFailures \in 0 .. 2
    BY <1>1, Numbers DEF Init
  <2>3. /\ thread \in [Threads -> {"none", "running", "ended"}]
        /\ canceled \in [Owners -> BOOLEAN] /\ sync = {} /\ async = {}
    BY <1>1 DEF Init
  <2>4. main = "setup" /\ todo = {} /\ status \in Statuses
    BY <1>1 DEF Init, Statuses
  <2>5. QED
    BY <1>1, <1>2, <2>1, <2>2, <2>3, <2>4 DEF Init, TypeOK, MainPlaces
<1>4. FlowOK
  BY <1>1 DEF Init, FlowOK, Serving
<1>5. CountsOK
  BY <1>1, Numbers DEF Init, CountsOK
<1>6. QueuesOK /\ SetUpOK /\ RemovedOK /\ QueueLeftCause
  BY <1>1 DEF Init, CoreInit, QueuesOK, SetUpOK, RemovedOK, QueueLeftCause
<1>7. ThreadsOK /\ FirstRunOK
  BY <1>1 DEF Init, ThreadsOK, FirstRunOK, Serving
<1>8. QED
  BY <1>2, <1>3, <1>4, <1>5, <1>6, <1>7 DEF Inv

LEMMA StutterInv ==
    ASSUME Inv, UNCHANGED vars
    PROVE  Inv'
<1>1. UNCHANGED <<coreVars, config, sync, async, flowVars, canceled, thread,
                  inbox, runVars, boundVars>>
  BY DEF vars
<1>2. (FlowOK /\ QueuesOK /\ SetUpOK /\ RemovedOK /\ QueueLeftCause)'
  BY <1>1, OtherThread DEF runVars
<1>3. TypeOK'
  BY <1>1 DEF Inv, TypeOK, CoreTypeOK, coreVars, flowVars, runVars, boundVars
<1>4. Spawned' = Spawned
  BY <1>1, SameSets
<1>5. (CountsOK /\ ThreadsOK /\ FirstRunOK)'
  BY <1>1, <1>4 DEF Inv, CountsOK, ThreadsOK, Joinable, FirstRunOK, flowVars,
    runVars, boundVars
<1>6. QED
  BY <1>2, <1>3, <1>5 DEF Inv

LEMMA NextInv ==
    ASSUME Inv, Next
    PROVE  Inv'
<1>1. CASE \E n \in Names : AddChild(n) \/ AddAsyncChild(n)
  BY <1>1, AddChildKeeps
<1>2. CASE Run
  BY <1>2, RunKeeps
<1>3. CASE MainStep
  <2>1. CASE \/ Begin \/ OpenChannels \/ SetupExchanges \/ SetupQueues \/ BindKeys
             \/ StartConsumingAll
    BY <2>1, BeginKeeps, OpenChannelsKeeps, SetupExchangesKeeps, SetupQueuesKeeps,
      BindKeysKeeps, StartConsumingAllKeeps
  <2>2. CASE \/ Spawn \/ ListenCanceled \/ ListenError \/ ListenQuiet
             \/ ListenMessage \/ ListenNext \/ Join \/ CatchFailure \/ ResetCancel
    BY <2>2, SpawnKeeps, ListenCanceledKeeps, ListenErrorKeeps, ListenQuietKeeps,
      ListenMessageKeeps, ListenNextKeeps, JoinKeeps, CatchFailureKeeps,
      ResetCancelKeeps
  <2>3. CASE \/ StopBegin \/ StopConsumingAll \/ RemoveQueues \/ Leave \/ Destroy
             \/ DestroyMembers
    BY <2>3, StopBeginKeeps, StopConsumingAllKeeps, RemoveQueuesKeeps, LeaveKeeps,
      DestroyKeeps, DestroyMembersKeeps
  <2>4. QED
    BY <1>3, <2>1, <2>2, <2>3 DEF MainStep
<1>4. CASE HeartbeatEnds \/ SchedulerEnds
  <2>1. <<"heartbeat", Svc>> \in Threads /\ <<"scheduler", Svc>> \in Threads
    BY DEF Threads
  <2>2. QED
    BY <1>4, <2>1, LoopEndsKeeps DEF HeartbeatEnds, SchedulerEnds
<1>5. CASE \E o \in Owners : ReceiverEnds(o) \/ ReceiverHandles(o)
  BY <1>5, LoopEndsKeeps, ReceiversAreThreads, ReceiverHandlesKeeps DEF ReceiverEnds
<1>6. CASE \E c \in Names : ListenerStep(c)
  BY <1>6, LoopEndsKeeps, ListenersAreThreads, ChildMessageKeeps, ChildErrorKeeps
    DEF ListenerStep, ChildCanceled
<1>7. CASE Interrupt
  BY <1>7, InterruptKeeps
<1>8. CASE \E o \in Owners : LoseConnection(o)
  BY <1>8, LoseConnectionKeeps
<1>9. QED
  BY <1>1, <1>2, <1>3, <1>4, <1>5, <1>6, <1>7, <1>8 DEF Next

LEMMA InvAlways == Spec => []Inv
<1>1. Inv /\ [Next]_vars => Inv'
  BY NextInv, StutterInv
<1>2. QED
  BY <1>1, InitInv, PTL DEF Spec

---------------------------------------------------------------------------
(* THEOREMS *)

(* The variables of the model have their types: no owner's queue of        *)
(* messages grows beyond what the broker has delivered, and run() fails at *)
(* most twice.                                                             *)
THEOREM TypeCorrect == Spec => []TypeOK
<1>1. Inv => TypeOK
  BY DEF Inv
<1>2. QED
  BY <1>1, InvAlways, PTL

(* While the service listens, every channel that still works has its queue *)
(* declared, its keys bound and its consumer started, the children's too,  *)
(* although start() does not check that theirs was opened: a call on a     *)
(* null channel fails later, and ends start().                             *)
THEOREM SetUpWhileListening == Spec => []ListeningIsSetUp
<1>1. Inv => ListeningIsSetUp
  <2>1. SUFFICES ASSUME Inv, main = "listen", NEW o \in Users
                 PROVE  /\ chan[o] # "none"
                        /\ chan[o] = "open" =>
                             /\ queue[o] /\ consumer[o] /\ tag[o]
                             /\ \A b \in Bindings : b[1] = o => b[2] \in bound[o]
    BY DEF ListeningIsSetUp
  <2>2. Declared(o) /\ Consuming(o) /\ \A b \in Bindings : IsBound(b)
    BY <2>1 DEF Inv, SetUpOK
  <2>3. QED
    BY <2>2 DEF Declared, Consuming, IsBound
<1>2. QED
  BY <1>1, InvAlways, PTL

(* A service that listens uncanceled serves every child, or was restarted: *)
(* a listener that ended on an error has canceled the service with it.     *)
THEOREM DeafOnlyAfterRestart == Spec => []DeafChildCause
<1>1. Inv => DeafChildCause
  <2>1. SUFFICES ASSUME Inv, main = "listen", ~canceled[Svc], NEW c \in async,
                        nFailures # 1
                 PROVE  thread[<<"listener", c>>] = "running" /\ ~canceled[c]
    BY DEF DeafChildCause
  <2>2. nFailures = 0
    BY <2>1 DEF Inv, TypeOK, CountsOK, Serving
  <2>3. /\ c \in Owners
        /\ <<"listener", c>> \in Spawned /\ <<"listener", c>> \in Threads
    BY <2>1, ListenersSpawned DEF Inv, TypeOK, Names
  <2>4. ~canceled[c]
    BY <2>1, <2>2, <2>3 DEF Inv, FirstRunOK, Serving
  <2>5. thread[<<"listener", c>>] # "none"
    BY <2>1, <2>3 DEF Inv, ThreadsOK, Joinable
  <2>6. thread[<<"listener", c>>] # "ended"
    BY <2>1, <2>2, <2>3 DEF Inv, FirstRunOK, Serving
  <2>7. QED
    BY <2>1, <2>3, <2>4, <2>5, <2>6 DEF Inv, TypeOK
<1>2. QED
  BY <1>1, InvAlways, PTL

(* Unless the system refuses a thread, no thread object is assigned to or  *)
(* destroyed while joinable, whatever fails, is lost or is canceled.       *)
THEOREM AllThreadsJoined == Spec => []ThreadsAreJoined
<1>1. Inv => ThreadsAreJoined
  BY DEF Inv, ThreadsOK, Joinable, ThreadsAreJoined
<1>2. QED
  BY <1>1, InvAlways, PTL

(* A normal return of run() leaves a queue on the broker only if a call    *)
(* failed on a channel before the last.                                    *)
THEOREM QueueLeftOnlyByFailure == Spec => []QueueLeftCause
<1>1. Inv => QueueLeftCause
  BY DEF Inv
<1>2. QED
  BY <1>1, InvAlways, PTL

=============================================================================
