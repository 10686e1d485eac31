--------------------------- MODULE MonitorProofs ---------------------------
(***************************************************************************)
(* Proofs about module Monitor, for any keys, calls, messages and faults.  *)
(* The inductive invariant Inv says at each stage of start() and stop()    *)
(* what the broker has, for a channel that works, and where the thread     *)
(* object can be joinable.                                                 *)
(***************************************************************************)
EXTENDS Monitor, TLAPS

All == RequestKeys \cup AlertKeys
Open == chan[Mon] = "open"

(* Messages are in the queue or still to come.                             *)
Counted == inbox + messages <= MaxMessages

(* A queue needs a channel that works; bindings and a consumer, a queue.   *)
BrokerOK ==
    /\ ~Open => ~queue[Mon]
    /\ ~queue[Mon] => ~consumer[Mon] /\ bound[Mon] = {}

(* The status when a stage begins.                                         *)
StageOK ==
    /\ main = "open" => status = nothing
    /\ main = "exchanges" => status = channel_created
    /\ main = "declare" => status = exchange_declared
    /\ main \in {"bindRequests", "bindAlerts"} => status = queue_declared
    /\ main = "consume" => status = queue_bound
    /\ main \in {"spawn", "listen"} => status = listening

(* What is bound and consumed by then.                                     *)
SetUpOK ==
    /\ Open /\ main = "bindRequests" => bound[Mon] \cup todo = RequestKeys
    /\ Open /\ main = "bindAlerts" => bound[Mon] \cup todo = All
    /\ Open /\ main = "consume" => bound[Mon] = All
    /\ Open /\ status >= consuming => bound[Mon] = All /\ consumer[Mon]

(* A status below queue_declared means that there is no queue.             *)
CleanOK == status <= exchange_declared => ~queue[Mon]

(* Unless listen_on_queue has failed, only listen() has a thread.          *)
ThreadOK ==
    ~failed => /\ main # "aborted"
               /\ receiver # "none" => main \in {"listen", "join"}

Inv == TypeOK /\ Counted /\ BrokerOK /\ StageOK /\ SetUpOK /\ CleanOK /\ ThreadOK

---------------------------------------------------------------------------
(* The calls of core, as seen by the one owner of a channel there is.      *)
LEMMA MonIsOwner == Mon \in Owners /\ Owners = {Mon}
BY MonitorAssumption DEF MonitorAssumption

LEMMA Constants ==
    /\ RequestKeys \subseteq Keys /\ AlertKeys \subseteq Keys
    /\ MaxCalls \in Nat /\ MaxMessages \in Nat /\ MaxFaults \in Nat
BY MonitorAssumption, CoreAssumption DEF MonitorAssumption, CoreAssumption

LEMMA FaultsTyped ==
    ASSUME CoreTypeOK, NEW P, NEW ok \in BOOLEAN, Result(P, ok)
    PROVE  faults' \in 0 .. MaxFaults
BY Constants DEF CoreTypeOK, Result

LEMMA OpenEffect ==
    ASSUME CoreTypeOK, NEW ok \in BOOLEAN, OpenChannel(Mon, ok)
    PROVE  /\ CoreTypeOK'
           /\ chan'[Mon] = (IF ok THEN "open" ELSE "none")
           /\ ~queue'[Mon] /\ bound'[Mon] = {} /\ ~consumer'[Mon]
<1>1. faults' \in 0 .. MaxFaults
  BY FaultsTyped DEF OpenChannel
<1>2. QED
  BY <1>1, MonIsOwner DEF OpenChannel, CoreTypeOK

LEMMA ExchangeEffect ==
    ASSUME CoreTypeOK, NEW ok \in BOOLEAN, SetupExchange(Mon, ok)
    PROVE  CoreTypeOK' /\ UNCHANGED <<chan, queue, bound, consumer, tag>>
<1>1. faults' \in 0 .. MaxFaults
  BY FaultsTyped DEF SetupExchange
<1>2. QED
  BY <1>1 DEF SetupExchange, CoreTypeOK

LEMMA QueueEffect ==
    ASSUME CoreTypeOK, NEW ok \in BOOLEAN, SetupQueue(Mon, ok)
    PROVE  /\ CoreTypeOK'
           /\ UNCHANGED <<chan, bound, consumer>>
           /\ ok => Open /\ queue'[Mon]
           /\ ~ok => (queue'[Mon] <=> queue[Mon])
<1>1. faults' \in 0 .. MaxFaults
  BY FaultsTyped DEF SetupQueue
<1>2. ok => Open
  BY DEF SetupQueue, Result, Open
<1>3. QED
  BY <1>1, <1>2, MonIsOwner DEF SetupQueue, CoreTypeOK

LEMMA BindEffect ==
    ASSUME CoreTypeOK, NEW k \in Keys, NEW ok \in BOOLEAN, BindKey(Mon, k, ok)
    PROVE  /\ CoreTypeOK'
           /\ UNCHANGED <<chan, queue, consumer>>
           /\ ok => queue[Mon] /\ bound'[Mon] = bound[Mon] \cup {k}
           /\ ~ok => bound'[Mon] = bound[Mon]
<1>1. faults' \in 0 .. MaxFaults
  BY FaultsTyped DEF BindKey
<1>2. ok => queue[Mon]
  BY DEF BindKey, Result
<1>3. bound' \in [Owners -> SUBSET Keys]
  BY MonIsOwner DEF BindKey, CoreTypeOK
<1>4. QED
  BY <1>1, <1>2, <1>3, MonIsOwner DEF BindKey, CoreTypeOK

LEMMA ConsumeEffect ==
    ASSUME CoreTypeOK, NEW ok \in BOOLEAN, StartConsuming(Mon, ok)
    PROVE  /\ CoreTypeOK'
           /\ UNCHANGED <<chan, queue, bound>>
           /\ ok => queue[Mon] /\ consumer'[Mon]
           /\ ~ok => (consumer'[Mon] <=> consumer[Mon])
<1>1. faults' \in 0 .. MaxFaults
  BY FaultsTyped DEF StartConsuming
<1>2. ok => queue[Mon]
  BY DEF StartConsuming, Result
<1>3. QED
  BY <1>1, <1>2, MonIsOwner DEF StartConsuming, CoreTypeOK

LEMMA StopEffect ==
    ASSUME CoreTypeOK, NEW ok \in BOOLEAN, StopConsuming(Mon, ok)
    PROVE  /\ CoreTypeOK'
           /\ UNCHANGED <<chan, queue, bound>>
           /\ ok => ~consumer'[Mon]
           /\ ~ok => (consumer'[Mon] <=> consumer[Mon])
<1>1. faults' \in 0 .. MaxFaults
  BY FaultsTyped DEF StopConsuming
<1>2. QED
  BY <1>1, MonIsOwner DEF StopConsuming, CoreTypeOK

LEMMA RemoveEffect ==
    ASSUME CoreTypeOK, NEW ok \in BOOLEAN, RemoveQueue(Mon, ok)
    PROVE  /\ CoreTypeOK'
           /\ UNCHANGED chan
           /\ ok => ~queue'[Mon] /\ ~consumer'[Mon] /\ bound'[Mon] = {}
           /\ ~ok => /\ (queue'[Mon] <=> queue[Mon])
                     /\ (consumer'[Mon] <=> consumer[Mon])
                     /\ bound'[Mon] = bound[Mon]
<1>1. faults' \in 0 .. MaxFaults
  BY FaultsTyped DEF RemoveQueue
<1>2. QED
  BY <1>1, MonIsOwner DEF RemoveQueue, CoreTypeOK

LEMMA BreakEffect ==
    ASSUME CoreTypeOK, Break(Mon)
    PROVE  /\ CoreTypeOK'
           /\ chan'[Mon] = "broken"
           /\ ~queue'[Mon] /\ bound'[Mon] = {} /\ ~consumer'[Mon]
BY Constants, MonIsOwner DEF Break, CoreTypeOK

---------------------------------------------------------------------------
(* A step that leaves the broker alone keeps CoreTypeOK and BrokerOK.      *)
LEMMA CoreFrame ==
    ASSUME TypeOK, BrokerOK, UNCHANGED coreVars
    PROVE  CoreTypeOK' /\ BrokerOK' /\ chan' = chan /\ queue' = queue
           /\ bound' = bound /\ consumer' = consumer
BY DEF TypeOK, CoreTypeOK, BrokerOK, Open, coreVars

LEMMA InitInv == Init => Inv
<1> SUFFICES ASSUME Init PROVE Inv
  OBVIOUS
<1> USE DEF Init, CoreInit, nothing, channel_created, exchange_declared,
        queue_declared, queue_bound, consuming, listening, processing
<1>1. TypeOK
  <2>1. CoreTypeOK
    BY Constants DEF CoreTypeOK
  <2>2. status \in Statuses \ {processing}
    BY DEF Statuses
  <2>3. inbox \in 0 .. MaxMessages /\ messages \in 0 .. MaxMessages
        /\ calls \in 0 .. MaxCalls
    BY Constants
  <2>4. QED
    BY <2>1, <2>2, <2>3 DEF TypeOK
<1>2. Counted /\ BrokerOK /\ CleanOK
  BY Constants, MonIsOwner DEF Counted, BrokerOK, Open, CleanOK
<1>3. ~Open
  BY MonIsOwner DEF Open
<1>4. StageOK /\ SetUpOK /\ ThreadOK
  BY <1>3 DEF StageOK, SetUpOK, ThreadOK
<1>5. QED
  BY <1>1, <1>2, <1>4 DEF Inv

(* The calls of the client.                                                *)
LEMMA CallInv ==
    ASSUME Inv, Start \/ Listen \/ Stop \/ Destroy
    PROVE  Inv'
<1> USE DEF nothing, channel_created, exchange_declared, queue_declared,
        queue_bound, consuming, listening, processing
<1>0. CoreTypeOK' /\ BrokerOK' /\ chan' = chan /\ queue' = queue
      /\ bound' = bound /\ consumer' = consumer /\ todo' = todo
      /\ receiver' = receiver /\ failed' = failed /\ inbox' = inbox
      /\ messages' = messages
  BY CoreFrame DEF Inv, Start, Listen, Stop, BeginStop, Destroy
<1>1. main = "idle" /\ receiver \in {"none", "running", "ended"}
  BY DEF Inv, Start, Listen, Stop, Destroy, Call, TypeOK
<1>2. calls' \in 0 .. MaxCalls
  BY Constants DEF Inv, Start, Listen, Stop, Destroy, Call, TypeOK
<1>3. TypeOK'
  <2>1. CASE Start
    BY <2>1, <1>0, <1>2 DEF Inv, Start, Goto, TypeOK
  <2>2. CASE Listen
    BY <2>2, <1>0, <1>2 DEF Inv, Listen, Goto, TypeOK, Statuses
  <2>3. CASE Stop
    BY <2>3, <1>0, <1>2 DEF Inv, Stop, BeginStop, AfterStop, Goto, TypeOK, Statuses
  <2>4. CASE Destroy
    <3>1. canceled' \in BOOLEAN
      BY <2>4, Zenon DEF Inv, Destroy, TypeOK
    <3>2. status' \in Statuses \ {processing}
          /\ main' \in {"members", "unconsume", "remove"}
      BY <2>4 DEF Inv, Destroy, Goto, TypeOK, Statuses
    <3>3. QED
      BY <2>4, <3>1, <3>2, <1>0, <1>2 DEF Inv, Destroy, TypeOK
  <2>5. QED
    BY <2>1, <2>2, <2>3, <2>4
<1>4. \/ main' \in {"idle", "members", "unconsume", "remove"} /\ status' = status
      \/ main' = "open" /\ status' = status /\ status = nothing
      \/ main' = "spawn" /\ status' = listening /\ status = consuming
      \/ main' \in {"idle", "members", "unconsume", "remove"}
         /\ status >= listening /\ status' = consuming
  <2>1. CASE Start
    BY <2>1, <1>1 DEF Start, Goto
  <2>2. CASE Listen
    BY <2>2, <1>1 DEF Listen, Goto
  <2>3. CASE Stop
    BY <2>3, <1>1 DEF Stop, BeginStop, AfterStop, Goto
  <2>4. CASE Destroy
    BY <2>4, <1>1 DEF Destroy, Goto
  <2>5. QED
    BY <2>1, <2>2, <2>3, <2>4
<1>5. Counted' /\ StageOK' /\ CleanOK' /\ ThreadOK'
  BY <1>0, <1>1, <1>4 DEF Inv, Counted, StageOK, CleanOK, ThreadOK
<1>6. SetUpOK'
  BY <1>0, <1>1, <1>4 DEF Inv, SetUpOK, Open, TypeOK, Statuses
<1>7. QED
  BY <1>0, <1>3, <1>5, <1>6 DEF Inv

(* start(): one call of core after the other.                              *)
LEMMA SetUpInv ==
    ASSUME Inv, Opens \/ DeclaresExchanges \/ DeclaresQueue \/ Consumes
    PROVE  Inv'
<1> USE DEF nothing, channel_created, exchange_declared, queue_declared,
        queue_bound, consuming, listening, processing
<1>0. UNCHANGED <<canceled, registered, receiver, inbox, failed, unwinding,
                  calls, messages>>
  BY DEF Opens, DeclaresExchanges, DeclaresQueue, Consumes, SetUp
<1>1. TypeOK /\ CoreTypeOK /\ receiver' = receiver /\ failed' = failed
  BY <1>0 DEF Inv, TypeOK
<1>2. CASE Opens
  <2> PICK ok \in BOOLEAN :
        /\ SetUp("open", OpenChannel(Mon, ok), ok, channel_created, "exchanges")
        /\ todo' = todo
    BY <1>2 DEF Opens
  <2>1. CoreTypeOK' /\ ~queue'[Mon] /\ bound'[Mon] = {} /\ ~consumer'[Mon]
    BY <1>1, OpenEffect DEF SetUp
  <2>2. main = "open" /\ status = nothing
        /\ \/ main' = "exchanges" /\ status' = channel_created
           \/ main' = "idle" /\ status' = nothing
    BY DEF SetUp, Goto, Inv, StageOK
  <2>3. QED
    BY <1>0, <1>1, <2>1, <2>2 DEF Inv, TypeOK, Statuses, Counted, BrokerOK, StageOK,
       SetUpOK, Open, CleanOK, ThreadOK
<1>3. CASE DeclaresExchanges
  <2> PICK ok \in BOOLEAN :
        /\ SetUp("exchanges", SetupExchange(Mon, ok), ok, exchange_declared, "declare")
        /\ todo' = todo
    BY <1>3 DEF DeclaresExchanges
  <2>1. CoreTypeOK' /\ UNCHANGED <<chan, queue, bound, consumer>>
    BY <1>1, ExchangeEffect DEF SetUp
  <2>2. main = "exchanges" /\ status = channel_created
        /\ \/ main' = "declare" /\ status' = exchange_declared
           \/ main' = "idle" /\ status' = channel_created
    BY DEF SetUp, Goto, Inv, StageOK
  <2>3. QED
    BY <1>0, <1>1, <2>1, <2>2 DEF Inv, TypeOK, Statuses, Counted, BrokerOK, StageOK,
       SetUpOK, Open, CleanOK, ThreadOK
<1>4. CASE DeclaresQueue
  <2> PICK ok \in BOOLEAN :
        SetUp("declare", SetupQueue(Mon, ok), ok, queue_declared, "bindRequests")
    BY <1>4 DEF DeclaresQueue
  <2>1. /\ CoreTypeOK' /\ UNCHANGED <<chan, bound, consumer>>
        /\ ok => Open /\ queue'[Mon]
        /\ ~ok => (queue'[Mon] <=> queue[Mon])
    BY <1>1, QueueEffect DEF SetUp
  <2>2. main = "declare" /\ status = exchange_declared /\ todo' = RequestKeys
        /\ \/ ok /\ main' = "bindRequests" /\ status' = queue_declared
           \/ ~ok /\ main' = "idle" /\ status' = exchange_declared
    BY <1>4 DEF DeclaresQueue, SetUp, Goto, Inv, StageOK
  <2>3. ~queue[Mon] /\ bound[Mon] = {} /\ ~consumer[Mon]
    BY <2>2 DEF Inv, CleanOK, BrokerOK
  <2>4. QED
    BY <1>0, <1>1, <2>1, <2>2, <2>3, Constants DEF Inv, TypeOK, Statuses, Counted,
       BrokerOK, StageOK, SetUpOK, Open, CleanOK, ThreadOK
<1>5. CASE Consumes
  <2> PICK ok \in BOOLEAN :
        /\ SetUp("consume", StartConsuming(Mon, ok), ok, consuming, "idle")
        /\ todo' = todo
    BY <1>5 DEF Consumes
  <2>1. /\ CoreTypeOK' /\ UNCHANGED <<chan, queue, bound>>
        /\ ok => queue[Mon] /\ consumer'[Mon]
        /\ ~ok => (consumer'[Mon] <=> consumer[Mon])
    BY <1>1, ConsumeEffect DEF SetUp
  <2>2. main = "consume" /\ status = queue_bound /\ main' = "idle"
        /\ \/ ok /\ status' = consuming
           \/ ~ok /\ status' = queue_bound
    BY DEF SetUp, Goto, Inv, StageOK
  <2>3. QED
    BY <1>0, <1>1, <2>1, <2>2 DEF Inv, TypeOK, Statuses, Counted, BrokerOK, StageOK,
       SetUpOK, Open, CleanOK, ThreadOK
<1>6. QED
  BY <1>2, <1>3, <1>4, <1>5

(* bind_keys(): each step binds a key that is left, or ends the stage.     *)
LEMMA BindInv ==
    ASSUME Inv, BindsRequests \/ BindsAlerts
    PROVE  Inv'
<1> USE DEF nothing, channel_created, exchange_declared, queue_declared,
        queue_bound, consuming, listening, processing
<1>1. PICK place \in {"bindRequests", "bindAlerts"} :
        LET m == IF place = "bindRequests" THEN "bindAlerts" ELSE "consume"
            next == IF place = "bindRequests" THEN AlertKeys ELSE {}
            st == IF place = "bindRequests" THEN status ELSE queue_bound IN
        Binds(place, m, next, st)
  BY DEF BindsRequests, BindsAlerts
<1>2. /\ main = place /\ status = queue_declared /\ TypeOK /\ CoreTypeOK
      /\ UNCHANGED <<canceled, registered, receiver, inbox, failed, unwinding,
                     calls, messages>>
  BY <1>1 DEF Binds, Inv, StageOK, TypeOK
<1>3. CASE todo = {}
  <2>1. CoreTypeOK' /\ BrokerOK' /\ UNCHANGED <<chan, queue, bound, consumer>>
    BY <1>1, <1>3, CoreFrame DEF Binds, Inv
  <2>2. \/ /\ main = "bindRequests" /\ main' = "bindAlerts" /\ todo' = AlertKeys
           /\ status' = queue_declared
        \/ /\ main = "bindAlerts" /\ main' = "consume" /\ todo' = {}
           /\ status' = queue_bound
    BY <1>1, <1>2, <1>3 DEF Binds, Goto
  <2>3. TypeOK' /\ Counted' /\ StageOK' /\ CleanOK' /\ ThreadOK'
    BY <1>2, <2>1, <2>2, Constants DEF Inv, TypeOK, Statuses, Counted, StageOK, CleanOK,
       ThreadOK
  <2>4. SetUpOK'
    BY <1>2, <1>3, <2>1, <2>2 DEF Inv, SetUpOK, Open, All
  <2>5. QED
    BY <2>1, <2>3, <2>4 DEF Inv
<1>4. CASE todo # {}
  <2>1. PICK k \in todo, ok \in BOOLEAN :
          /\ BindKey(Mon, k, ok)
          /\ \/ ok /\ todo' = todo \ {k} /\ main' = main
             \/ ~ok /\ todo' = {} /\ main' = "idle"
          /\ status' = status
    BY <1>1, <1>4 DEF Binds, Checked, Goto
  <2>2. k \in Keys
    BY <1>2 DEF TypeOK
  <2>3. /\ CoreTypeOK' /\ UNCHANGED <<chan, queue, consumer>>
        /\ ok => queue[Mon] /\ bound'[Mon] = bound[Mon] \cup {k}
        /\ ~ok => bound'[Mon] = bound[Mon]
    BY <1>2, <2>1, <2>2, BindEffect
  <2>4. TypeOK' /\ Counted' /\ BrokerOK' /\ StageOK' /\ CleanOK' /\ ThreadOK'
    BY <1>2, <2>1, <2>3 DEF Inv, TypeOK, Statuses, Counted, BrokerOK, Open, StageOK,
       CleanOK, ThreadOK
  <2>5. ok => bound'[Mon] \cup todo' = bound[Mon] \cup todo
    BY <2>1, <2>3
  <2>6. SetUpOK'
    BY <1>2, <2>1, <2>3, <2>5 DEF Inv, SetUpOK, Open
  <2>7. QED
    BY <2>4, <2>6 DEF Inv
<1>5. QED
  BY <1>3, <1>4

(* listen() and the receiver thread leave the broker alone.                *)
LEMMA ListenInv ==
    ASSUME Inv,
           Spawn \/ ListenCanceled \/ ListenMessage \/ ListenFails \/ Join
             \/ DestroyMembers \/ ReceiverPrints \/ ReceiverEnds \/ CancelAll
    PROVE  Inv'
<1> USE DEF nothing, channel_created, exchange_declared, queue_declared,
        queue_bound, consuming, listening, processing
<1>1. CoreTypeOK' /\ BrokerOK' /\ UNCHANGED <<chan, queue, bound, consumer>>
  BY CoreFrame DEF Inv, Spawn, ListenCanceled, ListenMessage, ListenFails, Join,
     DestroyMembers, ReceiverPrints, ReceiverEnds, CancelAll
<1>2. UNCHANGED <<todo, status, unwinding, calls>>
  BY DEF Spawn, ListenCanceled, ListenMessage, ListenFails, Join, DestroyMembers,
     ReceiverPrints, ReceiverEnds, CancelAll
<1>3. inbox' \in 0 .. MaxMessages /\ messages' \in 0 .. MaxMessages /\ Counted'
  BY Constants DEF Inv, TypeOK, Counted, Spawn, ListenCanceled, ListenMessage,
     ListenFails, Join, DestroyMembers, ReceiverPrints, ReceiverEnds, CancelAll
<1>4. /\ canceled' \in BOOLEAN /\ registered' \in BOOLEAN /\ failed' \in BOOLEAN
  BY DEF Inv, TypeOK, Spawn, ListenCanceled, ListenMessage, ListenFails, Join,
     DestroyMembers, ReceiverPrints, ReceiverEnds, CancelAll
<1>5. \/ main' = main /\ UNCHANGED failed
         /\ \/ receiver' = receiver
            \/ receiver = "running" /\ receiver' = "ended"
      \/ /\ main = "spawn" /\ UNCHANGED failed
         /\ \/ main' = "listen" /\ receiver' = "running"
            \/ main' = "aborted" /\ receiver # "none" /\ receiver' = receiver
      \/ main = "listen" /\ main' = "join" /\ UNCHANGED <<receiver, failed>>
      \/ main = "listen" /\ main' = "idle" /\ failed' /\ UNCHANGED receiver
      \/ main = "join" /\ main' = "idle" /\ receiver' = "none" /\ UNCHANGED failed
      \/ main = "members" /\ UNCHANGED <<receiver, failed>>
         /\ \/ main' = "gone" /\ receiver = "none"
            \/ main' = "aborted" /\ receiver # "none"
  <2>1. CASE Spawn
    BY <2>1 DEF Spawn, Goto
  <2>2. CASE ListenCanceled \/ ListenMessage \/ ListenFails
    BY <2>2 DEF ListenCanceled, ListenMessage, ListenFails, AfterListen, Goto
  <2>3. CASE Join \/ DestroyMembers
    BY <2>3 DEF Join, DestroyMembers, Goto
  <2>4. CASE ReceiverPrints \/ ReceiverEnds \/ CancelAll
    BY <2>4 DEF ReceiverPrints, ReceiverEnds, Running, CancelAll
  <2>5. QED
    BY <2>1, <2>2, <2>3, <2>4
<1>6. TypeOK'
  BY <1>1, <1>2, <1>3, <1>4, <1>5 DEF Inv, TypeOK
<1>7. StageOK' /\ CleanOK' /\ ThreadOK'
  BY <1>1, <1>2, <1>5 DEF Inv, StageOK, CleanOK, ThreadOK
<1>8. SetUpOK'
  BY <1>1, <1>2, <1>5 DEF Inv, SetUpOK, Open
<1>9. QED
  BY <1>1, <1>3, <1>6, <1>7, <1>8 DEF Inv

(* stop() and the loss of the connection.                                  *)
LEMMA StopInv ==
    ASSUME Inv, StopsConsuming \/ RemovesQueue \/ LoseConnection
    PROVE  Inv'
<1> USE DEF nothing, channel_created, exchange_declared, queue_declared,
        queue_bound, consuming, listening, processing
<1>1. UNCHANGED <<todo, canceled, registered, receiver, inbox, failed, unwinding,
                  calls, messages>>
  BY DEF StopsConsuming, RemovesQueue, LoseConnection, ownVars
<1>2. TypeOK /\ CoreTypeOK /\ Counted'
  BY <1>1 DEF Inv, TypeOK, Counted
<1>3. CASE StopsConsuming
  <2> PICK ok \in BOOLEAN :
        /\ main = "unconsume" /\ StopConsuming(Mon, ok)
        /\ \/ ok /\ status' = queue_bound /\ main' = "remove"
           \/ ~ok /\ status' = status /\ main' \in {"members", "idle"}
    BY <1>3 DEF StopsConsuming, Goto, AfterStop
  <2>1. /\ CoreTypeOK' /\ UNCHANGED <<chan, queue, bound>>
        /\ ok => ~consumer'[Mon]
        /\ ~ok => (consumer'[Mon] <=> consumer[Mon])
    BY <1>2, StopEffect
  <2>2. TypeOK'
    BY <1>1, <1>2, <2>1 DEF TypeOK, Statuses
  <2>3. BrokerOK'
    BY <2>1 DEF Inv, BrokerOK, Open
  <2>4. CASE ok
    BY <1>1, <1>2, <2>1, <2>2, <2>3, <2>4 DEF Inv, StageOK, SetUpOK, Open, CleanOK,
       ThreadOK
  <2>5. CASE ~ok
    BY <1>1, <1>2, <2>1, <2>2, <2>3, <2>5 DEF Inv, StageOK, SetUpOK, Open, CleanOK,
       ThreadOK
  <2>6. QED
    BY <2>4, <2>5
<1>4. CASE RemovesQueue
  <2> PICK ok \in BOOLEAN :
        /\ main = "remove" /\ RemoveQueue(Mon, ok)
        /\ main' \in {"members", "idle"}
        /\ \/ ok /\ status' = exchange_declared
           \/ ~ok /\ status' = status
    BY <1>4 DEF RemovesQueue, Goto, AfterStop
  <2>1. /\ CoreTypeOK' /\ UNCHANGED chan
        /\ ok => ~queue'[Mon] /\ ~consumer'[Mon] /\ bound'[Mon] = {}
        /\ ~ok => /\ (queue'[Mon] <=> queue[Mon])
                  /\ (consumer'[Mon] <=> consumer[Mon])
                  /\ bound'[Mon] = bound[Mon]
    BY <1>2, RemoveEffect
  <2>2. TypeOK'
    BY <1>1, <1>2, <2>1 DEF TypeOK, Statuses
  <2>3. BrokerOK'
    BY <2>1 DEF Inv, BrokerOK, Open
  <2>4. CASE ok
    BY <1>1, <1>2, <2>1, <2>2, <2>3, <2>4 DEF Inv, StageOK, SetUpOK, Open, CleanOK,
       ThreadOK
  <2>5. CASE ~ok
    BY <1>1, <1>2, <2>1, <2>2, <2>3, <2>5 DEF Inv, StageOK, SetUpOK, Open, CleanOK,
       ThreadOK
  <2>6. QED
    BY <2>4, <2>5
<1>5. CASE LoseConnection
  <2>1. CoreTypeOK' /\ chan'[Mon] = "broken"
        /\ ~queue'[Mon] /\ bound'[Mon] = {} /\ ~consumer'[Mon]
    BY <1>2, <1>5, BreakEffect DEF LoseConnection
  <2>2. UNCHANGED <<main, status>>
    BY <1>5 DEF LoseConnection, ownVars
  <2>3. TypeOK' /\ BrokerOK' /\ StageOK' /\ CleanOK' /\ ThreadOK'
    BY <1>1, <1>2, <2>1, <2>2 DEF Inv, TypeOK, BrokerOK, Open, StageOK, CleanOK, ThreadOK
  <2>4. SetUpOK'
    BY <1>1, <1>2, <2>1, <2>2 DEF Inv, SetUpOK, Open
  <2>5. QED
    BY <1>2, <2>3, <2>4 DEF Inv
<1>6. QED
  BY <1>3, <1>4, <1>5

LEMMA StutterInv == ASSUME Inv, UNCHANGED vars PROVE Inv'
<1>1. CoreTypeOK' /\ BrokerOK' /\ UNCHANGED <<chan, queue, bound, consumer>>
  BY CoreFrame DEF Inv, vars
<1>2. QED
  BY <1>1 DEF Inv, TypeOK, vars, ownVars, Counted, StageOK, SetUpOK, Open, CleanOK,
     ThreadOK

LEMMA NextInv == Inv /\ [Next]_vars => Inv'
BY CallInv, SetUpInv, BindInv, ListenInv, StopInv, StutterInv
   DEF Next, MainStep, ReceiverStep

LEMMA Invariance == Spec => []Inv
BY InitInv, NextInv, PTL DEF Spec

---------------------------------------------------------------------------
(* Every reachable state of the monitor (monitor.cc) is well typed.        *)
THEOREM MonitorTypeCorrect == Spec => []TypeOK
<1>1. Inv => TypeOK
  BY DEF Inv
<1>2. QED
  BY <1>1, Invariance, PTL

(* After any calls, any of which may fail half-way, f_status of a monitor  *)
(* tells what is on the broker.                                            *)
THEOREM StatusTellsTheBroker == Spec => []StatusIsTrue
<1>1. Inv => StatusIsTrue
  BY DEF Inv, BrokerOK, StageOK, SetUpOK, CleanOK, StatusIsTrue, Open, All, consuming,
     listening
<1>2. QED
  BY <1>1, Invariance, PTL

(* Only after listen_on_queue has failed may a joinable thread object be   *)
(* destroyed or assigned to.                                               *)
THEOREM ThreadIsJoined == Spec => []AbortCause
<1>1. Inv => AbortCause
  BY DEF Inv, ThreadOK, AbortCause
<1>2. QED
  BY <1>1, Invariance, PTL

===========================================================================
