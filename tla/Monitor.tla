------------------------------ MODULE Monitor ------------------------------
(***************************************************************************)
(* A monitor (library/monitor.cc) and its client, which calls start,       *)
(* listen and stop, cancels everything when one of them fails, and         *)
(* destroys the monitor (executables/dl-mon.cc makes the calls in order;   *)
(* the client here may make them in any order).                            *)
(***************************************************************************)
EXTENDS Core

CONSTANTS Mon,            \* the owner of the channel
          RequestKeys,    \* keys bound to the requests exchange
          AlertKeys,      \* keys bound to the alerts exchange
          MaxCalls,       \* bound: calls of the client
          MaxMessages     \* bound: messages the broker delivers

ASSUME MonitorAssumption ==
    /\ Owners = {Mon}
    /\ RequestKeys \subseteq Keys /\ AlertKeys \subseteq Keys
    /\ MaxCalls \in Nat /\ MaxMessages \in Nat

VARIABLES main,         \* where the client's thread is
          todo,         \* keys still to bind
          status,       \* f_status
          canceled,     \* f_canceled
          registered,   \* the signal handler knows the monitor
          receiver,     \* f_receiver_thread: "none", "running", "ended"
          inbox,        \* complete messages in f_message_queue
          failed,       \* history: listen_on_queue returned false
          unwinding,    \* stop() is called by the destructor
          calls, messages

ownVars == <<main, todo, status, canceled, registered, receiver, inbox, failed,
             unwinding, calls, messages>>
vars == <<coreVars, ownVars>>

TypeOK ==
    /\ CoreTypeOK
    /\ main \in {"idle", "open", "exchanges", "declare", "bindRequests",
                 "bindAlerts", "consume", "spawn", "listen", "join", "unconsume",
                 "remove", "destroy", "members", "gone", "aborted"}
    /\ todo \subseteq Keys
    /\ status \in Statuses \ {processing}
    /\ canceled \in BOOLEAN /\ registered \in BOOLEAN
    /\ receiver \in {"none", "running", "ended"}
    /\ inbox \in 0 .. MaxMessages
    /\ failed \in BOOLEAN /\ unwinding \in BOOLEAN
    /\ calls \in 0 .. MaxCalls /\ messages \in 0 .. MaxMessages

Init ==
    /\ CoreInit
    /\ main = "idle" /\ todo = {} /\ status = nothing
    /\ canceled = FALSE /\ registered = FALSE /\ receiver = "none"
    /\ inbox = 0 /\ failed = FALSE /\ unwinding = FALSE
    /\ calls = MaxCalls /\ messages = MaxMessages

Goto(m) == main' = m
Call == main = "idle" /\ calls > 0 /\ calls' = calls - 1

---------------------------------------------------------------------------
(* start()                                                                 *)
Start ==
    /\ Call
    /\ Goto(IF status = nothing /\ RequestKeys \cup AlertKeys # {} THEN "open"
            ELSE "idle")
    /\ UNCHANGED <<coreVars, todo, status, canceled, registered, receiver,
                   inbox, failed, unwinding, messages>>

(* One call of core: on success the status is st and m comes next.         *)
SetUp(place, op, ok, st, m) ==
    /\ main = place
    /\ op
    /\ IF ok THEN status' = st /\ Goto(m) ELSE UNCHANGED status /\ Goto("idle")
    /\ UNCHANGED <<canceled, registered, receiver, inbox, failed, unwinding,
                   calls, messages>>

Opens == \E ok \in BOOLEAN :
    /\ SetUp("open", OpenChannel(Mon, ok), ok, channel_created, "exchanges")
    /\ UNCHANGED todo

DeclaresExchanges == \E ok \in BOOLEAN :
    /\ SetUp("exchanges", SetupExchange(Mon, ok), ok, exchange_declared, "declare")
    /\ UNCHANGED todo

DeclaresQueue == \E ok \in BOOLEAN :
    /\ SetUp("declare", SetupQueue(Mon, ok), ok, queue_declared, "bindRequests")
    /\ todo' = RequestKeys

\* Mutant: a key that cannot be bound is passed over.
PassOver(ok) == TRUE

Checked(ok) == ok

(* bind_keys(): the request keys, then the alert keys.                     *)
Binds(place, m, next, st) ==
    /\ main = place
    /\ IF todo = {}
       THEN Goto(m) /\ todo' = next /\ status' = st /\ UNCHANGED coreVars
       ELSE \E k \in todo, ok \in BOOLEAN :
              /\ BindKey(Mon, k, ok)
              /\ IF Checked(ok) THEN todo' = todo \ {k} /\ UNCHANGED main
                 ELSE todo' = {} /\ Goto("idle")
              /\ UNCHANGED status
    /\ UNCHANGED <<canceled, registered, receiver, inbox, failed, unwinding,
                   calls, messages>>

BindsRequests == Binds("bindRequests", "bindAlerts", AlertKeys, status)
BindsAlerts == Binds("bindAlerts", "consume", {}, queue_bound)

Consumes == \E ok \in BOOLEAN :
    /\ SetUp("consume", StartConsuming(Mon, ok), ok, consuming, "idle")
    /\ UNCHANGED todo

---------------------------------------------------------------------------
(* listen()                                                                *)
Listen ==
    /\ Call
    /\ registered' = TRUE
    /\ IF status = consuming THEN status' = listening /\ Goto("spawn")
       ELSE UNCHANGED status /\ Goto("idle")
    /\ UNCHANGED <<coreVars, todo, canceled, receiver, inbox, failed, unwinding,
                   messages>>

(* Assigning to a thread object that is still joinable ends the process.   *)
Spawn ==
    /\ main = "spawn"
    /\ IF receiver = "none" THEN receiver' = "running" /\ Goto("listen")
       ELSE UNCHANGED receiver /\ Goto("aborted")
    /\ UNCHANGED <<coreVars, todo, status, canceled, registered, inbox, failed,
                   unwinding, calls, messages>>

\* Mutant: the receiver thread is not joined.
WithoutJoin == "idle"

AfterListen == "join"

ListenCanceled ==
    /\ main = "listen" /\ canceled
    /\ Goto(AfterListen)
    /\ UNCHANGED <<coreVars, todo, status, canceled, registered, receiver, inbox,
                   failed, unwinding, calls, messages>>

ListenMessage ==
    /\ main = "listen" /\ ~canceled
    /\ "message_received" \in ListenResults(Mon) /\ messages > 0
    /\ messages' = messages - 1
    /\ inbox' = inbox + 1
    /\ UNCHANGED <<coreVars, main, todo, status, canceled, registered, receiver,
                   failed, unwinding, calls>>

(* The exception leaves the receiver thread neither canceled nor joined.   *)
ListenFails ==
    /\ main = "listen" /\ ~canceled
    /\ ListenResults(Mon) \cap {"hard_error", "unknown"} # {}
    /\ failed' = TRUE
    /\ Goto("idle")
    /\ UNCHANGED <<coreVars, todo, status, canceled, registered, receiver, inbox,
                   unwinding, calls, messages>>

Join ==
    /\ main = "join" /\ receiver = "ended"
    /\ receiver' = "none"
    /\ Goto("idle")
    /\ UNCHANGED <<coreVars, todo, status, canceled, registered, inbox, failed,
                   unwinding, calls, messages>>

---------------------------------------------------------------------------
(* stop(), called by the client or by the destructor.                      *)
AfterStop == IF unwinding THEN "members" ELSE "idle"

BeginStop ==
    LET st == IF status >= listening THEN consuming ELSE status IN
    /\ status' = st
    /\ canceled' = (canceled \/ status >= listening)
    /\ Goto(IF st >= queue_bound THEN "unconsume"
            ELSE IF st >= queue_declared THEN "remove" ELSE AfterStop)

Stop ==
    /\ Call
    /\ BeginStop
    /\ UNCHANGED <<coreVars, todo, registered, receiver, inbox, failed, unwinding,
                   messages>>

StopsConsuming == \E ok \in BOOLEAN :
    /\ main = "unconsume"
    /\ StopConsuming(Mon, ok)
    /\ IF ok THEN status' = queue_bound /\ Goto("remove")
       ELSE UNCHANGED status /\ Goto(AfterStop)
    /\ UNCHANGED <<todo, canceled, registered, receiver, inbox, failed, unwinding,
                   calls, messages>>

RemovesQueue == \E ok \in BOOLEAN :
    /\ main = "remove"
    /\ RemoveQueue(Mon, ok)
    /\ Goto(AfterStop)
    /\ status' = IF ok THEN exchange_declared ELSE status
    /\ UNCHANGED <<todo, canceled, registered, receiver, inbox, failed, unwinding,
                   calls, messages>>

(* ~monitor(), then the members: a joinable thread ends the process.       *)
Destroy ==
    /\ main = "idle"
    /\ unwinding' = TRUE
    /\ IF status > exchange_declared THEN
         LET st == IF status >= listening THEN consuming ELSE status IN
         /\ status' = st
         /\ canceled' = (canceled \/ status >= listening)
         /\ Goto(IF st >= queue_bound THEN "unconsume" ELSE "remove")
       ELSE Goto("members") /\ UNCHANGED <<status, canceled>>
    /\ UNCHANGED <<coreVars, todo, registered, receiver, inbox, failed, calls,
                   messages>>

DestroyMembers ==
    /\ main = "members"
    /\ Goto(IF receiver = "none" THEN "gone" ELSE "aborted")
    /\ UNCHANGED <<coreVars, todo, status, canceled, registered, receiver, inbox,
                   failed, unwinding, calls, messages>>

---------------------------------------------------------------------------
(* The receiver thread prints messages; no exception leaves submit_message.*)
Running == main \notin {"gone", "aborted"} /\ receiver = "running"

ReceiverPrints ==
    /\ Running /\ ~canceled /\ inbox > 0
    /\ inbox' = inbox - 1
    /\ UNCHANGED <<coreVars, main, todo, status, canceled, registered, receiver,
                   failed, unwinding, calls, messages>>

\* Mutant: the receiver ends only when its queue is empty.
WhenEmpty == canceled /\ inbox = 0

LoopIsLeft == canceled

ReceiverEnds ==
    /\ Running /\ LoopIsLeft
    /\ receiver' = "ended"
    /\ UNCHANGED <<coreVars, main, todo, status, canceled, registered, inbox,
                   failed, unwinding, calls, messages>>

(* An interrupt, or the client after a failed call.                        *)
CancelAll ==
    /\ registered /\ ~canceled /\ main \notin {"gone", "aborted"}
    /\ canceled' = TRUE
    /\ UNCHANGED <<coreVars, main, todo, status, registered, receiver, inbox,
                   failed, unwinding, calls, messages>>

LoseConnection ==
    /\ main \notin {"gone", "aborted"}
    /\ Break(Mon)
    /\ UNCHANGED ownVars

MainStep ==
    \/ Opens \/ DeclaresExchanges \/ DeclaresQueue \/ BindsRequests
    \/ BindsAlerts \/ Consumes \/ Spawn \/ ListenCanceled \/ ListenMessage
    \/ ListenFails \/ Join \/ StopsConsuming \/ RemovesQueue \/ DestroyMembers

ReceiverStep == ReceiverPrints \/ ReceiverEnds

Next == \/ Start \/ Listen \/ Stop \/ Destroy
        \/ MainStep \/ ReceiverStep \/ CancelAll \/ LoseConnection

Spec == Init /\ [][Next]_vars

(* The calls of the client return and the receiver thread is scheduled.    *)
FairSpec == Spec /\ WF_vars(MainStep) /\ WF_vars(ReceiverStep)

---------------------------------------------------------------------------
(* PROPERTIES *)

(* Whatever calls the client makes, and whichever of them fail half-way:   *)
(* a monitor that listens on a channel that works has a consumer on its    *)
(* queue and every key bound to it, and a status below queue_declared      *)
(* means that nothing is left on the broker.                               *)
StatusIsTrue ==
    /\ main \in {"spawn", "listen"} /\ chan[Mon] = "open"
         => consumer[Mon] /\ bound[Mon] = RequestKeys \cup AlertKeys
    /\ main \in {"idle", "members"} /\ status <= exchange_declared
         => ~queue[Mon] /\ ~consumer[Mon]

(* The thread object is destroyed or assigned to while joinable only after *)
(* listen_on_queue has reported an error.                                  *)
AbortCause == main = "aborted" => failed

(* A cancellation makes listen() return, its thread joined.                *)
CancelReturns ==
    main \in {"listen", "join"} /\ canceled ~> main = "idle"

===========================================================================
