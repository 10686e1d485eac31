------------------------------ MODULE Service ------------------------------
(***************************************************************************)
(* The life of a service (library/service.cc): start, listen and stop with *)
(* their threads, the restart after an error, cancellation, and the        *)
(* destructor, for an application that runs it as                          *)
(* examples/simple_service.cc does.                                        *)
(*                                                                         *)
(* main is where the calling thread is.  A loop over the service and its   *)
(* children, its bindings or its threads is a set todo of the items left,  *)
(* taken in the order of the code.  The message receiver of each listener  *)
(* is abstracted to the number of complete messages in its queue (module   *)
(* Receiver has the detail), the handling of a message to its outcome      *)
(* (module Endpoint).                                                      *)
(***************************************************************************)
EXTENDS Core

CONSTANTS Svc,             \* the service; the other owners can be children
          Rank,            \* order of the owners: the service, then map order
          Broadcast,       \* f_broadcast_key
          Configs,         \* configurations
          MaxMessages,     \* bound: messages the broker delivers
          MaxThreadFaults  \* bound: threads the system refuses to create

Names == Owners \ {Svc}

ConfigType == [connect : BOOLEAN, named : BOOLEAN, restart : BOOLEAN,
               heartbeat : BOOLEAN, scheduling : BOOLEAN]

ASSUME ServiceAssumption ==
    /\ Svc \in Owners
    /\ Keys = Owners \cup {Broadcast}
    /\ Rank \in [Owners -> Nat]
    /\ \A o, p \in Owners : Rank[o] = Rank[p] => o = p
    /\ Configs \subseteq ConfigType
    /\ MaxMessages \in Nat
    /\ MaxThreadFaults \in Nat

Threads == ({"heartbeat", "scheduler"} \X {Svc})
             \cup ({"receiver"} \X Owners) \cup ({"listener"} \X Names)

VARIABLES config,        \* the configuration
          sync,          \* f_sync_children
          async,         \* f_async_children
          main,          \* where the thread of run() is
          todo,          \* items left in its loop
          status,        \* f_status
          canceled,      \* f_canceled of the service and of each child
          thread,        \* "none" (not joinable), "running", "ended"
          inbox,         \* complete messages in f_message_queue
          listenError,   \* t_listen_error of listen()
          nFailures,     \* n_failures of run()
          served,        \* history: the listener worked since the last start
          unwinding,     \* stop() is called by the destructor
          messages,      \* messages the broker still delivers
          threadFaults   \* thread creations that still fail

flowVars == <<main, todo, status>>
runVars == <<listenError, nFailures, served, unwinding>>
boundVars == <<messages, threadFaults>>
vars == <<coreVars, config, sync, async, flowVars, canceled, thread, inbox,
          runVars, boundVars>>

Users == {Svc} \cup async

Bindings == ({Svc} \X ({Svc, Broadcast} \cup sync))
              \cup {<<c, c>> : c \in async}

Spawned == {t \in Threads :
              CASE t[1] = "heartbeat" -> config.heartbeat
                [] t[1] = "scheduler" -> config.scheduling
                [] t[1] = "receiver"  -> t[2] \in Users
                [] OTHER              -> t[2] \in async}

(* Heartbeat, scheduler, own receiver, then receiver and listener of each  *)
(* child; listener and receiver of each child are joined first.            *)
SpawnPos(t) == CASE t[1] = "heartbeat" -> 0
                 [] t[1] = "scheduler" -> 1
                 [] t[1] = "receiver"  -> 2 + 2 * Rank[t[2]]
                 [] OTHER              -> 3 + 2 * Rank[t[2]]

MainPlaces == {"setup", "begin", "open", "exchanges", "declare", "bind",
               "consume", "spawn", "listen", "join", "failed", "reset",
               "stop", "unconsume", "remove", "returned", "threw",
               "destroy", "members", "gone", "aborted"}

TypeOK ==
    /\ CoreTypeOK
    /\ config \in Configs
    /\ sync \subseteq Names /\ async \subseteq Names
    /\ main \in MainPlaces
    /\ todo \subseteq (CASE main \in {"open", "declare", "consume", "unconsume",
                                      "remove"} -> Owners
                         [] main = "bind" -> Owners \X Keys
                         [] main \in {"spawn", "join"} -> Threads
                         [] OTHER -> {})
    /\ status \in Statuses
    /\ canceled \in [Owners -> BOOLEAN]
    /\ thread \in [Threads -> {"none", "running", "ended"}]
    /\ inbox \in [Owners -> 0 .. MaxMessages]
    /\ listenError \in BOOLEAN
    /\ nFailures \in 0 .. 2
    /\ served \in BOOLEAN
    /\ unwinding \in BOOLEAN
    /\ messages \in 0 .. MaxMessages
    /\ threadFaults \in 0 .. MaxThreadFaults

Init ==
    /\ CoreInit
    /\ config \in Configs
    /\ sync = {} /\ async = {}
    /\ main = "setup" /\ todo = {} /\ status = nothing
    /\ canceled = [o \in Owners |-> FALSE]
    /\ thread = [t \in Threads |-> "none"]
    /\ inbox = [o \in Owners |-> 0]
    /\ listenError = FALSE /\ nFailures = 0 /\ served = FALSE
    /\ unwinding = FALSE
    /\ messages = MaxMessages /\ threadFaults = MaxThreadFaults

---------------------------------------------------------------------------
(* Children are added before the service runs; a name that is in the map   *)
(* already is refused.                                                     *)
AddChild(n) ==
    /\ main = "setup" /\ n \notin sync
    /\ sync' = sync \cup {n}
    /\ UNCHANGED <<coreVars, config, async, flowVars, canceled, thread, inbox,
                   runVars, boundVars>>

AddAsyncChild(n) ==
    /\ main = "setup" /\ n \notin async
    /\ async' = async \cup {n}
    /\ UNCHANGED <<coreVars, config, sync, flowVars, canceled, thread, inbox,
                   runVars, boundVars>>

(* The application calls run().                                            *)
Run ==
    /\ main = "setup"
    /\ main' = "begin"
    /\ UNCHANGED <<coreVars, config, sync, async, todo, status, canceled,
                   thread, inbox, runVars, boundVars>>

---------------------------------------------------------------------------
(* Helpers of the calling thread.                                          *)
IsNext(o) == o \in todo /\ \A p \in todo : Rank[o] <= Rank[p]

Goto(m, items) == main' = m /\ todo' = items

(* x is done; after the last item the status is st and main goes to m.     *)
Advance(x, st, m, items) ==
    IF todo = {x} THEN status' = st /\ Goto(m, items)
    ELSE todo' = todo \ {x} /\ UNCHANGED <<status, main>>

(* start() returned false; run() throws.                                   *)
StartFails == Goto("threw", {}) /\ UNCHANGED status

\* Mutant: the children are not canceled with the service.
CancelSelf == canceled' = [canceled EXCEPT ![Svc] = TRUE]

(* cancel() of the service: its do_cancellation cancels the children.      *)
CancelService ==
    canceled' = IF canceled[Svc] THEN canceled
                ELSE [o \in Owners |-> canceled[o] \/ o \in Users]

---------------------------------------------------------------------------
(* run() and start().                                                      *)
Begin ==
    /\ main = "begin"
    /\ served' = FALSE
    /\ IF ~config.connect THEN Goto("stop", {}) /\ nFailures' = 0
       ELSE /\ IF config.named THEN Goto("open", Users) ELSE Goto("threw", {})
            /\ UNCHANGED nFailures
    /\ UNCHANGED <<coreVars, config, sync, async, status, canceled, thread,
                   inbox, listenError, unwinding, boundVars>>

\* Mutant: like the channels, only the service's own is checked.
OwnIsChecked(o, ok) == ok \/ o # Svc

(* The result of a call for o lets start() go on.                          *)
Checked(o, ok) == ok

(* Only the service's own channel is checked.                              *)
OpenChannels ==
    /\ main = "open"
    /\ \E o \in todo, ok \in BOOLEAN :
         /\ IsNext(o)
         /\ OpenChannel(o, ok)
         /\ IF o = Svc /\ ~ok THEN StartFails
            ELSE Advance(o, channel_created, "exchanges", {})
    /\ UNCHANGED <<config, sync, async, canceled, thread, inbox, runVars,
                   boundVars>>

(* The requests and the alerts exchange.                                   *)
SetupExchanges ==
    /\ main = "exchanges"
    /\ \E ok \in BOOLEAN :
         /\ SetupExchange(Svc, ok)
         /\ IF ok THEN status' = exchange_declared /\ Goto("declare", Users)
            ELSE StartFails
    /\ UNCHANGED <<config, sync, async, canceled, thread, inbox, runVars,
                   boundVars>>

SetupQueues ==
    /\ main = "declare"
    /\ \E o \in todo, ok \in BOOLEAN :
         /\ IsNext(o)
         /\ SetupQueue(o, ok)
         /\ IF Checked(o, ok) THEN Advance(o, queue_declared, "bind", Bindings)
            ELSE StartFails
    /\ UNCHANGED <<config, sync, async, canceled, thread, inbox, runVars,
                   boundVars>>

BindKeys ==
    /\ main = "bind"
    /\ \E b \in todo, ok \in BOOLEAN :
         /\ \A p \in todo : Rank[b[1]] <= Rank[p[1]]
         /\ BindKey(b[1], b[2], ok)
         /\ IF Checked(b[1], ok) THEN Advance(b, queue_bound, "consume", Users)
            ELSE StartFails
    /\ UNCHANGED <<config, sync, async, canceled, thread, inbox, runVars,
                   boundVars>>

(* After the last one listen() is called, which sets its status first.     *)
StartConsumingAll ==
    /\ main = "consume"
    /\ \E o \in todo, ok \in BOOLEAN :
         /\ IsNext(o)
         /\ StartConsuming(o, ok)
         /\ IF Checked(o, ok) THEN Advance(o, listening, "spawn", Spawned) ELSE StartFails
    /\ listenError' = FALSE
    /\ UNCHANGED <<config, sync, async, canceled, thread, inbox, nFailures,
                   served, unwinding, boundVars>>

---------------------------------------------------------------------------
(* listen().  A thread object that is still joinable must not be assigned  *)
(* to; a system error on creation ends listen() with the threads started   *)
(* so far neither canceled nor joined.                                     *)
Spawn ==
    /\ main = "spawn"
    /\ \E t \in todo :
         /\ \A u \in todo : SpawnPos(t) <= SpawnPos(u)
         /\ \/ /\ thread[t] = "none"
               /\ thread' = [thread EXCEPT ![t] = "running"]
               /\ Advance(t, status, "listen", {})
               /\ UNCHANGED threadFaults
            \/ /\ threadFaults > 0
               /\ threadFaults' = threadFaults - 1
               /\ Goto("failed", {})
               /\ UNCHANGED <<thread, status>>
            \/ /\ thread[t] # "none"
               /\ Goto("aborted", {})
               /\ UNCHANGED <<thread, status, threadFaults>>
    /\ UNCHANGED <<coreVars, config, sync, async, canceled, inbox, runVars,
                   messages>>

\* Mutant: the heartbeat is not joined.
AllButHeartbeat == {t \in Spawned : t[1] # "heartbeat"}

Joined == Spawned

(* listen_on_queue of the service.                                         *)
ListenerReturns(error) ==
    /\ Goto("join", Joined)
    /\ listenError' = (listenError \/ error)
    /\ IF error THEN CancelService ELSE UNCHANGED canceled

ListenCanceled ==
    /\ main = "listen" /\ canceled[Svc]
    /\ ListenerReturns(FALSE)
    /\ UNCHANGED <<coreVars, config, sync, async, status, thread, inbox,
                   nFailures, served, unwinding, boundVars>>

ListenError ==
    /\ main = "listen" /\ status = listening /\ ~canceled[Svc]
    /\ ListenResults(Svc) \cap {"hard_error", "unknown"} # {}
    /\ ListenerReturns(TRUE)
    /\ UNCHANGED <<coreVars, config, sync, async, status, thread, inbox,
                   nFailures, served, unwinding, boundVars>>

ListenQuiet ==
    /\ main = "listen" /\ status = listening /\ ~canceled[Svc]
    /\ ListenResults(Svc) \cap {"timeout", "soft_error"} # {}
    /\ served' = TRUE
    /\ UNCHANGED <<coreVars, config, sync, async, flowVars, canceled, thread,
                   inbox, listenError, nFailures, unwinding, boundVars>>

ListenMessage ==
    /\ main = "listen" /\ status = listening /\ ~canceled[Svc]
    /\ "message_received" \in ListenResults(Svc)
    /\ messages > 0
    /\ messages' = messages - 1
    /\ status' = processing
    /\ inbox' = [inbox EXCEPT ![Svc] = @ + 1]
    /\ served' = TRUE
    /\ UNCHANGED <<coreVars, config, sync, async, main, todo, canceled, thread,
                   listenError, nFailures, unwinding, threadFaults>>

ListenNext ==
    /\ main = "listen" /\ status = processing /\ ~canceled[Svc]
    /\ status' = listening
    /\ UNCHANGED <<coreVars, config, sync, async, main, todo, canceled, thread,
                   inbox, runVars, boundVars>>

(* The children's threads are joined before the service's own.             *)
Join ==
    /\ main = "join"
    /\ \E t \in todo :
         /\ \A u \in todo : u[2] # Svc => t[2] # Svc
         /\ thread[t] = "ended"
         /\ thread' = [thread EXCEPT ![t] = "none"]
         /\ IF todo = {t}
            THEN IF listenError THEN Goto("failed", {}) /\ UNCHANGED nFailures
                 ELSE Goto("stop", {}) /\ nFailures' = 0
            ELSE todo' = todo \ {t} /\ UNCHANGED <<main, nFailures>>
    /\ UNCHANGED <<coreVars, config, sync, async, status, canceled, inbox,
                   listenError, served, unwinding, boundVars>>

---------------------------------------------------------------------------
(* run(): listen() returned false.                                         *)
CatchFailure ==
    /\ main = "failed"
    /\ nFailures' = nFailures + 1
    /\ Goto(IF config.restart /\ nFailures + 1 < 2 THEN "reset" ELSE "threw", {})
    /\ UNCHANGED <<coreVars, config, sync, async, status, canceled, thread,
                   inbox, listenError, served, unwinding, boundVars>>

(* Only the service's own cancellation is reset.                           *)
ResetCancel ==
    /\ main = "reset"
    /\ canceled' = [canceled EXCEPT ![Svc] = FALSE]
    /\ Goto("begin", {})
    /\ UNCHANGED <<coreVars, config, sync, async, status, thread, inbox,
                   runVars, boundVars>>

---------------------------------------------------------------------------
(* stop(), called by run() and by the destructor.                          *)
\* Mutant: run() returns normally whatever stop() reports.
StopIsIgnored(ok) == Goto(IF unwinding THEN "members" ELSE "returned", {})

StopReturns(ok) ==
    Goto(IF unwinding THEN "members" ELSE IF ok THEN "returned" ELSE "threw", {})

StopBegin ==
    /\ main = "stop"
    /\ LET st == IF status >= listening THEN consuming ELSE status IN
         /\ status' = st
         /\ IF status >= listening THEN CancelService ELSE UNCHANGED canceled
         /\ IF st >= queue_bound THEN Goto("unconsume", Users)
            ELSE IF st >= queue_declared THEN Goto("remove", Users)
            ELSE StopReturns(TRUE)
    /\ UNCHANGED <<coreVars, config, sync, async, thread, inbox, runVars,
                   boundVars>>

(* Every channel is tried; the result is that of the last one.             *)
StopConsumingAll ==
    /\ main = "unconsume"
    /\ \E o \in todo, ok \in BOOLEAN :
         /\ IsNext(o)
         /\ StopConsuming(o, ok)
         /\ IF todo = {o} /\ ~ok THEN StopReturns(FALSE) /\ UNCHANGED status
            ELSE Advance(o, queue_bound, "remove", Users)
    /\ UNCHANGED <<config, sync, async, canceled, thread, inbox, runVars,
                   boundVars>>

RemoveQueues ==
    /\ main = "remove"
    /\ \E o \in todo, ok \in BOOLEAN :
         /\ IsNext(o)
         /\ RemoveQueue(o, ok)
         /\ IF todo = {o}
            THEN /\ StopReturns(ok)
                 /\ status' = IF ok THEN exchange_declared ELSE status
            ELSE todo' = todo \ {o} /\ UNCHANGED <<status, main>>
    /\ UNCHANGED <<config, sync, async, canceled, thread, inbox, runVars,
                   boundVars>>

(* The application: an exception of run() cancels everything.              *)
Leave ==
    /\ main \in {"returned", "threw"}
    /\ Goto("destroy", {})
    /\ IF main = "threw" THEN CancelService ELSE UNCHANGED canceled
    /\ UNCHANGED <<coreVars, config, sync, async, status, thread, inbox,
                   runVars, boundVars>>

Destroy ==
    /\ main = "destroy"
    /\ IF status >= listening THEN CancelService ELSE UNCHANGED canceled
    /\ unwinding' = TRUE
    /\ Goto(IF status > exchange_declared THEN "stop" ELSE "members", {})
    /\ UNCHANGED <<coreVars, config, sync, async, status, thread, inbox,
                   listenError, nFailures, served, boundVars>>

(* The channels and the thread objects are destroyed: a joinable thread    *)
(* object terminates the process.                                          *)
DestroyMembers ==
    /\ main = "members"
    /\ Goto(IF \E t \in Threads : thread[t] # "none" THEN "aborted" ELSE "gone",
            {})
    /\ UNCHANGED <<coreVars, config, sync, async, status, canceled, thread,
                   inbox, runVars, boundVars>>

---------------------------------------------------------------------------
(* The other threads.                                                      *)
Ended == {"gone", "aborted"}

(* A thread leaves its loop when canceled.                                 *)
LoopEnds(t) ==
    /\ main \notin Ended
    /\ thread[t] = "running" /\ canceled[t[2]]
    /\ thread' = [thread EXCEPT ![t] = "ended"]
    /\ UNCHANGED <<coreVars, config, sync, async, flowVars, canceled, inbox,
                   runVars, boundVars>>

(* Sending heartbeats changes nothing here: its errors are only logged.    *)
HeartbeatEnds == LoopEnds(<<"heartbeat", Svc>>)

(* Module Scheduler has its loop.                                          *)
SchedulerEnds == LoopEnds(<<"scheduler", Svc>>)

ReceiverEnds(o) == LoopEnds(<<"receiver", o>>)

(* execute() of a receiver: a message is handled, or the exception that    *)
(* handling it throws cancels everything.                                  *)
ReceiverHandles(o) ==
    /\ main \notin Ended
    /\ thread[<<"receiver", o>>] = "running" /\ ~canceled[o]
    /\ inbox[o] > 0
    /\ inbox' = [inbox EXCEPT ![o] = @ - 1]
    /\ \/ UNCHANGED <<thread, canceled>>
       \/ /\ thread' = [thread EXCEPT ![<<"receiver", o>>] = "ended"]
          /\ CancelService
    /\ UNCHANGED <<coreVars, config, sync, async, flowVars, runVars, boundVars>>

(* listen_on_queue of an asynchronous child, in the thread of listen().    *)
ChildCanceled(c) ==
    LoopEnds(<<"listener", c>>)

ChildMessage(c) ==
    /\ main \notin Ended
    /\ thread[<<"listener", c>>] = "running" /\ ~canceled[c]
    /\ "message_received" \in ListenResults(c)
    /\ messages > 0
    /\ messages' = messages - 1
    /\ inbox' = [inbox EXCEPT ![c] = @ + 1]
    /\ UNCHANGED <<coreVars, config, sync, async, flowVars, canceled, thread,
                   runVars, threadFaults>>

\* Mutant: the error is left to the end of listen().
KeepListening == UNCHANGED canceled

ChildCancels == CancelService

(* The flag it sets is a local variable of listen(): once listen() has     *)
(* returned, the write is to a dead frame, without effect or fatal.        *)
ChildError(c) ==
    /\ main \notin Ended
    /\ thread[<<"listener", c>>] = "running" /\ ~canceled[c]
    /\ ListenResults(c) \cap {"hard_error", "unknown"} # {}
    /\ thread' = [thread EXCEPT ![<<"listener", c>>] = "ended"]
    /\ IF main \in {"spawn", "listen", "join"}
       THEN listenError' = TRUE /\ ChildCancels /\ UNCHANGED <<main, todo>>
       ELSE \/ ChildCancels /\ UNCHANGED <<main, todo, listenError>>
            \/ Goto("aborted", {}) /\ UNCHANGED <<canceled, listenError>>
    /\ UNCHANGED <<coreVars, config, sync, async, status, inbox, nFailures,
                   served, unwinding, boundVars>>

---------------------------------------------------------------------------
(* The environment: an interrupt, a lost connection.                       *)
Interrupt ==
    /\ main \notin Ended \cup {"setup", "destroy", "members"}
    /\ ~unwinding /\ ~canceled[Svc]
    /\ CancelService
    /\ UNCHANGED <<coreVars, config, sync, async, flowVars, thread, inbox,
                   runVars, boundVars>>

LoseConnection(o) ==
    /\ main \notin Ended
    /\ Break(o)
    /\ UNCHANGED <<config, sync, async, flowVars, canceled, thread, inbox,
                   runVars, boundVars>>

MainStep ==
    \/ Begin \/ OpenChannels \/ SetupExchanges \/ SetupQueues \/ BindKeys
    \/ StartConsumingAll \/ Spawn \/ ListenCanceled \/ ListenError \/ ListenQuiet
    \/ ListenMessage \/ ListenNext \/ Join \/ CatchFailure \/ ResetCancel
    \/ StopBegin \/ StopConsumingAll \/ RemoveQueues \/ Leave \/ Destroy
    \/ DestroyMembers

ListenerStep(c) == ChildCanceled(c) \/ ChildMessage(c) \/ ChildError(c)

Next ==
    \/ \E n \in Names : AddChild(n) \/ AddAsyncChild(n)
    \/ Run
    \/ MainStep
    \/ HeartbeatEnds \/ SchedulerEnds
    \/ \E o \in Owners : ReceiverEnds(o) \/ ReceiverHandles(o)
    \/ \E c \in Names : ListenerStep(c)
    \/ Interrupt
    \/ \E o \in Owners : LoseConnection(o)

Spec == Init /\ [][Next]_vars

(* Every thread of the process is scheduled; the environment need not act. *)
FairSpec ==
    /\ Spec
    /\ WF_vars(MainStep)
    /\ WF_vars(HeartbeatEnds) /\ WF_vars(SchedulerEnds)
    /\ \A o \in Owners : WF_vars(ReceiverEnds(o))
    /\ \A c \in Names : WF_vars(ListenerStep(c))

---------------------------------------------------------------------------
(* PROPERTIES *)

(* While the service listens, every channel that still works has its queue *)
(* declared, every key bound to it and a consumer on it, the channels of   *)
(* the children too, whose opening is not checked; also after a restart,   *)
(* which sets everything up on new channels.                               *)
ListeningIsSetUp ==
    main = "listen" =>
      \A o \in Users :
        /\ chan[o] # "none"
        /\ chan[o] = "open" => /\ queue[o] /\ consumer[o] /\ tag[o]
                               /\ \A b \in Bindings : b[1] = o => b[2] \in bound[o]

(* A service that listens and is not canceled has a listener that takes    *)
(* messages on every child's queue, or that listener's error is about to   *)
(* cancel it, unless it was restarted: the restart resets the cancellation *)
(* of the service and not that of its children.                            *)
DeafChildCause ==
    /\ main = "listen" /\ ~canceled[Svc]
    => \A c \in async : \/ thread[<<"listener", c>>] = "running" /\ ~canceled[c]
                        \/ nFailures = 1

(* The same without the exception: what service.hh says of the children.   *)
ChildrenAreServed ==
    /\ main = "listen" /\ ~canceled[Svc]
    => \A c \in async : thread[<<"listener", c>>] = "running" /\ ~canceled[c]

(* Unless the system refuses a thread, run() never goes back to its loop   *)
(* or returns with a thread running, and no thread object is assigned to   *)
(* or destroyed while joinable, which ends the process, whatever fails, is *)
(* lost or is canceled.                                                    *)
ThreadsAreJoined ==
    threadFaults = MaxThreadFaults =>
      /\ main # "aborted"
      /\ main \in {"reset", "open", "returned"}
           => \A t \in Threads : thread[t] = "none"

(* When run() returns normally, the last child's queue is gone from the    *)
(* broker, and another owner's queue is left only if a call failed:        *)
(* stop_consuming and remove_queue report the result of the last channel.  *)
QueueLeftCause ==
    main = "returned" /\ status # nothing
      => \A o \in Users : queue[o] =>
           /\ \E p \in Users : Rank[p] > Rank[o]
           /\ faults < MaxFaults

(* The comment on n_failures: once a connection has been successful, the   *)
(* count of failures starts again, so that the next one is retried.        *)
ServedIsRetried ==
    [][main = "failed" /\ main' = "threw" /\ config.restart => ~served]_vars

(* A cancellation ends the process, or a restart comes in between; there   *)
(* is at most one restart.  So a cancellation that is not reset by it (one *)
(* that comes between the error and reset_cancel is lost) always ends the  *)
(* process.                                                                *)
CancelEnds ==
    \A n \in 0 .. 1 :
      (canceled[Svc] /\ nFailures = n /\ main # "reset")
        ~> (main \in Ended \/ nFailures > n)

===========================================================================
