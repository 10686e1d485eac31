------------------------------- MODULE Core -------------------------------
(***************************************************************************)
(* The static AMQP functions of class core (library/core.cc) that a        *)
(* service and a monitor use to set up, use and break down their queues,   *)
(* and the part of the broker they change.                                 *)
(*                                                                         *)
(* Every owner (a service, one of its asynchronous children, a monitor)    *)
(* has a channel on a connection of its own.  Queues are declared          *)
(* exclusive and auto-delete, so the broker drops a queue, its bindings    *)
(* and its consumer with the connection.  A call on a usable channel       *)
(* either takes effect, or fails and costs one of the MaxFaults faults;    *)
(* a call on a null or a broken channel fails.                             *)
(***************************************************************************)
EXTENDS Naturals

CONSTANTS Owners,      \* owners of a channel
          Keys,        \* routing keys
          MaxFaults    \* bound: refused calls and broken connections

ASSUME CoreAssumption == MaxFaults \in Nat

VARIABLES chan,        \* f_channel: "none" (null), "open", "broken"
          queue,       \* the owner's queue exists on the broker
          bound,       \* routing keys bound to that queue
          consumer,    \* the broker has a consumer for that queue
          tag,         \* f_consumer_tag is not empty
          faults       \* faults still to come

coreVars == <<chan, queue, bound, consumer, tag, faults>>

CoreTypeOK ==
    /\ chan \in [Owners -> {"none", "open", "broken"}]
    /\ queue \in [Owners -> BOOLEAN]
    /\ bound \in [Owners -> SUBSET Keys]
    /\ consumer \in [Owners -> BOOLEAN]
    /\ tag \in [Owners -> BOOLEAN]
    /\ faults \in 0 .. MaxFaults

CoreInit ==
    /\ chan = [o \in Owners |-> "none"]
    /\ queue = [o \in Owners |-> FALSE]
    /\ bound = [o \in Owners |-> {}]
    /\ consumer = [o \in Owners |-> FALSE]
    /\ tag = [o \in Owners |-> FALSE]
    /\ faults = MaxFaults

---------------------------------------------------------------------------
(* The status of a service; a monitor has all but the last.                *)
nothing == 0
channel_created == 10
exchange_declared == 20
queue_declared == 30
queue_bound == 40
consuming == 50
listening == 60
processing == 70
Statuses == {nothing, channel_created, exchange_declared, queue_declared,
             queue_bound, consuming, listening, processing}

---------------------------------------------------------------------------
(* ok is the result of the call.  A call that could succeed fails only at  *)
(* the cost of a fault.                                                    *)
Result(possible, ok) ==
    IF ok THEN possible /\ UNCHANGED faults
    ELSE IF possible THEN faults > 0 /\ faults' = faults - 1
    ELSE UNCHANGED faults

(* Up to max_connection_attempts attempts; the old channel goes when the   *)
(* new one, or null, is assigned to the variable that held it.             *)
OpenChannel(o, ok) ==
    /\ Result(TRUE, ok)
    /\ chan' = [chan EXCEPT ![o] = IF ok THEN "open" ELSE "none"]
    /\ queue' = [queue EXCEPT ![o] = FALSE]
    /\ bound' = [bound EXCEPT ![o] = {}]
    /\ consumer' = [consumer EXCEPT ![o] = FALSE]
    /\ UNCHANGED tag

SetupExchange(o, ok) ==
    /\ Result(chan[o] = "open", ok)
    /\ UNCHANGED <<chan, queue, bound, consumer, tag>>

SetupQueue(o, ok) ==
    /\ Result(chan[o] = "open", ok)
    /\ queue' = [queue EXCEPT ![o] = @ \/ ok]
    /\ UNCHANGED <<chan, bound, consumer, tag>>

BindKey(o, k, ok) ==
    /\ Result(chan[o] = "open" /\ queue[o], ok)
    /\ bound' = [bound EXCEPT ![o] = IF ok THEN @ \cup {k} ELSE @]
    /\ UNCHANGED <<chan, queue, consumer, tag>>

(* The caller stores the result as its tag: an empty one on failure.       *)
StartConsuming(o, ok) ==
    /\ Result(chan[o] = "open" /\ queue[o], ok)
    /\ consumer' = [consumer EXCEPT ![o] = @ \/ ok]
    /\ tag' = [tag EXCEPT ![o] = ok]
    /\ UNCHANGED <<chan, queue, bound>>

StopConsuming(o, ok) ==
    /\ Result(chan[o] = "open" /\ consumer[o] /\ tag[o], ok)
    /\ consumer' = [consumer EXCEPT ![o] = @ /\ ~ok]
    /\ tag' = [tag EXCEPT ![o] = @ /\ ~ok]
    /\ UNCHANGED <<chan, queue, bound>>

RemoveQueue(o, ok) ==
    /\ Result(chan[o] = "open", ok)
    /\ queue' = [queue EXCEPT ![o] = @ /\ ~ok]
    /\ bound' = [bound EXCEPT ![o] = IF ok THEN {} ELSE @]
    /\ consumer' = [consumer EXCEPT ![o] = @ /\ ~ok]
    /\ UNCHANGED <<chan, tag>>

(* What listen_for_message may report (post_listen_status).                *)
ListenResults(o) ==
    IF chan[o] = "none" THEN {"unknown"}
    ELSE IF chan[o] = "broken" \/ ~consumer[o] THEN {"hard_error"}
    ELSE {"timeout", "soft_error", "message_received"}

(* The connection is lost.                                                 *)
Break(o) ==
    /\ chan[o] = "open"
    /\ faults > 0
    /\ faults' = faults - 1
    /\ chan' = [chan EXCEPT ![o] = "broken"]
    /\ queue' = [queue EXCEPT ![o] = FALSE]
    /\ bound' = [bound EXCEPT ![o] = {}]
    /\ consumer' = [consumer EXCEPT ![o] = FALSE]
    /\ UNCHANGED tag

===========================================================================
