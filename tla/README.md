# A verification of dripline-cpp

dripline-cpp is the C++ implementation of the dripline control-system standard:
services, which own instruments ("endpoints"), and clients ("agents") exchange
*requests*, *replies* and *alerts* as AMQP messages through a broker. This
directory holds TLA+ models of the parts of the library in which threads,
clients and failures interleave, the TLC configurations that check them, and
proofs for the TLA+ proof system.

Contents: [the system](#1-the-system), [the modules](#2-the-modules-and-the-code),
[the runs](#3-the-runs), [fairness](#4-fairness), [the proofs](#5-the-proofs),
[what disagrees with the code's own words](#6-findings),
[what is not modelled](#7-what-is-not-modelled), [the plan](#8-the-plan).

`tlc -config MCReceiver_live.cfg MCReceiver.tla` runs a check,
`tlapm ReceiverProofs.tla` the proofs of a module (the others are `ReassemblyProofs`,
`EndpointProofs`, `SchedulerProofs`, `ServiceProofs`, `MonitorProofs`, `AgentProofs` and
`RequestPathProofs`). `PROJECT.json` lists components, runs, mutants, the lines each definition stands for, hazards and theorems.

## 1. The system

All paths are under `src/library`.

| component | state it keeps | operations | what makes it correct |
|---|---|---|---|
| **receiver** (`receiver.cc`) | `f_incoming_messages`: UUID to pack (chunks, count, mutex, condition variable, `f_processing`); `f_message_queue`; in `wait_for_reply` the packs of the reply | `handle_message_chunk`, `wait_for_message` (a detached thread per pack), `process_message_pack`, `execute`, `wait_for_reply` | each message comes out once, whole, or marked invalid after a timeout; no chunk counts twice; no wake-up is lost; no thread uses a pack another one destroyed |
| **listener** (`listener.cc`) | an AMQP channel, the endpoint it feeds | `listen_on_queue` | every chunk reaches the receiver; a channel error ends the loop and the service learns of it |
| **endpoint** (`endpoint.cc`) | `f_lockout_key`, `f_lockout_tag`, the service it belongs to | `on_request_message`, `__do_*_request`, `handle_{lock,unlock,is_locked,ping,set_condition}_request`, `send_reply` | while a client holds the lockout nobody else changes anything; a request is answered; bad requests do not stop the service |
| **service** (`service.cc`) | status, the channel, sync and async children, threads of each async child, cancellation | `run`, `start`, `listen`, `stop`, `submit_message`, `on_request_message` (dispatch to children) | start, stop and restart leave no queue, thread or cancellation behind; cancellation is never lost |
| **scheduler** (`scheduler.hh`) | a multimap of timed events, a recursive mutex, a condition variable, the iterator of the running event | `schedule`, `schedule_repeating`, `unschedule`, `execute` | a one-off event runs once, a repeating one at its times, an unscheduled one not again; the thread never sleeps past an event |
| **message** (`message.cc`) | payload, headers, IDs | `encode_message_body` (split), `process_message` (join and parse) | split and join are inverse; a missing chunk is noticed |
| **core** (`core.cc`, `amqp.cc`) | address, exchanges, `s_offline`, `f_make_connection` | `send`, `do_send`, `listen_for_message`, set-up and removal of channels, queues, bindings | callers learn whether a message was sent, whole |
| **agent** (`agent.cc`) | the configured request | sub-agents for request, reply, alert | one return code per outcome |
| **heartbeater** (`heartbeater.cc`) | time of the next tick | `execute` | one alert per interval; ends on cancellation |
| **monitor** (`monitor.cc`) | status, channel, two threads | `start`, `listen`, `stop` | as service |
| **relayer** (`relayer.cc`) | a queue of (message, waiting caller) | `send_async`, `execute_relayer` | every caller is told the outcome |
| **hub** (`hub.cc`) | maps from a specifier to a handler | `register_*`, `do_*_request` | the handler registered for the specifier is the one called |
| specifier, reply cache, return codes, uuid, configuration, versions | none, or a registry filled at start-up | parsing and lookup | |

**How they interact.** The broker delivers AMQP messages to a channel. The
listener thread of a service (or of an asynchronous child) consumes them one by
one and calls `handle_message_chunk`. That function puts the chunk in the pack of
its message. The first of several chunks starts a detached thread,
`wait_for_message`, that sleeps on the pack's condition variable until the pack is
complete or `f_single_message_wait_ms` has passed, and then converts the pack,
erases it from the map, and pushes the message onto the queue; a single chunk is
processed by the listener itself. The executor thread pops messages from the queue
and calls `submit_message`, which dispatches a request to the service's own
endpoint or one of its children: `endpoint::on_request_message` authenticates it
against the lockout, lets the class or a derived class handle it, and sends the
reply. An exception that reaches `concurrent_receiver::execute` calls
`signal_handler::cancel_all`, which cancels every thread of the process; the thread
of the scheduler catches nothing, and an exception of an event ends the process.

**What is hard.** Of the map, the packs and the threads: the order of the
listener's and the wait thread's steps, spurious and late wake-ups, the deadline
racing the last chunk, redelivered and missing chunks, a pack destroyed while
another thread is about to use it, references to locals that are gone. Of the
lockout: requests of several clients crossing, replies that are lost or late,
a client that gives up on an unlock and locks again, requests that force. Of the
service: cancellation against restart, failure in the middle of start or stop,
threads that were started before something failed. Of the agent: replies that are
late, partial, doubled or from several services, a deadline read twice, arithmetic
of milliseconds, exceptions thrown past their handlers. Of messages: chunks of two
sendings of one message.
Of the scheduler: events that change the schedule while they run. `PROJECT.json`
lists each such hazard at the line where it bites, with the properties that
cover it; the four that no property covers say why.

## 2. The modules and the code

### Receiver

`Receiver.tla` models `receiver::handle_message_chunk`, `wait_for_message`,
`process_message_pack` and `concurrent_receiver::{process_message, execute}`.

| code | model |
|---|---|
| `f_incoming_messages` | `incoming`, from a UUID to a pack or `NoPack` |
| `incoming_message_pack` objects | `pack[p]`: life (`unborn`, `live`, `freed`), UUID, the set of stored chunks, `f_chunks_received`, `f_processing`, whether `f_mutex` is locked |
| the locals and position of `handle_message_chunk` | `listener` |
| the position of each `wait_for_message` thread | `waiter[p]`, and `expired` for its deadline |
| `t_message` in `process_message_pack` | `converted[p]`: `valid`, `invalid` or `thrown` |
| `f_message_queue`, what was given to `submit_message`, `execute`, `f_canceled` | `queue`, `submitted`, `executor`, `canceled` |
| the receiver object, and the process | `object`: `alive`, `destroyed`, `crashed` |

An action ends where another thread can see what the code did: before each access
to the map, the pack's mutex or condition variable, `f_processing`, and the queue.
So storing a chunk (lock, test, store, unlock) is one step and the notification
after the unlock another; erasing from the map and pushing onto the queue are two.
A wait thread holds the mutex over `convert` and `unlock`, and the listener's
`Store` waits for it.

The content of messages is abstracted to what decides their fate: whether the
collected chunks parse (`Content` = `good`), do not (`unparsable`), or make
`message::process_message` throw (`rejected`: unknown encoding or message type).
`Conversion` gives the outcome: missing chunks are not an error there, they leave
a body that does not parse, and so a message with `is_valid` false.

Undefined behaviour is explicit. Touching a destroyed pack or receiver always ends
the process (`Crash`). Two further cases are switched by the constant `Undefined`,
because a build may get away with them: `dangling_id` (the wait thread's reference
to `t_parsed_message_id`, a local of a call that has returned, may read as any ID
or none when the pack is erased by it) and `map_race` (an unlocked erase while
another thread is inside the map). The safety run `receiver_undefined` has both, and every
theorem about `Receiver` holds for any choice; `receiver_live` has neither, since a process
that has ended, or lost a pack to another message's thread, owes nobody progress.
`ErasedByOther(p)` names the packs that may have been lost so.

`Reassembly.tla` states what the receiver promises without threads, locks or a
map: collections of chunks are opened, filled, closed when complete or late, and
come out as one message each. `Receiver!ImplementsReassembly` is the refinement;
its mapping takes a pack's chunks while it is not converted as the collection,
and `submitted \o queue` as what came out.

`MCReceiver.tla` fixes three messages: `two` (two chunks, good), `one` (a single
chunk that does not parse) and `bad` (two chunks, conversion throws).

### Endpoint

`Endpoint.tla` models `endpoint::on_request_message` with everything it calls, and
the clients around it. One thread handles an endpoint's requests, so one action
handles one request; the interleaving is that of the clients, who send, receive
the reply, or give up, in which case a request still on its way is handled later
and the reply to it is lost.

| code | model |
|---|---|
| `f_lockout_key`, `f_lockout_tag` | `lockout_key`, `lockout_tag` (the sender) |
| a thread that an exception has ended | `executor = "stopped"` |
| `authenticate`, the tests at the head of `__do_set_request` and `__do_cmd_request` | `authenticate`, `NeedsKey`, `Permitted`, `Deny` |
| `handle_lock_request`, `handle_unlock_request` with `enable_lockout`, `disable_lockout` | `Lock`, `Unlock` |
| ping, is-locked, the base class's set-condition | `Inform` |
| the overridable `do_{get,set,cmd}_request` | `Perform`: any of a reply, a thrown reply, another exception |
| incomplete request, unparsable lockout key, unknown operation | `Refuse` |
| alert given to an endpoint | `Reject` |
| `endpoint::send_reply`, `service::send_reply` | `Reply`; the constant `IsService` chooses between them |

The clients are the environment, and three variables say what they believe: `held`
(the key of a lock they were told they have), `hasty` (they have sent an unlock and
not waited for the answer) and `forced` (locks removed with `force`, which the
standard allows anyone). A client sends keys it can know: its own or one it was
told. `Trusts(c)` defines when a client may rely on its lock; without the exemption
of `hasty`, mutual exclusion fails (an abandoned unlock arrives after the same
client locked again with the same key), which is a limit of the protocol.

### Scheduler

`Scheduler.tla` models `scheduler.hh`. Its mutex is held by every call from beginning
to end, and by `execute` except while it waits, so a call is one action and a pass
through the loop of `execute` a few. The mutex is recursive: while an event runs,
nobody but the event itself can call. Cancellation takes no lock and may come at any
time.

| code | model |
|---|---|
| `f_events` | `events`, entries with an ID, a time and an interval (0 for one-off); `node` numbers them as they are inserted, which is the order of a multimap among equal times |
| `t_first_event` while it runs | `running` |
| `s_curr_id`, static | `curr_id`; `other` is what another scheduler of the process has read of it |
| both `schedule` | `Schedule` |
| `unschedule` | `Unschedule`; `UnscheduleAbsent` when the loop ends on `end()`, whose `f_id` it has read |
| `execute` | `Loop`, `Wait`, `Wake`, `SpuriousWakeup`, `Begin`, `Finish`, `Throw` |
| the wrapper of `schedule_repeating` | `Begin` books the next repetition and then runs; `Skip` when canceled |
| `clock::now()` | `now`, advanced by `Tick` |

`booked`, `runs`, `removed` and `dropped` record what callers asked for and what was
executed; only properties read them. An executable is any sequence of calls that
ends in a return or an exception.

### Core and Service

`Core.tla` models the static functions of class `core` that set up, use and remove
queues, and the part of the broker that they change: for each owner of a channel (a
service, one of its asynchronous children, a monitor) the channel, its queue, the keys
bound, the consumer. A call that could succeed fails at the cost of a fault, and a
connection may be lost at any time; then the broker drops the queue, which is
exclusive and auto-delete. `Core` has no behaviour of its own: its operators are the
effects of a call with result `ok`, and `Service` and `Monitor` are built from them.

`Service.tla` models the life of a service: `run` with its restart, `start`, `listen`,
`stop`, cancellation, and the destructor, for an application that runs it as
`examples/simple_service.cc` does.

| code | model |
|---|---|
| the position of the thread that called `run` | `main`; the items left of a loop over children, bindings or threads are the set `todo`, taken in the order of the code |
| `f_status`, `f_canceled` of the service and of each child, `f_sync_children`, `f_async_children` | `status`, `canceled`, `sync`, `async` |
| the `std::thread` members | `thread`: `none` (not joinable), `running`, `ended` |
| `t_listen_error`, `n_failures` | `listenError`, `nFailures` |
| `f_message_queue` of each listener | `inbox`, the number of complete messages (`Receiver` has the detail) |
| `start` | `Begin`, `OpenChannels`, `SetupExchanges`, `SetupQueues`, `BindKeys`, `StartConsumingAll` |
| `listen`, `listen_on_queue` | `Spawn`, `ListenCanceled`, `ListenError`, `ListenQuiet`, `ListenMessage`, `ListenNext`, `Join` |
| the `catch` of `run`, `reset_cancel` | `CatchFailure`, `ResetCancel` |
| `stop` | `StopBegin`, `StopConsumingAll`, `RemoveQueues` |
| `heartbeater::execute`, `scheduler::execute`, `concurrent_receiver::execute`, `endpoint_listener_receiver::listen_on_queue` in their threads | `HeartbeatEnds`, `SchedulerEnds`, `ReceiverEnds` and `ReceiverHandles`, `ChildCanceled`, `ChildMessage` and `ChildError` |

A step of a thread ends at each call of the broker and wherever another thread may see
or change what it reads: `canceled` is tested apart from the call of the broker that
follows. The lambda `t_cancel_on_listen_error` captures the local `t_listen_error`;
when `listen` has been left by a system error, a child's listener writes to a dead
frame, which `ChildError` lets pass or end the process.

### Monitor

`Monitor.tla` models `monitor::start`, `listen`, `stop`, the destructor and the receiver
thread. Its client calls them in any order, up to `MaxCalls` times, and destroys the
monitor between calls; `dl-mon` is one such client. `Start`, `Listen`, `Stop` and
`Destroy` are the calls; each call of `core` that follows is an action of its own, so
that a connection may be lost in between. `failed` is history.

### Agent

`Agent.tla` models one execution of `dl-agent`: `sub_agent::execute`, the
`create_and_send_message` of each sub-agent, `core::send` and `core::do_send`, and
`receiver::wait_for_reply` with `process_received_reply`. The return code is the exit
status the user gets. The agent has one thread, `main`; a step ends at each call of the
broker and each reading of the clock.

| code | model |
|---|---|
| the configuration, and what parsing it and encoding the message give | `job` |
| `f_channel`, the chunks the broker took | `channel`, `published` |
| `f_incoming_messages` with `f_chunks_received` | `pack`, `received`, by sender of the reply |
| `t_reply`, `t_post_listen_status`, `f_canceled`, `f_return` | `reply`, `status`, `canceled`, `return` |
| the two clocks: since the call, and of one call of the broker | `elapsed`, `slice` |
| `sub_agent::execute`, `create_and_send_message` | `Execute`, `CreateRequest`, `CreateNothing`, `CreateReply`, `CreateAlert`, `Report` |
| `core::send`, `do_send` | `SendOff`, `Open`, `Exchange`, `ReplyQueue`, `Convert`, `Publish`, `PublishFails` |
| `wait_for_reply` | `LoopCheck`, `ListenMessage`, `ListenNothing`, `ListenFails`, `AfterLoop` |

`Timeout` is computed as the code does: seconds to milliseconds in an `unsigned`,
passed as an `int`; `Modulus` stands for 2^32 so that small numbers wrap. The services
that answer, in part or twice or with another kind of message, redelivery, the loss of
the connection, the user's interrupt and the clock are the environment. So is something with
an ID that is no message ID (`misnamed`): `ParseFails` gives the two outcomes of
`message::parse_message_id`, a `dripline_error`, which `wait_for_reply` turns into an empty
reply and a soft error, and what `std::stoul` throws, which nothing catches. An exception
that leaves `execute` is the place `escaped`. `ReturnCodes.tla` has the codes used.

### Message and RequestPath

`Message.tla` is a module of operators: `encode_message_body` and
`create_amqp_messages` (split), `process_message` (join, with the filling of missing
chunks), `NewRequest` and `reply` (the constructors), specifiers and routing keys as
sequences of words, and `Same`, the code's `operator==`. The text of a payload is a
sequence of characters of its own, so whether a joined text is that of a payload is
decided, not assumed (`Decodable`): a text with a hole, or of chunks of two payloads, is
not.

`RequestPath.tla` puts a request through them: the client sends it and sends it again
(`core::do_send` may publish a part only), the broker routes it by the bindings, its
parts are stored, joined, dispatched by the service (`service::on_request_message`) to
itself, a hub whose handlers are registered and removed meanwhile, or a child, and
answered into the reply-to queue of the sending. Sending the reply may fail (`NotSent`, up
to `MaxFaults` times; the broker may have the reply all the same): the failure is logged
and the service runs on, or it is thrown, which a child's `endpoint::send_reply` catches
and `service::send_reply` does not, so that the receiving thread ends. The threads of the
receiver are left to `Receiver` here, the lockout to `Endpoint`.

## 3. The runs

| run | question | bounds |
|---|---|---|
| `receiver_undefined` | whatever the dangling reference erases and whether or not the map race ends the process, do the threads implement `Reassembly`, cut no message short, lose no wake-up; what touches memory that is gone, who erases a locked pack, and when is a single chunk queued twice? | messages `two`, `one`; each chunk delivered up to twice; 3 packs; both `Undefined` |
| `receiver_live` | does every pack come out, the queue drain, the listener return? | messages `bad`, `two`; one delivery of each chunk; no `Undefined`; `FairSpec` |
| `endpoint_all` | can two clients rely on the lock at once, does the lockout protect a derived class, and what may stop the thread? | two clients, 3 requests of all kinds, two generated keys, a service |
| `scheduler_live` | is any booking lost, doubled or slept past; is everything due run; does a canceled scheduler stop? | two bookings for times 1 and 3, one-off or every 2, a clock of 0..3, one cancellation with restart, another scheduler that takes an ID |
| `service_run` | what is set up while the service listens, is a child deaf, are threads joined, are queues removed, does a cancellation end it? | one child, synchronous or asynchronous or both; six configurations; two failures of the broker, one of thread creation; one message; `FairSpec` |
| `monitor_run` | the same of a monitor, for calls in any order | 6 calls, 3 failures, 2 messages, 2 keys; `FairSpec` |
| `agent_run` | does the exit status say what happened, and does the agent end? | requests of two chunks and twelve variations; two services that answer in two chunks; one failure, one redelivery; times to 9 modulo 8; `FairSpec` |
| `request_run` | is what is received what was sent, and valid when it is whole, is the right handler called, may dispatching stop the service, and is there a reply for the client? | eight requests; two sendings of up to two parts; one redelivery; one reply that is not sent; one handler, two changes of the registry; a service name with and without a dot |
| `receiver_unlock`, `agent_offline`, `service_children`, `service_budget` | four sentences of the code's own that it does not keep (section 6) | messages `two`, `bad`, `dangling_id` only; as `agent_run`; one configuration, two failures (twice) |

**Why these bounds suffice.** Two deliveries of a chunk are what a duplicate needs;
three packs are what two messages need when one of them times out and its late or
repeated chunk makes a new pack, and with `Create` disabled once they are used up
the earlier behaviour is still explored in full. A message of two chunks has a
first, a last and a missing chunk; a third would be one more of the middle, which
the code does not tell apart. Two messages are needed for one thread to erase the
other's pack. The redelivery is left out of `receiver_live` because the liveness
properties do not depend on it and their check is the slowest; with one delivery of
each chunk `bad` and `two` need three packs at most (a pack of `bad` is never
erased, the two chunks of `two` may each time out alone), so there no pack is missing.
Three requests to the endpoint are a lock, a request of another client, and an unlock or a
second request, handled in any order and answered late or never. The exemption of `hasty`
clients comes into play with five (lock, unlock given up, lock again, the unlock arrives,
the other locks), which is more than TLC gets through: that is left to the theorem. Generated
keys are interchangeable (`Symmetric`); symmetry is not used with a liveness
property.

Two bookings for the scheduler are one event that waits and one that is booked before
or after it, at the same time or another; a buffer of 1 and a cycle of 2 on a clock
to 3 give events that are due, within a cycle and beyond it, and a repeating event
that is run, run late and run again. More of each is what the proofs are for.

Two failures let the service fail, restart and fail again, with the first failure in
the broker or a handler; a second child would be a second copy of the first, which
`Rank` only orders. The refused thread is a third, separate failure. Six calls of the
monitor are start, listen, stop and the same again, and any other order; three
failures are one in each phase. Two services and two chunks let replies mix; a limit
of one tick per call of the broker and a deadline of two make chunks arrive before,
between and after both; times of 5 and 9 with eight values of an unsigned stand for
the negative and the wrapped time-out. A payload of three characters in parts of two
is split unevenly, one of two characters not at all, an empty one into nothing; two
sendings are what it takes to mix them up. One reply that is not sent may be that
of the first sending or of the second.

Deadlock checking is off in all runs: messages, requests, calls and the clock are
bounded, so the model ends when they are used up; a receiver that was destroyed, a
stopped service or an agent that is done also really ends. Threads waiting for good are
the subject of `ListenerStuckCause`, `ListenerReturns`, `CancelEnds`, `CancelReturns`
and `WaitEnds` instead.

**The properties, and what they say of the code**

- `TypeOK` of `Endpoint` and `Scheduler` in the runs; section 5 proves it of the other
  modules too.
- `Coherent`: the inductive invariant of section 5: every pack, thread, map entry
  and queued message fit each other.
- `NoLostWakeup`: a wait thread sleeps on a complete pack only while the listener
  is between its unlock and its `notify_one`.
- `InvalidOnlyAfterTimeout`, `SingleChunkOnce`, `ValidUsesDeliveries`:
  what the queue may hold. A late chunk does make a second message of one UUID,
  so "one message per UUID" is false; these say what is true instead.
  A single chunk makes two messages only when the wait thread of another message erased
  its pack.
- `CrashCause`: a live receiver touches memory that is gone only in `notify_one`, while it
  handles a chunk of a message that timed out or was redelivered, in a pack that another
  message's wait thread erased, or in the map while a wait thread erases.
- `LockedEraseCause`: a pack is erased with its mutex locked only by the wait thread of
  another pack; its own has unlocked it.
- `ListenerStuckCause`, `ListenerReturns`: the listener blocks for good only on
  the pack of a message whose conversion threw, and this only after a timeout or
  a redelivery.
- `PackIsQueued`, `QueueDrains`: progress of packs and of the queue.
- `MutualExclusion`, `OnlyHolderChanges`, `StopCause`: the lockout and the
  robustness of the endpoint. `Accounted`, from which the first two follow, relates
  what clients believe, the keys in flight and the endpoint's lock.

- `NoOversleep`: while `execute` waits, no event is before the end of its wait.
- `Agreement`: what the map holds, what was run and what callers booked and took back
  agree. Its core, `BookingKept`, says that a one-off event is pending until it is run
  once, that a repeating one has exactly one pending entry, a whole number of
  intervals after its start however late it was run, and that neither is after it was
  unscheduled. It claims nothing while an event runs whose own entry was erased: then
  the iterator that `execute` holds is dead.
- `DueIsRun`, `CancelStops`: the thread gets round to every event, and to a
  cancellation that nobody notified it of.

- `ListeningIsSetUp`: while the service listens, whatever failed before, every channel
  that still works has its queue, all its bindings and a consumer; the channels of the
  children too, whose opening nobody checks.
- `DeafChildCause`: the threads of an asynchronous child serve it while the service
  listens, except after a restart (which is `service_children`'s subject): no failure,
  cancellation or order of starting the threads makes a child deaf in the first run.
- `ThreadsAreJoined`: unless the system refuses a thread, no thread object is joinable
  when it is assigned to or destroyed, and `run` returns or goes round with none. A refused
  thread does leave others joinable; what is excluded is every other way.
- `QueueLeftCause`: a normal return of `run` leaves a queue on the broker only if a
  call failed, and never that of the last child. That an earlier child's failed call is
  forgotten is the code's doing; a queue left without any failure is excluded.
- `CancelEnds`: a cancellation ends the process, but for one that a restart undoes: no
  join, queue or heartbeat keeps a canceled service from ending.
- `StatusIsTrue`, `AbortCause`, `CancelReturns`: `f_status` of a monitor tells what is
  on the broker after any sequence of calls that fail half-way; only an error while it
  listens leaves its thread joinable (it does, section 6; no other order of calls can); a
  cancellation makes `listen` return.
- `ReplyIsWhole`: the reply that an agent reports is all the chunks of one reply.
- `SuccessCause`: it exits with success only for a message that is sent in whole and, if
  a request, answered with success, for a dry run, or because the user stopped waiting.
- `FailureCause`: a time-out is reported only after the time given, or at once when that
  time is not an `int` of milliseconds; the generic error only for the listed causes.
- `EscapeCause`: an exception leaves the agent only before any part of the message was
  published, for one of the listed causes, or after all of it was, when something with an
  ID that cannot be parsed came before a reply was complete; never in between.
- `WaitEnds`: the wait for a reply ends, with the agent's return code or an exception.
- `ReceivedAsSent`: what the service takes for valid was sent, though its parts may come
  from two sendings, in any order, twice, or with the first of them given up.
- `InvalidIsGivenUp`: splitting and joining are inverse; a message comes out invalid only
  when it was given up with a part missing.
- `HandlerIsRegistered`: the handler called is the one registered last for what the
  client wrote, and gets the rest of the specifier.
- `DispatchStopCause`: of the requests the broker routes to the service, only one whose
  handler throws, one for the service itself whose reply cannot be sent, or one to a name
  with a dot, ends its thread, and only one without a specifier can crash it.
- `ReplyFindsClient`: a request that was sent whole has its reply in the queue of its
  sending, unless sending that reply failed or an earlier sending had the same message ID.

Each has a mutant in `PROJECT.json`: a plausible bug in one definition (a notify
without the test, a dropped deadline, an unlock that accepts any key) with which
TLC finds the property violated.

## 4. Fairness

`FairSpec` assumes weak fairness of the listener inside `handle_message_chunk`,
of the executor, of each wait thread, and of each deadline. The first three are
threads of the operating system that nothing stops from running once they can
(the mutex each may wait for is freed by a thread that is itself fair, except in
the case the property names); the last is the passing of time,
`wait_until` having a fixed deadline. Nothing is assumed of the broker (a chunk
may never come), of spurious wake-ups, of cancellation, or of the owner.
`Endpoint` has safety properties only.

`Scheduler` assumes weak fairness of the thread in `execute` (of its steps, the
return of an executable included, which the scheduler relies on: it runs them in its
own thread, with its mutex held) and of the clock. It assumes nothing of callers,
spurious wake-ups, or that events are booked in the future.

`Service` assumes weak fairness of the calling thread and of each thread that `listen`
starts, all of them threads of the operating system; not of the environment, which
need not send messages, break connections or interrupt. Sending by the heartbeat
returns. `Monitor` assumes that the calls of the library return and that the receiver
thread runs, and nothing of the client. `Agent` assumes that its one thread runs and
that the clock advances; a call to the broker returns after its time-out.
`RequestPath` has safety properties only.

## 5. The proofs

`ReceiverProofs.tla` proves, for any messages, numbers of chunks, packs, copies and
any choice of `Undefined`:

- `TypeCorrect`: `Spec => []TypeOK`;
- `Coherence`: `Spec => []Coherent`;
- `InvalidNeedsTimeout`: `Spec => []InvalidOnlyAfterTimeout`.

The last is what matters: no message is cut short without a timeout. It is not
inductive: that a queued message is invalid only after a timeout follows from how
it was converted, this from the pack having been complete when its wait thread
decided to process it, and this from the counter being the number of *distinct*
chunks. `TypeOK /\ Coherent` is the inductive strengthening: `PackOK` (the counter
is the cardinality of the chunks, which belong to the pack's message), `WaiterOK`
(a thread in `convert` holds the mutex and has a complete or expired pack; an
invalid conversion has a reason), `ListenerOK` (the listener works on a pack of its
own message), `MapOK` (the map holds live packs under their own UUID; this survives
the wrong erasures of the dangling reference) and `OutboxOK` (the claim itself, for
queued and submitted messages). Each action has a lemma that it preserves the
invariant; steps that change one pack of its wait thread share `OwnPackInv`. That
a pack with as many chunks as its message has them all (`CompleteHasAll`) rests on
the theorems on finite sets and intervals of the library. The assumptions are
`ReceiverAssumption` alone: every message has at least one chunk and a known
content, and the null values are not values.

TLC checks `Coherent` as well, in `receiver_undefined`.

`ReassemblyProofs.tla` goes on from there, in the same generality:

- `TrackedAlways`: `Spec => [](TypeOK /\ Coherent /\ Tracked)`;
- `WakeupIsNotLost`: `Spec => []NoLostWakeup`;
- `ValidMessagesUseDeliveries`: `Spec => []ValidUsesDeliveries`;
- `ListenerStuckOnlyOnThrown`: `Spec => []ListenerStuckCause`;
- `ReceiverKeepsPromise`: `Spec => ImplementsReassembly`, the refinement;
- `KeptAlways`: `Spec => []Kept`;
- `SingleChunkQueuedOnce`: `Spec => []SingleChunkOnce`;
- `LockedErasedByOther`: `Spec => LockedEraseCause`;
- `CrashHasCause`: `Spec => CrashCause`.

`Coherent` says nothing of a pack's past, which all of these depend on. `Tracked` adds
it: what the verdict of a pack may be at each place of its thread (`VerdictOK`), what
ended the collection and who may hold the mutex (`MutexOK`), that a message in the outbox
comes from a converted pack and a pack gives one message (`EmittedOK`, `OncePerPack`),
what the listener has just made (`NewPackOK`), and the accounting of deliveries
(`UsesOK`): the packs that hold a chunk, with the listener if it has yet to store it, are
at most as many as the chunk was delivered, since a chunk that is dropped gives up its
delivery. For the refinement each action is either one of `Reassembly` or a stutter:
making a pack is `Open`, storing a chunk `Collect` (or nothing, if it is dropped), the
deadline `Expire`, the conversion `Close`, pushing `Emit`, and the single chunk that the
listener processes itself `CloseAndEmit`; erasing, notifying, waking up and every step of
the environment map to nothing.

The last four speak of the map and of who frees a pack, and hold with the dangling
reference and the race on the map as without them. `Kept` says that in a live receiver a
live pack is in the map under its UUID, and a pack that is gone was erased by its own thread
or, through a dangling key, by another's (`ErasedByOther`); so a message of one chunk,
whose pack has no thread, has one pack unless another message's thread erased it. It is
inductive with `Coherent`: an erasure by a key that does not dangle finds the thread's own
pack (`EraseOwn`), any other leaves its thread behind as the witness of `ErasedByOther`.
`LockedErasedByOther` adds from `MutexOK` that a thread which erases has unlocked its own
pack; `CrashHasCause` gets the cause "timed out or complete" of a finished pack from
`MutexOK` and "a chunk came twice" from `UsesOK`.

`EndpointProofs.tla` proves, for any clients, keys, kinds of request, number of
requests, and for a service as for a child:

- `EndpointTypeCorrect`: `Spec => []TypeOK`;
- `LockAccounting`: `Spec => []Accounted`;
- `LockoutExcludes`: `Spec => []MutualExclusion`;
- `LockoutProtects`: `Spec => OnlyHolderChanges`;
- `RefusalsDoNotStop`: `Spec => StopCause`.

Mutual exclusion speaks of what clients believe, and a belief is formed when a
reply arrives, long after the endpoint sent it. So `Accounted` says of every reply
on its way what `MutualExclusion` says of clients (`LocksOK`), and of every unlock
request on its way that nobody relies on a lock with its key (`UnlocksOK`): for a
generated key because its only holder gave it up when it sent the unlock, for a
client's own key because it either still waits for that unlock's answer or is
`hasty`. Both need that generated keys are known to one client at most (`KeysOK`)
and that requests, replies and waiting clients are matched by ID (`IdsOK`).
`EndpointAssumption` is used throughout: clients choose different keys, and none
that was generated. `endpoint_all` checks `Accounted`.

`SchedulerProofs.tla` proves, for any buffer, cycle, times, intervals and numbers of
bookings and cancellations:

- `SchedulerTypeCorrect`: `Spec => []TypeOK`;
- `NeverOversleeps`: `Spec => []NoOversleep`;
- `BookingsAreKept`: `Spec => []Agreement`;
- `IdsAreUnique`: `OtherIds = {} => (Spec => []UniqueIds)`.

`Agreement` is inductive with `TypeOK`. `EntriesOK` (entries differ in `node`; there
is a running entry only while one runs) and `BookingsOK` (every entry, and every ID
that was run, removed or dropped, comes from a booking) carry `BookingKept` through
each step: booking adds an ID nothing is known of (`KeptSchedule`), running an event
exchanges its one pending entry for the next or for none (`KeptBegin`), erasing takes
the one pending entry (`KeptErased`), and `KeptFrame` covers events that a step does
not concern. IDs that are given twice void the claim, and `IdsAreUnique` says that
one scheduler alone never does that. `SchedulerAssumption` is used: the buffer and
the cycle are positive, and times and intervals natural numbers.

`ServiceProofs.tla` proves, for any children, bindings, configurations and numbers of
messages, faults and refused threads:

- `TypeCorrect`: `Spec => []TypeOK`;
- `SetUpWhileListening`: `Spec => []ListeningIsSetUp`;
- `DeafOnlyAfterRestart`: `Spec => []DeafChildCause`;
- `AllThreadsJoined`: `Spec => []ThreadsAreJoined`;
- `QueueLeftOnlyByFailure`: `Spec => []QueueLeftCause`.

Each property speaks of one place of `run()`; the invariant `Inv` speaks of every place on
the way to it. The loops over channels, bindings and threads need to say what they have
done so far: `SetUpOK` of those of `start` and, in the order of the code, `RemovedOK` of
the last one of `stop`. `ThreadsOK` says which threads are joinable at each place,
`FirstRunOK` that before the restart no child is canceled without the service and no
listener has ended without it, `FlowOK` what the status is when `listen` and `stop`
begin, `QueuesOK` that a queue lives no longer than its channel, and `CountsOK` that
there is one restart at most. `ServiceAssumption` is used; of `Rank`, which stands for the
order in which the loops take the owners, it says that no two owners have the same.

`MonitorProofs.tla` proves, for any keys, numbers of calls, messages and faults:

- `MonitorTypeCorrect`: `Spec => []TypeOK`;
- `StatusTellsTheBroker`: `Spec => []StatusIsTrue`;
- `ThreadIsJoined`: `Spec => []AbortCause`.

`start()` and `stop()` may fail between any two of their steps and be called again
from wherever that left the monitor. The inductive invariant therefore speaks of
each stage: which status it begins with (`StageOK`), and, for a channel that works,
what is bound and consumed by then (`SetUpOK`: what was bound and what is still to
be bound are together all the keys). `BrokerOK` and `CleanOK` say that bindings and a
consumer need a queue, and a queue a status that makes `stop()` remove it; `ThreadOK`
says that only `listen()` has a thread unless `listen_on_queue` has failed. The
assumptions are `MonitorAssumption` and `CoreAssumption`.

`AgentProofs.tla` proves, for any services, jobs, numbers of chunks, timeouts, faults,
copies and for any `Modulus` of the product with 1000:

- `AgentTypeCorrect`: `Spec => []TypeOK`;
- `RepliesAreWhole`: `Spec => []ReplyIsWhole`;
- `SuccessIsDeserved`: `Spec => []SuccessCause`;
- `FailureHasCause`: `Spec => []FailureCause`;
- `EscapesHaveCause`: `Spec => []EscapeCause`.

The return code is computed at the end from what the loop of `wait_for_reply` left
behind, so the invariant must carry the reason through: `StageOK` says how much was
published at each stage, `PacksOK` that the counter of a pack is the number of its
distinct chunks and that only services that answered have chunks, `CompleteOK` that
a complete pack has ended the wait, and `ReasonOK` why the loop was left: a
deadline, a channel that broke, or a message that was processed. That the counter
reaches the number of chunks exactly when the pack has them all (`ChunkInv`) rests on
the library's theorems on finite sets. `AgentAssumption` is the only assumption.

`RequestPathProofs.tla` proves, for any requests, names, children, payloads, part sizes
and numbers of sendings, redeliveries and changes of the registry:

- `TypeCorrect`: `Spec => []TypeOK`;
- `ReceivedIsSent`: `Spec => []ReceivedAsSent`;
- `InvalidOnlyWhenGivenUp`: `Spec => InvalidIsGivenUp`;
- `DispatchStopsOnlyOnCause`: `Spec => DispatchStopCause`;
- `ReplyArrives`: `Spec => []ReplyFindsClient`;
- `CalledIsRegistered`: `Spec => HandlerIsRegistered`.

`process_message` joins parts with `FlattenSeq`, which is a recursive function, and what it
gives for a number of parts that is not fixed needs induction. It is done through the
least element of a set of counterexamples (`LeastElement`, from the library's theorems on
well-founded relations): `FlattenType` says that joined parts are a text, and not an empty
one, `PartsJoin` that the parts of a payload joined in their order are its text, and
`DecodedPayload` that a text that can be decoded is that of the payload of its parts.

The invariant `Inv` says what everything on the way is: the request is what it was but for
its message ID, reply-to and timestamp (`RequestOK`, `SentOK`), parts on the wire and in
the packs are parts of sendings, each in its place (`PartsOK`), a message in the queue is
what has arrived of one of them (`QueueOK`), and a sending that was whole and has a
message ID of its own is still somewhere: on the wire, in its pack, in the queue,
answered, or among the replies that were not sent (`Pending`). `Pending` is what makes
`ReplyFindsClient` inductive: collecting a part, giving up a pack, sending again and handling each move it on or leave it. The
assumptions are `MessageAssumption` and `RequestPathAssumption`. The latter says
of the constants what the code guarantees: a request is one that `msg_request::create`
makes of its fields, with a key that is never empty (`string_from_uuid` formats all of
them), and names have at least one word.

Only model-checked: liveness (`PackIsQueued`, `QueueDrains`, `ListenerReturns`, `DueIsRun`,
`CancelStops`, `CancelEnds`, `CancelReturns`, `WaitEnds`), since the prover does not
handle fairness or `ENABLED`. Every other property of a passing run is a theorem. The
inductive invariants were tried on the instances of the runs before they were proved.

## 6. Findings

Disagreements between the code and its own comments or documentation, each shown
by a run that violates one property:

1. `agent_offline`: when no connection is to be made, `core::send` throws the message as
   a `request_ptr_t`, `reply_ptr_t` or `alert_ptr_t` (`core.cc:157, 168, 179`). The
   handlers catch `message_ptr_t`, a shared pointer to another type, to which a handler
   does not convert. So "Operating in offline mode; message not sent" (`agent.cc:187`)
   is never said, and the exception leaves the agent. The same handlers stand in
   `endpoint.cc:227`, `heartbeater.cc:93` and `relayer.cc:65`; in the heartbeat's thread
   nothing else catches it.
2. `service_children`: an error in `listen` cancels the service and, through
   `do_cancellation`, its asynchronous children. The restart resets the service only
   (`service.cc:182`), so the children's threads end as soon as they are started again.
   `service.hh:54` says that each child has a thread that receives its messages.
3. `service_budget`: the comment at `service.cc:156` says that the number of failures is
   reset "once there's been a successful connection". It is reset when `listen` returns
   without an error, after which nothing counts any more; so a service that was
   restarted and then worked is not restarted again.
4. `receiver_unlock`: the comments at `receiver.cc:147, 158, 165` say that
   `process_message()` "will unlock the mutex before erasing the message pack". It unlocks
   its own pack, and erases by `a_message_id`, which refers to the `t_parsed_message_id` of
   a call of `handle_message_chunk` that has returned (`receiver.cc:92`). Read as another
   message's UUID it erases that message's pack, also while its thread holds its mutex.

Further observations, made while modelling; the models contain the behaviour, and the
properties are stated around it:

- `receiver.cc:119-121`: the pack's mutex is unlocked before `notify_one`; the wait
  thread may in between find the pack complete, process it and erase it, with the
  condition variable about to be notified (`CrashCause`).
- `receiver.cc:87`: the pack of a single-chunk message is erased by a key that is not
  its own, so it stays in the map, which `receiver.hh:104` says stores the incomplete
  messages. It is also what drops a redelivered single chunk (`SingleChunkOnce` fails
  when only the key is corrected).
- `receiver.cc:147, 188`: when the conversion throws, the mutex that
  `process_message_pack` is said to unlock stays locked (`ListenerStuckCause`).
- `endpoint.hh:92` documents the specifier `set-condition`; the code compares with
  `set_condition` (`endpoint.cc:350`).
- `scheduler.hh:284, 325, 363`: a repeating event books its repetition before it runs,
  with the same ID, and `unschedule` erases the first entry with the ID: called by the
  event, it erases the running entry and leaves the repetition, and `execute` then
  erases an iterator that is dead (`Agreement` claims nothing then).
- `scheduler.hh:245, 267`: the counter of IDs is static and incremented under the mutex
  of one object, so two schedulers of a process can give an ID twice
  (`IdsAreUnique` is proved for one).
- `service.cc:271`: a cancellation that comes between an error and `reset_cancel` is
  undone by the restart (`CancelEnds`).
- `service.cc:430, 444`: the result of stopping and removing is that of the last child
  (`QueueLeftCause`).
- `service.cc:556`: a request is dispatched by the first word of its routing key, but
  queues are bound by whole names: requests to a service or a child whose name has a
  dot end the thread (`DispatchStopCause`).
- `hub.cc:118`: a request without specifier uses the front of an empty queue, which is
  undefined; and a `std::out_of_range` that a handler throws is reported as an
  unrecognised query.
- `message.cc:308`: a message that is sent again keeps its message ID, so chunks of two
  sendings are joined, and the reply may go to the first one's queue
  (`ReplyFindsClient`). The heartbeat resets the ID; an agent sends once.
- `message.cc:349`: an empty body is split into no chunks, and a request without chunks
  is reported as not sent (`SuccessCause`).
- `agent.cc:84`: the product of seconds and 1000 wraps, and is passed as an `int`: a
  long time-out may be reported at once (`FailureCause`). `agent.cc:156` logs the
  payload of a request before testing its pointer (`CreateNothing`).
- `message.cc:124`: when the parts of a message ID are no numbers, `std::stoul` throws
  `std::invalid_argument` or `std::out_of_range`, which `catch( dripline_error& )` of
  `wait_for_reply` (`receiver.cc:342`) does not match: the exception leaves the agent after
  its request was published (`EscapeCause`), where the comment at `receiver.cc:241` has an
  "error processing a recieved amqp message" return an empty reply.
- `core.cc:218`: the reply-to queue is set up outside the `try` block (`EscapeCause`).
- `service.cc:549`: `service::send_reply` tests only the pointer that `send` returns, not
  `f_successful_send`, and catches nothing: a reply that cannot be sent is lost silently
  or ends the thread that receives requests (`DispatchStopCause`, `ReplyFindsClient`).
- `monitor.cc:137`: an error in `listen_on_queue` skips the join, and the destructor of
  the joinable thread ends the process (`AbortCause`). `monitor.hh:34` documents
  `alerts-keys` and `requests-keys`; the code reads `alert_keys` and `request_keys`.
- `relayer.cc:105, 124`: both `send_async` lock a mutex of an object that is created two
  lines later; when canceled they write through a null pointer.
- The exit status of `dl-agent` is the class of the return code (`Class`), so a dry run
  exits with 0.

## 7. What is not modelled

- `endpoint::__do_run_request`: never called by `on_request_message`.
- Malformed AMQP message IDs in `handle_message_chunk`, which catches both what
  `parse_message_id` and what `std::stoul` throw and logs it (in `wait_for_reply`, which
  does not, `Agent` has them). In both, a chunk number that is not below the number of
  chunks, and a message ID that disagrees with that of an earlier chunk of the same UUID
  about that number: `create_amqp_messages` makes neither.
- Content of payloads and headers, routing keys, formatting, logging.
- The broker: acknowledgement and redelivery appear only as repeated deliveries.
- Memory order: shared plain variables (`f_processing`) are read and written at
  once.
- Moving a scheduler: its repeating events keep a pointer to the old object. Setting
  `f_exe_buffer` or `f_cycle_time` while `execute` runs.
- Payload formats, the registry of return codes, configuration, versions, authentication,
  UUID generation, command lines and the oscillator example: no state, or one that is
  filled at start-up.
- The relayer: no call of it gets past its first lines (section 6), so there is no
  behaviour behind them to model.
- The times at which the heartbeat sends; the cache of replies that the Python binding
  uses.
- In `Service`: children that are added while the service runs (they are not guarded
  against it), an application that runs a service twice, moving a service.
- In `RequestPath`: alerts, which are split and joined by the same code and have no
  reply; a client that changes its request between sendings.
- In `Agent`: several executions of one agent object.

## 8. The plan

In order of importance. Written:

1. `Receiver`, `Reassembly`, `MCReceiver`, `ReceiverProofs`.
2. `Endpoint`, `MCEndpoint`, `EndpointProofs`.
3. `Scheduler`, `MCScheduler`, `SchedulerProofs`.
4. `Core`, `Service`, `MCService`; `Monitor`, `MCMonitor`, `MonitorProofs`.
5. `ReturnCodes`, `Agent`, `MCAgent`, `AgentProofs`.
6. `Message`, `RequestPath`, `MCRequestPath`, `RequestPathProofs`.
7. `ServiceProofs`, and `ReassemblyProofs` with the refinement of `Reassembly`.

Not written, and what they would add:

8. An abstract specification of the lockout (a lease that one client holds, gives up or is
   deprived of by force) and the proof that `Endpoint` implements it.
9. The composition of `Agent` with `RequestPath` and `Endpoint`: a lockout held by an
   agent whose reply was late.
