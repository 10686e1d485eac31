----------------------------- MODULE Scheduler -----------------------------
(***************************************************************************)
(* The scheduler of dripline (src/library/scheduler.hh): any thread books  *)
(* one-off and repeating events and takes them back, one thread, execute,  *)
(* runs each when it is due.                                               *)
(*                                                                         *)
(* f_scheduler_mutex is held by each call from its beginning to its end,   *)
(* and by execute() except while it waits. It is recursive: an event that  *)
(* runs may book and take back events itself, itself included, and nobody  *)
(* else can. So a call is one step, made by the running event while there  *)
(* is one and by another thread otherwise.                                 *)
(***************************************************************************)
EXTENDS Integers, FiniteSets

CONSTANTS
  ExeBuffer,  \* f_exe_buffer: how early an event may be executed
  CycleTime,  \* f_cycle_time: the longest wait
  Times,      \* times for which events are booked
  Intervals,  \* intervals of repetition; 0 for a one-off event
  MaxTime,    \* bound: the end of the clock
  MaxBooked,  \* bound: bookings
  MaxCancels, \* bound: cancellations
  OtherIds    \* values of s_curr_id that another scheduler of the process takes;
              \* {} if there is no other

ASSUME SchedulerAssumption ==
  /\ ExeBuffer \in Nat \ {0}
  /\ CycleTime \in Nat \ {0}
  /\ MaxTime \in Nat
  /\ MaxBooked \in Nat
  /\ MaxCancels \in Nat
  /\ Times \subseteq 0 .. MaxTime
  /\ Intervals \subseteq Nat
  /\ OtherIds \subseteq Nat

VARIABLES
  now,       \* clock::now()
  curr_id,   \* s_curr_id, which all schedulers of the process share
  other,     \* the value of s_curr_id that another scheduler has read and will
             \* increment; -1 if there is none
  events,    \* f_events: entries of the map, numbered as they are inserted
  inserted,  \* how many entries have been inserted
  executor,  \* where execute() stands
  wake,      \* the end of its wait
  running,   \* the entry that t_first_event refers to; 0 if there is none
  canceled, cancels, \* f_canceled, and how often it was set
  booked,    \* the first entry of each event that was booked
  runs,      \* how often each event was run
  removed,   \* IDs that unschedule was given and found
  dropped    \* repeating events that were canceled when due

callVars  == <<curr_id, booked, removed>>
eventVars == <<events, inserted>>
stopVars  == <<canceled, cancels>>
vars == <<now, callVars, other, eventVars, executor, wake, running, stopVars, runs, dropped>>

Ids == 0 .. 2 * MaxBooked

Init ==
  /\ now = 0
  /\ curr_id = 0
  /\ other = -1
  /\ events = {}
  /\ inserted = 0
  /\ executor = "stopped"
  /\ wake = 0
  /\ running = 0
  /\ canceled = FALSE
  /\ cancels = 0
  /\ booked = {}
  /\ runs = [id \in Ids |-> 0]
  /\ removed = {}
  /\ dropped = {}

\* The order of the multimap: by time, then as inserted.
Before(e, f) == e.time < f.time \/ (e.time = f.time /\ e.node < f.node)

\* f_events.begin() is IsFirst(e, events); the search for an ID finds the first too.
IsFirst(e, entries) == e \in entries /\ \A f \in entries \ {e} : Before(e, f)

\* Mutant: a new first event is not recognised when there are others.
OnlyFirst(time) == events = {}

\* t_new_first
NewFirst(time) == \A e \in events : time < e.time

Alive == executor /= "terminated"

-----------------------------------------------------------------------------
(* Calls, by any thread while no event runs, else by the running event. *)

Entry(id, time, interval) ==
  [node |-> inserted + 1, id |-> id, time |-> time, interval |-> interval]

\* schedule: insert an entry, and notify the waiting thread if it is the first.
\* Repetition in less than twice the buffer is refused.
Schedule(time, interval) ==
  /\ Alive
  /\ interval = 0 \/ interval >= 2 * ExeBuffer
  /\ Cardinality(booked) < MaxBooked /\ curr_id \in Ids
  /\ curr_id' = curr_id + 1
  /\ inserted' = inserted + 1
  /\ events' = events \cup {Entry(curr_id, time, interval)}
  /\ booked' = booked \cup {Entry(curr_id, time, interval)}
  /\ executor' = IF executor = "wait" /\ NewFirst(time) THEN "loop" ELSE executor
  /\ UNCHANGED <<now, other, wake, running, stopVars, runs, removed, dropped>>

\* unschedule, when an event has the ID: the first such entry is erased, be it the
\* one that is running.
Unschedule(id) ==
  /\ Alive
  /\ \E e \in events :
       /\ IsFirst(e, {f \in events : f.id = id})
       /\ events' = events \ {e}
  /\ removed' = removed \cup {id}
  /\ UNCHANGED <<now, curr_id, other, inserted, executor, wake, running, stopVars,
                 booked, runs, dropped>>

\* unschedule, when none has: the loop reads f_id of end(). What it finds there
\* may be taken for the ID, and end() is erased; otherwise nothing happens.
UnscheduleAbsent(id) ==
  /\ Alive
  /\ ~\E e \in events : e.id = id
  /\ executor' = "terminated"
  /\ UNCHANGED <<now, callVars, other, eventVars, wake, running, stopVars, runs, dropped>>

\* cancelable::cancel does not notify.
Cancel ==
  /\ Alive
  /\ ~canceled
  /\ cancels < MaxCancels
  /\ cancels' = cancels + 1
  /\ canceled' = TRUE
  /\ UNCHANGED <<now, callVars, other, eventVars, executor, wake, running, runs, dropped>>

-----------------------------------------------------------------------------
(* The thread in execute(). *)

\* service::listen starts it, again after a restart has reset the cancellation.
Start ==
  /\ executor = "stopped"
  /\ executor' = "loop"
  /\ canceled' = FALSE
  /\ UNCHANGED <<now, callVars, other, eventVars, wake, running, cancels, runs, dropped>>

\* Mutant: a canceled scheduler runs what is booked first.
LoopWhileBooked ==
  /\ executor = "loop"
  /\ executor' = IF canceled /\ events = {} THEN "stopped" ELSE "look"
  /\ UNCHANGED <<now, callVars, other, eventVars, wake, running, stopVars, runs, dropped>>

\* while( ! is_canceled() )
Loop ==
  /\ executor = "loop"
  /\ executor' = IF canceled THEN "stopped" ELSE "look"
  /\ UNCHANGED <<now, callVars, other, eventVars, wake, running, stopVars, runs, dropped>>

\* Mutant: what is late is not executed.
InTime(e) == e.time >= now /\ e.time - now < ExeBuffer

Due(e) == e.time - now < ExeBuffer

\* No event is due: wait until the first one, or for a cycle when that is shorter.
Wait ==
  /\ executor = "look"
  /\ \A e \in events : ~Due(e)
  /\ \/ /\ \A e \in events : e.time - now >= CycleTime
        /\ wake' = now + CycleTime
     \/ \E e \in events :
          IsFirst(e, events) /\ e.time - now < CycleTime /\ wake' = e.time
  /\ executor' = "wait"
  /\ UNCHANGED <<now, callVars, other, eventVars, running, stopVars, runs, dropped>>

\* The wait ends, and the loop is gone through again. Where the clock of the model
\* ends, every wait may end.
Wake ==
  /\ executor = "wait"
  /\ now >= wake \/ now = MaxTime
  /\ executor' = "loop"
  /\ UNCHANGED <<now, callVars, other, eventVars, wake, running, stopVars, runs, dropped>>

SpuriousWakeup ==
  /\ executor = "wait"
  /\ executor' = "loop"
  /\ UNCHANGED <<now, callVars, other, eventVars, wake, running, stopVars, runs, dropped>>

\* Mutant: the next repetition is an interval from now.
FromNow(e) == now + e.interval

\* Mutant: the next repetition is an interval earlier.
Backwards(e) == e.time - e.interval

NextTime(e) == e.time + e.interval

\* Execute the first event. A repeating event books its next repetition first.
Begin ==
  /\ executor = "look"
  /\ \E e \in events :
       /\ IsFirst(e, events)
       /\ Due(e)
       /\ e.interval = 0 \/ ~canceled
       /\ running' = e.node
       /\ runs' = [runs EXCEPT ![e.id] = @ + 1]
       /\ IF e.interval /= 0
          THEN /\ events' = events \cup {Entry(e.id, NextTime(e), e.interval)}
               /\ inserted' = inserted + 1
          ELSE UNCHANGED eventVars
  /\ executor' = "running"
  /\ UNCHANGED <<now, callVars, other, wake, stopVars, dropped>>

\* A repeating event that finds the scheduler canceled does nothing, and is erased.
Skip ==
  /\ executor = "look"
  /\ canceled
  /\ \E e \in events :
       /\ IsFirst(e, events)
       /\ Due(e)
       /\ e.interval /= 0
       /\ events' = events \ {e}
       /\ dropped' = dropped \cup {e.id}
  /\ executor' = "loop"
  /\ UNCHANGED <<now, callVars, other, inserted, wake, running, stopVars, runs>>

\* The entry that was executed has been erased by its own executable.
RunningErased == running /= 0 /\ ~\E e \in events : e.node = running

\* Mutant: erase the first entry instead of the one that was executed.
EraseFirst ==
  /\ executor = "running"
  /\ \E e \in events : IsFirst(e, events) /\ events' = events \ {e}
  /\ running' = 0
  /\ executor' = "loop"
  /\ UNCHANGED <<now, callVars, other, inserted, wake, stopVars, runs, dropped>>

\* The executable returns, and f_events.erase( t_first_event ): when that entry is
\* erased already, the map is damaged.
Finish ==
  /\ executor = "running"
  /\ events' = {e \in events : e.node /= running}
  /\ running' = 0
  /\ executor' = IF RunningErased THEN "terminated" ELSE "loop"
  /\ UNCHANGED <<now, callVars, other, inserted, wake, stopVars, runs, dropped>>

\* The executable throws: nobody catches, above execute() either.
Throw ==
  /\ executor = "running"
  /\ executor' = "terminated"
  /\ UNCHANGED <<now, callVars, other, eventVars, wake, running, stopVars, runs, dropped>>

-----------------------------------------------------------------------------
Tick ==
  /\ now < MaxTime
  /\ now' = now + 1
  /\ UNCHANGED <<callVars, other, eventVars, executor, wake, running, stopVars, runs, dropped>>

\* Another scheduler increments s_curr_id under a mutex of its own: it reads the
\* counter in one step and writes it in a later one.
OtherReads ==
  /\ other = -1
  /\ curr_id \in OtherIds
  /\ other' = curr_id
  /\ UNCHANGED <<now, callVars, eventVars, executor, wake, running, stopVars, runs, dropped>>

OtherWrites ==
  /\ other /= -1
  /\ curr_id' = other + 1
  /\ other' = -1
  /\ UNCHANGED <<now, booked, removed, eventVars, executor, wake, running, stopVars,
                 runs, dropped>>

ExecutorStep == Loop \/ Wait \/ Wake \/ Begin \/ Skip \/ Finish

Call ==
  \/ \E time \in Times, interval \in Intervals : Schedule(time, interval)
  \/ \E id \in 0 .. curr_id : Unschedule(id) \/ UnscheduleAbsent(id)
  \/ Cancel

Next ==
  \/ ExecutorStep
  \/ Call
  \/ Start
  \/ SpuriousWakeup
  \/ Throw
  \/ Tick
  \/ OtherReads
  \/ OtherWrites

Spec == Init /\ [][Next]_vars

\* The thread runs on, executables return, and time passes.
FairSpec == Spec /\ WF_vars(ExecutorStep) /\ WF_vars(Tick)

-----------------------------------------------------------------------------
(* Properties. *)

EntryRecord == [node : Nat \ {0}, id : Nat, time : Nat, interval : Nat]

\* The variables have the types of the members they stand for.
TypeOK ==
  /\ now \in Nat
  /\ curr_id \in Nat
  /\ other \in Nat \cup {-1}
  /\ events \subseteq EntryRecord
  /\ inserted \in Nat
  /\ executor \in {"stopped", "loop", "look", "wait", "running", "terminated"}
  /\ wake \in Nat
  /\ running \in Nat
  /\ canceled \in BOOLEAN
  /\ cancels \in Nat
  /\ booked \subseteq EntryRecord
  /\ runs \in [Ids -> Nat]
  /\ removed \subseteq Nat
  /\ dropped \subseteq Nat

\* The entries of an event that are still to be run.
Pending(id) == {e \in events : e.id = id /\ e.node /= running}

\* execute() never sleeps past the time of an event: whatever is booked while it
\* waits, whoever removes what it waits for.
NoOversleep ==
  executor = "wait" => \A e \in events : wake <= e.time

\* A booking that is neither lost nor doubled. A one-off event is pending until it
\* is run, once. A repeating event has one pending entry, for the time of its start
\* and as many intervals as it was run, however late; that ends only when it is
\* unscheduled or comes up while the scheduler is canceled. An event that was
\* unscheduled is not run again.
Kept(b) ==
  CASE b.id \in removed \cup dropped -> Pending(b.id) = {}
    [] b.id \notin removed \cup dropped /\ b.interval = 0 ->
         IF runs[b.id] = 0 THEN Pending(b.id) = {b}
         ELSE runs[b.id] = 1 /\ Pending(b.id) = {}
    [] OTHER -> \E e \in events :
                  /\ Pending(b.id) = {e}
                  /\ e.time = b.time + runs[b.id] * b.interval

\* scheduler.hh line 99: each scheduled event is assigned a unique ID. With another
\* scheduler in the process the code does not keep that; without, it does.
UniqueIds == \A b, c \in booked : b.id = c.id => b = c

\* While IDs are unique no booking is lost or doubled, unless execute() has ended on
\* an error or an event that runs has erased its own entry, on which it will.
BookingKept ==
  UniqueIds /\ executor /= "terminated" /\ ~RunningErased => \A b \in booked : Kept(b)

\* The conjuncts that BookingKept rests on.

\* Entries are numbered as they are inserted; t_first_event refers to one of them
\* exactly while it is executed.
EntriesOK ==
  /\ \A e \in events : e.node <= inserted
  /\ \A e, f \in events : e.node = f.node => e = f
  /\ running <= inserted
  /\ executor \notin {"running", "terminated"} => running = 0

\* Every entry repeats a booking, and so does what is recorded of an ID.
BookingsOK ==
  /\ \A b \in booked : b.id \in Ids /\ b.node <= inserted
  /\ \A e \in events : \E b \in booked : b.id = e.id /\ b.interval = e.interval
  /\ \A id \in removed \cup dropped : \E b \in booked : b.id = id
  /\ \A id \in Ids : runs[id] /= 0 => \E b \in booked : b.id = id

\* What scheduler.hh has in its map, what it has executed and what callers have
\* booked and taken back agree in every state.
Agreement == EntriesOK /\ BookingsOK /\ BookingKept /\ NoOversleep

\* A booked event is run or taken back in the end, unless execute() ends.
DueIsRun ==
  \A n \in 1 .. 2 * MaxBooked :
    (\E e \in events : e.node = n /\ e.time <= MaxTime) ~>
      (~(\E e \in events : e.node = n) \/ executor \in {"stopped", "terminated"})

\* A canceled scheduler stops, though nobody notifies it.
CancelStops == canceled ~> executor \in {"stopped", "terminated"}
=============================================================================
