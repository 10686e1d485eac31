--------------------------- MODULE SchedulerProofs ---------------------------
(***************************************************************************)
(* Proofs about Scheduler: no booking is lost or doubled while IDs are     *)
(* unique, and execute() never sleeps past an event, for any buffer,       *)
(* cycle, times, intervals and bounds. Agreement is inductive together     *)
(* with the type invariant.                                                *)
(***************************************************************************)
EXTENDS Scheduler, TLAPS

\* With a scheduler alone nobody else increments s_curr_id, and no ID returns.
Alone ==
  /\ OtherIds = {}
  /\ other = -1
  /\ \A b \in booked : b.id < curr_id
  /\ UniqueIds

LEMMA InitTypeOK == Init => TypeOK
<1> SUFFICES ASSUME Init PROVE TypeOK
  OBVIOUS
<1> QED BY SchedulerAssumption DEF Init, TypeOK, Ids

LEMMA InitAgreement == Init => Agreement
<1> SUFFICES ASSUME Init PROVE Agreement
  OBVIOUS
<1> QED BY SchedulerAssumption
    DEF Init, Agreement, EntriesOK, BookingsOK, BookingKept, NoOversleep, Ids

-----------------------------------------------------------------------------
(* The wait of execute(). *)

\* What is booked while execute() waits either is later than something it waits
\* for, or ends the wait.
LEMMA NoOversleepStep ==
  ASSUME TypeOK, NoOversleep, [Next]_vars
  PROVE  NoOversleep'
<1> USE SchedulerAssumption
<1>1. ASSUME NEW time \in Times, NEW interval \in Intervals, Schedule(time, interval)
      PROVE  NoOversleep'
  <2> SUFFICES ASSUME executor' = "wait", NEW e \in events' PROVE wake' <= e.time
    BY DEF NoOversleep
  <2>1. executor = "wait" /\ ~NewFirst(time) /\ wake' = wake
    BY <1>1 DEF Schedule
  <2>2. PICK f \in events : f.time <= time
    BY <2>1 DEF NewFirst, TypeOK, EntryRecord
  <2>3. wake <= f.time /\ wake \in Nat /\ f.time \in Nat /\ time \in Nat
    BY <2>1, <2>2 DEF NoOversleep, TypeOK, EntryRecord
  <2>4. e \in events \/ e.time = time
    BY <1>1 DEF Schedule, Entry
  <2> QED BY <2>1, <2>2, <2>3, <2>4 DEF NoOversleep
<1>2. CASE Wait
  <2>1. events' = events /\ (\A e \in events : e.time \in Nat) /\ now \in Nat
    BY <1>2 DEF Wait, TypeOK, EntryRecord, eventVars
  <2>2. CASE (\A e \in events : e.time - now >= CycleTime) /\ wake' = now + CycleTime
    BY <2>1, <2>2 DEF NoOversleep
  <2>3. ASSUME NEW e \in events, IsFirst(e, events), wake' = e.time
        PROVE  NoOversleep'
    BY <2>1, <2>3 DEF NoOversleep, IsFirst, Before
  <2> QED BY <1>2, <2>2, <2>3 DEF Wait
<1>3. ASSUME events' \subseteq events, wake' = wake, executor' = "wait" => executor = "wait"
      PROVE  NoOversleep'
  BY <1>3 DEF NoOversleep
<1>4. ASSUME NEW id, Unschedule(id) PROVE NoOversleep'
  BY <1>3, <1>4 DEF Unschedule
<1>5. ASSUME executor' /= "wait" PROVE NoOversleep'
  BY <1>5 DEF NoOversleep
<1>6. CASE Loop \/ Wake \/ Begin \/ Skip \/ Finish \/ Start \/ SpuriousWakeup \/ Throw
  BY <1>5, <1>6 DEF Loop, Wake, Begin, Skip, Finish, Start, SpuriousWakeup, Throw
<1>7. ASSUME NEW id, UnscheduleAbsent(id) PROVE NoOversleep'
  BY <1>5, <1>7 DEF UnscheduleAbsent
<1>8. CASE Cancel \/ Tick \/ OtherReads \/ OtherWrites \/ UNCHANGED vars
  BY <1>3, <1>8 DEF Cancel, Tick, OtherReads, OtherWrites, vars, eventVars
<1> QED BY <1>1, <1>2, <1>4, <1>6, <1>7, <1>8 DEF Next, ExecutorStep, Call

-----------------------------------------------------------------------------
(* Type correctness. *)

LEMMA TypeStep ==
  ASSUME TypeOK, [Next]_vars
  PROVE  TypeOK'
<1> USE SchedulerAssumption DEF TypeOK, callVars, eventVars, stopVars
<1>1. ASSUME NEW id \in Nat, NEW time \in Nat, NEW interval \in Nat
      PROVE  Entry(id, time, interval) \in EntryRecord
  BY DEF Entry, EntryRecord
<1>2. ASSUME NEW time \in Times, NEW interval \in Intervals, Schedule(time, interval)
      PROVE  TypeOK'
  <2>1. events' \subseteq EntryRecord /\ booked' \subseteq EntryRecord
    <3>1. Entry(curr_id, time, interval) \in EntryRecord
      BY <1>1
    <3> QED BY <1>2, <3>1 DEF Schedule
  <2>2. curr_id' \in Nat /\ inserted' \in Nat
    BY <1>2 DEF Schedule
  <2>3. /\ executor' \in {executor, "loop"}
        /\ UNCHANGED <<now, other, wake, running, canceled, cancels, runs, removed, dropped>>
    BY <1>2 DEF Schedule
  <2> QED BY <2>1, <2>2, <2>3
<1>3. ASSUME NEW id \in 0 .. curr_id, Unschedule(id) \/ UnscheduleAbsent(id)
      PROVE  TypeOK'
  <2>1. CASE Unschedule(id)
    <3>1. events' \subseteq events /\ removed' = removed \cup {id} /\ id \in Nat
      BY <2>1 DEF Unschedule
    <3>2. UNCHANGED <<now, curr_id, other, inserted, executor, wake, running, canceled,
                      cancels, booked, runs, dropped>>
      BY <2>1 DEF Unschedule
    <3> QED BY <3>1, <3>2
  <2>2. CASE UnscheduleAbsent(id)
    BY <2>2 DEF UnscheduleAbsent
  <2> QED BY <1>3, <2>1, <2>2
<1>4. CASE Begin
  <2>1. PICK e \in events :
          /\ running' = e.node
          /\ runs' = [runs EXCEPT ![e.id] = @ + 1]
          /\ \/ UNCHANGED eventVars
             \/ /\ events' = events \cup {Entry(e.id, NextTime(e), e.interval)}
                /\ inserted' = inserted + 1
    BY <1>4 DEF Begin
  <2>2. e.node \in Nat /\ e.id \in Nat /\ e.interval \in Nat /\ NextTime(e) \in Nat
    BY DEF EntryRecord, NextTime
  <2>3. events' \subseteq EntryRecord /\ inserted' \in Nat
    BY <1>1, <2>1, <2>2
  <2>4. runs' \in [Ids -> Nat]
    <3>1. e.id \in Ids => runs[e.id] + 1 \in Nat
      OBVIOUS
    <3> QED BY <2>1, <3>1
  <2> QED BY <1>4, <2>1, <2>2, <2>3, <2>4 DEF Begin
<1>5. CASE Skip
  BY <1>5 DEF Skip, EntryRecord
<1>6. CASE Wait
  BY <1>6 DEF Wait, EntryRecord
<1>7. ASSUME /\ events' \subseteq events
             /\ executor' \in {"stopped", "loop", "look", "wait", "running", "terminated"}
             /\ running' \in {running, 0}
             /\ canceled' \in BOOLEAN /\ cancels' \in Nat
             /\ now' \in Nat /\ curr_id' \in Nat /\ other' \in Nat \cup {-1}
             /\ UNCHANGED <<inserted, wake, booked, runs, removed, dropped>>
      PROVE  TypeOK'
  BY <1>7
<1>8. CASE Loop \/ Wake \/ Finish \/ Start \/ SpuriousWakeup \/ Throw
  <2>1. CASE Loop BY <1>7, <2>1 DEF Loop
  <2>2. CASE Wake BY <1>7, <2>2 DEF Wake
  <2>3. CASE Finish BY <1>7, <2>3 DEF Finish
  <2>4. CASE Start BY <1>7, <2>4 DEF Start
  <2>5. CASE SpuriousWakeup BY <1>7, <2>5 DEF SpuriousWakeup
  <2>6. CASE Throw BY <1>7, <2>6 DEF Throw
  <2> QED BY <1>8, <2>1, <2>2, <2>3, <2>4, <2>5, <2>6
<1>9. CASE Cancel \/ Tick \/ OtherReads \/ OtherWrites \/ UNCHANGED vars
  <2>1. CASE Cancel BY <1>7, <2>1 DEF Cancel
  <2>2. CASE Tick BY <1>7, <2>2 DEF Tick
  <2>3. CASE OtherReads BY <1>7, <2>3 DEF OtherReads
  <2>4. CASE OtherWrites BY <1>7, <2>4 DEF OtherWrites
  <2>5. CASE UNCHANGED vars BY <1>7, <2>5 DEF vars
  <2> QED BY <1>9, <2>1, <2>2, <2>3, <2>4, <2>5
<1> QED BY <1>2, <1>3, <1>4, <1>5, <1>6, <1>8, <1>9 DEF Next, ExecutorStep, Call

-----------------------------------------------------------------------------
(* The entries of the map and the IDs. *)

LEMMA EntriesStep ==
  ASSUME TypeOK, EntriesOK, [Next]_vars
  PROVE  EntriesOK'
<1>1. ASSUME events' \subseteq events, inserted' = inserted,
             running' \in {running, 0},
             (executor' \notin {"running", "terminated"} => running' = 0)
      PROVE  EntriesOK'
  BY <1>1 DEF EntriesOK, TypeOK
<1>2. ASSUME NEW n, n.node = inserted + 1,
             events' = events \cup {n}, inserted' = inserted + 1,
             running' \in 0 .. inserted,
             (executor' \notin {"running", "terminated"} => running' = 0)
      PROVE  EntriesOK'
  <2>1. \A e \in events : e.node \in Nat /\ e.node <= inserted /\ e.node /= n.node
    BY <1>2 DEF EntriesOK, TypeOK, EntryRecord
  <2>2. inserted \in Nat /\ running' <= inserted'
    BY <1>2 DEF TypeOK
  <2>3. \A e \in events' : e.node <= inserted'
    BY <1>2, <2>1, <2>2
  <2>4. \A e, f \in events' : e.node = f.node => e = f
    BY <1>2, <2>1 DEF EntriesOK
  <2> QED BY <1>2, <2>2, <2>3, <2>4 DEF EntriesOK
<1>3. ASSUME NEW time \in Times, NEW interval \in Intervals, Schedule(time, interval)
      PROVE  EntriesOK'
  <2>1. PICK n : n = Entry(curr_id, time, interval)
    OBVIOUS
  <2>2. n.node = inserted + 1
    BY <2>1 DEF Entry
  <2>3. /\ events' = events \cup {n} /\ inserted' = inserted + 1 /\ running' = running
        /\ executor' \in {executor, "loop"}
    BY <1>3, <2>1 DEF Schedule
  <2>4. executor = "terminated" => executor' = "terminated"
    BY <1>3 DEF Schedule, Alive
  <2>5. executor = "running" => executor' = "running"
    BY <1>3 DEF Schedule
  <2>6. running' \in 0 .. inserted
    BY <2>3 DEF EntriesOK, TypeOK
  <2> QED BY <1>2, <2>2, <2>3, <2>4, <2>5, <2>6 DEF EntriesOK
<1>4. CASE Begin
  <2>1. PICK e \in events :
          /\ running' = e.node /\ executor' = "running"
          /\ \/ events' = events /\ inserted' = inserted
             \/ /\ events' = events \cup {Entry(e.id, NextTime(e), e.interval)}
                /\ inserted' = inserted + 1
    BY <1>4 DEF Begin, eventVars
  <2>2. running' \in 0 .. inserted
    BY <2>1 DEF EntriesOK, TypeOK, EntryRecord
  <2>3. CASE events' = events /\ inserted' = inserted
    BY <2>1, <2>2, <2>3 DEF EntriesOK
  <2>4. CASE /\ events' = events \cup {Entry(e.id, NextTime(e), e.interval)}
             /\ inserted' = inserted + 1
    <3>1. PICK n : n = Entry(e.id, NextTime(e), e.interval)
      OBVIOUS
    <3>2. n.node = inserted + 1
      BY <3>1 DEF Entry
    <3> QED BY <1>2, <2>1, <2>2, <2>4, <3>1, <3>2
  <2> QED BY <2>1, <2>3, <2>4
<1>5. ASSUME NEW id, Unschedule(id) \/ UnscheduleAbsent(id)
      PROVE  EntriesOK'
  <2>1. /\ events' \subseteq events /\ inserted' = inserted /\ running' = running
        /\ executor' \in {executor, "terminated"}
    BY <1>5 DEF Unschedule, UnscheduleAbsent, eventVars
  <2> QED BY <1>1, <2>1 DEF EntriesOK
<1>6. CASE Finish
  BY <1>1, <1>6 DEF Finish
<1>7. CASE Loop \/ Wait \/ Wake \/ Skip \/ Start \/ SpuriousWakeup
  <2>1. /\ events' \subseteq events /\ inserted' = inserted /\ running' = running
        /\ executor \notin {"running", "terminated"}
    BY <1>7 DEF Loop, Wait, Wake, Skip, Start, SpuriousWakeup, eventVars
  <2> QED BY <1>1, <2>1 DEF EntriesOK
<1>8. CASE Throw \/ Cancel \/ Tick \/ OtherReads \/ OtherWrites \/ UNCHANGED vars
  <2>1. /\ events' = events /\ inserted' = inserted /\ running' = running
        /\ executor' \in {executor, "terminated"}
    BY <1>8 DEF Throw, Cancel, Tick, OtherReads, OtherWrites, vars, eventVars
  <2> QED BY <1>1, <2>1 DEF EntriesOK
<1> QED BY <1>3, <1>4, <1>5, <1>6, <1>7, <1>8 DEF Next, ExecutorStep, Call

\* IDs only become ambiguous by a booking, and stay so.
LEMMA UniqueIdsBefore ==
  ASSUME [Next]_vars
  PROVE  booked \subseteq booked' /\ (UniqueIds' => UniqueIds)
<1>1. booked \subseteq booked'
  <2>1. CASE ExecutorStep
    BY <2>1 DEF ExecutorStep, Loop, Wait, Wake, Begin, Skip, Finish, callVars
  <2>2. CASE Call
    BY <2>2 DEF Call, Schedule, Unschedule, UnscheduleAbsent, Cancel, callVars
  <2>3. CASE Start \/ SpuriousWakeup \/ Throw \/ Tick
    BY <2>3 DEF Start, SpuriousWakeup, Throw, Tick, callVars
  <2>4. CASE OtherReads \/ OtherWrites \/ UNCHANGED vars
    BY <2>4 DEF OtherReads, OtherWrites, vars, callVars
  <2> QED BY <2>1, <2>2, <2>3, <2>4 DEF Next
<1> QED BY <1>1 DEF UniqueIds

LEMMA AloneStep ==
  ASSUME TypeOK, Alone, [Next]_vars
  PROVE  Alone'
<1> USE DEF Alone
<1>1. ASSUME UNCHANGED <<other, booked, curr_id>> PROVE Alone'
  BY <1>1 DEF UniqueIds
<1>2. ASSUME NEW time \in Times, NEW interval \in Intervals, Schedule(time, interval)
      PROVE  Alone'
  <2>1. PICK n : n = Entry(curr_id, time, interval)
    OBVIOUS
  <2>2. n.id = curr_id
    BY <2>1 DEF Entry
  <2>3. other' = other /\ curr_id' = curr_id + 1 /\ booked' = booked \cup {n}
    BY <1>2, <2>1 DEF Schedule
  <2>4. curr_id \in Nat /\ \A b \in booked : b.id \in Nat
    BY DEF TypeOK, EntryRecord
  <2>5. (\A b \in booked' : b.id < curr_id') /\ UniqueIds'
    BY <2>2, <2>3, <2>4 DEF UniqueIds
  <2> QED BY <2>3, <2>5
<1>3. CASE ExecutorStep
  BY <1>1, <1>3 DEF ExecutorStep, Loop, Wait, Wake, Begin, Skip, Finish, callVars
<1>4. ASSUME NEW id, Unschedule(id) \/ UnscheduleAbsent(id) PROVE Alone'
  BY <1>1, <1>4 DEF Unschedule, UnscheduleAbsent, callVars
<1>5. CASE Cancel \/ Start \/ SpuriousWakeup \/ Throw \/ Tick
  BY <1>1, <1>5 DEF Cancel, Start, SpuriousWakeup, Throw, Tick, callVars
<1>6. CASE OtherReads \/ OtherWrites \/ UNCHANGED vars
  BY <1>1, <1>6 DEF OtherReads, OtherWrites, vars, callVars
<1> QED BY <1>2, <1>3, <1>4, <1>5, <1>6 DEF Next, Call

LEMMA BookingsStep ==
  ASSUME TypeOK, EntriesOK, BookingsOK, [Next]_vars
  PROVE  BookingsOK'
<1>1. ASSUME NEW time \in Times, NEW interval \in Intervals, Schedule(time, interval)
      PROVE  BookingsOK'
  <2>1. PICK n : n = Entry(curr_id, time, interval)
    OBVIOUS
  <2>2. n.id = curr_id /\ n.interval = interval /\ n.node = inserted + 1
    BY <2>1 DEF Entry
  <2>3. /\ events' = events \cup {n} /\ booked' = booked \cup {n}
        /\ inserted' = inserted + 1 /\ curr_id \in Ids
        /\ UNCHANGED <<runs, removed, dropped>>
    BY <1>1, <2>1 DEF Schedule
  <2>4. inserted \in Nat /\ \A b \in booked : b.node \in Nat
    BY DEF TypeOK, EntryRecord
  <2>5. \A b \in booked' : b.id \in Ids /\ b.node <= inserted'
    BY <2>2, <2>3, <2>4 DEF BookingsOK
  <2>6. \A e \in events' : \E b \in booked' : b.id = e.id /\ b.interval = e.interval
    BY <2>2, <2>3 DEF BookingsOK
  <2>7. /\ \A id \in removed' \cup dropped' : \E b \in booked' : b.id = id
        /\ \A id \in Ids : runs'[id] /= 0 => \E b \in booked' : b.id = id
    BY <2>3 DEF BookingsOK
  <2> QED BY <2>5, <2>6, <2>7 DEF BookingsOK, Ids
<1>2. ASSUME events' \subseteq events, UNCHANGED <<inserted, booked, runs>>,
             \A id \in removed' \cup dropped' :
               id \in removed \cup dropped \/ \E e \in events : e.id = id
      PROVE  BookingsOK'
  BY <1>2 DEF BookingsOK, Ids
<1>3. ASSUME NEW id, Unschedule(id) \/ UnscheduleAbsent(id)
      PROVE  BookingsOK'
  <2>1. CASE Unschedule(id)
    <3>1. events' \subseteq events /\ removed' = removed \cup {id}
          /\ \E e \in events : e.id = id
      BY <2>1 DEF Unschedule, IsFirst
    <3>2. UNCHANGED <<inserted, booked, runs, dropped>>
      BY <2>1 DEF Unschedule
    <3> QED BY <1>2, <3>1, <3>2
  <2>2. CASE UnscheduleAbsent(id)
    BY <1>2, <2>2 DEF UnscheduleAbsent, callVars, eventVars
  <2> QED BY <1>3, <2>1, <2>2
<1>4. CASE Begin
  <2>1. PICK e \in events :
          /\ runs' = [runs EXCEPT ![e.id] = @ + 1]
          /\ \/ events' = events /\ inserted' = inserted
             \/ /\ events' = events \cup {Entry(e.id, NextTime(e), e.interval)}
                /\ inserted' = inserted + 1
          /\ UNCHANGED <<booked, removed, dropped>>
    BY <1>4 DEF Begin, eventVars, callVars
  <2>2. PICK c \in booked : c.id = e.id /\ c.interval = e.interval
    BY DEF BookingsOK
  <2>3. \A f \in events' : \E b \in booked' : b.id = f.id /\ b.interval = f.interval
    <3>1. Entry(e.id, NextTime(e), e.interval).id = e.id
          /\ Entry(e.id, NextTime(e), e.interval).interval = e.interval
      BY DEF Entry
    <3> QED BY <2>1, <2>2, <3>1 DEF BookingsOK
  <2>4. \A id \in Ids : runs'[id] /= 0 => \E b \in booked' : b.id = id
    <3> SUFFICES ASSUME NEW id \in Ids, runs'[id] /= 0 PROVE \E b \in booked : b.id = id
      BY <2>1
    <3>1. CASE id = e.id
      BY <2>2, <3>1
    <3>2. CASE id /= e.id
      BY <2>1, <3>2 DEF BookingsOK, TypeOK
    <3> QED BY <3>1, <3>2
  <2>5. \A b \in booked' : b.id \in Ids /\ b.node <= inserted'
    BY <2>1 DEF BookingsOK, TypeOK, EntryRecord
  <2> QED BY <2>1, <2>3, <2>4, <2>5 DEF BookingsOK, Ids
<1>5. CASE Skip
  BY <1>2, <1>5 DEF Skip, IsFirst, callVars
<1>6. CASE Finish
  BY <1>2, <1>6 DEF Finish, callVars
<1>7. CASE Loop \/ Wait \/ Wake
  BY <1>2, <1>7 DEF Loop, Wait, Wake, callVars, eventVars
<1>8. CASE Cancel \/ Start \/ SpuriousWakeup \/ Throw \/ Tick
  BY <1>2, <1>8 DEF Cancel, Start, SpuriousWakeup, Throw, Tick, callVars, eventVars
<1>9. CASE OtherReads \/ OtherWrites \/ UNCHANGED vars
  BY <1>2, <1>9 DEF OtherReads, OtherWrites, vars, callVars, eventVars
<1> QED BY <1>1, <1>3, <1>4, <1>5, <1>6, <1>7, <1>8, <1>9 DEF Next, ExecutorStep, Call

-----------------------------------------------------------------------------
(* No booking is lost or doubled. *)

\* A step that leaves an event alone leaves its booking alone.
LEMMA KeptFrame ==
  ASSUME NEW b, Kept(b),
         \A e : e \in Pending(b.id)' <=> e \in Pending(b.id),
         b.id \in removed' \cup dropped' <=> b.id \in removed \cup dropped,
         runs'[b.id] = runs[b.id]
  PROVE  Kept(b)'
<1>1. Pending(b.id)' = Pending(b.id)
  BY DEF Pending
<1>2. CASE b.id \in removed \cup dropped \/ b.interval = 0
  BY <1>1, <1>2 DEF Kept
<1>3. CASE b.id \notin removed \cup dropped /\ b.interval /= 0
  <2>1. PICK e \in events : Pending(b.id) = {e} /\ e.time = b.time + runs[b.id] * b.interval
    BY <1>3 DEF Kept
  <2>2. e \in events'
    BY <1>1, <2>1 DEF Pending
  <2> QED BY <1>1, <1>3, <2>1, <2>2 DEF Kept
<1> QED BY <1>2, <1>3

\* An event has at most one pending entry, and none once it was taken back.
LEMMA OnePending ==
  ASSUME NEW b, Kept(b), NEW e \in Pending(b.id)
  PROVE  /\ Pending(b.id) = {e}
         /\ b.id \notin removed \cup dropped
         /\ b.interval = 0 => runs[b.id] = 0 /\ e = b
         /\ b.interval /= 0 => e.time = b.time + runs[b.id] * b.interval
BY DEF Kept

\* The pending entry of an event is erased, as it is taken back or dropped.
LEMMA KeptErased ==
  ASSUME \A b \in booked : Kept(b),
         NEW e \in events, e.node /= running,
         events' = events \ {e},
         removed' \cup dropped' = removed \cup dropped \cup {e.id},
         UNCHANGED <<booked, running, runs>>
  PROVE  \A b \in booked' : Kept(b)'
<1> SUFFICES ASSUME NEW b \in booked PROVE Kept(b)'
  OBVIOUS
<1>1. CASE b.id = e.id
  <2>1. Pending(b.id) = {e}
    BY <1>1, OnePending DEF Pending
  <2>2. Pending(b.id)' = {}
    BY <2>1 DEF Pending
  <2> QED BY <1>1, <2>2 DEF Kept
<1>2. CASE b.id /= e.id
  BY <1>2, KeptFrame DEF Pending
<1> QED BY <1>1, <1>2

LEMMA KeptSchedule ==
  ASSUME TypeOK, EntriesOK, BookingsOK, \A b \in booked : Kept(b), UniqueIds',
         NEW time \in Times, NEW interval \in Intervals, Schedule(time, interval)
  PROVE  \A b \in booked' : Kept(b)'
<1> SUFFICES ASSUME NEW b \in booked' PROVE Kept(b)'
  OBVIOUS
<1>1. PICK n : n = Entry(curr_id, time, interval)
  OBVIOUS
<1>2. n.id = curr_id /\ n.interval = interval /\ n.time = time /\ n.node = inserted + 1
  BY <1>1 DEF Entry
<1>3. /\ events' = events \cup {n} /\ booked' = booked \cup {n} /\ curr_id \in Ids
      /\ UNCHANGED <<running, runs, removed, dropped>>
  BY <1>1 DEF Schedule
<1>4. n.node /= running
  BY <1>2 DEF EntriesOK, TypeOK
<1>5. \A c \in booked : c.id /= curr_id
  <2> SUFFICES ASSUME NEW c \in booked PROVE c.id /= curr_id
    OBVIOUS
  <2>1. c.node /= n.node
    BY <1>2 DEF BookingsOK, TypeOK, EntryRecord
  <2> QED BY <1>2, <1>3, <2>1 DEF UniqueIds
<1>6. CASE b \in booked
  BY <1>2, <1>3, <1>5, <1>6, KeptFrame DEF Pending
<1>7. CASE b = n
  <2>1. \A e \in events : e.id /= curr_id
    BY <1>5 DEF BookingsOK
  <2>2. Pending(b.id)' = {b}
    BY <1>2, <1>3, <1>4, <1>7, <2>1 DEF Pending
  <2>3. b.id \notin removed' \cup dropped' /\ runs'[b.id] = 0
    BY <1>2, <1>3, <1>5, <1>7 DEF BookingsOK
  <2>4. b.time + 0 * b.interval = b.time
    BY <1>2, <1>7, SchedulerAssumption
  <2> QED BY <1>3, <1>7, <2>2, <2>3, <2>4 DEF Kept
<1> QED BY <1>3, <1>6, <1>7

LEMMA KeptBegin ==
  ASSUME TypeOK, EntriesOK, BookingsOK, UniqueIds, \A b \in booked : Kept(b), Begin
  PROVE  \A b \in booked' : Kept(b)'
<1> SUFFICES ASSUME NEW b \in booked PROVE Kept(b)'
  BY DEF Begin, callVars
<1>1. PICK e \in events :
        /\ running' = e.node
        /\ runs' = [runs EXCEPT ![e.id] = @ + 1]
        /\ IF e.interval /= 0
           THEN /\ events' = events \cup {Entry(e.id, NextTime(e), e.interval)}
                /\ inserted' = inserted + 1
           ELSE UNCHANGED eventVars
        /\ UNCHANGED <<removed, dropped>>
  BY DEF Begin, callVars
<1>2. running = 0 /\ e.node \in Nat /\ e.node > 0 /\ e.node <= inserted /\ inserted \in Nat
  BY DEF Begin, EntriesOK, TypeOK, EntryRecord
<1>3. \A f \in events : f.node /= 0 /\ (f.node = e.node => f = e)
  BY DEF EntriesOK, TypeOK, EntryRecord
<1>4. PICK n : n = Entry(e.id, NextTime(e), e.interval)
  OBVIOUS
<1>5. n.id = e.id /\ n.time = e.time + e.interval /\ n.node = inserted + 1
  BY <1>4 DEF Entry, NextTime
<1>6. CASE b.id /= e.id
  <2>1. runs'[b.id] = runs[b.id]
    BY <1>1, <1>6 DEF BookingsOK, TypeOK
  <2>2. \A f : f \in Pending(b.id)' <=> f \in Pending(b.id)
    <3>1. CASE e.interval = 0
      BY <1>1, <1>2, <1>3, <1>6, <3>1 DEF Pending, eventVars
    <3>2. CASE e.interval /= 0
      BY <1>1, <1>2, <1>3, <1>4, <1>5, <1>6, <3>2 DEF Pending
    <3> QED BY <3>1, <3>2
  <2> QED BY <1>1, <2>1, <2>2, KeptFrame
<1>7. CASE b.id = e.id
  <2>1. e \in Pending(b.id)
    BY <1>2, <1>7 DEF Pending
  <2>2. /\ Pending(b.id) = {e}
        /\ b.id \notin removed \cup dropped
        /\ b.interval = 0 => runs[b.id] = 0 /\ e = b
        /\ b.interval /= 0 => e.time = b.time + runs[b.id] * b.interval
    BY <2>1, OnePending
  <2>3. b.interval = e.interval
    BY <1>7 DEF BookingsOK, UniqueIds
  <2>4. runs'[b.id] = runs[b.id] + 1 /\ runs[b.id] \in Nat
    BY <1>1, <1>7 DEF BookingsOK, TypeOK
  <2>5. CASE b.interval = 0
    <3>1. Pending(b.id)' = {}
      BY <1>1, <1>2, <1>3, <2>2, <2>3, <2>5 DEF Pending, eventVars
    <3> QED BY <1>1, <2>2, <2>4, <2>5, <3>1 DEF Kept
  <2>6. CASE b.interval /= 0
    <3>1. events' = events \cup {n}
      BY <1>1, <1>4, <2>3, <2>6
    <3>2. Pending(b.id)' = {n}
      BY <1>1, <1>2, <1>3, <1>5, <1>7, <2>2, <3>1 DEF Pending
    <3>3. n.time = b.time + runs'[b.id] * b.interval
      <4>1. b.time \in Nat /\ b.interval \in Nat
        BY DEF TypeOK, EntryRecord
      <4>2. \A k, i \in Nat : (k + 1) * i = k * i + i /\ k * i \in Nat
        OBVIOUS
      <4> QED BY <1>5, <2>2, <2>3, <2>4, <2>6, <4>1, <4>2
    <3> QED BY <1>1, <2>2, <2>6, <3>1, <3>2, <3>3 DEF Kept
  <2> QED BY <2>5, <2>6
<1> QED BY <1>6, <1>7

\* An event that erased its own entry ends execute() when it returns.
LEMMA BookingKeptStep ==
  ASSUME TypeOK, EntriesOK, BookingsOK, BookingKept, [Next]_vars
  PROVE  BookingKept'
<1> SUFFICES ASSUME UniqueIds', executor' /= "terminated", ~RunningErased'
             PROVE  \A b \in booked' : Kept(b)'
  BY DEF BookingKept
<1> UniqueIds
  BY UniqueIdsBefore
<1>1. ASSUME executor /= "terminated", events' = events, UNCHANGED <<running, booked, removed, dropped, runs>>
      PROVE  \A b \in booked' : Kept(b)'
  BY <1>1, KeptFrame DEF BookingKept, RunningErased, Pending
<1>2. ASSUME NEW time \in Times, NEW interval \in Intervals, Schedule(time, interval)
      PROVE  \A b \in booked' : Kept(b)'
  <2>1. ~RunningErased /\ executor /= "terminated"
    <3>1. running' = running /\ inserted' = inserted + 1 /\ Alive
          /\ events' = events \cup {Entry(curr_id, time, interval)}
      BY <1>2 DEF Schedule
    <3>2. Entry(curr_id, time, interval).node /= running
      BY DEF Entry, EntriesOK, TypeOK
    <3> QED BY <3>1, <3>2 DEF RunningErased, Alive
  <2> QED BY <1>2, <2>1, KeptSchedule DEF BookingKept
<1>3. ASSUME NEW id, Unschedule(id)
      PROVE  \A b \in booked' : Kept(b)'
  <2>1. PICK e \in events : e.id = id /\ events' = events \ {e}
    BY <1>3 DEF Unschedule, IsFirst
  <2>2. /\ removed' = removed \cup {e.id} /\ executor /= "terminated"
        /\ UNCHANGED <<booked, running, runs, dropped>>
    BY <1>3, <2>1 DEF Unschedule, Alive
  <2>3. e.node /= running
    BY <2>1, <2>2 DEF RunningErased, EntriesOK, TypeOK, EntryRecord
  <2>4. ~RunningErased
    BY <2>1, <2>2 DEF RunningErased
  <2> QED BY <2>1, <2>2, <2>3, <2>4, KeptErased DEF BookingKept
<1>4. CASE Begin
  <2>1. ~RunningErased /\ executor /= "terminated"
    BY <1>4 DEF Begin, EntriesOK, RunningErased
  <2> QED BY <1>4, <2>1, KeptBegin DEF BookingKept
<1>5. CASE Skip
  <2>1. PICK e \in events : events' = events \ {e} /\ dropped' = dropped \cup {e.id}
    BY <1>5 DEF Skip, IsFirst
  <2>2. UNCHANGED <<booked, removed, running, runs>> /\ running = 0 /\ executor /= "terminated"
    BY <1>5 DEF Skip, callVars, EntriesOK
  <2>3. e.node /= running /\ ~RunningErased
    BY <2>2 DEF TypeOK, EntryRecord, RunningErased
  <2> QED BY <2>1, <2>2, <2>3, KeptErased DEF BookingKept
<1>6. CASE Finish
  <2>1. /\ events' = {e \in events : e.node /= running} /\ running' = 0
        /\ ~RunningErased /\ executor /= "terminated"
        /\ UNCHANGED <<booked, removed, dropped, runs>>
    BY <1>6 DEF Finish, callVars
  <2>2. \A e \in events : e.node /= 0
    BY DEF TypeOK, EntryRecord
  <2> QED BY <2>1, <2>2, KeptFrame DEF BookingKept, Pending
<1>7. CASE Loop \/ Wait \/ Wake \/ Start \/ SpuriousWakeup
  BY <1>1, <1>7 DEF Loop, Wait, Wake, Start, SpuriousWakeup, callVars, eventVars
<1>8. CASE Cancel \/ Tick \/ Throw
  BY <1>1, <1>8 DEF Cancel, Tick, Throw, callVars, eventVars
<1>9. CASE OtherReads \/ OtherWrites \/ UNCHANGED vars
  BY <1>1, <1>9 DEF OtherReads, OtherWrites, vars, callVars, eventVars
<1>10. ASSUME NEW id, UnscheduleAbsent(id) PROVE FALSE
  BY <1>10 DEF UnscheduleAbsent
<1> QED BY <1>2, <1>3, <1>4, <1>5, <1>6, <1>7, <1>8, <1>9, <1>10 DEF Next, ExecutorStep, Call

-----------------------------------------------------------------------------
(* The theorems. *)

\* The type invariant of the scheduler, for any number of schedulers in the process.
THEOREM SchedulerTypeCorrect == Spec => []TypeOK
<1>1. Init => TypeOK
  BY InitTypeOK
<1>2. TypeOK /\ [Next]_vars => TypeOK'
  BY TypeStep
<1> QED BY <1>1, <1>2, PTL DEF Spec

\* execute() never waits past the time of an event: schedule notifies it exactly
\* when the new event is before all those it may wait for.
THEOREM NeverOversleeps == Spec => []NoOversleep
<1>1. Init => NoOversleep
  BY DEF Init, NoOversleep
<1>2. TypeOK /\ NoOversleep /\ [Next]_vars => NoOversleep'
  BY NoOversleepStep
<1> QED BY <1>1, <1>2, SchedulerTypeCorrect, PTL DEF Spec

\* The map, the executions and the calls agree in every state, and as long as IDs
\* are unique no booking is lost or doubled: one-off events run once, repeating ones
\* keep to their times, unscheduled ones do not run again.
THEOREM BookingsAreKept == Spec => []Agreement
<1>1. Init => Agreement
  BY InitAgreement
<1>2. TypeOK /\ Agreement /\ [Next]_vars => Agreement'
  BY EntriesStep, BookingsStep, BookingKeptStep, NoOversleepStep DEF Agreement
<1> QED BY <1>1, <1>2, SchedulerTypeCorrect, PTL DEF Spec

\* In a process with one scheduler, IDs are unique.
THEOREM IdsAreUnique == OtherIds = {} => (Spec => []UniqueIds)
<1> SUFFICES ASSUME OtherIds = {} PROVE Spec => []UniqueIds
  OBVIOUS
<1>1. Init => Alone
  BY DEF Init, Alone, UniqueIds
<1>2. TypeOK /\ Alone /\ [Next]_vars => Alone'
  BY AloneStep
<1>3. Alone => UniqueIds
  BY DEF Alone
<1> QED BY <1>1, <1>2, <1>3, SchedulerTypeCorrect, PTL DEF Spec
=============================================================================
