-------------------------- MODULE ReportWorkerProofs --------------------------
(***************************************************************************)
(* Proofs about ReportWorker, for any number of calls and schedules: the   *)
(* inductive invariant and the safety properties that follow from it.      *)
(***************************************************************************)
EXTENDS ReportWorker, TLAPS

USE WorkerAssumption

\* The initial state.
LEMMA InitInv == Init => IInv
<1> SUFFICES ASSUME Init PROVE IInv
  OBVIOUS
<1>1. TypeOK
  BY DEF Init, TypeOK
<1>2. \A c \in Calls : CallInv(c)
  BY DEF Init, CallInv, Jobs
<1>3. MapInv /\ SequentialInv /\ TaskLostToInvalid
  BY DEF Init, MapInv, SequentialInv, TaskLostToInvalid, At
<1>4. QED
  BY <1>1, <1>2, <1>3 DEF IInv

-----------------------------------------------------------------------------
\* Every step keeps the types.
LEMMA TypeStep ==
  ASSUME IInv, [Next]_vars
  PROVE  TypeOK'
<1> USE DEF TypeOK, Ended
<1>0. TypeOK /\ \A c \in Calls : CallInv(c)
  BY DEF IInv
<1>1. ASSUME NEW c \in Calls, NEW s \in Schedules, NEW parses \in BOOLEAN,
             ScheduleReport(c, s, parses)
      PROVE  TypeOK'
  BY <1>0, <1>1 DEF ScheduleReport, Goto, jobVars
<1>2. ASSUME NEW c \in Calls, FindTask(c)
      PROVE  TypeOK'
  BY <1>0, <1>2 DEF FindTask, Goto, jobVars
<1>3. ASSUME NEW c \in Calls, RemoveEntry(c)
      PROVE  TypeOK'
  BY <1>0, <1>3 DEF RemoveEntry, Goto, jobVars
<1>4. ASSUME NEW c \in Calls, CloseCancel(c)
      PROVE  TypeOK'
  <2>1. schedule[c] \in Schedules /\ Existing(c) \in Calls
    BY <1>0, <1>4 DEF CloseCancel, At, CallInv, Existing
  <2>2. closed' \in [Calls -> Nat]
    BY <1>0, <1>4, <2>1 DEF CloseCancel
  <2>3. schedulers' \in [Schedules -> Calls \cup {None}]
    BY <1>0, <1>4, <2>1 DEF CloseCancel
  <2>4. QED
    BY <1>0, <1>4, <2>2, <2>3 DEF CloseCancel, Goto, jobVars
<1>5. ASSUME NEW c \in Calls, NewScheduledTask(c)
      PROVE  TypeOK'
  BY <1>0, <1>5 DEF NewScheduledTask, Goto, jobVars
<1>6. ASSUME NEW c \in Calls, AddTask(c)
      PROVE  TypeOK'
  BY <1>0, <1>6 DEF AddTask, Goto, jobVars
<1>7. ASSUME NEW c \in Calls, Tick(c) \/ JobStep(c)
      PROVE  TypeOK'
  <2>1. /\ started[c] + cleared[c] + running[c] <= MaxJobs
        /\ started[c] \in Nat /\ cleared[c] \in Nat /\ running[c] \in Nat
    BY <1>0 DEF CallInv, Jobs
  <2>2. /\ started' \in [Calls -> 0 .. MaxJobs] /\ cleared' \in [Calls -> 0 .. MaxJobs]
        /\ running' \in [Calls -> 0 .. MaxJobs]
    BY <1>0, <1>7, <2>1 DEF Jobs, Tick, JobStep, CheckCancel, StartReport, JobEnds
  <2>3. QED
    BY <1>0, <1>7, <2>2 DEF Tick, JobStep, CheckCancel, StartReport, JobEnds, callVars
<1>8. CASE UNCHANGED vars
  BY <1>0, <1>8 DEF vars, callVars, jobVars
<1>9. QED
  BY <1>1, <1>2, <1>3, <1>4, <1>5, <1>6, <1>7, <1>8 DEF Next, CallStep

\* Every step keeps what the position of each call implies.
LEMMA CallInvStep ==
  ASSUME IInv, [Next]_vars
  PROVE  \A d \in Calls : CallInv(d)'
<1> USE DEF TypeOK, Ended
<1>0. TypeOK /\ MapInv /\ \A c \in Calls : CallInv(c)
  BY DEF IInv
<1> SUFFICES ASSUME NEW d \in Calls PROVE CallInv(d)'
  OBVIOUS
<1>1. ASSUME NEW c \in Calls, NEW s \in Schedules, NEW parses \in BOOLEAN,
             ScheduleReport(c, s, parses)
      PROVE  CallInv(d)'
  BY <1>0, <1>1 DEF ScheduleReport, At, Goto, jobVars, CallInv, Existing, Jobs
<1>2. ASSUME NEW c \in Calls, FindTask(c)
      PROVE  CallInv(d)'
  BY <1>0, <1>2 DEF FindTask, At, Goto, jobVars, CallInv, Existing, Jobs
<1>3. ASSUME NEW c \in Calls, RemoveEntry(c)
      PROVE  CallInv(d)'
  <2>1. Existing(c) \in Calls /\ pc[Existing(c)] = "done"
    BY <1>0, <1>3 DEF RemoveEntry, At, CallInv, Existing, MapInv
  <2>2. QED
    BY <1>0, <1>3, <2>1 DEF RemoveEntry, At, Goto, jobVars, CallInv, Existing, Jobs
<1>4. ASSUME NEW c \in Calls, CloseCancel(c)
      PROVE  CallInv(d)'
  <2>1. /\ schedule[c] \in Schedules /\ Existing(c) \in Calls
        /\ pc[Existing(c)] = "done" /\ closed[Existing(c)] = 0
        /\ schedule[Existing(c)] = schedule[c] /\ mutex = c
    BY <1>0, <1>4 DEF CloseCancel, At, CallInv, Existing, MapInv
  <2>2. QED
    BY <1>0, <1>4, <2>1 DEF CloseCancel, At, Goto, jobVars, CallInv, Existing, Jobs
<1>5. ASSUME NEW c \in Calls, NewScheduledTask(c)
      PROVE  CallInv(d)'
  <2>1. pc[d] = "close" => Existing(d) # c
    BY <1>0, <1>5 DEF NewScheduledTask, At, CallInv, Existing, MapInv
  <2>2. QED
    BY <1>0, <1>5, <2>1 DEF NewScheduledTask, At, Goto, jobVars, CallInv, Existing, Jobs
<1>6. ASSUME NEW c \in Calls, AddTask(c)
      PROVE  CallInv(d)'
  BY <1>0, <1>6 DEF AddTask, At, Goto, jobVars, CallInv, Existing, Jobs
<1>7. ASSUME NEW c \in Calls, Tick(c) \/ JobStep(c)
      PROVE  CallInv(d)'
  <2>1. (Jobs(d))' <= MaxJobs
    <3>1. /\ started[d] \in Nat /\ cleared[d] \in Nat /\ running[d] \in Nat /\ MaxJobs \in Nat
          /\ Jobs(d) <= MaxJobs
          /\ started \in [Calls -> Nat] /\ cleared \in [Calls -> Nat] /\ running \in [Calls -> Nat]
      BY <1>0 DEF CallInv
    <3>2. CASE d # c
      <4>1. started'[d] = started[d] /\ cleared'[d] = cleared[d] /\ running'[d] = running[d]
        BY <1>7, <3>1, <3>2 DEF Tick, JobStep, CheckCancel, StartReport, JobEnds
      <4> QED
        BY <3>1, <4>1 DEF Jobs
    <3>3. CASE d = c
      <4>1. CASE Tick(c)
        BY <3>1, <3>3, <4>1 DEF Tick, Jobs
      <4>2. CASE CheckCancel(c)
        BY <3>1, <3>3, <4>2 DEF CheckCancel, Jobs
      <4>3. CASE StartReport(c)
        BY <3>1, <3>3, <4>3 DEF StartReport, Jobs
      <4>4. CASE JobEnds(c)
        BY <3>1, <3>3, <4>4 DEF JobEnds, Jobs
      <4> QED
        BY <1>7, <4>1, <4>2, <4>3, <4>4 DEF JobStep
    <3> QED
      BY <3>2, <3>3
  <2>2. UNCHANGED <<pc, schedule, valid, mutex, schedulers, entry, closed, before>>
    BY <1>7 DEF Tick, JobStep, CheckCancel, StartReport, JobEnds, callVars
  <2>3. CallInv(d)
    BY <1>0
  <2>4. QED
    BY <2>1, <2>2, <2>3 DEF CallInv, Existing
<1>8. CASE UNCHANGED vars
  BY <1>0, <1>8 DEF vars, callVars, jobVars, CallInv, Existing, Jobs
<1>9. QED
  BY <1>1, <1>2, <1>3, <1>4, <1>5, <1>6, <1>7, <1>8 DEF Next, CallStep

\* Every step keeps what the map says of its tasks.
LEMMA MapStep ==
  ASSUME IInv, [Next]_vars
  PROVE  MapInv'
<1> USE DEF TypeOK, Ended
<1>0. TypeOK /\ MapInv /\ \A c \in Calls : CallInv(c)
  BY DEF IInv
<1>1. ASSUME NEW c \in Calls, NEW s \in Schedules, NEW parses \in BOOLEAN,
             ScheduleReport(c, s, parses)
      PROVE  MapInv'
  BY <1>0, <1>1 DEF ScheduleReport, At, Goto, jobVars, MapInv
<1>2. ASSUME NEW c \in Calls, FindTask(c)
      PROVE  MapInv'
  BY <1>0, <1>2 DEF FindTask, At, Goto, jobVars, MapInv
<1>3. ASSUME NEW c \in Calls, RemoveEntry(c)
      PROVE  MapInv'
  BY <1>0, <1>3 DEF RemoveEntry, At, Goto, jobVars, MapInv, CallInv, Existing
<1>4. ASSUME NEW c \in Calls, CloseCancel(c)
      PROVE  MapInv'
  <2>1. /\ schedule[c] \in Schedules /\ Existing(c) \in Calls
        /\ schedule[Existing(c)] = schedule[c] /\ mutex = c
    BY <1>0, <1>4 DEF CloseCancel, At, CallInv, Existing, MapInv
  <2>2. \A e \in Calls : pc[e] = "close" => e = c
    BY <1>0, <2>1 DEF CallInv
  <2>3. QED
    BY <1>0, <1>4, <2>1, <2>2 DEF CloseCancel, At, Goto, jobVars, MapInv, Existing
<1>5. ASSUME NEW c \in Calls, NewScheduledTask(c)
      PROVE  MapInv'
  BY <1>0, <1>5 DEF NewScheduledTask, At, Goto, jobVars, MapInv
<1>6. ASSUME NEW c \in Calls, AddTask(c)
      PROVE  MapInv'
  <2>1. schedule[c] \in Schedules /\ entry[c] /\ closed[c] = 0
    BY <1>0, <1>6 DEF AddTask, At, CallInv
  <2>2. QED
    BY <1>0, <1>6, <2>1 DEF AddTask, At, Goto, jobVars, MapInv
<1>7. ASSUME NEW c \in Calls, Tick(c) \/ JobStep(c)
      PROVE  MapInv'
  BY <1>0, <1>7 DEF Tick, JobStep, CheckCancel, StartReport, JobEnds, callVars, MapInv
<1>8. CASE UNCHANGED vars
  BY <1>0, <1>8 DEF vars, callVars, jobVars, MapInv
<1>9. QED
  BY <1>1, <1>2, <1>3, <1>4, <1>5, <1>6, <1>7, <1>8 DEF Next, CallStep

-----------------------------------------------------------------------------
\* Calls that overlap have overlapped for good.
LEMMA OverlapStays ==
  ASSUME IInv, [Next]_vars, NEW a \in Calls, NEW b \in Calls, Overlap(a, b)
  PROVE  Overlap(a, b)' /\ schedule'[a] = schedule[a]
<1> USE DEF TypeOK, Overlap
<1>0. TypeOK
  BY DEF IInv
<1>1. ASSUME NEW c \in Calls, NEW s \in Schedules, NEW parses \in BOOLEAN,
             ScheduleReport(c, s, parses)
      PROVE  Overlap(a, b)' /\ schedule'[a] = schedule[a]
  BY <1>0, <1>1 DEF ScheduleReport, At, Goto
<1>2. ASSUME NEW c \in Calls, CallStep(c) \/ Tick(c) \/ JobStep(c)
      PROVE  Overlap(a, b)' /\ schedule'[a] = schedule[a]
  <2>1. schedule' = schedule /\ before' = before
    BY <1>2 DEF CallStep, FindTask, RemoveEntry, CloseCancel, NewScheduledTask,
                AddTask, Tick, JobStep, CheckCancel, StartReport, JobEnds, callVars
  <2>2. \A d \in Calls : pc[d] # "idle" => pc'[d] # "idle"
    BY <1>0, <1>2 DEF CallStep, FindTask, RemoveEntry, CloseCancel,
         NewScheduledTask, AddTask, Tick, JobStep, CheckCancel, StartReport, JobEnds, callVars, Goto
  <2>3. QED
    BY <2>1, <2>2
<1>3. CASE UNCHANGED vars
  BY <1>3 DEF vars, callVars
<1>4. QED
  BY <1>1, <1>2, <1>3 DEF Next

\* Two calls for one schedule of which neither has ended overlap.
LEMMA ActiveOverlap ==
  ASSUME IInv, NEW c \in Calls, NEW d \in Calls, c # d,
         schedule[c] = schedule[d],
         pc[c] \notin Ended \cup {"idle"}, pc[d] \notin Ended \cup {"idle"}
  PROVE  Overlap(c, d)
  BY DEF IInv, CallInv, Overlap

\* Every step keeps the tasks of a schedule whose calls do not overlap.
LEMMA SequentialStep ==
  ASSUME IInv, [Next]_vars
  PROVE  SequentialInv'
<1>0. TypeOK /\ MapInv /\ SequentialInv /\ \A c \in Calls : CallInv(c)
  BY DEF IInv
<1>1. \A d \in Calls : CallInv(d)'
  BY CallInvStep
<1> DEFINE Sequential(s) ==
      \A t \in Calls : schedule[t] = s =>
         /\ entry[t] => pc[t] = "insert" \/ schedulers[s] = t
         /\ pc[t] \in {"create", "insert"} => schedulers[s] = None
<1> SUFFICES ASSUME NEW s \in Schedules,
                    \A a, b \in Calls : schedule[a] = s => ~Overlap(a, b),
                    \A a, b \in Calls : schedule'[a] = s => ~Overlap(a, b)'
             PROVE  Sequential(s)'
  BY OverlapStays DEF SequentialInv
<1>2. Sequential(s)
  BY <1>0 DEF SequentialInv
<1> SUFFICES ASSUME NEW t \in Calls, schedule'[t] = s
             PROVE  /\ entry'[t] => pc'[t] = "insert" \/ schedulers'[s] = t
                    /\ pc'[t] \in {"create", "insert"} => schedulers'[s] = None
  OBVIOUS
<1> USE DEF TypeOK, Ended
<1>3. ASSUME NEW c \in Calls, NEW s0 \in Schedules, NEW parses \in BOOLEAN,
             ScheduleReport(c, s0, parses)
      PROVE  /\ entry'[t] => pc'[t] = "insert" \/ schedulers'[s] = t
             /\ pc'[t] \in {"create", "insert"} => schedulers'[s] = None
  BY <1>0, <1>2, <1>3 DEF ScheduleReport, At, Goto, CallInv
<1>4. ASSUME NEW c \in Calls, FindTask(c)
      PROVE  /\ entry'[t] => pc'[t] = "insert" \/ schedulers'[s] = t
             /\ pc'[t] \in {"create", "insert"} => schedulers'[s] = None
  BY <1>0, <1>2, <1>4 DEF FindTask, At, Goto, Existing
<1>5. ASSUME NEW c \in Calls, RemoveEntry(c)
      PROVE  /\ entry'[t] => pc'[t] = "insert" \/ schedulers'[s] = t
             /\ pc'[t] \in {"create", "insert"} => schedulers'[s] = None
  BY <1>0, <1>2, <1>5 DEF RemoveEntry, At, Goto
<1>6. ASSUME NEW c \in Calls, CloseCancel(c)
      PROVE  /\ entry'[t] => pc'[t] = "insert" \/ schedulers'[s] = t
             /\ pc'[t] \in {"create", "insert"} => schedulers'[s] = None
  <2>1. /\ schedule[c] \in Schedules /\ Existing(c) \in Calls
        /\ schedule[Existing(c)] = schedule[c] /\ mutex = c
    BY <1>0, <1>6 DEF CloseCancel, At, CallInv, Existing, MapInv
  <2>2. CASE schedule[c] # s
    BY <1>0, <1>2, <1>6, <2>1, <2>2 DEF CloseCancel, At, Goto
  <2>3. CASE schedule[c] = s
    <3>1. ~entry[Existing(c)]
      BY <1>0, <1>6 DEF CloseCancel, At, CallInv
    <3>2. QED
      BY <1>0, <1>2, <1>6, <2>1, <2>3, <3>1 DEF CloseCancel, At, Goto, Existing
  <2>4. QED
    BY <2>2, <2>3
<1>7. ASSUME NEW c \in Calls, NewScheduledTask(c)
      PROVE  /\ entry'[t] => pc'[t] = "insert" \/ schedulers'[s] = t
             /\ pc'[t] \in {"create", "insert"} => schedulers'[s] = None
  BY <1>0, <1>2, <1>7 DEF NewScheduledTask, At, Goto
<1>8. ASSUME NEW c \in Calls, AddTask(c)
      PROVE  /\ entry'[t] => pc'[t] = "insert" \/ schedulers'[s] = t
             /\ pc'[t] \in {"create", "insert"} => schedulers'[s] = None
  <2>1. schedule[c] \in Schedules /\ schedule[t] = s
    BY <1>0, <1>8 DEF AddTask, At, CallInv
  <2>2. CASE schedule[c] # s
    BY <1>0, <1>2, <1>8, <2>1, <2>2 DEF AddTask, At, Goto
  <2>3. CASE schedule[c] = s /\ t = c
    BY <1>0, <1>8, <2>3 DEF AddTask, At, Goto
  <2>4. CASE schedule[c] = s /\ t # c
    \* The map was empty, so another task could only be about to be inserted,
    \* by a call that overlaps this one.
    <3>1. schedulers[s] = None
      BY <1>2, <1>8, <2>4 DEF AddTask, At
    <3>2. pc[t] \notin {"create", "insert"}
      BY <1>8, <2>1, <2>4, ActiveOverlap DEF AddTask, At
    <3>3. ~entry[t]
      BY <1>0, <1>2, <2>1, <3>1, <3>2
    <3>4. QED
      BY <1>0, <1>8, <2>4, <3>2, <3>3 DEF AddTask, At, Goto
  <2>5. QED
    BY <2>2, <2>3, <2>4
<1>9. ASSUME NEW c \in Calls, Tick(c) \/ JobStep(c)
      PROVE  /\ entry'[t] => pc'[t] = "insert" \/ schedulers'[s] = t
             /\ pc'[t] \in {"create", "insert"} => schedulers'[s] = None
  BY <1>2, <1>9 DEF Tick, JobStep, CheckCancel, StartReport, JobEnds, callVars
<1>10. CASE UNCHANGED vars
  BY <1>2, <1>10 DEF vars, callVars
<1>11. QED
  BY <1>3, <1>4, <1>5, <1>6, <1>7, <1>8, <1>9, <1>10 DEF Next, CallStep

\* Every step keeps for each schedule without a task the call that took it.
LEMMA LostStep ==
  ASSUME IInv, [Next]_vars
  PROVE  TaskLostToInvalid'
<1> DEFINE Taker(t, c) ==
      /\ schedule[c] = schedule[t] /\ c \notin before[t]
      /\ pc[c] \in {"create", "insert"} \/ (pc[c] = "failed" /\ ~valid[c])
<1> USE DEF TypeOK, Ended, At
<1>0. TypeOK /\ MapInv /\ TaskLostToInvalid /\ \A c \in Calls : CallInv(c)
  BY DEF IInv
<1>1. \A c \in Calls : CallInv(c)'
  BY CallInvStep
<1> SUFFICES ASSUME NEW t \in Calls, pc'[t] = "done", schedulers'[schedule'[t]] = None
             PROVE  \E c \in Calls : Taker(t, c)'
  BY DEF TaskLostToInvalid
<1>2. ASSUME pc[t] = "done", schedulers[schedule[t]] = None
      PROVE  \E c \in Calls : Taker(t, c)
  BY <1>0, <1>2 DEF TaskLostToInvalid
<1>3. pc[t] = "done" => schedule[t] \in Schedules
  BY <1>0 DEF CallInv
<1>4. ASSUME NEW c \in Calls, NEW s \in Schedules, NEW parses \in BOOLEAN,
             ScheduleReport(c, s, parses)
      PROVE  \E e \in Calls : Taker(t, e)'
  BY <1>0, <1>2, <1>4 DEF ScheduleReport, Goto
<1>5. ASSUME NEW c \in Calls, FindTask(c) \/ RemoveEntry(c)
      PROVE  \E e \in Calls : Taker(t, e)'
  BY <1>0, <1>2, <1>5 DEF FindTask, RemoveEntry, Goto
<1>6. ASSUME NEW c \in Calls, CloseCancel(c)
      PROVE  \E e \in Calls : Taker(t, e)'
  <2>1. /\ schedule[c] \in Schedules /\ pc[t] = "done" /\ pc'[c] = "create"
        /\ UNCHANGED <<schedule, valid, before>>
        /\ \A e \in Calls : e # c => pc'[e] = pc[e]
    BY <1>0, <1>6 DEF CloseCancel, Goto, CallInv
  <2>2. CASE schedule[c] = schedule[t]
    <3>1. c \notin before[t]
      BY <1>0, <1>6 DEF CloseCancel, CallInv
    <3> QED
      BY <2>1, <2>2, <3>1
  <2>3. CASE schedule[c] # schedule[t]
    <3>1. schedulers[schedule[t]] = None
      BY <1>0, <1>3, <1>6, <2>1, <2>3 DEF CloseCancel
    <3>2. PICK e \in Calls : Taker(t, e)
      BY <1>2, <2>1, <3>1
    <3> QED
      BY <1>6, <2>1, <3>2 DEF CloseCancel
  <2> QED
    BY <2>2, <2>3
<1>7. ASSUME NEW c \in Calls, NewScheduledTask(c)
      PROVE  \E e \in Calls : Taker(t, e)'
  <2>1. /\ pc[t] = "done" /\ UNCHANGED <<schedule, valid, before, schedulers>>
        /\ pc[c] = "create" /\ pc'[c] = IF valid[c] THEN "insert" ELSE "failed"
        /\ \A e \in Calls : e # c => pc'[e] = pc[e]
    BY <1>0, <1>7 DEF NewScheduledTask, Goto
  <2>2. PICK e \in Calls : Taker(t, e)
    BY <1>2, <2>1
  <2> QED
    BY <2>1, <2>2
<1>8. ASSUME NEW c \in Calls, AddTask(c)
      PROVE  \E e \in Calls : Taker(t, e)'
  <2>1. /\ schedule[c] \in Schedules /\ UNCHANGED <<schedule, valid, before>>
        /\ schedulers'[schedule[c]] = c
        /\ \A s \in Schedules : s # schedule[c] => schedulers'[s] = schedulers[s]
        /\ \A e \in Calls : e # c => pc'[e] = pc[e]
    BY <1>0, <1>8 DEF AddTask, Goto, CallInv
  <2>2. schedule[c] # schedule[t]
    BY <2>1, WorkerAssumption
  <2>3. t # c /\ pc[t] = "done" /\ schedulers[schedule[t]] = None
    BY <1>3, <2>1, <2>2
  <2>4. PICK e \in Calls : Taker(t, e)
    BY <1>2, <2>3
  <2> QED
    BY <2>1, <2>2, <2>4
<1>9. ASSUME NEW c \in Calls, Tick(c) \/ JobStep(c)
      PROVE  \E e \in Calls : Taker(t, e)'
  BY <1>2, <1>9 DEF Tick, JobStep, CheckCancel, StartReport, JobEnds, callVars
<1>10. CASE UNCHANGED vars
  BY <1>2, <1>10 DEF vars, callVars
<1>11. QED
  BY <1>4, <1>5, <1>6, <1>7, <1>8, <1>9, <1>10 DEF Next, CallStep

-----------------------------------------------------------------------------
\* Every reachable state of any number of calls satisfies the inductive
\* invariant.
THEOREM Invariance == Spec => []IInv
<1>1. IInv /\ [Next]_vars => IInv'
  BY TypeStep, CallInvStep, MapStep, SequentialStep, LostStep DEF IInv
<1>2. QED
  BY InitInv, <1>1, PTL DEF Spec

\* Every reachable state is well typed; in particular no task has more than
\* MaxJobs jobs.
THEOREM TypeCorrect == Spec => []TypeOK
<1>1. IInv => TypeOK
  BY DEF IInv
<1>2. QED
  BY Invariance, <1>1, PTL

\* No cancel channel is closed twice, however the calls overlap: the task is
\* deleted from the map before the mutex is released.
THEOREM TasksAreCancelledOnce == Spec => []CancelledOnce
<1>1. IInv => CancelledOnce
  BY DEF IInv, CallInv, CancelledOnce, TypeOK
<1>2. QED
  BY Invariance, <1>1, PTL

\* Whoever takes the mutex finds only live tasks in the map.
THEOREM MapIsLive == Spec => []MapHoldsLiveTasks
<1>1. IInv => MapHoldsLiveTasks
  <2> SUFFICES ASSUME IInv, mutex = None, NEW s \in Schedules, schedulers[s] # None
               PROVE  entry[schedulers[s]] /\ closed[schedulers[s]] = 0
    BY DEF MapHoldsLiveTasks
  <2>1. \A c \in Calls : pc[c] # "close"
    BY WorkerAssumption DEF IInv, CallInv
  <2>2. QED
    BY <2>1 DEF IInv, MapInv
<1>2. QED
  BY Invariance, <1>1, PTL

\* Two tasks that both fire for a schedule are the work of calls that
\* overlapped: calls one after another always replace.
THEOREM OrphansNeedOverlap == Spec => []TwoTasksNeedOverlap
<1>1. IInv => TwoTasksNeedOverlap
  <2> SUFFICES ASSUME IInv, NEW t \in Calls, NEW u \in Calls, t # u,
                      schedule[t] = schedule[u], entry[t], entry[u],
                      \A c, d \in Calls : schedule[c] = schedule[t] => ~Overlap(c, d)
               PROVE  FALSE
    BY DEF TwoTasksNeedOverlap
  <2>1. TypeOK /\ SequentialInv /\ \A c \in Calls : CallInv(c)
    BY DEF IInv
  <2>2. schedule[t] \in Schedules /\ pc[t] \in {"insert", "done"} /\ pc[u] \in {"insert", "done"}
    BY <2>1 DEF CallInv
  <2>3. \A v \in {t, u} : /\ pc[v] = "insert" \/ schedulers[schedule[t]] = v
                          /\ pc[v] = "insert" => schedulers[schedule[t]] = None
    BY <2>1, <2>2 DEF SequentialInv
  <2>4. pc[t] = "insert" /\ pc[u] = "insert"
    BY <2>3, WorkerAssumption
  <2>5. QED
    BY <2>4, ActiveOverlap DEF Ended
<1>2. QED
  BY Invariance, <1>1, PTL

\* From the close of its channel on, no job is added to those of a task, nor to
\* those past the check, whatever calls are under way.
THEOREM CancelledTasksOnlyDrain == Spec => CancelledTasksDrain
<1>1. ASSUME IInv, [Next]_vars, NEW t \in Calls, closed[t] > 0
      PROVE  /\ (Jobs(t))' <= Jobs(t)
             /\ cleared'[t] + running'[t] <= cleared[t] + running[t]
  <2>1. /\ started[t] \in Nat /\ cleared[t] \in Nat /\ running[t] \in Nat
        /\ \A f \in {started, cleared, running} : f = [c \in Calls |-> f[c]]
    BY <1>1 DEF IInv, TypeOK
  <2>2. ~entry[t]
    BY <1>1 DEF IInv, CallInv
  <2>3. CASE UNCHANGED jobVars
    BY <2>1, <2>3 DEF jobVars, Jobs
  <2>4. ASSUME NEW u \in Calls, Tick(u) \/ JobStep(u)
        PROVE  /\ (Jobs(t))' <= Jobs(t)
               /\ cleared'[t] + running'[t] <= cleared[t] + running[t]
    BY <1>1, <2>1, <2>2, <2>4 DEF Tick, JobStep, CheckCancel, StartReport, JobEnds, Jobs
  <2>5. QED
    BY <1>1, <2>3, <2>4 DEF Next, CallStep, ScheduleReport, FindTask, RemoveEntry,
         CloseCancel, NewScheduledTask, AddTask, vars
<1>2. IInv /\ [Next]_vars => [\A t \in Calls : closed[t] > 0 =>
                               /\ (Jobs(t))' <= Jobs(t)
                               /\ cleared'[t] + running'[t] <= cleared[t] + running[t]]_vars
  BY <1>1
<1>3. QED
  BY Invariance, <1>2, PTL DEF Spec, CancelledTasksDrain

\* A schedule that had a task keeps one, but for a replacement under way and for
\* calls with an invalid cron expression.
THEOREM TasksAreLostToInvalid == Spec => []TaskLostToInvalid
<1>1. IInv => TaskLostToInvalid
  BY DEF IInv
<1>2. QED
  BY Invariance, <1>1, PTL
=============================================================================
