---------------------------- MODULE ReportWorker ----------------------------
(***************************************************************************)
(* The worker's ScheduleReport: replacing the cron task of a schedule.     *)
(*                                                                         *)
(* A call cancels the task it finds in the map Schedulers under the mutex, *)
(* releases it, starts a new cron, and takes the mutex again to put the    *)
(* new task into the map.  Meanwhile the crons start job goroutines, which *)
(* look at the task's cancel channel before they run the report, but run   *)
(* it in a later step: a cancel that comes in between does not stop it.    *)
(*                                                                         *)
(* A call starts at most one task, so a task is named by its call.         *)
(***************************************************************************)
EXTENDS Naturals, FiniteSets

CONSTANTS
  Calls,      \* calls of ScheduleReport
  Schedules,  \* ids of report schedules
  None,       \* no call, no task
  MaxJobs     \* bound: jobs a task has at one time

ASSUME WorkerAssumption ==
  None \notin Calls /\ None \notin Schedules /\ MaxJobs \in Nat \ {0}

VARIABLES
  pc,         \* the step a call takes next
  schedule,   \* the schedule id it was called with
  valid,      \* does its cron expression parse?
  mutex,      \* SchedulerMutex: the call that holds it
  schedulers, \* Schedulers: the task of each schedule
  entry,      \* is the task's function an entry of its running cron?
  closed,     \* how often its cancel channel was closed
  started,    \* jobs its cron started that have not looked at cancel yet
  cleared,    \* jobs that found cancel open and have not called the report yet
  running,    \* jobs inside the report function
  before      \* history: the calls that had ended when this one began

callVars == <<pc, schedule, valid>>
jobVars  == <<started, cleared, running>>
vars == <<callVars, mutex, schedulers, entry, closed, jobVars, before>>

Ended == {"done", "failed"}

Init ==
  /\ pc = [c \in Calls |-> "idle"]
  /\ schedule = [c \in Calls |-> None]
  /\ valid = [c \in Calls |-> FALSE]
  /\ mutex = None
  /\ schedulers = [s \in Schedules |-> None]
  /\ entry   = [c \in Calls |-> FALSE]
  /\ closed  = [c \in Calls |-> 0]
  /\ started = [c \in Calls |-> 0]
  /\ cleared = [c \in Calls |-> 0]
  /\ running = [c \in Calls |-> 0]
  /\ before  = [c \in Calls |-> {}]

At(c, l) == pc[c] = l
Goto(c, l) == pc' = [pc EXCEPT ![c] = l]
Existing(c) == schedulers[schedule[c]]

-----------------------------------------------------------------------------
(* ScheduleReport *)

ScheduleReport(c, s, parses) ==
  /\ At(c, "idle")
  /\ schedule' = [schedule EXCEPT ![c] = s]
  /\ valid' = [valid EXCEPT ![c] = parses]
  /\ Goto(c, "lookup")
  /\ before' = [before EXCEPT ![c] = {d \in Calls : pc[d] \in Ended}]
  /\ UNCHANGED <<mutex, schedulers, entry, closed, jobVars>>

\* Mutation: the mutex is released only on the path that cancels.
FindTaskKeepsLock(c) ==
  /\ At(c, "lookup")
  /\ mutex = None
  /\ Goto(c, IF Existing(c) = None THEN "create" ELSE "remove")
  /\ mutex' = c
  /\ UNCHANGED <<schedule, valid, schedulers, entry, closed, jobVars, before>>

\* Mutation: the task found is not cancelled.
FindTaskNever(c) ==
  /\ At(c, "lookup")
  /\ mutex = None
  /\ Goto(c, "create")
  /\ UNCHANGED <<schedule, valid, mutex, schedulers, entry, closed, jobVars, before>>

\* Lock, and look for a task; without one unlock at once.
FindTask(c) ==
  /\ At(c, "lookup")
  /\ mutex = None
  /\ IF Existing(c) = None
     THEN Goto(c, "create") /\ UNCHANGED mutex
     ELSE Goto(c, "remove") /\ mutex' = c
  /\ UNCHANGED <<schedule, valid, schedulers, entry, closed, jobVars, before>>

\* Mutation: the entry is left to the cron.
RemoveEntryNever(c) ==
  /\ At(c, "remove")
  /\ Goto(c, "close")
  /\ UNCHANGED <<schedule, valid, mutex, schedulers, entry, closed, jobVars, before>>

\* The first half of Cancel: the cron takes its entry off.
RemoveEntry(c) ==
  /\ At(c, "remove")
  /\ entry' = [entry EXCEPT ![Existing(c)] = FALSE]
  /\ Goto(c, "close")
  /\ UNCHANGED <<schedule, valid, mutex, schedulers, closed, jobVars, before>>

\* Mutation: the cancelled task stays in the map.
CloseCancelOnly(c) ==
  /\ At(c, "close")
  /\ closed' = [closed EXCEPT ![Existing(c)] = @ + 1]
  /\ mutex' = None
  /\ Goto(c, "create")
  /\ UNCHANGED <<schedule, valid, schedulers, entry, jobVars, before>>

\* The second half of Cancel, then the delete from the map and the unlock.
CloseCancel(c) ==
  /\ At(c, "close")
  /\ closed' = [closed EXCEPT ![Existing(c)] = @ + 1]
  /\ schedulers' = [schedulers EXCEPT ![schedule[c]] = None]
  /\ mutex' = None
  /\ Goto(c, "create")
  /\ UNCHANGED <<schedule, valid, entry, jobVars, before>>

\* Mutation: the cron is not started.
NewScheduledTaskIdle(c) ==
  /\ At(c, "create")
  /\ Goto(c, IF valid[c] THEN "insert" ELSE "failed")
  /\ UNCHANGED <<schedule, valid, mutex, schedulers, entry, closed, jobVars, before>>

\* The new cron runs from here on, before its task is in the map.
NewScheduledTask(c) ==
  /\ At(c, "create")
  /\ entry' = [entry EXCEPT ![c] = valid[c]]
  /\ Goto(c, IF valid[c] THEN "insert" ELSE "failed")
  /\ UNCHANGED <<schedule, valid, mutex, schedulers, closed, jobVars, before>>

\* Mutation: a call that finds no task to replace adds none.
AddTaskAgain(c) ==
  /\ At(c, "insert")
  /\ mutex = None
  /\ schedulers' = [schedulers EXCEPT ![schedule[c]] = IF @ = None THEN @ ELSE c]
  /\ Goto(c, "done")
  /\ UNCHANGED <<schedule, valid, mutex, entry, closed, jobVars, before>>

\* The map entry is overwritten, whatever it holds by now.
AddTask(c) ==
  /\ At(c, "insert")
  /\ mutex = None
  /\ schedulers' = [schedulers EXCEPT ![schedule[c]] = c]
  /\ Goto(c, "done")
  /\ UNCHANGED <<schedule, valid, mutex, entry, closed, jobVars, before>>

-----------------------------------------------------------------------------
(* The cron of a task *)

Jobs(t) == started[t] + cleared[t] + running[t]

\* The entry is due: the cron starts a job goroutine.
Tick(t) ==
  /\ entry[t]
  /\ Jobs(t) < MaxJobs
  /\ started' = [started EXCEPT ![t] = @ + 1]
  /\ UNCHANGED <<callVars, mutex, schedulers, entry, closed, cleared, running, before>>

\* select { case <-cancel: return; default: }
CheckCancel(t) ==
  /\ started[t] > 0
  /\ started' = [started EXCEPT ![t] = @ - 1]
  /\ cleared' = [cleared EXCEPT ![t] = IF closed[t] > 0 THEN @ ELSE @ + 1]
  /\ UNCHANGED <<callVars, mutex, schedulers, entry, closed, running, before>>

\* taskFunc(), whatever became of cancel since it was looked at.
StartReport(t) ==
  /\ cleared[t] > 0
  /\ cleared' = [cleared EXCEPT ![t] = @ - 1]
  /\ running' = [running EXCEPT ![t] = @ + 1]
  /\ UNCHANGED <<callVars, mutex, schedulers, entry, closed, started, before>>

JobEnds(t) ==
  /\ running[t] > 0
  /\ running' = [running EXCEPT ![t] = @ - 1]
  /\ UNCHANGED <<callVars, mutex, schedulers, entry, closed, started, cleared, before>>

JobStep(t) == CheckCancel(t) \/ StartReport(t) \/ JobEnds(t)

CallStep(c) == \/ FindTask(c) \/ RemoveEntry(c) \/ CloseCancel(c)
               \/ NewScheduledTask(c) \/ AddTask(c)

Next == \E c \in Calls :
  \/ \E s \in Schedules, parses \in BOOLEAN : ScheduleReport(c, s, parses)
  \/ CallStep(c)
  \/ Tick(c) \/ JobStep(c)

Spec == Init /\ [][Next]_vars

\* Every goroutine that can go on is scheduled (a call waits for the mutex only
\* while another holds it, for two steps), time passes for every cron, and
\* reports end.
FairSpec ==
  /\ Spec
  /\ \A c \in Calls : /\ WF_vars(CallStep(c))
                      /\ WF_vars(Tick(c)) /\ WF_vars(CheckCancel(c))
                      /\ WF_vars(StartReport(c)) /\ WF_vars(JobEnds(c))

-----------------------------------------------------------------------------
TypeOK ==
  /\ pc \in [Calls -> {"idle", "lookup", "remove", "close", "create", "insert"} \cup Ended]
  /\ schedule \in [Calls -> Schedules \cup {None}]
  /\ valid \in [Calls -> BOOLEAN]
  /\ mutex \in Calls \cup {None}
  /\ schedulers \in [Schedules -> Calls \cup {None}]
  /\ entry   \in [Calls -> BOOLEAN]
  /\ closed  \in [Calls -> Nat]
  /\ started \in [Calls -> 0 .. MaxJobs]
  /\ cleared \in [Calls -> 0 .. MaxJobs]
  /\ running \in [Calls -> 0 .. MaxJobs]
  /\ before  \in [Calls -> SUBSET Calls]

\* No task is cancelled twice: closing its channel again would panic and take
\* the worker down.
CancelledOnce == \A t \in Calls : closed[t] <= 1

\* Once the mutex is free, the task in the map of a schedule is one whose cron
\* still has its entry, and whose jobs still run the report.
MapHoldsLiveTasks ==
  mutex = None => \A s \in Schedules :
    schedulers[s] # None => entry[schedulers[s]] /\ closed[schedulers[s]] = 0

\* Two calls for one schedule, neither of which had ended when the other began.
Overlap(c, d) ==
  /\ c # d /\ schedule[c] = schedule[d]
  /\ pc[c] # "idle" /\ pc[d] # "idle"
  /\ c \notin before[d] /\ d \notin before[c]

\* Two tasks firing for one schedule take two calls for it that overlapped.
TwoTasksNeedOverlap ==
  \A t, u \in Calls :
    (t # u /\ schedule[t] = schedule[u] /\ entry[t] /\ entry[u]) =>
      \E c, d \in Calls : schedule[c] = schedule[t] /\ Overlap(c, d)

\* A cancel may be late for a job: one that found the channel open still calls
\* the report of the replaced schedule.  But the entry was removed before, so
\* from the close on no job is added to those under way, nor to those past the
\* check.
CancelledTasksDrain ==
  [][\A t \in Calls : closed[t] > 0 =>
       /\ (Jobs(t))' <= Jobs(t)
       /\ cleared'[t] + running'[t] <= cleared[t] + running[t]]_vars

\* A cancelled task comes to rest: in the end it has no job, and none ever after.
CancelledTasksRest == \A t \in Calls : closed[t] > 0 ~> [](Jobs(t) = 0)

\* A schedule that was once given a task is without one only while a call is
\* about to replace it, or after a call whose cron expression did not parse:
\* the old task is cancelled before that is found out.
TaskLostToInvalid ==
  \A t \in Calls : (At(t, "done") /\ schedulers[schedule[t]] = None) =>
    \E c \in Calls :
      /\ schedule[c] = schedule[t] /\ c \notin before[t]
      /\ pc[c] \in {"create", "insert"} \/ (At(c, "failed") /\ ~valid[c])

\* Every call returns: none waits for the mutex for ever.
CallsReturn == \A c \in Calls : At(c, "lookup") ~> pc[c] \in Ended

\* A task put into the map runs its report, unless a later call replaces it.
ScheduledReportsRun ==
  \A t \in Calls : At(t, "done") ~> (running[t] > 0 \/ closed[t] > 0)

\* With no call under way, every task that fires is the one in the map: the
\* existing one was deleted before the new one was added.
ExistingTaskDeleted ==
  (\A c \in Calls : pc[c] \in Ended \cup {"idle"}) =>
    \A t \in Calls : entry[t] => schedulers[schedule[t]] = t

-----------------------------------------------------------------------------
(***************************************************************************)
(* The inductive invariant of the safety properties: what the step of a    *)
(* call implies about its task, the mutex and the map.                     *)
(***************************************************************************)
CallInv(c) ==
  /\ pc[c] # "idle" => schedule[c] \in Schedules
  /\ pc[c] \in {"remove", "close"} <=> mutex = c
  /\ mutex = c => Existing(c) # None
  /\ pc[c] = "close" => ~entry[Existing(c)]
  /\ pc[c] \notin {"insert", "done"} => ~entry[c]
  /\ pc[c] = "insert" => entry[c]
  /\ pc[c] # "done" => closed[c] = 0
  /\ closed[c] > 0 => schedulers[schedule[c]] # c /\ closed[c] = 1
  /\ closed[c] > 0 => ~entry[c]
  /\ pc[c] = "failed" => ~valid[c]
  /\ Jobs(c) <= MaxJobs
  /\ \A d \in before[c] : pc[d] \in Ended

MapInv ==
  \A s \in Schedules : schedulers[s] # None =>
    LET t == schedulers[s] IN
    /\ schedule[t] = s /\ pc[t] = "done" /\ closed[t] = 0
    /\ entry[t] \/ \E c \in Calls : pc[c] = "close" /\ schedule[c] = s

\* As long as no calls for a schedule overlap, its map entry is its only task
\* but for that of a call about to insert it.
SequentialInv ==
  \A s \in Schedules :
    \/ \E c, d \in Calls : schedule[c] = s /\ Overlap(c, d)
    \/ \A t \in Calls : schedule[t] = s =>
         /\ entry[t] => pc[t] = "insert" \/ schedulers[s] = t
         /\ pc[t] \in {"create", "insert"} => schedulers[s] = None

IInv == /\ TypeOK /\ MapInv /\ SequentialInv /\ TaskLostToInvalid
        /\ \A c \in Calls : CallInv(c)
=============================================================================
