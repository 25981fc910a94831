--------------------------- MODULE TaskLifecycle ---------------------------
(***************************************************************************)
(* Every event stream that replayDomainEvents (domain/contracts.ts)        *)
(* accepts, event by event: whoever writes it, in whatever order.  The     *)
(* invariants are what the reducer alone guarantees about executions and   *)
(* attempts; what the writers add to it is in WorkerRun.                   *)
(***************************************************************************)
EXTENDS TaskReplay

CONSTANTS Run, TaskId

VARIABLES
    executions,  \* taskExecutions and attempts, per run and task
    tasks,       \* the compatibility projection of a task: its last run
    runs         \* runs: the status of each run

lifecycleVars == <<executions, tasks, runs>>

\* Every run event but RunSucceeded sets its status unconditionally; the six
\* statuses they set read as "open".
ReplayedStatus == {"open", "succeeded"}

NoTask == [run |-> "none", status |-> "none"]

LifecycleTypeOK ==
    /\ executions \in [Run -> [TaskId -> Execution]]
    /\ tasks \in [TaskId -> [run : Run \cup {"none"},
                           status : TaskStatus \cup {"none"}]]
    /\ runs \in [Run -> ReplayedStatus \cup {"none"}]

LifecycleInit ==
    /\ executions = [r \in Run |-> [t \in TaskId |-> NoExecution]]
    /\ tasks = [t \in TaskId |-> NoTask]
    /\ runs = [r \in Run |-> "none"]

\* applyLegacyTaskProjection: the task projection refuses a TaskCleaned that
\* is not of the run that wrote the task last.
TaskAccepts(r, t, e) ==
    e.type = "TaskCleaned" =>
        tasks[t].run = r /\ tasks[t].status = "succeeded"

ReplayTaskEvent(r, t, e) ==
    /\ TaskAccepts(r, t, e)
    /\ Accepts(executions[r][t], e)
    /\ executions' = [executions EXCEPT ![r][t] = After(@, e)]
    /\ tasks' = [tasks EXCEPT ![t] = [run |-> r, status |-> StatusOf(e.type)]]
    /\ UNCHANGED runs

\* (an import at any time)
MigratingAlways(x) == TRUE

\* The migration writes the attempts of an old project file before any other
\* event of the execution.
Migrating(x) ==
    /\ x.current = 0
    /\ x.pending = 0
    /\ x.status \in {"none", "queued"}
    /\ \A a \in Attempts : x.attempt[a] \in {"none", "unknown"}

ReplayImport(r, t) ==
    /\ Migrating(executions[r][t])
    /\ ImportAccepted(executions[r][t])
    /\ executions' = [executions EXCEPT ![r][t] = Imported(@)]
    /\ UNCHANGED <<tasks, runs>>

ReplayRunEvent(r) ==
    /\ runs' = [runs EXCEPT ![r] = "open"]
    /\ UNCHANGED <<executions, tasks>>

\* The executions the projection knows of a run.
ExecutionsOf(r) == {t \in TaskId : executions[r][t].status # "none"}

\* Mutant: the compatibility records of the tasks are looked at.
AllTasksSucceeded(r) ==
    /\ ExecutionsOf(r) # {}
    /\ \A t \in ExecutionsOf(r) : tasks[t].status = "succeeded"

\* workerRunSuccessIsValid.
AllSucceeded(r) ==
    /\ ExecutionsOf(r) # {}
    /\ \A t \in ExecutionsOf(r) : executions[r][t].status = "succeeded"

ReplayRunSucceeded(r) ==
    /\ AllSucceeded(r)
    /\ runs' = [runs EXCEPT ![r] = "succeeded"]
    /\ UNCHANGED <<executions, tasks>>

LifecycleNext ==
    \E r \in Run :
        \/ \E t \in TaskId :
             \/ \E e \in TaskEvent : ReplayTaskEvent(r, t, e)
             \/ ReplayImport(r, t)
        \/ ReplayRunEvent(r)
        \/ ReplayRunSucceeded(r)

LifecycleSpec == LifecycleInit /\ [][LifecycleNext]_lifecycleVars

-----------------------------------------------------------------------------

\* Attempts are numbered without a gap, and only the newest of an execution can
\* still be open: an older one succeeded, failed, was cancelled or is unknown,
\* so two attempts never run at once however events are mixed.
OnlyNewestOpen ==
    \A r \in Run, t \in TaskId : NewestOpen(executions[r][t])

\* The fencing token and the retry fence: completions are matched against the
\* newest attempt or against nothing, and a fence stands for the next attempt
\* (one that a parked attempt has just consumed may still be there).
FencesAreNewest ==
    \A r \in Run, t \in TaskId : FenceNewest(executions[r][t])

\* An execution reads as succeeded only while its newest attempt did succeed and
\* no retry is queued behind it; cleanup and delivery trust this status.
SuccessIsOfNewest ==
    \A r \in Run, t \in TaskId : SuccessNewest(executions[r][t])

\* The newest attempt decides: it alone can be open, and a success is its own.
NewestDecides == OnlyNewestOpen /\ SuccessIsOfNewest

\* The compatibility projection of a task shows the status of the execution of
\* the run it names.
TaskShowsItsRun ==
    \A t \in TaskId : tasks[t].run # "none" =>
        tasks[t].status = executions[tasks[t].run][t].status

\* What an attempt ended as is never rewritten, neither by a late completion
\* nor by a retry, a cleanup or an event of the old shape.
EndedIsFinal ==
    [][\A r \in Run, t \in TaskId, a \in Attempts :
         executions[r][t].attempt[a] \in Ended =>
             executions'[r][t].attempt[a] = executions[r][t].attempt[a]]_lifecycleVars

\* A run turns succeeded only when the newest attempt of each of its executions
\* succeeded.
RunSuccessBacked ==
    [][\A r \in Run : runs[r] # "succeeded" /\ runs'[r] = "succeeded" =>
         \A t \in ExecutionsOf(r) : LET x == executions[r][t] IN
             x.last # 0 /\ x.attempt[x.last] = "succeeded"]_lifecycleVars

=============================================================================
