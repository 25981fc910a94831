---------------------------- MODULE WorkerQueue ----------------------------
(***************************************************************************)
(* The queue of one worker run (domain/workerQueue.ts): what each method   *)
(* of WorkerTaskQueue does to the queue and which events it emits.  Every  *)
(* operator takes a queue and returns the queue after the synchronous part *)
(* of the method; WorkerRun interleaves them.                              *)
(***************************************************************************)
EXTENDS TaskReplay, FiniteSets, SequencesExt

CONSTANTS
    Order,      \* the tasks of the graph, in the order of the graph
    DependsOn   \* the tasks each task depends on

Task == ToSet(Order)

\* A graph has at least one task, each of them once; "run" stands for the run.
ASSUME OrderAssumption ==
    /\ Order \in Seq(Task) /\ IsInjective(Order) /\ Order # <<>>
    /\ "run" \notin Task

ASSUME DependsOnAssumption ==
    /\ DependsOn \in [Task -> SUBSET Task]
    /\ \E rank \in [Task -> 1 .. Cardinality(Task)] :
         \A t \in Task : \A d \in DependsOn[t] : rank[d] < rank[t]

RunStatus == {"queued", "running", "partial", "blocked", "succeeded"}

\* current is the number in currentAttemptId, pending is pendingAttempt, 0 for
\* none; worktree, evidence and context pack are left out.
QueueTask ==
    [status : TaskStatus, attempt : Attempts \cup {0},
     current : Attempts \cup {0}, pending : Attempts \cup {0}]

\* What a project file holds of a run.
RunState == [status : RunStatus, tasks : [Task -> QueueTask]]

\* An event of the queue: e is what the reducer reads of it, and the type, the
\* task, the attempt tag and the number make up its eventId.
QueueEvent(t, e, tag, n) == [task |-> t, e |-> e, tag |-> tag, n |-> n]

IdentityOf(ev) == <<ev.task, ev.e.type, ev.tag, ev.n>>

GreatestAttempt(q) == Max({q.tasks[t].attempt : t \in Task})

EmitTask(q, t, e) ==
    [q EXCEPT !.events = Append(@, QueueEvent(t, e, e.attempt, q.seq)),
              !.seq = @ + 1]

EmitRun(q, type) ==
    [q EXCEPT !.events =
                  Append(@, QueueEvent("run", Strict(type, 0), GreatestAttempt(q), q.seq)),
              !.seq = @ + 1,
              !.started = @ \/ type = "RunStarted"]

-----------------------------------------------------------------------------

NewTask == [status |-> "queued", attempt |-> 0, current |-> 0, pending |-> 0]

NewRun == [status |-> "queued", tasks |-> [t \in Task |-> NewTask]]

\* normalizeQueueTask accepts the task.
TaskRestorable(x) ==
    /\ x.status \in {"running", "waiting-feedback", "succeeded", "failed"} =>
         x.attempt # 0
    /\ x.pending # 0 =>
         x.pending = x.attempt + 1 /\ x.status = "queued" /\ x.current = 0
    /\ x.current \in {0, x.attempt}

Restorable(run) ==
    /\ \A t \in Task : TaskRestorable(run.tasks[t])
    /\ run.status = "succeeded" =>
         \A t \in Task : run.tasks[t].status = "succeeded"

NormalTask(x) ==
    IF x.current = 0 /\ x.status \in {"running", "waiting-feedback"}
    THEN [x EXCEPT !.current = x.attempt]
    ELSE x

\* restoreWorkerRunQueue: the numbering of events begins again.
Restored(run) ==
    [status |-> run.status,
     tasks |-> [t \in Task |-> NormalTask(run.tasks[t])],
     started |-> run.status # "queued",
     events |-> <<>>,
     seq |-> 1]

Snapshot(q) == [status |-> q.status, tasks |-> q.tasks]

-----------------------------------------------------------------------------

DeadEnd == {"failed", "blocked", "cancelled"}

DependenciesSucceeded(q, t) ==
    \A d \in DependsOn[t] : q.tasks[d].status = "succeeded"

\* A queued task behind a dead end is blocked; its retry fence stays.
BlockTask(q, t) ==
    IF /\ q.tasks[t].status = "queued"
       /\ \E d \in DependsOn[t] : q.tasks[d].status \in DeadEnd
    THEN EmitTask([q EXCEPT !.tasks[t].status = "blocked"], t, Strict("TaskBlocked", 0))
    ELSE q

\* reconcileBlocked: passes over the graph until nothing changes.
Reconciled(q) ==
    FoldLeft(BlockTask, q, FlattenSeq([i \in 1 .. Len(Order) |-> Order]))

\* recomputeRunStatus, the status.
StatusFor(q) ==
    LET has(status) == \E t \in Task : q.tasks[t].status = status IN
    CASE \A t \in Task : q.tasks[t].status = "succeeded" -> "succeeded"
      [] has("running") -> "running"
      [] has("failed") -> "partial"
      [] has("waiting-feedback") \/ has("blocked") -> "blocked"
      [] OTHER -> "queued"

RunEventFor(status) ==
    CASE status = "running" -> "RunStarted"
      [] status = "partial" -> "RunPartial"
      [] status = "blocked" -> "RunBlocked"
      [] status = "succeeded" -> "RunSucceeded"

\* recomputeRunStatus: no event says that a run is queued, and RunStarted is
\* emitted once per queue.
Recomputed(q) ==
    LET status == StatusFor(q)
        next == [q EXCEPT !.status = status] IN
    IF status = q.status THEN q
    ELSE IF status = "queued" \/ (status = "running" /\ q.started) THEN next
    ELSE EmitRun(next, RunEventFor(status))

-----------------------------------------------------------------------------

Ready(q, t) == q.tasks[t].status = "queued" /\ DependenciesSucceeded(q, t)

\* runnableTaskIds, after it reconciled: the ready tasks, in the order of the graph.
Runnable(q) ==
    FlattenSeq([i \in DOMAIN Order |-> IF Ready(q, Order[i]) THEN <<Order[i]>> ELSE <<>>])

NextAttempt(q, t) ==
    IF q.tasks[t].pending # 0 THEN q.tasks[t].pending ELSE q.tasks[t].attempt + 1

\* claimTask, once its worktree is there.
Claimed(q, t) ==
    LET a == NextAttempt(q, t)
        running == [q EXCEPT !.status = "running",
                      !.tasks[t] = [status |-> "running", attempt |-> a,
                                    current |-> a, pending |-> 0]]
        begun == IF q.started THEN running ELSE EmitRun(running, "RunStarted")
    IN EmitTask(begun, t, Strict("TaskStarted", a))

\* markSucceeded, markFailed.
Completed(q, t, status) ==
    LET type == IF status = "succeeded" THEN "TaskSucceeded" ELSE "TaskFailed"
        marked == [q EXCEPT !.tasks[t].status = status]
    IN Recomputed(Reconciled(EmitTask(marked, t, Strict(type, q.tasks[t].attempt))))

ClaimFailedForgotten(q, t) == q

\* claimTask, when no worktree could be allocated.
ClaimFailed(q, t) == Completed(Claimed(q, t), t, "failed")

\* markWaitingFeedback: the run is blocked before the status is computed, so a
\* run that ends up blocked has no event to say so.
Parked(q, t) ==
    LET marked == [q EXCEPT !.status = "blocked",
                            !.tasks[t].status = "waiting-feedback"]
    IN Recomputed(EmitTask(marked, t,
                           Strict("TaskFeedbackRequested", q.tasks[t].attempt)))

\* requireRunning: a completion of another attempt is refused.
Fenced(q, t, a) == q.tasks[t].status = "running" /\ q.tasks[t].current = a

=============================================================================
