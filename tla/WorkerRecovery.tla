-------------------------- MODULE WorkerRecovery ---------------------------
(***************************************************************************)
(* How a project that is opened again, and the user, bring a worker run    *)
(* back: what the event stream says of the run (replayDomainEvents), the   *)
(* reconciliation and the audit of the project file against it, the        *)
(* admission of the run to the runtime registry, and the recovery decision *)
(* (workerRunRehydration.ts, workerRunConsistency.ts, workerRunRuntime.ts, *)
(* workerSideEffects.ts, workerRecoveryCommand.ts).                        *)
(***************************************************************************)
EXTENDS WorkerQueue

\* The durable stream: the projection of its events, the eventIds it holds and,
\* of the events that the reconciliation looks for, the last retry fence of
\* each task and whether the run was ever queued again.
NoStream ==
    [run |-> "none", execution |-> [t \in Task |-> NoExecution],
     ids |-> {}, fence |-> [t \in Task |-> 0], requeued |-> FALSE]

RunStatusOf(type) ==
    CASE type \in {"RunCreated", "RunQueued"} -> "queued"
      [] type = "RunStarted" -> "running"
      [] type = "RunPartial" -> "partial"
      [] type = "RunBlocked" -> "blocked"
      [] type = "RunSucceeded" -> "succeeded"

\* replayDomainEvents accepts the event.
Replayable(stream, ev) ==
    IF ev.task = "run"
    THEN ev.e.type = "RunSucceeded" =>
           \A t \in Task : stream.execution[t].status = "succeeded"
    ELSE Accepts(stream.execution[ev.task], ev.e)

Replayed(stream, ev) ==
    LET known == [stream EXCEPT !.ids = @ \cup {IdentityOf(ev)}] IN
    IF ev.task = "run"
    THEN [known EXCEPT !.run = RunStatusOf(ev.e.type),
                       !.requeued = @ \/ ev.e.type = "RunQueued"]
    ELSE [known EXCEPT !.execution[ev.task] = After(@, ev.e),
                       !.fence[ev.task] = IF ev.e.next # 0 THEN ev.e.next ELSE @]

\* An event whose id is already there is not appended again; that its contents
\* are the same too is not looked at here (they are, but for the reason of a
\* blocked task with several dependencies).
Appended(acc, ev) ==
    IF IdentityOf(ev) \in acc.stream.ids THEN acc
    ELSE IF acc.ok /\ Replayable(acc.stream, ev)
         THEN [acc EXCEPT !.stream = Replayed(@, ev)]
    ELSE [acc EXCEPT !.ok = FALSE]

\* flushPendingProjectEvents: all of the events, or an error and none of them.
Flushed(stream, events) ==
    FoldLeft(Appended, [ok |-> TRUE, stream |-> stream], events)

\* recordProjectEvents: but for the events whose id is waiting already.
Buffered(pending, events) ==
    pending \o FlattenSeq([i \in DOMAIN events |->
                 IF \E k \in DOMAIN pending : IdentityOf(pending[k]) = IdentityOf(events[i])
                 THEN <<>> ELSE <<events[i]>>])

CreatedEvents ==
    <<QueueEvent("run", Strict("RunCreated", 0), 0, 1)>>
      \o [i \in DOMAIN Order |->
            QueueEvent(Order[i], Strict("TaskQueued", 0), 0, i + 1)]

-----------------------------------------------------------------------------

\* The retry fence of a task, applied to the snapshot of the project file: it
\* is looked at with no regard to what followed it in the stream.
FenceApplied(x, fence) ==
    IF fence = 0 \/ (x.status = "succeeded" /\ x.attempt >= fence) THEN x
    ELSE [status |-> "queued", attempt |-> IF fence > 1 THEN fence - 1 ELSE x.attempt,
          current |-> 0, pending |-> fence]

FenceRepaired(x) ==
    IF x.pending # 0 /\ x.status # "queued" THEN [x EXCEPT !.pending = 0] ELSE x

\* reconcileWorkerRunsFromEvents; a result that cannot be restored is dropped.
Reconciliation(run, stream) ==
    [status |-> IF stream.requeued /\ run.status # "succeeded" THEN "queued"
                ELSE run.status,
     tasks |-> [t \in Task |->
                  FenceRepaired(FenceApplied(run.tasks[t], stream.fence[t]))]]

ReconciledRun(run, stream) ==
    IF Restorable(Reconciliation(run, stream))
    THEN Snapshot(Restored(Reconciliation(run, stream)))
    ELSE run

\* auditWorkerRunConsistency of one task.
TaskConsistent(x, execution) ==
    /\ execution.status = x.status
    /\ x.attempt # 0 => execution.attempt[x.attempt] # "none"
    /\ x.current # 0 => execution.current = x.current

Consistent(run, stream) ==
    /\ Restorable(run)
    /\ stream.run = run.status
    /\ \A t \in Task : TaskConsistent(run.tasks[t], stream.execution[t])

\* rehydrateWorkerRunRegistry: why a run is not admitted, "none" if it is.
Refusal(run, consistent) ==
    CASE ~consistent -> "event-stream-drift"
      [] run.status = "running" \/ \E t \in Task : run.tasks[t].status = "running"
           -> "unfinished-worker-lease"
      [] run.status \in {"partial", "queued", "blocked"}
           /\ \E t \in Task : run.tasks[t].status = "failed" -> "failed-tasks"
      [] ~Restorable(run) -> "invalid-state"
      [] OTHER -> "none"

\* projectWorkerRecoveryActions: the refusals the user can decide about.
Actionable == {"unfinished-worker-lease", "failed-tasks"}

-----------------------------------------------------------------------------

\* buildWorkerRunRecoveryPlan: effects of the current attempt belong to a task
\* that is running or failed, so the tasks of the plan are these.
PlanTasks(run) == {t \in Task : run.tasks[t].status \in {"running", "failed"}}

\* A retry also takes the blocked tasks behind them.
WithBlocked(run, taken) ==
    taken \cup {t \in Task : /\ run.tasks[t].status = "blocked"
                             /\ DependsOn[t] \cap taken # {}}

RetryTasks(run) ==
    FoldLeft(LAMBDA taken, t : WithBlocked(run, taken), PlanTasks(run), Order)

RetriedTwice(run) ==
    [status |-> "queued",
     tasks |-> [t \in Task |->
        LET x == run.tasks[t] IN
        IF t \in RetryTasks(run)
        THEN [status |-> "queued", attempt |-> x.attempt + 1, current |-> 0,
              pending |-> x.attempt + 2]
        ELSE x]]

Retried(run) ==
    [status |-> "queued",
     tasks |-> [t \in Task |->
        LET x == run.tasks[t] IN
        IF t \in RetryTasks(run)
        THEN [status |-> "queued", attempt |-> x.attempt, current |-> 0,
              pending |-> x.attempt + 1]
        ELSE x]]

Skipped(run) ==
    LET failed == [status |-> "partial",
                   tasks |-> [t \in Task |->
                      IF t \in PlanTasks(run)
                      THEN [run.tasks[t] EXCEPT !.status = "failed"]
                      ELSE run.tasks[t]]]
    IN Snapshot(Reconciled(Restored(failed)))

\* applyWorkerRunRecoveryDecision does not throw.
Decidable(run, decision) ==
    /\ PlanTasks(run) # {}
    /\ \A t \in Task : run.tasks[t].status = "blocked" => run.tasks[t].pending = 0
    /\ decision = "retry" =>
         \A t \in RetryTasks(run) : run.tasks[t].attempt < MaxAttempt

Decided(run, decision) ==
    IF decision = "retry" THEN Retried(run) ELSE Skipped(run)

\* createEvents: the eventIds carry the decision, so they are unique.
TaskDecisionEvents(before, after, decision, id, t) ==
    LET x == before.tasks[t]
        y == after.tasks[t]
        Made(e) == QueueEvent(t, e, id, 0)
    IN IF x.status = y.status THEN <<>>
       ELSE (IF decision = "retry" /\ x.status = "running" /\ x.current # 0
             THEN <<Made(Strict("TaskAttemptMarkedUnknown", x.current))>>
             ELSE <<>>)
            \o <<CASE y.status = "queued" -> Made(Fence(y.pending))
                   [] y.status = "failed" -> Made(Strict("TaskFailed", y.attempt))
                   [] y.status = "blocked" -> Made(Strict("TaskBlocked", 0))>>

DecisionEvents(before, after, decision, id) ==
    (IF after.status = before.status THEN <<>>
     ELSE <<QueueEvent("run", Strict(IF after.status = "queued" THEN "RunQueued"
                                     ELSE "RunPartial", 0), id, 0)>>)
      \o FlattenSeq([i \in DOMAIN Order |->
           TaskDecisionEvents(before, after, decision, id, Order[i])])

=============================================================================
