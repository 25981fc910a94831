----------------------------- MODULE WorkerRun -----------------------------
(***************************************************************************)
(* One worker run over the sessions of its project: the drivers that work  *)
(* its queue (runWorkerQueue), the side-effect journal, the persistence of *)
(* each transition (project file, then event stream), the user who starts, *)
(* retries or skips, and projects that are closed, crash and open again.   *)
(*                                                                         *)
(* Closing a project aborts the operation of its session, and the driver   *)
(* of an aborted session goes on winding down beside the next session.     *)
(* Abstractions: opening a project reads, reconciles and audits in one     *)
(* step; the check of the signal that follows an await is made in the step *)
(* that ends the await; a flush of the event buffer is one step (the race  *)
(* inside it is in EventStore).                                            *)
(***************************************************************************)
EXTENDS WorkerRecovery

CONSTANTS
    Concurrency,    \* leases a driver works on at a time
    MaxSessions,    \* bound on how often the project is opened
    MaxDecisions,   \* bound on recovery decisions
    MaxFaults       \* bound on failing reads and writes

ASSUME BoundsAssumption ==
    Concurrency \in Nat \ {0} /\ MaxSessions \in Nat \ {0}
      /\ MaxDecisions \in Nat /\ MaxFaults \in Nat

VARIABLES
    file,       \* the run in the project file
    app,        \* the run in the store of the app, workerRuns
    stream,     \* the durable event stream
    pending,    \* the buffer of events that are not durable yet
    journal,    \* the side-effect journal: the record of each attempt
    executed,   \* how often each attempt was handed to the executor
    session,    \* how often the project has been opened
    open,       \* whether it is open now
    refusal,    \* why the run is not in the runtime registry, "none" if it is
    saver,      \* a save by the user that has written the file and not flushed
    sweep,      \* recoverInterruptedWorkerEffects is scheduled
    decisions,
    faults,
    driver      \* of each session: what works the run, and the queue it has

runVars == <<file, app, stream, pending, journal, executed, session, open,
          refusal, saver, sweep, decisions, faults, driver>>

Sessions == 1 .. MaxSessions

Effect == {"none", "started", "succeeded", "failed", "unknown"}

\* stage and attempt of the lease of a task: allocating a worktree, leased,
\* claimed in the journal, executed.
Lease == [stage : {"none", "allocating", "leased", "claimed", "executed"},
          attempt : Attempts \cup {0}]

NoLease == [stage |-> "none", attempt |-> 0]
NoLeases == [t \in Task |-> NoLease]

\* save is the step of a save that runs, next is what the driver does after it.
Driver(queue) ==
    [phase |-> "idle", queue |-> queue, lease |-> NoLeases, save |-> "none",
     next |-> "none", terminalized |-> FALSE, rejected |-> FALSE]

NoDriver == [Driver(Restored(NewRun)) EXCEPT !.phase = "ended"]

\* The signal of the operation of session s.
Aborted(s) == s # session \/ ~open

\* The promise of the driver settles, whether it resolves or rejects.
Rest(s, d) == IF Aborted(s) THEN NoDriver ELSE Driver(d.queue)

Set(s, d) == driver' = [driver EXCEPT ![s] = d]

Fault == faults < MaxFaults /\ faults' = faults + 1

RunInit ==
    /\ file = NewRun
    /\ app = NewRun
    /\ stream = Flushed(NoStream, CreatedEvents).stream
    /\ pending = <<>>
    /\ journal = [t \in Task |-> [a \in Attempts |-> "none"]]
    /\ executed = [t \in Task |-> [a \in Attempts |-> 0]]
    /\ session = 1
    /\ open = TRUE
    /\ refusal = "none"
    /\ saver = "none"
    /\ sweep = FALSE
    /\ decisions = 0
    /\ faults = 0
    /\ driver = [s \in Sessions |->
                   IF s = 1 THEN Driver(Restored(NewRun)) ELSE NoDriver]

durable == <<file, stream>>
host == <<session, open, refusal, sweep, decisions>>

-----------------------------------------------------------------------------
\* Persisting a transition: flushTransition and createWorkerRunTransitionPersistence.

\* RunPartial is not among the events a cancelled run may finalize with.
SafeFinalization ==
    {"RunCreated", "TaskQueued", "RunStarted", "TaskStarted", "TaskSucceeded",
     "TaskFailed", "TaskBlocked", "RunSucceeded", "RunBlocked"}

TerminalFinalization(events) ==
    LET types == {events[i].e.type : i \in DOMAIN events} IN
    /\ types \cap {"TaskSucceeded", "TaskFailed", "TaskBlocked"} # {}
    /\ types \subseteq SafeFinalization

Saving(d, next, step) ==
    [d EXCEPT !.phase = "save", !.save = step, !.next = next]

\* What the driver does when the save it waits for succeeded.  The events of a
\* transition stay in the queue until then: on an error they are put back.
Resumed(s, d) ==
    LET done == [d EXCEPT !.save = "none", !.next = "none", !.queue.events = <<>>] IN
    CASE d.next = "start" -> Saving(d, "admit", "file")
      [] d.next = "admit" -> [d EXCEPT !.save = "none", !.next = "none",
                                       !.phase = "admit"]
      [] d.next = "work"  -> [done EXCEPT !.phase = "work"]
      [] d.next = "settled" ->
           IF d.rejected \/ (Aborted(s) /\ d.terminalized) THEN Rest(s, done)
           ELSE [done EXCEPT !.phase = "loop", !.lease = NoLeases,
                             !.terminalized = FALSE]
      [] OTHER -> Rest(s, done)

\* A transition: the events to the buffer and the snapshot to the store, then
\* saveProject.
Transition(s, d, next) ==
    LET events == d.queue.events IN
    \/ /\ Aborted(s)
       /\ Set(s, NoDriver)
       /\ UNCHANGED <<app, pending>>
    \/ /\ ~Aborted(s) /\ events = <<>>
       /\ Set(s, Resumed(s, [d EXCEPT !.next = next]))
       /\ UNCHANGED <<app, pending>>
    \/ /\ ~Aborted(s) /\ events # <<>>
       /\ Set(s, Saving(d, next, "file"))
       /\ app' = Snapshot(d.queue)
       /\ pending' = Buffered(pending, events)

InSave(s, step) == driver[s].phase = "save" /\ driver[s].save = step

\* saveProject writes the file, one save of the project at a time.
SaveFile(s) ==
    /\ InSave(s, "file") /\ ~Aborted(s)
    /\ saver = "none"
    /\ file' = app
    /\ Set(s, [driver[s] EXCEPT !.save = "flush"])
    /\ UNCHANGED <<app, stream, pending, journal, executed, host, saver, faults>>

SaveFlush(s) ==
    LET flush == Flushed(stream, pending) IN
    /\ InSave(s, "flush") /\ ~Aborted(s)
    /\ IF flush.ok
       THEN /\ stream' = flush.stream
            /\ pending' = <<>>
            /\ Set(s, Resumed(s, driver[s]))
       ELSE /\ Set(s, Rest(s, driver[s]))
            /\ UNCHANGED <<stream, pending>>
    /\ UNCHANGED <<file, app, journal, executed, host, saver, faults>>

SaveFailsForgetting(s) ==
    /\ InSave(s, "file") \/ InSave(s, "flush")
    /\ IF Aborted(s) THEN UNCHANGED faults ELSE Fault
    /\ Set(s, Rest(s, driver[s]))
    /\ pending' = <<>>
    /\ UNCHANGED <<durable, app, journal, executed, host, saver>>

\* An error, or the guard of an aborted save.
SaveFails(s) ==
    /\ InSave(s, "file") \/ InSave(s, "flush")
    /\ IF Aborted(s) THEN UNCHANGED faults ELSE Fault
    /\ Set(s, Rest(s, driver[s]))
    /\ UNCHANGED <<durable, app, pending, journal, executed, host, saver>>

\* The file as it was when the driver started, with the run as it is now.
LateFile(s) ==
    /\ InSave(s, "late-file")
    /\ file' = Snapshot(driver[s].queue)
    /\ Set(s, NoDriver)
    /\ UNCHANGED <<app, stream, pending, journal, executed, host, saver, faults>>

LateSaveFails(s) ==
    /\ InSave(s, "late-file")
    /\ Fault
    /\ Set(s, NoDriver)
    /\ UNCHANGED <<durable, app, pending, journal, executed, host, saver>>

-----------------------------------------------------------------------------
\* Starting the run, and the loop of runWorkerQueue.

\* The user starts a queued run: save and admit.
StartRun ==
    LET d == driver[session] IN
    /\ open /\ refusal = "none" /\ d.phase = "idle" /\ app.status = "queued"
    /\ Set(session, Saving(d, "admit", "file"))
    /\ UNCHANGED <<durable, app, pending, journal, executed, host, saver, faults>>

\* assertWorkerRunConsistency, then the registry.
Admit(s) ==
    LET d == driver[s] IN
    /\ d.phase = "admit"
    /\ Set(s, IF ~Aborted(s) /\ Consistent(app, stream)
              THEN [d EXCEPT !.phase = "loop"]
              ELSE Rest(s, d))
    /\ UNCHANGED <<durable, app, pending, journal, executed, host, saver, faults>>

\* The runnable tasks are taken, as many as may run at a time.
Loop(s) ==
    LET q == Reconciled(driver[s].queue)
        d == [driver[s] EXCEPT !.queue = q]
        taken == SubSeq(Runnable(q), 1, Min({Concurrency, Len(Runnable(q))})) IN
    /\ d.phase = "loop"
    /\ \/ /\ Aborted(s)
          /\ Set(s, NoDriver)
          /\ UNCHANGED <<app, pending>>
       \/ /\ ~Aborted(s) /\ taken # <<>>
          /\ Set(s, [d EXCEPT !.phase = "claim",
                       !.lease = [t \in Task |->
                          IF t \in ToSet(taken)
                          THEN [NoLease EXCEPT !.stage = "allocating"] ELSE NoLease]])
          /\ UNCHANGED <<app, pending>>
       \/ /\ ~Aborted(s) /\ taken = <<>>
          /\ Transition(s, d, "return")
    /\ UNCHANGED <<durable, journal, executed, host, saver, faults>>

\* A worktree was allocated, or could not be; a is within the bound.
Claim(s, t) ==
    LET d == driver[s]
        a == NextAttempt(d.queue, t) IN
    /\ d.phase = "claim" /\ d.lease[t].stage = "allocating" /\ ~Aborted(s)
    /\ a \in Attempts
    /\ \/ Set(s, [d EXCEPT !.queue = Claimed(@, t),
                           !.lease[t] = [stage |-> "leased", attempt |-> a]])
       \/ Set(s, [d EXCEPT !.queue = ClaimFailed(@, t), !.lease[t] = NoLease])
    /\ UNCHANGED <<durable, app, pending, journal, executed, host, saver, faults>>

BatchedUnsaved(s) ==
    /\ driver[s].phase = "claim"
    /\ \A t \in Task : driver[s].lease[t].stage # "allocating"
    /\ Set(s, [driver[s] EXCEPT !.phase = "work"])
    /\ UNCHANGED <<durable, app, pending, journal, executed, host, saver, faults>>

\* The batch is claimed; one claim that sees the abort rejects them all.
Batched(s) ==
    LET d == driver[s] IN
    /\ d.phase = "claim"
    /\ \/ /\ \A t \in Task : d.lease[t].stage # "allocating"
          /\ Transition(s, d, "work")
       \/ /\ Aborted(s)
          /\ Set(s, NoDriver)
          /\ UNCHANGED <<app, pending>>
    /\ UNCHANGED <<durable, journal, executed, host, saver, faults>>

-----------------------------------------------------------------------------
\* The leases of a batch, each on its own.

Released(d, t) == [d EXCEPT !.lease[t] = NoLease]

Marked(d, t, status) ==
    [Released(d, t) EXCEPT !.queue = Completed(@, t, status),
                           !.terminalized = TRUE]

\* The catch of a lease, after its effect was marked.
Caught(s, d, t) ==
    IF Aborted(s) THEN [Released(d, t) EXCEPT !.rejected = TRUE]
    ELSE Marked(d, t, "failed")

Leased(s, t, stage) ==
    driver[s].phase = "work" /\ driver[s].lease[t].stage = stage

AttemptOn(s, t) == driver[s].lease[t].attempt

EffectOn(s, t) == journal[t][AttemptOn(s, t)]

WriteRecord(s, t, effect) == journal' = [journal EXCEPT ![t][AttemptOn(s, t)] = effect]

\* recordSideEffect: only a started effect is ever written again.
Advance(s, t, effect) ==
    IF EffectOn(s, t) = "started" THEN WriteRecord(s, t, effect)
    ELSE UNCHANGED journal

\* recorder.claim: the journal takes one claim for an attempt; who comes later
\* takes over a receipt, and leaves an open effect alone.
LeaseClaim(s, t) ==
    LET d == driver[s] IN
    /\ Leased(s, t, "leased")
    /\ \/ /\ EffectOn(s, t) = "none"
          /\ WriteRecord(s, t, "started")
          /\ Set(s, [d EXCEPT !.lease[t].stage = "claimed"])
       \/ /\ EffectOn(s, t) \in {"succeeded", "failed"}
          /\ Set(s, Marked(d, t, EffectOn(s, t)))
          /\ UNCHANGED journal
       \/ /\ EffectOn(s, t) \in {"started", "unknown"}
          /\ Set(s, Released(d, t))
          /\ UNCHANGED journal
    /\ UNCHANGED <<durable, app, pending, executed, host, saver, faults>>

\* The signal is looked at before the claim, or the claim fails: its record may
\* be there all the same.
LeaseNotClaimed(s, t) ==
    /\ Leased(s, t, "leased")
    /\ \/ Aborted(s) /\ UNCHANGED <<journal, faults>>
       \/ /\ Fault
          /\ \/ EffectOn(s, t) = "none" /\ WriteRecord(s, t, "started")
             \/ UNCHANGED journal
    /\ Set(s, Caught(s, driver[s], t))
    /\ UNCHANGED <<durable, app, pending, executed, host, saver>>

LeaseExecute(s, t) ==
    /\ Leased(s, t, "claimed") /\ ~Aborted(s)
    /\ executed' = [executed EXCEPT ![t][AttemptOn(s, t)] = @ + 1]
    /\ Set(s, [driver[s] EXCEPT !.lease[t].stage = "executed"])
    /\ UNCHANGED <<durable, app, pending, journal, host, saver, faults>>

LeaseCompleteUnchecked(s, t, outcome) ==
    /\ Leased(s, t, "executed")
    /\ Advance(s, t, outcome)
    /\ Set(s, Marked(driver[s], t, outcome))
    /\ UNCHANGED <<durable, app, pending, executed, host, saver, faults>>

\* A result that came before an abort is recorded after it.  If the effect was
\* marked unknown meanwhile, the lease is left as it is.
LeaseComplete(s, t, outcome) ==
    /\ Leased(s, t, "executed")
    /\ IF EffectOn(s, t) = "started"
       THEN /\ WriteRecord(s, t, outcome)
            /\ Set(s, Marked(driver[s], t, outcome))
       ELSE /\ Set(s, Released(driver[s], t))
            /\ UNCHANGED journal
    /\ UNCHANGED <<durable, app, pending, executed, host, saver, faults>>

\* The worker asks for feedback before a receipt.
LeaseWait(s, t) ==
    /\ Leased(s, t, "executed")
    /\ Advance(s, t, "unknown")
    /\ Set(s, [Released(driver[s], t) EXCEPT !.queue = Parked(@, t),
                                             !.terminalized = TRUE])
    /\ UNCHANGED <<durable, app, pending, executed, host, saver, faults>>

\* The executor or a verifier throws, or the abort is seen; that the effect is
\* marked unknown may fail too.
LeaseThrows(s, t) ==
    /\ Leased(s, t, "executed") \/ (Leased(s, t, "claimed") /\ Aborted(s))
    /\ Advance(s, t, "unknown") \/ UNCHANGED journal
    /\ Set(s, Caught(s, driver[s], t))
    /\ UNCHANGED <<durable, app, pending, executed, host, saver, faults>>

\* recorder.complete fails after the receipt was written.
LeaseCompleteFails(s, t, outcome) ==
    /\ Leased(s, t, "executed")
    /\ EffectOn(s, t) = "started"
    /\ Fault
    /\ WriteRecord(s, t, outcome)
    /\ Set(s, Caught(s, driver[s], t))
    /\ UNCHANGED <<durable, app, pending, executed, host, saver>>

\* After an abort a driver may still finalize tasks, if that is all it does: past
\* the store and the guards of saveProject.
Finalizes(s, d) ==
    Aborted(s) /\ d.terminalized /\ TerminalFinalization(d.queue.events)

AllSettled(s) == driver[s].phase = "work" /\ driver[s].lease = NoLeases

Settled(s) ==
    LET d == driver[s] IN
    /\ AllSettled(s)
    /\ ~Finalizes(s, d)
    /\ Transition(s, d, "settled")
    /\ UNCHANGED <<durable, journal, executed, host, saver, faults>>

LateFlushUnchecked(s) ==
    LET flush == Flushed(stream, Buffered(pending, driver[s].queue.events)) IN
    /\ AllSettled(s)
    /\ Finalizes(s, driver[s])
    /\ IF flush.ok THEN stream' = flush.stream ELSE UNCHANGED stream
    /\ pending' = <<>>
    /\ Set(s, Saving(driver[s], "settled", "late-file"))
    /\ UNCHANGED <<file, app, journal, executed, host, saver, faults>>

LateFlush(s) ==
    LET d == driver[s]
        buffer == Buffered(pending, d.queue.events)
        flush == Flushed(stream, buffer) IN
    /\ AllSettled(s)
    /\ Finalizes(s, d)
    /\ \/ /\ flush.ok
          /\ stream' = flush.stream
          /\ pending' = <<>>
          /\ Set(s, Saving(d, "settled", "late-file"))
          /\ UNCHANGED faults
       \/ /\ IF flush.ok THEN Fault ELSE UNCHANGED faults
          /\ pending' = buffer
          /\ Set(s, NoDriver)
          /\ UNCHANGED stream
    /\ UNCHANGED <<file, app, journal, executed, host, saver>>

-----------------------------------------------------------------------------
\* The user saves, and decides what becomes of a run that was interrupted.

UserSave ==
    /\ open /\ saver = "none"
    /\ ~InSave(session, "flush")
    /\ file # app \/ pending # <<>>
    /\ file' = app
    /\ saver' = "flush"
    /\ UNCHANGED <<app, stream, pending, journal, executed, host, faults, driver>>

UserFlush ==
    LET flush == Flushed(stream, pending) IN
    /\ saver = "flush"
    /\ saver' = "none"
    /\ IF flush.ok
       THEN stream' = flush.stream /\ pending' = <<>>
       ELSE UNCHANGED <<stream, pending>>
    /\ UNCHANGED <<file, app, journal, executed, host, faults, driver>>

SweptReceipts == [t \in Task |-> [a \in Attempts |->
                    IF journal[t][a] # "none" THEN "unknown" ELSE "none"]]

\* recoverInterruptedRun: what is started becomes unknown.
Swept == [t \in Task |-> [a \in Attempts |->
            IF journal[t][a] = "started" THEN "unknown" ELSE journal[t][a]]]

\* The sweep that opening the project scheduled, whenever it comes to run.
Sweep ==
    /\ sweep
    /\ sweep' = FALSE
    /\ journal' = Swept
    /\ UNCHANGED <<durable, app, pending, executed, session, open, refusal, saver,
                   decisions, faults, driver>>

\* recoverWorkerRun, up to the sweep of its own.
Recover ==
    /\ open /\ refusal \in Actionable /\ driver[session].phase = "idle"
    /\ decisions < MaxDecisions
    /\ journal' = Swept
    /\ Set(session, [driver[session] EXCEPT !.phase = "decide"])
    /\ UNCHANGED <<durable, app, pending, executed, host, saver, faults>>

\* The decision, the store and the registry in one go; then save, and start a
\* retry.
Decide(s, decision) ==
    LET d == driver[s]
        decided == Decided(app, decision)
        id == decisions + 1 IN
    /\ d.phase = "decide"
    /\ IF ~Aborted(s) /\ Decidable(app, decision)
       THEN /\ decisions' = id
            /\ pending' = Buffered(pending, DecisionEvents(app, decided, decision, id))
            /\ app' = decided
            /\ refusal' = Refusal(decided, TRUE)
            /\ Set(s, Saving(Driver(Restored(decided)),
                             IF decision = "retry" THEN "start" ELSE "stop", "file"))
       ELSE /\ Set(s, Rest(s, d))
            /\ UNCHANGED <<decisions, pending, app, refusal>>
    /\ UNCHANGED <<durable, journal, executed, session, open, saver, sweep, faults>>

-----------------------------------------------------------------------------
\* The project is closed, opened again, or the app dies.

Closed ==
    /\ open
    /\ open' = FALSE
    /\ pending' = <<>>
    /\ refusal' = "none"
    /\ saver' = "none"
    /\ sweep' = FALSE
    /\ UNCHANGED <<durable, app, journal, executed, session, decisions, faults>>

\* The driver of the session sees its signal and winds down.
Close ==
    /\ Closed
    /\ Set(session, IF driver[session].phase = "idle" THEN NoDriver
                    ELSE driver[session])

RunCrash == Closed /\ driver' = [s \in Sessions |-> NoDriver]

\* The app dies while a closed project winds down.
CrashClosed ==
    /\ ~open /\ \E s \in Sessions : driver[s] # NoDriver
    /\ pending' = <<>>
    /\ driver' = [s \in Sessions |-> NoDriver]
    /\ UNCHANGED <<durable, app, journal, executed, host, saver, faults>>

\* openProject, then auditLoadedWorkerRunFacts.  The sweep is scheduled by what
\* either of them refuses.
Open ==
    LET run == ReconciledRun(file, stream)
        reason == Refusal(run, Consistent(run, stream)) IN
    /\ ~open /\ session < MaxSessions
    /\ open' = TRUE
    /\ session' = session + 1
    /\ pending' = <<>>
    /\ app' = run
    /\ file' = run
    /\ refusal' = reason
    /\ sweep' = (Refusal(file, TRUE) # "none" \/ reason # "none")
    /\ Set(session + 1, Driver(Restored(IF reason = "none" THEN run ELSE NewRun)))
    /\ UNCHANGED <<stream, journal, executed, saver, decisions, faults>>

DriverStep(s) ==
    \/ SaveFile(s) \/ SaveFlush(s) \/ SaveFails(s)
    \/ LateFlush(s) \/ LateFile(s) \/ LateSaveFails(s)
    \/ Admit(s) \/ Loop(s) \/ Batched(s) \/ Settled(s)
    \/ \E t \in Task : \/ Claim(s, t)
                        \/ LeaseClaim(s, t) \/ LeaseNotClaimed(s, t)
                        \/ LeaseExecute(s, t) \/ LeaseWait(s, t) \/ LeaseThrows(s, t)
                        \/ \E outcome \in {"succeeded", "failed"} :
                             \/ LeaseComplete(s, t, outcome)
                             \/ LeaseCompleteFails(s, t, outcome)

DriverMoves(s) ==
    DriverStep(s) \/ \E decision \in {"retry", "skip"} : Decide(s, decision)

RunNext ==
    \/ \E s \in Sessions : DriverMoves(s)
    \/ StartRun \/ UserSave \/ UserFlush \/ Sweep \/ Recover
    \/ Close \/ RunCrash \/ CrashClosed \/ Open

RunSpec == RunInit /\ [][RunNext]_runVars

\* An executor returns or throws (the host bounds how long it may run), and the
\* saves of a project take their turns (projectSaveQueue.ts).
RunFairness ==
    /\ WF_runVars(UserFlush)
    /\ \A s \in Sessions :
         /\ WF_runVars(DriverMoves(s))
         /\ SF_runVars(SaveFile(s))

RunFairSpec == RunSpec /\ RunFairness

-----------------------------------------------------------------------------

RunTypeOK ==
    /\ {file, app} \subseteq RunState
    /\ stream.run \in RunStatus
    /\ stream.execution \in [Task -> Execution]
    /\ stream.fence \in [Task -> Attempts \cup {0}]
    /\ stream.requeued \in BOOLEAN
    /\ \A i \in DOMAIN pending : pending[i].task = "run" \/ pending[i].e \in TaskEvent
    /\ journal \in [Task -> [Attempts -> Effect]]
    /\ executed \in [Task -> [Attempts -> Nat]]
    /\ session \in Sessions
    /\ {open, sweep} \subseteq BOOLEAN
    /\ refusal \in Actionable \cup {"none", "event-stream-drift", "invalid-state"}
    /\ saver \in {"none", "flush"}
    /\ decisions \in 0 .. MaxDecisions
    /\ faults \in 0 .. MaxFaults
    /\ \A s \in Sessions :
         /\ driver[s].phase \in {"idle", "decide", "save", "admit", "loop", "claim",
                                 "work", "ended"}
         /\ driver[s].save \in {"none", "file", "flush", "late-file"}
         /\ driver[s].next \in {"none", "start", "stop", "admit", "work", "settled",
                                "return"}
         /\ Snapshot(driver[s].queue) \in RunState
         /\ driver[s].lease \in [Task -> Lease]
         /\ {driver[s].terminalized, driver[s].rejected} \subseteq BOOLEAN

\* The journal and the executions are what AttemptEffects promises, whatever
\* sessions overlap, crash or are recovered.
Effects == INSTANCE AttemptEffects WITH Tasks <- Task, Numbers <- Attempts

AttemptPromise == Effects!Spec

\* A worker is let at a task only when the file and the stream both say that its
\* attempt is running and every task it depends on has succeeded.
ExecutionStep ==
    \A t \in Task, a \in Attempts :
      executed'[t][a] # executed[t][a] =>
        /\ file.tasks[t].status = "running" /\ file.tasks[t].current = a
        /\ stream.execution[t].attempt[a] = "running"
        /\ \A d \in DependsOn[t] :
             /\ file.tasks[d].status = "succeeded"
             /\ stream.execution[d].status = "succeeded"

ExecutionRecorded == [][ExecutionStep]_runVars

\* Nothing says that an attempt succeeded before its receipt does: not the
\* stream, the file, the store or a queue.
SuccessBacked ==
    \A t \in Task :
      /\ \A a \in Attempts :
           stream.execution[t].attempt[a] = "succeeded" => journal[t][a] = "succeeded"
      /\ \A run \in {file, app} \cup {Snapshot(driver[s].queue) : s \in Sessions} :
           run.tasks[t].status = "succeeded" =>
             journal[t][run.tasks[t].attempt] = "succeeded"

\* The store and the buffer change together: in the first session, whatever fails,
\* the buffer can be flushed and the tasks of the store are what the stream then says.
StoreFollowsEvents ==
    open /\ session = 1 =>
      LET flush == Flushed(stream, pending) IN
      /\ flush.ok
      /\ \A t \in Task : TaskConsistent(app.tasks[t], flush.stream.execution[t])

\* The write past the guards that an aborted driver is left with puts into the
\* file what the stream says at that time, even if the project was opened again
\* and its run retried meanwhile: a late result covers no newer attempt.  Only of
\* a blocked task the stream may say something else: its event names no attempt
\* and restored queues number anew, so that a second one may have the first's id.
LateWriteAgrees ==
    \A s \in Sessions : InSave(s, "late-file") =>
      \A t \in Task : driver[s].queue.tasks[t].status # "blocked" =>
        TaskConsistent(driver[s].queue.tasks[t], stream.execution[t])

\* A driver comes to an end, of an aborted session or not.
DriverRests ==
    \A s \in Sessions :
      driver[s].phase # "idle" ~> driver[s].phase \in {"idle", "ended"}

-----------------------------------------------------------------------------
\* What the documents and tests say of the run, and the code does not do.

\* A project whose file and stream agree opens with the run waiting for a decision
\* about its unclosed lease.
UnclosedLeaseRecoverable ==
    [][/\ ~open /\ open'
       /\ Consistent(file, stream)
       /\ \E t \in Task : file.tasks[t].status = "running"
       => refusal' = "unfinished-worker-lease"]_runVars

=============================================================================
