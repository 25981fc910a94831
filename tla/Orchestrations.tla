--------------------------- MODULE Orchestrations ---------------------------
(***************************************************************************)
(* Orchestrations: a goal drafted as a line of stages, each bound to a     *)
(* workflow, confirmed by the user and then executed by ONE of two paths:  *)
(* the older runner (orchestrator/run.ts), which runs the stages' workflows *)
(* one after the other, or a worker run, whose queue owns the execution    *)
(* and is only projected onto the record                                   *)
(* (projectControl/workerRunOrchestrationProjection.ts).  The panel's      *)
(* buttons, the runner's awaits, a reopening of the project and its audit  *)
(* interleave.                                                             *)
(*                                                                         *)
(* A record is never reused once removed, and a workflow that was removed  *)
(* does not come back: both are identities, not slots.                     *)
(***************************************************************************)
EXTENDS Naturals, FiniteSets

CONSTANTS
  Orch,          \* identities of orchestration records
  OrchFlow,      \* identities of workflows
  Stages,        \* how many stages a draft has
  NoFlowId,      \* "no workflow"
  MaxOrchFaults  \* bound: audits that find the facts wrong

ASSUME OrchAssumption ==
  /\ Stages \in Nat \ {0} /\ NoFlowId \notin OrchFlow /\ MaxOrchFaults \in Nat

VARIABLES
  orchs,      \* Orch -> record, or NoRecord / Removed
  flowIs,     \* OrchFlow -> "absent" | "empty" | "filled" | "removed"
  runner,     \* Orch -> the stage whose workflow runOrchestration awaits, or 0
  worker,     \* Orch -> state of the worker run that names the record, or "none"
  returned,   \* Orch -> Stage -> what its workflow last returned to the runner
  panelBusy, cancelling,  \* the panel's two flags
  orchFaults

orchVars == <<orchs, flowIs, runner, worker, returned, panelBusy, cancelling, orchFaults>>

Stage == 1 .. Stages
NoRecord == [status |-> "absent"]
Removed == [status |-> "removed"]

OrchStatus == {"awaiting-confirm", "ready", "running", "done", "failed", "cancelled"}
LogStatus == {"pending", "running", "success", "failed", "cancelled", "skipped"}
WorkerStatus == {"none", "queued", "running", "succeeded", "failed", "cancelled"}

\* existing: wfRef of a stage ("new" is NoFlowId); bound: stageWfIds.
OrchRecord ==
  [status : OrchStatus,
   readonly : BOOLEAN,
   existing : [Stage -> OrchFlow \cup {NoFlowId}],
   bound : [Stage -> OrchFlow \cup {NoFlowId}],
   log : [Stage -> LogStatus],
   ran : BOOLEAN]   \* runIds is not empty

Live(o) == orchs[o] \notin {NoRecord, Removed}
Is(o, statuses) == Live(o) /\ orchs[o].status \in statuses

(***************************************************************************)
(* The table of transitions updateOrchestration and the commands obey.     *)
(***************************************************************************)
ALLOWED_TRANSITIONS ==
  [s \in OrchStatus |->
     CASE s = "awaiting-confirm" -> {"ready", "cancelled"}
       [] s = "ready" -> {"running", "cancelled"}
       [] s = "running" -> {"done", "failed", "cancelled"}
       [] s = "failed" -> {"running", "cancelled"}
       [] OTHER -> {}]

canTransition(from, to) == to \in ALLOWED_TRANSITIONS[from]

OrchInit ==
  /\ orchs = [o \in Orch |-> NoRecord]
  /\ flowIs \in [OrchFlow -> {"absent", "filled"}]
  /\ runner = [o \in Orch |-> 0]
  /\ worker = [o \in Orch |-> "none"]
  /\ returned = [o \in Orch |-> [s \in Stage |-> "nothing"]]
  /\ panelBusy = FALSE /\ cancelling = FALSE
  /\ orchFaults = 0

----------------------------------------------------------------------------
(* Drafts.                                                                 *)

\* createOrchestration: every stage pending and without a workflow.
Draft(readonly, existing) ==
  [status |-> "awaiting-confirm", readonly |-> readonly, existing |-> existing,
   bound |-> [s \in Stage |-> NoFlowId],
   log |-> [s \in Stage |-> "pending"], ran |-> FALSE]

\* onGenerate of the panel: generateDraft makes every stage a new workflow.
Generate(o, readonly) ==
  /\ orchs[o] = NoRecord
  /\ orchs' = [orchs EXCEPT ![o] = Draft(readonly, [s \in Stage |-> NoFlowId])]
  /\ UNCHANGED <<flowIs, runner, worker, returned, panelBusy, cancelling, orchFaults>>

\* bindStageWorkflow: a new binding forgets the workflow that was fixed.
Bind(o, s, f) ==
  /\ Is(o, {"awaiting-confirm", "ready"})
  /\ f # NoFlowId => flowIs[f] \in {"empty", "filled"}
  /\ f # orchs[o].existing[s] \/ orchs[o].bound[s] # NoFlowId
  /\ orchs' = [orchs EXCEPT ![o].existing[s] = f, ![o].bound[s] = NoFlowId]
  /\ UNCHANGED <<flowIs, runner, worker, returned, panelBusy, cancelling, orchFaults>>

\* prepareStageWorkflows: ensureStageWorkflow of every stage; a stage that
\* names no workflow gets an empty one, an existing one is only verified.
Prepare(o) ==
  LET needs == {s \in Stage : orchs[o].bound[s] = NoFlowId /\ orchs[o].existing[s] = NoFlowId}
      free == {f \in OrchFlow : flowIs[f] = "absent"}
  IN /\ ~panelBusy
     /\ Is(o, {"awaiting-confirm", "ready"})
     /\ needs # {}
     /\ \E fix \in [needs -> free] :
          /\ \A s, q \in needs : s # q => fix[s] # fix[q]
          /\ orchs' = [orchs EXCEPT ![o].bound =
                         [s \in Stage |-> IF s \in needs THEN fix[s] ELSE @[s]]]
          /\ flowIs' = [f \in OrchFlow |->
                          IF \E s \in needs : fix[s] = f THEN "empty" ELSE flowIs[f]]
     /\ UNCHANGED <<runner, worker, returned, panelBusy, cancelling, orchFaults>>

\* The user draws in a stage's workflow, empties it, or removes it.
EditFlow(f) ==
  /\ \/ flowIs[f] = "empty" /\ flowIs' = [flowIs EXCEPT ![f] = "filled"]
     \/ flowIs[f] = "filled" /\ flowIs' = [flowIs EXCEPT ![f] = "empty"]
     \/ flowIs[f] \in {"empty", "filled"} /\ flowIs' = [flowIs EXCEPT ![f] = "removed"]
  /\ UNCHANGED <<orchs, runner, worker, returned, panelBusy, cancelling, orchFaults>>

\* confirmDraft, by the panel's button.
ConfirmDraft(o) ==
  /\ ~panelBusy
  /\ Is(o, {"awaiting-confirm"}) /\ canTransition(orchs[o].status, "ready")
  /\ orchs' = [orchs EXCEPT ![o].status = "ready"]
  /\ UNCHANGED <<flowIs, runner, worker, returned, panelBusy, cancelling, orchFaults>>

\* onRemove / removeOrchestration; a worker run that names it stays.
RemoveRecord(o) ==
  /\ ~panelBusy
  /\ Live(o) /\ ~Is(o, {"running"})
  /\ orchs' = [orchs EXCEPT ![o] = Removed]
  /\ UNCHANGED <<flowIs, runner, worker, returned, panelBusy, cancelling, orchFaults>>

----------------------------------------------------------------------------
(* The runner.                                                             *)

\* ensureStageWorkflow: the fixed workflow, else the one the stage names.
StageFlow(rec, s) == IF rec.bound[s] # NoFlowId THEN rec.bound[s] ELSE rec.existing[s]

HasNodes(rec, s) ==
  LET f == StageFlow(rec, s) IN f # NoFlowId /\ flowIs[f] = "filled"

\* stagesReadyToRun
StagesReady(rec) == \A s \in Stage : HasNodes(rec, s)

\* Mutant: only a worker run that is still under way owns the record.
canStartLegacyWhenIdle(o) == worker[o] \notin {"running"}

\* canStartLegacyOrchestration: a worker run that names the record owns it.
canStartLegacy(o) == worker[o] = "none"

\* One turn of the loop up to the await: a stage without nodes fails the whole.
Enter(rec, s) ==
  IF HasNodes(rec, s)
  THEN [rec EXCEPT !.status = "running", !.log[s] = "running"]
  ELSE [rec EXCEPT !.status = "failed", !.log[s] = "failed"]

\* What the runner awaits after the record became rec at stage s.
Awaited(rec, s) == IF rec.status = "running" THEN s ELSE 0

\* onRun + runOrchestration up to its first await; a retry starts at stage 1.
Run(o) ==
  /\ ~panelBusy
  /\ canStartLegacy(o)
  /\ Is(o, {"ready", "failed"})
  /\ ~orchs[o].readonly
  /\ StagesReady(orchs[o])
  /\ LET next == Enter(orchs[o], 1)
     IN /\ orchs' = [orchs EXCEPT ![o] = next]
        /\ runner' = [runner EXCEPT ![o] = Awaited(next, 1)]
  /\ returned' = [returned EXCEPT ![o] = [s \in Stage |-> "nothing"]]
  /\ panelBusy' = TRUE
  /\ UNCHANGED <<flowIs, worker, cancelling, orchFaults>>

\* Mutant: the record is not looked at again after the await.
OvertakenUnread(o) == ~Live(o)

\* The record is gone or was cancelled while the workflow ran.
Overtaken(o) == ~Live(o) \/ orchs[o].status = "cancelled"

Succeeded(result) == result = "success"

\* The record after stage s returned: failed, the next stage entered, or done.
AfterStage(rec, s, result) ==
  IF ~Succeeded(result) THEN [rec EXCEPT !.status = "failed", !.log[s] = "failed"]
  ELSE LET passed == [rec EXCEPT !.log[s] = "success", !.ran = TRUE]
       IN IF rec.status = "cancelled" THEN passed
          ELSE IF s = Stages THEN [passed EXCEPT !.status = "done"]
          ELSE Enter(passed, s + 1)

\* runWorkflow returned; the finally of onRun resets both flags.
StageReturns(o, result) ==
  LET s == runner[o] IN
  /\ s # 0
  /\ returned' = [returned EXCEPT ![o][s] = result]
  /\ IF Overtaken(o)
     THEN runner' = [runner EXCEPT ![o] = 0] /\ UNCHANGED orchs
     ELSE LET next == AfterStage(orchs[o], s, result)
          IN /\ orchs' = [orchs EXCEPT ![o] = next]
             /\ runner' = [runner EXCEPT ![o] =
                             IF s < Stages THEN Awaited(next, s + 1) ELSE 0]
  /\ IF runner'[o] = 0 THEN panelBusy' = FALSE /\ cancelling' = FALSE
     ELSE UNCHANGED <<panelBusy, cancelling>>
  /\ UNCHANGED <<flowIs, worker, orchFaults>>

\* runWorkflow threw: the stage's log is overwritten even when the record was
\* cancelled (the status itself is kept by the transition table).
StageThrows(o) ==
  LET s == runner[o] IN
  /\ s # 0
  /\ runner' = [runner EXCEPT ![o] = 0]
  /\ returned' = [returned EXCEPT ![o][s] = "error"]
  /\ orchs' = IF ~Live(o) THEN orchs
              ELSE [orchs EXCEPT ![o].log[s] = "failed",
                                 ![o].status = IF canTransition(@, "failed") THEN "failed" ELSE @]
  /\ panelBusy' = FALSE /\ cancelling' = FALSE
  /\ UNCHANGED <<flowIs, worker, orchFaults>>

\* onCancel / cancelOrchestrationRun: the workflow is told to stop, which the
\* runner learns from what it returns; `cancelling` is only reset by a runner.
Cancel(o) ==
  /\ ~cancelling
  /\ Is(o, {"running"})
  /\ orchs' = [orchs EXCEPT ![o].status = "cancelled",
                            ![o].log = [s \in Stage |->
                               CASE @[s] = "running" -> "cancelled"
                                 [] @[s] = "pending" -> "skipped"
                                 [] OTHER -> @[s]]]
  /\ cancelling' = TRUE
  /\ UNCHANGED <<flowIs, runner, worker, returned, panelBusy, orchFaults>>

\* The panel is closed and opened: its flags are component state.
Remount ==
  /\ panelBusy \/ cancelling
  /\ panelBusy' = FALSE /\ cancelling' = FALSE
  /\ UNCHANGED <<orchs, flowIs, runner, worker, returned, orchFaults>>

----------------------------------------------------------------------------
(* A worker run that names the record, and its projection.                 *)

\* orchestrationStatusFor; a run that succeeded without provenance never
\* leaves its queue (WorkerRun), so success projects to done.
StatusOfRun(run, current) ==
  CASE run = "queued" -> IF current = "awaiting-confirm" THEN current ELSE "ready"
    [] run = "succeeded" -> "done"
    [] run = "none" -> current
    [] OTHER -> run

\* stageLogFor, one stage log standing for its tasks.
LogOfRun(run, log) ==
  CASE run = "none" -> log
    [] run = "queued" -> "pending"
    [] run = "succeeded" -> "success"
    [] OTHER -> run

projectRun(rec, run) ==
  [rec EXCEPT !.status = StatusOfRun(run, @),
              !.log = [s \in Stage |-> LogOfRun(run, @[s])],
              !.ran = @ \/ run # "none"]

\* projectWorkerRunsOntoOrchestrations
Projected(runs) ==
  [o \in Orch |-> IF Live(o) THEN projectRun(orchs[o], runs[o]) ELSE orchs[o]]

\* ProjectSessionPanel.handleConfirmExecutionPlan: enqueue, confirm, project.
ConfirmWorkerRun(o) ==
  /\ Is(o, {"awaiting-confirm"})
  /\ worker' = [worker EXCEPT ![o] = "queued"]
  /\ orchs' = [p \in Orch |->
                 IF ~Live(p) THEN orchs[p]
                 ELSE projectRun(IF p = o THEN [orchs[p] EXCEPT !.status = "ready"] ELSE orchs[p],
                                 worker'[p])]
  /\ UNCHANGED <<flowIs, runner, returned, panelBusy, cancelling, orchFaults>>

\* The queue moves (a recovery takes a failed run up again); every transition
\* is followed by the projection of all runs.
WorkerMoves(o, to) ==
  /\ \/ worker[o] = "queued" /\ to = "running"
     \/ worker[o] = "running" /\ to \in {"succeeded", "failed", "cancelled"}
     \/ worker[o] = "failed" /\ to = "running"
  /\ worker' = [worker EXCEPT ![o] = to]
  /\ orchs' = Projected(worker')
  /\ UNCHANGED <<flowIs, runner, returned, panelBusy, cancelling, orchFaults>>

\* suppressInvalidWorkerRunProjection: of every record of the project.
Suppressed ==
  [o \in Orch |->
     IF ~Live(o) THEN orchs[o]
     ELSE [orchs[o] EXCEPT !.status = IF @ = "done" THEN "failed" ELSE @,
                           !.log = [s \in Stage |-> IF @[s] = "success" THEN "pending" ELSE @[s]]]]

\* auditLoadedWorkerRunFacts when the project is opened again, which closes
\* the panel; a registry without runs and a record that ever ran is suspect.
ReopenAndAudit(factsHold) ==
  LET runs == \E o \in Orch : worker[o] # "none"
      everRan == \E o \in Orch : Live(o) /\ orchs[o].ran
  IN /\ \E o \in Orch : Live(o)
     /\ factsHold \/ orchFaults < MaxOrchFaults
     /\ orchFaults' = IF factsHold THEN orchFaults ELSE orchFaults + 1
     /\ orchs' = CASE factsHold /\ runs -> Projected(worker)
                   [] ~factsHold \/ everRan -> Suppressed
                   [] OTHER -> orchs
     /\ panelBusy' = FALSE /\ cancelling' = FALSE
     /\ UNCHANGED <<flowIs, runner, worker, returned>>

OrchUserNext ==
  \/ \E o \in Orch : \/ \E b \in BOOLEAN : Generate(o, b)
                     \/ \E s \in Stage, f \in OrchFlow \cup {NoFlowId} : Bind(o, s, f)
                     \/ Prepare(o) \/ ConfirmDraft(o) \/ RemoveRecord(o) \/ Run(o) \/ Cancel(o)
  \/ \E f \in OrchFlow : EditFlow(f)
  \/ Remount
  \/ \E b \in BOOLEAN : ReopenAndAudit(b)

OrchSystemNext ==
  \E o \in Orch : \/ \E r \in {"success", "error", "aborted"} : StageReturns(o, r)
                  \/ StageThrows(o)
                  \/ \E to \in WorkerStatus : WorkerMoves(o, to)

OrchNext == OrchUserNext \/ OrchSystemNext \/ \E o \in Orch : ConfirmWorkerRun(o)

OrchSpec == OrchInit /\ [][OrchNext]_orchVars

----------------------------------------------------------------------------
(* Properties.                                                             *)

OrchTypeOK ==
  /\ orchs \in [Orch -> OrchRecord \cup {NoRecord, Removed}]
  /\ flowIs \in [OrchFlow -> {"absent", "empty", "filled", "removed"}]
  /\ runner \in [Orch -> Stage \cup {0}]
  /\ worker \in [Orch -> WorkerStatus]
  /\ returned \in [Orch -> [Stage -> {"nothing", "success", "error", "aborted"}]]
  /\ panelBusy \in BOOLEAN /\ cancelling \in BOOLEAN
  /\ orchFaults \in 0 .. MaxOrchFaults

\* The same work is never executed twice at the same time or in turn: a record
\* a worker run was queued for is not also run by the older runner, whatever
\* the audit and the projection did to its status (executionBoundary.ts).
OneExecutor == \A o \in Orch : worker[o] # "none" => runner[o] = 0

\* A record that the older runner reports as done had every one of its stages'
\* workflows return success in that very run (run.ts, "no false success").
DoneBacked ==
  \A o \in Orch : Is(o, {"done"}) /\ worker[o] = "none"
                    => \A s \in Stage : returned[o][s] = "success"

\* Cancelling stands: while the workflow that was told to stop still runs, and
\* after it returned, the record stays cancelled and no stage becomes a success.
CancelStands ==
  [][\A o \in Orch :
       Is(o, {"cancelled"}) /\ worker[o] = "none" =>
         \/ orchs'[o] = Removed
         \/ /\ orchs'[o].status = "cancelled"
            /\ \A s \in Stage : orchs'[o].log[s] = "success" => orchs[o].log[s] = "success"]_orchVars

\* The comment of the transition table (confirm.ts:20-30): done is final, every
\* other jump is refused.  Violated: the audit of a reopened project counts the
\* runIds of the older runner as a worker projection, finds no worker run in the
\* registry and turns every done record into a failed one.
DoneStands ==
  [][\A o \in Orch :
       Is(o, {"done"}) /\ worker[o] = "none" => orchs'[o] = Removed \/ orchs'[o].status = "done"]_orchVars
=============================================================================
