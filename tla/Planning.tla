------------------------------ MODULE Planning ------------------------------
(***************************************************************************)
(* The planning of a project in one session: the dialogue with the master  *)
(* agent, which proposes briefs and architectures, and the user's           *)
(* approvals, which lead to a task graph, the issues that track its tasks,  *)
(* an orchestration and a worker run (projectControl/commands.ts, state.ts, *)
(* session.ts, taskGraph.ts, issue.ts, taskGraphProjection.ts and the       *)
(* handlers of ProjectSessionPanel, OrchestratorPanel and IssueBoard).      *)
(*                                                                         *)
(* `control' is the snapshot the store holds.  Every handler of the user    *)
(* reads it, computes the next one and stores it without an await between;  *)
(* a turn of the master agent reads it, awaits the model, and applies the   *)
(* answer to the snapshot the store holds by then.  Approvals are not       *)
(* disabled while a turn is under way, and a panel that was left and opened *)
(* again starts a second turn beside the first.                             *)
(*                                                                         *)
(* Versions are positions in the sequences; 0 is "none".  No command of the *)
(* application leads a session beyond `ready', so the table of transitions  *)
(* is given for the statuses a session reaches.                             *)
(***************************************************************************)
EXTENDS Orchestrations, Sequences

CONSTANTS
  Turn,      \* turns of the master agent that may be in flight together
  PlanTask,  \* tasks of an architecture
  MaxTurns,  \* bound: turns of the master agent
  MaxGraphs  \* bound: versions of the task graph

ASSUME PlanAssumption == MaxTurns \in Nat /\ MaxGraphs \in Nat

VARIABLES
  control,   \* [session, briefs, archs, graphs, issues] of the store
  turns,     \* Turn -> NoTurn or the snapshot runTurn read before the await
  turnsLeft,
  runGraph   \* Orch -> the graph its worker run was queued for, or 0

planVars == <<control, turns, turnsLeft, runGraph>>

SessionStatus == {"clarifying", "brief-review", "architecture-review", "plan-review", "ready"}

SESSION_TRANSITIONS ==
  [s \in SessionStatus |->
     CASE s = "clarifying" -> {"brief-review"}
       [] s = "brief-review" -> {"clarifying", "architecture-review", "ready"}
       [] s = "architecture-review" -> {"brief-review", "plan-review"}
       [] s = "plan-review" -> {"architecture-review", "ready"}
       [] s = "ready" -> {"plan-review"}]

\* transitionSession throws on anything else; staying is always allowed.
MayBecome(from, to) == from = to \/ to \in SESSION_TRANSITIONS[from]

NoTurn == [idle |-> TRUE]
NoOrch == "none"

NewSession ==
  [status |-> "clarifying", brief |-> 0, arch |-> 0, graph |-> 0, orch |-> NoOrch]

\* startProjectSessionCommand; the issue it creates belongs to no task.
PlanInit ==
  /\ control = [session |-> NewSession, briefs |-> <<>>, archs |-> <<>>,
                graphs |-> <<>>, issues |-> <<>>]
  /\ turns = [t \in Turn |-> NoTurn]
  /\ turnsLeft = MaxTurns
  /\ runGraph = [o \in Orch |-> 0]

----------------------------------------------------------------------------
(* The turns of the master agent.                                          *)

\* applyMasterTurn: a question.
Asked(c) == [c EXCEPT !.session.status = "clarifying"]

\* A new draft of the brief takes the place of the session's.
Briefed(c) ==
  [c EXCEPT !.session.status = "brief-review",
            !.session.brief = Len(c.briefs) + 1,
            !.briefs = Append(@, "draft")]

\* A new draft of the architecture, for the brief of the session, approved or not.
Architected(c) ==
  [c EXCEPT !.session.status = "architecture-review",
            !.session.arch = Len(c.archs) + 1,
            !.archs = Append(@, [brief |-> c.session.brief, approval |-> "draft"])]

\* What the answer makes of the snapshot; an answer whose transition is refused
\* is dropped as a whole, its messages with it.
Applied(c, kind) ==
  CASE kind = "question" /\ MayBecome(c.session.status, "clarifying") -> Asked(c)
    [] kind = "brief" /\ MayBecome(c.session.status, "brief-review") -> Briefed(c)
    [] kind = "architecture" /\ c.session.brief # 0
         /\ MayBecome(c.session.status, "architecture-review") -> Architected(c)
    [] OTHER -> c

StartTurn(t) ==
  /\ turns[t] = NoTurn /\ turnsLeft > 0
  /\ turns' = [turns EXCEPT ![t] = control]
  /\ turnsLeft' = turnsLeft - 1
  /\ UNCHANGED <<control, runGraph>>

\* Mutant: the snapshot that was read before the await.
AsRead(t) == turns[t]

\* The snapshot the answer is applied to: the one the store holds by now.
Latest(t) == control

\* runTurn after the await; the model may also have failed.
CompleteTurn(t, kind) ==
  /\ turns[t] # NoTurn
  /\ control' = IF kind = "error" THEN control ELSE Applied(Latest(t), kind)
  /\ turns' = [turns EXCEPT ![t] = NoTurn]
  /\ UNCHANGED <<turnsLeft, runGraph>>

----------------------------------------------------------------------------
(* The user's approvals.                                                   *)

\* approveBriefCommand
ApproveBrief ==
  LET s == control.session IN
  /\ s.brief # 0 /\ control.briefs[s.brief] = "draft"
  /\ MayBecome(s.status, "architecture-review")
  /\ control' = [control EXCEPT !.briefs[s.brief] = "approved",
                                !.session.status = "architecture-review"]
  /\ UNCHANGED <<turns, turnsLeft, runGraph>>

\* approveArchitectureCommand
ApproveArchitecture ==
  LET s == control.session IN
  /\ s.arch # 0 /\ control.archs[s.arch].approval = "draft"
  /\ MayBecome(s.status, "plan-review")
  /\ control' = [control EXCEPT !.archs[s.arch].approval = "approved",
                                !.session.status = "plan-review"]
  /\ UNCHANGED <<turns, turnsLeft, runGraph>>

\* materializeTaskIssues: the tasks of a new graph get issues of their own.
NewIssues == [k \in PlanTask |-> "proposed"]

\* handleGenerateTaskGraph + generateTaskGraphCommand
GenerateTaskGraph ==
  LET s == control.session IN
  /\ s.arch # 0 /\ control.archs[s.arch].approval = "approved" /\ s.graph = 0
  /\ MayBecome(s.status, "plan-review") /\ Len(control.graphs) < MaxGraphs
  /\ control' = [control EXCEPT
       !.session.status = "plan-review",
       !.session.graph = Len(control.graphs) + 1,
       !.graphs = Append(@, [arch |-> s.arch, approval |-> "draft"]),
       !.issues = Append(@, NewIssues)]
  /\ UNCHANGED <<turns, turnsLeft, runGraph>>

RevisableStatus == {"plan-review", "ready"}

\* Mutant: a session that was ready stays so, as it does for a linked orchestration.
ReviewedOrReady(s) == s.status

\* The session after a revision is back in review.
Reviewed(s) == "plan-review"

Superseded(approval) == "superseded"

WithSuperseded(graphs, g) == [graphs EXCEPT ![g].approval = Superseded(@)]

\* onReviseTaskGraph + reviseTaskGraphCommand: any graph that is not superseded
\* may be the source; its issues stay as they are.
ReviseTaskGraph(g) ==
  LET s == control.session IN
  /\ g \in DOMAIN control.graphs /\ control.graphs[g].approval # "superseded"
  /\ s.status \in RevisableStatus /\ Len(control.graphs) < MaxGraphs
  /\ control' = [control EXCEPT
       !.session.status = Reviewed(s),
       !.session.graph = Len(control.graphs) + 1,
       !.graphs = Append(WithSuperseded(control.graphs, g),
                         [arch |-> control.graphs[g].arch, approval |-> "draft"]),
       !.issues = Append(@, NewIssues)]
  /\ UNCHANGED <<turns, turnsLeft, runGraph>>

ApprovableIssue == {"proposed", "inbox", "triaging"}

\* approveTaskGraph transitions every issue that waits for it.
IssueApproved(status) == IF status \in ApprovableIssue THEN "approved" ELSE status

\* approveTaskGraphCommand
ApproveTaskGraph ==
  LET s == control.session
      g == s.graph
  IN /\ g # 0 /\ control.graphs[g].approval = "draft"
     /\ MayBecome(s.status, "ready")
     /\ control' = [control EXCEPT
          !.graphs[g].approval = "approved",
          !.issues[g] = [k \in PlanTask |-> IssueApproved(@[k])],
          !.session.status = "ready"]
     /\ UNCHANGED <<turns, turnsLeft, runGraph>>

\* IssueBoard.handleQueue: the only button an issue of a task ever offers.
QueueIssue(g, k) ==
  /\ g \in DOMAIN control.issues /\ control.issues[g][k] = "approved"
  /\ control' = [control EXCEPT !.issues[g][k] = "queued"]
  /\ UNCHANGED <<turns, turnsLeft, runGraph>>

----------------------------------------------------------------------------
(* From the approved graph to its execution.                               *)

\* handleCreateOrchestration: two workflows are built and registered, the record
\* names them, linkOrchestrationCommand stores it in the session.
CreateExecutionDraft(o) ==
  LET s == control.session IN
  /\ s.graph # 0 /\ control.graphs[s.graph].approval = "approved"
  /\ s.orch = NoOrch
  /\ MayBecome(s.status, "ready")
  /\ orchs[o] = NoRecord
  /\ \E fix \in [Stage -> {f \in OrchFlow : flowIs[f] = "absent"}] :
       /\ \A i, j \in Stage : i # j => fix[i] # fix[j]
       /\ orchs' = [orchs EXCEPT ![o] = Draft(FALSE, fix)]
       /\ flowIs' = [f \in OrchFlow |->
                       IF \E i \in Stage : fix[i] = f THEN "filled" ELSE flowIs[f]]
  /\ control' = [control EXCEPT !.session.status = "ready", !.session.orch = o]
  /\ UNCHANGED <<runner, worker, returned, panelBusy, cancelling, orchFaults>>
  /\ UNCHANGED <<turns, turnsLeft, runGraph>>

\* handleConfirmExecutionPlan: createWorkerRunQueue refuses a graph that is not
\* approved; the run is bound to the graph the session has NOW.
ConfirmExecutionPlan ==
  LET s == control.session IN
  /\ s.orch # NoOrch /\ s.graph # 0
  /\ control.graphs[s.graph].approval = "approved"
  /\ ConfirmWorkerRun(s.orch)
  /\ runGraph' = [runGraph EXCEPT ![s.orch] = s.graph]
  /\ UNCHANGED <<control, turns, turnsLeft>>

\* Steps of the planning alone.
ControlNext ==
  /\ \/ \E t \in Turn : \/ StartTurn(t)
                        \/ \E k \in {"question", "brief", "architecture", "error"} :
                             CompleteTurn(t, k)
     \/ ApproveBrief \/ ApproveArchitecture \/ GenerateTaskGraph \/ ApproveTaskGraph
     \/ \E g \in 1 .. MaxGraphs : ReviseTaskGraph(g) \/ \E k \in PlanTask : QueueIssue(g, k)
  /\ UNCHANGED orchVars

PlanNext ==
  \/ ControlNext
  \/ (\E o \in Orch : CreateExecutionDraft(o)) \/ ConfirmExecutionPlan
  \/ (OrchUserNext \/ OrchSystemNext) /\ UNCHANGED planVars

PlanSpec == OrchInit /\ PlanInit /\ [][PlanNext]_<<planVars, orchVars>>

----------------------------------------------------------------------------
(* Properties.                                                             *)

Approval == {"draft", "approved"}

PlanTypeOK ==
  /\ control.session \in [status : SessionStatus, brief : 0 .. Len(control.briefs),
                          arch : 0 .. Len(control.archs), graph : 0 .. Len(control.graphs),
                          orch : Orch \cup {NoOrch}]
  /\ control.briefs \in Seq(Approval)
  /\ control.archs \in Seq([brief : 1 .. Len(control.briefs), approval : Approval])
  /\ control.graphs \in Seq([arch : 1 .. Len(control.archs),
                             approval : Approval \cup {"superseded"}])
  /\ control.issues \in Seq([PlanTask -> {"proposed", "approved", "queued"}])
  /\ turnsLeft \in 0 .. MaxTurns
  /\ runGraph \in [Orch -> Nat]

\* A decision of the user survives whatever turn of the master agent was in
\* flight when it was made: nothing that was approved becomes a draft again or
\* disappears, and a graph is taken back only by a revision.
DecisionsStand ==
  [][/\ \A b \in DOMAIN control.briefs :
          b \in DOMAIN control'.briefs
            /\ (control.briefs[b] = "approved" => control'.briefs[b] = "approved")
     /\ \A a \in DOMAIN control.archs :
          a \in DOMAIN control'.archs
            /\ (control.archs[a].approval = "approved" => control'.archs[a].approval = "approved")
     /\ \A g \in DOMAIN control.graphs :
          g \in DOMAIN control'.graphs
            /\ (control.graphs[g].approval # "draft" => control'.graphs[g].approval # "draft")]_control

\* The session and the graphs agree: only the session's graph is not superseded,
\* and a session is ready only while the user's approval of that graph stands,
\* whatever the master agent answered in between.
SessionHoldsLiveGraph ==
  LET s == control.session
  IN /\ \A g \in DOMAIN control.graphs : control.graphs[g].approval # "superseded" => g = s.graph
     /\ s.status = "ready" => s.graph # 0 /\ control.graphs[s.graph].approval = "approved"

\* Every task of an approved graph, and of a graph a worker run was queued for,
\* is tracked by an issue that was approved with it.
ApprovedTasksTracked ==
  /\ \A g \in DOMAIN control.graphs :
       control.graphs[g].approval = "approved"
         => \A k \in PlanTask : control.issues[g][k] \in {"approved", "queued"}
  /\ \A o \in Orch : runGraph[o] # 0 =>
       \A k \in PlanTask : control.issues[runGraph[o]][k] \in {"approved", "queued"}

=============================================================================
