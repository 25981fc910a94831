------------------------------ MODULE MCWindow ------------------------------
(***************************************************************************)
(* What the window of the application keeps beside its runs, in one model  *)
(* check.  The parts share no state in the model, so that interleaving     *)
(* them would only multiply their states: `focus' is the part that moves.  *)
(***************************************************************************)
EXTENDS GuiSession, WorktreeCleanup, ProjectStore, Planning, Canvas, Delegation, TLC

VARIABLE focus

orchestrationVars == <<orchVars, planVars>>
windowVars == <<focus, guiVars, wtVars, psVars, orchestrationVars, canvasVars, dl>>

\* The savers are interchangeable.
Interchangeable == Permutations(Saver)

\* What the root of the delegations may pass on lacks a file, the policy has less to
\* spend, and the planner asks for different parts of it.
AllOfIt == [files |-> {"f1", "f2"}, evidence |-> TRUE, roles |-> {"worker", "specialist"},
            delegates |-> TRUE, depth |-> 2, fan |-> 2, tokens |-> 2, expires |-> 2]
RootPart == [AllOfIt EXCEPT !.files = {"f1"}]
PolicyPart == [AllOfIt EXCEPT !.tokens = 1]
TaskParts == {AllOfIt, [AllOfIt EXCEPT !.roles = {"specialist"}, !.depth = 1, !.fan = 1,
                              !.expires = 1]}

\* In the focus of the planning the workflows are only those it builds itself.
WindowInit ==
  /\ focus \in {"session", "worktree", "saves", "edits", "orchestration", "planning",
                "canvas", "delegation"}
  /\ GuiInit /\ WtInit /\ PsInit /\ OrchInit /\ PlanInit /\ CanvasInit /\ DelegationInit
  /\ focus # "orchestration" => \A f \in OrchFlow : flowIs[f] = "absent"

\* The planning with what becomes of its orchestration: the edits of drafts and
\* workflows are left to the focus of the orchestrations.
PlanningSteps ==
  \/ ControlNext
  \/ (\E o \in Orch : CreateExecutionDraft(o)) \/ ConfirmExecutionPlan
  \/ /\ UNCHANGED <<flowIs, planVars>>
     /\ \/ OrchSystemNext
        \/ \E o \in Orch : ConfirmDraft(o) \/ Run(o) \/ Cancel(o) \/ RemoveRecord(o)

\* Saves that overlap, with one edit, or one save at a time with more of them.
SavingSteps ==
  /\ PsNext
  /\ focus = "saves" => psEdits' <= 1
  /\ focus = "edits" => /\ switched' <= 1
                         /\ \A s, t \in Saver : "idle" \in {ops'[s].stage, ops'[t].stage} \/ s = t

WindowNext ==
  /\ UNCHANGED focus
  /\ \/ focus = "session" /\ GuiNext
          /\ UNCHANGED <<wtVars, psVars, orchestrationVars, canvasVars, dl>>
     \/ focus = "worktree" /\ WtNext
          /\ UNCHANGED <<guiVars, psVars, orchestrationVars, canvasVars, dl>>
     \/ focus \in {"saves", "edits"} /\ SavingSteps
          /\ UNCHANGED <<guiVars, wtVars, orchestrationVars, canvasVars, dl>>
     \/ focus = "orchestration" /\ OrchNext
          /\ UNCHANGED <<guiVars, wtVars, psVars, planVars, canvasVars, dl>>
     \/ focus = "planning" /\ PlanningSteps
          /\ UNCHANGED <<guiVars, wtVars, psVars, canvasVars, dl>>
     \/ focus = "canvas" /\ CanvasNext
          /\ UNCHANGED <<guiVars, wtVars, psVars, orchestrationVars, dl>>
     \/ focus = "delegation" /\ DelegationNext
          /\ UNCHANGED <<guiVars, wtVars, psVars, orchestrationVars, canvasVars>>

WindowSpec == WindowInit /\ [][WindowNext]_windowVars

=============================================================================
