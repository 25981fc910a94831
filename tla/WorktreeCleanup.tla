-------------------------- MODULE WorktreeCleanup --------------------------
(***************************************************************************)
(* The life of the worktree of one attempt in the window: it is created    *)
(* for the attempt (dev/worktree.ts and the wrapper of dev/session.ts),    *)
(* the task succeeds, the user approves a clean-up and runs it             *)
(* (projectControl/workerCleanup*.ts) over the gate of the development     *)
(* session, the host and the side-effect journal, and the result reaches   *)
(* the project file.  The project may be closed and the program may crash  *)
(* at any point; several clicks on the clean-up may be under way at once.  *)
(***************************************************************************)
EXTENDS WorktreeHost

CONSTANTS
  Click,      \* clicks on the clean-up that may be under way
  MaxOpens,   \* bound: times the project is opened
  MaxWtFaults \* bound: commands and writes that fail

ASSUME CleanupBoundsAssumption == MaxOpens \in Nat /\ MaxWtFaults \in Nat

VARIABLES
  isOpen,    \* the project is open
  opens,     \* how often it was opened
  making,    \* where the creation of the worktree is
  info,      \* the record of the worktree manager
  task,      \* the task in the store
  saved,     \* the task in the project file
  buffer,    \* its events that are not durable yet
  effect,    \* the record of the clean-up in the side-effect journal
  proposal,  \* the clean-up the window proposes
  approval,  \* the approval the development session keeps
  review,    \* the run has the recovery "cleanup-unknown"
  click,     \* where each click is
  dialogs,   \* native dialogs shown
  confirmed, \* revisions the user has confirmed in one
  finished,  \* the host has finished a clean-up
  wtFaults

window == <<making, info, proposal, approval, review, click>>
durableTask == <<saved, effect>>
past == <<opens, dialogs, confirmed, finished, wtFaults>>
wtVars == <<wtHostVars, isOpen, window, task, buffer, durableTask, past>>

NoInfo == [st |-> "none", rev |-> 0]
NoTask == [status |-> "queued", wt |-> "none", rev |-> 0, sig |-> 0, cleaned |-> FALSE]
NoProposal == [on |-> FALSE, approved |-> FALSE, rev |-> 0, sig |-> 0]
NoApproval == [on |-> FALSE, rev |-> 0, sig |-> 0]
Idle == [at |-> "idle", rev |-> 0, sig |-> 0, target |-> 0, next |-> NoTask]

Durable == {"orphaned", "registration-pending"}
Recoverable == {"created"} \cup Durable
InHost == {"dialog", "remove"}   \* a command holds the host's operation lock
ClickPlaces == InHost \cup {"idle", "claim", "confirm", "ask", "delete", "unregister",
                            "receipt", "mark", "unknown", "threw", "save", "refresh"}

WtTypeOK ==
  /\ HostTypeOK
  /\ isOpen \in BOOLEAN /\ review \in BOOLEAN /\ finished \in BOOLEAN
  /\ making \in {"no", "new", "existing", "added", "undo", "remove", "branch"}
  /\ info \in [st : {"none", "cleaned"} \cup Recoverable, rev : Nat]
  /\ {task, saved} \subseteq
       [status : {"queued", "running", "succeeded", "failed"},
        wt : {"none", "cleaned"} \cup Recoverable, rev : Nat, sig : Nat, cleaned : BOOLEAN]
  /\ buffer \subseteq {"TaskCleaned", "TaskFailed"}
  /\ effect \in {"none", "started", "unknown", "receipt"}
  /\ proposal \in [on : BOOLEAN, approved : BOOLEAN, rev : Nat, sig : Nat]
  /\ approval \in [on : BOOLEAN, rev : Nat, sig : Nat]
  /\ \A c \in Click : click[c].at \in ClickPlaces
  /\ {opens, dialogs, wtFaults} \subseteq Nat /\ confirmed \subseteq Nat

WtInit ==
  /\ WtHostInit
  /\ isOpen = TRUE /\ opens = 1 /\ making = "no" /\ info = NoInfo
  /\ task = NoTask /\ saved = NoTask /\ buffer = {} /\ effect = "none"
  /\ proposal = NoProposal /\ approval = NoApproval /\ review = FALSE
  /\ click = [c \in Click |-> Idle]
  /\ dialogs = 0 /\ confirmed = {} /\ finished = FALSE /\ wtFaults = 0

Fault == wtFaults < MaxWtFaults /\ wtFaults' = wtFaults + 1

\* buildWorkerCleanupProposal for the task t; a live worktree is looked at through
\* the host, one that is gone is taken from the task.
Proposal(t, st) ==
  IF t.status # "succeeded" \/ t.cleaned THEN NoProposal
  ELSE IF t.wt \in Durable
  THEN IF t.rev = 0 THEN NoProposal
       ELSE [NoProposal EXCEPT !.on = TRUE, !.rev = t.rev, !.sig = t.sig]
  ELSE IF st = "created" /\ registered = dir /\ dir # 0 /\ tip # 0
  THEN [NoProposal EXCEPT !.on = TRUE, !.rev = tip, !.sig = edits]
  ELSE NoProposal

\* The replay of the stream takes a completion from a running attempt only.
Replays(event) == event = "TaskCleaned"

-----------------------------------------------------------------------------
(* The creation of the worktree.                                           *)

\* WorktreeManager.create up to git worktree add: a branch that is there must
\* be at the base; whether one is made is decided here.
Create ==
  /\ isOpen /\ making = "no" /\ task.wt = "none" /\ task.status = "queued"
  /\ CASE tip = 0 -> making' = "new" /\ UNCHANGED task
       [] tip = Base -> making' = "existing" /\ UNCHANGED task
       [] OTHER -> task' = [task EXCEPT !.status = "failed"] /\ UNCHANGED making
  /\ UNCHANGED <<wtHostVars, isOpen, info, proposal, approval, review, click, buffer,
                 durableTask, past>>

Add ==
  /\ making \in {"new", "existing"}
  /\ \/ AddWorktree(making = "new", TRUE)
        /\ info' = [NoInfo EXCEPT !.st = "created"] /\ making' = "added"
        /\ UNCHANGED <<task, wtFaults>>
     \/ /\ Fault
        /\ AddWorktree(making = "new", FALSE) \/ UNCHANGED wtHostVars
        /\ task' = [task EXCEPT !.status = "failed"] /\ making' = "no" /\ UNCHANGED info
     \/ /\ ~Addable(making = "new")
        /\ UNCHANGED <<wtHostVars, info, wtFaults>>
        /\ task' = [task EXCEPT !.status = "failed"] /\ making' = "no"
  /\ UNCHANGED <<isOpen, proposal, approval, review, click, buffer, durableTask,
                 opens, dialogs, confirmed, finished>>

\* The wrapper registers it with the host; the claim of the task takes it.
RegisterCreated ==
  /\ making = "added"
  /\ \/ /\ Register
        /\ task' = [task EXCEPT !.status = "running", !.wt = "created"]
        /\ making' = "no" /\ UNCHANGED wtFaults
     \/ /\ (~Registrable /\ UNCHANGED wtFaults) \/ Fault
        /\ making' = "undo" /\ UNCHANGED <<wtHostVars, task>>
  /\ UNCHANGED <<isOpen, info, proposal, approval, review, click, buffer, durableTask,
                 opens, dialogs, confirmed, finished>>

\* cleanupCreated: the tip, the directory, the branch; each failure leaves what
\* is there to the user.
Undo ==
  /\ making \in {"undo", "remove", "branch"}
  /\ \/ /\ making = "undo" /\ tip # 0
        /\ info' = [info EXCEPT !.rev = tip] /\ making' = "remove"
        /\ UNCHANGED <<wtHostVars, task>>
     \/ /\ making = "remove" /\ RevertWorktree
        /\ making' = "branch" /\ UNCHANGED <<info, task>>
     \/ /\ making = "branch" /\ RevertBranch(info.rev)
        /\ info' = NoInfo /\ making' = "no"
        /\ task' = [task EXCEPT !.status = "failed"]
     \/ /\ CASE making = "undo" -> tip = 0
             [] making = "remove" -> ~Revertible
             [] making = "branch" -> ~BranchRevertible(info.rev)
        /\ info' = IF making = "branch" THEN [info EXCEPT !.st = "orphaned"] ELSE info
        /\ making' = "no" /\ task' = [task EXCEPT !.status = "failed"]
        /\ UNCHANGED wtHostVars
  /\ UNCHANGED <<isOpen, proposal, approval, review, click, buffer, durableTask, past>>

\* The attempt is accepted and its run saved; the proposals are refreshed.
Succeed ==
  /\ isOpen /\ making = "no" /\ task.status = "running"
  /\ task' = [task EXCEPT !.status = "succeeded"] /\ saved' = task'
  /\ proposal' = Proposal(task', info.st)
  /\ UNCHANGED <<wtHostVars, isOpen, making, info, approval, review, click, buffer, effect, past>>

-----------------------------------------------------------------------------
(* The clean-up of the worktree: the controller                            *)
(* (workerCleanupActionController.ts).                                     *)

\* What cleanupWorkerRun demands of both of its actions.
Cleanable ==
  /\ isOpen /\ proposal.on /\ ~review
  /\ task.status = "succeeded" /\ ~task.cleaned
  /\ IF task.wt \in Durable THEN <<proposal.rev, proposal.sig>> = <<task.rev, task.sig>>
     ELSE proposal.rev = tip

Approve ==
  /\ Cleanable
  /\ approval' = [on |-> TRUE, rev |-> proposal.rev, sig |-> proposal.sig]
  /\ proposal' = [proposal EXCEPT !.approved = TRUE]
  /\ UNCHANGED <<wtHostVars, isOpen, making, info, review, click, task, buffer, durableTask, past>>

\* A click reads the store once, and writes what it has read at its end.
Go(c, at) == click' = [click EXCEPT ![c].at = at]

CleanUp(c) ==
  /\ click[c].at = "idle" /\ Cleanable /\ proposal.approved
  /\ click' = [click EXCEPT ![c] = [Idle EXCEPT !.at = "claim", !.rev = proposal.rev,
                                                !.sig = proposal.sig, !.next = task]]
  /\ UNCHANGED <<wtHostVars, isOpen, making, info, proposal, approval, review, task, buffer,
                 durableTask, past>>

\* Mutant: an unknown clean-up may be begun again.
ClaimAgain(c) ==
  /\ click[c].at = "claim"
  /\ \/ effect = "receipt" /\ isOpen /\ Go(c, "mark") /\ UNCHANGED effect
     \/ effect = "started" /\ Go(c, "idle") /\ UNCHANGED effect
     \/ effect \in {"none", "unknown"} /\ isOpen /\ effect' = "started" /\ Go(c, "confirm")
     \/ ~isOpen /\ effect' \in {effect, IF effect = "none" THEN "started" ELSE effect} /\ Go(c, "idle")
  /\ UNCHANGED <<wtHostVars, isOpen, making, info, proposal, approval, review, task, buffer,
                 saved, past>>

\* executeWorkerCleanupWithReceipt: who finds a receipt goes on with it, who finds
\* a clean-up begun is sent to the user, and the claim of the journal takes one.
\* Closing the project stops it, after the claim as well.
Claim(c) ==
  /\ click[c].at = "claim"
  /\ \/ effect = "receipt" /\ isOpen /\ Go(c, "mark") /\ UNCHANGED effect
     \/ effect \in {"started", "unknown"} /\ Go(c, "idle") /\ UNCHANGED effect
     \/ effect = "none" /\ isOpen /\ effect' = "started" /\ Go(c, "confirm")
     \/ ~isOpen /\ effect' \in {effect, IF effect = "none" THEN "started" ELSE effect} /\ Go(c, "idle")
  /\ UNCHANGED <<wtHostVars, isOpen, making, info, proposal, approval, review, task, buffer,
                 saved, past>>

-----------------------------------------------------------------------------
(* The gate of the development session and the host (confirmAndCleanup,    *)
(* cleanupCreated, dev_approve_cleanup, dev_cleanup_worktree).             *)

\* The approval is the one of this click, and the worktree is as it was approved.
Unchanged(c) ==
  /\ approval = [on |-> TRUE, rev |-> click[c].rev, sig |-> click[c].sig]
  /\ tip = click[c].rev
  /\ CASE info.st = "created" -> registered = dir /\ dir # 0 /\ edits = click[c].sig
       [] info.st = "orphaned" -> info.rev = click[c].rev
       [] OTHER -> FALSE

Rejected(c) == Go(c, "unknown") /\ approval' = [approval EXCEPT !.on = FALSE]

Confirm(c) ==
  /\ click[c].at = "confirm"
  /\ \/ isOpen /\ Unchanged(c) /\ Go(c, "ask") /\ UNCHANGED approval
     \/ isOpen /\ ~Unchanged(c) /\ Rejected(c)
     \/ ~isOpen /\ Go(c, "threw") /\ UNCHANGED approval
  /\ UNCHANGED <<wtHostVars, isOpen, making, info, proposal, review, task, buffer, durableTask, past>>

\* A command of the host that fails makes a live worktree an orphaned branch.
HostRefused(c) ==
  /\ Rejected(c)
  /\ info' = IF info.st = "created" THEN [st |-> "orphaned", rev |-> click[c].rev] ELSE info

AskUser(c) ==
  /\ click[c].at = "ask" /\ ~\E o \in Click : click[o].at \in InHost
  /\ \/ /\ Askable(click[c].rev)
        /\ click' = [click EXCEPT ![c].at = "dialog", ![c].target = dir]
        /\ dialogs' = dialogs + 1 /\ UNCHANGED <<info, approval>>
     \/ ~Askable(click[c].rev) /\ HostRefused(c) /\ UNCHANGED dialogs
  /\ UNCHANGED <<wtHostVars, isOpen, making, proposal, review, task, buffer, durableTask,
                 opens, confirmed, finished, wtFaults>>

Answer(c) ==
  /\ click[c].at = "dialog"
  /\ \E yes \in BOOLEAN :
       /\ confirmed' = IF yes THEN confirmed \cup {click[c].rev} ELSE confirmed
       /\ IF yes /\ Confirmable(click[c].target)
          THEN Go(c, "delete") /\ UNCHANGED <<info, approval>>
          ELSE HostRefused(c)
  /\ UNCHANGED <<wtHostVars, isOpen, making, proposal, review, task, buffer, durableTask,
                 opens, dialogs, finished, wtFaults>>

Delete(c) ==
  /\ click[c].at = "delete" /\ ~\E o \in Click : click[o].at \in InHost
  /\ \/ DeleteBranch(click[c].target, click[c].rev) /\ Go(c, "remove") /\ UNCHANGED <<info, approval>>
     \/ ~Deletable(click[c].target, click[c].rev) /\ HostRefused(c) /\ UNCHANGED wtHostVars
  /\ UNCHANGED <<isOpen, making, proposal, review, task, buffer, durableTask, past>>

Remove(c) ==
  /\ click[c].at = "remove"
  /\ \/ /\ RemoveWorktree(click[c].target)
        /\ info' = [info EXCEPT !.st = "cleaned"] /\ finished' = TRUE
        /\ Go(c, "unregister") /\ UNCHANGED <<approval, wtFaults>>
     \/ /\ (~Removable(click[c].target) /\ UNCHANGED wtFaults) \/ Fault
        /\ HostRefused(c) /\ UNCHANGED <<wtHostVars, finished>>
  /\ UNCHANGED <<isOpen, making, proposal, review, task, buffer, durableTask,
                 opens, dialogs, confirmed>>

\* The wrapper of dev/session.ts.
Unregister(c) ==
  /\ click[c].at = "unregister"
  /\ approval' = [approval EXCEPT !.on = FALSE]
  /\ \/ Unregistrable /\ Go(c, "receipt") /\ UNCHANGED <<info, wtFaults>>
     \/ /\ (~Unregistrable /\ UNCHANGED wtFaults) \/ Fault
        /\ info' = [info EXCEPT !.st = "registration-pending"] /\ Go(c, "unknown")
  /\ UNCHANGED <<wtHostVars, isOpen, making, proposal, review, task, buffer, durableTask,
                 opens, dialogs, confirmed, finished>>

-----------------------------------------------------------------------------
(* What the outcome becomes: the journal, the store, the project file.     *)

Receipt(c) ==
  /\ click[c].at = "receipt"
  /\ \/ effect' = "receipt" /\ Go(c, "mark") /\ UNCHANGED wtFaults
     \/ Fault /\ Go(c, "threw") /\ UNCHANGED effect
  /\ UNCHANGED <<wtHostVars, isOpen, making, info, proposal, approval, review, task, buffer, saved,
                 opens, dialogs, confirmed, finished>>

\* The store learns nothing of a clean-up that threw; a second failure leaves
\* the journal as it is.
Threw(c) ==
  /\ click[c].at = "threw" /\ Go(c, "idle")
  /\ \/ effect' = "unknown" /\ UNCHANGED wtFaults
     \/ Fault /\ UNCHANGED effect
  /\ UNCHANGED <<wtHostVars, isOpen, making, info, proposal, approval, review, task, buffer, saved,
                 opens, dialogs, confirmed, finished>>

\* In the window of another project the store is left alone.
Store(t) == task' = IF isOpen THEN t ELSE task

\* markWorkerTaskCleaned on the run as the click read it.
Cleaned(t) == [t EXCEPT !.wt = "cleaned", !.rev = 0, !.cleaned = TRUE]

Mark(c) ==
  /\ click[c].at = "mark"
  /\ click' = [click EXCEPT ![c].at = "save", ![c].next = Cleaned(@)]
  /\ buffer' = buffer \cup {"TaskCleaned"}
  /\ Store(Cleaned(click[c].next))
  /\ UNCHANGED <<wtHostVars, isOpen, making, info, proposal, approval, review, durableTask, past>>

Unknown(c) ==
  /\ click[c].at = "unknown"
  /\ \/ /\ effect' = "unknown" /\ review' = isOpen /\ proposal' = NoProposal
        /\ IF info.st \in Recoverable
           THEN LET t == [click[c].next EXCEPT !.wt = info.st, !.rev = info.rev, !.sig = click[c].sig]
                IN  click' = [click EXCEPT ![c].at = "save", ![c].next = t] /\ Store(t)
           ELSE Go(c, "idle") /\ UNCHANGED task
        /\ UNCHANGED wtFaults
     \/ Fault /\ Go(c, "threw") /\ UNCHANGED <<effect, review, proposal, task>>
  /\ UNCHANGED <<wtHostVars, isOpen, making, info, approval, buffer, saved,
                 opens, dialogs, confirmed, finished>>

\* The buffer goes to the stream as a whole before the project file is written.
Flushable == \A event \in buffer : Replays(event)

Write(t) ==
  \/ Flushable /\ buffer' = {} /\ saved' = t /\ UNCHANGED wtFaults
  \/ Fault /\ buffer' \in {buffer, IF Flushable THEN {} ELSE buffer} /\ UNCHANGED saved

\* persistCleanupState: what is on screen, or, of a project that is not, what the
\* click has made of the store as it read it.
Save(c) ==
  /\ click[c].at = "save"
  /\ \/ /\ Write(IF isOpen THEN task ELSE click[c].next)
        /\ Go(c, IF saved' = click[c].next /\ click[c].next.cleaned THEN "refresh" ELSE "idle")
     \/ ~Flushable /\ Go(c, "idle") /\ UNCHANGED <<buffer, saved, wtFaults>>
  /\ UNCHANGED <<wtHostVars, isOpen, making, info, proposal, approval, review, task, effect,
                 opens, dialogs, confirmed, finished>>

Refresh(c) ==
  /\ click[c].at = "refresh" /\ Go(c, "idle")
  /\ proposal' = IF ~isOpen THEN proposal ELSE IF review THEN NoProposal ELSE Proposal(task, info.st)
  /\ UNCHANGED <<wtHostVars, isOpen, making, info, approval, review, task, buffer, durableTask, past>>

-----------------------------------------------------------------------------
(* What else happens in the window.                                        *)

SaveProject ==
  /\ isOpen /\ Flushable /\ buffer' = {} /\ saved' = task
  /\ UNCHANGED <<wtHostVars, isOpen, window, task, effect, past>>

\* The user leaves the recovery "cleanup-unknown" behind by skipping it
\* (recoverWorkerRunCommand): the tasks of its effects fail.
Skip ==
  /\ isOpen /\ review /\ effect = "unknown" /\ task.status # "failed"
  /\ task' = [task EXCEPT !.status = "failed"]
  /\ buffer' = buffer \cup {"TaskFailed"} /\ review' = FALSE
  /\ UNCHANGED <<wtHostVars, isOpen, making, info, proposal, approval, click, durableTask, past>>

\* The session of the host ends when no command is inside it.
LeaveProject ==
  /\ isOpen /\ making = "no"
  /\ isOpen' = FALSE /\ review' = FALSE /\ proposal' = NoProposal
  /\ UNCHANGED <<wtHostVars, making, info, approval, click, task, buffer, durableTask, past>>

EndSession ==
  /\ ~isOpen /\ sessionUp /\ ~\E c \in Click : click[c].at \in InHost
  /\ ResetSession(FALSE)
  /\ UNCHANGED <<repo, isOpen, window, task, buffer, durableTask, past>>

CrashProgram ==
  /\ isOpen \/ sessionUp \/ \E c \in Click : click[c].at # "idle"
  /\ isOpen' = FALSE /\ making' = "no" /\ info' = NoInfo /\ review' = FALSE
  /\ proposal' = NoProposal /\ approval' = NoApproval /\ buffer' = {}
  /\ click' = [c \in Click |-> Idle]
  /\ ResetSession(FALSE)
  /\ UNCHANGED <<repo, task, durableTask, past>>

\* restoreWorkerWorktrees: the host knows no directory of an earlier session, the
\* manager keeps the record of one that git lists.
RestoredInfo(t) ==
  CASE t.wt = "created" /\ listed -> [st |-> "created", rev |-> t.rev]
    [] t.wt = "orphaned" /\ tip = t.rev -> [st |-> "orphaned", rev |-> t.rev]
    [] t.wt = "registration-pending" -> [st |-> t.wt, rev |-> t.rev]
    [] OTHER -> NoInfo

\* Mutant: the receipts are not reconciled.
LoadedTaskAsSaved(t) == t

\* Mutant: whatever the journal says of the clean-up counts.
LoadedTaskAnyway(t) == IF effect # "none" /\ t.status = "succeeded" THEN Cleaned(t) ELSE t

\* loadProjectWorkerEvidence: a receipt the project file misses is made good, an
\* unknown clean-up goes to the user.
LoadedTask(t) ==
  IF effect = "receipt" /\ t.status = "succeeded" /\ ~t.cleaned THEN Cleaned(t) ELSE t

OpenProject ==
  /\ ~isOpen /\ ~sessionUp /\ opens < MaxOpens /\ opens' = opens + 1
  /\ \A c \in Click : click[c].at = "idle"
  /\ isOpen' = TRUE /\ sessionUp' = TRUE
  /\ registered' = 0 /\ lease' = NoWtLease
  /\ info' = RestoredInfo(saved)
  /\ orphan' = IF saved.wt = "orphaned" /\ tip = saved.rev /\ dir = 0 /\ ~listed THEN tip ELSE 0
  /\ task' = LoadedTask(saved) /\ approval' = NoApproval
  /\ review' = (effect = "unknown")
  /\ proposal' = IF review' THEN NoProposal ELSE Proposal(task', info'.st)
  /\ \/ /\ buffer' = {} /\ saved' = task' /\ UNCHANGED wtFaults
     \/ /\ task' # saved /\ Fault
        /\ buffer' = {"TaskCleaned"} /\ UNCHANGED saved
  /\ UNCHANGED <<repo, making, click, effect, dialogs, confirmed, finished>>

-----------------------------------------------------------------------------
Clicks(c) ==
  \/ CleanUp(c) \/ Claim(c) \/ Confirm(c) \/ AskUser(c) \/ Answer(c) \/ Delete(c) \/ Remove(c)
  \/ Unregister(c) \/ Receipt(c) \/ Threw(c) \/ Mark(c) \/ Unknown(c) \/ Save(c) \/ Refresh(c)

WtNext ==
  \/ World /\ UNCHANGED <<isOpen, window, task, buffer, durableTask, past>>
  \/ Create \/ Add \/ RegisterCreated \/ Undo \/ Succeed
  \/ Approve
  \/ \E c \in Click : Clicks(c)
  \/ SaveProject \/ Skip
  \/ LeaveProject \/ EndSession \/ CrashProgram \/ OpenProject

WtSpec == WtInit /\ [][WtNext]_wtVars

-----------------------------------------------------------------------------
(* Properties.                                                             *)

\* No step of the program takes a commit away that the user has not been asked
\* about: a branch it deletes is at the base, at a revision confirmed in a native
\* dialog, or, in the rollback of a creation, at the tip the host recorded when
\* the worktree was added, whoever moves the branch meanwhile.
CommitsKept ==
  [][tip # 0 /\ tip' = 0 /\ used' = used => tip \in {Base, lease.rev} \cup confirmed]_wtVars

\* An attempt is cleaned up at most once: however the clicks interleave, fail,
\* and are cut off by a close or a crash, the user sees one native dialog.
CleanupOnce == dialogs <= 1

\* Neither the store nor the project file shows a cleaned task without a receipt
\* in the journal, and the host has removed its worktree by then.
CleanedBacked == task.cleaned \/ saved.cleaned => effect = "receipt" /\ finished

\* One clean-up, and its receipt: both of the above.
CleanupSound == CleanupOnce /\ CleanedBacked

\* With no failure on the way, an open project at rest has a durable receipt in
\* its file too, whatever crash came between the journal and the file.
AtRest == isOpen /\ \A c \in Click : click[c].at = "idle"
ReceiptReachesFile == AtRest /\ effect = "receipt" /\ wtFaults = 0 => saved.cleaned

=============================================================================
