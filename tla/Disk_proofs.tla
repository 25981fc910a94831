---------------------------- MODULE Disk_proofs -----------------------------
(***************************************************************************)
(* Proofs about what the window brings to the disk and hands on to agents: *)
(* WorktreeCleanup, for any number of clicks, openings, failures and       *)
(* changes by others, ProjectStore, for any projects, workflows and saves  *)
(* in flight, and Delegation, for any tasks, grants, scopes and limit.     *)
(***************************************************************************)
EXTENDS WorktreeCleanup, ProjectStore, Delegation, RecursionLemmas, TLAPS

-----------------------------------------------------------------------------
(***************************************************************************)
(* WorktreeCleanup. An attempt is cleaned up at most once, what shows as   *)
(* cleaned has its receipt, and no commit goes that the user was not asked *)
(* about.                                                                  *)
(***************************************************************************)

TaskType ==
  [status : {"queued", "running", "succeeded", "failed"},
   wt : {"none", "cleaned"} \cup Recoverable, rev : Nat, sig : Nat, cleaned : BOOLEAN]

ClickType == [at : ClickPlaces, rev : Nat, sig : Nat, target : Nat, next : TaskType]

LeaseType == [dir : Nat, rev : Nat, removed : BOOLEAN]
InfoType == [st : {"none", "cleaned"} \cup Recoverable, rev : Nat]
ProposalType == [on : BOOLEAN, approved : BOOLEAN, rev : Nat, sig : Nat]
ApprovalType == [on : BOOLEAN, rev : Nat, sig : Nat]

HostTyped ==
  /\ dir \in Nat /\ tip \in Nat /\ edits \in Nat /\ used \in Nat
  /\ registered \in Nat /\ orphan \in Nat
  /\ listed \in BOOLEAN /\ sessionUp \in BOOLEAN
  /\ lease \in LeaseType

WindowTyped ==
  /\ isOpen \in BOOLEAN /\ review \in BOOLEAN
  /\ making \in {"no", "new", "existing", "added", "undo", "remove", "branch"}
  /\ info \in InfoType
  /\ task \in TaskType /\ saved \in TaskType
  /\ buffer \subseteq {"TaskCleaned", "TaskFailed"}
  /\ proposal \in ProposalType
  /\ approval \in ApprovalType
  /\ opens \in Nat /\ wtFaults \in Nat

ClicksTyped ==
  /\ click \in [Click -> ClickType]
  /\ effect \in {"none", "started", "unknown", "receipt"}
  /\ dialogs \in Nat /\ confirmed \subseteq Nat /\ finished \in BOOLEAN

Typed == HostTyped /\ WindowTyped /\ ClicksTyped

-----------------------------------------------------------------------------
(* The invariant: one click works on the clean-up, the one whose claim the *)
(* journal took, and what it has reached is what the journal says.         *)

Working(c) ==
  click[c].at \in {"confirm", "ask", "dialog", "delete", "remove", "unregister",
                   "receipt", "threw", "unknown"}

OneWorks ==
  /\ \A c, d \in Click : Working(c) /\ Working(d) => c = d
  /\ \A c \in Click : Working(c) => effect = "started"

AskedOnce ==
  /\ dialogs <= 1
  /\ effect = "none" => dialogs = 0
  /\ \A c \in Click : click[c].at \in {"confirm", "ask"} => dialogs = 0
  /\ \A c \in Click : click[c].at = "delete" => click[c].rev \in confirmed

ReceiptsTrue ==
  /\ effect = "receipt" => finished
  /\ \A c \in Click :
       /\ click[c].at \in {"unregister", "receipt"} => finished
       /\ click[c].at = "mark" => effect = "receipt"
       /\ click[c].next.cleaned => effect = "receipt"
  /\ task.cleaned => effect = "receipt"
  /\ saved.cleaned => effect = "receipt"

Sound == OneWorks /\ AskedOnce /\ ReceiptsTrue

WorktreeInv == Typed /\ Sound

LEMMA WorktreeInvInit == WtInit => WorktreeInv
<1> SUFFICES ASSUME WtInit
             PROVE  WorktreeInv
  OBVIOUS
<1>1. NoTask \in TaskType /\ NoTask.cleaned = FALSE
  BY DEF NoTask, TaskType
<1>2. Idle \in ClickType /\ Idle.at = "idle" /\ Idle.next = NoTask
  BY <1>1 DEF Idle, ClickType, ClickPlaces, InHost
<1>3. HostTyped
  BY DEF HostTyped, LeaseType, WtInit, WtHostInit, NoWtLease, Base
<1>4. WindowTyped
  BY <1>1 DEF WindowTyped, WtInit, NoInfo, NoProposal, NoApproval, InfoType, ProposalType, ApprovalType
<1>5. ClicksTyped /\ \A c \in Click : click[c] = Idle
  BY <1>2 DEF ClicksTyped, WtInit
<1>6. Sound
  <2>1. effect = "none" /\ dialogs = 0 /\ task = NoTask /\ saved = NoTask
    BY DEF WtInit
  <2> QED
    BY <1>1, <1>2, <1>5, <2>1 DEF Sound, OneWorks, AskedOnce, ReceiptsTrue, Working
<1> QED
  BY <1>3, <1>4, <1>5, <1>6 DEF WorktreeInv, Typed

-----------------------------------------------------------------------------
(* The steps beside the clicks.                                            *)

\* A task that a step takes from the store or the file is cleaned only with its receipt.
Truthful(t) == t \in TaskType /\ (t.cleaned => effect = "receipt")

LEMMA CalmStep ==
  ASSUME WorktreeInv, UNCHANGED <<click, effect, dialogs, confirmed, finished>>,
         HostTyped', WindowTyped', Truthful(task'), Truthful(saved')
  PROVE  WorktreeInv'
<1>1. Typed'
  BY DEF WorktreeInv, Typed, ClicksTyped
<1>2. Sound'
  BY DEF WorktreeInv, Sound, OneWorks, AskedOnce, ReceiptsTrue, Working, Truthful
<1> QED
  BY <1>1, <1>2 DEF WorktreeInv

LEMMA TasksTruthful ==
  ASSUME WorktreeInv
  PROVE  /\ Truthful(task) /\ Truthful(saved)
         /\ \A c \in Click : Truthful(click[c].next)
BY DEF WorktreeInv, Typed, WindowTyped, ClicksTyped, ClickType, Sound, ReceiptsTrue, Truthful

\* The status and the worktree of a task change, but not that it is cleaned.
LEMMA TaskChanges ==
  ASSUME NEW t, Truthful(t)
  PROVE  /\ \A s \in {"queued", "running", "succeeded", "failed"} :
              Truthful([t EXCEPT !.status = s])
         /\ Truthful([t EXCEPT !.status = "running", !.wt = "created"])
         /\ \A w \in Recoverable, r \in Nat, g \in Nat :
              Truthful([t EXCEPT !.wt = w, !.rev = r, !.sig = g])
BY DEF Truthful, TaskType, Recoverable

LEMMA ProposalTyped ==
  ASSUME NEW t \in TaskType, NEW s, tip \in Nat, edits \in Nat
  PROVE  /\ Proposal(t, s) \in ProposalType
         /\ NoProposal \in ProposalType
BY DEF Proposal, NoProposal, TaskType, ProposalType

LEMMA WorldKeeps ==
  ASSUME WorktreeInv, World, UNCHANGED <<isOpen, window, task, buffer, durableTask, past>>
  PROVE  WorktreeInv'
<1>1. HostTyped'
  <2>1. /\ dir \in Nat /\ tip \in Nat /\ edits \in Nat /\ used \in Nat /\ used + 1 \in Nat
        /\ listed \in BOOLEAN
    BY DEF WorktreeInv, Typed, HostTyped
  <2>2. used' = used + 1 /\ UNCHANGED <<sessionUp, registered, lease, orphan>>
    BY DEF World, Commit, Edit, RemoveDir, ReplaceDir, Prune, DropBranch, Other, New, records
  <2>3. /\ dir' \in {dir, 0, used + 1} /\ tip' \in {tip, 0, used + 1}
        /\ edits' \in {edits, 0, used + 1} /\ listed' \in {listed, FALSE}
    BY DEF World, Commit, Edit, RemoveDir, ReplaceDir, Prune, DropBranch, Other, New
  <2>4. registered \in Nat /\ orphan \in Nat /\ sessionUp \in BOOLEAN /\ lease \in LeaseType
    BY DEF WorktreeInv, Typed, HostTyped
  <2>5. dir' \in Nat /\ tip' \in Nat /\ edits' \in Nat /\ used' \in Nat /\ listed' \in BOOLEAN
    <3>1. dir' \in Nat /\ tip' \in Nat
      BY <2>1, <2>3
    <3>2. edits' \in Nat /\ used' \in Nat
      BY <2>1, <2>2, <2>3
    <3>3. listed' \in BOOLEAN
      BY <2>1, <2>3
    <3> QED
      BY <3>1, <3>2, <3>3
  <2>6. registered' \in Nat /\ orphan' \in Nat /\ sessionUp' \in BOOLEAN /\ lease' \in LeaseType
    BY <2>2, <2>4
  <2> QED
    BY <2>5, <2>6 DEF HostTyped
<1>2. WindowTyped'
  BY DEF WorktreeInv, Typed, WindowTyped, window, durableTask, past
<1>3. UNCHANGED <<click, effect, dialogs, confirmed, finished, task, saved>>
  BY DEF window, durableTask, past
<1> QED
  BY <1>1, <1>2, <1>3, TasksTruthful, CalmStep

\* What becomes of the host's variables in a command.
LEMMA HostKeeps ==
  ASSUME HostTyped
  PROVE  /\ \A n, a \in BOOLEAN : AddWorktree(n, a) => HostTyped'
         /\ RevertWorktree \/ Register => HostTyped'
         /\ \A r \in Nat : RevertBranch(r) => HostTyped'
         /\ \A d \in Nat, r \in Nat : DeleteBranch(d, r) \/ RemoveWorktree(d) => HostTyped'
         /\ UNCHANGED wtHostVars => HostTyped'
         /\ \A up \in BOOLEAN : UNCHANGED repo /\ ResetSession(up) => HostTyped'
<1> USE DEF HostTyped, repo, records, wtHostVars
<1>0. NoWtLease \in LeaseType
  BY DEF NoWtLease, LeaseType
<1>1. ASSUME NEW n \in BOOLEAN, NEW a \in BOOLEAN, AddWorktree(n, a)
      PROVE  HostTyped'
  <2>1. used + 1 \in Nat /\ Base \in Nat
    BY DEF Base
  <2>2. dir' = used + 1 /\ listed' = TRUE /\ edits' = 0 /\ used' = used + 1
        /\ tip' \in {Base, tip} /\ UNCHANGED <<sessionUp, registered, orphan>>
    BY <1>1 DEF AddWorktree, New
  <2>3. lease' \in {lease, [dir |-> used + 1, rev |-> Base, removed |-> FALSE],
                    [dir |-> used + 1, rev |-> tip, removed |-> FALSE]}
    BY <1>1 DEF AddWorktree, New
  <2>4. lease' \in LeaseType
    <3>1. [dir |-> used + 1, rev |-> Base, removed |-> FALSE] \in LeaseType
      BY <2>1 DEF LeaseType
    <3>2. [dir |-> used + 1, rev |-> tip, removed |-> FALSE] \in LeaseType
      BY <2>1 DEF LeaseType
    <3> QED
      BY <2>3, <3>1, <3>2
  <2>5. dir' \in Nat /\ listed' \in BOOLEAN /\ edits' \in Nat /\ used' \in Nat /\ tip' \in Nat
    BY <2>1, <2>2
  <2> QED
    BY <2>2, <2>4, <2>5
<1>2. RevertWorktree \/ Register => HostTyped'
  <2>1. [lease EXCEPT !.removed = TRUE] \in LeaseType
    BY DEF LeaseType
  <2>2. ASSUME RevertWorktree
        PROVE  HostTyped'
    <3>1. lease' \in LeaseType
      BY <2>1, <2>2 DEF RevertWorktree
    <3>2. dir' = 0 /\ listed' = FALSE /\ edits' = 0
          /\ UNCHANGED <<tip, used, sessionUp, registered, orphan>>
      BY <2>2 DEF RevertWorktree
    <3> QED
      BY <3>1, <3>2
  <2>3. Register => HostTyped'
    BY <1>0 DEF Register
  <2> QED
    BY <2>2, <2>3
<1>3. \A r \in Nat : RevertBranch(r) => HostTyped'
  BY <1>0 DEF RevertBranch
<1>4. \A d \in Nat, r \in Nat : DeleteBranch(d, r) \/ RemoveWorktree(d) => HostTyped'
  <2>1. ASSUME NEW d \in Nat, NEW r \in Nat, DeleteBranch(d, r)
        PROVE  HostTyped'
    BY <2>1 DEF DeleteBranch
  <2>2. ASSUME NEW d \in Nat, RemoveWorktree(d)
        PROVE  HostTyped'
    BY <2>2 DEF RemoveWorktree
  <2> QED
    BY <2>1, <2>2
<1>5. \A up \in BOOLEAN : UNCHANGED repo /\ ResetSession(up) => HostTyped'
  BY <1>0 DEF ResetSession
<1> QED
  BY <1>1, <1>2, <1>3, <1>4, <1>5

LEMMA CreationKeeps ==
  ASSUME WorktreeInv, Create \/ Add \/ RegisterCreated \/ Undo \/ Succeed
  PROVE  WorktreeInv'
<1> USE DEF WorktreeInv, Typed
<1>1. Truthful(task) /\ Truthful(saved)
  BY TasksTruthful
<1>2. UNCHANGED <<click, effect, dialogs, confirmed, finished>>
  BY DEF Create, Add, RegisterCreated, Undo, Succeed, durableTask, past
<1>3. task' = task \/ task' = [task EXCEPT !.status = "failed"]
      \/ task' = [task EXCEPT !.status = "running", !.wt = "created"]
      \/ task' = [task EXCEPT !.status = "succeeded"]
  BY DEF Create, Add, RegisterCreated, Undo, Succeed
<1>4. Truthful(task')
  BY <1>1, <1>3, TaskChanges
<1>5. Truthful(saved') /\ (Succeed \/ saved' = saved)
  BY <1>1, <1>4 DEF Create, Add, RegisterCreated, Undo, Succeed, durableTask
<1>6. HostTyped'
  <2>1. (making = "new") \in BOOLEAN /\ info.rev \in Nat
    BY DEF WindowTyped, InfoType
  <2> QED
    BY <2>1, HostKeeps DEF Create, Add, RegisterCreated, Undo, Succeed
<1>7. task' \in TaskType /\ saved' \in TaskType
  BY <1>4, <1>5 DEF Truthful
<1>8. WindowTyped'
  <2>1. CASE Create
    BY <1>7, <2>1 DEF Create, WindowTyped, durableTask, past
  <2>2. CASE Add
    <3>1. info' \in {info, [NoInfo EXCEPT !.st = "created"]} /\ wtFaults' \in {wtFaults, wtFaults + 1}
          /\ making' \in {"added", "no"}
      BY <2>2 DEF Add, Fault
    <3>2. [NoInfo EXCEPT !.st = "created"] \in InfoType
      BY DEF NoInfo, Recoverable, InfoType
    <3> QED
      BY <1>7, <2>2, <3>1, <3>2 DEF Add, WindowTyped, durableTask
  <2>3. CASE RegisterCreated
    BY <1>7, <2>3 DEF RegisterCreated, WindowTyped, durableTask, Fault
  <2>4. CASE Undo
    <3>1. info' \in {info, NoInfo, [info EXCEPT !.rev = tip], [info EXCEPT !.st = "orphaned"]}
          /\ making' \in {"remove", "branch", "no"}
      BY <2>4 DEF Undo
    <3>2. {NoInfo, [info EXCEPT !.rev = tip], [info EXCEPT !.st = "orphaned"]}
             \subseteq InfoType
      BY DEF NoInfo, Recoverable, Durable, WindowTyped, HostTyped, InfoType
    <3>3. info' \in InfoType
      BY <3>1, <3>2 DEF WindowTyped
    <3> QED
      BY <1>7, <2>4, <3>1, <3>3 DEF Undo, WindowTyped, durableTask, past
  <2>5. CASE Succeed
    <3>1. proposal' = Proposal(task', info.st)
      BY <2>5 DEF Succeed
    <3>2. proposal' \in ProposalType
      BY <1>7, <3>1, ProposalTyped DEF HostTyped
    <3> QED
      BY <1>7, <2>5, <3>2 DEF Succeed, WindowTyped, past
  <2> QED
    BY <2>1, <2>2, <2>3, <2>4, <2>5
<1> QED
  BY <1>2, <1>4, <1>5, <1>6, <1>8, CalmStep

LEMMA WindowKeeps ==
  ASSUME WorktreeInv, Approve \/ SaveProject \/ Skip \/ LeaveProject \/ EndSession
  PROVE  WorktreeInv'
<1> USE DEF WorktreeInv, Typed
<1>1. Truthful(task) /\ Truthful(saved)
  BY TasksTruthful
<1>2. UNCHANGED <<click, effect, dialogs, confirmed, finished>>
  BY DEF Approve, SaveProject, Skip, LeaveProject, EndSession, window, durableTask, past
<1>3. task' \in {task, [task EXCEPT !.status = "failed"]} /\ saved' \in {saved, task}
  BY DEF Approve, SaveProject, Skip, LeaveProject, EndSession, window, durableTask, past
<1>4. Truthful(task') /\ Truthful(saved')
  BY <1>1, <1>3, TaskChanges
<1>5. HostTyped'
  <2>1. CASE EndSession
    BY <2>1, HostKeeps DEF EndSession
  <2>2. CASE ~EndSession
    BY <2>2, HostKeeps DEF Approve, SaveProject, Skip, LeaveProject
  <2> QED
    BY <2>1, <2>2
<1>6. task' \in TaskType /\ saved' \in TaskType
  BY <1>4 DEF Truthful
<1>7. proposal' \in ProposalType
  <2>1. [proposal EXCEPT !.approved = TRUE] \in ProposalType
    BY DEF WindowTyped, ProposalType
  <2>2. NoProposal \in ProposalType
    BY DEF NoProposal, ProposalType
  <2>3. proposal' \in {proposal, [proposal EXCEPT !.approved = TRUE], NoProposal}
    BY DEF Approve, SaveProject, Skip, LeaveProject, EndSession, window
  <2> QED
    BY <2>1, <2>2, <2>3 DEF WindowTyped
<1>8. approval' \in ApprovalType
  <2>1. approval' \in {approval, [on |-> TRUE, rev |-> proposal.rev, sig |-> proposal.sig]}
    BY DEF Approve, SaveProject, Skip, LeaveProject, EndSession, window
  <2>2. [on |-> TRUE, rev |-> proposal.rev, sig |-> proposal.sig] \in ApprovalType
    BY DEF WindowTyped, ProposalType, ApprovalType
  <2> QED
    BY <2>1, <2>2 DEF WindowTyped
<1>9. /\ isOpen' \in BOOLEAN /\ review' \in BOOLEAN /\ UNCHANGED <<making, info, opens, wtFaults>>
      /\ buffer' \subseteq {"TaskCleaned", "TaskFailed"}
  BY DEF Approve, SaveProject, Skip, LeaveProject, EndSession, window, past, WindowTyped
<1> QED
  BY <1>2, <1>4, <1>5, <1>6, <1>7, <1>8, <1>9, CalmStep DEF WindowTyped

LEMMA OpenKeeps ==
  ASSUME WorktreeInv, OpenProject
  PROVE  WorktreeInv'
<1> USE DEF WorktreeInv, Typed
<1>1. Truthful(saved)
  BY TasksTruthful
<1>2. UNCHANGED <<click, effect, dialogs, confirmed, finished>>
  BY DEF OpenProject
<1>3. Truthful(task') /\ task' = LoadedTask(saved)
  <2>1. task' = LoadedTask(saved)
    BY DEF OpenProject
  <2> QED
    BY <1>1, <2>1 DEF LoadedTask, Cleaned, Truthful, TaskType
<1>4. Truthful(saved')
  BY <1>1, <1>3 DEF OpenProject
<1>5. HostTyped'
  <2>1. NoWtLease \in LeaseType
    BY DEF NoWtLease, LeaseType
  <2> QED
    BY <2>1 DEF OpenProject, HostTyped, repo
<1>6. task' \in TaskType /\ saved' \in TaskType
  BY <1>3, <1>4 DEF Truthful
<1>7. info' \in InfoType
  <2>1. info' = RestoredInfo(saved)
    BY DEF OpenProject
  <2>2. saved.rev \in Nat
    BY DEF WindowTyped, TaskType
  <2>3. \A w \in Recoverable : [st |-> w, rev |-> saved.rev]
                               \in InfoType
    BY <2>2 DEF InfoType
  <2>4. NoInfo \in InfoType
    BY DEF NoInfo, InfoType
  <2>5. "created" \in Recoverable /\ "orphaned" \in Recoverable /\ "registration-pending" \in Recoverable
    BY DEF Recoverable, Durable
  <2>6. info' = NoInfo \/ \E w \in Recoverable : info' = [st |-> w, rev |-> saved.rev]
    BY <2>1, <2>5 DEF RestoredInfo
  <2> QED
    BY <2>3, <2>4, <2>6
<1>8. proposal' \in ProposalType
  <2>1. UNCHANGED <<tip, edits>>
    BY DEF OpenProject, repo
  <2>2. proposal' \in {NoProposal, Proposal(task', info'.st)}
    BY <2>1 DEF OpenProject, repo, Proposal
  <2> QED
    BY <1>6, <2>1, <2>2, ProposalTyped DEF HostTyped
<1>9. WindowTyped'
  BY <1>6, <1>7, <1>8 DEF OpenProject, WindowTyped, NoApproval, ApprovalType, Fault
<1> QED
  BY <1>2, <1>3, <1>4, <1>5, <1>9, CalmStep

LEMMA CrashKeeps ==
  ASSUME WorktreeInv, CrashProgram
  PROVE  WorktreeInv'
<1> USE DEF WorktreeInv, Typed
<1>1. NoTask \in TaskType /\ NoTask.cleaned = FALSE
  BY DEF NoTask, TaskType
<1>2. Idle \in ClickType /\ Idle.at = "idle" /\ Idle.next.cleaned = FALSE
  BY <1>1 DEF Idle, ClickType, ClickPlaces, InHost
<1>3. UNCHANGED <<repo, task, saved, effect, opens, dialogs, confirmed, finished, wtFaults>>
  BY DEF CrashProgram, durableTask, past
<1>4. HostTyped'
  BY <1>3, HostKeeps DEF CrashProgram
<1>5. WindowTyped'
  <2>1. NoInfo \in InfoType /\ NoProposal \in ProposalType /\ NoApproval \in ApprovalType
    BY DEF NoInfo, InfoType, NoProposal, ProposalType, NoApproval, ApprovalType
  <2> QED
    BY <1>3, <2>1 DEF CrashProgram, WindowTyped
<1>6. \A c \in Click : click'[c] = Idle
  BY DEF CrashProgram
<1>7. ClicksTyped'
  BY <1>2, <1>3 DEF CrashProgram, ClicksTyped
<1>8. Sound'
  BY <1>2, <1>3, <1>6 DEF Sound, OneWorks, AskedOnce, ReceiptsTrue, Working
<1> QED
  BY <1>4, <1>5, <1>7, <1>8

-----------------------------------------------------------------------------
(* The steps of a click.                                                   *)

\* One click moves from one place to the next and keeps what it has read.
LEMMA GoMoves ==
  ASSUME click \in [Click -> ClickType], NEW c \in Click, NEW at \in ClickPlaces, Go(c, at)
  PROVE  /\ click' \in [Click -> ClickType]
         /\ \A d \in Click : d # c => click'[d] = click[d]
         /\ click'[c].at = at /\ click'[c].next = click[c].next /\ click'[c].rev = click[c].rev
<1> DEFINE k == [click[c] EXCEPT !.at = at]
<1>1. k \in ClickType /\ k.at = at /\ k.next = click[c].next /\ k.rev = click[c].rev
  BY DEF ClickType
<1>2. click' = [click EXCEPT ![c] = k]
  BY DEF Go
<1> HIDE DEF k
<1> QED
  BY <1>1, <1>2

\* The click c is as it was, but for its place and what it has read.
Moved(c) ==
  /\ click' \in [Click -> ClickType]
  /\ \A d \in Click : d # c => click'[d] = click[d]
  /\ click'[c].next.cleaned => effect' = "receipt"

LEMMA Going ==
  ASSUME WorktreeInv, NEW c \in Click, NEW at \in ClickPlaces, Go(c, at),
         effect' = "receipt" \/ effect # "receipt"
  PROVE  Moved(c) /\ click'[c].at = at /\ click'[c].rev = click[c].rev
<1>1. click \in [Click -> ClickType]
  BY DEF WorktreeInv, Typed, ClicksTyped
<1>2. click[c].next.cleaned => effect = "receipt"
  BY DEF WorktreeInv, Sound, ReceiptsTrue
<1> QED
  BY <1>1, <1>2, GoMoves DEF Moved

\* A click that works on the clean-up goes on with it, and asks nobody.
LEMMA WorkStep ==
  ASSUME WorktreeInv, NEW c \in Click, Working(c), Moved(c), HostTyped', WindowTyped',
         UNCHANGED <<effect, task, saved>>,
         dialogs' \in Nat, confirmed' \in SUBSET Nat, finished' \in BOOLEAN,
         confirmed \subseteq confirmed', finished => finished',
         dialogs' = dialogs \/ (dialogs' = dialogs + 1 /\ click[c].at = "ask"),
         click'[c].at \in {"ask", "dialog", "delete", "remove", "unregister", "receipt",
                           "threw", "unknown", "idle", "save"},
         click'[c].at = "ask" => click[c].at = "confirm" /\ dialogs' = dialogs,
         click'[c].at = "delete" => click'[c].rev \in confirmed',
         click'[c].at = "unregister" => finished',
         click'[c].at = "receipt" => click[c].at = "unregister"
  PROVE  WorktreeInv'
<1> USE DEF WorktreeInv, Typed, Sound
<1>1. effect = "started"
  BY DEF OneWorks
<1>2. \A d \in Click : d # c => ~Working(d) /\ ~Working(d)'
  BY DEF OneWorks, Working, Moved
<1>3. OneWorks'
  BY <1>1, <1>2 DEF OneWorks
<1>4. AskedOnce'
  <2>1. dialogs' <= 1
    <3>1. click[c].at = "ask" => dialogs = 0
      BY DEF AskedOnce
    <3> QED
      BY <3>1 DEF AskedOnce
  <2>2. click'[c].at # "confirm" /\ (click'[c].at = "ask" => dialogs' = 0)
    BY DEF AskedOnce
  <2>3. \A d \in Click : d # c => click'[d].at \notin {"confirm", "ask", "delete"}
    BY <1>2 DEF Working
  <2> QED
    BY <1>1, <2>1, <2>2, <2>3 DEF AskedOnce
<1>5. ReceiptsTrue'
  <2>1. click'[c].at # "mark" /\ (click'[c].at \in {"unregister", "receipt"} => finished')
    BY DEF ReceiptsTrue
  <2>2. \A d \in Click : d # c => click'[d] = click[d]
    BY DEF Moved
  <2> QED
    BY <1>1, <2>1, <2>2 DEF ReceiptsTrue, Moved
<1>6. ClicksTyped'
  BY DEF ClicksTyped, Moved
<1> QED
  BY <1>3, <1>4, <1>5, <1>6

\* A click that does not work on the clean-up goes on with it if it is the one the
\* journal takes, and otherwise leaves the journal alone.
LEMMA IdleStep ==
  ASSUME WorktreeInv, NEW c \in Click, ~Working(c), Moved(c), HostTyped', WindowTyped',
         UNCHANGED <<dialogs, confirmed, finished>>,
         Truthful(task'), Truthful(saved'),
         \/ effect' = effect /\ ~Working(c)'
         \/ effect = "none" /\ effect' = "started"
              /\ (click'[c].at = "confirm" \/ ~Working(c)'),
         click'[c].at = "mark" => effect' = "receipt"
  PROVE  WorktreeInv'
<1> USE DEF WorktreeInv, Typed, Sound
<1>1. \A d \in Click : d # c => click'[d] = click[d] /\ (Working(d)' <=> Working(d))
  BY DEF Moved, Working
<1>2. effect = "none" => \A d \in Click : ~Working(d)
  BY DEF OneWorks
<1>3. OneWorks'
  BY <1>1, <1>2 DEF OneWorks
<1>4. click'[c].at \notin {"ask", "delete", "unregister", "receipt"}
  BY DEF Working
<1>5. click'[c].at = "confirm" => effect = "none"
  BY DEF Working
<1>6. AskedOnce'
  BY <1>1, <1>4, <1>5 DEF AskedOnce
<1>7. ReceiptsTrue'
  BY <1>1, <1>4 DEF ReceiptsTrue, Moved, Truthful
<1>8. ClicksTyped'
  BY DEF ClicksTyped, Moved
<1> QED
  BY <1>3, <1>6, <1>7, <1>8

\* A click that ends its work writes what became of it into the journal.
LEMMA EndStep ==
  ASSUME WorktreeInv, NEW c \in Click, Working(c), Moved(c), HostTyped', WindowTyped',
         UNCHANGED <<dialogs, confirmed, finished>>,
         ~Working(c)', click'[c].at # "mark" \/ effect' = "receipt",
         effect' \in {"started", "unknown", "receipt"},
         effect' = "receipt" => click[c].at = "receipt",
         task'.cleaned => effect' = "receipt", saved'.cleaned => effect' = "receipt"
  PROVE  WorktreeInv'
<1> USE DEF WorktreeInv, Typed, Sound
<1>1. effect = "started"
  BY DEF OneWorks
<1>2. \A d \in Click : d # c => click'[d] = click[d] /\ ~Working(d) /\ ~Working(d)'
  BY DEF OneWorks, Moved, Working
<1>3. OneWorks'
  BY <1>2 DEF OneWorks
<1>4. \A d \in Click : click'[d].at \notin {"confirm", "ask", "delete", "unregister", "receipt"}
  BY <1>2 DEF Working
<1>5. AskedOnce'
  BY <1>1, <1>4 DEF AskedOnce
<1>6. ReceiptsTrue'
  BY <1>1, <1>2, <1>4 DEF ReceiptsTrue, Moved
<1>7. ClicksTyped'
  BY DEF ClicksTyped, Moved
<1> QED
  BY <1>3, <1>5, <1>6, <1>7

LEMMA RejectedTyped ==
  ASSUME WorktreeInv, NEW c \in Click, Rejected(c)
  PROVE  approval' \in ApprovalType /\ Go(c, "unknown")
BY DEF Rejected, WorktreeInv, Typed, WindowTyped, ApprovalType

LEMMA RefusedTyped ==
  ASSUME WorktreeInv, NEW c \in Click, HostRefused(c)
  PROVE  info' \in InfoType /\ approval' \in ApprovalType /\ Go(c, "unknown")
<1>1. approval' \in ApprovalType /\ Go(c, "unknown")
  BY RejectedTyped DEF HostRefused
<1>2. click[c].rev \in Nat /\ info \in InfoType
  BY DEF WorktreeInv, Typed, ClicksTyped, ClickType, WindowTyped
<1>3. [st |-> "orphaned", rev |-> click[c].rev] \in InfoType
  BY <1>2 DEF InfoType, Recoverable, Durable
<1>4. info' \in InfoType
  BY <1>2, <1>3 DEF HostRefused
<1> QED
  BY <1>1, <1>4

LEMMA CleanUpKeeps ==
  ASSUME WorktreeInv, NEW c \in Click, CleanUp(c)
  PROVE  WorktreeInv'
<1> DEFINE k == [Idle EXCEPT !.at = "claim", !.rev = proposal.rev, !.sig = proposal.sig, !.next = task]
<1>1. proposal.rev \in Nat /\ proposal.sig \in Nat /\ task \in TaskType
  BY DEF WorktreeInv, Typed, WindowTyped, ProposalType
<1>2. k \in ClickType /\ k.at = "claim" /\ k.next = task
  BY <1>1 DEF Idle, ClickType, ClickPlaces, TaskType
<1>3. click' = [click EXCEPT ![c] = k] /\ click[c].at = "idle"
  BY DEF CleanUp
<1> HIDE DEF k
<1>4. UNCHANGED <<wtHostVars, isOpen, making, info, proposal, approval, review, task, buffer,
                  saved, effect, opens, dialogs, confirmed, finished, wtFaults>>
  BY DEF CleanUp, durableTask, past
<1>5. /\ click' \in [Click -> ClickType] /\ \A d \in Click : d # c => click'[d] = click[d]
      /\ click'[c] = k
  BY <1>2, <1>3 DEF WorktreeInv, Typed, ClicksTyped
<1>6. Moved(c)
  BY <1>2, <1>4, <1>5 DEF Moved, WorktreeInv, Sound, ReceiptsTrue
<1>7. ~Working(c) /\ ~Working(c)' /\ click'[c].at = "claim"
  BY <1>2, <1>3, <1>5 DEF Working
<1>8. HostTyped' /\ WindowTyped'
  BY <1>4, HostKeeps DEF WorktreeInv, Typed, WindowTyped
<1> QED
  BY <1>4, <1>6, <1>7, <1>8, IdleStep, TasksTruthful DEF Truthful

LEMMA ClaimKeeps ==
  ASSUME WorktreeInv, NEW c \in Click, Claim(c)
  PROVE  WorktreeInv'
<1>1. UNCHANGED <<wtHostVars, isOpen, making, info, proposal, approval, review, task, buffer,
                  saved, opens, dialogs, confirmed, finished, wtFaults>>
  BY DEF Claim, past
<1>2. PICK at \in {"mark", "idle", "confirm"} :
        /\ Go(c, at)
        /\ \/ effect' = effect /\ at # "confirm"
           \/ effect = "none" /\ effect' = "started" /\ at # "mark"
        /\ at = "mark" => effect' = "receipt"
  BY DEF Claim
<1>3. at \in ClickPlaces /\ (effect' = "receipt" \/ effect # "receipt")
  BY <1>2 DEF ClickPlaces
<1>4. Moved(c) /\ click'[c].at = at
  BY <1>2, <1>3, Going
<1>5. ~Working(c) /\ (at # "confirm" => ~Working(c)')
  BY <1>2, <1>4 DEF Claim, Working
<1>6. HostTyped' /\ WindowTyped'
  BY <1>1, HostKeeps DEF WorktreeInv, Typed, WindowTyped
<1>7. Truthful(task) /\ Truthful(saved) /\ (effect' = "receipt" \/ effect # "receipt")
  BY <1>3, TasksTruthful
<1>8. Truthful(task') /\ Truthful(saved')
  BY <1>1, <1>7 DEF Truthful
<1> QED
  BY <1>1, <1>2, <1>4, <1>5, <1>6, <1>8, IdleStep

\* The window is left alone but for its records and the failures.
LEMMA WindowRecords ==
  ASSUME WorktreeInv, info' \in InfoType, approval' \in ApprovalType, proposal' \in ProposalType,
         review' \in BOOLEAN, wtFaults' \in Nat, task' \in TaskType, saved' \in TaskType,
         buffer' \subseteq {"TaskCleaned", "TaskFailed"},
         UNCHANGED <<isOpen, making, opens>>
  PROVE  WindowTyped'
BY DEF WorktreeInv, Typed, WindowTyped

LEMMA RecordsTyped ==
  ASSUME WorktreeInv
  PROVE  /\ info \in InfoType /\ approval \in ApprovalType /\ proposal \in ProposalType
         /\ review \in BOOLEAN /\ isOpen \in BOOLEAN /\ wtFaults \in Nat
         /\ task \in TaskType /\ saved \in TaskType
         /\ buffer \subseteq {"TaskCleaned", "TaskFailed"}
         /\ HostTyped /\ dialogs \in Nat /\ confirmed \in SUBSET Nat /\ finished \in BOOLEAN
         /\ dir \in Nat /\ click \in [Click -> ClickType]
BY DEF WorktreeInv, Typed, WindowTyped, ClicksTyped, HostTyped

LEMMA ConfirmKeeps ==
  ASSUME WorktreeInv, NEW c \in Click, Confirm(c)
  PROVE  WorktreeInv'
<1>1. UNCHANGED <<wtHostVars, isOpen, making, info, proposal, review, task, buffer,
                  saved, effect, opens, dialogs, confirmed, finished, wtFaults>>
  BY DEF Confirm, durableTask, past
<1>2. Working(c) /\ click[c].at = "confirm"
  BY DEF Confirm, Working
<1>3. PICK at \in {"ask", "unknown", "threw"} : Go(c, at) /\ approval' \in ApprovalType
  BY <1>1, RejectedTyped, RecordsTyped DEF Confirm
<1>4. Moved(c) /\ click'[c].at = at
  BY <1>1, <1>2, <1>3, Going DEF ClickPlaces, WorktreeInv, Sound, OneWorks
<1>5. HostTyped' /\ WindowTyped'
  BY <1>1, <1>3, HostKeeps, RecordsTyped, WindowRecords
<1> QED
  BY <1>1, <1>2, <1>3, <1>4, <1>5, RecordsTyped, WorkStep

LEMMA AskKeeps ==
  ASSUME WorktreeInv, NEW c \in Click, AskUser(c)
  PROVE  WorktreeInv'
<1>1. UNCHANGED <<wtHostVars, isOpen, making, proposal, review, task, buffer,
                  saved, effect, opens, confirmed, finished, wtFaults>>
  BY DEF AskUser, durableTask
<1>2. Working(c) /\ click[c].at = "ask" /\ effect = "started"
  BY DEF AskUser, Working, WorktreeInv, Sound, OneWorks
<1>3. CASE Askable(click[c].rev) /\ click' = [click EXCEPT ![c].at = "dialog", ![c].target = dir]
           /\ dialogs' = dialogs + 1 /\ UNCHANGED <<info, approval>>
  <2> DEFINE k == [click[c] EXCEPT !.at = "dialog", !.target = dir]
  <2>1. k \in ClickType /\ k.at = "dialog" /\ k.next = click[c].next
    BY RecordsTyped DEF ClickType, ClickPlaces, InHost
  <2>2. click' = [click EXCEPT ![c] = k]
    BY <1>3, RecordsTyped DEF ClickType
  <2> HIDE DEF k
  <2>3. click' \in [Click -> ClickType] /\ click'[c] = k /\ \A d \in Click : d # c => click'[d] = click[d]
    BY <2>1, <2>2, RecordsTyped
  <2>4. Moved(c) /\ click'[c].at = "dialog"
    BY <1>1, <2>1, <2>3 DEF Moved, WorktreeInv, Sound, ReceiptsTrue
  <2>5. HostTyped' /\ WindowTyped'
    BY <1>1, <1>3, HostKeeps, RecordsTyped, WindowRecords
  <2>6. dialogs' \in Nat
    BY <1>3, RecordsTyped
  <2> QED
    BY <1>1, <1>2, <1>3, <2>4, <2>5, <2>6, RecordsTyped, WorkStep
<1>4. CASE HostRefused(c) /\ UNCHANGED dialogs
  <2>1. info' \in InfoType /\ approval' \in ApprovalType /\ Go(c, "unknown")
    BY <1>4, RefusedTyped
  <2>2. Moved(c) /\ click'[c].at = "unknown"
    BY <1>1, <1>2, <2>1, Going DEF ClickPlaces
  <2>3. HostTyped' /\ WindowTyped'
    BY <1>1, <2>1, HostKeeps, RecordsTyped, WindowRecords
  <2> QED
    BY <1>1, <1>2, <1>4, <2>2, <2>3, RecordsTyped, WorkStep
<1> QED
  BY <1>3, <1>4 DEF AskUser

LEMMA AnswerKeeps ==
  ASSUME WorktreeInv, NEW c \in Click, Answer(c)
  PROVE  WorktreeInv'
<1>1. UNCHANGED <<wtHostVars, isOpen, making, proposal, review, task, buffer,
                  saved, effect, opens, dialogs, finished, wtFaults>>
  BY DEF Answer, durableTask
<1>2. Working(c) /\ click[c].at = "dialog" /\ effect = "started" /\ click[c].rev \in Nat
  BY RecordsTyped DEF Answer, Working, WorktreeInv, Sound, OneWorks, ClickType
<1>3. PICK at \in {"delete", "unknown"} :
        /\ Go(c, at) /\ info' \in InfoType /\ approval' \in ApprovalType
        /\ confirmed' \in SUBSET Nat /\ confirmed \subseteq confirmed'
        /\ at = "delete" => click[c].rev \in confirmed'
  <2>1. PICK yes \in BOOLEAN :
          /\ confirmed' = IF yes THEN confirmed \cup {click[c].rev} ELSE confirmed
          /\ IF yes /\ Confirmable(click[c].target)
             THEN Go(c, "delete") /\ UNCHANGED <<info, approval>>
             ELSE HostRefused(c)
    BY DEF Answer
  <2>2. confirmed' \in SUBSET Nat /\ confirmed \subseteq confirmed'
    BY <1>2, <2>1, RecordsTyped
  <2>3. CASE yes /\ Confirmable(click[c].target)
    BY <2>1, <2>2, <2>3, RecordsTyped
  <2>4. CASE ~(yes /\ Confirmable(click[c].target))
    BY <2>1, <2>2, <2>4, RefusedTyped
  <2> QED
    BY <2>3, <2>4
<1>4. Moved(c) /\ click'[c].at = at /\ click'[c].rev = click[c].rev
  BY <1>1, <1>2, <1>3, Going DEF ClickPlaces
<1>5. HostTyped' /\ WindowTyped'
  BY <1>1, <1>3, HostKeeps, RecordsTyped, WindowRecords
<1> QED
  BY <1>1, <1>2, <1>3, <1>4, <1>5, RecordsTyped, WorkStep

LEMMA DeleteKeeps ==
  ASSUME WorktreeInv, NEW c \in Click, Delete(c)
  PROVE  WorktreeInv'
<1>1. UNCHANGED <<isOpen, making, proposal, review, task, buffer,
                  saved, effect, opens, dialogs, confirmed, finished, wtFaults>>
  BY DEF Delete, durableTask, past
<1>2. Working(c) /\ click[c].at = "delete" /\ effect = "started"
      /\ click[c].rev \in Nat /\ click[c].target \in Nat
  BY RecordsTyped DEF Delete, Working, WorktreeInv, Sound, OneWorks, ClickType
<1>3. PICK at \in {"remove", "unknown"} :
        Go(c, at) /\ info' \in InfoType /\ approval' \in ApprovalType
  BY RefusedTyped, RecordsTyped DEF Delete
<1>4. Moved(c) /\ click'[c].at = at
  BY <1>1, <1>2, <1>3, Going DEF ClickPlaces, InHost
<1>5. HostTyped'
  BY <1>2, HostKeeps, RecordsTyped DEF Delete
<1>6. WindowTyped'
  BY <1>1, <1>3, RecordsTyped, WindowRecords
<1> QED
  BY <1>1, <1>2, <1>3, <1>4, <1>5, <1>6, RecordsTyped, WorkStep

LEMMA RemoveKeeps ==
  ASSUME WorktreeInv, NEW c \in Click, Remove(c)
  PROVE  WorktreeInv'
<1>1. UNCHANGED <<isOpen, making, proposal, review, task, buffer,
                  saved, effect, opens, dialogs, confirmed>>
  BY DEF Remove, durableTask
<1>2. Working(c) /\ click[c].at = "remove" /\ effect = "started" /\ click[c].target \in Nat
  BY RecordsTyped DEF Remove, Working, WorktreeInv, Sound, OneWorks, ClickType
<1>3. [info EXCEPT !.st = "cleaned"] \in InfoType
  BY RecordsTyped DEF InfoType
<1>4. PICK at \in {"unregister", "unknown"} :
        /\ Go(c, at) /\ info' \in InfoType /\ approval' \in ApprovalType
        /\ finished' \in BOOLEAN /\ (finished => finished') /\ (at = "unregister" => finished')
  <2>1. CASE info' = [info EXCEPT !.st = "cleaned"] /\ finished' = TRUE
             /\ Go(c, "unregister") /\ UNCHANGED approval
    BY <1>3, <2>1, RecordsTyped
  <2>2. CASE HostRefused(c) /\ UNCHANGED finished
    BY <2>2, RefusedTyped, RecordsTyped
  <2> QED
    BY <2>1, <2>2 DEF Remove
<1>5. Moved(c) /\ click'[c].at = at
  BY <1>1, <1>2, <1>4, Going DEF ClickPlaces
<1>6. HostTyped'
  <2>1. RemoveWorktree(click[c].target) \/ UNCHANGED wtHostVars
    BY DEF Remove
  <2>2. 0 \in Nat
    OBVIOUS
  <2> QED
    BY <1>2, <2>1, <2>2, HostKeeps, RecordsTyped
<1>7. wtFaults' \in Nat
  BY RecordsTyped DEF Remove, Fault
<1>8. WindowTyped'
  BY <1>1, <1>4, <1>7, RecordsTyped, WindowRecords
<1> QED
  BY <1>1, <1>2, <1>4, <1>5, <1>6, <1>8, RecordsTyped, WorkStep

LEMMA UnregisterKeeps ==
  ASSUME WorktreeInv, NEW c \in Click, Unregister(c)
  PROVE  WorktreeInv'
<1>1. UNCHANGED <<wtHostVars, isOpen, making, proposal, review, task, buffer,
                  saved, effect, opens, dialogs, confirmed, finished>>
  BY DEF Unregister, durableTask
<1>2. Working(c) /\ click[c].at = "unregister" /\ effect = "started"
  BY DEF Unregister, Working, WorktreeInv, Sound, OneWorks
<1>3. [info EXCEPT !.st = "registration-pending"] \in InfoType
      /\ [approval EXCEPT !.on = FALSE] \in ApprovalType
  BY RecordsTyped DEF InfoType, ApprovalType, Recoverable, Durable
<1>4. PICK at \in {"receipt", "unknown"} :
        Go(c, at) /\ info' \in InfoType /\ approval' \in ApprovalType
  BY <1>3, RecordsTyped DEF Unregister
<1>5. Moved(c) /\ click'[c].at = at
  BY <1>1, <1>2, <1>4, Going DEF ClickPlaces
<1>6. wtFaults' \in Nat
  BY RecordsTyped DEF Unregister, Fault
<1>7. HostTyped' /\ WindowTyped'
  BY <1>1, <1>4, <1>6, HostKeeps, RecordsTyped, WindowRecords
<1> QED
  BY <1>1, <1>2, <1>4, <1>5, <1>7, RecordsTyped, WorkStep

LEMMA ReceiptKeeps ==
  ASSUME WorktreeInv, NEW c \in Click, Receipt(c)
  PROVE  WorktreeInv'
<1>1. UNCHANGED <<wtHostVars, isOpen, making, info, proposal, approval, review, task, buffer,
                  saved, opens, dialogs, confirmed, finished>>
  BY DEF Receipt
<1>2. Working(c) /\ click[c].at = "receipt" /\ effect = "started"
  BY DEF Receipt, Working, WorktreeInv, Sound, OneWorks
<1>3. wtFaults' \in Nat
  BY RecordsTyped DEF Receipt, Fault
<1>4. HostTyped' /\ WindowTyped'
  BY <1>1, <1>3, HostKeeps, RecordsTyped, WindowRecords
<1>5. task.cleaned = FALSE /\ saved.cleaned = FALSE
  BY <1>2, RecordsTyped DEF WorktreeInv, Sound, ReceiptsTrue, TaskType
<1>6. CASE Go(c, "mark") /\ effect' = "receipt"
  <2>1. Moved(c) /\ click'[c].at = "mark"
    BY <1>6, Going DEF ClickPlaces
  <2>2. ~Working(c)'
    BY <2>1 DEF Working
  <2> QED
    BY <1>1, <1>2, <1>4, <1>6, <2>1, <2>2, EndStep
<1>7. CASE Go(c, "threw") /\ UNCHANGED effect
  <2>1. Moved(c) /\ click'[c].at = "threw"
    BY <1>2, <1>7, Going DEF ClickPlaces
  <2> QED
    BY <1>1, <1>2, <1>4, <1>7, <2>1, RecordsTyped, WorkStep
<1> QED
  BY <1>6, <1>7 DEF Receipt

LEMMA ThrewKeeps ==
  ASSUME WorktreeInv, NEW c \in Click, Threw(c)
  PROVE  WorktreeInv'
<1>1. UNCHANGED <<wtHostVars, isOpen, making, info, proposal, approval, review, task, buffer,
                  saved, opens, dialogs, confirmed, finished>>
  BY DEF Threw
<1>2. Working(c) /\ click[c].at = "threw" /\ effect = "started"
  BY DEF Threw, Working, WorktreeInv, Sound, OneWorks
<1>3. wtFaults' \in Nat
  BY RecordsTyped DEF Threw, Fault
<1>4. HostTyped' /\ WindowTyped'
  BY <1>1, <1>3, HostKeeps, RecordsTyped, WindowRecords
<1>5. task.cleaned = FALSE /\ saved.cleaned = FALSE
  BY <1>2, RecordsTyped DEF WorktreeInv, Sound, ReceiptsTrue, TaskType
<1>6. Moved(c) /\ click'[c].at = "idle"
  BY <1>2, Going DEF Threw, ClickPlaces
<1>7. ~Working(c)'
  BY <1>6 DEF Working
<1>8. effect' \in {"started", "unknown"}
  BY <1>2 DEF Threw
<1> QED
  BY <1>1, <1>2, <1>4, <1>5, <1>6, <1>7, <1>8, EndStep

LEMMA CleanedTruthful ==
  ASSUME NEW t \in TaskType, effect = "receipt"
  PROVE  Truthful(Cleaned(t))
BY DEF Truthful, Cleaned, TaskType

LEMMA MarkKeeps ==
  ASSUME WorktreeInv, NEW c \in Click, Mark(c)
  PROVE  WorktreeInv'
<1>1. UNCHANGED <<wtHostVars, isOpen, making, info, proposal, approval, review,
                  saved, effect, opens, dialogs, confirmed, finished, wtFaults>>
  BY DEF Mark, durableTask, past
<1>2. click[c].at = "mark" /\ effect = "receipt" /\ click[c].next \in TaskType /\ ~Working(c)
  BY RecordsTyped DEF Mark, Working, WorktreeInv, Sound, ReceiptsTrue, ClickType
<1> DEFINE t == Cleaned(click[c].next)
           k == [click[c] EXCEPT !.at = "save", !.next = t]
<1>3. Truthful(t)
  BY <1>2, CleanedTruthful
<1>4. t \in TaskType
  BY <1>3 DEF Truthful
<1> HIDE DEF t
<1>5. k \in ClickType /\ k.at = "save"
  BY <1>4, RecordsTyped DEF ClickType, ClickPlaces
<1>6. click' = [click EXCEPT ![c] = k]
  BY RecordsTyped DEF Mark, ClickType, t
<1> HIDE DEF k
<1>7. click' \in [Click -> ClickType] /\ click'[c] = k /\ \A d \in Click : d # c => click'[d] = click[d]
  BY <1>5, <1>6, RecordsTyped
<1>8. Moved(c) /\ ~Working(c)' /\ click'[c].at = "save"
  BY <1>1, <1>2, <1>5, <1>7 DEF Moved, Working
<1>9. task' \in {t, task}
  BY DEF Mark, Store, t
<1>10. Truthful(task') /\ Truthful(saved')
  BY <1>1, <1>3, <1>9, TasksTruthful DEF Truthful
<1>11. buffer' \subseteq {"TaskCleaned", "TaskFailed"}
  BY RecordsTyped DEF Mark
<1>12. HostTyped' /\ WindowTyped'
  BY <1>1, <1>10, <1>11, HostKeeps, RecordsTyped, WindowRecords DEF Truthful
<1> QED
  BY <1>1, <1>2, <1>8, <1>10, <1>12, IdleStep

LEMMA UnknownKeeps ==
  ASSUME WorktreeInv, NEW c \in Click, Unknown(c)
  PROVE  WorktreeInv'
<1>1. UNCHANGED <<wtHostVars, isOpen, making, info, approval, buffer, saved,
                  opens, dialogs, confirmed, finished>>
  BY DEF Unknown
<1>2. /\ Working(c) /\ click[c].at = "unknown" /\ effect = "started"
      /\ click[c].next \in TaskType /\ click[c].sig \in Nat
  BY RecordsTyped DEF Unknown, Working, WorktreeInv, Sound, OneWorks, ClickType
<1>3. /\ task.cleaned = FALSE /\ saved.cleaned = FALSE /\ click[c].next.cleaned = FALSE
  BY <1>2, RecordsTyped DEF WorktreeInv, Sound, ReceiptsTrue, TaskType
<1>4. NoProposal \in ProposalType
  BY DEF NoProposal, ProposalType
<1>5. CASE Fault /\ Go(c, "threw") /\ UNCHANGED <<effect, review, proposal, task>>
  <2>1. Moved(c) /\ click'[c].at = "threw"
    BY <1>2, <1>5, Going DEF ClickPlaces
  <2>2. wtFaults' \in Nat
    BY <1>5, RecordsTyped DEF Fault
  <2>3. HostTyped' /\ WindowTyped'
    BY <1>1, <1>5, <2>2, HostKeeps, RecordsTyped, WindowRecords
  <2> QED
    BY <1>1, <1>2, <1>5, <2>1, <2>3, RecordsTyped, WorkStep
<1>6. CASE effect' = "unknown" /\ review' = isOpen /\ proposal' = NoProposal /\ UNCHANGED wtFaults
           /\ ~(info.st \in Recoverable) /\ Go(c, "idle") /\ UNCHANGED task
  <2>1. Moved(c) /\ click'[c].at = "idle"
    BY <1>2, <1>6, Going DEF ClickPlaces
  <2>2. ~Working(c)'
    BY <2>1 DEF Working
  <2>3. HostTyped' /\ WindowTyped'
    BY <1>1, <1>4, <1>6, HostKeeps, RecordsTyped, WindowRecords
  <2> QED
    BY <1>1, <1>2, <1>3, <1>6, <2>1, <2>2, <2>3, EndStep
<1>7. CASE effect' = "unknown" /\ review' = isOpen /\ proposal' = NoProposal /\ UNCHANGED wtFaults
           /\ info.st \in Recoverable
           /\ LET t == [click[c].next EXCEPT !.wt = info.st, !.rev = info.rev, !.sig = click[c].sig]
              IN  click' = [click EXCEPT ![c].at = "save", ![c].next = t] /\ Store(t)
  <2> DEFINE t == [click[c].next EXCEPT !.wt = info.st, !.rev = info.rev, !.sig = click[c].sig]
             k == [click[c] EXCEPT !.at = "save", !.next = t]
  <2>1. info.st \in Recoverable /\ info.rev \in Nat
    BY <1>7, RecordsTyped DEF InfoType
  <2>2. t \in TaskType /\ t.cleaned = FALSE
    BY <1>2, <1>3, <2>1 DEF TaskType
  <2>3. click' = [click EXCEPT ![c] = k] /\ Store(t)
    BY <1>7, RecordsTyped DEF ClickType
  <2> HIDE DEF t
  <2>4. k \in ClickType /\ k.at = "save" /\ k.next = t
    BY <2>2, RecordsTyped DEF ClickType, ClickPlaces
  <2> HIDE DEF k
  <2>5. click' \in [Click -> ClickType] /\ click'[c] = k /\ \A d \in Click : d # c => click'[d] = click[d]
    BY <2>3, <2>4, RecordsTyped
  <2>6. Moved(c) /\ ~Working(c)' /\ click'[c].at = "save"
    BY <2>2, <2>4, <2>5 DEF Moved, Working
  <2>7. task' \in TaskType /\ task'.cleaned = FALSE
    BY <1>3, <2>2, <2>3, RecordsTyped DEF Store
  <2>8. HostTyped' /\ WindowTyped'
    BY <1>1, <1>4, <1>7, <2>7, HostKeeps, RecordsTyped, WindowRecords
  <2> QED
    BY <1>1, <1>2, <1>3, <1>7, <2>6, <2>7, <2>8, EndStep
<1> QED
  BY <1>5, <1>6, <1>7 DEF Unknown

LEMMA SaveKeeps ==
  ASSUME WorktreeInv, NEW c \in Click, Save(c)
  PROVE  WorktreeInv'
<1>1. UNCHANGED <<wtHostVars, isOpen, making, info, proposal, approval, review, task, effect,
                  opens, dialogs, confirmed, finished>>
  BY DEF Save
<1>2. click[c].at = "save" /\ ~Working(c)
  BY DEF Save, Working
<1>3. PICK at \in {"refresh", "idle"} : Go(c, at)
  BY DEF Save
<1>4. Moved(c) /\ click'[c].at = at
  BY <1>1, <1>3, Going DEF ClickPlaces
<1>5. ~Working(c)'
  BY <1>3, <1>4 DEF Working
<1>6. saved' \in {saved, task, click[c].next} /\ wtFaults' \in {wtFaults, wtFaults + 1}
      /\ buffer' \subseteq {"TaskCleaned", "TaskFailed"}
  BY RecordsTyped DEF Save, Write, Fault
<1>7. Truthful(task') /\ Truthful(saved')
  BY <1>1, <1>6, TasksTruthful DEF Truthful
<1>8. wtFaults' \in Nat
  BY <1>6, RecordsTyped
<1>9. HostTyped' /\ WindowTyped'
  BY <1>1, <1>6, <1>7, <1>8, HostKeeps, RecordsTyped, WindowRecords DEF Truthful
<1> QED
  BY <1>1, <1>2, <1>3, <1>4, <1>5, <1>7, <1>9, IdleStep

LEMMA RefreshKeeps ==
  ASSUME WorktreeInv, NEW c \in Click, Refresh(c)
  PROVE  WorktreeInv'
<1>1. UNCHANGED <<wtHostVars, isOpen, making, info, approval, review, task, buffer,
                  saved, effect, opens, dialogs, confirmed, finished, wtFaults>>
  BY DEF Refresh, durableTask, past
<1>2. click[c].at = "refresh" /\ ~Working(c)
  BY DEF Refresh, Working
<1>3. Moved(c) /\ click'[c].at = "idle"
  BY <1>1, Going DEF Refresh, ClickPlaces
<1>4. ~Working(c)'
  BY <1>3 DEF Working
<1>5. proposal' \in ProposalType
  BY RecordsTyped, ProposalTyped DEF Refresh, HostTyped
<1>6. Truthful(task') /\ Truthful(saved')
  BY <1>1, TasksTruthful DEF Truthful
<1>7. HostTyped' /\ WindowTyped'
  BY <1>1, <1>5, HostKeeps, RecordsTyped, WindowRecords
<1> QED
  BY <1>1, <1>2, <1>3, <1>4, <1>6, <1>7, IdleStep

LEMMA WorktreeInvNext == WorktreeInv /\ [WtNext]_wtVars => WorktreeInv'
<1> SUFFICES ASSUME WorktreeInv, [WtNext]_wtVars
             PROVE  WorktreeInv'
  OBVIOUS
<1>1. CASE UNCHANGED wtVars
  <2>1. UNCHANGED <<wtHostVars, isOpen, making, info, proposal, approval, review, click, task,
                    buffer, saved, effect, opens, dialogs, confirmed, finished, wtFaults>>
    BY <1>1 DEF wtVars, window, durableTask, past
  <2>2. HostTyped' /\ WindowTyped'
    BY <2>1, HostKeeps, RecordsTyped, WindowRecords
  <2>3. Truthful(task') /\ Truthful(saved')
    BY <2>1, TasksTruthful DEF Truthful
  <2> QED
    BY <2>1, <2>2, <2>3, CalmStep
<1>2. CASE WtNext
  <2>1. ASSUME NEW c \in Click, Clicks(c)
        PROVE  WorktreeInv'
    BY <2>1, CleanUpKeeps, ClaimKeeps, ConfirmKeeps, AskKeeps, AnswerKeeps, DeleteKeeps,
       RemoveKeeps, UnregisterKeeps, ReceiptKeeps, ThrewKeeps, MarkKeeps, UnknownKeeps,
       SaveKeeps, RefreshKeeps DEF Clicks
  <2> QED
    BY <1>2, <2>1, WorldKeeps, CreationKeeps, WindowKeeps, OpenKeeps, CrashKeeps DEF WtNext
<1> QED
  BY <1>1, <1>2

LEMMA WorktreeInvAlways == WtSpec => []WorktreeInv
BY WorktreeInvInit, WorktreeInvNext, PTL DEF WtSpec

-----------------------------------------------------------------------------
(* What a user can rely on.                                                *)

\* The window, the host, the journal and the file keep their types.
THEOREM CleanupTyped == WtSpec => []WtTypeOK
<1>1. WorktreeInv => WtTypeOK
  BY DEF WorktreeInv, Typed, HostTyped, WindowTyped, ClicksTyped, WtTypeOK, HostTypeOK,
         LeaseType, InfoType, ProposalType, ApprovalType, TaskType, ClickType
<1> QED
  BY <1>1, WorktreeInvAlways, PTL

\* An attempt is cleaned up at most once, with any number of clicks and openings.
THEOREM OneCleanup == WtSpec => []CleanupOnce
<1>1. WorktreeInv => CleanupOnce
  BY DEF WorktreeInv, Sound, AskedOnce, CleanupOnce
<1> QED
  BY <1>1, WorktreeInvAlways, PTL

\* A task shown or saved as cleaned has its receipt, and its worktree is gone.
THEOREM CleanedHasReceipt == WtSpec => []CleanedBacked
<1>1. WorktreeInv => CleanedBacked
  BY DEF WorktreeInv, Sound, ReceiptsTrue, CleanedBacked
<1> QED
  BY <1>1, WorktreeInvAlways, PTL

\* An attempt is cleaned up at most once, and shown as cleaned only with a receipt.
THEOREM CleanupIsSound == WtSpec => []CleanupSound
  BY OneCleanup, CleanedHasReceipt, PTL DEF CleanupSound

\* Whoever moves the branch meanwhile, the program deletes it only at a revision
\* the user has confirmed, or where it was when the program made its worktree.
THEOREM CommitsStay == WtSpec => CommitsKept
<1>1. WorktreeInv /\ [WtNext]_wtVars
        => [tip # 0 /\ tip' = 0 /\ used' = used => tip \in {Base, lease.rev} \cup confirmed]_wtVars
  <2> SUFFICES ASSUME WorktreeInv, WtNext, tip # 0, tip' = 0, used' = used
               PROVE  tip \in {lease.rev} \cup confirmed
    OBVIOUS
  <2>1. used \in Nat /\ used + 1 # used
    BY DEF WorktreeInv, Typed, HostTyped
  <2>2. ~World
    BY <2>1 DEF World, Commit, Edit, RemoveDir, ReplaceDir, Prune, DropBranch, Other, New
  <2>3. ~\E n, a \in BOOLEAN : AddWorktree(n, a)
    BY <2>1 DEF AddWorktree, New
  <2>4. tip' # tip
    OBVIOUS
  <2>5. CASE Create \/ Add \/ RegisterCreated \/ Undo \/ Succeed
    <3>1. Undo /\ RevertBranch(info.rev)
      <4>1. (making = "new") \in BOOLEAN
        OBVIOUS
      <4> QED
        BY <2>3, <2>4, <2>5, <4>1
           DEF Create, Add, RegisterCreated, Undo, Succeed, wtHostVars, repo, Register, RevertWorktree
    <3> QED
      BY <3>1 DEF RevertBranch, BranchRevertible
  <2>6. ASSUME NEW c \in Click, Clicks(c)
        PROVE  tip \in confirmed
    <3>1. DeleteBranch(click[c].target, click[c].rev) /\ click[c].at = "delete"
      BY <2>4, <2>6 DEF Clicks, CleanUp, Claim, Confirm, AskUser, Answer, Delete, Remove, Unregister,
             Receipt, Threw, Mark, Unknown, Save, Refresh, wtHostVars, repo, RemoveWorktree
    <3> QED
      BY <3>1 DEF DeleteBranch, Deletable, WorktreeInv, Sound, AskedOnce
  <2>7. CASE Approve \/ SaveProject \/ Skip \/ LeaveProject \/ EndSession \/ CrashProgram \/ OpenProject
    BY <2>4, <2>7 DEF Approve, SaveProject, Skip, LeaveProject, EndSession, CrashProgram, OpenProject,
           wtHostVars, repo
  <2> QED
    BY <2>2, <2>5, <2>6, <2>7 DEF WtNext
<1> QED
  BY <1>1, WorktreeInvAlways, PTL DEF WtSpec, CommitsKept

-----------------------------------------------------------------------------
(* A receipt reaches the project file.  The clean-up is only ever of an    *)
(* attempt that has succeeded in the file too, a failure the user gives it *)
(* follows an unknown outcome, and from the receipt on, as long as nothing *)
(* fails and the project stays open, some click still has to write it.     *)

Claimed == effect # "none" \/ \E c \in Click : click[c].at # "idle"

Story ==
  /\ making # "no" => isOpen /\ task.status = "queued"
  /\ "TaskFailed" \in buffer => effect = "unknown"
  /\ isOpen /\ task.status = "succeeded" => saved.status = "succeeded"
  /\ Claimed => /\ saved.status = "succeeded"
                /\ isOpen => \/ task.status = "succeeded"
                             \/ task.status = "failed" /\ "TaskFailed" \in buffer
  /\ \A c \in Click : click[c].at # "idle" => click[c].next.status = "succeeded"

Writes(c) == click[c].at = "mark" \/ (click[c].at = "save" /\ task.cleaned)

Reached ==
  /\ isOpen /\ effect # "unknown" /\ saved.cleaned => task.cleaned
  /\ isOpen /\ effect = "receipt" /\ wtFaults = 0 => saved.cleaned \/ \E c \in Click : Writes(c)

FileInv == WorktreeInv /\ Story /\ Reached

LEMMA FileInvInit == WtInit => FileInv
<1> SUFFICES ASSUME WtInit PROVE FileInv
  OBVIOUS
<1>1. \A c \in Click : click[c] = Idle
  BY DEF WtInit
<1>2. Story
  BY <1>1 DEF WtInit, Story, Claimed, Idle, NoTask
<1>3. Reached
  BY DEF WtInit, Reached, NoTask
<1> QED
  BY <1>2, <1>3, WorktreeInvInit DEF FileInv

LEMMA CleanUpRests ==
  ASSUME FileInv
  PROVE  /\ effect \in {"none", "started", "unknown", "receipt"} /\ task.cleaned \in BOOLEAN
         /\ \A c \in Click : /\ Working(c) => effect = "started"
                             /\ click[c].at = "mark" => effect = "receipt"
         /\ click \in [Click -> ClickType] /\ task \in TaskType /\ saved \in TaskType /\ wtFaults \in Nat
         /\ buffer \subseteq {"TaskCleaned", "TaskFailed"}
BY DEF FileInv, WorktreeInv, Typed, ClicksTyped, WindowTyped, TaskType, Sound, OneWorks, ReceiptsTrue

\* A step that leaves the task alone in the store, the file and the buffer.
LEMMA QuietStep ==
  ASSUME FileInv, UNCHANGED <<isOpen, making, task, saved, buffer>>,
         wtFaults' = 0 => wtFaults = 0,
         \/ effect' = effect
         \/ effect' \in {"started", "unknown"} /\ Claimed /\ (effect = "unknown" => effect' = "unknown"),
         \A d \in Click : click'[d].at # "idle" =>
           click[d].at # "idle" /\ click'[d].next.status = click[d].next.status,
         effect' = "receipt" =>
           \A d \in Click : click[d].at \in {"mark", "save"} => click'[d].at = click[d].at
  PROVE  Story' /\ Reached'
<1>1. Claimed' => Claimed
  BY DEF Claimed
<1>2. effect = "unknown" => effect' = "unknown"
  OBVIOUS
<1>3. Story'
  BY <1>1, <1>2 DEF FileInv, Story
<1>4. effect' = "receipt" => effect = "receipt" /\ \A d \in Click : Writes(d) => Writes(d)'
  BY DEF Writes
<1>5. Reached'
  BY <1>2, <1>4 DEF FileInv, Reached
<1> QED
  BY <1>3, <1>5

\* A click that works goes on with its work, or ends it with an unknown outcome.
LEMMA WorkingMoves ==
  ASSUME FileInv, NEW c \in Click, Working(c), NEW at \in ClickPlaces, Go(c, at),
         UNCHANGED <<isOpen, making, task, saved, buffer>>,
         wtFaults' = 0 => wtFaults = 0, effect' \in {effect, "unknown"}
  PROVE  Story' /\ Reached'
<1>1. /\ \A d \in Click : d # c => click'[d] = click[d]
      /\ click'[c].next = click[c].next
  BY CleanUpRests, GoMoves
<1>2. effect = "started" /\ click[c].at \notin {"idle", "mark", "save"} /\ Claimed
  BY CleanUpRests DEF Working, Claimed
<1>3. \A d \in Click : click'[d].at # "idle" =>
        click[d].at # "idle" /\ click'[d].next.status = click[d].next.status
  BY <1>1, <1>2
<1>4. effect' # "receipt" /\ (effect' = effect \/ effect' = "unknown")
  BY <1>2
<1> QED
  BY <1>2, <1>3, <1>4, QuietStep

LEMMA FaultCounts == ASSUME FileInv PROVE Fault => wtFaults' # 0
BY CleanUpRests DEF Fault

LEMMA WorkKeepsFile ==
  ASSUME FileInv, NEW c \in Click,
         Confirm(c) \/ AskUser(c) \/ Answer(c) \/ Delete(c) \/ Remove(c) \/ Unregister(c) \/ Threw(c)
  PROVE  Story' /\ Reached'
<1>1. UNCHANGED <<isOpen, making, task, saved, buffer>> /\ effect' \in {effect, "unknown"} /\ Working(c)
      /\ (wtFaults' = wtFaults \/ Fault)
  BY DEF Confirm, AskUser, Answer, Delete, Remove, Unregister, Threw, durableTask, past, Working
<1>2. wtFaults' = 0 => wtFaults = 0
  BY <1>1, FaultCounts
<1>3. CASE \E at \in ClickPlaces : Go(c, at)
  BY <1>1, <1>2, <1>3, WorkingMoves
<1>4. CASE AskUser(c) /\ click' = [click EXCEPT ![c].at = "dialog", ![c].target = dir]
  <2>1. /\ \A d \in Click : d # c => click'[d] = click[d]
        /\ click'[c].next = click[c].next
    BY <1>4, CleanUpRests DEF ClickType
  <2>2. effect' = effect /\ click[c].at = "ask" /\ effect # "receipt"
    BY <1>4, CleanUpRests DEF AskUser, durableTask, Working
  <2>3. \A d \in Click : click'[d].at # "idle" =>
          click[d].at # "idle" /\ click'[d].next.status = click[d].next.status
    BY <2>1, <2>2
  <2> QED
    BY <1>1, <1>2, <2>2, <2>3, QuietStep
<1>5. \/ \E at \in ClickPlaces : Go(c, at)
      \/ AskUser(c) /\ click' = [click EXCEPT ![c].at = "dialog", ![c].target = dir]
  BY DEF Confirm, AskUser, Answer, Delete, Remove, Unregister, Threw, HostRefused, Rejected,
         ClickPlaces, InHost
<1> QED
  BY <1>3, <1>4, <1>5

LEMMA CleanUpKeepsFile ==
  ASSUME FileInv, NEW c \in Click, CleanUp(c)
  PROVE  Story' /\ Reached'
<1> DEFINE k == [Idle EXCEPT !.at = "claim", !.rev = proposal.rev, !.sig = proposal.sig, !.next = task]
<1>1. k.at = "claim" /\ k.next = task
  BY DEF Idle
<1>2. click' = [click EXCEPT ![c] = k] /\ click[c].at = "idle"
      /\ isOpen /\ task.status = "succeeded"
      /\ UNCHANGED <<isOpen, making, task, saved, buffer, effect, wtFaults>>
  BY DEF CleanUp, Cleanable, durableTask, past
<1> HIDE DEF k
<1>3. click'[c] = k /\ \A d \in Click : d # c => click'[d] = click[d]
  BY <1>2, CleanUpRests
<1>4. Story'
  BY <1>1, <1>2, <1>3 DEF FileInv, Story, Claimed
<1>5. \A d \in Click : Writes(d) => Writes(d)'
  BY <1>2, <1>3 DEF Writes
<1>6. Reached'
  BY <1>2, <1>5 DEF FileInv, Reached
<1> QED
  BY <1>4, <1>6

LEMMA ClaimKeepsFile ==
  ASSUME FileInv, NEW c \in Click, Claim(c)
  PROVE  Story' /\ Reached'
<1>1. UNCHANGED <<isOpen, making, task, saved, buffer, wtFaults>> /\ click[c].at = "claim"
  BY DEF Claim, past
<1>2. PICK at \in {"mark", "idle", "confirm"} :
        /\ Go(c, at)
        /\ \/ effect' = effect
           \/ effect = "none" /\ effect' = "started"
  BY DEF Claim
<1>3. at \in ClickPlaces
  BY DEF ClickPlaces
<1>4. /\ \A d \in Click : d # c => click'[d] = click[d]
      /\ click'[c].next = click[c].next
  BY <1>2, <1>3, CleanUpRests, GoMoves
<1>5. \A d \in Click : click'[d].at # "idle" =>
        click[d].at # "idle" /\ click'[d].next.status = click[d].next.status
  BY <1>1, <1>4
<1>6. \A d \in Click : click[d].at \in {"mark", "save"} => click'[d].at = click[d].at
  BY <1>1, <1>4
<1>7. Claimed
  BY <1>1 DEF Claimed
<1> QED
  BY <1>1, <1>2, <1>5, <1>6, <1>7, QuietStep

LEMMA RefreshKeepsFile ==
  ASSUME FileInv, NEW c \in Click, Refresh(c)
  PROVE  Story' /\ Reached'
<1>1. UNCHANGED <<isOpen, making, task, saved, buffer, wtFaults, effect>> /\ click[c].at = "refresh"
      /\ Go(c, "idle") /\ "idle" \in ClickPlaces
  BY DEF Refresh, durableTask, past, ClickPlaces
<1>2. /\ \A d \in Click : d # c => click'[d] = click[d]
      /\ click'[c].at = "idle" /\ click'[c].next = click[c].next
  BY <1>1, CleanUpRests, GoMoves
<1>3. \A d \in Click : click'[d].at # "idle" =>
        click[d].at # "idle" /\ click'[d].next.status = click[d].next.status
  BY <1>2
<1>4. \A d \in Click : click[d].at \in {"mark", "save"} => click'[d].at = click[d].at
  BY <1>1, <1>2
<1> QED
  BY <1>1, <1>3, <1>4, QuietStep

LEMMA ReceiptKeepsFile ==
  ASSUME FileInv, NEW c \in Click, Receipt(c)
  PROVE  Story' /\ Reached'
<1>1. UNCHANGED <<isOpen, making, task, saved, buffer>> /\ click[c].at = "receipt"
  BY DEF Receipt
<1>2. Working(c) /\ effect = "started" /\ Claimed
  BY <1>1, CleanUpRests DEF Working, Claimed
<1>3. CASE effect' = "receipt" /\ Go(c, "mark")
  <2>1. "mark" \in ClickPlaces
    BY DEF ClickPlaces
  <2>2. /\ \A d \in Click : d # c => click'[d] = click[d]
        /\ click'[c].at = "mark" /\ click'[c].next = click[c].next
    BY <1>3, <2>1, CleanUpRests, GoMoves
  <2>3. \A d \in Click : click'[d].at # "idle" => click'[d].next.status = "succeeded"
    BY <1>1, <2>2 DEF FileInv, Story
  <2>4. "TaskFailed" \notin buffer
    BY <1>2 DEF FileInv, Story
  <2>5. Story'
    BY <1>1, <1>2, <2>3, <2>4 DEF FileInv, Story
  <2>6. Reached'
    BY <1>1, <1>2, <2>2 DEF FileInv, Reached, Writes
  <2> QED
    BY <2>5, <2>6
<1>4. CASE Fault /\ Go(c, "threw") /\ UNCHANGED effect
  <2>1. "threw" \in ClickPlaces
    BY DEF ClickPlaces
  <2> QED
    BY <1>1, <1>2, <1>4, <2>1, FaultCounts, WorkingMoves
<1> QED
  BY <1>3, <1>4 DEF Receipt

LEMMA CleanedTask == ASSUME NEW t \in TaskType PROVE Cleaned(t).cleaned /\ Cleaned(t).status = t.status
BY DEF Cleaned, TaskType

LEMMA MarkKeepsFile ==
  ASSUME FileInv, NEW c \in Click, Mark(c)
  PROVE  Story' /\ Reached'
<1> DEFINE t == Cleaned(click[c].next)
           k == [click[c] EXCEPT !.at = "save", !.next = t]
<1>1. /\ click[c].at = "mark" /\ effect = "receipt" /\ click[c].next \in TaskType
      /\ UNCHANGED <<isOpen, making, saved, effect, wtFaults>>
      /\ buffer' = buffer \cup {"TaskCleaned"} /\ Claimed
  BY CleanUpRests DEF Mark, durableTask, past, Claimed, ClickType
<1>2. t.cleaned /\ t.status = "succeeded"
  BY <1>1, CleanedTask DEF FileInv, Story
<1>3. k.at = "save" /\ k.next = t /\ click' = [click EXCEPT ![c] = k]
  BY CleanUpRests DEF Mark, ClickType
<1> HIDE DEF t, k
<1>4. click'[c] = k /\ \A d \in Click : d # c => click'[d] = click[d]
  BY <1>3, CleanUpRests
<1>5. task' = IF isOpen THEN t ELSE task
  BY DEF Mark, Store, t
<1>6. "TaskFailed" \notin buffer /\ "TaskFailed" \notin buffer'
  BY <1>1 DEF FileInv, Story
<1>7. saved.status = "succeeded" /\ making = "no"
  BY <1>1, <1>6 DEF FileInv, Story
<1>8. Story'
  BY <1>1, <1>2, <1>3, <1>4, <1>5, <1>6, <1>7 DEF FileInv, Story
<1>9. Reached'
  BY <1>1, <1>2, <1>3, <1>4, <1>5 DEF Reached, Writes
<1> QED
  BY <1>8, <1>9

LEMMA UnknownKeepsFile ==
  ASSUME FileInv, NEW c \in Click, Unknown(c)
  PROVE  Story' /\ Reached'
<1>1. UNCHANGED <<isOpen, making, saved, buffer>> /\ click[c].at = "unknown"
  BY DEF Unknown
<1>2. Working(c) /\ effect = "started" /\ Claimed /\ click[c].next \in TaskType
  BY <1>1, CleanUpRests DEF Working, Claimed, ClickType
<1>3. CASE Fault /\ Go(c, "threw") /\ UNCHANGED <<effect, review, proposal, task>>
  <2>1. "threw" \in ClickPlaces
    BY DEF ClickPlaces
  <2> QED
    BY <1>1, <1>2, <1>3, <2>1, FaultCounts, WorkingMoves
<1>4. CASE effect' = "unknown" /\ UNCHANGED wtFaults /\ Go(c, "idle") /\ UNCHANGED task
  <2>1. "idle" \in ClickPlaces
    BY DEF ClickPlaces
  <2> QED
    BY <1>1, <1>2, <1>4, <2>1, WorkingMoves
<1>5. CASE /\ effect' = "unknown"
           /\ LET t == [click[c].next EXCEPT !.wt = info.st, !.rev = info.rev, !.sig = click[c].sig]
              IN  click' = [click EXCEPT ![c].at = "save", ![c].next = t] /\ Store(t)
  <2> DEFINE t == [click[c].next EXCEPT !.wt = info.st, !.rev = info.rev, !.sig = click[c].sig]
             k == [click[c] EXCEPT !.at = "save", !.next = t]
  <2>1. t.status = "succeeded"
    BY <1>1, <1>2 DEF FileInv, Story, TaskType
  <2>2. k.next = t /\ click' = [click EXCEPT ![c] = k] /\ Store(t)
    BY <1>5, CleanUpRests DEF ClickType
  <2> HIDE DEF t, k
  <2>3. click'[c] = k /\ \A d \in Click : d # c => click'[d] = click[d]
    BY <2>2, CleanUpRests
  <2>4. task' = IF isOpen THEN t ELSE task
    BY <2>2 DEF Store
  <2>5. "TaskFailed" \notin buffer
    BY <1>2 DEF FileInv, Story
  <2>6. saved.status = "succeeded" /\ making = "no"
    BY <1>2, <2>5 DEF FileInv, Story
  <2>7. Story'
    BY <1>1, <1>5, <2>1, <2>2, <2>3, <2>4, <2>5, <2>6 DEF FileInv, Story
  <2>8. Reached'
    BY <1>5 DEF Reached
  <2> QED
    BY <2>7, <2>8
<1> QED
  BY <1>3, <1>4, <1>5 DEF Unknown

LEMMA SaveKeepsFile ==
  ASSUME FileInv, NEW c \in Click, Save(c)
  PROVE  Story' /\ Reached'
<1>1. UNCHANGED <<isOpen, making, task, effect>> /\ click[c].at = "save" /\ Claimed
      /\ click[c].next.status = "succeeded"
  BY DEF Save, Claimed, FileInv, Story
<1>2. PICK at \in {"refresh", "idle"} : Go(c, at)
  BY DEF Save
<1>3. at \in ClickPlaces
  BY DEF ClickPlaces
<1>4. /\ \A d \in Click : d # c => click'[d] = click[d]
      /\ click'[c].at = at /\ click'[c].next = click[c].next
  BY <1>2, <1>3, CleanUpRests, GoMoves
<1>5. \A d \in Click : click'[d].at # "idle" => click'[d].next.status = "succeeded"
  BY <1>1, <1>4 DEF FileInv, Story
<1>6. Flushable <=> "TaskFailed" \notin buffer
  BY CleanUpRests DEF Flushable, Replays
<1>7. CASE Flushable /\ buffer' = {} /\ saved' = (IF isOpen THEN task ELSE click[c].next)
           /\ UNCHANGED wtFaults
  <2>1. saved'.status = "succeeded"
    BY <1>1, <1>6, <1>7 DEF FileInv, Story
  <2>2. isOpen => task.status = "succeeded"
    BY <1>1, <1>6, <1>7 DEF FileInv, Story
  <2>3. Story'
    BY <1>1, <1>5, <1>7, <2>1, <2>2 DEF FileInv, Story
  <2>4. ASSUME isOpen, effect = "receipt", wtFaults = 0
        PROVE  saved'.cleaned \/ \E d \in Click : Writes(d)'
    <3>1. saved.cleaned => task.cleaned
      BY <2>4 DEF FileInv, Reached
    <3>2. \A d \in Click : Writes(d) => task.cleaned \/ Writes(d)'
      BY <1>1, <1>4 DEF Writes
    <3> QED
      BY <1>7, <2>4, <3>1, <3>2 DEF FileInv, Reached
  <2>5. Reached'
    BY <1>1, <1>7, <2>4 DEF Reached
  <2> QED
    BY <2>3, <2>5
<1>8. CASE Fault /\ buffer' \in {buffer, IF Flushable THEN {} ELSE buffer} /\ UNCHANGED saved
  <2>1. "TaskFailed" \in buffer' <=> "TaskFailed" \in buffer
    BY <1>6, <1>8
  <2>2. Story'
    BY <1>1, <1>5, <1>8, <2>1 DEF FileInv, Story
  <2>3. Reached'
    BY <1>1, <1>8, FaultCounts DEF FileInv, Reached
  <2> QED
    BY <2>2, <2>3
<1>9. CASE ~Flushable /\ UNCHANGED <<buffer, saved, wtFaults>>
  <2>1. effect = "unknown"
    BY <1>6, <1>9 DEF FileInv, Story
  <2>2. Story'
    BY <1>1, <1>5, <1>9 DEF FileInv, Story
  <2>3. Reached'
    BY <1>1, <2>1 DEF Reached
  <2> QED
    BY <2>2, <2>3
<1> QED
  BY <1>7, <1>8, <1>9 DEF Save, Write

LEMMA CreationKeepsFile ==
  ASSUME FileInv, Create \/ Add \/ RegisterCreated \/ Undo \/ Succeed
  PROVE  Story' /\ Reached'
<1>1. UNCHANGED <<isOpen, click, effect, buffer>> /\ (wtFaults' = wtFaults \/ Fault)
  BY DEF Create, Add, RegisterCreated, Undo, Succeed, durableTask, past
<1>2. isOpen /\ task.status \in {"queued", "running"}
  BY DEF Create, Add, RegisterCreated, Undo, Succeed, FileInv, Story
<1>3. ~Claimed /\ ~Claimed' /\ effect = "none"
  BY <1>1, <1>2 DEF FileInv, Story, Claimed
<1>4. task.cleaned = FALSE /\ saved.cleaned = FALSE
  BY <1>3, CleanUpRests DEF FileInv, WorktreeInv, Sound, ReceiptsTrue, TaskType
<1>5. CASE Succeed
  <2>1. task' = [task EXCEPT !.status = "succeeded"] /\ saved' = task' /\ making' = making /\ making = "no"
    BY <1>5 DEF Succeed
  <2>2. Story'
    BY <1>1, <1>3, <2>1 DEF FileInv, Story, Claimed
  <2>3. Reached'
    BY <1>1, <1>3, <2>1 DEF Reached
  <2> QED
    BY <2>2, <2>3
<1>6. CASE ~Succeed
  <2>1. saved' = saved
    BY <1>6 DEF Create, Add, RegisterCreated, Undo, durableTask
  <2>2. \/ task' = task /\ (making' # "no" => task.status = "queued")
        \/ making' = "no" /\ \E s \in {"failed", "running"} :
             task' = [task EXCEPT !.status = s] \/ task' = [task EXCEPT !.status = s, !.wt = "created"]
    BY <1>6 DEF Create, Add, RegisterCreated, Undo, FileInv, Story
  <2>3. task' = task \/ task'.status \in {"failed", "running"}
    BY <2>2, CleanUpRests DEF TaskType
  <2>4. making' # "no" => task'.status = "queued"
    BY <2>2
  <2>5. task'.status = "succeeded" => task.status = "succeeded"
    BY <2>3
  <2>6. Story'
    BY <1>1, <1>2, <1>3, <2>1, <2>4, <2>5 DEF FileInv, Story, Claimed
  <2>7. Reached'
    BY <1>1, <1>3, <1>4, <2>1 DEF Reached
  <2> QED
    BY <2>6, <2>7
<1> QED
  BY <1>5, <1>6

LEMMA WindowKeepsFile ==
  ASSUME FileInv, Approve \/ SaveProject \/ Skip \/ LeaveProject \/ EndSession
  PROVE  Story' /\ Reached'
<1>1. UNCHANGED <<click, effect, wtFaults, making>> /\ (Claimed' <=> Claimed)
  BY DEF Approve, SaveProject, Skip, LeaveProject, EndSession, window, durableTask, past, Claimed
<1>2. CASE Approve \/ EndSession
  <2>1. UNCHANGED <<isOpen, task, saved, buffer>>
    BY <1>2 DEF Approve, EndSession, durableTask
  <2> QED
    BY <1>1, <2>1, QuietStep
<1>3. CASE SaveProject
  <2>1. isOpen /\ isOpen' /\ buffer' = {} /\ saved' = task /\ task' = task /\ "TaskFailed" \notin buffer
    BY <1>3 DEF SaveProject, Flushable, Replays
  <2>2. Claimed => task.status = "succeeded"
    BY <2>1 DEF FileInv, Story
  <2>3. Story'
    BY <1>1, <2>1, <2>2 DEF FileInv, Story
  <2>4. \A c \in Click : Writes(c) => Writes(c)'
    BY <1>1, <2>1 DEF Writes
  <2>5. Reached'
    BY <1>1, <2>1, <2>4 DEF FileInv, Reached
  <2> QED
    BY <2>3, <2>5
<1>4. CASE Skip
  <2>1. isOpen /\ isOpen' /\ effect = "unknown" /\ task' = [task EXCEPT !.status = "failed"]
        /\ buffer' = buffer \cup {"TaskFailed"} /\ saved' = saved
    BY <1>4 DEF Skip, durableTask
  <2>2. Claimed
    BY <2>1 DEF Claimed
  <2>3. making = "no" /\ task'.status = "failed"
    BY <2>1, <2>2, CleanUpRests DEF FileInv, Story, TaskType
  <2>4. Story'
    BY <1>1, <2>1, <2>3 DEF FileInv, Story
  <2>5. Reached'
    BY <1>1, <2>1 DEF Reached
  <2> QED
    BY <2>4, <2>5
<1>5. CASE LeaveProject
  <2>1. ~isOpen' /\ making = "no" /\ UNCHANGED <<task, saved, buffer>>
    BY <1>5 DEF LeaveProject, durableTask
  <2>2. Story'
    BY <1>1, <2>1 DEF FileInv, Story
  <2>3. Reached'
    BY <2>1 DEF Reached
  <2> QED
    BY <2>2, <2>3
<1> QED
  BY <1>2, <1>3, <1>4, <1>5

LEMMA CrashKeepsFile ==
  ASSUME FileInv, CrashProgram
  PROVE  Story' /\ Reached'
<1>1. ~isOpen' /\ making' = "no" /\ buffer' = {} /\ saved' = saved /\ effect' = effect
      /\ \A c \in Click : click'[c].at = "idle"
  BY DEF CrashProgram, durableTask, Idle
<1>2. Claimed' => Claimed
  BY <1>1 DEF Claimed
<1>3. Story'
  BY <1>1, <1>2 DEF FileInv, Story
<1> QED
  BY <1>1, <1>3 DEF Reached

LEMMA OpenKeepsFile ==
  ASSUME FileInv, OpenProject
  PROVE  Story' /\ Reached'
<1>1. /\ ~isOpen /\ isOpen' /\ UNCHANGED <<making, click, effect>>
      /\ task' = LoadedTask(saved) /\ "TaskFailed" \notin buffer'
      /\ \/ saved' = task' /\ UNCHANGED wtFaults
         \/ Fault /\ UNCHANGED saved
  BY DEF OpenProject
<1>2. making = "no" /\ (Claimed' <=> Claimed)
  BY <1>1 DEF FileInv, Story, Claimed
<1>3. /\ task'.status = saved.status /\ saved'.status = saved.status
      /\ saved.cleaned => task'.cleaned
      /\ effect = "receipt" /\ saved.status = "succeeded" => task'.cleaned
  BY <1>1, CleanUpRests, CleanedTask DEF LoadedTask, TaskType
<1>4. Story'
  BY <1>1, <1>2, <1>3 DEF FileInv, Story
<1>5. effect = "receipt" => saved.status = "succeeded"
  BY DEF FileInv, Story, Claimed
<1>6. Reached'
  BY <1>1, <1>3, <1>5, FaultCounts DEF Reached
<1> QED
  BY <1>4, <1>6

LEMMA FileInvNext == FileInv /\ [WtNext]_wtVars => FileInv'
<1> SUFFICES ASSUME FileInv, [WtNext]_wtVars PROVE FileInv'
  OBVIOUS
<1>1. WorktreeInv'
  BY WorktreeInvNext DEF FileInv
<1>2. CASE UNCHANGED <<isOpen, window, task, buffer, durableTask, past>>
  <2>1. UNCHANGED <<isOpen, making, task, saved, buffer, effect, wtFaults, click>>
    BY <1>2 DEF window, durableTask, past
  <2> QED
    BY <1>1, <2>1, QuietStep DEF FileInv
<1>3. ASSUME NEW c \in Click, Clicks(c) PROVE FileInv'
  BY <1>1, <1>3, WorkKeepsFile, CleanUpKeepsFile, ClaimKeepsFile, RefreshKeepsFile, ReceiptKeepsFile,
     MarkKeepsFile, UnknownKeepsFile, SaveKeepsFile DEF Clicks, FileInv
<1>4. CASE UNCHANGED wtVars
  <2>1. UNCHANGED <<isOpen, window, task, buffer, durableTask, past>>
    BY <1>4 DEF wtVars
  <2> QED
    BY <1>2, <2>1
<1> QED
  BY <1>1, <1>2, <1>3, <1>4, CreationKeepsFile, WindowKeepsFile, CrashKeepsFile, OpenKeepsFile
     DEF WtNext, FileInv

\* With no failure on the way, an open project at rest has a durable receipt in its
\* file too, whatever close or crash came between the journal and the file.
THEOREM ReceiptIsInFile == WtSpec => []ReceiptReachesFile
<1>1. FileInv => ReceiptReachesFile
  BY DEF FileInv, Reached, Writes, ReceiptReachesFile, AtRest
<1> QED
  BY <1>1, FileInvInit, FileInvNext, PTL DEF WtSpec

-----------------------------------------------------------------------------
(***************************************************************************)
(* ProjectStore. Whatever is not saved is shown as unsaved, the files of a *)
(* directory never go back to an earlier build, and a guarded save stays   *)
(* in its opening.                                                         *)
(***************************************************************************)

\* UnsavedShows, of a store.
Shows(s) ==
    s.saved.some =>
        \/ s.dirty
        \/ /\ s.agents = s.saved.agents
           /\ Graphs(Overlaid(s)) = Graphs(s.saved.flows)

\* A set() of the store that keeps its type and the mark.
Proper(s) == s \in StoreType /\ Shows(s)

-----------------------------------------------------------------------------
(* What the changes of the store make of it.                               *)

LEMMA OverlaidTyped ==
  ASSUME NEW s \in StoreType, NEW w \in FlowOrNone
  PROVE  /\ Overlaid(s) \in FlowsType
         /\ Overlaid([s EXCEPT !.active = w]) \in FlowsType
  BY DEF Overlaid, StoreType, FlowsType, FlowOrNone, Entry

\* projectDirtyController keeps everything but the mark.
LEMMA MarkedShows ==
  ASSUME NEW s \in StoreType
  PROVE  Proper(Marked(s))
<1> DEFINE m == Marked(s)
<1>1. m = [s EXCEPT !.dirty = s.dirty \/ ~s.saved.some \/ s.saved # Shot(s)]
  BY DEF Marked
<1>2. m \in StoreType
  BY <1>1 DEF StoreType
<1>3. /\ m.saved = s.saved /\ m.agents = s.agents
      /\ Overlaid(m) = Overlaid(s)
      /\ m.dirty = (s.dirty \/ ~s.saved.some \/ s.saved # Shot(s))
  BY <1>1 DEF StoreType, Overlaid
<1>4. ASSUME m.saved.some, ~m.dirty
      PROVE  m.agents = m.saved.agents /\ Graphs(Overlaid(m)) = Graphs(m.saved.flows)
  <2>1. s.saved = Shot(s)
    BY <1>3, <1>4
  <2>2. s.saved.flows = Overlaid(s) /\ s.saved.agents = s.agents
    BY <2>1 DEF Shot
  <2> QED
    BY <1>3, <2>2
<1> QED
  BY <1>2, <1>4 DEF Proper, Shows

\* The registry with a workflow changed, added or removed.
LEMMA RegistryTyped ==
  ASSUME NEW flows \in FlowsType, NEW w \in Flow, NEW g \in Nat, NEW a \in Nat
  PROVE  /\ [flows EXCEPT ![w] = Entry(g, a)] \in FlowsType
         /\ [flows EXCEPT ![w] = Absent] \in FlowsType
         /\ [flows EXCEPT ![w].graph = g] \in FlowsType
<1>1. Entry(g, a) \in [there : BOOLEAN, graph : Nat, agents : Nat]
  BY DEF Entry
<1>2. Absent \in [there : BOOLEAN, graph : Nat, agents : Nat]
  BY DEF Absent
<1>3. [flows[w] EXCEPT !.graph = g] \in [there : BOOLEAN, graph : Nat, agents : Nat]
  BY DEF FlowsType
<1> QED
  BY <1>1, <1>2, <1>3 DEF FlowsType

\* An edit of the canvas, of another workflow, of the agents, or of the registry.
LEMMA EditTyped ==
  ASSUME NEW s \in StoreType, NEW n \in Nat, NEW w \in Flow, NEW flows \in FlowsType,
         NEW active \in FlowOrNone, NEW g \in Nat, NEW a \in Nat
  PROVE  /\ [s EXCEPT !.canvas = n] \in StoreType
         /\ [s EXCEPT !.flows[w].graph = n] \in StoreType
         /\ [s EXCEPT !.agents = n] \in StoreType
         /\ [s EXCEPT !.flows = flows] \in StoreType
         /\ [s EXCEPT !.flows = flows, !.active = active, !.canvas = g, !.agents = a]
              \in StoreType
<1>1. [s EXCEPT !.canvas = n] \in StoreType /\ [s EXCEPT !.agents = n] \in StoreType
  BY DEF StoreType
<1>2. [s EXCEPT !.flows = flows] \in StoreType
  BY DEF StoreType
<1>3. [s EXCEPT !.flows = flows, !.active = active, !.canvas = g, !.agents = a] \in StoreType
  BY DEF StoreType
<1>4. [s.flows EXCEPT ![w].graph = n] \in FlowsType
  BY RegistryTyped DEF StoreType
<1>5. [s EXCEPT !.flows[w].graph = n] = [s EXCEPT !.flows = [s.flows EXCEPT ![w].graph = n]]
  BY DEF StoreType
<1>6. [s EXCEPT !.flows[w].graph = n] \in StoreType
  BY <1>4, <1>5 DEF StoreType
<1> QED
  BY <1>1, <1>2, <1>3, <1>6

\* switchWorkflow puts the canvas where a save would.
LEMMA SwitchShows ==
  ASSUME NEW s \in StoreType, Shows(s), NEW w \in Flow, w # s.active, s.flows[w].there,
         NEW n, n = [s EXCEPT !.flows = Overlaid(s), !.active = w, !.canvas = s.flows[w].graph]
  PROVE  Proper(n)
<1>1. Overlaid(s) \in FlowsType
  BY OverlaidTyped DEF FlowOrNone
<1>2. n \in StoreType
  BY <1>1 DEF StoreType, FlowsType, FlowOrNone
<1>3. /\ n.saved = s.saved /\ n.dirty = s.dirty /\ n.agents = s.agents
      /\ n.flows = Overlaid(s) /\ n.active = w /\ n.canvas = s.flows[w].graph
  BY DEF StoreType
<1>4. Overlaid(s)[w] = s.flows[w]
  BY DEF Overlaid, StoreType, FlowsType
<1>5. Graphs(Overlaid(n)) = Graphs(Overlaid(s))
  <2>1. Overlaid(n) = [Overlaid(s) EXCEPT ![w] = Entry(s.flows[w].graph, s.agents)]
    BY <1>3, PsAssumption DEF Overlaid
  <2>2. \A v \in Flow : /\ Overlaid(n)[v].there = Overlaid(s)[v].there
                        /\ Overlaid(n)[v].graph = Overlaid(s)[v].graph
    <3>1. \A v \in Flow : v # w => Overlaid(n)[v] = Overlaid(s)[v]
      BY <1>1, <2>1 DEF FlowsType
    <3>2. Overlaid(n)[w] = Entry(s.flows[w].graph, s.agents)
      BY <1>1, <2>1 DEF FlowsType
    <3>3. s.flows[w].there = TRUE
      BY DEF StoreType, FlowsType
    <3>4. Entry(s.flows[w].graph, s.agents).there = TRUE
      BY DEF Entry
    <3>5. Entry(s.flows[w].graph, s.agents).graph = s.flows[w].graph
      BY DEF Entry
    <3> QED
      BY <1>4, <3>1, <3>2, <3>3, <3>4, <3>5
  <2>3. \A v \in Flow : <<Overlaid(n)[v].there, Overlaid(n)[v].graph>>
                         = <<Overlaid(s)[v].there, Overlaid(s)[v].graph>>
    BY <2>2
  <2> QED
    BY <2>3, Zenon DEF Graphs
<1> QED
  BY <1>2, <1>3, <1>5 DEF Proper, Shows

\* A store whose snapshot becomes the baseline of the mark.
LEMMA BaselineShows ==
  ASSUME NEW s \in StoreType
  PROVE  Proper([s EXCEPT !.saved = Shot(s)])
<1> DEFINE m == [s EXCEPT !.saved = Shot(s)]
<1>1. Overlaid(s) \in FlowsType
  BY OverlaidTyped DEF StoreType, FlowOrNone
<1>2. Shot(s) \in [some : BOOLEAN, flows : FlowsType, agents : Nat]
  BY <1>1 DEF Shot, StoreType
<1>3. m \in StoreType
  BY <1>2 DEF StoreType
<1>4. m.saved = Shot(s) /\ m.agents = s.agents /\ Overlaid(m) = Overlaid(s)
  BY DEF StoreType, Overlaid
<1>5. Shot(s).agents = s.agents /\ Shot(s).flows = Overlaid(s)
  BY DEF Shot
<1> QED
  BY <1>3, <1>4, <1>5 DEF Proper, Shows

LEMMA EmptyTyped ==
  /\ NoFlows \in FlowsType
  /\ \A ws : EmptyFlows(ws) \in FlowsType
  /\ NoShot \in [some : BOOLEAN, flows : FlowsType, agents : Nat] /\ NoShot.some = FALSE
  /\ ClosedStore \in StoreType /\ ClosedStore.saved = NoShot
  /\ NoFile \in FileType /\ NoDir \in DirectoryType
<1>1. Absent \in [there : BOOLEAN, graph : Nat, agents : Nat]
  BY DEF Absent
<1>2. Entry(0, 0) \in [there : BOOLEAN, graph : Nat, agents : Nat]
  BY DEF Entry
<1>3. NoFlows \in FlowsType /\ \A ws : EmptyFlows(ws) \in FlowsType
  BY <1>1, <1>2 DEF NoFlows, EmptyFlows, FlowsType
<1>4. NoShot \in [some : BOOLEAN, flows : FlowsType, agents : Nat] /\ NoShot.some = FALSE
  BY <1>3 DEF NoShot
<1> QED
  BY <1>3, <1>4 DEF ClosedStore, StoreType, NoFile, FileType, NoDir, DirectoryType,
                    RootOrNone, FlowOrNone, NoProjectId

\* buildOpenProjectState
LEMMA ReopenedShows ==
  ASSUME NEW file \in FileType, file.active \in Flow, NEW r \in RootOrNone
  PROVE  Proper(Reopened(file, r))
<1> DEFINE s == [ClosedStore EXCEPT
                   !.pid = file.pid, !.root = r, !.flows = file.flows, !.active = file.active,
                   !.canvas = file.flows[file.active].graph,
                   !.agents = file.agents, !.ckpt = file.ckpt]
<1>1. file.flows[file.active].graph \in Nat
  BY DEF FileType, FlowsType
<1>2. s \in StoreType
  BY <1>1, EmptyTyped DEF StoreType, FileType
<1>3. Reopened(file, r) = [s EXCEPT !.saved = Shot(s)]
  BY DEF Reopened
<1> QED
  BY <1>2, <1>3, BaselineShows

\* A store that only its identity, the mark or its checkpoints change in.
LEMMA KeptShows ==
  ASSUME NEW s, Proper(s), NEW n \in Nat, NEW p \in RootOrNone, NEW r \in RootOrNone
  PROVE  /\ Proper([s EXCEPT !.ckpt = n])
         /\ Proper([s EXCEPT !.root = NoRoot, !.dirty = TRUE])
         /\ [s EXCEPT !.pid = p, !.root = r, !.dirty = FALSE] \in StoreType
<1>0. s \in StoreType /\ Shows(s)
  BY DEF Proper
<1>1. [s EXCEPT !.ckpt = n] \in StoreType
  BY <1>0 DEF StoreType
<1>2. Shows([s EXCEPT !.ckpt = n])
  <2> DEFINE m == [s EXCEPT !.ckpt = n]
  <2>1. m.saved = s.saved /\ m.dirty = s.dirty /\ m.agents = s.agents /\ Overlaid(m) = Overlaid(s)
    BY <1>0 DEF StoreType, Overlaid
  <2> QED
    BY <1>0, <2>1 DEF Shows
<1>3. [s EXCEPT !.root = NoRoot, !.dirty = TRUE] \in StoreType
  BY <1>0 DEF StoreType, RootOrNone
<1>4. Shows([s EXCEPT !.root = NoRoot, !.dirty = TRUE])
  <2>1. [s EXCEPT !.root = NoRoot, !.dirty = TRUE].dirty
    BY <1>0 DEF StoreType
  <2> QED
    BY <2>1 DEF Shows
<1>5. [s EXCEPT !.pid = p, !.root = r, !.dirty = FALSE] \in StoreType
  BY <1>0 DEF StoreType
<1> QED
  BY <1>1, <1>2, <1>3, <1>4, <1>5 DEF Proper

-----------------------------------------------------------------------------
(* The invariant.                                                          *)

\* What a directory holds was built, and a save that waits for its lock or
\* writes under it was built after what it has not written yet.
BuiltInOrder ==
    /\ \A r \in Root : disk[r].metaBuilt <= psBuilt /\ disk[r].ckptBuilt <= psBuilt
    /\ \A s \in Saver :
         /\ ops[s].stage = "dialog" => ops[s].file.built \in 1..psBuilt
         /\ Writing(s) =>
              /\ ops[s].target \in Root /\ ops[s].file.built <= psBuilt
              /\ ops[s].stage = "meta"
                   => ops[s].file.built > disk[ops[s].target].metaBuilt
              /\ ops[s].stage # "flows"
                   => ops[s].file.built > disk[ops[s].target].ckptBuilt

\* t is ahead of s at the lock of a directory, and was built before it.
Ahead(t, s) == t \in lock[s] /\ ops[t].file.built < ops[s].file.built

\* Of two saves at one lock, one is ahead of the other.
LockInOrder ==
    \A s, t \in Saver :
      s # t /\ Writing(s) /\ Writing(t) /\ ops[s].target = ops[t].target
      => Ahead(s, t) \/ Ahead(t, s)

\* Only plain saves carry a guard; the file of a checkpoint is one.
KindsApart ==
    \A s \in Saver :
      /\ ops[s].guarded => ops[s].kind = "save"
      /\ ops[s].kind = "checkpoint" => ops[s].stage = "ckpt"

SavesInOrder == BuiltInOrder /\ LockInOrder /\ KindsApart

SavesInv == PsTypeOK /\ Shows(st) /\ SavesInOrder

LEMMA SavesInvInit == PsInit => SavesInv
<1> SUFFICES ASSUME PsInit
             PROVE  SavesInv
  OBVIOUS
<1>1. HomeRoot \in Root /\ FirstFlow \in Flow
  BY PsAssumption
<1>2. [NoFile EXCEPT !.pid = HomeRoot, !.active = FirstFlow, !.flows = EmptyFlows(SavedFlows)]
        \in FileType
  BY <1>1, EmptyTyped DEF FileType, RootOrNone, FlowOrNone
<1>3. [NoFile EXCEPT !.pid = HomeRoot, !.active = FirstFlow,
                     !.flows = EmptyFlows(SavedFlows)].active \in Flow
  BY <1>1 DEF NoFile
<1>4. Proper(st)
  BY <1>1, <1>2, <1>3, ReopenedShows DEF PsInit, RootOrNone
<1>5. IdleOp \in SaveType
  BY EmptyTyped DEF IdleOp, SaveType, SaveStage, RootOrNone, NoProjectId
<1>6. \A r \in Root : /\ disk[r] \in DirectoryType
                      /\ disk[r].metaBuilt = 0 /\ disk[r].ckptBuilt = 0
  <2> TAKE r \in Root
  <2>1. CASE r = HomeRoot
    <3>1. disk[r] = [NoDir EXCEPT !.pid = r, !.flows = EmptyFlows(SavedFlows),
                                  !.active = FirstFlow]
      BY <2>1 DEF PsInit
    <3>2. NoDir \in DirectoryType /\ EmptyFlows(SavedFlows) \in FlowsType
      BY EmptyTyped
    <3>3. r \in RootOrNone /\ FirstFlow \in FlowOrNone
      BY <1>1 DEF RootOrNone, FlowOrNone
    <3>4. disk[r] \in DirectoryType
      BY <3>1, <3>2, <3>3 DEF DirectoryType
    <3>5. disk[r].metaBuilt = 0 /\ disk[r].ckptBuilt = 0
      BY <3>1 DEF NoDir
    <3> QED
      BY <3>4, <3>5
  <2>2. CASE r # HomeRoot
    BY <2>2, EmptyTyped DEF PsInit, NoDir
  <2> QED
    BY <2>1, <2>2
<1>7. PsTypeOK
  <2>1. disk \in [Root -> DirectoryType]
    BY <1>6 DEF PsInit
  <2>2. opened \in [from : RootOrNone, file : FileType]
    BY EmptyTyped DEF PsInit, RootOrNone
  <2> QED
    BY <1>4, <1>5, <2>1, <2>2 DEF PsInit, PsTypeOK, Proper
<1>8. \A s \in Saver : ops[s] = IdleOp
  BY DEF PsInit
<1>9. IdleOp.stage = "idle" /\ IdleOp.kind = "save" /\ IdleOp.guarded = FALSE
  BY DEF IdleOp
<1>10. psBuilt = 0
  BY DEF PsInit
<1>11. BuiltInOrder
  BY <1>6, <1>8, <1>9, <1>10 DEF BuiltInOrder, Writing
<1> QED
  BY <1>4, <1>7, <1>8, <1>9, <1>11
     DEF SavesInv, SavesInOrder, LockInOrder, KindsApart, Writing, Proper

-----------------------------------------------------------------------------
(* What the steps of the saves have in common.                             *)

\* A step that leaves the saves and the files alone.
LEMMA SavesUnmoved ==
  ASSUME SavesInOrder, UNCHANGED <<disk, ops, lock, psBuilt>>
  PROVE  SavesInOrder'
BY DEF SavesInOrder, BuiltInOrder, LockInOrder, KindsApart, Ahead, Writing

\* A step of the store alone.
LEMMA StoreStep ==
  ASSUME SavesInv, Proper(st'), UNCHANGED <<disk, opened, ops, line, lock, psBuilt>>,
         timer' \in BOOLEAN, switched' \in Nat, psEdits' \in Nat, psFaults' \in Nat
  PROVE  SavesInv'
BY SavesUnmoved DEF SavesInv, PsTypeOK, Proper

LEMMA SetsTyped ==
  ASSUME SavesInv, NEW next, Proper(next), Sets(next)
  PROVE  Proper(st') /\ switched' \in Nat
BY DEF Sets, SavesInv, PsTypeOK

LEMMA LeftTyped ==
  ASSUME NEW queue \in [Saver -> SUBSET Saver], NEW s \in Saver,
         NEW ahead \in SUBSET Saver
  PROVE  /\ Left(queue, s) \in [Saver -> SUBSET Saver]
         /\ Joins(queue, s, ahead) \in [Saver -> SUBSET Saver]
         /\ \A t \in Saver : Joins(queue, s, ahead)[t] = IF t = s THEN ahead ELSE queue[t]
         /\ \A t \in Saver : t # s => Left(queue, s)[t] = queue[t] \ {s}
BY DEF Left, Joins

\* A save of the kind op that waits for nothing at a lock takes the place of s.
LEMMA PlainOp ==
  ASSUME SavesInv, NEW s \in Saver, NEW op \in SaveType,
         ops' = [ops EXCEPT ![s] = op],
         op.stage \in {"idle", "queued", "prepare", "commit"},
         op.guarded => op.kind = "save", op.kind # "checkpoint",
         lock' = lock \/ lock' = Left(lock, s),
         UNCHANGED <<disk, psBuilt>>
  PROVE  SavesInOrder' /\ ops' \in [Saver -> SaveType] /\ lock' \in [Saver -> SUBSET Saver]
<1> USE DEF SavesInv, PsTypeOK, SavesInOrder
<1>1. ops' \in [Saver -> SaveType] /\ ops'[s] = op /\ \A t \in Saver : t # s => ops'[t] = ops[t]
  OBVIOUS
<1>2. lock' \in [Saver -> SUBSET Saver]
      /\ \A t, u \in Saver : t # s /\ u # s /\ u \in lock[t] => u \in lock'[t]
  <2>1. CASE lock' = lock
    BY <2>1
  <2>2. CASE lock' = Left(lock, s)
    <3>1. /\ Left(lock, s) \in [Saver -> SUBSET Saver]
          /\ \A t \in Saver : t # s => Left(lock, s)[t] = lock[t] \ {s}
      BY LeftTyped
    <3> QED
      BY <2>2, <3>1
  <2> QED
    BY <2>1, <2>2
<1>3. ~Writing(s)' /\ ops'[s].stage # "dialog"
  BY <1>1 DEF Writing
<1>4. \A t \in Saver : t # s => Writing(t)' = Writing(t)
  BY <1>1 DEF Writing
<1>5. BuiltInOrder'
  BY <1>1, <1>3, <1>4 DEF BuiltInOrder
<1>6. LockInOrder'
  BY <1>1, <1>2, <1>3, <1>4 DEF LockInOrder, Ahead
<1>7. KindsApart'
  BY <1>1 DEF KindsApart
<1> QED
  BY <1>1, <1>2, <1>5, <1>6, <1>7

LEMMA IdleTyped == IdleOp \in SaveType /\ IdleOp.stage = "idle" /\ IdleOp.kind = "save"
                     /\ IdleOp.guarded = FALSE
BY EmptyTyped DEF IdleOp, SaveType, SaveStage, RootOrNone, NoProjectId

LEMMA LeavesKeeps ==
  ASSUME SavesInv, NEW s \in Saver, Leaves(s), UNCHANGED <<disk, psBuilt>>
  PROVE  /\ SavesInOrder' /\ ops' \in [Saver -> SaveType]
         /\ lock' \in [Saver -> SUBSET Saver] /\ line' \in [Saver -> SUBSET Saver]
         /\ ops'[s] = IdleOp
<1>1. SavesInOrder' /\ ops' \in [Saver -> SaveType] /\ lock' \in [Saver -> SUBSET Saver]
  BY IdleTyped, PlainOp DEF Leaves
<1>2. line' \in [Saver -> SUBSET Saver]
  BY LeftTyped DEF Leaves, SavesInv, PsTypeOK
<1> QED
  BY <1>1, <1>2 DEF Leaves, SavesInv, PsTypeOK

LEMMA FailsKeeps ==
  ASSUME SavesInv, NEW s \in Saver, Fails(s), UNCHANGED <<disk, opened, psBuilt>>,
         timer' \in BOOLEAN, psEdits' \in Nat, psFaults' \in Nat
  PROVE  SavesInv'
<1>1. Proper(st)
  BY DEF SavesInv, PsTypeOK, Proper
<1>2. Proper([st EXCEPT !.root = NoRoot, !.dirty = TRUE])
  BY <1>1, KeptShows DEF RootOrNone
<1>3. Proper(st') /\ switched' \in Nat
  BY <1>1, <1>2, SetsTyped DEF Fails, SavesInv, PsTypeOK
<1> QED
  BY <1>3, LeavesKeeps DEF Fails, SavesInv, PsTypeOK, Proper

-----------------------------------------------------------------------------
(* Each step keeps the invariant.                                          *)

LEMMA ActivateShows ==
  ASSUME st \in StoreType, NEW flows \in FlowsType, NEW w \in Flow
  PROVE  Proper(Activate(flows, w))
<1>1. flows[w].graph \in Nat /\ flows[w].agents \in Nat
  BY DEF FlowsType
<1>2. [st EXCEPT !.flows = flows, !.active = w,
                 !.canvas = flows[w].graph, !.agents = flows[w].agents] \in StoreType
  BY <1>1, EditTyped DEF FlowOrNone
<1> QED
  BY <1>2, MarkedShows DEF Activate

LEMMA CanvasKeeps ==
  ASSUME SavesInv, EditCanvas \/ EditAgents \/ \E w \in Flow : EditOther(w) \/ SwitchFlow(w)
  PROVE  SavesInv'
<1> USE DEF SavesInv, PsTypeOK
<1>1. CASE EditCanvas
  <2>1. PICK n \in 1..MaxPsEdits :
          Fresh(n) /\ Sets(Marked([st EXCEPT !.canvas = n]))
          /\ Unsaved /\ UNCHANGED <<timer, psBuilt, psFaults>>
    BY <1>1 DEF EditCanvas
  <2>2. Proper(Marked([st EXCEPT !.canvas = n]))
    <3>1. [st EXCEPT !.canvas = n] \in StoreType
      BY DEF StoreType
    <3> QED
      BY <3>1, MarkedShows
  <2> QED
    BY <2>1, <2>2, SetsTyped, StoreStep DEF Fresh, Unsaved
<1>2. CASE EditAgents
  <2>1. PICK n \in 1..MaxPsEdits :
          /\ Fresh(n)
          /\ Sets(Marked([st EXCEPT !.agents = n])) /\ Arms(Marked([st EXCEPT !.agents = n]))
          /\ Unsaved /\ UNCHANGED <<psBuilt, psFaults>>
    BY <1>2 DEF EditAgents
  <2>2. Proper(Marked([st EXCEPT !.agents = n]))
    <3>1. [st EXCEPT !.agents = n] \in StoreType
      BY DEF StoreType
    <3> QED
      BY <3>1, MarkedShows
  <2> QED
    BY <2>1, <2>2, SetsTyped, StoreStep DEF Fresh, Unsaved, Arms
<1>3. ASSUME NEW w \in Flow, EditOther(w)
      PROVE  SavesInv'
  <2>1. PICK n \in 1..MaxPsEdits :
          Fresh(n) /\ Sets(Marked([st EXCEPT !.flows[w].graph = n]))
          /\ Unsaved /\ UNCHANGED <<timer, psBuilt, psFaults>>
    BY <1>3 DEF EditOther
  <2>2. Proper(Marked([st EXCEPT !.flows[w].graph = n]))
    <3>0. st.flows \in FlowsType /\ n \in Nat /\ 0 \in Nat
      BY DEF StoreType
    <3>1. [st.flows EXCEPT ![w].graph = n] \in FlowsType
      BY <3>0, RegistryTyped
    <3>2. NoFlow \in FlowOrNone
      BY DEF FlowOrNone
    <3>3. [st EXCEPT !.flows[w].graph = n] \in StoreType
      BY <3>0, <3>1, <3>2, EditTyped
    <3> QED
      BY <3>3, MarkedShows
  <2> QED
    BY <2>1, <2>2, SetsTyped, StoreStep DEF Fresh, Unsaved
<1>4. ASSUME NEW w \in Flow, SwitchFlow(w)
      PROVE  SavesInv'
  <2>1. Proper(SwitchTo(w))
    BY <1>4, SwitchShows DEF SwitchFlow, SwitchTo
  <2>2. PICK n \in 1..MaxPsEdits : Fresh(n)
    BY <1>4 DEF SwitchFlow
  <2> QED
    BY <1>4, <2>1, <2>2, SetsTyped, StoreStep DEF SwitchFlow, Fresh, Unsaved
<1> QED
  BY <1>1, <1>2, <1>3, <1>4

LEMMA RegistryKeeps ==
  ASSUME SavesInv, NEW w \in Flow,
         NewFlow(w) \/ RemoveFlow(w) \/ \E activate \in BOOLEAN : RegisterFlow(w, activate)
  PROVE  SavesInv'
<1> USE DEF SavesInv, PsTypeOK
<1>1. st.flows \in FlowsType
  BY DEF StoreType
<1>2. CASE NewFlow(w)
  <2> DEFINE next == Activate([st.flows EXCEPT ![w] = Entry(0, 0)], w)
  <2>1. Proper(next)
    BY <1>1, RegistryTyped, ActivateShows
  <2>2. Sets(next) /\ Arms(next) /\ Unsaved /\ UNCHANGED <<psBuilt, psFaults>>
    BY <1>2 DEF NewFlow
  <2>3. PICK n \in 1..MaxPsEdits : Fresh(n)
    BY <1>2 DEF NewFlow
  <2> HIDE DEF next
  <2> QED
    BY <2>1, <2>2, <2>3, SetsTyped, StoreStep DEF Fresh, Unsaved, Arms
<1>3. CASE RemoveFlow(w)
  <2> DEFINE flows == [st.flows EXCEPT ![w] = Absent]
             left == {v \in Flow : flows[v].there}
  <2>1. flows \in FlowsType
    BY <1>1, RegistryTyped
  <2>2. Proper(Marked([st EXCEPT !.flows = flows, !.active = NoFlow,
                                 !.canvas = 0, !.agents = 0]))
    BY <2>1, EditTyped, MarkedShows DEF FlowOrNone
  <2>3. Proper(Marked([st EXCEPT !.flows = flows]))
    BY <2>1, EditTyped, MarkedShows DEF FlowOrNone
  <2>4. \A v \in left : Proper(Activate(flows, v))
    BY <2>1, ActivateShows
  <2> HIDE DEF flows
  <2>5. PICK next \in IF left = {}
             THEN {Marked([st EXCEPT !.flows = flows, !.active = NoFlow,
                                     !.canvas = 0, !.agents = 0])}
             ELSE IF w # st.active
             THEN {Marked([st EXCEPT !.flows = flows])}
             ELSE {Activate(flows, v) : v \in left} :
          Sets(next) /\ Arms(next)
    BY <1>3 DEF RemoveFlow, flows
  <2>6. Proper(next)
    BY <2>2, <2>3, <2>4, <2>5
  <2>7. PICK n \in 1..MaxPsEdits : Fresh(n)
    BY <1>3 DEF RemoveFlow
  <2>8. Unsaved /\ UNCHANGED <<psBuilt, psFaults>>
    BY <1>3 DEF RemoveFlow
  <2> QED
    BY <2>5, <2>6, <2>7, <2>8, SetsTyped, StoreStep DEF Fresh, Unsaved, Arms
<1>4. ASSUME NEW activate \in BOOLEAN, RegisterFlow(w, activate)
      PROVE  SavesInv'
  <2>1. PICK n \in 1..MaxPsEdits :
          /\ st.active # NoFlow /\ Fresh(n)
          /\ LET flows == [st.flows EXCEPT ![w] = Entry(n, st.flows[st.active].agents)]
                 next  == IF activate THEN Activate(flows, w)
                          ELSE Marked([st EXCEPT !.flows = flows])
             IN  Sets(next) /\ Arms(next)
          /\ Unsaved /\ UNCHANGED <<psBuilt, psFaults>>
    BY <1>4 DEF RegisterFlow
  <2> DEFINE flows == [st.flows EXCEPT ![w] = Entry(n, st.flows[st.active].agents)]
             next  == IF activate THEN Activate(flows, w)
                      ELSE Marked([st EXCEPT !.flows = flows])
  <2>2. st.flows[st.active].agents \in Nat /\ n \in Nat
    BY <2>1 DEF StoreType, FlowsType, FlowOrNone
  <2>3. flows \in FlowsType
    <3> DEFINE a == st.flows[st.active].agents
    <3>1. a \in Nat /\ flows = [st.flows EXCEPT ![w] = Entry(n, a)]
      BY <2>2
    <3> HIDE DEF a, flows
    <3> QED
      BY <1>1, <2>2, <3>1, RegistryTyped
  <2>4. Proper(Activate(flows, w)) /\ Proper(Marked([st EXCEPT !.flows = flows]))
    BY <2>3, ActivateShows, EditTyped, MarkedShows DEF FlowOrNone
  <2>5. Proper(next)
    BY <2>4
  <2>6. Sets(next) /\ Arms(next)
    BY <2>1
  <2> HIDE DEF next
  <2> QED
    BY <2>1, <2>5, <2>6, SetsTyped, StoreStep DEF Fresh, Unsaved, Arms
<1> QED
  BY <1>2, <1>3, <1>4

LEMMA ProjectKeeps ==
  ASSUME SavesInv, ApplyProject \/ CloseProject \/ \E r \in Root : ReadProject(r)
  PROVE  SavesInv'
<1> USE DEF SavesInv, PsTypeOK
<1>1. CASE ApplyProject
  <2>1. opened' \in [from : RootOrNone, file : FileType]
    <3>1. opened' = [from |-> NoRoot, file |-> NoFile]
      BY <1>1 DEF ApplyProject
    <3> QED
      BY <3>1, EmptyTyped DEF RootOrNone
  <2>2. CASE opened.file.active # NoFlow /\ opened.file.flows[opened.file.active].there
    <3>1. opened.file \in FileType /\ opened.file.active \in Flow /\ opened.from \in RootOrNone
      BY <2>2 DEF FileType, FlowOrNone
    <3>2. Proper(Reopened(opened.file, opened.from))
      BY <3>1, ReopenedShows
    <3>3. Sets(Reopened(opened.file, opened.from))
      BY <1>1, <2>2 DEF ApplyProject
    <3> QED
      BY <1>1, <2>1, <3>2, <3>3, SetsTyped, SavesUnmoved DEF ApplyProject, Proper
  <2>3. CASE ~(opened.file.active # NoFlow /\ opened.file.flows[opened.file.active].there)
    BY <1>1, <2>1, <2>3, SavesUnmoved DEF ApplyProject
  <2> QED
    BY <2>2, <2>3
<1>2. CASE CloseProject
  <2>1. Proper(ClosedStore)
    BY EmptyTyped DEF Proper, Shows
  <2> QED
    BY <1>2, <2>1, SetsTyped, StoreStep DEF CloseProject, Unsaved
<1>3. ASSUME NEW r \in Root, ReadProject(r)
      PROVE  SavesInv'
  <2>1. disk[r] \in DirectoryType
    OBVIOUS
  <2>2. opened' \in [from : RootOrNone, file : FileType]
    BY <1>3, <2>1 DEF ReadProject, DirectoryType, FileType, RootOrNone
  <2> QED
    BY <1>3, <2>2, SavesUnmoved DEF ReadProject
<1> QED
  BY <1>1, <1>2, <1>3

-----------------------------------------------------------------------------
(* The steps of a save.                                                    *)

LEMMA RequestKeeps ==
  ASSUME SavesInv, NEW s \in Saver,
         \/ RequestSave(s) \/ Autosave(s)
         \/ \E r \in Root : RequestSaveAs(s, r)
         \/ \E r \in Root, w \in Flow : CreateProject(s, r, w)
  PROVE  SavesInv'
<1> USE DEF SavesInv, PsTypeOK
<1>1. ASSUME NEW guarded \in BOOLEAN, AskSave(s, guarded),
             UNCHANGED <<st, disk, opened, lock, switched, psEdits, psBuilt, psFaults>>,
             timer' \in BOOLEAN
      PROVE  SavesInv'
  <2> DEFINE op == [IdleOp EXCEPT !.stage = "queued", !.guarded = guarded,
                                  !.key = <<st.pid, st.root>>, !.from = switched]
  <2>1. op \in SaveType
    BY IdleTyped DEF SaveType, SaveStage, StoreType
  <2>2. op.stage = "queued" /\ op.kind = "save"
    BY DEF IdleOp
  <2>3. ops' = [ops EXCEPT ![s] = op]
    BY <1>1 DEF AskSave, Enters
  <2>4. line' \in [Saver -> SUBSET Saver]
    <3>1. line' = Joins(line, s, QueueOf(<<st.pid, st.root>>))
          /\ QueueOf(<<st.pid, st.root>>) \in SUBSET Saver
      BY <1>1 DEF AskSave, QueueOf
    <3> QED
      BY <3>1, LeftTyped
  <2> HIDE DEF op
  <2>5. SavesInOrder' /\ ops' \in [Saver -> SaveType]
    BY <1>1, <2>1, <2>2, <2>3, PlainOp
  <2> QED
    BY <1>1, <2>4, <2>5
<1>2. CASE RequestSave(s) \/ Autosave(s)
  BY <1>1, <1>2 DEF RequestSave, Autosave
<1>3. ASSUME NEW r \in Root, RequestSaveAs(s, r)
      PROVE  SavesInv'
  <2> DEFINE op == [IdleOp EXCEPT !.stage = "prepare", !.kind = "as",
                                  !.target = r, !.from = switched]
  <2>1. op \in SaveType
    BY IdleTyped DEF SaveType, SaveStage, RootOrNone
  <2>2. op.stage = "prepare" /\ op.kind = "as" /\ op.guarded = FALSE
    BY DEF IdleOp
  <2>3. ops' = [ops EXCEPT ![s] = op]
    BY <1>3 DEF RequestSaveAs, Enters
  <2> HIDE DEF op
  <2>4. SavesInOrder' /\ ops' \in [Saver -> SaveType]
    BY <1>3, <2>1, <2>2, <2>3, PlainOp DEF RequestSaveAs
  <2> QED
    BY <1>3, <2>4 DEF RequestSaveAs
<1>4. ASSUME NEW r \in Root, NEW w \in Flow, CreateProject(s, r, w)
      PROVE  SavesInv'
  <2> DEFINE op == [IdleOp EXCEPT !.stage = "queued", !.key = <<r, r>>,
                                  !.kind = "create", !.from = switched']
             next == [ClosedStore EXCEPT !.pid = r, !.root = r, !.dirty = TRUE,
                                         !.flows = EmptyFlows({w}), !.active = w]
  <2>1. next \in StoreType
    BY EmptyTyped DEF StoreType, RootOrNone, FlowOrNone
  <2>2. next.dirty
    BY DEF ClosedStore
  <2>3. Proper(next)
    BY <2>1, <2>2 DEF Proper, Shows
  <2>4. Sets(next) /\ ops' = [ops EXCEPT ![s] = op]
    BY <1>4 DEF CreateProject, Enters
  <2>5. Proper(st') /\ switched' \in Nat
    BY <2>3, <2>4, SetsTyped
  <2>6. op \in SaveType
    BY <2>5, IdleTyped DEF SaveType, SaveStage, RootOrNone
  <2>7. op.stage = "queued" /\ op.kind = "create" /\ op.guarded = FALSE
    BY DEF IdleOp
  <2>8. line' \in [Saver -> SUBSET Saver]
    <3>1. line' = Joins(line, s, QueueOf(<<r, r>>)) /\ QueueOf(<<r, r>>) \in SUBSET Saver
      BY <1>4 DEF CreateProject, QueueOf
    <3> QED
      BY <3>1, LeftTyped
  <2> HIDE DEF op, next
  <2>9. SavesInOrder' /\ ops' \in [Saver -> SaveType]
    BY <1>4, <2>4, <2>6, <2>7, PlainOp DEF CreateProject
  <2> QED
    BY <1>4, <2>5, <2>8, <2>9 DEF CreateProject, Proper
<1> QED
  BY <1>2, <1>3, <1>4

\* A save joins the lock of its directory behind what was built before it.
LEMMA JoinOp ==
  ASSUME SavesInv, NEW s \in Saver, ~Writing(s), NEW op \in SaveType,
         ops' = [ops EXCEPT ![s] = op],
         op.stage \in {"meta", "ckpt"}, op.target \in Root,
         op.guarded => op.kind = "save", op.kind = "checkpoint" => op.stage = "ckpt",
         lock' = Joins(lock, s, LockOf(op.target)),
         psBuilt' \in Nat, psBuilt' >= psBuilt, op.file.built <= psBuilt',
         op.file.built > disk[op.target].metaBuilt,
         op.file.built > disk[op.target].ckptBuilt,
         \A t \in LockOf(op.target) : ops[t].file.built < op.file.built,
         UNCHANGED disk
  PROVE  SavesInOrder' /\ ops' \in [Saver -> SaveType] /\ lock' \in [Saver -> SUBSET Saver]
<1> USE DEF SavesInv, PsTypeOK, SavesInOrder
<1>1. ops' \in [Saver -> SaveType] /\ ops'[s] = op /\ \A t \in Saver : t # s => ops'[t] = ops[t]
  OBVIOUS
<1>2. LockOf(op.target) \in SUBSET Saver
  BY DEF LockOf
<1>3. /\ lock' \in [Saver -> SUBSET Saver] /\ lock'[s] = LockOf(op.target)
      /\ \A t \in Saver : t # s => lock'[t] = lock[t]
  BY <1>2, LeftTyped
<1>4. \A t \in Saver : t # s => Writing(t)' = Writing(t)
  BY <1>1 DEF Writing
<1>5. BuiltInOrder'
  <2>1. \A t \in Saver : ops[t].file.built \in Nat
    BY DEF SaveType, FileType
  <2>2. \A r \in Root : disk[r].metaBuilt \in Nat /\ disk[r].ckptBuilt \in Nat
    BY DEF DirectoryType
  <2> QED
    BY <1>1, <1>4, <2>1, <2>2 DEF BuiltInOrder
<1>6. LockInOrder'
  <2> SUFFICES ASSUME NEW t \in Saver, NEW u \in Saver, t # u, Writing(t)', Writing(u)',
                      ops'[t].target = ops'[u].target
               PROVE  Ahead(t, u)' \/ Ahead(u, t)'
    BY DEF LockInOrder
  <2>1. CASE t # s /\ u # s
    BY <1>1, <1>3, <1>4, <2>1 DEF LockInOrder, Ahead
  <2>2. CASE t = s
    <3>1. u \in LockOf(op.target)
      BY <1>1, <1>4, <2>2 DEF LockOf
    <3> QED
      BY <1>1, <1>3, <2>2, <3>1 DEF Ahead
  <2>3. CASE u = s
    <3>1. t \in LockOf(op.target)
      BY <1>1, <1>4, <2>3 DEF LockOf
    <3> QED
      BY <1>1, <1>3, <2>3, <3>1 DEF Ahead
  <2> QED
    BY <2>1, <2>2, <2>3
<1>7. KindsApart'
  BY <1>1 DEF KindsApart
<1> QED
  BY <1>1, <1>3, <1>5, <1>6, <1>7

LEMMA FileTyped ==
  ASSUME st \in StoreType, NEW w \in Flow, NEW built \in Nat, NEW r \in Root
  PROVE  /\ FileOf(st, w, built) \in FileType /\ FileOf(st, w, built).built = built
         /\ \A f \in FileType : Identified(f, r) \in FileType /\ Identified(f, r).built = f.built
<1>1. Overlaid([st EXCEPT !.active = w]) \in FlowsType
  BY OverlaidTyped DEF FlowOrNone
<1>2. FileOf(st, w, built) \in FileType /\ FileOf(st, w, built).built = built
  BY <1>1 DEF FileOf, FileType, StoreType, FlowOrNone
<1>3. ASSUME NEW f \in FileType
      PROVE  Identified(f, r) \in FileType /\ Identified(f, r).built = f.built
  BY DEF Identified, FileType, RootOrNone
<1> QED
  BY <1>2, <1>3

\* What is at a lock, and what a directory holds, was built already.
LEMMA BuiltAlready ==
  ASSUME SavesInv, NEW r \in Root
  PROVE  /\ \A t \in LockOf(r) : ops[t].file.built <= psBuilt
         /\ disk[r].metaBuilt <= psBuilt /\ disk[r].ckptBuilt <= psBuilt
BY DEF SavesInv, SavesInOrder, BuiltInOrder, LockOf

LEMMA BuildKeeps ==
  ASSUME SavesInv, NEW s \in Saver, BuildFile(s)
  PROVE  SavesInv'
<1> USE DEF SavesInv, PsTypeOK
<1>1. CASE ~GuardOk(ops[s])
  BY <1>1, FailsKeeps DEF BuildFile
<1>2. CASE GuardOk(ops[s])
  <2> DEFINE root == IF ops[s].kind = "as" THEN ops[s].target ELSE st.root
  <2>1. PICK w \in (IF st.active = NoFlow THEN Flow ELSE {st.active}) :
          /\ ops' = [ops EXCEPT
                ![s].stage = IF root = NoRoot THEN "dialog" ELSE "meta",
                ![s].target = root,
                ![s].file = IF root = NoRoot THEN FileOf(st, w, psBuilt + 1)
                            ELSE Identified(FileOf(st, w, psBuilt + 1), root)]
          /\ lock' = IF root = NoRoot THEN lock ELSE Joins(lock, s, LockOf(root))
          /\ psBuilt' = psBuilt + 1
          /\ UNCHANGED <<line, st, switched>>
    BY <1>2 DEF BuildFile
  <2>2. w \in Flow /\ root \in RootOrNone /\ ops[s].stage = "prepare" /\ ops[s] \in SaveType
    BY <1>2, <2>1 DEF BuildFile, StoreType, SaveType, FlowOrNone
  <2>3. ops[s].kind # "checkpoint" /\ (ops[s].guarded => ops[s].kind = "save")
    BY <2>2 DEF SavesInOrder, KindsApart
  <2> DEFINE file == FileOf(st, w, psBuilt + 1)
             op == [ops[s] EXCEPT
                     !.stage = IF root = NoRoot THEN "dialog" ELSE "meta",
                     !.target = root,
                     !.file = IF root = NoRoot THEN file ELSE Identified(file, root)]
  <2>4. file \in FileType /\ file.built = psBuilt + 1
    <3>1. psBuilt + 1 \in Nat /\ HomeRoot \in Root
      BY PsAssumption
    <3> QED
      BY <2>2, <3>1, FileTyped
  <2>5. ops' = [ops EXCEPT ![s] = op]
    BY <2>1, <2>2 DEF SaveType
  <2>6. psBuilt' = psBuilt + 1 /\ UNCHANGED <<st, disk, opened, line, timer, switched, psEdits, psFaults>>
    BY <1>2, <2>1 DEF BuildFile
  <2>7. CASE root = NoRoot
    <3>1. op = [ops[s] EXCEPT !.stage = "dialog", !.target = NoRoot, !.file = file]
      BY <2>7
    <3> HIDE DEF op, root, file
    <3>2. /\ op \in SaveType /\ op.stage = "dialog" /\ op.file = file
          /\ op.kind = ops[s].kind /\ op.guarded = ops[s].guarded
      BY <2>2, <2>4, <3>1 DEF SaveType, SaveStage, RootOrNone
    <3>3. ops' \in [Saver -> SaveType] /\ ops'[s] = op /\ \A t \in Saver : t # s => ops'[t] = ops[t]
      BY <2>5, <3>2
    <3>4. lock' = lock
      BY <2>1, <2>7
    <3>5. ~Writing(s)' /\ \A t \in Saver : t # s => Writing(t)' = Writing(t)
      BY <3>2, <3>3 DEF Writing
    <3>6. BuiltInOrder'
      <4>1. \A t \in Saver : ops[t].file.built \in Nat
        BY DEF SaveType, FileType
      <4>2. \A r \in Root : disk[r].metaBuilt \in Nat /\ disk[r].ckptBuilt \in Nat
        BY DEF DirectoryType
      <4> QED
        BY <2>4, <2>6, <3>2, <3>3, <3>5, <4>1, <4>2 DEF SavesInOrder, BuiltInOrder
    <3>7. LockInOrder'
      BY <3>3, <3>4, <3>5 DEF SavesInOrder, LockInOrder, Ahead
    <3>8. KindsApart'
      BY <2>3, <3>2, <3>3 DEF SavesInOrder, KindsApart
    <3> QED
      BY <2>6, <3>3, <3>4, <3>6, <3>7, <3>8 DEF SavesInOrder
  <2>8. CASE root # NoRoot
    <3>1. op = [ops[s] EXCEPT !.stage = "meta", !.target = root,
                              !.file = Identified(file, root)]
      BY <2>8
    <3>2. root \in Root
      BY <2>2, <2>8 DEF RootOrNone
    <3>3. lock' = Joins(lock, s, LockOf(root))
      BY <2>1, <2>8
    <3> HIDE DEF op, root, file
    <3>4. Identified(file, root) \in FileType /\ Identified(file, root).built = psBuilt + 1
      BY <2>2, <2>4, <3>2, FileTyped
    <3>5. /\ op \in SaveType /\ op.stage = "meta" /\ op.target = root
          /\ op.file.built = psBuilt + 1
          /\ op.kind = ops[s].kind /\ op.guarded = ops[s].guarded
      BY <2>2, <3>1, <3>4 DEF SaveType, SaveStage
    <3>6. ~Writing(s)
      BY <2>2 DEF Writing
    <3>7. /\ op.file.built > disk[root].metaBuilt /\ op.file.built > disk[root].ckptBuilt
          /\ \A t \in LockOf(root) : ops[t].file.built < op.file.built
      <4>1. \A t \in LockOf(root) : ops[t].file.built \in Nat
        BY DEF LockOf, SaveType, FileType
      <4>2. disk[root].metaBuilt \in Nat /\ disk[root].ckptBuilt \in Nat
        BY <3>2 DEF DirectoryType
      <4> QED
        BY <3>2, <3>5, <4>1, <4>2, BuiltAlready
    <3>8. /\ psBuilt' \in Nat /\ psBuilt' >= psBuilt /\ op.file.built <= psBuilt'
          /\ op.file.built > disk[op.target].metaBuilt /\ op.file.built > disk[op.target].ckptBuilt
          /\ \A t \in LockOf(op.target) : ops[t].file.built < op.file.built
          /\ lock' = Joins(lock, s, LockOf(op.target))
      BY <2>6, <3>3, <3>5, <3>7
    <3>9. SavesInOrder' /\ ops' \in [Saver -> SaveType] /\ lock' \in [Saver -> SUBSET Saver]
      BY <2>3, <2>5, <2>6, <3>2, <3>5, <3>6, <3>8, JoinOp
    <3> QED
      BY <2>6, <3>9
  <2> QED
    BY <2>7, <2>8
<1> QED
  BY <1>1, <1>2

LEMMA PickKeeps ==
  ASSUME SavesInv, NEW s \in Saver, PickRoot(s)
  PROVE  SavesInv'
<1> USE DEF SavesInv, PsTypeOK
<1>1. PICK r \in Root :
        /\ Vacant(r)
        /\ ops' = [ops EXCEPT ![s].stage = "meta", ![s].target = r,
                               ![s].file = Identified(@, r)]
        /\ lock' = Joins(lock, s, LockOf(r))
  BY DEF PickRoot
<1> DEFINE op == [ops[s] EXCEPT !.stage = "meta", !.target = r,
                                !.file = Identified(ops[s].file, r)]
<1>2. ops[s] \in SaveType /\ ops[s].stage = "dialog" /\ ops[s].file \in FileType
  BY DEF PickRoot, SaveType
<1>3. ops' = [ops EXCEPT ![s] = op]
  BY <1>1, <1>2 DEF SaveType
<1>4. ops[s].file.built \in 1..psBuilt /\ ops[s].kind # "checkpoint"
      /\ (ops[s].guarded => ops[s].kind = "save")
  BY <1>2 DEF SavesInOrder, BuiltInOrder, KindsApart
<1>5. Identified(ops[s].file, r) \in FileType
      /\ Identified(ops[s].file, r).built = ops[s].file.built
  BY <1>2 DEF Identified, FileType, RootOrNone
<1>6. /\ op \in SaveType /\ op.stage = "meta" /\ op.target = r
      /\ op.file.built = ops[s].file.built
      /\ op.kind = ops[s].kind /\ op.guarded = ops[s].guarded
  BY <1>2, <1>5 DEF SaveType, SaveStage, RootOrNone
<1> HIDE DEF op
<1>7. disk[r].metaBuilt = 0 /\ disk[r].ckptBuilt = 0
  BY <1>1 DEF Vacant, NoDir
<1>8. LockOf(r) = {}
  BY <1>1 DEF Vacant, LockOf
<1>9. ~Writing(s)
  BY <1>2 DEF Writing
<1>10. UNCHANGED <<st, disk, opened, line, timer, switched, psEdits, psBuilt, psFaults>>
  BY DEF PickRoot
<1>11. /\ op.file.built <= psBuilt' /\ psBuilt' >= psBuilt /\ psBuilt' \in Nat
       /\ op.file.built > disk[op.target].metaBuilt /\ op.file.built > disk[op.target].ckptBuilt
       /\ \A t \in LockOf(op.target) : ops[t].file.built < op.file.built
  BY <1>4, <1>6, <1>7, <1>8, <1>10
<1>12. SavesInOrder' /\ ops' \in [Saver -> SaveType] /\ lock' \in [Saver -> SUBSET Saver]
  BY <1>1, <1>3, <1>4, <1>6, <1>9, <1>10, <1>11, JoinOp
<1> QED
  BY <1>10, <1>12

LEMMA StartKeeps ==
  ASSUME SavesInv, NEW s \in Saver, StartSave(s)
  PROVE  SavesInv'
<1> USE DEF SavesInv, PsTypeOK
<1>1. CASE ~GuardOk(ops[s])
  BY <1>1, FailsKeeps DEF StartSave
<1>2. CASE GuardOk(ops[s])
  <2> DEFINE op == [ops[s] EXCEPT !.stage = "prepare"]
  <2>1. ops[s] \in SaveType /\ ops[s].stage = "queued"
    BY DEF StartSave
  <2>2. ops' = [ops EXCEPT ![s] = op] /\ lock' = lock
    BY <1>2 DEF StartSave
  <2>3. /\ op \in SaveType /\ op.stage = "prepare"
        /\ op.kind = ops[s].kind /\ op.guarded = ops[s].guarded
    BY <2>1 DEF SaveType, SaveStage
  <2>4. ops[s].kind # "checkpoint" /\ (ops[s].guarded => ops[s].kind = "save")
    BY <2>1 DEF SavesInOrder, KindsApart
  <2> HIDE DEF op
  <2>5. UNCHANGED <<st, disk, opened, line, timer, switched, psEdits, psBuilt, psFaults>>
    BY <1>2 DEF StartSave
  <2>6. SavesInOrder' /\ ops' \in [Saver -> SaveType] /\ lock' \in [Saver -> SUBSET Saver]
    BY <2>2, <2>3, <2>4, <2>5, PlainOp
  <2> QED
    BY <2>5, <2>6
<1> QED
  BY <1>1, <1>2

LEMMA FailureKeeps ==
  ASSUME SavesInv, NEW s \in Saver, DismissDialog(s) \/ SaveFails(s)
  PROVE  SavesInv'
<1>1. timer \in BOOLEAN /\ psEdits \in Nat /\ psFaults \in Nat
  BY DEF SavesInv, PsTypeOK
<1> QED
  BY <1>1, FailsKeeps DEF DismissDialog, SaveFails, Faulty

\* Who writes has nobody ahead of it, so everybody else at its directory was
\* built after it.
LEMMA WriterIsFirst ==
  ASSUME SavesInv, NEW s \in Saver, Writing(s), Locked(s),
         NEW t \in Saver, t # s, Writing(t), ops[t].target = ops[s].target
  PROVE  ops[s].file.built < ops[t].file.built
BY DEF SavesInv, SavesInOrder, LockInOrder, Ahead, Locked

LEMMA WriteKeeps ==
  ASSUME SavesInv, NEW s \in Saver, WriteFile(s)
  PROVE  SavesInv'
<1> USE DEF SavesInv, PsTypeOK
<1> DEFINE f == ops[s].file
           r == ops[s].target
           op == [ops[s] EXCEPT !.stage = NextStage(ops[s])]
<1>1. /\ ops[s] \in SaveType /\ ops[s].stage \in {"meta", "ckpt", "flows"}
      /\ ops[s].kind # "checkpoint" /\ Locked(s) /\ f \in FileType
  BY DEF WriteFile, SaveType
<1>2. Writing(s)
  BY <1>1 DEF Writing
<1>3. r \in Root /\ f.built <= psBuilt /\ f.built \in Nat
  BY <1>1, <1>2 DEF SavesInOrder, BuiltInOrder, FileType
<1>4. disk[r] \in DirectoryType
  BY <1>3
<1>5. NextStage(ops[s]) = IF ops[s].stage = "meta" THEN "ckpt"
                          ELSE IF ops[s].stage = "ckpt" THEN "flows" ELSE "commit"
  BY DEF NextStage
<1>6. /\ op \in SaveType /\ op.kind = ops[s].kind /\ op.guarded = ops[s].guarded
      /\ op.target = r /\ op.file = f /\ op.stage = NextStage(ops[s])
  BY <1>1, <1>5 DEF SaveType, SaveStage
<1>7. ops' = [ops EXCEPT ![s] = op]
  BY DEF WriteFile
<1>8. UNCHANGED <<st, opened, line, timer, switched, psEdits, psBuilt, psFaults>>
  BY DEF WriteFile
<1>9. /\ ops' \in [Saver -> SaveType] /\ ops'[s] = op
      /\ \A t \in Saver : t # s => ops'[t] = ops[t]
  BY <1>6, <1>7
<1>10. /\ lock' \in [Saver -> SUBSET Saver]
       /\ \A t \in Saver, u \in Saver : t # s /\ u # s /\ u \in lock[t] => u \in lock'[t]
       /\ ops[s].stage # "flows" => lock' = lock
  <2>1. CASE ops[s].stage # "flows"
    BY <2>1 DEF WriteFile
  <2>2. CASE ops[s].stage = "flows"
    <3>1. lock' = Left(lock, s)
      BY <2>2 DEF WriteFile
    <3>2. /\ Left(lock, s) \in [Saver -> SUBSET Saver]
          /\ \A t \in Saver : t # s => Left(lock, s)[t] = lock[t] \ {s}
      BY LeftTyped
    <3> QED
      BY <2>2, <3>1, <3>2
  <2> QED
    BY <2>1, <2>2
<1>11. /\ disk' \in [Root -> DirectoryType]
       /\ \A q \in Root : q # r => disk'[q] = disk[q]
       /\ disk'[r].metaBuilt = IF ops[s].stage = "meta" THEN f.built ELSE disk[r].metaBuilt
       /\ disk'[r].ckptBuilt = IF ops[s].stage = "ckpt" THEN f.built ELSE disk[r].ckptBuilt
  <2>1. CASE ops[s].stage = "meta"
    <3> DEFINE d == [disk[r] EXCEPT !.pid = f.pid, !.active = f.active,
                                    !.agents = f.agents, !.metaBuilt = f.built]
    <3>1. disk' = [disk EXCEPT ![r] = d]
      BY <1>3, <1>4, <2>1 DEF WriteFile, DirectoryType
    <3>2. d \in DirectoryType /\ d.metaBuilt = f.built /\ d.ckptBuilt = disk[r].ckptBuilt
      BY <1>1, <1>4 DEF DirectoryType, FileType
    <3> HIDE DEF d, f, r
    <3> QED
      BY <1>3, <2>1, <3>1, <3>2
  <2>2. CASE ops[s].stage = "ckpt"
    <3> DEFINE d == [disk[r] EXCEPT !.ckpt = f.ckpt, !.ckptBuilt = f.built]
    <3>1. disk' = [disk EXCEPT ![r] = d]
      BY <1>3, <1>4, <2>2 DEF WriteFile, DirectoryType
    <3>2. d \in DirectoryType /\ d.ckptBuilt = f.built /\ d.metaBuilt = disk[r].metaBuilt
      BY <1>1, <1>4 DEF DirectoryType, FileType
    <3> HIDE DEF d, f, r
    <3> QED
      BY <1>3, <2>2, <3>1, <3>2
  <2>3. CASE ops[s].stage = "flows"
    <3> DEFINE g == [w \in Flow |-> IF f.flows[w].there THEN f.flows[w] ELSE disk[r].flows[w]]
               d == [disk[r] EXCEPT !.flows = g]
    <3>1. disk' = [disk EXCEPT ![r] = d]
      BY <1>3, <1>4, <2>3 DEF WriteFile, DirectoryType
    <3>2. g \in FlowsType
      BY <1>1, <1>4 DEF DirectoryType, FileType, FlowsType
    <3> HIDE DEF g
    <3>3. d \in DirectoryType /\ d.ckptBuilt = disk[r].ckptBuilt /\ d.metaBuilt = disk[r].metaBuilt
      BY <1>4, <3>2 DEF DirectoryType
    <3> HIDE DEF d, f, r
    <3> QED
      BY <1>3, <2>3, <3>1, <3>3
  <2> QED
    BY <1>1, <2>1, <2>2, <2>3
<1> HIDE DEF op, f, r
<1>12. \A t \in Saver : t # s => Writing(t)' = Writing(t)
  BY <1>9 DEF Writing
<1>13. \A t \in Saver : ops[t].file.built \in Nat
  BY DEF SaveType, FileType
<1>14. \A q \in Root : /\ disk[q].metaBuilt \in Nat /\ disk[q].ckptBuilt \in Nat
                       /\ disk'[q].metaBuilt \in Nat /\ disk'[q].ckptBuilt \in Nat
  BY <1>11 DEF DirectoryType
<1>15. BuiltInOrder'
  <2>1. \A q \in Root : disk'[q].metaBuilt <= psBuilt' /\ disk'[q].ckptBuilt <= psBuilt'
    BY <1>3, <1>8, <1>11 DEF SavesInOrder, BuiltInOrder
  <2>2. ASSUME NEW t \in Saver, t # s
        PROVE  /\ ops'[t].stage = "dialog" => ops'[t].file.built \in 1..psBuilt'
               /\ Writing(t)' =>
                    /\ ops'[t].target \in Root /\ ops'[t].file.built <= psBuilt'
                    /\ ops'[t].stage = "meta"
                         => ops'[t].file.built > disk'[ops'[t].target].metaBuilt
                    /\ ops'[t].stage # "flows"
                         => ops'[t].file.built > disk'[ops'[t].target].ckptBuilt
    <3>1. ops'[t] = ops[t] /\ Writing(t)' = Writing(t)
      BY <1>9, <1>12, <2>2
    <3>2. CASE ~Writing(t)
      BY <1>8, <3>1, <3>2 DEF SavesInOrder, BuiltInOrder
    <3>3. CASE Writing(t) /\ ops[t].target # r
      BY <1>8, <1>11, <3>1, <3>3 DEF SavesInOrder, BuiltInOrder
    <3>4. CASE Writing(t) /\ ops[t].target = r
      <4>1. f.built < ops[t].file.built
        BY <1>1, <1>2, <2>2, <3>4, WriterIsFirst DEF f, r
      <4>2. /\ ops[t].file.built <= psBuilt
            /\ ops[t].stage = "meta" => ops[t].file.built > disk[r].metaBuilt
            /\ ops[t].stage # "flows" => ops[t].file.built > disk[r].ckptBuilt
        BY <3>4 DEF SavesInOrder, BuiltInOrder
      <4>3. ops[t].stage # "dialog"
        BY <3>4 DEF Writing
      <4> QED
        BY <1>3, <1>8, <1>11, <3>1, <3>4, <4>1, <4>2, <4>3
    <3> QED
      BY <3>2, <3>3, <3>4
  <2>3. /\ ops'[s].stage # "dialog" /\ ops'[s].stage # "meta"
        /\ ops'[s].target = r /\ ops'[s].file = f
    BY <1>5, <1>6, <1>9
  <2>4. ops'[s].stage # "flows" => ~Writing(s)' \/ (ops[s].stage = "meta" /\ ops'[s].stage = "ckpt")
    BY <1>1, <1>5, <1>6, <1>9 DEF Writing
  <2>5. ops[s].stage = "meta" => f.built > disk'[r].ckptBuilt
    BY <1>2, <1>11 DEF SavesInOrder, BuiltInOrder, f, r
  <2> QED
    BY <1>3, <1>8, <2>1, <2>2, <2>3, <2>4, <2>5 DEF BuiltInOrder
<1>16. LockInOrder'
  <2> SUFFICES ASSUME NEW t \in Saver, NEW u \in Saver, t # u, Writing(t)', Writing(u)',
                      ops'[t].target = ops'[u].target
               PROVE  Ahead(t, u)' \/ Ahead(u, t)'
    BY DEF LockInOrder
  <2>1. CASE t # s /\ u # s
    BY <1>9, <1>10, <1>12, <2>1 DEF SavesInOrder, LockInOrder, Ahead
  <2>2. CASE t = s \/ u = s
    <3>1. ops'[s].stage # "commit"
      BY <2>2 DEF Writing
    <3>2. lock' = lock
      BY <1>1, <1>5, <1>6, <1>9, <1>10, <3>1
    <3>3. \A v \in Saver : Writing(v)' => Writing(v)
      BY <1>2, <1>12
    <3>4. \A v \in Saver : ops'[v].target = ops[v].target /\ ops'[v].file = ops[v].file
      BY <1>6, <1>9 DEF r, f
    <3> QED
      BY <3>2, <3>3, <3>4 DEF SavesInOrder, LockInOrder, Ahead
  <2> QED
    BY <2>1, <2>2
<1>17. KindsApart'
  BY <1>1, <1>6, <1>9 DEF SavesInOrder, KindsApart
<1> QED
  BY <1>8, <1>9, <1>10, <1>11, <1>15, <1>16, <1>17 DEF SavesInOrder

LEMMA CommitKeeps ==
  ASSUME SavesInv, NEW s \in Saver, CommitSave(s)
  PROVE  SavesInv'
<1> USE DEF SavesInv, PsTypeOK
<1>1. CASE ~GuardOk(ops[s])
  BY <1>1, FailsKeeps DEF CommitSave
<1>2. CASE GuardOk(ops[s])
  <2> DEFINE pid == IF ops[s].kind = "as" THEN st.pid ELSE ops[s].file.pid
             next == [st EXCEPT !.pid = pid, !.root = ops[s].target, !.dirty = FALSE]
  <2>1. pid \in RootOrNone /\ ops[s].target \in RootOrNone
    BY DEF StoreType, SaveType, FileType
  <2>2. Proper(st)
    BY DEF Proper
  <2>3. next \in StoreType
    <3> HIDE DEF pid
    <3> QED
      BY <2>1, <2>2, KeptShows
  <2>4. Sets([next EXCEPT !.saved = Shot(next)]) /\ Leaves(s)
    BY <1>2 DEF CommitSave
  <2> HIDE DEF next
  <2>5. Proper([next EXCEPT !.saved = Shot(next)])
    BY <2>3, BaselineShows
  <2>6. Proper(st') /\ switched' \in Nat
    BY <2>4, <2>5, SetsTyped
  <2>7. UNCHANGED <<disk, opened, timer, psEdits, psBuilt, psFaults>>
    BY DEF CommitSave
  <2>8. /\ SavesInOrder' /\ ops' \in [Saver -> SaveType]
        /\ lock' \in [Saver -> SUBSET Saver] /\ line' \in [Saver -> SUBSET Saver]
    BY <2>4, <2>7, LeavesKeeps
  <2> QED
    BY <2>6, <2>7, <2>8 DEF Proper
<1> QED
  BY <1>1, <1>2

LEMMA PersistKeeps ==
  ASSUME SavesInv, NEW s \in Saver, PersistCheckpoint(s)
  PROVE  SavesInv'
<1> USE DEF SavesInv, PsTypeOK
<1>1. PICK n \in 1..MaxPsEdits :
        /\ Fresh(n)
        /\ Sets([st EXCEPT !.ckpt = n])
        /\ IF st.root = NoRoot THEN UNCHANGED <<ops, lock, psBuilt>>
           ELSE /\ Enters(s, [IdleOp EXCEPT !.stage = "ckpt",
                                 !.kind = "checkpoint", !.target = st.root,
                                 !.file = [NoFile EXCEPT !.ckpt = n,
                                              !.built = psBuilt + 1]])
                /\ lock' = Joins(lock, s, LockOf(st.root))
                /\ psBuilt' = psBuilt + 1
        /\ UNCHANGED <<disk, opened, line, timer, psFaults>>
  BY DEF PersistCheckpoint
<1>2. n \in Nat /\ psEdits' \in Nat
  BY <1>1, PsAssumption DEF Fresh
<1>3. Proper([st EXCEPT !.ckpt = n])
  <2>1. Proper(st)
    BY DEF Proper
  <2> QED
    BY <1>2, <2>1, KeptShows DEF RootOrNone
<1>4. Proper(st') /\ switched' \in Nat
  BY <1>1, <1>3, SetsTyped
<1>5. CASE st.root = NoRoot
  BY <1>1, <1>2, <1>4, <1>5, SavesUnmoved DEF Proper
<1>6. CASE st.root # NoRoot
  <2> DEFINE file == [NoFile EXCEPT !.ckpt = n, !.built = psBuilt + 1]
             op == [IdleOp EXCEPT !.stage = "ckpt", !.kind = "checkpoint",
                                  !.target = st.root, !.file = file]
  <2>1. file \in FileType /\ file.built = psBuilt + 1
    <3>1. NoFile \in FileType /\ psBuilt + 1 \in Nat
      BY EmptyTyped
    <3> QED
      BY <1>2, <3>1 DEF FileType
  <2>2. st.root \in Root
    BY <1>6 DEF StoreType, RootOrNone
  <2>3. ops' = [ops EXCEPT ![s] = op] /\ ops[s].stage = "idle"
        /\ lock' = Joins(lock, s, LockOf(st.root)) /\ psBuilt' = psBuilt + 1
    BY <1>1, <1>6 DEF Enters
  <2> HIDE DEF file
  <2>4. /\ op \in SaveType /\ op.stage = "ckpt" /\ op.kind = "checkpoint"
        /\ op.target = st.root /\ op.file = file /\ op.guarded = FALSE
    BY <2>1, <2>2, IdleTyped DEF SaveType, SaveStage, RootOrNone
  <2> HIDE DEF op
  <2>5. ~Writing(s)
    BY <2>3 DEF Writing
  <2>6. /\ \A t \in LockOf(st.root) : ops[t].file.built \in Nat
        /\ disk[st.root].metaBuilt \in Nat /\ disk[st.root].ckptBuilt \in Nat
    BY <2>2 DEF LockOf, SaveType, FileType, DirectoryType
  <2>7. /\ \A t \in LockOf(st.root) : ops[t].file.built <= psBuilt
        /\ disk[st.root].metaBuilt <= psBuilt /\ disk[st.root].ckptBuilt <= psBuilt
    BY <2>2, BuiltAlready
  <2>8. /\ psBuilt' \in Nat /\ psBuilt' >= psBuilt /\ op.file.built <= psBuilt'
        /\ op.file.built > disk[op.target].metaBuilt /\ op.file.built > disk[op.target].ckptBuilt
        /\ \A t \in LockOf(op.target) : ops[t].file.built < op.file.built
        /\ lock' = Joins(lock, s, LockOf(op.target))
    BY <2>1, <2>3, <2>4, <2>6, <2>7
  <2>9. disk' = disk
    BY <1>1
  <2>10. SavesInOrder' /\ ops' \in [Saver -> SaveType] /\ lock' \in [Saver -> SUBSET Saver]
    BY <2>2, <2>3, <2>4, <2>5, <2>8, <2>9, JoinOp
  <2> QED
    BY <1>1, <1>2, <1>4, <2>8, <2>10 DEF Proper
<1> QED
  BY <1>5, <1>6

\* A step of a save that is at no lock and the removal of one from its lock.
LEMMA CheckpointKeeps ==
  ASSUME SavesInv, NEW s \in Saver, WriteCheckpoint(s)
  PROVE  SavesInv'
<1> USE DEF SavesInv, PsTypeOK
<1>1. /\ ops[s].kind = "checkpoint" /\ Locked(s) /\ ops[s].stage = "ckpt" /\ Writing(s)
      /\ ops[s].file \in FileType
  BY DEF WriteCheckpoint, SavesInOrder, KindsApart, Writing, SaveType
<1> DEFINE r == ops[s].target
           b == ops[s].file.built
<1>2. /\ r \in Root /\ b <= psBuilt /\ b \in Nat
      /\ b > disk[r].ckptBuilt /\ disk[r] \in DirectoryType
  BY <1>1 DEF SavesInOrder, BuiltInOrder, FileType
<1>3. /\ disk' \in [Root -> DirectoryType]
      /\ \A q \in Root : q # r => disk'[q] = disk[q]
      /\ disk'[r].metaBuilt = disk[r].metaBuilt
      /\ disk'[r].ckptBuilt \in {disk[r].ckptBuilt, b}
  <2>1. CASE UNCHANGED disk
    BY <2>1
  <2>2. CASE disk' = [disk EXCEPT ![r].ckpt = ops[s].file.ckpt, ![r].ckptBuilt = b]
    <3> DEFINE d == [disk[r] EXCEPT !.ckpt = ops[s].file.ckpt, !.ckptBuilt = b]
    <3>1. disk' = [disk EXCEPT ![r] = d]
      BY <1>2, <2>2 DEF DirectoryType
    <3>2. d \in DirectoryType /\ d.ckptBuilt = b /\ d.metaBuilt = disk[r].metaBuilt
      BY <1>1, <1>2 DEF DirectoryType, FileType
    <3> HIDE DEF d, r, b
    <3> QED
      BY <1>2, <3>1, <3>2
  <2> QED
    BY <2>1, <2>2 DEF WriteCheckpoint
<1>4. /\ UNCHANGED <<st, opened, timer, switched, psEdits, psBuilt>> /\ psFaults' \in Nat
      /\ ops' = [ops EXCEPT ![s] = IdleOp] /\ line' = Left(line, s) /\ lock' = Left(lock, s)
  BY DEF WriteCheckpoint, Leaves, Faulty
<1>5. ops' \in [Saver -> SaveType] /\ ops'[s] = IdleOp /\ \A t \in Saver : t # s => ops'[t] = ops[t]
  BY <1>4, IdleTyped
<1>6. /\ lock' \in [Saver -> SUBSET Saver] /\ line' \in [Saver -> SUBSET Saver]
      /\ \A t \in Saver : t # s => lock'[t] = lock[t] \ {s}
  <2>1. lock \in [Saver -> SUBSET Saver] /\ line \in [Saver -> SUBSET Saver] /\ {} \in SUBSET Saver
    OBVIOUS
  <2>2. /\ Left(lock, s) \in [Saver -> SUBSET Saver]
        /\ \A t \in Saver : t # s => Left(lock, s)[t] = lock[t] \ {s}
    BY <2>1, LeftTyped
  <2>3. Left(line, s) \in [Saver -> SUBSET Saver]
    BY <2>1, LeftTyped
  <2> QED
    BY <1>4, <2>2, <2>3
<1>7. ~Writing(s)' /\ \A t \in Saver : t # s => Writing(t)' = Writing(t)
  BY <1>5, IdleTyped DEF Writing
<1>8. \A t \in Saver : t # s /\ Writing(t) /\ ops[t].target = r => b < ops[t].file.built
  BY <1>1, WriterIsFirst
<1> HIDE DEF r, b
<1>9. /\ \A t \in Saver : ops[t].file.built \in Nat
      /\ \A q \in Root : disk[q].metaBuilt \in Nat /\ disk[q].ckptBuilt \in Nat
  BY DEF SaveType, FileType, DirectoryType
<1>10. BuiltInOrder'
  <2>1. \A q \in Root : disk'[q].metaBuilt <= psBuilt' /\ disk'[q].ckptBuilt <= psBuilt'
    BY <1>2, <1>3, <1>4 DEF SavesInOrder, BuiltInOrder
  <2>2. ASSUME NEW t \in Saver, t # s
        PROVE  /\ ops'[t].stage = "dialog" => ops'[t].file.built \in 1..psBuilt'
               /\ Writing(t)' =>
                    /\ ops'[t].target \in Root /\ ops'[t].file.built <= psBuilt'
                    /\ ops'[t].stage = "meta"
                         => ops'[t].file.built > disk'[ops'[t].target].metaBuilt
                    /\ ops'[t].stage # "flows"
                         => ops'[t].file.built > disk'[ops'[t].target].ckptBuilt
    <3>1. ops'[t] = ops[t] /\ Writing(t)' = Writing(t)
      BY <1>5, <1>7, <2>2
    <3>2. CASE Writing(t) /\ ops[t].target = r
      <4>1. b < ops[t].file.built
        BY <1>8, <2>2, <3>2
      <4>2. ops[t].stage # "dialog"
        BY <3>2 DEF Writing
      <4> QED
        BY <1>2, <1>3, <1>4, <3>1, <3>2, <4>1, <4>2 DEF SavesInOrder, BuiltInOrder
    <3>3. CASE ~(Writing(t) /\ ops[t].target = r)
      BY <1>3, <1>4, <3>1, <3>3 DEF SavesInOrder, BuiltInOrder
    <3> QED
      BY <3>2, <3>3
  <2>3. ops'[s].stage # "dialog"
    BY <1>5, IdleTyped
  <2> QED
    BY <1>7, <2>1, <2>2, <2>3 DEF BuiltInOrder
<1>11. LockInOrder'
  BY <1>5, <1>6, <1>7 DEF SavesInOrder, LockInOrder, Ahead
<1>12. KindsApart'
  BY <1>5, IdleTyped DEF SavesInOrder, KindsApart
<1> QED
  BY <1>3, <1>4, <1>5, <1>6, <1>10, <1>11, <1>12 DEF SavesInOrder

LEMMA SavesInvNext == SavesInv /\ [PsNext]_psVars => SavesInv'
<1> SUFFICES ASSUME SavesInv, [PsNext]_psVars
             PROVE  SavesInv'
  OBVIOUS
<1>1. CASE UNCHANGED psVars
  BY <1>1, SavesUnmoved DEF psVars, SavesInv, PsTypeOK
<1>2. CASE PsNext
  <2>1. CASE EditCanvas \/ EditAgents \/ \E w \in Flow : EditOther(w) \/ SwitchFlow(w)
    BY <2>1, CanvasKeeps
  <2>2. CASE \E w \in Flow : NewFlow(w) \/ RemoveFlow(w)
                               \/ \E activate \in BOOLEAN : RegisterFlow(w, activate)
    BY <2>2, RegistryKeeps
  <2>3. CASE ApplyProject \/ CloseProject \/ \E r \in Root : ReadProject(r)
    BY <2>3, ProjectKeeps
  <2>4. ASSUME NEW s \in Saver,
               \/ RequestSave(s) \/ Autosave(s)
               \/ \E r \in Root : RequestSaveAs(s, r)
               \/ \E r \in Root, w \in Flow : CreateProject(s, r, w)
               \/ StartSave(s) \/ BuildFile(s) \/ PickRoot(s) \/ DismissDialog(s)
               \/ SaveFails(s) \/ WriteFile(s) \/ CommitSave(s)
               \/ PersistCheckpoint(s) \/ WriteCheckpoint(s)
        PROVE  SavesInv'
    BY <2>4, RequestKeeps, StartKeeps, BuildKeeps, PickKeeps, FailureKeeps, WriteKeeps,
       CommitKeeps, PersistKeeps, CheckpointKeeps
  <2> QED
    BY <1>2, <2>1, <2>2, <2>3, <2>4 DEF PsNext
<1> QED
  BY <1>1, <1>2

LEMMA SavesInvAlways == PsSpec => []SavesInv
BY SavesInvInit, SavesInvNext, PTL DEF PsSpec

-----------------------------------------------------------------------------
(* What a project can rely on.                                             *)

\* The store, the files, the saves and their queues keep their types.
THEOREM StoreTyped == PsSpec => []PsTypeOK
<1>1. SavesInv => PsTypeOK
  BY DEF SavesInv
<1> QED
  BY <1>1, SavesInvAlways, PTL

\* Whatever differs from the last save is shown as unsaved, through every
\* edit, switch of workflows, save and opening.
THEOREM ChangesShow == PsSpec => []UnsavedShows
<1>1. SavesInv => UnsavedShows
  BY DEF SavesInv, Shows, UnsavedShows
<1> QED
  BY <1>1, SavesInvAlways, PTL

\* No write puts an earlier build over a later one, however many saves and
\* checkpoints of one directory overlap.
THEOREM FilesKeepOrder == PsSpec => FilesNeverGoBack
<1>1. SavesInv /\ SavesInv' /\ [PsNext]_psVars
        => [\A r \in Root : /\ disk'[r].metaBuilt >= disk[r].metaBuilt
                            /\ disk'[r].ckptBuilt >= disk[r].ckptBuilt]_psVars
  <2> SUFFICES ASSUME SavesInv, PsNext, NEW r \in Root
               PROVE  /\ disk'[r].metaBuilt >= disk[r].metaBuilt
                      /\ disk'[r].ckptBuilt >= disk[r].ckptBuilt
    OBVIOUS
  <2>1. disk[r] \in DirectoryType /\ disk[r].metaBuilt \in Nat /\ disk[r].ckptBuilt \in Nat
    BY DEF SavesInv, PsTypeOK, DirectoryType
  <2>2. ASSUME NEW s \in Saver, WriteFile(s) \/ WriteCheckpoint(s)
        PROVE  /\ disk'[r].metaBuilt >= disk[r].metaBuilt
               /\ disk'[r].ckptBuilt >= disk[r].ckptBuilt
    <3> DEFINE b == ops[s].file.built
    <3>1. /\ ops[s].target \in Root /\ b \in Nat
          /\ ops[s].stage = "meta" => b > disk[ops[s].target].metaBuilt
          /\ ops[s].stage # "flows" => b > disk[ops[s].target].ckptBuilt
      BY <2>2 DEF WriteFile, WriteCheckpoint, SavesInv, SavesInOrder, BuiltInOrder, KindsApart,
                  Writing, PsTypeOK, SaveType, FileType
    <3>2. disk[ops[s].target] \in DirectoryType
      BY <3>1 DEF SavesInv, PsTypeOK
    <3>3. CASE WriteFile(s) /\ ops[s].stage = "meta"
      BY <2>1, <3>1, <3>2, <3>3 DEF WriteFile, SavesInv, PsTypeOK, DirectoryType
    <3>4. CASE WriteFile(s) /\ ops[s].stage = "ckpt"
      BY <2>1, <3>1, <3>2, <3>4 DEF WriteFile, SavesInv, PsTypeOK, DirectoryType
    <3>5. CASE WriteFile(s) /\ ops[s].stage = "flows"
      BY <2>1, <3>1, <3>2, <3>5 DEF WriteFile, SavesInv, PsTypeOK, DirectoryType
    <3>6. CASE WriteCheckpoint(s)
      <4>1. ops[s].stage = "ckpt"
        BY <3>6 DEF WriteCheckpoint, SavesInv, SavesInOrder, KindsApart
      <4> QED
        BY <2>1, <3>1, <3>2, <3>6, <4>1 DEF WriteCheckpoint, SavesInv, PsTypeOK, DirectoryType
    <3> QED
      BY <2>2, <3>3, <3>4, <3>5, <3>6 DEF WriteFile
  <2>3. CASE UNCHANGED disk
    BY <2>1, <2>3
  <2>4. UNCHANGED disk \/ \E s \in Saver : WriteFile(s) \/ WriteCheckpoint(s)
    BY DEF PsNext, EditCanvas, EditAgents, EditOther, SwitchFlow, NewFlow, RemoveFlow,
           RegisterFlow, Unsaved, ReadProject, ApplyProject, CloseProject, RequestSave,
           Autosave, RequestSaveAs, CreateProject, StartSave, BuildFile, PickRoot,
           DismissDialog, SaveFails, CommitSave, PersistCheckpoint
  <2> QED
    BY <2>2, <2>3, <2>4
<1> QED
  BY <1>1, SavesInvAlways, PTL DEF PsSpec, FilesNeverGoBack

\* A guarded save sets the store only while the opening it was made for lasts.
THEOREM GuardsHold == PsSpec => GuardedSavesInOpening
<1>1. SavesInv /\ [PsNext]_psVars
        => [\A s \in Saver :
              (ops[s].guarded /\ ops[s].stage = "commit" /\ st' # st
                 /\ ops'[s].stage = "idle")
              => ops[s].from = switched]_psVars
  <2> SUFFICES ASSUME SavesInv, PsNext, NEW s \in Saver, ops[s].guarded,
                      ops[s].stage = "commit", st' # st, ops'[s].stage = "idle"
               PROVE  ops[s].from = switched
    OBVIOUS
  <2>1. ops[s].kind = "save"
    BY DEF SavesInv, SavesInOrder, KindsApart
  <2>2. \A t \in Saver : t # s => \A op : ops' = [ops EXCEPT ![t] = op] => ops'[s] = ops[s]
    BY DEF SavesInv, PsTypeOK
  <2>3. ops' # ops
    OBVIOUS
  <2>4. PICK t \in Saver :
          \/ RequestSave(t) \/ Autosave(t)
          \/ \E r \in Root : RequestSaveAs(t, r)
          \/ \E r \in Root, w \in Flow : CreateProject(t, r, w)
          \/ StartSave(t) \/ BuildFile(t) \/ PickRoot(t) \/ DismissDialog(t)
          \/ SaveFails(t) \/ WriteFile(t) \/ CommitSave(t)
          \/ PersistCheckpoint(t) \/ WriteCheckpoint(t)
    BY <2>3 DEF PsNext, EditCanvas, EditAgents, EditOther, SwitchFlow, NewFlow, RemoveFlow,
                RegisterFlow, Unsaved, ReadProject, ApplyProject, CloseProject
  <2>5. t = s
    <3>1. SUFFICES ASSUME t # s
                   PROVE  ops'[s] = ops[s]
      OBVIOUS
    <3> QED
      BY <2>4, <3>1 DEF SavesInv, PsTypeOK, RequestSave, Autosave, AskSave, Enters, RequestSaveAs,
                CreateProject, StartSave, BuildFile, PickRoot, DismissDialog, SaveFails,
                WriteFile, CommitSave, PersistCheckpoint, WriteCheckpoint, Fails, Leaves
  <2>6. SaveFails(s) \/ CommitSave(s)
    BY <2>1, <2>4, <2>5 DEF RequestSave, Autosave, AskSave, Enters, RequestSaveAs,
                CreateProject, StartSave, BuildFile, PickRoot, DismissDialog,
                WriteFile, PersistCheckpoint, WriteCheckpoint
  <2>7. CommitSave(s) /\ GuardOk(ops[s])
    BY <2>1, <2>6 DEF SaveFails, CommitSave, Fails
  <2> QED
    BY <2>7 DEF GuardOk
<1> QED
  BY <1>1, SavesInvAlways, PTL DEF PsSpec, GuardedSavesInOpening

-----------------------------------------------------------------------------
(***************************************************************************)
(* Delegation. What is granted lies within what was approved: the tasks of *)
(* a run are the newest ones of its revision, a budget is never given      *)
(* twice, and what a reader gets is in its scope.                          *)
(***************************************************************************)

(* Scopes                                                                  *)

LEMMA MinIs ==
    ASSUME NEW T \in SUBSET Nat, T # {} PROVE Min(T) \in T /\ \A x \in T : Min(T) <= x
  <1>1. \E x \in T : \A y \in T : x <= y BY LeastOf
  <1> QED BY <1>1 DEF Min

Least(a, b, c) == Min({a, b, c})

LEMMA LeastIs ==
    ASSUME NEW a, NEW b, NEW c, {a, b, c} \subseteq Nat
    PROVE  /\ Least(a, b, c) \in Nat /\ Least(a, b, c) <= a /\ Least(a, b, c) <= b
           /\ Least(a, b, c) <= c
  <1> DEFINE T == {a, b, c}
  <1>1. T \in SUBSET Nat /\ T # {} /\ a \in T /\ b \in T /\ c \in T OBVIOUS
  <1> HIDE DEF T
  <1>2. Min(T) \in T /\ \A x \in T : Min(T) <= x BY <1>1, MinIs
  <1>3. Min(T) \in Nat /\ Min(T) <= a /\ Min(T) <= b /\ Min(T) <= c BY <1>1, <1>2
  <1>4. Least(a, b, c) = Min(T) BY DEF T, Least
  <1> QED BY <1>3, <1>4

Counts(s) == s.depth \in Nat /\ s.fan \in Nat /\ s.tokens \in Nat /\ s.expires \in Nat

LEMMA ScopeCounts == \A s \in Scope : Counts(s)
  BY DEF Scope, Counts

LEMMA IntersectIs ==
    ASSUME NEW a, Counts(a), NEW b, Counts(b), NEW c, Counts(c)
    PROVE  /\ Counts(Intersect(a, b, c)) /\ NoWiderThan(Intersect(a, b, c), a)
           /\ NoWiderThan(Intersect(a, b, c), b) /\ NoWiderThan(Intersect(a, b, c), c)
  <1> DEFINE i == Intersect(a, b, c)
  <1>1. /\ i.files = a.files \cap b.files \cap c.files
        /\ i.roles = a.roles \cap b.roles \cap c.roles
        /\ i.depth = Least(a.depth, b.depth, c.depth) /\ i.fan = Least(a.fan, b.fan, c.fan)
        /\ i.tokens = Least(a.tokens, b.tokens, c.tokens)
        /\ i.expires = Least(a.expires, b.expires, c.expires)
    BY DEF Intersect, Least
  <1>2. i.evidence => a.evidence /\ b.evidence /\ c.evidence BY DEF Intersect
  <1>9. i.delegates => a.delegates /\ b.delegates /\ c.delegates BY DEF Intersect
  <1> HIDE DEF i
  <1>10. /\ i.depth \in Nat /\ i.depth <= a.depth /\ i.depth <= b.depth /\ i.depth <= c.depth
         /\ i.fan \in Nat /\ i.fan <= a.fan /\ i.fan <= b.fan /\ i.fan <= c.fan
    BY <1>1, LeastIs DEF Counts
  <1>11. /\ i.tokens \in Nat /\ i.tokens <= a.tokens /\ i.tokens <= b.tokens /\ i.tokens <= c.tokens
         /\ i.expires \in Nat /\ i.expires <= a.expires /\ i.expires <= b.expires
         /\ i.expires <= c.expires
    BY <1>1, LeastIs DEF Counts
  <1>4. Counts(i) BY <1>10, <1>11 DEF Counts
  <1>5. \A x \in {a, b, c} : /\ i.files \subseteq x.files /\ i.roles \subseteq x.roles
                             /\ i.depth <= x.depth /\ i.fan <= x.fan /\ i.tokens <= x.tokens
                             /\ i.expires <= x.expires
    BY <1>1, <1>10, <1>11
  <1>6. NoWiderThan(i, a) BY <1>2, <1>5, <1>9, Zenon DEF NoWiderThan
  <1>7. NoWiderThan(i, b) BY <1>2, <1>5, <1>9, Zenon DEF NoWiderThan
  <1>8. NoWiderThan(i, c) BY <1>2, <1>5, <1>9, Zenon DEF NoWiderThan
  <1> QED BY <1>4, <1>6, <1>7, <1>8 DEF i

LEMMA NoWiderTrans ==
    ASSUME NEW a, Counts(a), NEW b, Counts(b), NEW c, Counts(c), NoWiderThan(a, b), NoWiderThan(b, c)
    PROVE  NoWiderThan(a, c)
  <1>1. (a.evidence => c.evidence) /\ (a.delegates => c.delegates) BY DEF NoWiderThan
  <1>2. /\ a.files \subseteq c.files /\ a.roles \subseteq c.roles BY DEF NoWiderThan
  <1>3. a.depth <= c.depth /\ a.fan <= c.fan /\ a.tokens <= c.tokens /\ a.expires <= c.expires
    BY DEF NoWiderThan, Counts
  <1> QED BY <1>1, <1>2, <1>3 DEF NoWiderThan

LEMMA NoWiderSelf == ASSUME NEW a, Counts(a) PROVE NoWiderThan(a, a)
  BY DEF NoWiderThan, Counts

-----------------------------------------------------------------------------
(* The graph of delegations                                                *)

\* The tasks below a task: from it every edge leads to one of them.
LEMMA BelowClosed ==
    ASSUME NEW E \in SUBSET (DlTask \X DlTask), NEW t \in DlTask
    PROVE  /\ t \in Below(E, t)
           /\ \A e \in E : e[1] \in Below(E, t) => e[2] \in Below(E, t)
  <1> DEFINE n == Cardinality(DlTask)
             P == SUBSET DlTask
             step(before) == before \cup {e[2] : e \in {x \in E : x[1] \in before}}
             G == [k \in 1..n |-> [before \in P |-> step(before)]]
             Is(f) == f = [k \in 0..n |-> IF k = 0 THEN {t}
                                          ELSE LET before == f[k - 1]
                                               IN  before \cup {e[2] : e \in {x \in E : x[1] \in before}}]
             f == CHOOSE g : Is(g)
  <1>1. n \in Nat BY DelegationAssumption, FS_CardinalityType
  <1>2. \A before \in P : step(before) \in P OBVIOUS
  <1>3. G \in [1..n -> [P -> P]] BY <1>2
  <1>4. {t} \in P OBVIOUS
  <1>5. \A k \in 1..n, before \in P : G[k][before] = step(before) OBVIOUS
  <1>6. Below(E, t) = f[n] BY DEF Below
  <1>7. \E g : Is(g)
    <2> HIDE DEF n, P, G, step
    <2>1. PICK g : Recursive(g, n, P, {t}, G) BY <1>1, <1>3, <1>4, Recursion
    <2>2. g \in [0..n -> P] /\ g[0] = {t} /\ \A k \in 1..n : g[k] = G[k][g[k - 1]]
      BY <2>1 DEF Recursive
    <2>3. \A k \in 1..n : k - 1 \in 0..n BY <1>1
    <2>4. \A k \in 1..n : g[k] = step(g[k - 1]) BY <1>5, <2>2, <2>3
    <2>5. \A k \in 0..n : g[k] = IF k = 0 THEN {t} ELSE step(g[k - 1]) BY <1>1, <2>2, <2>4
    <2>6. g = [k \in 0..n |-> IF k = 0 THEN {t} ELSE step(g[k - 1])] BY <2>2, <2>5
    <2>7. Is(g) BY <2>6 DEF step
    <2> QED BY <2>7
  <1>8. Is(f) BY <1>7
  <1>17. f = [k \in 0..n |-> IF k = 0 THEN {t} ELSE step(f[k - 1])]
    <2> HIDE DEF f, n
    <2> QED BY <1>8
  <1>18. 0 \in 0..n /\ \A k \in 1..n : k \in 0..n /\ k # 0 BY <1>1
  <1>9. f[0] = {t} /\ \A k \in 1..n : f[k] = step(f[k - 1])
    <2> HIDE DEF f, n, step
    <2> QED BY <1>17, <1>18
  <1> HIDE DEF f, Is, P, G, n
  <1> DEFINE S == {k \in 0..n : /\ f[k] \in SUBSET DlTask /\ t \in f[k]
                                /\ \/ step(f[k]) = f[k]
                                   \/ Cardinality(f[k]) > k}
  <1>10. 0 \in S
    <2>1. Cardinality(f[0]) = 1 BY <1>9, FS_Singleton
    <2>2. Cardinality(f[0]) > 0 BY <2>1
    <2> HIDE DEF step
    <2> QED BY <1>1, <1>9, <2>2
  <1>11. ASSUME NEW k \in 1..n, k - 1 \in S PROVE k \in S
    <2> DEFINE A == f[k - 1]
    <2>1. A \in SUBSET DlTask /\ t \in A /\ (step(A) = A \/ Cardinality(A) > k - 1) BY <1>11
    <2>2. f[k] = step(A) BY <1>9
    <2> HIDE DEF A, S
    <2>3. step(A) \in SUBSET DlTask /\ A \subseteq step(A) BY <2>1
    <2>4. CASE step(A) = A
      <3>1. step(f[k]) = f[k] BY <2>2, <2>4
      <3> QED BY <1>1, <2>1, <2>2, <2>4, <3>1 DEF S
    <2>5. CASE step(A) # A /\ Cardinality(A) > k - 1
      <3> HIDE DEF step
      <3>1. IsFiniteSet(step(A)) /\ IsFiniteSet(A) BY <2>1, <2>3, DelegationAssumption, FS_Subset
      <3>3. Cardinality(A) \in Nat /\ Cardinality(step(A)) \in Nat BY <3>1, FS_CardinalityType
      <3>5. Cardinality(A) <= Cardinality(step(A)) /\ Cardinality(A) # Cardinality(step(A))
        BY <2>3, <2>5, <3>1, FS_Subset
      <3>2. Cardinality(A) < Cardinality(step(A)) BY <3>3, <3>5
      <3>4. Cardinality(step(A)) > k BY <1>1, <2>5, <3>2, <3>3
      <3> QED BY <2>1, <2>2, <2>3, <3>4 DEF S
    <2> QED BY <2>1, <2>4, <2>5
  <1> HIDE DEF S
  <1>12. 0..n \subseteq S BY <1>1, <1>10, <1>11, UpTo
  <1>13. n \in S BY <1>1, <1>12
  <1>14. f[n] \in SUBSET DlTask /\ t \in f[n] /\ (step(f[n]) = f[n] \/ Cardinality(f[n]) > n)
    BY <1>13 DEF S
  <1>15. ~(Cardinality(f[n]) > n)
    <2>1. Cardinality(f[n]) <= n /\ Cardinality(f[n]) \in Nat
      BY <1>14, DelegationAssumption, FS_Subset, FS_CardinalityType DEF n
    <2> QED BY <1>1, <2>1
  <1>16. step(f[n]) = f[n] BY <1>14, <1>15
  <1> QED BY <1>6, <1>14, <1>16

\* Nobody works under itself: of any tasks one has no delegation from another of them.
Acyclic(E) == \A S \in SUBSET DlTask : S # {} =>
                \E t \in S : \A e \in E : e[2] = t => e[1] \notin S

LEMMA StaysAcyclic ==
    ASSUME NEW E \in SUBSET (DlTask \X DlTask), Acyclic(E), NEW p \in DlTask, NEW c \in DlTask,
           p \notin Below(E \cup {<<p, c>>}, c)
    PROVE  Acyclic(E \cup {<<p, c>>})
  <1> DEFINE F == E \cup {<<p, c>>}
             B == Below(F, c)
  <1>1. F \in SUBSET (DlTask \X DlTask) OBVIOUS
  <1> HIDE DEF F
  <1>2. c \in B /\ \A e \in F : e[1] \in B => e[2] \in B BY <1>1, BelowClosed
  <1>3. p \notin B BY DEF F
  <1> HIDE DEF B
  <1>4. ASSUME NEW S \in SUBSET DlTask, S # {}
        PROVE  \E t \in S : \A e \in F : e[2] = t => e[1] \notin S
    <2>1. CASE S \subseteq B
      <3>1. PICK t \in S : \A e \in E : e[2] = t => e[1] \notin S BY <1>4 DEF Acyclic
      <3>2. \A e \in F : e[2] = t => e[1] \notin S BY <1>3, <2>1, <3>1 DEF F
      <3> QED BY <3>2
    <2>2. CASE S \ B # {}
      <3>1. PICK t \in S \ B : \A e \in E : e[2] = t => e[1] \notin S \ B
        BY <2>2 DEF Acyclic
      <3>2. \A e \in F : e[2] = t => e[1] \notin S BY <1>2, <3>1 DEF F
      <3> QED BY <3>1, <3>2
    <2> QED BY <2>1, <2>2
  <1>5. Acyclic(F) BY <1>4 DEF Acyclic
  <1> QED BY <1>5 DEF F

-----------------------------------------------------------------------------
(* What is read of the evidence                                            *)

Priced(entries) == \A i \in 1..Len(entries) : entries[i].cost \in Nat

LEMMA CostIs ==
    ASSUME NEW entries, NEW n
    PROVE  CostTo(entries, n) = Total([i \in 1..n |-> entries[i].cost], 1..n)
  BY DEF CostTo, MapThenSumSet, MapThenFoldSet, Total, SumsTo

LEMMA NothingCosts == ASSUME NEW entries PROVE CostTo(entries, 0) = 0
  <1>1. 1..0 = {} OBVIOUS
  <1> QED BY <1>1, CostIs, TotalEmpty

\* What is cut to the budget is a beginning that costs no more.
LEMMA FittingIs ==
    ASSUME NEW X, NEW entries \in Seq(X), NEW tokens \in Nat
    PROVE  \E m \in 0..Len(entries) :
             /\ Fitting(entries, tokens) = SubSeq(entries, 1, m)
             /\ CostTo(entries, m) <= tokens
  <1> DEFINE n == Len(entries)
             T == {k \in 0..n : CostTo(entries, k) <= tokens}
  <1>1. n \in Nat OBVIOUS
  <1>2. 0 \in T BY <1>1, NothingCosts
  <1>3. Fitting(entries, tokens) = SubSeq(entries, 1, Max(T)) BY DEF Fitting
  <1>4. T \in SUBSET (0..n) OBVIOUS
  <1>5. Max(T) \in T
    <2> HIDE DEF T, n
    <2> QED BY <1>1, <1>2, <1>4, MaxIs
  <1>6. Max(T) \in 0..n /\ CostTo(entries, Max(T)) <= tokens BY <1>5
  <1> HIDE DEF T
  <1> QED BY <1>3, <1>6

LEMMA MatchesTyped ==
    ASSUME NEW X, NEW index \in Seq(X), NEW q PROVE Matches(index, q) \in Seq(X)
  <1> DEFINE Fits(e) == (q.exact => e.id \in q.ids) /\ q.kind \in {"any", e.kind}
             n == Len(index)
             Is(f) == f = [k \in 0..n |->
                             IF k = 0 THEN <<>>
                             ELSE f[k - 1] \o (IF Fits(index[k]) THEN <<index[k]>> ELSE <<>>)]
             f == CHOOSE g : Is(g)
             more == [k \in 0..n |-> IF Fits(index[k]) THEN <<index[k]>> ELSE <<>>]
             Y == Seq(X)
             G == [k \in 1..n |-> [s \in Y |-> s \o more[k]]]
             S == {k \in 0..n : f[k] \in Y}
  <1>1. n \in Nat /\ \A k \in 1..n : index[k] \in X OBVIOUS
  <1>2. \A k \in 1..n : more[k] \in Y
    <2> HIDE DEF Fits, n
    <2> QED BY <1>1
  <1>3. Matches(index, q) = f[n] BY DEF Matches
  <1>4. ASSUME NEW g PROVE Is(g) <=> g = [k \in 0..n |-> IF k = 0 THEN <<>> ELSE g[k - 1] \o more[k]]
    <2>1. \A k \in 0..n : more[k] = IF Fits(index[k]) THEN <<index[k]>> ELSE <<>> OBVIOUS
    <2> HIDE DEF more, n, Fits
    <2> QED BY <2>1
  <1> HIDE DEF more, n, Is, Fits
  <1>5. \A k \in 1..n, s \in Y : s \o more[k] \in Y BY <1>2
  <1>6. G \in [1..n -> [Y -> Y]] BY <1>5
  <1>7. \A k \in 1..n, s \in Y : G[k][s] = s \o more[k] OBVIOUS
  <1>8. <<>> \in Y OBVIOUS
  <1> HIDE DEF G, Y
  <1>9. \E g : Is(g)
    <2>1. PICK g : Recursive(g, n, Y, <<>>, G) BY <1>1, <1>6, <1>8, Recursion
    <2>2. g \in [0..n -> Y] /\ g[0] = <<>> /\ \A k \in 1..n : g[k] = G[k][g[k - 1]]
      BY <2>1 DEF Recursive
    <2>3. \A k \in 1..n : k - 1 \in 0..n BY <1>1
    <2>4. \A k \in 1..n : g[k] = g[k - 1] \o more[k] BY <1>7, <2>2, <2>3
    <2>5. \A k \in 0..n : k = 0 \/ k \in 1..n BY <1>1
    <2>6. g = [k \in 0..n |-> IF k = 0 THEN <<>> ELSE g[k - 1] \o more[k]]
      BY <2>2, <2>4, <2>5
    <2> QED BY <1>4, <2>6
  <1>10. Is(f) BY <1>9
  <1> HIDE DEF f
  <1>11. f = [k \in 0..n |-> IF k = 0 THEN <<>> ELSE f[k - 1] \o more[k]] BY <1>4, <1>10
  <1>12. 0 \in 0..n /\ \A k \in 1..n : k \in 0..n /\ k # 0 BY <1>1
  <1>13. f[0] = <<>> /\ \A k \in 1..n : f[k] = f[k - 1] \o more[k] BY <1>11, <1>12
  <1>14. 0 \in S BY <1>8, <1>12, <1>13
  <1>15. ASSUME NEW k \in 1..n, k - 1 \in S PROVE k \in S
    BY <1>5, <1>12, <1>13, <1>15
  <1> HIDE DEF S
  <1>16. 0..n \subseteq S BY <1>1, <1>14, <1>15, UpTo
  <1>17. n \in S BY <1>1, <1>16
  <1> QED BY <1>3, <1>17 DEF S, Y

\* What is read, of any index.
LEMMA ReadIs ==
    ASSUME NEW X, NEW index \in Seq(X), NEW q, q.limit \in Nat, q.tokens \in Nat,
           NEW scope, scope.tokens \in Nat
    PROVE  LET read == Retrieved(index, q, scope)
               found == Matches(index, q)
           IN  /\ CostTo(read.entries, Len(read.entries)) <= Min({scope.tokens, q.tokens})
               /\ Len(read.entries) <= q.limit
               /\ read.entries = SubSeq(found, 1, Len(read.entries))
               /\ read.entries # <<>> => scope.evidence /\ q.project # "other"
               /\ read.verdict \in {"ok", "empty", "not-found"} => read.entries = found
  <1> DEFINE read == Retrieved(index, q, scope)
             found == Matches(index, q)
             all == QueryIndex(index, q)
             cut == Min({q.limit, Len(found)})
             tokens == Min({q.tokens, scope.tokens})
             kept == Fitting(all.entries, tokens)
             least == Min({scope.tokens, q.tokens})
  <1> SUFFICES /\ CostTo(read.entries, Len(read.entries)) <= least
               /\ Len(read.entries) <= q.limit
               /\ read.entries = SubSeq(found, 1, Len(read.entries))
               /\ read.entries # <<>> => scope.evidence /\ q.project # "other"
               /\ read.verdict \in {"ok", "empty", "not-found"} => read.entries = found
    OBVIOUS
  <1>1. found \in Seq(X) /\ Len(found) \in Nat BY MatchesTyped
  <1>2. tokens \in Nat /\ tokens = least
    <2>1. {q.tokens, scope.tokens} \in SUBSET Nat /\ {q.tokens, scope.tokens} # {} OBVIOUS
    <2>2. Min({q.tokens, scope.tokens}) \in {q.tokens, scope.tokens} BY <2>1, MinIs
    <2>3. {q.tokens, scope.tokens} = {scope.tokens, q.tokens} OBVIOUS
    <2> QED BY <2>1, <2>2, <2>3
  <1>3. cut \in Nat /\ cut <= q.limit /\ cut <= Len(found) /\ (cut = q.limit \/ cut = Len(found))
    <2> DEFINE T == {q.limit, Len(found)}
    <2>1. T \in SUBSET Nat /\ T # {} /\ q.limit \in T /\ Len(found) \in T BY <1>1
    <2>2. T = {q.limit, Len(found)} OBVIOUS
    <2> HIDE DEF T
    <2>3. Min(T) \in T /\ \A x \in T : Min(T) <= x BY <2>1, MinIs
    <2>4. Min(T) \in Nat /\ Min(T) <= q.limit /\ Min(T) <= Len(found)
          /\ (Min(T) = q.limit \/ Min(T) = Len(found))
      BY <2>1, <2>2, <2>3
    <2> QED BY <2>2, <2>4
  <1>4. \/ all.entries = <<>> /\ q.project = "other" /\ all.verdict = "out-of-scope"
        \/ /\ all.entries = SubSeq(found, 1, cut) /\ q.project # "other"
           /\ all.verdict \in {"ok", "empty", "not-found"} => found = <<>> \/ ~(Len(found) > q.limit)
    BY DEF QueryIndex, QueryAnswer
  <1>5. CASE ~scope.evidence
    <2>1. read.entries = <<>> /\ read.verdict = "out-of-scope"
      BY <1>5 DEF Retrieved, QueryAnswer
    <2>2. CostTo(<<>>, 0) = 0 /\ Len(<<>>) = 0 BY NothingCosts
    <2>3. <<>> = SubSeq(found, 1, 0) BY <1>1
    <2> HIDE DEF read, least, found, tokens
    <2> QED BY <1>2, <2>1, <2>2, <2>3
  <1>6. CASE scope.evidence
    <2>1. /\ read.entries = kept
          /\ read.verdict = IF Len(kept) < Len(all.entries) THEN "truncated" ELSE all.verdict
      BY <1>6 DEF Retrieved, QueryAnswer
    <2> HIDE DEF read, least, found, tokens, all, cut
    <2>2. \E c \in 0..Len(found) : /\ all.entries = SubSeq(found, 1, c) /\ c <= q.limit
                                   /\ c > 0 => q.project # "other"
                                   /\ all.verdict \in {"ok", "empty", "not-found"} => c = Len(found)
      <3>1. CASE all.entries = <<>> /\ q.project = "other" /\ all.verdict = "out-of-scope"
        <4>1. SubSeq(found, 1, 0) = <<>> BY <1>1
        <4> QED BY <1>1, <3>1, <4>1
      <3>2. CASE /\ all.entries = SubSeq(found, 1, cut) /\ q.project # "other"
                 /\ all.verdict \in {"ok", "empty", "not-found"} =>
                      found = <<>> \/ ~(Len(found) > q.limit)
        <4>1. found = <<>> => Len(found) = 0 OBVIOUS
        <4>2. all.verdict \in {"ok", "empty", "not-found"} => cut = Len(found)
          BY <1>1, <1>3, <3>2, <4>1
        <4> QED BY <1>1, <1>3, <3>2, <4>2
      <3> QED BY <1>4, <3>1, <3>2
    <2>3. PICK c \in 0..Len(found) : /\ all.entries = SubSeq(found, 1, c) /\ c <= q.limit
                                     /\ c > 0 => q.project # "other"
                                     /\ all.verdict \in {"ok", "empty", "not-found"} => c = Len(found)
      BY <2>2
    <2>4. all.entries \in Seq(X) /\ Len(all.entries) = c /\ \A i \in 1..c : all.entries[i] = found[i]
      BY <1>1, <2>3
    <2>5. PICK m \in 0..Len(all.entries) :
            /\ Fitting(all.entries, tokens) = SubSeq(all.entries, 1, m)
            /\ CostTo(all.entries, m) <= tokens
      BY <1>2, <2>4, FittingIs
    <2>6. /\ kept \in Seq(X) /\ Len(kept) = m /\ m \in 0..c
          /\ \A i \in 1..m : kept[i] = found[i] /\ kept[i] = all.entries[i]
      BY <1>1, <2>3, <2>4, <2>5
    <2>7. CostTo(kept, m) <= tokens
      <3>1. [i \in 1..m |-> kept[i].cost] = [i \in 1..m |-> all.entries[i].cost] BY <2>6
      <3>2. CostTo(kept, m) = CostTo(all.entries, m) BY <3>1, CostIs
      <3> QED BY <2>5, <3>2
    <2> HIDE DEF kept
    <2>8. kept = SubSeq(found, 1, m)
      <3>1. m \in 0..Len(found) BY <1>1, <2>3, <2>6
      <3>2. /\ SubSeq(found, 1, m) \in Seq(X) /\ Len(SubSeq(found, 1, m)) = m
            /\ \A i \in 1..m : SubSeq(found, 1, m)[i] = found[i]
        BY <1>1, <3>1
      <3> QED BY <2>6, <3>2
    <2>9. kept # <<>> => m > 0
      <3>1. m = 0 => kept = <<>> BY <2>6
      <3> QED BY <2>6, <3>1
    <2>10. read.verdict \in {"ok", "empty", "not-found"} => kept = found
      <3>1. SUFFICES ASSUME read.verdict \in {"ok", "empty", "not-found"} PROVE kept = found
        OBVIOUS
      <3>2. ~(m < c) /\ read.verdict = all.verdict BY <2>1, <2>4, <2>6, <3>1
      <3>3. m = c /\ c = Len(found) BY <1>1, <2>3, <2>6, <3>1, <3>2
      <3>4. SubSeq(found, 1, Len(found)) = found BY <1>1
      <3> QED BY <2>8, <3>3, <3>4
    <2> QED BY <1>1, <1>2, <1>6, <2>1, <2>3, <2>6, <2>7, <2>8, <2>9, <2>10
  <1> QED BY <1>5, <1>6

LEMMA ReadsAreBounded == ReadsBounded
  <1> SUFFICES ASSUME NEW index \in EvidenceIndex, NEW q \in EvidenceQuery, NEW e \in BOOLEAN,
                      NEW t \in 0..3
               PROVE  LET scope == [evidence |-> e, tokens |-> t]
                          read == Retrieved(index, q, scope)
                          found == Matches(index, q)
                      IN  /\ CostTo(read.entries, Len(read.entries)) <= Min({t, q.tokens})
                          /\ Len(read.entries) <= q.limit
                          /\ read.entries = SubSeq(found, 1, Len(read.entries))
                          /\ read.entries # <<>> => e /\ q.project # "other"
                          /\ read.verdict \in {"ok", "empty", "not-found"} => read.entries = found
    BY DEF ReadsBounded
  <1> DEFINE scope == [evidence |-> e, tokens |-> t]
  <1>1. index \in Seq(EvidenceEntry)
    <2>1. PICK n \in 0..2 : index \in [1..n -> EvidenceEntry] BY DEF EvidenceIndex
    <2> HIDE DEF EvidenceEntry
    <2> QED BY <2>1
  <1>2. q.limit \in Nat /\ q.tokens \in Nat BY DEF EvidenceQuery
  <1>3. scope.tokens = t /\ scope.tokens \in Nat /\ scope.evidence = e OBVIOUS
  <1> HIDE DEF scope
  <1>4. LET read == Retrieved(index, q, scope)
            found == Matches(index, q)
        IN  /\ CostTo(read.entries, Len(read.entries)) <= Min({scope.tokens, q.tokens})
            /\ Len(read.entries) <= q.limit
            /\ read.entries = SubSeq(found, 1, Len(read.entries))
            /\ read.entries # <<>> => scope.evidence /\ q.project # "other"
            /\ read.verdict \in {"ok", "empty", "not-found"} => read.entries = found
    BY <1>1, <1>2, <1>3, ReadIs
  <1> QED BY <1>3, <1>4 DEF scope

-----------------------------------------------------------------------------
(* The ledger and the delegations                                          *)

Good(r) ==
  /\ r.parent \in DlTask /\ r.child \in DlTask
  /\ r.depth \in Nat /\ r.deadline \in Nat /\ Counts(r.scope)
  /\ NoWiderThan(r.scope, RootScope) /\ NoWiderThan(r.scope, PolicyScope)
  /\ r.depth <= RootScope.depth /\ r.deadline <= RootScope.expires

FansKept ==
  \A t \in DlTask : Siblings(t) # {} =>
    \E h \in Held(t) : Cardinality(Siblings(t)) <= h.scope.fan

GrantsSound ==
  /\ dl.requests = [g \in Grant |-> dl.requests[g]]
  /\ \A g \in Granted : Good(Request(g))
  /\ Acyclic(Edges) /\ FansKept

LedgerSound ==
  /\ dl.open \in [Grant -> Nat \cup {NoGrant}]
  /\ dl.reserved = Total(dl.open, Reserved) /\ dl.reserved \in Nat /\ dl.consumed \in Nat
  /\ dl.consumed + dl.reserved <= BudgetLimit \/ dl.over

DlShape ==
  dl = [requests |-> dl.requests, open |-> dl.open, reserved |-> dl.reserved,
        consumed |-> dl.consumed, over |-> dl.over, reserves |-> dl.reserves, opened |-> dl.opened]

DlInv ==
  /\ DlShape /\ GrantsSound /\ LedgerSound
  /\ dl.opened \subseteq RootScope.files \cap PolicyScope.files

LEMMA RootCounts == Counts(RootScope) /\ Counts(PolicyScope) /\ \A s \in DlScopes : Counts(s)
  BY DelegationAssumption, ScopeCounts

\* Nobody holds more than the root.
LEMMA HeldIs ==
    ASSUME GrantsSound, NEW t, NEW h \in Held(t)
    PROVE  Counts(h.scope) /\ NoWiderThan(h.scope, RootScope) /\ h.depth \in Nat
  <1>1. CASE h = RootHeld BY <1>1, RootCounts, NoWiderSelf DEF RootHeld
  <1>2. CASE h # RootHeld
    <2>1. PICK g \in Granted :
            h = [role |-> Request(g).role, scope |-> Request(g).scope, depth |-> Request(g).depth]
      BY <1>2 DEF Held
    <2>2. Good(Request(g)) BY DEF GrantsSound
    <2>3. h.scope = Request(g).scope /\ h.depth = Request(g).depth BY <2>1
    <2> QED BY <2>2, <2>3 DEF Good
  <1> QED BY <1>1, <1>2

\* What is asked for is no more than what the asking agent holds and the policy allows.
LEMMA RequestIs ==
    ASSUME GrantsSound, NEW p \in DlTask, NEW c \in DlTask, NEW r \in Requests(p, c)
    PROVE  /\ Good(r) /\ r.parent = p /\ r.child = c
           /\ \E h \in Held(p) : r.scope.fan \in Nat /\ h.scope.fan \in Nat /\ r.scope.fan <= h.scope.fan
  <1> DEFINE Of(h, role, s) ==
        [parent |-> p, child |-> c, role |-> role, depth |-> h.depth + 1,
         scope |-> Intersect(h.scope, PolicyScope, s), deadline |-> s.expires, from |-> h.role]
  <1>1. /\ \E h \in Held(p), role \in Roles, s \in DlScopes : r = Of(h, role, s)
        /\ r.depth <= r.scope.depth /\ r.deadline <= r.scope.expires
    BY DEF Requests
  <1>2. PICK h \in Held(p), role \in Roles, s \in DlScopes : r = Of(h, role, s) BY <1>1
  <1>3. Counts(h.scope) /\ NoWiderThan(h.scope, RootScope) /\ h.depth \in Nat BY HeldIs
  <1>4. Counts(RootScope) /\ Counts(PolicyScope) /\ Counts(s) BY RootCounts
  <1>5. /\ r.parent = p /\ r.child = c /\ r.depth = h.depth + 1 /\ r.deadline = s.expires
        /\ r.scope = Intersect(h.scope, PolicyScope, s)
    BY <1>2
  <1>6. /\ Counts(r.scope) /\ NoWiderThan(r.scope, h.scope) /\ NoWiderThan(r.scope, PolicyScope)
    BY <1>3, <1>4, <1>5, IntersectIs
  <1>7. NoWiderThan(r.scope, RootScope) BY <1>3, <1>4, <1>6, NoWiderTrans
  <1>8. r.depth \in Nat /\ r.deadline \in Nat BY <1>3, <1>4, <1>5 DEF Counts
  <1>9. r.depth <= RootScope.depth /\ r.deadline <= RootScope.expires
    BY <1>1, <1>4, <1>6, <1>7, <1>8 DEF NoWiderThan, Counts
  <1>10. Good(r) BY <1>5, <1>6, <1>7, <1>8, <1>9 DEF Good
  <1>11. r.scope.fan \in Nat /\ h.scope.fan \in Nat /\ r.scope.fan <= h.scope.fan
    BY <1>3, <1>6 DEF NoWiderThan, Counts
  <1> QED BY <1>5, <1>10, <1>11

LEMMA EdgesTyped == GrantsSound => Edges \in SUBSET (DlTask \X DlTask)
  BY DEF GrantsSound, Edges, Good

\* A delegation is registered.
LEMMA RegisterKeeps ==
    ASSUME DlInv, NEW g \in Grant, RegisterGrant(g)
    PROVE  DlInv'
  <1>1. PICK p \in DlTask, c \in DlTask : \E r \in Requests(p, c) :
          /\ dl.requests[g] \in {NoGrant, r}
          /\ Cardinality(Siblings(p) \ {g}) < r.scope.fan
          /\ p \notin Below(Edges \cup {<<p, c>>}, c)
          /\ dl' = [dl EXCEPT !.requests[g] = r]
    BY DEF RegisterGrant
  <1>2. PICK r \in Requests(p, c) :
          /\ dl.requests[g] \in {NoGrant, r}
          /\ Cardinality(Siblings(p) \ {g}) < r.scope.fan
          /\ p \notin Below(Edges \cup {<<p, c>>}, c)
          /\ dl' = [dl EXCEPT !.requests[g] = r]
    BY <1>1
  <1>3. /\ dl'.requests = [dl.requests EXCEPT ![g] = r]
        /\ dl'.open = dl.open /\ dl'.reserved = dl.reserved /\ dl'.consumed = dl.consumed
        /\ dl'.over = dl.over /\ dl'.opened = dl.opened /\ DlShape'
    BY <1>2 DEF DlInv, DlShape
  <1>4. LedgerSound' BY <1>3 DEF DlInv, LedgerSound, Reserved
  <1>5. GrantsSound /\ dl.requests = [x \in Grant |-> dl.requests[x]] BY DEF DlInv, GrantsSound
  <1>6. CASE dl.requests[g] = r
    <2>1. dl'.requests = dl.requests BY <1>3, <1>5, <1>6
    <2>2. Granted' = Granted /\ (\A x : Request(x)' = Request(x)) BY <2>1 DEF Granted, Request
    <2>3. Edges' = Edges /\ (\A t : Siblings(t)' = Siblings(t)) /\ (\A t : Held(t)' = Held(t))
      BY <2>1 DEF Edges, Siblings, Held, Granted, Request
    <2>4. GrantsSound' BY <1>5, <2>1, <2>2, <2>3 DEF GrantsSound, FansKept
    <2> QED BY <1>3, <1>4, <2>4 DEF DlInv
  <1>7. CASE dl.requests[g] = NoGrant /\ r # NoGrant
    <2>1. /\ Good(r) /\ r.parent = p /\ r.child = c
          /\ \E h \in Held(p) : r.scope.fan \in Nat /\ h.scope.fan \in Nat /\ r.scope.fan <= h.scope.fan
      BY <1>5, RequestIs
    <2>2. PICK h \in Held(p) : r.scope.fan \in Nat /\ h.scope.fan \in Nat /\ r.scope.fan <= h.scope.fan
      BY <2>1
    <2>3. g \notin Granted /\ Granted' = Granted \cup {g} BY <1>3, <1>5, <1>7 DEF Granted
    <2>4. Request(g)' = r /\ \A x \in Granted : Request(x)' = Request(x)
      BY <1>3, <1>5, <2>3 DEF Request, Granted
    <2>5. Edges' = Edges \cup {<<p, c>>} BY <2>1, <2>3, <2>4 DEF Edges
    <2>6. Acyclic(Edges')
      <3>1. Acyclic(Edges) /\ Edges \in SUBSET (DlTask \X DlTask) BY <1>5, EdgesTyped DEF GrantsSound
      <3> QED BY <1>2, <2>5, <3>1, StaysAcyclic
    <2>7. \A t : Held(t) \subseteq Held(t)' BY <2>3, <2>4 DEF Held
    <2>8. ASSUME NEW t \in DlTask, Siblings(t)' # {}
          PROVE  \E k \in Held(t)' : Cardinality(Siblings(t)') <= k.scope.fan
      <3>1. CASE t = p
        <4>1. Siblings(p)' = (Siblings(p) \ {g}) \cup {g} BY <2>1, <2>3, <2>4 DEF Siblings
        <4> DEFINE A == Siblings(p) \ {g}
        <4>2. A \in SUBSET Grant BY DEF Siblings, Granted
        <4>3. IsFiniteSet(A) BY <4>2, DelegationAssumption, FS_Subset
        <4> HIDE DEF A
        <4>4. /\ Cardinality(A) \in Nat
              /\ Cardinality(A \cup {g}) = Cardinality(A) \/ Cardinality(A \cup {g}) = Cardinality(A) + 1
          BY <4>3, FS_CardinalityType, FS_AddElement
        <4>5. Cardinality(A) < r.scope.fan BY <1>2 DEF A
        <4>6. Cardinality(A \cup {g}) <= h.scope.fan BY <2>2, <4>4, <4>5
        <4>7. h \in Held(t)' BY <2>7, <3>1
        <4> QED BY <3>1, <4>1, <4>6, <4>7 DEF A
      <3>2. CASE t # p
        <4>1. Siblings(t)' = Siblings(t) BY <2>1, <2>3, <2>4, <3>2 DEF Siblings
        <4>2. PICK k \in Held(t) : Cardinality(Siblings(t)) <= k.scope.fan
          BY <1>5, <2>8, <4>1 DEF GrantsSound, FansKept
        <4> QED BY <2>7, <4>1, <4>2
      <3> QED BY <3>1, <3>2
    <2>9. \A x \in Granted' : Good(Request(x)')
      BY <1>5, <2>1, <2>3, <2>4 DEF GrantsSound
    <2>10. dl'.requests = [x \in Grant |-> dl'.requests[x]] BY <1>3, <1>5
    <2>11. GrantsSound'
      <3>1. FansKept' BY <2>8 DEF FansKept
      <3>2. \A x \in Granted' : Good(Request(x))' BY <2>9 DEF Good, Counts, NoWiderThan
      <3>3. Acyclic(Edges)' BY <2>6 DEF Acyclic
      <3> QED BY <2>10, <3>1, <3>2, <3>3 DEF GrantsSound
    <2> QED BY <1>3, <1>4, <2>11 DEF DlInv
  <1> QED BY <1>2, <1>6, <1>7

\* The rest leaves the delegations alone.
LEMMA GrantsKept ==
    ASSUME DlInv, dl'.requests = dl.requests
    PROVE  GrantsSound' /\ Granted' = Granted
  <1>1. Granted' = Granted /\ (\A x : Request(x)' = Request(x)) BY DEF Granted, Request
  <1>2. Edges' = Edges /\ (\A t : Siblings(t)' = Siblings(t)) /\ (\A t : Held(t)' = Held(t))
    BY DEF Edges, Siblings, Held, Granted, Request
  <1>3. GrantsSound' BY <1>1, <1>2 DEF DlInv, GrantsSound, FansKept
  <1> QED BY <1>1, <1>3

LEMMA DlInvStays == ASSUME DlInv, UNCHANGED dl PROVE DlInv'
  <1>1. GrantsSound' BY GrantsKept
  <1>2. LedgerSound' BY DEF DlInv, LedgerSound, Reserved
  <1>3. DlShape' BY DEF DlInv, DlShape
  <1> QED BY <1>1, <1>2, <1>3 DEF DlInv

LEMMA OpenWeighs == LedgerSound => Weighs(dl.open, Reserved)
  BY DelegationAssumption, FS_Subset DEF LedgerSound, Reserved, Weighs

LEMMA ReserveKeeps == ASSUME DlInv, NEW g \in Grant, ReserveBudget(g) PROVE DlInv'
  <1>1. CASE UNCHANGED dl BY <1>1, DlInvStays
  <1>2. CASE dl' # dl
    <2>1. PICK asked \in 0..Request(g).scope.tokens :
            /\ g \notin Reserved /\ asked + dl.consumed + dl.reserved <= BudgetLimit
            /\ dl' = [dl EXCEPT !.open[g] = asked, !.reserved = @ + asked, !.reserves = @ + 1]
      BY <1>2 DEF ReserveBudget
    <2>2. /\ dl'.open = [dl.open EXCEPT ![g] = asked] /\ dl'.reserved = dl.reserved + asked
          /\ dl'.consumed = dl.consumed /\ dl'.over = dl.over /\ dl'.opened = dl.opened
          /\ dl'.requests = dl.requests /\ DlShape'
      BY <2>1 DEF DlInv, DlShape
    <2>3. GrantsSound' BY <2>2, GrantsKept
    <2>4. asked \in Nat
      <3>1. Request(g).scope.tokens \in Nat BY DEF ReserveBudget, DlInv, GrantsSound, Good, Counts
      <3> QED BY <3>1
    <2>5. LedgerSound BY DEF DlInv
    <2>6. dl'.open \in [Grant -> Nat \cup {NoGrant}] BY <2>2, <2>4, <2>5 DEF LedgerSound
    <2>7. Reserved' = Reserved \cup {g}
      BY <2>2, <2>4, <2>5, DelegationAssumption DEF Reserved, LedgerSound
    <2>8. Weighs(dl'.open, Reserved \cup {g})
      <3>1. Reserved \cup {g} \in SUBSET Grant BY DEF Reserved
      <3>2. IsFiniteSet(Reserved \cup {g}) BY <3>1, DelegationAssumption, FS_Subset
      <3>3. \A x \in Reserved \cup {g} : dl'.open[x] \in Nat
        BY <2>2, <2>4, <2>5 DEF Reserved, LedgerSound
      <3> QED BY <3>2, <3>3 DEF Weighs
    <2>9. \A y \in Reserved : dl.open[y] = dl'.open[y] BY <2>1, <2>2, <2>5 DEF LedgerSound, Reserved
    <2>10. dl'.open[g] = asked BY <2>2, <2>5 DEF LedgerSound
    <2>11. Total(dl'.open, Reserved \cup {g}) = asked + Total(dl.open, Reserved)
      <3>1. g \notin Reserved BY <2>1
      <3>2. Total(dl'.open, Reserved \cup {g}) = dl'.open[g] + Total(dl.open, Reserved)
        BY <2>8, <2>9, <3>1, TotalAdd
      <3> QED BY <2>10, <3>2
    <2>12. dl.reserved = Total(dl.open, Reserved) /\ dl.reserved \in Nat /\ dl.consumed \in Nat
      BY <2>5 DEF LedgerSound
    <2>13. dl'.reserved = Total(dl'.open, Reserved') /\ dl'.reserved \in Nat /\ dl'.consumed \in Nat
      BY <2>2, <2>4, <2>7, <2>11, <2>12
    <2>14. dl'.consumed + dl'.reserved <= BudgetLimit
      BY <2>1, <2>2, <2>4, <2>12, DelegationAssumption
    <2>15. LedgerSound' BY <2>6, <2>13, <2>14 DEF LedgerSound
    <2> QED BY <2>2, <2>3, <2>15 DEF DlInv
  <1> QED BY <1>1, <1>2

LEMMA SettleKeeps == ASSUME DlInv, NEW g \in Grant, SettleBudget(g) PROVE DlInv'
  <1> DEFINE was == dl.open[g]
             R == Reserved \ {g}
             exceeds(actual) == dl.over \/ actual > was \/ dl.consumed + actual > BudgetLimit
  <1>1. PICK actual \in 0..(was + 1) :
          dl' = [dl EXCEPT !.open[g] = NoGrant, !.reserved = @ - was, !.consumed = @ + actual,
                           !.over = exceeds(actual)]
    BY DEF SettleBudget
  <1> DEFINE said == exceeds(actual)
  <1>20. dl' = [dl EXCEPT !.open[g] = NoGrant, !.reserved = @ - was, !.consumed = @ + actual,
                          !.over = said]
    BY <1>1
  <1> HIDE DEF said, was
  <1> DEFINE left == dl.reserved - was
             spent == dl.consumed + actual
             rest == [dl.open EXCEPT ![g] = NoGrant]
  <1>21. dl' = [dl EXCEPT !.open = rest, !.reserved = left, !.consumed = spent, !.over = said]
    BY <1>20
  <1> HIDE DEF left, spent, rest
  <1>22. /\ dl'.open = rest /\ dl'.reserved = left /\ dl'.consumed = spent
         /\ dl'.opened = dl.opened /\ dl'.requests = dl.requests
    BY <1>21 DEF DlInv, DlShape
  <1>23. dl'.over = said
    BY <1>21 DEF DlInv, DlShape
  <1>24. DlShape'
    BY <1>21 DEF DlInv, DlShape
  <1>2. /\ dl'.open = [dl.open EXCEPT ![g] = NoGrant] /\ dl'.reserved = dl.reserved - was
        /\ dl'.consumed = dl.consumed + actual /\ dl'.opened = dl.opened
        /\ dl'.requests = dl.requests /\ dl'.over = said /\ DlShape'
    BY <1>22, <1>23, <1>24 DEF left, spent, rest
  <1>3. dl.over \/ actual > was \/ dl.consumed + actual > BudgetLimit => dl'.over
    BY <1>2 DEF said
  <1>4. GrantsSound' BY <1>2, GrantsKept
  <1>5. LedgerSound BY DEF DlInv
  <1>6. g \in Reserved /\ was \in Nat BY <1>5 DEF SettleBudget, Reserved, LedgerSound, was
  <1>7. actual \in Nat BY <1>6
  <1>8. dl'.open \in [Grant -> Nat \cup {NoGrant}] BY <1>2, <1>5 DEF LedgerSound
  <1>9. Reserved' = R BY <1>2, <1>5 DEF Reserved, LedgerSound
  <1>10. Weighs(dl.open, R \cup {g})
    <2>1. R \cup {g} = Reserved BY <1>6
    <2> QED BY <1>5, <2>1, OpenWeighs
  <1>11. \A y \in R : dl'.open[y] = dl.open[y] BY <1>2, <1>5 DEF LedgerSound, Reserved
  <1>12. Total(dl.open, R \cup {g}) = was + Total(dl'.open, R)
    BY <1>10, <1>11, TotalAdd DEF was
  <1>13. R \cup {g} = Reserved BY <1>6
  <1>14. Total(dl'.open, R) \in Nat
    <2>1. Weighs(dl'.open, R) BY <1>10, <1>11, FS_Subset DEF Weighs
    <2> QED BY <2>1, TotalIs
  <1>15. dl.reserved = Total(dl.open, Reserved) /\ dl.reserved \in Nat /\ dl.consumed \in Nat
         /\ (dl.consumed + dl.reserved <= BudgetLimit \/ dl.over)
    BY <1>5 DEF LedgerSound
  <1> HIDE DEF R
  <1>16. dl.reserved = was + Total(dl'.open, R) BY <1>12, <1>13, <1>15
  <1>17. dl'.reserved = Total(dl'.open, R) /\ dl'.reserved \in Nat /\ dl'.consumed \in Nat
    BY <1>2, <1>6, <1>7, <1>14, <1>15, <1>16
  <1>18. dl'.consumed + dl'.reserved <= BudgetLimit \/ dl'.over
    <2>1. CASE dl.over \/ actual > was BY <1>3, <2>1
    <2>2. CASE ~dl.over /\ ~(actual > was)
      <3>1. dl.consumed + dl.reserved <= BudgetLimit /\ actual <= was BY <1>6, <1>7, <1>15, <2>2
      <3>2. dl.reserved = was + dl'.reserved BY <1>16, <1>17
      <3> QED BY <1>2, <1>6, <1>7, <1>15, <1>17, <3>1, <3>2, DelegationAssumption
    <2> QED BY <2>1, <2>2
  <1>19. LedgerSound' BY <1>8, <1>9, <1>17, <1>18 DEF LedgerSound
  <1> QED BY <1>2, <1>4, <1>19 DEF DlInv

LEMMA OpenContextKeeps == ASSUME DlInv, NEW g \in Grant, OpenContext(g) PROVE DlInv'
  <1>1. PICK f \in Request(g).scope.files : dl' = [dl EXCEPT !.opened = @ \cup {f}]
    BY DEF OpenContext
  <1>2. /\ dl'.open = dl.open /\ dl'.reserved = dl.reserved /\ dl'.consumed = dl.consumed
        /\ dl'.over = dl.over /\ dl'.opened = dl.opened \cup {f}
        /\ dl'.requests = dl.requests /\ DlShape'
    BY <1>1 DEF DlInv, DlShape
  <1>3. GrantsSound' BY <1>2, GrantsKept
  <1>4. LedgerSound' BY <1>2 DEF DlInv, LedgerSound, Reserved
  <1>5. f \in RootScope.files \cap PolicyScope.files
    BY DEF OpenContext, DlInv, GrantsSound, Good, NoWiderThan
  <1> QED BY <1>2, <1>3, <1>4, <1>5 DEF DlInv

LEMMA DlInvInit == ASSUME DelegationInit PROVE DlInv
  <1>1. /\ dl.requests = [g \in Grant |-> NoGrant] /\ dl.open = [g \in Grant |-> NoGrant]
        /\ dl.reserved = 0 /\ dl.consumed = 0 /\ dl.opened = {} /\ DlShape
    BY DEF DelegationInit, DlShape
  <1>2. Granted = {} /\ Reserved = {} /\ Edges = {} /\ \A t : Siblings(t) = {}
    BY <1>1 DEF Granted, Reserved, Edges, Siblings
  <1>3. GrantsSound BY <1>1, <1>2 DEF GrantsSound, Acyclic, FansKept
  <1>4. dl.consumed + dl.reserved <= BudgetLimit BY <1>1, DelegationAssumption
  <1>5. LedgerSound BY <1>1, <1>2, <1>4, TotalEmpty DEF LedgerSound
  <1> QED BY <1>1, <1>3, <1>5 DEF DlInv

LEMMA DlInvNext == DlInv /\ [DelegationNext]_dl => DlInv'
  <1> SUFFICES ASSUME DlInv, [DelegationNext]_dl PROVE DlInv' OBVIOUS
  <1>1. CASE UNCHANGED dl BY <1>1, DlInvStays
  <1> QED BY <1>1, RegisterKeeps, ReserveKeeps, SettleKeeps, OpenContextKeeps DEF DelegationNext

LEMMA SoundDelegation == DlInv => DelegationSound
  <1> SUFFICES ASSUME DlInv PROVE DelegationSound OBVIOUS
  <1>1. Acyclic(Edges) /\ FansKept /\ \A g \in Granted : Good(Request(g)) BY DEF DlInv, GrantsSound
  <1>2. MapThenSumSet(LAMBDA g : dl.open[g], Reserved) = Total(dl.open, Reserved)
    BY DEF MapThenSumSet, MapThenFoldSet, Total, SumsTo
  <1>3. dl.reserved = MapThenSumSet(LAMBDA g : dl.open[g], Reserved) BY <1>2 DEF DlInv, LedgerSound
  <1>4. \A S \in SUBSET DlTask : S # {} => \E t \in S : \A e \in Edges : e[2] = t => e[1] \notin S
    BY <1>1 DEF Acyclic
  <1>5. \A g \in Granted :
          /\ NoWiderThan(Request(g).scope, RootScope) /\ NoWiderThan(Request(g).scope, PolicyScope)
          /\ Request(g).depth <= RootScope.depth /\ Request(g).deadline <= RootScope.expires
    BY <1>1 DEF Good
  <1>6. dl.consumed + dl.reserved <= BudgetLimit \/ dl.over BY DEF DlInv, LedgerSound
  <1>7. dl.opened \subseteq RootScope.files \cap PolicyScope.files BY DEF DlInv
  <1> QED BY <1>1, <1>3, <1>4, <1>5, <1>6, <1>7, ReadsAreBounded DEF DelegationSound, FansKept

\* However tasks are delegated, reserved and settled, for any tasks, scopes and
\* limit: nobody comes to work under itself, nobody gets more than the root and the
\* policy allow, no task delegates to more than a scope of its own does, the ledger
\* says what is reserved and is exceeded only when a settlement has said so, and
\* what is read of the evidence stays within the scope and the query.
THEOREM DelegationStaysSound == DelegationSpec => []DelegationSound
  <1>1. DelegationInit => DlInv BY DlInvInit
  <1>2. DlInv /\ [DelegationNext]_dl => DlInv' BY DlInvNext
  <1>3. DlInv => DelegationSound BY SoundDelegation
  <1> QED BY <1>1, <1>2, <1>3, PTL DEF DelegationSpec

=============================================================================
