---------------------------- MODULE WorktreeHost ----------------------------
(***************************************************************************)
(* The worktree of one attempt of a task, as git and the desktop host      *)
(* (src-tauri/src/authority/worktree.rs) see it.  Its path and its branch  *)
(* worker/<name> are those of the attempt.  The host works on them for the *)
(* window only under what it has registered itself: a lease of the         *)
(* worktree it has just added, the identity of the directory that is       *)
(* registered, the tip of a branch whose worktree is gone, and a binding   *)
(* of a clean-up the user has confirmed in a native dialog.  All of it     *)
(* ends with the host session.  Whoever else works in the repository may   *)
(* act between any two steps.                                              *)
(*                                                                         *)
(* Identities of directories, tips of the branch and states of uncommitted *)
(* work are numbers that are never used twice; 0 is none.                  *)
(***************************************************************************)
EXTENDS Naturals

CONSTANT MaxWorld   \* bound: steps of others in the repository

ASSUME WorldAssumption == MaxWorld \in Nat

VARIABLES
  dir,         \* the identity of the directory at the path
  listed,      \* git worktree list has the path with its branch
  tip,         \* the tip of the branch
  edits,       \* the uncommitted work in the directory, 0 for a clean one
  used,        \* the greatest number used so far
  sessionUp,   \* a host session of the repository is open
  registered,  \* DEV_STATE.registrations: the identity of the directory
  lease,       \* DEV_STATE.pending_worktrees
  orphan       \* DEV_STATE.orphan_worktrees: the tip of the branch

repo == <<dir, listed, tip, edits, used>>
records == <<registered, lease, orphan>>
wtHostVars == <<repo, sessionUp, records>>

Base == 1
NoWtLease == [dir |-> 0, rev |-> 0, removed |-> FALSE]

HostTypeOK ==
  /\ {dir, tip, edits, used, registered, orphan} \subseteq Nat
  /\ listed \in BOOLEAN /\ sessionUp \in BOOLEAN
  /\ lease \in [dir : Nat, rev : Nat, removed : BOOLEAN]

WtHostInit ==
  /\ dir = 0 /\ listed = FALSE /\ tip = 0 /\ edits = 0 /\ used = Base
  /\ sessionUp = TRUE /\ registered = 0 /\ lease = NoWtLease /\ orphan = 0

-----------------------------------------------------------------------------
(* What others do in the repository.                                       *)

New == used + 1
Other == used < Base + MaxWorld /\ used' = New /\ UNCHANGED <<sessionUp, records>>

Commit == Other /\ dir # 0 /\ listed /\ tip' = New /\ edits' = 0 /\ UNCHANGED <<dir, listed>>
Edit == Other /\ dir # 0 /\ edits' = New /\ UNCHANGED <<dir, listed, tip>>
RemoveDir == Other /\ dir # 0 /\ dir' = 0 /\ edits' = 0 /\ UNCHANGED <<listed, tip>>
ReplaceDir == Other /\ dir # 0 /\ dir' = New /\ edits' = New /\ UNCHANGED <<listed, tip>>
Prune == Other /\ dir = 0 /\ listed /\ listed' = FALSE /\ UNCHANGED <<dir, tip, edits>>
DropBranch == Other /\ ~listed /\ tip # 0 /\ tip' = 0 /\ UNCHANGED <<dir, listed, edits>>

World == Commit \/ Edit \/ RemoveDir \/ ReplaceDir \/ Prune \/ DropBranch

-----------------------------------------------------------------------------
(* dev_exec in the main repository.                                        *)

\* git worktree add of a new branch at the base, or of the branch that is
\* there; a command that is stopped by its time limit may have had its effect
\* but leaves no lease.
Addable(newBranch) == dir = 0 /\ ~listed /\ (newBranch <=> tip = 0)

AddWorktree(newBranch, answered) ==
  /\ sessionUp /\ Addable(newBranch)
  /\ dir' = New /\ listed' = TRUE /\ edits' = 0 /\ used' = New
  /\ tip' = IF newBranch THEN Base ELSE tip
  /\ lease' = IF answered /\ lease = NoWtLease
              THEN [dir |-> New, rev |-> IF newBranch THEN Base ELSE tip, removed |-> FALSE]
              ELSE lease
  /\ UNCHANGED <<sessionUp, registered, orphan>>

\* git worktree remove --force, only under the lease (pending_worker_target).
Leased(d) == lease.dir = d /\ d # 0 /\ ~lease.removed
Revertible == sessionUp /\ Leased(dir) /\ listed

RevertWorktree ==
  /\ Revertible
  /\ dir' = 0 /\ listed' = FALSE /\ edits' = 0
  /\ lease' = [lease EXCEPT !.removed = TRUE]
  /\ UNCHANGED <<tip, used, sessionUp, registered, orphan>>

\* Mutant: the tip need not be the one the lease has.
BranchRevertibleAtAnyTip(rev) == sessionUp /\ lease.removed /\ tip = rev

\* git update-ref -d, only of the tip the lease has (pending_worker_branch).
BranchRevertible(rev) == sessionUp /\ lease.removed /\ lease.rev = rev /\ tip = rev

RevertBranch(rev) ==
  /\ BranchRevertible(rev)
  /\ tip' = 0 /\ lease' = NoWtLease
  /\ UNCHANGED <<dir, listed, edits, used, sessionUp, registered, orphan>>

-----------------------------------------------------------------------------
(* The commands of the records.                                            *)

\* dev_register_worktree
Registrable ==
  /\ sessionUp /\ dir # 0 /\ listed
  /\ registered \in {0, dir}
  /\ registered = dir \/ Leased(dir)

Register ==
  /\ Registrable
  /\ registered' = dir /\ lease' = NoWtLease
  /\ UNCHANGED <<repo, sessionUp, orphan>>

\* dev_restore_worktree finds an identity only in this host session.
Restorable == sessionUp /\ dir # 0 /\ registered = dir /\ listed

\* dev_register_orphan_worktree
OrphanRegistrable(rev) ==
  /\ sessionUp /\ dir = 0 /\ ~listed /\ tip = rev /\ rev # 0
  /\ orphan \in {0, rev}

\* dev_unregister_worktree
Unregistrable ==
  /\ sessionUp /\ lease = NoWtLease /\ ~listed /\ tip = 0
  /\ registered = 0 /\ orphan = 0

-----------------------------------------------------------------------------
(* dev_approve_cleanup and dev_cleanup_worktree for the directory d, or for*)
(* the branch alone when d is 0.                                           *)

\* cleanup_target_identity_is_current
Current(d) == dir = d /\ (d = 0 => ~listed)

\* Either the directory is registered or the branch is, never both.
Lineage(d, rev) ==
  /\ IF d # 0 THEN registered = d /\ orphan = 0
     ELSE registered = 0 /\ orphan = rev /\ rev # 0
  /\ lease = NoWtLease

\* Before the dialog is shown, and again after it was answered.
Askable(rev) == sessionUp /\ Lineage(dir, rev) /\ Current(dir) /\ (dir # 0 => listed)
Confirmable(d) == sessionUp /\ dir = d /\ (d # 0 => listed)

\* The branch goes at the revision the user has confirmed, ...
Deletable(d, rev) ==
  /\ sessionUp /\ Lineage(d, rev) /\ Current(d) /\ (d # 0 => listed)
  /\ tip = rev

DeleteBranch(d, rev) ==
  /\ Deletable(d, rev)
  /\ tip' = 0
  /\ UNCHANGED <<dir, listed, edits, used, sessionUp, records>>

\* ... then the directory, if it is still the confirmed one, and the records.
Removable(d) == Current(d) /\ (listed <=> d # 0)

RemoveWorktree(d) ==
  /\ Removable(d)
  /\ dir' = 0 /\ listed' = FALSE /\ edits' = 0
  /\ registered' = 0 /\ orphan' = 0
  /\ UNCHANGED <<tip, used, sessionUp, lease>>

\* dev_init_session and dev_clear_session: nothing registered remains.
ResetSession(up) ==
  /\ sessionUp' = up
  /\ registered' = 0 /\ lease' = NoWtLease /\ orphan' = 0

=============================================================================
