--------------------------- MODULE CodexOperation ---------------------------
(***************************************************************************)
(* Codex processes of the host (src-tauri/src/codex*.rs): executions of a  *)
(* worker's operation and calls without one, which hold the host's         *)
(* operation lock from their beginning to their end; cancellations, which  *)
(* do not; and the end of a session, which must find everything quiet.     *)
(*                                                                         *)
(* A lock is not a variable: it is free when no thread is at a place where *)
(* its code holds it. The registry of pending operations is locked only    *)
(* inside the lock of active children or for a single access, so its lock  *)
(* needs no place. The two output readers of a process are one, and the    *)
(* poisoning of a lock by a panic is left out.                             *)
(***************************************************************************)
EXTENDS Naturals

CONSTANTS
  Op,           \* lease tokens of workers: an operation id is used once
  Call,         \* calls of codex_exec, which have no operation id
  MaxSessions,  \* bound: sessions of the host
  MaxCommands,  \* bound: cancellations by the user and session changes
  MaxFaults     \* bound: failing system calls

Thread == Op \cup Call

ASSUME ThreadAssumption == Op \cap Call = {}
ASSUME BoundsAssumption ==
  MaxSessions \in Nat \ {0} /\ MaxCommands \in Nat /\ MaxFaults \in Nat

VARIABLES
  session,    \* DEV_STATE.generation
  since,      \* the session in which a lease was prepared or a call was begun
  prepared,   \* PREPARED_CODEX_LEASES
  pending,    \* PENDING_CODEX_OPERATIONS: none, open, cancelled
  active,     \* ACTIVE_CODEX_CHILDREN
  slot,       \* UNSCOPED_CODEX_RECOVERIES: none, reserved, retained, retrying
  child,      \* the process of a thread: none, running, exited
  reader,     \* the reader of its output: none, open, done, broken
  artifacts,  \* the threads whose output file exists
  pc,         \* where a thread is
  outcome,    \* what it returned, or is going to
  cancel,     \* where the cancellation of an operation is: idle, kill, mark
  told,       \* the operations of which a cancellation returned Ok
  clearAt,    \* where clear_codex_session_state is
  todo,       \* the operations it has yet to cancel
  failed,     \* whether it met an error
  faults, commands

registries == <<prepared, pending, active, slot>>
process == <<child, reader, artifacts>>
cancels == <<cancel, told>>
clears == <<clearAt, todo, failed>>
counts == <<faults, commands>>
vars == <<session, since, registries, process, pc, outcome, cancels, clears, counts>>

\* The places of a thread outside the operation lock.
Outside == {"new", "prepared", "called", "ended"}

OpLockFree == clearAt = "idle" /\ \A x \in Thread : pc[x] \in Outside
ActiveFree == \A o \in Op : pc[o] # "spawn" /\ cancel[o] = "idle"

Fault == faults < MaxFaults /\ faults' = faults + 1
Command == commands < MaxCommands /\ commands' = commands + 1

Go(x, to) == pc' = [pc EXCEPT ![x] = to]
\* The way on, or an error and the way out.
Proceed(x, ok, to, out) ==
  /\ Go(x, IF ok THEN to ELSE out)
  /\ outcome' = IF ok THEN outcome ELSE [outcome EXCEPT ![x] = "error"]

Init ==
  /\ session = 1 /\ since = [x \in Thread |-> 0]
  /\ prepared = {} /\ pending = [o \in Op |-> "none"] /\ active = {}
  /\ slot = [c \in Call |-> "none"]
  /\ child = [x \in Thread |-> "none"] /\ reader = [x \in Thread |-> "none"]
  /\ artifacts = {}
  /\ pc = [x \in Thread |-> "new"] /\ outcome = [x \in Thread |-> "success"]
  /\ cancel = [o \in Op |-> "idle"] /\ told = {}
  /\ clearAt = "idle" /\ todo = {} /\ failed = "no"
  /\ faults = 0 /\ commands = 0

-----------------------------------------------------------------------------
\* Cleaning up after a process, which executions, cancellations and later
\* retries do alike: terminate it, join its reader, remove its output file. A
\* reader that ended with an error repeats the error whenever it is joined.
CleanedUp(x) ==
  /\ reader[x] # "broken"
  /\ child' = [child EXCEPT ![x] = "exited"]
  /\ reader' = [reader EXCEPT ![x] = "done"]
  /\ artifacts' = artifacts \ {x}
  /\ UNCHANGED faults

NotTerminated(x) ==
  /\ child[x] = "running" /\ Fault
  /\ \E c \in {"running", "exited"} : child' = [child EXCEPT ![x] = c]
  /\ UNCHANGED <<reader, artifacts>>

ReaderTimesOut(x) ==
  /\ reader[x] = "open" /\ Fault
  /\ child' = [child EXCEPT ![x] = "exited"]
  /\ UNCHANGED <<reader, artifacts>>

\* All readers have ended, so the file is removed, if it can be.
ReaderBroken(x) ==
  /\ \/ reader[x] = "open" /\ Fault
     \/ reader[x] = "broken" /\ UNCHANGED faults
  /\ child' = [child EXCEPT ![x] = "exited"]
  /\ reader' = [reader EXCEPT ![x] = "broken"]
  /\ \E kept \in SUBSET {x} : artifacts' = (artifacts \ {x}) \cup (kept \cap artifacts)

ArtifactKept(x) ==
  /\ x \in artifacts /\ reader[x] # "broken" /\ Fault
  /\ child' = [child EXCEPT ![x] = "exited"]
  /\ reader' = [reader EXCEPT ![x] = "done"]
  /\ UNCHANGED artifacts

CleanUp(x, ok) ==
  IF ok THEN CleanedUp(x)
  ELSE NotTerminated(x) \/ ReaderTimesOut(x) \/ ReaderBroken(x) \/ ArtifactKept(x)

\* The system's part: a process ends; a lease that has expired is dropped by
\* whoever holds the operation lock next.
ChildExits(x) ==
  /\ child[x] = "running"
  /\ child' = [child EXCEPT ![x] = "exited"]
  /\ UNCHANGED <<session, since, registries, reader, artifacts, pc, outcome, cancels, clears, counts>>

LeaseExpires(o) ==
  /\ OpLockFree /\ o \in prepared
  /\ prepared' = prepared \ {o}
  /\ UNCHANGED <<session, since, pending, active, slot, process, pc, outcome, cancels, clears, counts>>

-----------------------------------------------------------------------------
\* A worker's operation: codex_worker_prepare, then codex_worker_exec.
Prepare(o) ==
  /\ pc[o] = "new" /\ OpLockFree
  /\ prepared' = prepared \cup {o}
  /\ since' = [since EXCEPT ![o] = session]
  /\ Go(o, "prepared")
  /\ UNCHANGED <<session, pending, active, slot, process, outcome, cancels, clears, counts>>

Invoke(x) ==
  /\ pc[x] = IF x \in Op THEN "prepared" ELSE "new"
  /\ Go(x, "called")
  /\ UNCHANGED <<session, since, registries, process, outcome, cancels, clears, counts>>

ExecStart(o) ==
  /\ pc[o] = "called" /\ OpLockFree
  /\ Proceed(o, since[o] = session /\ o \in prepared, "begin", "ended")
  /\ UNCHANGED <<session, since, registries, process, cancels, clears, counts>>

BeginPending(o) ==
  /\ pc[o] = "begin"
  /\ Proceed(o, pending[o] = "none", "consume", "ended")
  /\ pending' = IF pending[o] = "none" THEN [pending EXCEPT ![o] = "open"] ELSE pending
  /\ UNCHANGED <<session, since, prepared, active, slot, process, cancels, clears, counts>>

ConsumeLease(o) ==
  /\ pc[o] = "consume"
  /\ Proceed(o, o \in prepared, "login", "finish")
  /\ prepared' = prepared \ {o}
  /\ UNCHANGED <<session, since, pending, active, slot, process, cancels, clears, counts>>

\* The CLI is asked whether it is logged in; then the cancellation is looked at.
Login(o) ==
  /\ pc[o] = "login"
  /\ \E ok \in BOOLEAN : Proceed(o, ok /\ pending[o] # "cancelled", "reserve", "finish")
  /\ UNCHANGED <<session, since, registries, process, cancels, clears, counts>>

\* Mutant: the pending entry is not looked at again.
ReserveUnchecked(o) ==
  /\ pc[o] = "reserve" /\ ActiveFree
  /\ Proceed(o, o \notin active, "spawn", "finish")
  /\ UNCHANGED <<session, since, registries, process, cancels, clears, counts>>

\* The registries stay locked from here until the child is registered.
Reserve(o) ==
  /\ pc[o] = "reserve" /\ ActiveFree
  /\ Proceed(o, pending[o] = "open" /\ o \notin active, "spawn", "finish")
  /\ UNCHANGED <<session, since, registries, process, cancels, clears, counts>>

Spawn(o) ==
  /\ pc[o] = "spawn"
  /\ child' = [child EXCEPT ![o] = "running"]
  /\ reader' = [reader EXCEPT ![o] = "open"]
  /\ artifacts' = artifacts \cup {o}
  /\ active' = active \cup {o}
  /\ Go(o, "poll")
  /\ UNCHANGED <<session, since, prepared, pending, slot, outcome, cancels, clears, counts>>

\* Without a process nobody keeps the output file that could not be removed.
NoSpawn(x) ==
  /\ Proceed(x, FALSE, "poll", IF x \in Op THEN "finish" ELSE "ended")
  /\ \/ UNCHANGED <<artifacts, faults>>
     \/ artifacts' = artifacts \cup {x} /\ Fault
  /\ UNCHANGED <<session, since, prepared, pending, active, child, reader, cancels, clears, commands>>

SpawnFails(o) == pc[o] = "spawn" /\ NoSpawn(o) /\ UNCHANGED slot

-----------------------------------------------------------------------------
\* A call without an operation: codex_exec. It first retries what earlier
\* calls left behind.
Retrying == [c \in Call |-> IF slot[c] = "retained" THEN "retrying" ELSE slot[c]]

CallStart(c) ==
  /\ pc[c] = "called" /\ OpLockFree
  /\ since' = [since EXCEPT ![c] = session]
  /\ slot' = Retrying
  /\ Go(c, "retry")
  /\ UNCHANGED <<session, prepared, pending, active, process, outcome, cancels, clears, counts>>

\* One of the retained processes of calls is cleaned up, by a call or by the
\* end of a session.
Retry(d, ok) ==
  /\ slot[d] = "retrying"
  /\ CleanUp(d, ok)
  /\ slot' = [slot EXCEPT ![d] = IF ok THEN "none" ELSE "retained"]

RetryByCall(c) ==
  /\ pc[c] = "retry"
  /\ \E d \in Call, ok \in BOOLEAN : Retry(d, ok) /\ Proceed(c, ok, "retry", "retry")
  /\ UNCHANGED <<session, since, prepared, pending, active, cancels, clears, commands>>

NoneRetrying == \A d \in Call : slot[d] # "retrying"

CallRetried(c) ==
  /\ pc[c] = "retry" /\ NoneRetrying
  /\ \E ok \in BOOLEAN : Proceed(c, ok /\ outcome[c] = "success", "spawn", "ended")
  /\ UNCHANGED <<session, since, registries, process, cancels, clears, counts>>

CallSpawn(c) ==
  /\ pc[c] = "spawn"
  /\ slot' = [slot EXCEPT ![c] = "reserved"]
  /\ child' = [child EXCEPT ![c] = "running"]
  /\ reader' = [reader EXCEPT ![c] = "open"]
  /\ artifacts' = artifacts \cup {c}
  /\ Go(c, "poll")
  /\ UNCHANGED <<session, since, prepared, pending, active, outcome, cancels, clears, counts>>

CallSpawnFails(c) == pc[c] = "spawn" /\ NoSpawn(c) /\ UNCHANGED slot

-----------------------------------------------------------------------------
\* From the spawned process on, both kinds run the same code (run_exec).
PollExited(x) ==
  /\ pc[x] = "poll" /\ child[x] = "exited"
  /\ Go(x, "check")
  /\ UNCHANGED <<session, since, registries, process, outcome, cancels, clears, counts>>

PollTimesOut(x) ==
  /\ pc[x] = "poll" /\ child[x] = "running"
  /\ Proceed(x, FALSE, "check", "cleanup")
  /\ UNCHANGED <<session, since, registries, process, cancels, clears, counts>>

\* The process group could not be ended, or the prompt not be written.
CheckFails(x) ==
  /\ pc[x] = "check" /\ Fault
  /\ Proceed(x, FALSE, "join", "cleanup")
  /\ UNCHANGED <<session, since, registries, process, cancels, clears, commands>>

CheckCancelled(x) ==
  /\ pc[x] = "check"
  /\ Proceed(x, x \in Op => pending[x] # "cancelled", "join", "join")
  /\ UNCHANGED <<session, since, registries, process, cancels, clears, counts>>

\* The output is read; the process may have failed, or said nothing.
JoinReaders(x) ==
  /\ pc[x] = "join" /\ reader[x] # "broken"
  /\ reader' = [reader EXCEPT ![x] = "done"]
  /\ \E ok \in BOOLEAN : Proceed(x, ok, "cleanup", "cleanup")
  /\ UNCHANGED <<session, since, registries, child, artifacts, cancels, clears, counts>>

JoinFails(x) ==
  /\ pc[x] = "join"
  /\ \/ /\ reader[x] = "open" /\ Fault
        /\ \E r \in {"open", "broken"} : reader' = [reader EXCEPT ![x] = r]
     \/ reader[x] = "broken" /\ UNCHANGED <<reader, faults>>
  /\ Proceed(x, FALSE, "cleanup", "cleanup")
  /\ UNCHANGED <<session, since, registries, child, artifacts, cancels, clears, commands>>

\* Mutant: the child is unregistered whether or not its cleanup succeeded.
CleanUpAndUnregister(o) ==
  /\ pc[o] = "cleanup"
  /\ \E ok \in BOOLEAN : CleanUp(o, ok) /\ Proceed(o, ok, "unregister", "unregister")
  /\ UNCHANGED <<session, since, registries, cancels, clears, commands>>

CleanUpOperation(o) ==
  /\ pc[o] = "cleanup"
  /\ \E ok \in BOOLEAN : CleanUp(o, ok) /\ Proceed(o, ok, "unregister", "finish")
  /\ UNCHANGED <<session, since, registries, cancels, clears, commands>>

CleanUpCall(c) ==
  /\ pc[c] = "cleanup"
  /\ \E ok \in BOOLEAN :
       /\ CleanUp(c, ok) /\ Proceed(c, ok, "ended", "ended")
       /\ slot' = [slot EXCEPT ![c] = IF ok THEN "none" ELSE "retained"]
  /\ UNCHANGED <<session, since, prepared, pending, active, cancels, clears, commands>>

\* A child that is no longer registered was taken by a cancellation.
Unregister(o) ==
  /\ pc[o] = "unregister" /\ ActiveFree
  /\ Proceed(o, IF o \in active THEN pending[o] # "none" ELSE pending[o] = "cancelled",
             "finish", "finish")
  /\ active' = IF pending[o] # "none" THEN active \ {o} ELSE active
  /\ UNCHANGED <<session, since, prepared, pending, slot, process, cancels, clears, counts>>

\* While the child is still registered its pending entry is kept.
Finish(o) ==
  /\ pc[o] = "finish" /\ ActiveFree
  /\ Proceed(o, pending[o] = "open" /\ o \notin active, "ended", "ended")
  /\ pending' = IF o \in active THEN pending ELSE [pending EXCEPT ![o] = "none"]
  /\ UNCHANGED <<session, since, prepared, active, slot, process, cancels, clears, counts>>

-----------------------------------------------------------------------------
\* codex_worker_cancel, called by the user or by the end of the session; it
\* keeps the active registry locked. Without a registered child it removes
\* the lease first and then marks what is pending.
BeginCancel(o) ==
  /\ \/ /\ o \in active /\ pending[o] # "none"
        /\ pending' = [pending EXCEPT ![o] = "cancelled"]
        /\ cancel' = [cancel EXCEPT ![o] = "kill"]
        /\ UNCHANGED prepared
     \/ /\ o \notin active
        /\ prepared' = prepared \ {o}
        /\ cancel' = [cancel EXCEPT ![o] = "mark"]
        /\ UNCHANGED pending
  /\ UNCHANGED <<session, since, active, slot, process, pc, outcome, told, failed, faults>>

\* Without its pending entry a registered child cannot be cancelled.
EntryLost(o) == o \in active /\ pending[o] = "none"

UserCancels(o) ==
  /\ pc[o] # "new" /\ ActiveFree /\ Command
  /\ BeginCancel(o)
  /\ UNCHANGED <<clearAt, todo>>

\* A cancellation ends: the end of the session goes on with the next one.
EndCancel(o, ok) ==
  /\ cancel' = [cancel EXCEPT ![o] = "idle"]
  /\ told' = IF ok THEN told \cup {o} ELSE told
  /\ clearAt' = IF clearAt = "cancelling" THEN "cancel" ELSE clearAt
  /\ failed' = IF clearAt = "cancelling" /\ ~ok THEN "yes" ELSE failed
  /\ UNCHANGED <<session, since, slot, pc, outcome, todo, commands>>

CancelKills(o) ==
  /\ cancel[o] = "kill"
  /\ \E ok \in BOOLEAN :
       /\ CleanUp(o, ok) /\ EndCancel(o, ok)
       /\ active' = IF ok THEN active \ {o} ELSE active
  /\ UNCHANGED <<prepared, pending>>

\* Mutant: the operation lock is taken inside that of the active registry.
CancelMarksLocked(o) ==
  /\ cancel[o] = "mark" /\ OpLockFree
  /\ pending' = IF pending[o] = "open" THEN [pending EXCEPT ![o] = "cancelled"] ELSE pending
  /\ EndCancel(o, TRUE)
  /\ UNCHANGED <<prepared, active, process, faults>>

CancelMarks(o) ==
  /\ cancel[o] = "mark"
  /\ pending' = IF pending[o] = "open" THEN [pending EXCEPT ![o] = "cancelled"] ELSE pending
  /\ EndCancel(o, TRUE)
  /\ UNCHANGED <<prepared, active, process, faults>>

-----------------------------------------------------------------------------
\* clear_codex_session_state, and the session that follows when it succeeds.
ClearStart ==
  /\ OpLockFree /\ session < MaxSessions /\ Command
  /\ slot' = Retrying
  /\ clearAt' = "retry" /\ failed' = "no"
  /\ UNCHANGED <<session, since, prepared, pending, active, process, pc, outcome, cancels, todo, faults>>

RetryByClear ==
  /\ clearAt = "retry"
  /\ \E d \in Call, ok \in BOOLEAN :
       Retry(d, ok) /\ failed' = IF ok THEN failed ELSE "yes"
  /\ UNCHANGED <<session, since, prepared, pending, active, pc, outcome, cancels, clearAt, todo, commands>>

\* Mutant: the errors of these retries are not looked at.
ClearAnyway ==
  /\ clearAt = "retry" /\ NoneRetrying /\ ActiveFree
  /\ clearAt' = "cancel" /\ todo' = active /\ failed' = "no"
  /\ UNCHANGED <<session, since, registries, process, pc, outcome, cancels, counts>>

ClearRetried ==
  /\ clearAt = "retry" /\ NoneRetrying /\ ActiveFree
  /\ IF failed = "yes" THEN clearAt' = "idle" /\ UNCHANGED todo
                       ELSE clearAt' = "cancel" /\ todo' = active
  /\ UNCHANGED <<session, since, registries, process, pc, outcome, cancels, failed, counts>>

ClearCancels(o) ==
  /\ clearAt = "cancel" /\ o \in todo /\ ActiveFree
  /\ todo' = todo \ {o}
  /\ \/ BeginCancel(o) /\ clearAt' = "cancelling" /\ UNCHANGED commands
     \/ /\ EntryLost(o) /\ failed' = "yes"
        /\ UNCHANGED <<session, since, registries, process, pc, outcome, cancels, clearAt, counts>>

ClearLooks ==
  /\ clearAt = "cancel" /\ todo = {} /\ ActiveFree
  /\ failed' = IF active = {} THEN failed ELSE "yes"
  /\ clearAt' = "finish"
  /\ UNCHANGED <<session, since, registries, process, pc, outcome, cancels, todo, counts>>

\* Mutant: the count of sessions starts again.
SessionReset == 0
NextSession == session + 1

\* Entries that are cancelled are dropped, whether or not their child is still
\* registered; only without an error do the leases go and the session change.
PendingAfterClear ==
  [o \in Op |-> IF pending[o] = "cancelled" THEN "none" ELSE pending[o]]

ClearFinish ==
  /\ clearAt = "finish"
  /\ LET unresolved == \E o \in Op : pending[o] = "open"
         over == failed = "no" /\ ~unresolved
     IN /\ pending' = IF unresolved THEN pending ELSE PendingAfterClear
        /\ prepared' = IF over THEN {} ELSE prepared
        /\ session' = IF over THEN NextSession ELSE session
  /\ clearAt' = "idle"
  /\ UNCHANGED <<since, active, slot, process, pc, outcome, cancels, todo, failed, counts>>

-----------------------------------------------------------------------------
PrepareStep == \E o \in Op : Prepare(o) \/ LeaseExpires(o)
InvokeStep == \E x \in Thread : Invoke(x)
OperationStep(o) ==
  \/ ExecStart(o) \/ BeginPending(o) \/ ConsumeLease(o) \/ Login(o)
  \/ Reserve(o) \/ Spawn(o) \/ SpawnFails(o)
  \/ CleanUpOperation(o) \/ Unregister(o) \/ Finish(o)
CallStep(c) ==
  \/ CallStart(c) \/ RetryByCall(c) \/ CallRetried(c)
  \/ CallSpawn(c) \/ CallSpawnFails(c) \/ CleanUpCall(c)
RunStep(x) ==
  \/ PollExited(x) \/ PollTimesOut(x) \/ CheckFails(x) \/ CheckCancelled(x)
  \/ JoinReaders(x) \/ JoinFails(x)
CancelStep(o) == CancelKills(o) \/ CancelMarks(o)
ClearStep ==
  \/ RetryByClear \/ ClearRetried \/ ClearLooks \/ ClearFinish
  \/ \E o \in Op : ClearCancels(o)

Next ==
  \/ PrepareStep \/ InvokeStep
  \/ \E x \in Thread : ChildExits(x) \/ RunStep(x)
  \/ \E o \in Op : OperationStep(o) \/ UserCancels(o) \/ CancelStep(o)
  \/ \E c \in Call : CallStep(c)
  \/ ClearStart \/ ClearStep

Spec == Init /\ [][Next]_vars

\* Threads run, waits are bounded by their timeouts, and a thread that waits
\* for a lock gets it; nothing is assumed of processes, leases or users.
FairSpec ==
  /\ Spec
  /\ \A x \in Thread : WF_vars(RunStep(x))
  /\ \A o \in Op : WF_vars(OperationStep(o)) /\ WF_vars(CancelStep(o))
  /\ \A c \in Call : WF_vars(CallStep(c))
  /\ WF_vars(ClearStep)

-----------------------------------------------------------------------------
\* Every variable has its type, and the bounds hold: the registries map ids of
\* operations to entries, a thread is at a place of its kind.
TypeOK ==
  /\ session \in 1..MaxSessions /\ since \in [Thread -> 0..MaxSessions]
  /\ prepared \subseteq Op /\ active \subseteq Op
  /\ pending \in [Op -> {"none", "open", "cancelled"}]
  /\ slot \in [Call -> {"none", "reserved", "retained", "retrying"}]
  /\ child \in [Thread -> {"none", "running", "exited"}]
  /\ reader \in [Thread -> {"none", "open", "done", "broken"}]
  /\ artifacts \subseteq Thread
  /\ pc \in [Thread -> {"new", "prepared", "called", "begin", "consume", "login",
               "reserve", "retry", "spawn", "poll", "check", "join", "cleanup",
               "unregister", "finish", "ended"}]
  /\ outcome \in [Thread -> {"success", "error"}]
  /\ cancel \in [Op -> {"idle", "kill", "mark"}] /\ told \subseteq Op
  /\ clearAt \in {"idle", "retry", "cancel", "cancelling", "finish"}
  /\ todo \subseteq Op /\ failed \in {"no", "yes"}
  /\ faults \in 0..MaxFaults /\ commands \in 0..MaxCommands

\* A process that still runs, or whose output is still being read, is known to
\* a registry once the thread that started it has returned, so that a later
\* cancellation, call or end of the session can finish it; and so is the output
\* file of any process that was started (a file whose process did not start is
\* only reported). The code: cleanup_codex_run, unregister_child.
LeftoversOwned ==
  \A x \in Thread :
    /\ pc[x] = "ended" /\ child[x] # "none"
    /\ child[x] = "running" \/ reader[x] = "open" \/ x \in artifacts
    => IF x \in Op THEN x \in active ELSE slot[x] \in {"retained", "retrying"}

\* What there is of a thread in the registries, or as a process.
Left(x) ==
  \/ x \in prepared \cup active \/ child[x] = "running"
  \/ x \in Op /\ pending[x] # "none"
  \/ x \in Call /\ slot[x] # "none"

\* Nothing of a session outlives it: every lease, every entry of a registry and
\* every running process belongs to the present session, because the end of a
\* session refuses while it cannot finish one of them.
SessionsApart == \A x \in Thread : Left(x) => since[x] = session

\* Whatever is left of an operation has an owner who can finish it, in its session.
LeftoversHeld == LeftoversOwned /\ SessionsApart

\* What a caller of the host sees is what OperationPromise promises: once a
\* cancellation has returned Ok the operation has no process, starts none and
\* does not report a success.
Promise == INSTANCE OperationPromise WITH
  Operation <- Op,
  process <- [o \in Op |-> child[o]],
  told <- told,
  returned <- [o \in Op |-> IF pc[o] = "ended" THEN outcome[o] ELSE "none"]

ImplementsPromise == Promise!Spec

\* Every execution that was called returns, however its process behaves and
\* whatever is cancelled meanwhile: no thread waits for good for a lock.
CallsEnd == \A x \in Thread : pc[x] = "called" ~> pc[x] = "ended"

\* A registered child can be cancelled: the development log says that an
\* uncertain termination or cleanup keeps the active child and its context for
\* recovery by a retry. (Violated: see the README.)
RetainedCancellable == \A o \in Op : ~EntryLost(o)

=============================================================================
