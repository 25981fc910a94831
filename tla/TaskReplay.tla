---------------------------- MODULE TaskReplay -----------------------------
(***************************************************************************)
(* The reducer of the domain event stream (domain/contracts.ts): which     *)
(* task event may follow which, and what it does to the projection of one  *)
(* execution, a pair of a run and a task.  An execution record holds what  *)
(* the projection keeps in taskExecutions and attempts:                    *)
(*   status   of the execution, "none" while no event named it             *)
(*   current  currentAttemptId, 0 for none                                 *)
(*   pending  pendingAttempt, the retry fence, 0 for none                  *)
(*   last     the greatest attempt number, 0 for none                      *)
(*   attempt  the status of each AttemptRecord, "none" where there is none *)
(* Evidence, acceptance and worktree data are left out: an event that      *)
(* lacks what its type demands is refused before any of these rules.       *)
(***************************************************************************)
EXTENDS Integers

CONSTANT MaxAttempt   \* bound on attempt numbers

ASSUME MaxAttemptAssumption == MaxAttempt \in Nat \ {0}

TaskStatus == {"queued", "running", "waiting-feedback", "succeeded", "failed",
               "blocked", "cancelled"}

AttemptStatus == TaskStatus \cup {"unknown"}

Attempts == 1 .. MaxAttempt

Execution ==
    [status : TaskStatus \cup {"none"},
     current : Attempts \cup {0},
     pending : Attempts \cup {0},
     last : Attempts \cup {0},
     attempt : [Attempts -> AttemptStatus \cup {"none"}]]

NoExecution ==
    [status |-> "none", current |-> 0, pending |-> 0, last |-> 0,
     attempt |-> [a \in Attempts |-> "none"]]

\* Event types that name an attempt, and the status each event stands for.
AttemptEvents == {"TaskStarted", "TaskSucceeded", "TaskFailed",
                  "TaskFeedbackRequested", "TaskAttemptMarkedUnknown",
                  "TaskCleaned"}

Completions == {"TaskSucceeded", "TaskFailed", "TaskCleaned"}

EventType == AttemptEvents \cup {"TaskQueued", "TaskBlocked", "TaskCancelled"}

StatusOf(type) ==
    CASE type = "TaskQueued" -> "queued"
      [] type \in {"TaskStarted", "TaskAttemptMarkedUnknown"} -> "running"
      [] type = "TaskFeedbackRequested" -> "waiting-feedback"
      [] type \in {"TaskSucceeded", "TaskCleaned"} -> "succeeded"
      [] type = "TaskFailed" -> "failed"
      [] type = "TaskBlocked" -> "blocked"
      [] type = "TaskCancelled" -> "cancelled"

Ended == {"succeeded", "failed", "cancelled", "unknown"}

\* A task event: next is the retry fence of a TaskQueued (0 for none), attempt
\* the attempt it names (0 when it names none), strict that its aggregate is
\* the TaskExecution or that it names its attempt, as every writer now does.
Strict(type, attempt) ==
    [type |-> type, attempt |-> attempt, next |-> 0, strict |-> TRUE]
Fence(next) ==
    [type |-> "TaskQueued", attempt |-> 0, next |-> next, strict |-> TRUE]
Legacy(type) == [type |-> type, attempt |-> 0, next |-> 0, strict |-> FALSE]

TaskEvent ==
    {Strict(type, a) : type \in AttemptEvents, a \in Attempts}
      \cup {Strict(type, 0) : type \in EventType \ AttemptEvents}
      \cup {Fence(n) : n \in Attempts}
      \cup {Legacy(type) : type \in EventType}

-----------------------------------------------------------------------------

\* taskLineageFor: an event of the old shape speaks of the current attempt, or
\* of the first one.
AttemptOf(x, e) ==
    IF e.attempt # 0 THEN e.attempt
    ELSE IF e.type \notin AttemptEvents THEN 0
    ELSE IF x.current # 0 THEN x.current
    ELSE 1

AttemptAt(x, a) == IF a \in Attempts THEN x.attempt[a] ELSE "none"

\* The attempt that must have ended before another may be queued or begun.
LatestIgnored(x) == TRUE
LatestEnded(x) ==
    AttemptAt(x, IF x.current # 0 THEN x.current ELSE x.last) \in Ended \cup {"none"}

\* The rules of a retry fence; repeating the pending one is allowed.
FenceAccepted(x, e) ==
    \/ x.pending = e.next
    \/ e.next = x.last + 1 /\ x.pending = 0 /\ LatestEnded(x)

\* An attempt number is the newest one, or the next one behind its fence.
OrderAccepted(x, a) ==
    IF x.last = 0 THEN a = 1
    ELSE a = x.last \/ (a = x.last + 1 /\ x.pending = a /\ LatestEnded(x))

\* (a completion that does not look at the attempt it completes)
AnyCompletionAccepted(x, e, a) ==
    LET before == AttemptAt(x, a) IN
    /\ before # "none" =>
         /\ e.type = "TaskFeedbackRequested" =>
              x.current = a /\ before = "running"
         /\ e.type = "TaskStarted" => before \notin Ended \cup {"running"}
         /\ e.type = "TaskCleaned" => before = "succeeded"
    /\ e.strict /\ e.type \in Completions => before # "none" /\ x.current = a
    /\ e.strict /\ e.type = "TaskStarted" => x.last = 0 \/ a # x.last

\* What the attempt named by an event must look like.
LifecycleAccepted(x, e, a) ==
    LET before == AttemptAt(x, a) IN
    /\ before # "none" =>
         /\ e.type = "TaskFeedbackRequested" =>
              x.current = a /\ before = "running"
         /\ e.type = "TaskStarted" => before \notin Ended \cup {"running"}
         /\ e.type \in {"TaskSucceeded", "TaskFailed"} => before = "running"
         /\ e.type = "TaskCleaned" => before = "succeeded"
    /\ e.strict /\ e.type \in Completions => before # "none" /\ x.current = a
    /\ e.strict /\ e.type = "TaskStarted" => x.last = 0 \/ a # x.last

\* applyTaskLineageProjection does not throw.
Accepts(x, e) ==
    LET a == AttemptOf(x, e) IN
    IF e.type = "TaskAttemptMarkedUnknown"
    THEN x.current = a /\ AttemptAt(x, a) = "running"
    ELSE /\ e.type = "TaskQueued" /\ e.next = 0 =>
              x.status = "none" \/ (x.last = 0 /\ x.status = "queued")
         /\ e.next # 0 => FenceAccepted(x, e)
         /\ a # 0 => OrderAccepted(x, a) /\ LifecycleAccepted(x, e, a)

\* (a start that leaves its fence behind)
FenceKept(x, e) == IF e.next # 0 THEN e.next ELSE x.pending

\* The retry fence after an event.
FenceAfter(x, e) ==
    IF e.type \in Completions \cup {"TaskStarted", "TaskBlocked"} THEN 0
    ELSE IF e.next # 0 THEN e.next
    ELSE x.pending

\* (an execution that keeps the status it had)
UnknownKeepsStatus(x, a) ==
    [x EXCEPT !.current = 0, !.attempt[a] = "unknown"]

\* An interrupted attempt: nothing may complete it, and it is not reopened.
MarkedUnknown(x, a) ==
    [x EXCEPT !.status = "running", !.current = 0, !.attempt[a] = "unknown"]

\* The execution after an accepted event.
After(x, e) ==
    LET a == AttemptOf(x, e) IN
    IF e.type = "TaskAttemptMarkedUnknown"
    THEN MarkedUnknown(x, a)
    ELSE [status |-> StatusOf(e.type),
          current |-> IF e.next # 0 THEN 0 ELSE IF a # 0 THEN a ELSE x.current,
          pending |-> FenceAfter(x, e),
          last |-> IF a > x.last THEN a ELSE x.last,
          attempt |-> [b \in Attempts |->
                         IF b = a THEN StatusOf(e.type) ELSE x.attempt[b]]]

\* applyImportedAttemptProjection, the migration of an old project file.
ImportAccepted(x) == x.last < MaxAttempt

\* (an execution that takes the status of its imported attempt)
ImportedStatus(x) ==
    [x EXCEPT !.status = "unknown",
              !.last = @ + 1,
              !.attempt[x.last + 1] = "unknown"]

Imported(x) ==
    [x EXCEPT !.status = IF @ = "none" THEN "queued" ELSE @,
              !.last = @ + 1,
              !.attempt[x.last + 1] = "unknown"]

-----------------------------------------------------------------------------

\* Attempts are numbered without a gap, and only the newest can still be open.
NewestOpen(x) ==
    \A a \in Attempts :
        /\ (x.attempt[a] = "none") <=> (a > x.last)
        /\ a < x.last => x.attempt[a] \in Ended

\* The current attempt is the newest or none, and a retry fence stands for the
\* next one; a parked attempt may have left the fence it began behind.
FenceNewest(x) ==
    /\ x.current \in {0, x.last}
    /\ x.pending # 0 =>
         \/ x.pending = x.last + 1 /\ x.current = 0
         \/ x.pending = x.last /\ x.attempt[x.last] = "waiting-feedback"

\* The status succeeded speaks of the newest attempt, with no retry behind it.
SuccessNewest(x) ==
    x.status = "succeeded" =>
        /\ x.last # 0
        /\ x.current = x.last
        /\ x.attempt[x.last] = "succeeded"
        /\ x.pending = 0

=============================================================================
