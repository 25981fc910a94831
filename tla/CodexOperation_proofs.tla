------------------------ MODULE CodexOperation_proofs ------------------------
(***************************************************************************)
(* Proofs about CodexOperation for any operations, calls and bounds: the   *)
(* inductive invariant Inv, and from it types, the owners of leftovers,    *)
(* the separation of sessions and the refinement of OperationPromise.      *)
(***************************************************************************)
EXTENDS CodexOperation, TLAPS

\* The places of a thread before its process exists, while it waits for it,
\* and after.
Running == {"poll", "check", "join", "cleanup", "unregister"}
Late == Running \cup {"finish", "ended"}

Leftover(x) ==
  child[x] # "none" /\ (child[x] = "running" \/ reader[x] = "open" \/ x \in artifacts)
Clean(x) == child[x] = "exited" /\ reader[x] = "done" /\ x \notin artifacts

\* One thread has the operation lock, and one the active registry's.
Locks ==
  /\ \A x, y \in Thread : pc[x] \notin Outside /\ pc[y] \notin Outside => x = y
  /\ clearAt # "idle" => \A x \in Thread : pc[x] \in Outside
  /\ \A o, p \in Op : cancel[o] # "idle" => pc[p] # "spawn" /\ (cancel[p] # "idle" => o = p)

\* Every thread: its session, its process, what it leaves.
Placed(x) ==
  /\ pc[x] \notin Outside => since[x] = session
  /\ child[x] # "none" => pc[x] \in Late
  /\ pc[x] \in Running => child[x] # "none"

\* An operation's entries, and who may know of its process.
Registered(o) ==
  /\ o \in prepared \/ o \in active \/ pending[o] # "none" => since[o] = session
  /\ pc[o] \in (Late \ {"ended"}) \cup {"consume", "login", "reserve", "spawn"} => pending[o] # "none"
  /\ o \in active => child[o] # "none"
  /\ Leftover(o) => o \in active
  /\ pc[o] = "unregister" => Clean(o)
  /\ pc[o] = "finish" /\ outcome[o] = "success" => Clean(o)

\* A cancellation under way.
Cancelling(o) ==
  /\ cancel[o] # "idle" \/ o \in todo => pc[o] # "new"
  /\ cancel[o] = "kill" => o \in active /\ (pending[o] = "cancelled" \/ pc[o] = "ended")
  /\ cancel[o] = "mark" => o \notin active /\ o \notin prepared

\* A cancellation that was confirmed: nothing is started, nothing succeeds.
Confirmed(o) ==
  o \in told =>
    /\ child[o] # "running" /\ pc[o] \notin {"new", "spawn"}
    /\ pc[o] \in {"prepared", "called", "begin", "consume"} => o \notin prepared
    /\ pc[o] \in {"login", "reserve"} => pending[o] = "cancelled"
    /\ pc[o] \in Late \ {"ended"} => outcome[o] = "error" \/ pending[o] = "cancelled"

\* A call's recovery slot.
Slotted(c) ==
  /\ slot[c] # "none" => child[c] # "none" /\ since[c] = session
  /\ slot[c] = "reserved" => pc[c] \in Running
  /\ Leftover(c) => slot[c] # "none"

\* What the end of a session has established so far.
Clearing ==
  /\ clearAt # "idle" => session < MaxSessions
  /\ failed = "no" =>
       /\ clearAt = "retry" => \A c \in Call : slot[c] \in {"none", "retrying"}
       /\ clearAt \in {"cancel", "cancelling", "finish"} => \A c \in Call : slot[c] = "none"
       /\ clearAt = "finish" => active = {}

Threads == \A x \in Thread : Placed(x)
Operations == \A o \in Op : Registered(o) /\ Cancelling(o) /\ Confirmed(o)
Slots == \A c \in Call : Slotted(c)

Inv == TypeOK /\ Locks /\ Threads /\ Operations /\ Slots /\ Clearing

-----------------------------------------------------------------------------
\* What cleaning up after a process does to it, however it ends.
Cleaning(x, ok) ==
  /\ child' \in [Thread -> {"none", "running", "exited"}]
  /\ reader' \in [Thread -> {"none", "open", "done", "broken"}]
  /\ artifacts' \subseteq artifacts /\ faults' \in 0..MaxFaults
  /\ \A y \in Thread \ {x} :
       child'[y] = child[y] /\ reader'[y] = reader[y] /\ (y \in artifacts' <=> y \in artifacts)
  /\ child'[x] # "none" /\ (child'[x] = "running" => child[x] = "running")
  /\ reader'[x] = "open" => reader[x] = "open"
  /\ ok \/ Clean(x) => Clean(x)'

LEMMA CleanUpCleans ==
  ASSUME TypeOK, NEW x \in Thread, NEW ok \in BOOLEAN, CleanUp(x, ok)
  PROVE  Cleaning(x, ok)
<1>1. CASE ok
  BY <1>1 DEF CleanUp, CleanedUp, Cleaning, Clean, TypeOK
<1>2. CASE ~ok /\ NotTerminated(x)
  BY <1>2, BoundsAssumption DEF NotTerminated, Fault, Cleaning, Clean, TypeOK
<1>3. CASE ~ok /\ ReaderTimesOut(x)
  BY <1>3, BoundsAssumption DEF ReaderTimesOut, Fault, Cleaning, Clean, TypeOK
<1>4. CASE ~ok /\ ReaderBroken(x)
  BY <1>4, BoundsAssumption DEF ReaderBroken, Fault, Cleaning, Clean, TypeOK
<1>5. CASE ~ok /\ ArtifactKept(x)
  BY <1>5, BoundsAssumption DEF ArtifactKept, Fault, Cleaning, Clean, TypeOK
<1> QED
  BY <1>1, <1>2, <1>3, <1>4, <1>5 DEF CleanUp

-----------------------------------------------------------------------------
\* One lemma per action: it keeps the invariant. First the preparation, the
\* invocation and the exit of the process, then an execution's steps.

LEMMA PrepareKeeps ==
  ASSUME Inv, NEW o \in Op, Prepare(o)
  PROVE  Inv'
<1>1. TypeOK'
  BY DEF Inv, TypeOK, Prepare, process, cancels, clears, counts, Go, Thread
<1>2. Locks'
  BY DEF Inv, TypeOK, Locks, Prepare, cancels, clears, Go, OpLockFree
<1>3. Threads'
  BY DEF Inv, TypeOK, Threads, Placed, Late, Running, Prepare, process, Go
<1>4. Operations'
  BY DEF Inv, TypeOK, Operations, Registered, Cancelling, Confirmed, Leftover, Clean,
         Late, Running, Prepare, process, cancels, clears, Go, Thread
<1>5. Slots'
  BY DEF Inv, TypeOK, Slots, Slotted, Leftover, Clean, Late, Running, Prepare, process,
         Go
<1>6. Clearing'
  BY DEF Inv, TypeOK, Clearing, Prepare, clears
<1> QED
  BY <1>1, <1>2, <1>3, <1>4, <1>5, <1>6 DEF Inv

LEMMA LeaseExpiresKeeps ==
  ASSUME Inv, NEW o \in Op, LeaseExpires(o)
  PROVE  Inv'
<1>1. TypeOK'
  BY DEF Inv, TypeOK, LeaseExpires, process, cancels, clears, counts
<1>2. Locks'
  BY DEF Inv, TypeOK, Locks, LeaseExpires, cancels, clears
<1>3. Threads'
  BY DEF Inv, TypeOK, Threads, Placed, LeaseExpires, process
<1>4. Operations'
  BY DEF Inv, TypeOK, Operations, Registered, Cancelling, Confirmed, Leftover, Clean,
         LeaseExpires, process, cancels, clears
<1>5. Slots'
  BY DEF Inv, TypeOK, Slots, Slotted, Leftover, Clean, LeaseExpires, process
<1>6. Clearing'
  BY DEF Inv, TypeOK, Clearing, LeaseExpires, clears
<1> QED
  BY <1>1, <1>2, <1>3, <1>4, <1>5, <1>6 DEF Inv

LEMMA InvokeKeeps ==
  ASSUME Inv, NEW x \in Thread, Invoke(x)
  PROVE  Inv'
<1>1. TypeOK'
  BY DEF Inv, TypeOK, Invoke, registries, process, cancels, clears, counts, Go
<1>2. Locks'
  BY DEF Inv, TypeOK, Locks, Invoke, cancels, clears, Go, Outside
<1>3. Threads'
  BY DEF Inv, TypeOK, Threads, Placed, Late, Running, Invoke, process, Go, Outside
<1>4. Operations'
  BY DEF Inv, TypeOK, Operations, Registered, Cancelling, Confirmed, Leftover, Clean,
         Late, Running, Invoke, registries, process, cancels, clears, Go
<1>5. Slots'
  BY DEF Inv, TypeOK, Slots, Slotted, Leftover, Clean, Late, Running, Invoke,
         registries, process, Go
<1>6. Clearing'
  BY DEF Inv, TypeOK, Clearing, Invoke, registries, clears
<1> QED
  BY <1>1, <1>2, <1>3, <1>4, <1>5, <1>6 DEF Inv

LEMMA ChildExitsKeeps ==
  ASSUME Inv, NEW x \in Thread, ChildExits(x)
  PROVE  Inv'
<1>1. TypeOK'
  BY DEF Inv, TypeOK, ChildExits, registries, cancels, clears, counts
<1>2. Locks'
  BY DEF Inv, TypeOK, Locks, ChildExits, cancels, clears
<1>3. Threads'
  BY DEF Inv, TypeOK, Threads, Placed, ChildExits
<1>4. Operations'
  BY DEF Inv, TypeOK, Operations, Registered, Cancelling, Confirmed, Leftover, Clean,
         ChildExits, registries, cancels, clears
<1>5. Slots'
  BY DEF Inv, TypeOK, Slots, Slotted, Leftover, Clean, ChildExits, registries
<1>6. Clearing'
  BY DEF Inv, TypeOK, Clearing, ChildExits, registries, clears
<1> QED
  BY <1>1, <1>2, <1>3, <1>4, <1>5, <1>6 DEF Inv

LEMMA ExecStartKeeps ==
  ASSUME Inv, NEW o \in Op, ExecStart(o)
  PROVE  Inv'
<1>1. TypeOK'
  BY DEF Inv, TypeOK, ExecStart, registries, process, cancels, clears, counts, Go,
         Proceed
<1>2. Locks'
  BY DEF Inv, TypeOK, Locks, ExecStart, cancels, clears, Go, Proceed, OpLockFree
<1>3. Threads'
  BY DEF Inv, TypeOK, Threads, Placed, Late, Running, ExecStart, process, Go, Proceed,
         Outside
<1>4. Operations'
  BY DEF Inv, TypeOK, Operations, Registered, Cancelling, Confirmed, Leftover, Clean,
         Late, Running, ExecStart, registries, process, cancels, clears, Go, Proceed
<1>5. Slots'
  BY DEF Inv, TypeOK, Slots, Slotted, Leftover, Clean, Late, Running, ExecStart,
         registries, process, Go, Proceed
<1>6. Clearing'
  BY DEF Inv, TypeOK, Clearing, ExecStart, registries, clears
<1> QED
  BY <1>1, <1>2, <1>3, <1>4, <1>5, <1>6 DEF Inv

LEMMA BeginPendingKeeps ==
  ASSUME Inv, NEW o \in Op, BeginPending(o)
  PROVE  Inv'
<1>1. TypeOK'
  BY DEF Inv, TypeOK, BeginPending, process, cancels, clears, counts, Go, Proceed
<1>2. Locks'
  BY DEF Inv, TypeOK, Locks, BeginPending, cancels, clears, Go, Proceed, Outside
<1>3. Threads'
  BY DEF Inv, TypeOK, Threads, Placed, Late, Running, BeginPending, process, Go,
         Proceed, Outside
<1>4. Operations'
  BY DEF Inv, TypeOK, Threads, Placed, Operations, Registered, Cancelling, Confirmed,
         Leftover, Clean, Late, Running, BeginPending, process, cancels, clears, Go,
         Proceed, Outside, Thread
<1>5. Slots'
  BY DEF Inv, TypeOK, Slots, Slotted, Leftover, Clean, Late, Running, BeginPending,
         process, Go, Proceed
<1>6. Clearing'
  BY DEF Inv, TypeOK, Clearing, BeginPending, clears
<1> QED
  BY <1>1, <1>2, <1>3, <1>4, <1>5, <1>6 DEF Inv

LEMMA ConsumeLeaseKeeps ==
  ASSUME Inv, NEW o \in Op, ConsumeLease(o)
  PROVE  Inv'
<1>1. TypeOK'
  BY DEF Inv, TypeOK, ConsumeLease, process, cancels, clears, counts, Go, Proceed
<1>2. Locks'
  BY DEF Inv, TypeOK, Locks, ConsumeLease, cancels, clears, Go, Proceed, Outside
<1>3. Threads'
  BY DEF Inv, TypeOK, Threads, Placed, Late, Running, ConsumeLease, process, Go,
         Proceed, Outside
<1>4. Operations'
  BY DEF Inv, TypeOK, Operations, Registered, Cancelling, Confirmed, Leftover, Clean,
         ConsumeLease, process, cancels, clears, Go, Proceed
<1>5. Slots'
  BY DEF Inv, TypeOK, Slots, Slotted, Leftover, Clean, Late, Running, ConsumeLease,
         process, Go, Proceed
<1>6. Clearing'
  BY DEF Inv, TypeOK, Clearing, ConsumeLease, clears
<1> QED
  BY <1>1, <1>2, <1>3, <1>4, <1>5, <1>6 DEF Inv

LEMMA LoginKeeps ==
  ASSUME Inv, NEW o \in Op, Login(o)
  PROVE  Inv'
<1>1. TypeOK'
  BY DEF Inv, TypeOK, Login, registries, process, cancels, clears, counts, Go, Proceed,
         Thread
<1>2. Locks'
  BY DEF Inv, TypeOK, Locks, Login, cancels, clears, Go, Proceed, Outside
<1>3. Threads'
  BY DEF Inv, TypeOK, Threads, Placed, Late, Running, Login, process, Go, Proceed,
         Outside
<1>4. Operations'
  BY DEF Inv, TypeOK, Operations, Registered, Cancelling, Confirmed, Leftover, Clean,
         Login, registries, process, cancels, clears, Go, Proceed
<1>5. Slots'
  BY DEF Inv, TypeOK, Slots, Slotted, Leftover, Clean, Late, Running, Login, registries,
         process, Go, Proceed
<1>6. Clearing'
  BY DEF Inv, TypeOK, Clearing, Login, registries, clears
<1> QED
  BY <1>1, <1>2, <1>3, <1>4, <1>5, <1>6 DEF Inv

LEMMA ReserveKeeps ==
  ASSUME Inv, NEW o \in Op, Reserve(o)
  PROVE  Inv'
<1>1. TypeOK'
  BY DEF Inv, TypeOK, Reserve, registries, process, cancels, clears, counts, Go, Proceed
<1>2. Locks'
  BY DEF Inv, TypeOK, Locks, Reserve, cancels, clears, Go, Proceed, ActiveFree, Outside
<1>3. Threads'
  BY DEF Inv, TypeOK, Threads, Placed, Late, Running, Reserve, process, Go, Proceed,
         Outside
<1>4. Operations'
  BY DEF Inv, TypeOK, Operations, Registered, Cancelling, Confirmed, Leftover, Clean,
         Reserve, registries, process, cancels, clears, Go, Proceed
<1>5. Slots'
  BY DEF Inv, TypeOK, Slots, Slotted, Leftover, Clean, Late, Running, Reserve,
         registries, process, Go, Proceed
<1>6. Clearing'
  BY DEF Inv, TypeOK, Clearing, Reserve, registries, clears
<1> QED
  BY <1>1, <1>2, <1>3, <1>4, <1>5, <1>6 DEF Inv

LEMMA SpawnKeeps ==
  ASSUME Inv, NEW o \in Op, Spawn(o)
  PROVE  Inv'
<1>1. TypeOK'
  BY DEF Inv, TypeOK, Spawn, cancels, clears, counts, Go, Thread
<1>2. Locks'
  BY DEF Inv, TypeOK, Locks, Spawn, cancels, clears, Go, Outside
<1>3. Threads'
  BY DEF Inv, TypeOK, Threads, Placed, Late, Running, Spawn, Go, Outside
<1>4. Operations'
  BY DEF Inv, TypeOK, Locks, Operations, Registered, Cancelling, Confirmed, Leftover,
         Clean, Spawn, cancels, clears, Go, Thread
<1>5. Slots'
  BY ThreadAssumption DEF Inv, TypeOK, Slots, Slotted, Leftover, Clean, Spawn, Go
<1>6. Clearing'
  BY DEF Inv, TypeOK, Locks, Clearing, Spawn, clears, Outside, Thread
<1> QED
  BY <1>1, <1>2, <1>3, <1>4, <1>5, <1>6 DEF Inv

LEMMA SpawnFailsKeeps ==
  ASSUME Inv, NEW o \in Op, SpawnFails(o)
  PROVE  Inv'
<1>1. TypeOK'
  BY BoundsAssumption
     DEF Inv, TypeOK, SpawnFails, cancels, clears, Go, Proceed, Fault, NoSpawn, Thread
<1>2. Locks'
  BY DEF Inv, TypeOK, Locks, SpawnFails, cancels, clears, Go, Proceed, NoSpawn, Outside
<1>3. Threads'
  BY DEF Inv, TypeOK, Threads, Placed, Late, Running, SpawnFails, Go, Proceed, NoSpawn,
         Outside
<1>4. Operations'
  BY DEF Inv, TypeOK, Threads, Placed, Operations, Registered, Cancelling, Confirmed,
         Leftover, Clean, Late, Running, SpawnFails, cancels, clears, Go, Proceed,
         NoSpawn, Thread
<1>5. Slots'
  BY DEF Inv, TypeOK, Threads, Placed, Slots, Slotted, Leftover, Clean, Late, Running,
         SpawnFails, Go, Proceed, NoSpawn, Thread
<1>6. Clearing'
  BY DEF Inv, TypeOK, Clearing, SpawnFails, clears, NoSpawn
<1> QED
  BY <1>1, <1>2, <1>3, <1>4, <1>5, <1>6 DEF Inv

LEMMA CleanUpOperationKeeps ==
  ASSUME Inv, NEW o \in Op, CleanUpOperation(o)
  PROVE  Inv'
<1>a. PICK ok \in BOOLEAN : CleanUp(o, ok) /\ Proceed(o, ok, "unregister", "finish")
  BY DEF CleanUpOperation
<1>b. Cleaning(o, ok)
  BY <1>a, CleanUpCleans DEF Inv, Thread, Retry
<1>1. TypeOK'
  BY <1>a, <1>b
     DEF Inv, TypeOK, CleanUpOperation, registries, cancels, clears, Go, Proceed,
         Cleaning
<1>2. Locks'
  BY <1>a, <1>b
     DEF Inv, TypeOK, Locks, CleanUpOperation, cancels, clears, Go, Proceed, Outside,
         Cleaning
<1>3. Threads'
  BY <1>a, <1>b
     DEF Inv, TypeOK, Threads, Placed, Late, Running, CleanUpOperation, Go, Proceed,
         Outside, Cleaning
<1>4. Operations'
  <2> SUFFICES ASSUME NEW p \in Op PROVE Registered(p)' /\ Cancelling(p)' /\ Confirmed(p)'
    BY DEF Operations
  <2>1. Registered(p)'
    BY <1>a, <1>b
       DEF Inv, TypeOK, Threads, Placed, Operations, Registered, Leftover, Clean, Late,
           Running, CleanUpOperation, registries, Go, Proceed, Thread, Cleaning
  <2>2. Cancelling(p)'
    BY <1>a, <1>b
       DEF Inv, TypeOK, Operations, Cancelling, CleanUpOperation, registries, cancels,
           clears, Go, Proceed, Cleaning
  <2>3. Confirmed(p)'
    BY <1>a, <1>b
       DEF Inv, TypeOK, Operations, Confirmed, Late, Running, CleanUpOperation,
           registries, cancels, Go, Proceed, Thread, Cleaning
  <2> QED
    BY <2>1, <2>2, <2>3
<1>5. Slots'
  BY <1>a, <1>b, ThreadAssumption
     DEF Inv, TypeOK, Slots, Slotted, Leftover, Clean, CleanUpOperation, registries, Go,
         Proceed, Thread, Cleaning
<1>6. Clearing'
  BY <1>a, <1>b
     DEF Inv, TypeOK, Clearing, CleanUpOperation, registries, clears, Cleaning
<1> QED
  BY <1>1, <1>2, <1>3, <1>4, <1>5, <1>6 DEF Inv

LEMMA UnregisterKeeps ==
  ASSUME Inv, NEW o \in Op, Unregister(o)
  PROVE  Inv'
<1>1. TypeOK'
  BY DEF Inv, TypeOK, Unregister, process, cancels, clears, counts, Go, Proceed
<1>2. Locks'
  BY DEF Inv, TypeOK, Locks, Unregister, cancels, clears, Go, Proceed, Outside
<1>3. Threads'
  BY DEF Inv, TypeOK, Threads, Placed, Late, Running, Unregister, process, Go, Proceed,
         Outside
<1>4. Operations'
  BY DEF Inv, TypeOK, Operations, Registered, Cancelling, Confirmed, Leftover, Clean,
         Late, Running, Unregister, process, cancels, clears, Go, Proceed, ActiveFree
<1>5. Slots'
  BY ThreadAssumption
     DEF Inv, TypeOK, Slots, Slotted, Leftover, Clean, Unregister, process, Go, Proceed
<1>6. Clearing'
  BY DEF Inv, TypeOK, Clearing, Unregister, clears
<1> QED
  BY <1>1, <1>2, <1>3, <1>4, <1>5, <1>6 DEF Inv

LEMMA FinishKeeps ==
  ASSUME Inv, NEW o \in Op, Finish(o)
  PROVE  Inv'
<1>1. TypeOK'
  BY DEF Inv, TypeOK, Finish, process, cancels, clears, counts, Go, Proceed
<1>2. Locks'
  BY DEF Inv, TypeOK, Locks, Finish, cancels, clears, Go, Proceed, Outside
<1>3. Threads'
  BY DEF Inv, TypeOK, Threads, Placed, Late, Running, Finish, process, Go, Proceed,
         Outside
<1>4. Operations'
  BY DEF Inv, TypeOK, Operations, Registered, Cancelling, Confirmed, Leftover, Clean,
         Finish, process, cancels, clears, Go, Proceed, Thread
<1>5. Slots'
  BY DEF Inv, TypeOK, Slots, Slotted, Leftover, Clean, Late, Running, Finish, process,
         Go, Proceed
<1>6. Clearing'
  BY DEF Inv, TypeOK, Clearing, Finish, clears
<1> QED
  BY <1>1, <1>2, <1>3, <1>4, <1>5, <1>6 DEF Inv

-----------------------------------------------------------------------------
\* Cancellations, by the user or within the end of a session.

LEMMA UserCancelsKeeps ==
  ASSUME Inv, NEW o \in Op, UserCancels(o)
  PROVE  Inv'
<1>1. TypeOK'
  BY BoundsAssumption DEF Inv, TypeOK, UserCancels, process, Command, BeginCancel
<1>2. Locks'
  BY DEF Inv, TypeOK, Locks, UserCancels, ActiveFree, BeginCancel
<1>3. Threads'
  BY DEF Inv, TypeOK, Threads, Placed, UserCancels, process, BeginCancel
<1>4. Operations'
  BY DEF Inv, TypeOK, Operations, Registered, Cancelling, Confirmed, Leftover, Clean,
         UserCancels, process, BeginCancel
<1>5. Slots'
  BY DEF Inv, TypeOK, Slots, Slotted, Leftover, Clean, UserCancels, process, BeginCancel
<1>6. Clearing'
  BY DEF Inv, TypeOK, Clearing, UserCancels, BeginCancel
<1> QED
  BY <1>1, <1>2, <1>3, <1>4, <1>5, <1>6 DEF Inv

LEMMA CancelKillsKeeps ==
  ASSUME Inv, NEW o \in Op, CancelKills(o)
  PROVE  Inv'
<1>a. PICK ok \in BOOLEAN : CleanUp(o, ok) /\ EndCancel(o, ok) /\ active' = IF ok THEN active \ {o} ELSE active
  BY DEF CancelKills
<1>b. Cleaning(o, ok)
  BY <1>a, CleanUpCleans DEF Inv, Thread, Retry
<1>1. TypeOK'
  <2>1. told' \subseteq Op /\ active' \subseteq Op /\ clearAt' \in {"idle", "retry", "cancel", "cancelling", "finish"}
    BY <1>a DEF Inv, TypeOK, EndCancel
  <2>2. failed' \in {"no", "yes"} /\ cancel' \in [Op -> {"idle", "kill", "mark"}]
    BY <1>a DEF Inv, TypeOK, EndCancel
  <2> QED
    BY <2>1, <2>2, <1>a, <1>b DEF Inv, TypeOK, CancelKills, EndCancel, Cleaning
<1>2. Locks'
  BY <1>a, <1>b DEF Inv, TypeOK, Locks, CancelKills, EndCancel, Cleaning
<1>3. Threads'
  BY <1>a, <1>b
     DEF Inv, TypeOK, Threads, Placed, Operations, Registered, Cancelling, CancelKills,
         EndCancel, Cleaning
<1>4. Operations'
  BY <1>a, <1>b
     DEF Inv, TypeOK, Threads, Placed, Operations, Registered, Cancelling, Confirmed,
         Leftover, Clean, Late, Running, CancelKills, EndCancel, Thread, Cleaning
<1>5. Slots'
  BY <1>a, <1>b, ThreadAssumption
     DEF Inv, TypeOK, Slots, Slotted, Leftover, Clean, CancelKills, EndCancel, Thread,
         Cleaning
<1>6. Clearing'
  BY <1>a, <1>b DEF Inv, TypeOK, Clearing, CancelKills, EndCancel, Cleaning
<1> QED
  BY <1>1, <1>2, <1>3, <1>4, <1>5, <1>6 DEF Inv

LEMMA CancelMarksKeeps ==
  ASSUME Inv, NEW o \in Op, CancelMarks(o)
  PROVE  Inv'
<1>1. TypeOK'
  BY DEF Inv, TypeOK, CancelMarks, process, EndCancel
<1>2. Locks'
  BY DEF Inv, TypeOK, Locks, CancelMarks, EndCancel
<1>3. Threads'
  BY DEF Inv, TypeOK, Threads, Placed, CancelMarks, process, EndCancel
<1>4. Operations'
  BY DEF Inv, TypeOK, Locks, Operations, Registered, Cancelling, Confirmed, Leftover,
         Clean, CancelMarks, process, EndCancel
<1>5. Slots'
  BY DEF Inv, TypeOK, Slots, Slotted, Leftover, Clean, CancelMarks, process, EndCancel
<1>6. Clearing'
  BY DEF Inv, TypeOK, Clearing, CancelMarks, EndCancel
<1> QED
  BY <1>1, <1>2, <1>3, <1>4, <1>5, <1>6 DEF Inv

LEMMA ClearCancelsKeeps ==
  ASSUME Inv, NEW o \in Op, ClearCancels(o)
  PROVE  Inv'
<1>1. TypeOK'
  BY DEF Inv, TypeOK, ClearCancels, registries, process, cancels, counts, BeginCancel,
         EntryLost
<1>2. Locks'
  BY DEF Inv, TypeOK, Locks, ClearCancels, cancels, ActiveFree, BeginCancel, EntryLost
<1>3. Threads'
  BY DEF Inv, TypeOK, Threads, Placed, ClearCancels, process, BeginCancel, EntryLost
<1>4. Operations'
  BY DEF Inv, TypeOK, Operations, Registered, Cancelling, Confirmed, Leftover, Clean,
         ClearCancels, registries, process, cancels, BeginCancel, EntryLost
<1>5. Slots'
  BY DEF Inv, TypeOK, Slots, Slotted, Leftover, Clean, ClearCancels, registries,
         process, BeginCancel, EntryLost
<1>6. Clearing'
  BY DEF Inv, TypeOK, Clearing, ClearCancels, BeginCancel, EntryLost
<1> QED
  BY <1>1, <1>2, <1>3, <1>4, <1>5, <1>6 DEF Inv

-----------------------------------------------------------------------------
\* The wait for the process, common to executions and calls.

LEMMA PollExitedKeeps ==
  ASSUME Inv, NEW x \in Thread, PollExited(x)
  PROVE  Inv'
<1>1. TypeOK'
  BY DEF Inv, TypeOK, PollExited, registries, process, cancels, clears, counts, Go
<1>2. Locks'
  BY DEF Inv, TypeOK, Locks, PollExited, cancels, clears, Go, Outside
<1>3. Threads'
  BY DEF Inv, TypeOK, Threads, Placed, Late, Running, PollExited, process, Go, Outside
<1>4. Operations'
  BY DEF Inv, TypeOK, Operations, Registered, Cancelling, Confirmed, Leftover, Clean,
         Late, Running, PollExited, registries, process, cancels, clears, Go
<1>5. Slots'
  BY DEF Inv, TypeOK, Slots, Slotted, Leftover, Clean, Late, Running, PollExited,
         registries, process, Go
<1>6. Clearing'
  BY DEF Inv, TypeOK, Clearing, PollExited, registries, clears
<1> QED
  BY <1>1, <1>2, <1>3, <1>4, <1>5, <1>6 DEF Inv

LEMMA PollTimesOutKeeps ==
  ASSUME Inv, NEW x \in Thread, PollTimesOut(x)
  PROVE  Inv'
<1>1. TypeOK'
  BY DEF Inv, TypeOK, PollTimesOut, registries, process, cancels, clears, counts, Go,
         Proceed
<1>2. Locks'
  BY DEF Inv, TypeOK, Locks, PollTimesOut, cancels, clears, Go, Proceed, Outside
<1>3. Threads'
  BY DEF Inv, TypeOK, Threads, Placed, Late, Running, PollTimesOut, process, Go,
         Proceed, Outside
<1>4. Operations'
  BY DEF Inv, TypeOK, Operations, Registered, Cancelling, Confirmed, Leftover, Clean,
         Late, Running, PollTimesOut, registries, process, cancels, clears, Go, Proceed
<1>5. Slots'
  BY DEF Inv, TypeOK, Slots, Slotted, Leftover, Clean, Late, Running, PollTimesOut,
         registries, process, Go, Proceed
<1>6. Clearing'
  BY DEF Inv, TypeOK, Clearing, PollTimesOut, registries, clears
<1> QED
  BY <1>1, <1>2, <1>3, <1>4, <1>5, <1>6 DEF Inv

LEMMA CheckFailsKeeps ==
  ASSUME Inv, NEW x \in Thread, CheckFails(x)
  PROVE  Inv'
<1>1. TypeOK'
  BY BoundsAssumption
     DEF Inv, TypeOK, CheckFails, registries, process, cancels, clears, Go, Proceed,
         Fault
<1>2. Locks'
  BY DEF Inv, TypeOK, Locks, CheckFails, cancels, clears, Go, Proceed, Outside
<1>3. Threads'
  BY DEF Inv, TypeOK, Threads, Placed, Late, Running, CheckFails, process, Go, Proceed,
         Outside
<1>4. Operations'
  BY DEF Inv, TypeOK, Operations, Registered, Cancelling, Confirmed, Leftover, Clean,
         Late, Running, CheckFails, registries, process, cancels, clears, Go, Proceed
<1>5. Slots'
  BY DEF Inv, TypeOK, Slots, Slotted, Leftover, Clean, Late, Running, CheckFails,
         registries, process, Go, Proceed
<1>6. Clearing'
  BY DEF Inv, TypeOK, Clearing, CheckFails, registries, clears
<1> QED
  BY <1>1, <1>2, <1>3, <1>4, <1>5, <1>6 DEF Inv

LEMMA CheckCancelledKeeps ==
  ASSUME Inv, NEW x \in Thread, CheckCancelled(x)
  PROVE  Inv'
<1>1. TypeOK'
  BY DEF Inv, TypeOK, CheckCancelled, registries, process, cancels, clears, counts, Go,
         Proceed
<1>2. Locks'
  BY DEF Inv, TypeOK, Locks, CheckCancelled, cancels, clears, Go, Proceed, Outside
<1>3. Threads'
  BY DEF Inv, TypeOK, Threads, Placed, Late, Running, CheckCancelled, process, Go,
         Proceed, Outside
<1>4. Operations'
  BY DEF Inv, TypeOK, Operations, Registered, Cancelling, Confirmed, Leftover, Clean,
         Late, Running, CheckCancelled, registries, process, cancels, clears, Go,
         Proceed
<1>5. Slots'
  BY DEF Inv, TypeOK, Slots, Slotted, Leftover, Clean, Late, Running, CheckCancelled,
         registries, process, Go, Proceed
<1>6. Clearing'
  BY DEF Inv, TypeOK, Clearing, CheckCancelled, registries, clears
<1> QED
  BY <1>1, <1>2, <1>3, <1>4, <1>5, <1>6 DEF Inv

LEMMA JoinReadersKeeps ==
  ASSUME Inv, NEW x \in Thread, JoinReaders(x)
  PROVE  Inv'
<1>1. TypeOK'
  BY DEF Inv, TypeOK, JoinReaders, registries, cancels, clears, counts, Go, Proceed
<1>2. Locks'
  BY DEF Inv, TypeOK, Locks, JoinReaders, cancels, clears, Go, Proceed, Outside
<1>3. Threads'
  BY DEF Inv, TypeOK, Threads, Placed, Late, Running, JoinReaders, Go, Proceed, Outside
<1>4. Operations'
  BY DEF Inv, TypeOK, Operations, Registered, Cancelling, Confirmed, Leftover, Clean,
         Late, Running, JoinReaders, registries, cancels, clears, Go, Proceed
<1>5. Slots'
  BY DEF Inv, TypeOK, Slots, Slotted, Leftover, Clean, Late, Running, JoinReaders,
         registries, Go, Proceed
<1>6. Clearing'
  BY DEF Inv, TypeOK, Clearing, JoinReaders, registries, clears
<1> QED
  BY <1>1, <1>2, <1>3, <1>4, <1>5, <1>6 DEF Inv

LEMMA JoinFailsKeeps ==
  ASSUME Inv, NEW x \in Thread, JoinFails(x)
  PROVE  Inv'
<1>1. TypeOK'
  BY BoundsAssumption
     DEF Inv, TypeOK, JoinFails, registries, cancels, clears, Go, Proceed, Fault
<1>2. Locks'
  BY DEF Inv, TypeOK, Locks, JoinFails, cancels, clears, Go, Proceed, Outside
<1>3. Threads'
  BY DEF Inv, TypeOK, Threads, Placed, Late, Running, JoinFails, Go, Proceed, Outside
<1>4. Operations'
  BY DEF Inv, TypeOK, Operations, Registered, Cancelling, Confirmed, Leftover, Clean,
         Late, Running, JoinFails, registries, cancels, clears, Go, Proceed, Thread
<1>5. Slots'
  BY DEF Inv, TypeOK, Slots, Slotted, Leftover, Clean, Late, Running, JoinFails,
         registries, Go, Proceed, Thread
<1>6. Clearing'
  BY DEF Inv, TypeOK, Clearing, JoinFails, registries, clears
<1> QED
  BY <1>1, <1>2, <1>3, <1>4, <1>5, <1>6 DEF Inv

-----------------------------------------------------------------------------
\* Calls and their recovery slots.

LEMMA CallStartKeeps ==
  ASSUME Inv, NEW c \in Call, CallStart(c)
  PROVE  Inv'
<1>1. TypeOK'
  BY DEF Inv, TypeOK, CallStart, process, cancels, clears, counts, Go, Retrying, Thread
<1>2. Locks'
  BY DEF Inv, TypeOK, Locks, CallStart, cancels, clears, Go, OpLockFree, Retrying
<1>3. Threads'
  BY DEF Inv, TypeOK, Threads, Placed, Late, Running, CallStart, process, Go, Retrying
<1>4. Operations'
  BY DEF Inv, TypeOK, Operations, Registered, Cancelling, Confirmed, Leftover, Clean,
         Late, Running, CallStart, process, cancels, clears, Go, Retrying
<1>5. Slots'
  BY DEF Inv, TypeOK, Slots, Slotted, Leftover, Clean, Late, Running, CallStart,
         process, Go, Retrying
<1>6. Clearing'
  BY DEF Inv, TypeOK, Clearing, CallStart, clears, Retrying
<1> QED
  BY <1>1, <1>2, <1>3, <1>4, <1>5, <1>6 DEF Inv

LEMMA RetryByCallKeeps ==
  ASSUME Inv, NEW c \in Call, RetryByCall(c)
  PROVE  Inv'
<1>a. PICK d \in Call, ok \in BOOLEAN : Retry(d, ok) /\ Proceed(c, ok, "retry", "retry")
  BY DEF RetryByCall
<1>b. Cleaning(d, ok)
  BY <1>a, CleanUpCleans DEF Inv, Thread, Retry
<1>1. TypeOK'
  BY <1>a, <1>b
     DEF Inv, TypeOK, RetryByCall, cancels, clears, Go, Proceed, Retry, Cleaning
<1>2. Locks'
  BY <1>a, <1>b
     DEF Inv, TypeOK, Locks, RetryByCall, cancels, clears, Go, Proceed, Retry, Cleaning
<1>3. Threads'
  BY <1>a, <1>b, ThreadAssumption, BoundsAssumption
     DEF Inv, TypeOK, Threads, Placed, Slots, Slotted, RetryByCall, Go, Proceed, Retry,
         Cleaning
<1>4. Operations'
  BY <1>a, <1>b, ThreadAssumption
     DEF Inv, TypeOK, Operations, Registered, Cancelling, Confirmed, Leftover, Clean,
         RetryByCall, cancels, clears, Go, Proceed, Retry, Thread, Cleaning
<1>5. Slots'
  BY <1>a, <1>b
     DEF Inv, TypeOK, Slots, Slotted, Leftover, Clean, RetryByCall, Go, Proceed, Retry,
         Thread, Cleaning
<1>6. Clearing'
  BY <1>a, <1>b
     DEF Inv, TypeOK, Locks, Clearing, RetryByCall, clears, Retry, Outside, Thread,
         Cleaning
<1> QED
  BY <1>1, <1>2, <1>3, <1>4, <1>5, <1>6 DEF Inv

LEMMA CallRetriedKeeps ==
  ASSUME Inv, NEW c \in Call, CallRetried(c)
  PROVE  Inv'
<1>1. TypeOK'
  BY DEF Inv, TypeOK, CallRetried, registries, process, cancels, clears, counts, Go,
         Proceed, NoneRetrying, Thread
<1>2. Locks'
  BY ThreadAssumption
     DEF Inv, TypeOK, Locks, CallRetried, cancels, clears, Go, Proceed, NoneRetrying,
         Outside
<1>3. Threads'
  BY DEF Inv, TypeOK, Threads, Placed, Late, Running, CallRetried, process, Go, Proceed,
         NoneRetrying, Outside
<1>4. Operations'
  BY ThreadAssumption
     DEF Inv, TypeOK, Operations, Registered, Cancelling, Confirmed, Leftover, Clean,
         CallRetried, registries, process, cancels, clears, Go, Proceed, NoneRetrying
<1>5. Slots'
  BY DEF Inv, TypeOK, Slots, Slotted, Leftover, Clean, Late, Running, CallRetried,
         registries, process, Go, Proceed, NoneRetrying
<1>6. Clearing'
  BY DEF Inv, TypeOK, Clearing, CallRetried, registries, clears, NoneRetrying
<1> QED
  BY <1>1, <1>2, <1>3, <1>4, <1>5, <1>6 DEF Inv

LEMMA CallSpawnKeeps ==
  ASSUME Inv, NEW c \in Call, CallSpawn(c)
  PROVE  Inv'
<1>1. TypeOK'
  BY DEF Inv, TypeOK, CallSpawn, cancels, clears, counts, Go, Thread
<1>2. Locks'
  BY DEF Inv, TypeOK, Locks, CallSpawn, cancels, clears, Go, Outside
<1>3. Threads'
  BY DEF Inv, TypeOK, Threads, Placed, Late, Running, CallSpawn, Go, Outside
<1>4. Operations'
  BY ThreadAssumption
     DEF Inv, TypeOK, Operations, Registered, Cancelling, Confirmed, Leftover, Clean,
         CallSpawn, cancels, clears, Go
<1>5. Slots'
  BY DEF Inv, TypeOK, Threads, Placed, Slots, Slotted, Leftover, Clean, Late, Running,
         CallSpawn, Go, Outside, Thread
<1>6. Clearing'
  BY DEF Inv, TypeOK, Locks, Clearing, CallSpawn, clears, Outside, Thread
<1> QED
  BY <1>1, <1>2, <1>3, <1>4, <1>5, <1>6 DEF Inv

LEMMA CallSpawnFailsKeeps ==
  ASSUME Inv, NEW c \in Call, CallSpawnFails(c)
  PROVE  Inv'
<1>1. TypeOK'
  BY BoundsAssumption
     DEF Inv, TypeOK, CallSpawnFails, cancels, clears, Go, Proceed, Fault, NoSpawn,
         Thread
<1>2. Locks'
  BY DEF Inv, TypeOK, Locks, CallSpawnFails, cancels, clears, Go, Proceed, NoSpawn,
         Outside
<1>3. Threads'
  BY DEF Inv, TypeOK, Threads, Placed, Late, Running, CallSpawnFails, Go, Proceed,
         NoSpawn, Outside
<1>4. Operations'
  BY DEF Inv, TypeOK, Threads, Placed, Operations, Registered, Cancelling, Confirmed,
         Leftover, Clean, Late, Running, CallSpawnFails, cancels, clears, Go, Proceed,
         NoSpawn, Thread
<1>5. Slots'
  BY DEF Inv, TypeOK, Threads, Placed, Slots, Slotted, Leftover, Clean, Late, Running,
         CallSpawnFails, Go, Proceed, NoSpawn, Thread
<1>6. Clearing'
  BY DEF Inv, TypeOK, Clearing, CallSpawnFails, clears, NoSpawn
<1> QED
  BY <1>1, <1>2, <1>3, <1>4, <1>5, <1>6 DEF Inv

LEMMA CleanUpCallKeeps ==
  ASSUME Inv, NEW c \in Call, CleanUpCall(c)
  PROVE  Inv'
<1>a. PICK ok \in BOOLEAN : CleanUp(c, ok) /\ Proceed(c, ok, "ended", "ended") /\ slot' = [slot EXCEPT ![c] = IF ok THEN "none" ELSE "retained"]
  BY DEF CleanUpCall
<1>b. Cleaning(c, ok)
  BY <1>a, CleanUpCleans DEF Inv, Thread, Retry
<1>1. TypeOK'
  BY <1>a, <1>b DEF Inv, TypeOK, CleanUpCall, cancels, clears, Go, Proceed, Cleaning
<1>2. Locks'
  BY <1>a, <1>b
     DEF Inv, TypeOK, Locks, CleanUpCall, cancels, clears, Go, Proceed, Outside,
         Cleaning
<1>3. Threads'
  BY <1>a, <1>b
     DEF Inv, TypeOK, Threads, Placed, Late, Running, CleanUpCall, Go, Proceed, Outside,
         Cleaning
<1>4. Operations'
  BY <1>a, <1>b
     DEF Inv, TypeOK, Threads, Placed, Operations, Registered, Cancelling, Confirmed,
         Leftover, Clean, Late, Running, CleanUpCall, cancels, clears, Go, Proceed,
         Thread, Cleaning
<1>5. Slots'
  BY <1>a, <1>b
     DEF Inv, TypeOK, Threads, Placed, Slots, Slotted, Leftover, Clean, CleanUpCall, Go,
         Proceed, Outside, Thread, Cleaning
<1>6. Clearing'
  BY <1>a, <1>b
     DEF Inv, TypeOK, Locks, Clearing, CleanUpCall, clears, Outside, Thread, Cleaning
<1> QED
  BY <1>1, <1>2, <1>3, <1>4, <1>5, <1>6 DEF Inv

-----------------------------------------------------------------------------
\* The end of a session.

LEMMA ClearStartKeeps ==
  ASSUME Inv, ClearStart
  PROVE  Inv'
<1>1. TypeOK'
  BY BoundsAssumption DEF Inv, TypeOK, ClearStart, process, cancels, Command, Retrying
<1>2. Locks'
  BY DEF Inv, TypeOK, Locks, ClearStart, cancels, OpLockFree, Retrying
<1>3. Threads'
  BY DEF Inv, TypeOK, Threads, Placed, ClearStart, process, Retrying
<1>4. Operations'
  BY DEF Inv, TypeOK, Operations, Registered, Cancelling, Confirmed, Leftover, Clean,
         ClearStart, process, cancels, Retrying
<1>5. Slots'
  BY DEF Inv, TypeOK, Slots, Slotted, Leftover, Clean, ClearStart, process, Retrying
<1>6. Clearing'
  BY DEF Inv, TypeOK, Clearing, Slots, Slotted, Late, Running, ClearStart, OpLockFree,
         Retrying, Outside, Thread
<1> QED
  BY <1>1, <1>2, <1>3, <1>4, <1>5, <1>6 DEF Inv

LEMMA RetryByClearKeeps ==
  ASSUME Inv, RetryByClear
  PROVE  Inv'
<1>a. PICK d \in Call, ok \in BOOLEAN : Retry(d, ok) /\ failed' = IF ok THEN failed ELSE "yes"
  BY DEF RetryByClear
<1>b. Cleaning(d, ok)
  BY <1>a, CleanUpCleans DEF Inv, Thread, Retry
<1>1. TypeOK'
  BY <1>a, <1>b DEF Inv, TypeOK, RetryByClear, cancels, Retry, Cleaning
<1>2. Locks'
  BY <1>a, <1>b DEF Inv, TypeOK, Locks, RetryByClear, cancels, Retry, Cleaning
<1>3. Threads'
  BY <1>a, <1>b
     DEF Inv, TypeOK, Threads, Placed, Slots, Slotted, RetryByClear, Retry, Cleaning
<1>4. Operations'
  BY <1>a, <1>b, ThreadAssumption
     DEF Inv, TypeOK, Operations, Registered, Cancelling, Confirmed, Leftover, Clean,
         RetryByClear, cancels, Retry, Thread, Cleaning
<1>5. Slots'
  BY <1>a, <1>b
     DEF Inv, TypeOK, Slots, Slotted, Leftover, Clean, RetryByClear, Retry, Thread,
         Cleaning
<1>6. Clearing'
  BY <1>a, <1>b DEF Inv, TypeOK, Clearing, RetryByClear, Retry, Cleaning
<1> QED
  BY <1>1, <1>2, <1>3, <1>4, <1>5, <1>6 DEF Inv

LEMMA ClearRetriedKeeps ==
  ASSUME Inv, ClearRetried
  PROVE  Inv'
<1>1. TypeOK'
  BY DEF Inv, TypeOK, ClearRetried, registries, process, cancels, counts, NoneRetrying
<1>2. Locks'
  BY DEF Inv, TypeOK, Locks, ClearRetried, cancels, NoneRetrying
<1>3. Threads'
  BY DEF Inv, TypeOK, Threads, Placed, ClearRetried, process, NoneRetrying
<1>4. Operations'
  BY DEF Inv, TypeOK, Threads, Placed, Operations, Registered, Cancelling, Confirmed,
         Leftover, Clean, Late, Running, ClearRetried, registries, process, cancels,
         NoneRetrying, Thread
<1>5. Slots'
  BY DEF Inv, TypeOK, Slots, Slotted, Leftover, Clean, ClearRetried, registries,
         process, NoneRetrying
<1>6. Clearing'
  BY DEF Inv, TypeOK, Clearing, ClearRetried, registries, NoneRetrying
<1> QED
  BY <1>1, <1>2, <1>3, <1>4, <1>5, <1>6 DEF Inv

LEMMA ClearLooksKeeps ==
  ASSUME Inv, ClearLooks
  PROVE  Inv'
<1>1. TypeOK'
  BY DEF Inv, TypeOK, ClearLooks, registries, process, cancels, counts
<1>2. Locks'
  BY DEF Inv, TypeOK, Locks, ClearLooks, cancels
<1>3. Threads'
  BY DEF Inv, TypeOK, Threads, Placed, ClearLooks, process
<1>4. Operations'
  BY DEF Inv, TypeOK, Operations, Registered, Cancelling, Confirmed, Leftover, Clean,
         ClearLooks, registries, process, cancels
<1>5. Slots'
  BY DEF Inv, TypeOK, Slots, Slotted, Leftover, Clean, ClearLooks, registries, process
<1>6. Clearing'
  BY DEF Inv, TypeOK, Clearing, ClearLooks, registries
<1> QED
  BY <1>1, <1>2, <1>3, <1>4, <1>5, <1>6 DEF Inv

LEMMA ClearFinishKeeps ==
  ASSUME Inv, ClearFinish
  PROVE  Inv'
<1>1. TypeOK'
  BY BoundsAssumption
     DEF Inv, TypeOK, Clearing, ClearFinish, process, cancels, counts,
         PendingAfterClear, NextSession
<1>2. Locks'
  BY DEF Inv, TypeOK, Locks, ClearFinish, cancels, PendingAfterClear, NextSession
<1>3. Threads'
  BY DEF Inv, TypeOK, Locks, Threads, Placed, ClearFinish, process, PendingAfterClear,
         NextSession
<1>4. Operations'
  BY DEF Inv, TypeOK, Locks, Threads, Placed, Operations, Registered, Cancelling,
         Confirmed, Leftover, Clean, Late, Running, Clearing, ClearFinish, process,
         cancels, PendingAfterClear, NextSession, Outside, Thread
<1>5. Slots'
  BY DEF Inv, TypeOK, Slots, Slotted, Leftover, Clean, Clearing, ClearFinish, process,
         PendingAfterClear, NextSession
<1>6. Clearing'
  BY DEF Inv, TypeOK, Clearing, ClearFinish, PendingAfterClear, NextSession
<1> QED
  BY <1>1, <1>2, <1>3, <1>4, <1>5, <1>6 DEF Inv

-----------------------------------------------------------------------------
\* The invariant holds from the start, and with it types and the properties.

LEMMA InitInv == Init => Inv
BY ThreadAssumption, BoundsAssumption
   DEF Init, Inv, TypeOK, Locks, Threads, Placed, Operations, Registered, Cancelling,
       Confirmed, Slots, Slotted, Clearing, Leftover, Late, Running, Outside, Thread

LEMMA NextInv == Inv /\ [Next]_vars => Inv'
<1> SUFFICES ASSUME Inv, [Next]_vars PROVE Inv'
  OBVIOUS
<1>1. CASE PrepareStep \/ InvokeStep
  BY <1>1, PrepareKeeps, LeaseExpiresKeeps, InvokeKeeps DEF PrepareStep, InvokeStep
<1>2. CASE \E x \in Thread : ChildExits(x) \/ RunStep(x)
  BY <1>2, ChildExitsKeeps, PollExitedKeeps, PollTimesOutKeeps, CheckFailsKeeps,
     CheckCancelledKeeps, JoinReadersKeeps, JoinFailsKeeps DEF RunStep
<1>3. CASE \E o \in Op : OperationStep(o)
  BY <1>3, ExecStartKeeps, BeginPendingKeeps, ConsumeLeaseKeeps, LoginKeeps, ReserveKeeps,
     SpawnKeeps, SpawnFailsKeeps, CleanUpOperationKeeps, UnregisterKeeps, FinishKeeps
     DEF OperationStep
<1>4. CASE \E o \in Op : UserCancels(o) \/ CancelStep(o)
  BY <1>4, UserCancelsKeeps, CancelKillsKeeps, CancelMarksKeeps DEF CancelStep
<1>5. CASE \E c \in Call : CallStep(c)
  BY <1>5, CallStartKeeps, RetryByCallKeeps, CallRetriedKeeps, CallSpawnKeeps,
     CallSpawnFailsKeeps, CleanUpCallKeeps DEF CallStep
<1>6. CASE ClearStart \/ ClearStep
  BY <1>6, ClearStartKeeps, RetryByClearKeeps, ClearRetriedKeeps, ClearCancelsKeeps,
     ClearLooksKeeps, ClearFinishKeeps DEF ClearStep
<1>7. CASE UNCHANGED vars
  BY <1>7
     DEF vars, registries, process, cancels, clears, counts, Inv, TypeOK, Locks,
         Threads,
     Placed, Operations, Registered, Cancelling, Confirmed, Slots, Slotted, Clearing, Leftover,
     Clean, Late, Running, Outside
<1> QED
  BY <1>1, <1>2, <1>3, <1>4, <1>5, <1>6, <1>7 DEF Next

\* Inv holds of every behaviour of the host.
THEOREM Invariance == Spec => []Inv
BY InitInv, NextInv, PTL DEF Spec

-----------------------------------------------------------------------------
\* Every variable keeps its type, for any operations, calls and bounds.
THEOREM TypeCorrect == Spec => []TypeOK
<1>1. Inv => TypeOK
  BY DEF Inv
<1> QED
  BY <1>1, Invariance, PTL

\* Whatever an execution leaves behind has an owner that can finish it: an
\* operation is still registered, a call still has its slot, and not as a
\* reservation, which only a call at work has.
THEOREM LeftoversHaveOwners == Spec => []LeftoversOwned
<1>1. Inv => LeftoversOwned
  BY DEF Inv, TypeOK, Operations, Registered, Slots, Slotted, Leftover, LeftoversOwned,
     Running, Thread
<1> QED
  BY <1>1, Invariance, PTL

\* No lease, entry or process outlives its session.
THEOREM SessionsStayApart == Spec => []SessionsApart
<1>1. Inv => SessionsApart
  <2> SUFFICES ASSUME Inv, NEW x \in Thread, Left(x) PROVE since[x] = session
    BY DEF SessionsApart
  <2>1. CASE x \in Op
    BY <2>1, ThreadAssumption DEF Inv, TypeOK, Operations, Registered, Left, Leftover
  <2>2. CASE x \in Call
    BY <2>2, ThreadAssumption DEF Inv, TypeOK, Slots, Slotted, Left, Leftover
  <2> QED
    BY <2>1, <2>2 DEF Thread
<1> QED
  BY <1>1, Invariance, PTL

\* Whatever is left of an operation has an owner in the session it belongs to.
THEOREM LeftoversAreHeld == Spec => []LeftoversHeld
  BY LeftoversHaveOwners, SessionsStayApart, PTL DEF LeftoversHeld

-----------------------------------------------------------------------------
\* What OperationPromise sees of the host.
Process == [o \in Op |-> child[o]]
Returned == [o \in Op |-> IF pc[o] = "ended" THEN outcome[o] ELSE "none"]
Unseen == Process' = Process /\ told' = told /\ Returned' = Returned
Kept == [Promise!Next]_<<Process, told, Returned>>

LEMMA UnseenKept == ASSUME Unseen PROVE Kept
BY DEF Unseen, Kept

LEMMA PrepareUnseen ==
  ASSUME Inv, PrepareStep \/ InvokeStep \/ ClearStart \/ (\E o \in Op : UserCancels(o))
  PROVE  Unseen
<1>1. CASE \E o \in Op : Prepare(o) \/ LeaseExpires(o)
  BY <1>1
     DEF Prepare, LeaseExpires, process, cancels, Go, Unseen, Process, Returned, Inv,
         TypeOK, Thread
<1>2. CASE InvokeStep
  BY <1>2
     DEF InvokeStep, Invoke, process, cancels, Go, Unseen, Process, Returned, Inv,
         TypeOK, Thread
<1>3. CASE ClearStart \/ \E o \in Op : UserCancels(o)
  BY <1>3
     DEF ClearStart, UserCancels, BeginCancel, process, cancels, Unseen, Process,
         Returned
<1> QED
  BY <1>1, <1>2, <1>3 DEF PrepareStep

LEMMA RunUnseen == ASSUME Inv, NEW x \in Thread, RunStep(x) PROVE Unseen
<1>1. child' = child /\ told' = told
  BY DEF RunStep, PollExited, PollTimesOut, CheckFails, CheckCancelled, JoinReaders,
         JoinFails,
     process, cancels
<1>2. pc[x] # "ended" /\ \E place \in Late \ {"ended"} : pc' = [pc EXCEPT ![x] = place]
  BY DEF RunStep, PollExited, PollTimesOut, CheckFails, CheckCancelled, JoinReaders,
         JoinFails,
     Go, Proceed, Late, Running
<1>3. outcome' = outcome \/ outcome' = [outcome EXCEPT ![x] = "error"]
  BY DEF RunStep, PollExited, PollTimesOut, CheckFails, CheckCancelled, JoinReaders,
         JoinFails,
     Proceed
<1>4. \A o \in Op : /\ pc'[o] = "ended" <=> pc[o] = "ended"
                    /\ pc[o] = "ended" => outcome'[o] = outcome[o]
  BY <1>2, <1>3 DEF Inv, TypeOK, Late, Running, Thread
<1>5. Returned' = Returned
  BY <1>4 DEF Returned
<1> QED
  BY <1>1, <1>5 DEF Unseen, Process

\* Calls are no operations.
LEMMA CallUnseen == ASSUME Inv, NEW c \in Call, CallStep(c) PROVE Unseen
<1>1. CASE RetryByCall(c)
  <2>1. PICK d \in Call, ok \in BOOLEAN : Retry(d, ok) /\ Proceed(c, ok, "retry", "retry")
    BY <1>1 DEF RetryByCall
  <2>2. Cleaning(d, ok)
    BY <2>1, CleanUpCleans DEF Inv, Thread, Retry
  <2> QED
    BY <1>1, <2>1, <2>2, ThreadAssumption
       DEF RetryByCall, Cleaning, cancels, Go, Proceed, Unseen, Process, Returned, Inv, TypeOK, Thread
<1>2. CASE CleanUpCall(c)
  <2>1. PICK ok \in BOOLEAN : CleanUp(c, ok) /\ Proceed(c, ok, "ended", "ended")
    BY <1>2 DEF CleanUpCall
  <2>2. Cleaning(c, ok)
    BY <2>1, CleanUpCleans DEF Inv, Thread
  <2> QED
    BY <1>2, <2>1, <2>2, ThreadAssumption
       DEF CleanUpCall, Cleaning, cancels, Go, Proceed, Unseen, Process, Returned, Inv, TypeOK, Thread
<1>3. CASE CallStart(c) \/ CallRetried(c) \/ CallSpawn(c) \/ CallSpawnFails(c)
  BY <1>3, ThreadAssumption
     DEF CallStart, CallRetried, CallSpawn, CallSpawnFails, NoSpawn, registries, process, cancels,
         Go, Proceed, Unseen, Process, Returned, Inv, TypeOK, Thread
<1> QED
  BY <1>1, <1>2, <1>3 DEF CallStep

LEMMA ClearUnseen == ASSUME Inv, ClearStep PROVE Unseen
<1>1. CASE RetryByClear
  <2>1. PICK d \in Call, ok \in BOOLEAN : Retry(d, ok)
    BY <1>1 DEF RetryByClear
  <2>2. Cleaning(d, ok)
    BY <2>1, CleanUpCleans DEF Inv, Thread, Retry
  <2> QED
    BY <1>1, <2>2, ThreadAssumption
       DEF RetryByClear, Cleaning, cancels, Unseen, Process, Returned, Inv, TypeOK, Thread
<1>2. CASE ClearRetried \/ ClearLooks \/ ClearFinish \/ \E o \in Op : ClearCancels(o)
  BY <1>2
     DEF ClearRetried, ClearLooks, ClearFinish, ClearCancels, BeginCancel, process,
         cancels,
     Unseen, Process, Returned
<1> QED
  BY <1>1, <1>2 DEF ClearStep

LEMMA ExitKept == ASSUME Inv, NEW x \in Thread, ChildExits(x) PROVE Kept
<1>1. CASE x \in Op
  <2>1. Promise!Exit(x)
    BY <1>1 DEF ChildExits, cancels, Promise!Exit, Inv, TypeOK, Thread
  <2> QED
    BY <1>1, <2>1 DEF Promise!Next, Kept
<1>2. CASE x \notin Op
  BY <1>2, UnseenKept
     DEF ChildExits, cancels, Unseen, Process, Returned, Inv, TypeOK, Thread
<1> QED
  BY <1>1, <1>2

\* An execution that ends returns; it returns a success only if it has not been
\* cancelled and its process is gone.
LEMMA OperationKept == ASSUME Inv, NEW o \in Op, OperationStep(o) PROVE Kept
<1>1. CASE ConsumeLease(o) \/ Login(o) \/ Reserve(o) \/ SpawnFails(o) \/ Unregister(o)
  BY <1>1, UnseenKept
     DEF ConsumeLease, Login, Reserve, SpawnFails, NoSpawn, Unregister, process, cancels, Go,
         Proceed, Unseen, Process, Returned, Inv, TypeOK, Thread
<1>2. CASE ExecStart(o) \/ BeginPending(o)
  <2>1. CASE pc'[o] = "ended"
    <3>1. pc[o] # "ended" /\ Process' = Process /\ told' = told
      BY <1>2 DEF ExecStart, BeginPending, process, cancels, Process
    <3>2. pc' = [pc EXCEPT ![o] = "ended"] /\ outcome' = [outcome EXCEPT ![o] = "error"]
      BY <1>2, <2>1 DEF ExecStart, BeginPending, Go, Proceed, Inv, TypeOK, Thread
    <3>3. Returned' = [Returned EXCEPT ![o] = "error"]
      BY <3>1, <3>2 DEF Returned, Inv, TypeOK, Thread
    <3>4. Promise!Return(o, "error")
      BY <3>1, <3>3 DEF Promise!Return, Returned, Process
    <3> QED
      BY <3>4 DEF Promise!Next, Kept
  <2>2. CASE pc'[o] # "ended"
    BY <1>2, <2>2, UnseenKept
       DEF ExecStart, BeginPending, process, cancels, Go, Proceed,
       Unseen, Process, Returned, Inv, TypeOK, Thread
  <2> QED
    BY <2>1, <2>2
<1>3. CASE Spawn(o)
  <2>1. child[o] = "none" /\ o \notin told
    BY <1>3
       DEF Spawn, Inv, TypeOK, Threads, Placed, Late, Running, Operations, Confirmed,
           Thread
  <2>2. Promise!Start(o)
    BY <1>3, <2>1 DEF Spawn, cancels, Go, Promise!Start, Inv, TypeOK, Thread
  <2> QED
    BY <2>2 DEF Promise!Next, Kept
<1>4. CASE CleanUpOperation(o)
  <2>1. PICK ok \in BOOLEAN : CleanUp(o, ok) /\ Proceed(o, ok, "unregister", "finish")
    BY <1>4 DEF CleanUpOperation
  <2>2. Cleaning(o, ok)
    BY <2>1, CleanUpCleans DEF Inv, Thread
  <2>3. child[o] # "none" /\ Returned' = Returned /\ told' = told
    BY <1>4, <2>1
       DEF CleanUpOperation, cancels, Go, Proceed, Returned, Inv, TypeOK, Threads,
       Placed, Running, Thread
  <2>4. CASE child'[o] = child[o]
    BY <2>2, <2>3, <2>4, UnseenKept DEF Cleaning, Unseen, Process, Inv, TypeOK, Thread
  <2>5. CASE child'[o] # child[o]
    <3>1. child[o] = "running" /\ child'[o] = "exited"
      BY <2>2, <2>3, <2>5 DEF Cleaning, Inv, TypeOK, Thread
    <3>2. Process' = [Process EXCEPT ![o] = "exited"]
      BY <2>2, <3>1 DEF Cleaning, Process, Thread
    <3>3. Promise!Exit(o)
      BY <2>3, <3>1, <3>2 DEF Promise!Exit, Process, Returned
    <3> QED
      BY <3>3 DEF Promise!Next, Kept
  <2> QED
    BY <2>4, <2>5
<1>5. CASE Finish(o)
  <2>1. PICK r \in {"success", "error"} : outcome'[o] = r
    BY <1>5 DEF Finish, Proceed, Inv, TypeOK, Thread
  <2>2. r = "success" => o \notin told /\ child[o] = "exited"
    BY <1>5, <2>1
       DEF Finish, Proceed, Inv, TypeOK, Operations, Registered, Confirmed, Clean, Late,
       Running, Thread
  <2>3. pc[o] # "ended" /\ Process' = Process /\ told' = told
    BY <1>5 DEF Finish, process, cancels, Process
  <2>4. Returned' = [Returned EXCEPT ![o] = r]
    BY <1>5, <2>1, <2>3 DEF Finish, Go, Proceed, Returned, Inv, TypeOK, Thread
  <2>5. Promise!Return(o, r)
    BY <2>2, <2>3, <2>4 DEF Promise!Return, Returned, Process
  <2> QED
    BY <2>5 DEF Promise!Next, Kept
<1> QED
  BY <1>1, <1>2, <1>3, <1>4, <1>5 DEF OperationStep

\* When a cancellation is confirmed the operation's process is gone.
LEMMA CancelKept == ASSUME Inv, NEW o \in Op, CancelStep(o) PROVE Kept
<1>1. CASE CancelKills(o)
  <2>1. PICK ok \in BOOLEAN : CleanUp(o, ok) /\ EndCancel(o, ok)
    BY <1>1 DEF CancelKills
  <2>2. Cleaning(o, ok)
    BY <2>1, CleanUpCleans DEF Inv, Thread
  <2>3. child[o] # "none" /\ Returned' = Returned
    BY <1>1, <2>1
       DEF CancelKills, EndCancel, Returned, Inv, Operations, Registered, Cancelling
  <2>4. CASE ok
    <3>1. child'[o] = "exited" /\ told' = told \cup {o}
      BY <2>1, <2>2, <2>4 DEF Cleaning, Clean, EndCancel
    <3>2. child[o] \in {"running", "exited"}
      BY <2>3 DEF Inv, TypeOK, Thread
    <3>3. Process' = [Process EXCEPT ![o] = IF Process[o] = "running" THEN "exited" ELSE Process[o]]
      BY <2>2, <3>1, <3>2 DEF Cleaning, Process, Thread
    <3>4. Promise!Confirm(o)
      BY <2>3, <3>1, <3>3 DEF Promise!Confirm, Process, Returned
    <3> QED
      BY <3>4 DEF Promise!Next, Kept
  <2>5. CASE ~ok /\ child'[o] = child[o]
    BY <2>1, <2>2, <2>3, <2>5, UnseenKept
       DEF Cleaning, EndCancel, Unseen, Process, Inv, TypeOK, Thread
  <2>6. CASE ~ok /\ child'[o] # child[o]
    <3>1. child[o] = "running" /\ child'[o] = "exited"
      BY <2>2, <2>3, <2>6 DEF Cleaning, Inv, TypeOK, Thread
    <3>2. told' = told
      BY <2>1, <2>6 DEF EndCancel
    <3>3. Process' = [Process EXCEPT ![o] = "exited"]
      BY <2>2, <3>1 DEF Cleaning, Process, Thread
    <3>4. Promise!Exit(o)
      BY <2>3, <3>1, <3>2, <3>3 DEF Promise!Exit, Process, Returned
    <3> QED
      BY <3>4 DEF Promise!Next, Kept
  <2> QED
    BY <2>4, <2>5, <2>6
<1>2. CASE CancelMarks(o)
  <2>1. child[o] # "running"
    BY <1>2 DEF CancelMarks, Inv, TypeOK, Operations, Registered, Cancelling, Leftover
  <2>2. Promise!Confirm(o)
    BY <1>2, <2>1
       DEF CancelMarks, EndCancel, process, Promise!Confirm, Inv, TypeOK, Thread
  <2> QED
    BY <2>2 DEF Promise!Next, Kept
<1> QED
  BY <1>1, <1>2 DEF CancelStep

\* The host implements OperationPromise: a confirmed cancellation holds.
THEOREM PromiseHolds == Spec => ImplementsPromise
<1>1. Init => Promise!Init
  BY DEF Init, Promise!Init, Thread
<1>2. Inv /\ [Next]_vars => Kept
  <2> SUFFICES ASSUME Inv, [Next]_vars PROVE Kept
    OBVIOUS
  <2>1. CASE Next
    BY <2>1, UnseenKept, PrepareUnseen, RunUnseen, CallUnseen, ClearUnseen, ExitKept,
       OperationKept, CancelKept DEF Next
  <2>2. CASE UNCHANGED vars
    BY <2>2, UnseenKept DEF vars, process, cancels, Unseen, Process, Returned
  <2> QED
    BY <2>1, <2>2
<1> QED
  BY <1>1, <1>2, Invariance, PTL
     DEF Spec, ImplementsPromise, Promise!Spec, Kept, Process, Returned

=============================================================================
