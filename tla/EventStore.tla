---------------------------- MODULE EventStore -----------------------------
(***************************************************************************)
(* The durable event stream of one project and the writers that share it.  *)
(*                                                                         *)
(* Every process (a desktop window, a headless runner) keeps a pending     *)
(* buffer of domain events in memory (projectControl/eventBuffer.ts) and   *)
(* flushes it into the stream file through EventStreamRepository           *)
(* (domain/eventStore.ts) and the Tauri adapter (domain/                   *)
(* tauriEventStore.ts), whose lock file belongs to the Rust host           *)
(* (src-tauri/src/storage/event_store.rs).  A flush is a chain of awaits:  *)
(*                                                                         *)
(*   read (no lock) -> lock -> check -> write tmp -> rename -> unlock      *)
(*     -> lock -> write snapshot -> unlock -> clear the buffer             *)
(*                                                                         *)
(* and any action of any process may run between two of its steps.  Within *)
(* a process flushes of a project queue behind each other, so a process    *)
(* has at most one under way.                                              *)
(***************************************************************************)
EXTENDS StreamOps

CONSTANTS
    Proc,           \* the processes that have the project open
    EventId,        \* event identifiers
    Body,           \* event contents other than position and time
    Replays(_),  \* the stream passes the lifecycle rules of the replay
    RenameMayFail,  \* the file system may refuse to rename over the stream
    Free            \* the lock file does not exist

ASSUME ProcAssumption == Free \notin Proc

ASSUME RenameAssumption == RenameMayFail \in BOOLEAN

Event == [id : EventId, body : Body, seq : Nat]

VARIABLES
    streamFile,    \* the stream file; a missing one reads as an empty stream
    tmp,       \* the temporary file next to it, empty when there is none
    snapshot,  \* the events the projection checkpoint folds
    lockFile,  \* Free or the process whose token the lock file holds
    buffers,   \* pending[p]: the buffer of p; seq is the buffer position
    pc,        \* pc[p]: where the flush of p is
    copied,    \* copied[p]: the buffer as it was when the flush of p began
    batch,     \* batch[p]: the events p is about to append
    expected,  \* expected[p]: the lastSequence p read without the lock
    result     \* result[p]: the stream p holds in memory

diskVars == <<streamFile, tmp, snapshot, lockFile>>
flushVars == <<copied, batch, expected, result>>
vars == <<diskVars, buffers, pc, flushVars>>

-----------------------------------------------------------------------------

\* Positions in which a process holds the lock.
Holding == {"checking", "writing", "renaming", "removed", "appended",
            "saving", "saved", "failing"}

\* Positions in which a process waits for the lock.
Waiting == {"append", "snapshot"}

PC == {"idle", "read", "clearing"} \cup Waiting \cup Holding

TypeOK ==
    /\ streamFile \in SUBSET Event
    /\ tmp \in SUBSET Event
    /\ snapshot \in SUBSET Event
    /\ lockFile \in Proc \cup {Free}
    /\ buffers \in [Proc -> SUBSET Event]
    /\ pc \in [Proc -> PC]
    /\ copied \in [Proc -> SUBSET Event]
    /\ batch \in [Proc -> SUBSET Event]
    /\ expected \in [Proc -> Nat]
    /\ result \in [Proc -> SUBSET Event]

Goto(p, l) == pc' = [pc EXCEPT ![p] = l]

\* The flush returns or throws, and its local variables are gone.
Return(p) ==
    /\ Goto(p, "idle")
    /\ copied' = [copied EXCEPT ![p] = {}]
    /\ batch' = [batch EXCEPT ![p] = {}]
    /\ expected' = [expected EXCEPT ![p] = 0]
    /\ result' = [result EXCEPT ![p] = {}]

Init ==
    /\ streamFile = {}
    /\ tmp = {}
    /\ snapshot = {}
    /\ lockFile = Free
    /\ buffers = [p \in Proc |-> {}]
    /\ pc = [p \in Proc |-> "idle"]
    /\ copied = [p \in Proc |-> {}]
    /\ batch = [p \in Proc |-> {}]
    /\ expected = [p \in Proc |-> 0]
    /\ result = [p \in Proc |-> {}]

-----------------------------------------------------------------------------

\* recordProjectEvents, for one event whose id the buffer does not hold.  An id
\* it holds changes nothing: equal contents are skipped, others throw.
Record(p, i, b) ==
    /\ i \notin Ids(buffers[p])
    /\ buffers' = [buffers EXCEPT ![p] = @ \cup
         {[id |-> i, body |-> b, seq |-> LastSequence(@) + 1]}]
    /\ UNCHANGED <<diskVars, pc, flushVars>>

\* flushPendingProjectEvents up to its first await.  With an empty buffer it
\* returns at once.
StartFlush(p) ==
    /\ pc[p] = "idle"
    /\ buffers[p] # {}
    /\ copied' = [copied EXCEPT ![p] = buffers[p]]
    /\ Goto(p, "read")
    /\ UNCHANGED <<diskVars, buffers, batch, expected, result>>

\* An event on disk with the id of a buffered one and other contents.
ContentConflict(S, B) == \E x \in S, y \in B : x.id = y.id /\ x.body # y.body

\* readStream, taken without the lock, and the rebase of the copied events on
\* the stream it returned.  If all are on disk only the snapshot is written.
ReadStream(p) ==
    /\ pc[p] = "read"
    /\ LET fresh == Fresh(streamFile, copied[p])
       IN  \/ /\ ContentConflict(streamFile, copied[p])
              /\ Return(p)
           \/ /\ ~ContentConflict(streamFile, copied[p])
              /\ fresh = {}
              /\ result' = [result EXCEPT ![p] = streamFile]
              /\ Goto(p, "snapshot")
              /\ UNCHANGED <<copied, batch, expected>>
           \/ /\ ~ContentConflict(streamFile, copied[p])
              /\ fresh # {}
              /\ batch' = [batch EXCEPT ![p] = Renumbered(streamFile, fresh)]
              /\ expected' = [expected EXCEPT ![p] = LastSequence(streamFile)]
              /\ Goto(p, "append")
              /\ UNCHANGED <<copied, result>>
    /\ UNCHANGED <<diskVars, buffers>>

-----------------------------------------------------------------------------

\* Mutant: the lock file is opened rather than created.
LockIgnored == TRUE

\* event_lock_acquire: create_new of the lock file succeeds only when there is
\* none, whichever process or earlier incarnation left it.
LockAvailable == lockFile = Free

AcquireLock(p) ==
    /\ pc[p] \in Waiting
    /\ LockAvailable
    /\ lockFile' = p
    /\ Goto(p, IF pc[p] = "append" THEN "checking" ELSE "saving")
    /\ UNCHANGED <<streamFile, tmp, snapshot, buffers, flushVars>>

\* Mutant: the wait for the lock has no bound.
LockTimeoutNever(p) == pc[p] \in Waiting /\ FALSE /\ UNCHANGED vars

\* Five seconds without the lock: the flush fails and the lock file stays.
LockTimeout(p) ==
    /\ pc[p] \in Waiting
    /\ lockFile # Free
    /\ Return(p)
    /\ UNCHANGED <<diskVars, buffers>>

\* An event on disk with the id of a batched one and other contents or another
\* position: appendBatch compares the whole event body, sequence included.
EventConflict(S, B) == \E x \in S, y \in B : x.id = y.id /\ x # y

\* expectedLastSequence is checked before the first event is appended.
ExpectedMatches(p, S) == LastSequence(S) = expected[p]

\* Mutant: the batch is trusted to follow the stream.
BatchTrusted(p) ==
    /\ ~EventConflict(streamFile, batch[p])
    /\ Replays(streamFile \cup Fresh(streamFile, batch[p]))

BatchAccepted(p) ==
    LET fresh == Fresh(streamFile, batch[p])
    IN  /\ ~EventConflict(streamFile, batch[p])
        /\ fresh # {} => /\ ExpectedMatches(p, streamFile)
                         /\ Appendable(streamFile, fresh)
        /\ Replays(streamFile \cup fresh)

\* appendBatch under the lock, up to the write.  The stream is read again.
CheckBatch(p) ==
    /\ pc[p] = "checking"
    /\ \/ /\ ~BatchAccepted(p)
          /\ Goto(p, "failing")
          /\ UNCHANGED result
       \/ /\ BatchAccepted(p)
          /\ result' = [result EXCEPT ![p] = streamFile \cup Fresh(streamFile, batch[p])]
          /\ Goto(p, IF Fresh(streamFile, batch[p]) = {} THEN "appended" ELSE "writing")
    /\ UNCHANGED <<diskVars, buffers, copied, batch, expected>>

\* writeTextAtomic: the whole new stream goes to a file next to the old one.
WriteTmp(p) ==
    /\ pc[p] = "writing"
    /\ tmp' = result[p]
    /\ Goto(p, "renaming")
    /\ UNCHANGED <<streamFile, snapshot, lockFile, buffers, flushVars>>

Rename(p) ==
    /\ pc[p] \in {"renaming", "removed"}
    /\ streamFile' = tmp
    /\ tmp' = {}
    /\ Goto(p, "appended")
    /\ UNCHANGED <<snapshot, lockFile, buffers, flushVars>>

\* The rename is refused.  The adapter then removes the stream to rename over
\* nothing; if the removal fails too the flush fails with the stream in place.
RenameFails(p) ==
    /\ RenameMayFail
    /\ pc[p] = "renaming"
    /\ \/ /\ streamFile' = {}
          /\ Goto(p, "removed")
       \/ /\ Goto(p, "failing")
          /\ UNCHANGED streamFile
    /\ UNCHANGED <<tmp, snapshot, lockFile, buffers, flushVars>>

\* The second rename fails: the events are in the temporary file only.
RenameAgainFails(p) ==
    /\ RenameMayFail
    /\ pc[p] = "removed"
    /\ Goto(p, "failing")
    /\ UNCHANGED <<diskVars, buffers, flushVars>>

\* event_lock_release removes the file only while it holds the caller's token.
ReleaseLock(p) ==
    /\ pc[p] \in {"appended", "saved", "failing"}
    /\ lockFile' = IF lockFile = p THEN Free ELSE lockFile
    /\ \/ /\ pc[p] = "failing"
          /\ Return(p)
       \/ /\ pc[p] # "failing"
          /\ Goto(p, IF pc[p] = "appended" THEN "snapshot" ELSE "clearing")
          /\ UNCHANGED flushVars
    /\ UNCHANGED <<streamFile, tmp, snapshot, buffers>>

\* writeProjectionSnapshot of the stream the flush holds in memory, under the
\* lock but without reading the stream again.
SaveSnapshot(p) ==
    /\ pc[p] = "saving"
    /\ snapshot' = result[p]
    /\ Goto(p, "saved")
    /\ UNCHANGED <<streamFile, tmp, lockFile, buffers, flushVars>>

\* Mutant: the failed write is swallowed and the append reported as done.
WriteErrorSwallowed(p) ==
    /\ pc[p] = "writing"
    /\ Goto(p, "appended")
    /\ UNCHANGED <<diskVars, buffers, flushVars>>

\* A write of the temporary file or of the snapshot fails.
WriteFails(p) ==
    /\ pc[p] \in {"writing", "saving"}
    /\ Goto(p, "failing")
    /\ UNCHANGED <<diskVars, buffers, flushVars>>

\* clearProjectEventBuffer empties the buffer as it is now.
Cleared(p) == {}

ClearBuffer(p) ==
    /\ pc[p] = "clearing"
    /\ buffers' = [buffers EXCEPT ![p] = Cleared(p)]
    /\ Return(p)
    /\ UNCHANGED diskVars

-----------------------------------------------------------------------------

\* The process dies, or its window reloads: everything in memory is gone, the
\* files stay as they are, a lock file it held included.
Crash(p) ==
    /\ buffers' = [buffers EXCEPT ![p] = {}]
    /\ Return(p)
    /\ UNCHANGED diskVars

\* No code removes a stale lock: it is left for an explicit repair action, here
\* a person deleting a lock file whose owner is gone.
RepairStaleLock(p) ==
    /\ lockFile = p
    /\ pc[p] \notin Holding
    /\ lockFile' = Free
    /\ UNCHANGED <<streamFile, tmp, snapshot, buffers, pc, flushVars>>

-----------------------------------------------------------------------------

FlushStep(p) ==
    \/ ReadStream(p) \/ AcquireLock(p) \/ LockTimeout(p) \/ CheckBatch(p)
    \/ WriteTmp(p) \/ Rename(p) \/ RenameFails(p) \/ RenameAgainFails(p)
    \/ ReleaseLock(p) \/ SaveSnapshot(p) \/ WriteFails(p)
    \/ ClearBuffer(p)

Next ==
    \E p \in Proc :
        \/ \E i \in EventId, b \in Body : Record(p, i, b)
        \/ StartFlush(p)
        \/ FlushStep(p)
        \/ Crash(p)
        \/ RepairStaleLock(p)

Spec == Init /\ [][Next]_vars

\* Awaited I/O settles; users, crashes and repairs are under no obligation.
Fairness == \A p \in Proc : WF_vars(FlushStep(p))

FairSpec == Spec /\ Fairness

-----------------------------------------------------------------------------
(* Properties. *)

\* At most one process at a time is between taking and releasing the lock, and
\* the lock file names it, crashes and abandoned lock files notwithstanding.
LockExclusion == \A p \in Proc : pc[p] \in Holding => lockFile = p

\* Whatever the writers interleave, the stream on disk can be parsed: one event
\* per id and per sequence number, numbered from 1 without a gap.
StreamWellFormed == WellFormed(streamFile)

\* loadProjection may use the snapshot instead of replaying the stream when its
\* lastSequence is that of the stream: it then folds exactly those events.
SnapshotTruthful ==
    LastSequence(snapshot) = LastSequence(streamFile) => snapshot = streamFile

\* When a flush is about to clear the buffer, each event it set out to persist
\* is in the stream with its contents, whoever put it there.
FlushedFactsDurable ==
    \A p \in Proc : pc[p] \in {"saved", "clearing"} =>
        \A x \in copied[p] : \E y \in streamFile : y.id = x.id /\ y.body = x.body

\* Neither the snapshot nor a finished flush claims what the stream does not hold.
StreamBacksClaims == SnapshotTruthful /\ FlushedFactsDurable

\* Writers agree on one growing log: no committed batch is lost or reordered by
\* another writer working from an older read.
Log == INSTANCE EventLog WITH log <- streamFile
ImplementsEventLog == Log!Spec

\* A flush ends, for better or worse: no lock another process holds or left
\* behind makes it wait forever.
FlushSettles == \A p \in Proc : pc[p] # "idle" ~> pc[p] = "idle"

\* The comment on flushPendingProjectEvents: failed flushes leave the facts for
\* retry, so the end of a flush takes an event out of the buffer only when the
\* event is in the stream.
FactsKeptUntilDurable ==
    [][\A p \in Proc : ClearBuffer(p) =>
          Ids(buffers[p] \ buffers'[p]) \subseteq Ids(streamFile)]_vars

=============================================================================
