--------------------------- MODULE Domain_proofs ----------------------------
(***************************************************************************)
(* Proofs about the event-sourced core: EventStore, for any processes,     *)
(* events and lifecycle rules, and TaskLifecycle, for every set of runs    *)
(* and tasks and every bound on attempt numbers.                           *)
(***************************************************************************)
EXTENDS EventStore, TaskLifecycle, FiniteSetTheorems, TLAPS

-----------------------------------------------------------------------------
(***************************************************************************)
(* EventStore. The stream on disk is well formed and has lost nothing that *)
(* was claimed durable, and the writers implement the append-only log of   *)
(* EventLog.                                                               *)
(***************************************************************************)

(* Streams. *)

\* The last sequence of a set of events numbered from 1 is their highest one.
LEMMA LastOfWellFormed ==
    ASSUME NEW S \in SUBSET Event, WellFormed(S)
    PROVE  /\ LastSequence(S) \in Nat
           /\ Seqs(S) = 1..LastSequence(S)
<1>1. CASE S = {}
    BY <1>1 DEF LastSequence, Seqs
<1>2. CASE S # {}
    <2>1. PICK last \in Seqs(S) : Seqs(S) = 1..last
        BY <1>2 DEF WellFormed
    <2>2. last \in Nat
        BY DEF Seqs, Event
    <2>3. \A m \in Seqs(S) : m <= last
        BY <2>1, <2>2
    <2>4. LastSequence(S) \in Seqs(S) /\ \A m \in Seqs(S) : m <= LastSequence(S)
        BY <1>2, <2>3 DEF LastSequence
    <2>5. LastSequence(S) = last
        BY <2>1, <2>2, <2>3, <2>4
    <2>. QED
        BY <2>1, <2>2, <2>5
<1>. QED
    BY <1>1, <1>2

\* Appending what the code's checks let through gives a parseable stream again.
LEMMA AppendableKeepsWellFormed ==
    ASSUME NEW S \in SUBSET Event, NEW B \in SUBSET Event,
           WellFormed(S), Appendable(S, B)
    PROVE  WellFormed(S \cup B)
<1>1. LastSequence(S) \in Nat /\ Seqs(S) = 1..LastSequence(S)
    BY LastOfWellFormed
<1>2. CASE B = {}
    BY <1>2
<1>3. CASE B # {}
    <2>1. PICK last \in Seqs(B) : Seqs(B) = (LastSequence(S) + 1)..last
        BY <1>3 DEF Appendable
    <2>2. last \in Nat /\ last > LastSequence(S)
        BY <1>1, <2>1 DEF Seqs, Event
    <2>3. Seqs(S \cup B) = 1..last
        <3>1. Seqs(S \cup B) = Seqs(S) \cup Seqs(B)
            BY DEF Seqs
        <3>2. \A a, b \in Nat : a < b => (1..a) \cup ((a + 1)..b) = 1..b
            OBVIOUS
        <3>. QED
            BY <1>1, <2>1, <2>2, <3>1, <3>2
    <2>4. OnePerId(S \cup B)
        BY DEF OnePerId, WellFormed, Appendable, Ids
    <2>5. OnePerSeq(S \cup B)
        <3>1. \A x \in S, y \in B : x.seq # y.seq
            <4>1. \A x \in S : x.seq \in Seqs(S)
                BY DEF Seqs
            <4>2. \A y \in B : y.seq \in Seqs(B)
                BY DEF Seqs
            <4>. QED
                BY <1>1, <2>1, <2>2, <4>1, <4>2
        <3>. QED
            BY <3>1 DEF OnePerSeq, WellFormed, Appendable
    <2>6. last \in Seqs(S \cup B)
        BY <2>1 DEF Seqs
    <2>. QED
        BY <2>3, <2>4, <2>5, <2>6 DEF WellFormed
<1>. QED
    BY <1>2, <1>3

\* Two parseable streams, one inside the other, with the same last sequence are
\* the same stream.
LEMMA SameLastSameStream ==
    ASSUME NEW S \in SUBSET Event, NEW T \in SUBSET Event,
           WellFormed(S), WellFormed(T), S \subseteq T,
           LastSequence(S) = LastSequence(T)
    PROVE  S = T
<1>1. Seqs(S) = Seqs(T)
    BY LastOfWellFormed
<1>2. SUFFICES ASSUME NEW y \in T PROVE y \in S
    OBVIOUS
<1>3. PICK x \in S : x.seq = y.seq
    BY <1>1 DEF Seqs
<1>. QED
    BY <1>3 DEF WellFormed, OnePerSeq

-----------------------------------------------------------------------------
(* The inductive invariant. *)

\* Buffers are numbered like streams, which is what makes their positions and
\* the renumbering of their events natural numbers.
BuffersNumbered ==
    \A p \in Proc : /\ WellFormed(buffers[p])
                    /\ IsFiniteSet(buffers[p])
                    /\ IsFiniteSet(copied[p])

\* The stream a process is about to put in place continues the one on disk.
Continues(S, T) ==
    \E B \in SUBSET Event : B # {} /\ Appendable(S, B) /\ T = S \cup B

ReplacementReady ==
    \A p \in Proc :
        /\ pc[p] \in {"writing", "renaming"} => Continues(streamFile, result[p])
        /\ pc[p] \in {"writing", "renaming", "removed"} => WellFormed(result[p])
        /\ pc[p] \in {"renaming", "removed"} => tmp = result[p]

IndInv ==
    /\ TypeOK
    /\ BuffersNumbered
    /\ LockExclusion
    /\ StreamWellFormed
    /\ ReplacementReady

\* Some event of T is x, up to its position.
Holds(T, x) == \E y \in T : y.id = x.id /\ y.body = x.body

\* Where the facts of a flush are, as it proceeds.
FactsInFlight ==
    \A p \in Proc : \A x \in copied[p] :
        /\ pc[p] \in {"append", "checking"} => Holds(streamFile \cup batch[p], x)
        /\ pc[p] \in {"writing", "renaming"} => Holds(result[p], x)
        /\ pc[p] \in {"appended", "snapshot", "saving", "saved", "clearing"}
              => Holds(streamFile, x)

\* Streams held in memory, and the one in the snapshot, are former streams.
FormerStreams ==
    /\ WellFormed(snapshot) /\ snapshot \subseteq streamFile
    /\ \A p \in Proc : pc[p] \in {"appended", "snapshot", "saving"} =>
          WellFormed(result[p]) /\ result[p] \subseteq streamFile

\* What holds as well where a rename is never refused.
NoLossInv ==
    /\ \A p \in Proc : pc[p] # "removed"
    /\ FactsInFlight
    /\ FormerStreams

-----------------------------------------------------------------------------
(* Types. *)

\* The candidates of a flush are events.
LEMMA RenumberedType ==
    ASSUME NEW S \in SUBSET Event, WellFormed(S),
           NEW F \in SUBSET Event, IsFiniteSet(F)
    PROVE  Renumbered(S, F) \in SUBSET Event
<1>1. SUFFICES ASSUME NEW x \in F
               PROVE  [x EXCEPT !.seq = LastSequence(S)
                        + Cardinality({y \in F : y.seq <= x.seq})] \in Event
    BY DEF Renumbered
<1>2. LastSequence(S) \in Nat
    BY LastOfWellFormed
<1>3. Cardinality({y \in F : y.seq <= x.seq}) \in Nat
    BY FS_Subset, FS_CardinalityType
<1>. QED
    BY <1>2, <1>3 DEF Event

\* Every step keeps the types.
LEMMA TypeStep == IndInv /\ [Next]_vars => TypeOK'
<1>. SUFFICES ASSUME IndInv, [Next]_vars
              PROVE  TypeOK'
    OBVIOUS
<1>. USE DEF TypeOK, PC, Holding, Waiting, Goto, Return
<1>0. TypeOK /\ BuffersNumbered /\ StreamWellFormed
    BY DEF IndInv
<1>1. ASSUME NEW p \in Proc, NEW i \in EventId, NEW b \in Body, Record(p, i, b)
      PROVE  TypeOK'
    <2>1. LastSequence(buffers[p]) \in Nat
        BY <1>0, LastOfWellFormed DEF BuffersNumbered
    <2>2. [id |-> i, body |-> b, seq |-> LastSequence(buffers[p]) + 1] \in Event
        BY <2>1 DEF Event
    <2>. QED
        BY <1>0, <1>1, <2>2 DEF Record, diskVars, flushVars
<1>2. ASSUME NEW p \in Proc, StartFlush(p)
      PROVE  TypeOK'
    BY <1>0, <1>2 DEF StartFlush, diskVars
<1>3. ASSUME NEW p \in Proc, ReadStream(p)
      PROVE  TypeOK'
    <2>. DEFINE fresh == Fresh(streamFile, copied[p])
    <2>1. fresh \in SUBSET Event /\ IsFiniteSet(fresh)
        BY <1>0, FS_Subset DEF Fresh, BuffersNumbered
    <2>2. Renumbered(streamFile, fresh) \in SUBSET Event
        BY <1>0, <2>1, RenumberedType DEF StreamWellFormed
    <2>3. LastSequence(streamFile) \in Nat
        BY <1>0, LastOfWellFormed DEF StreamWellFormed
    <2>. QED
        BY <1>0, <1>3, <2>2, <2>3 DEF ReadStream, diskVars
<1>4. ASSUME NEW p \in Proc, AcquireLock(p)
      PROVE  TypeOK'
    BY <1>0, <1>4 DEF AcquireLock, flushVars
<1>5. ASSUME NEW p \in Proc, LockTimeout(p)
      PROVE  TypeOK'
    BY <1>0, <1>5 DEF LockTimeout, diskVars
<1>6. ASSUME NEW p \in Proc, CheckBatch(p)
      PROVE  TypeOK'
    BY <1>0, <1>6 DEF CheckBatch, diskVars, Fresh
<1>7. ASSUME NEW p \in Proc,
             WriteTmp(p) \/ Rename(p) \/ RenameFails(p) \/ RenameAgainFails(p)
      PROVE  TypeOK'
    BY <1>0, <1>7 DEF WriteTmp, Rename, RenameFails, RenameAgainFails,
                      diskVars, flushVars
<1>8. ASSUME NEW p \in Proc, ReleaseLock(p)
      PROVE  TypeOK'
    BY <1>0, <1>8 DEF ReleaseLock, flushVars
<1>9. ASSUME NEW p \in Proc, SaveSnapshot(p) \/ WriteFails(p)
      PROVE  TypeOK'
    BY <1>0, <1>9 DEF SaveSnapshot, WriteFails, diskVars, flushVars
<1>10. ASSUME NEW p \in Proc, ClearBuffer(p)
       PROVE  TypeOK'
    BY <1>0, <1>10 DEF ClearBuffer, Cleared, diskVars
<1>11. ASSUME NEW p \in Proc, Crash(p)
       PROVE  TypeOK'
    BY <1>0, <1>11 DEF Crash, diskVars
<1>12. ASSUME NEW p \in Proc, RepairStaleLock(p)
       PROVE  TypeOK'
    BY <1>0, <1>12 DEF RepairStaleLock, flushVars
<1>13. CASE UNCHANGED vars
    BY <1>0, <1>13 DEF vars, diskVars, flushVars
<1>. QED
    BY <1>1, <1>2, <1>3, <1>4, <1>5, <1>6, <1>7, <1>8, <1>9, <1>10, <1>11,
       <1>12, <1>13 DEF Next, FlushStep

-----------------------------------------------------------------------------
(* The inductive invariant holds. *)

\* Everything empty satisfies it.
LEMMA InitIndInv == Init => IndInv
<1>. SUFFICES ASSUME Init
              PROVE  IndInv
    OBVIOUS
<1>1. WellFormed({})
    BY DEF WellFormed, OnePerId, OnePerSeq
<1>2. IsFiniteSet({})
    BY FS_EmptySet
<1>. QED
    BY <1>1, <1>2 DEF Init, IndInv, TypeOK, PC, BuffersNumbered, LockExclusion,
                      Holding, StreamWellFormed, ReplacementReady

\* Recording and clearing keep buffers numbered from 1 without a gap.
LEMMA BuffersStep == IndInv /\ [Next]_vars => BuffersNumbered'
<1>. SUFFICES ASSUME IndInv, [Next]_vars
              PROVE  BuffersNumbered'
    OBVIOUS
<1>0. TypeOK /\ BuffersNumbered
    BY DEF IndInv
<1>1. WellFormed({}) /\ IsFiniteSet({})
    BY FS_EmptySet DEF WellFormed, OnePerId, OnePerSeq
<1>2. ASSUME NEW p \in Proc, NEW i \in EventId, NEW b \in Body, Record(p, i, b)
      PROVE  BuffersNumbered'
    <2>. DEFINE new == [id |-> i, body |-> b, seq |-> LastSequence(buffers[p]) + 1]
    <2>1. buffers[p] \in SUBSET Event /\ WellFormed(buffers[p])
        BY <1>0 DEF TypeOK, BuffersNumbered
    <2>2. LastSequence(buffers[p]) \in Nat
        BY <2>1, LastOfWellFormed
    <2>3. new \in Event
        BY <2>2 DEF Event
    <2>4. Appendable(buffers[p], {new})
        <3>1. Ids(buffers[p]) \cap Ids({new}) = {}
            BY <1>2 DEF Record, Ids
        <3>2. OnePerId({new}) /\ OnePerSeq({new})
            BY DEF OnePerId, OnePerSeq
        <3>3. Seqs({new}) = {LastSequence(buffers[p]) + 1}
            BY DEF Seqs
        <3>4. \A n \in Nat : {n + 1} = (n + 1)..(n + 1)
            OBVIOUS
        <3>5. /\ LastSequence(buffers[p]) + 1 \in Seqs({new})
              /\ Seqs({new}) = (LastSequence(buffers[p]) + 1)..(LastSequence(buffers[p]) + 1)
            BY <2>2, <3>3, <3>4
        <3>. HIDE DEF new
        <3>. QED
            BY <3>1, <3>2, <3>5 DEF Appendable
    <2>5. WellFormed(buffers[p] \cup {new})
        BY <2>1, <2>3, <2>4, AppendableKeepsWellFormed
    <2>6. IsFiniteSet(buffers[p] \cup {new})
        BY <1>0, FS_AddElement DEF BuffersNumbered
    <2>7. buffers' = [buffers EXCEPT ![p] = buffers[p] \cup {new}]
        BY <1>2 DEF Record
    <2>. QED
        BY <1>0, <1>2, <2>5, <2>6, <2>7
           DEF Record, flushVars, BuffersNumbered, TypeOK
<1>3. ASSUME NEW p \in Proc, StartFlush(p)
      PROVE  BuffersNumbered'
    BY <1>0, <1>3 DEF StartFlush, BuffersNumbered, TypeOK
<1>4. ASSUME NEW p \in Proc, FlushStep(p) \/ Crash(p) \/ RepairStaleLock(p)
      PROVE  BuffersNumbered'
    <2>1. \/ UNCHANGED buffers
          \/ buffers' = [buffers EXCEPT ![p] = {}]
        BY <1>4 DEF FlushStep, ReadStream, AcquireLock, LockTimeout, CheckBatch,
                    WriteTmp, Rename, RenameFails, RenameAgainFails, ReleaseLock,
                    SaveSnapshot, WriteFails, ClearBuffer, Cleared, Crash,
                    RepairStaleLock, diskVars
    <2>2. \/ UNCHANGED copied
          \/ copied' = [copied EXCEPT ![p] = {}]
        BY <1>4 DEF FlushStep, ReadStream, AcquireLock, LockTimeout, CheckBatch,
                    WriteTmp, Rename, RenameFails, RenameAgainFails, ReleaseLock,
                    SaveSnapshot, WriteFails, ClearBuffer, Crash,
                    RepairStaleLock, Return, flushVars
    <2>. QED
        BY <1>0, <1>1, <2>1, <2>2 DEF BuffersNumbered, TypeOK
<1>5. CASE UNCHANGED vars
    BY <1>0, <1>5 DEF vars, flushVars, BuffersNumbered
<1>. QED
    BY <1>2, <1>3, <1>4, <1>5 DEF Next

\* The lock file changes hands only when it is free, and is removed only by the
\* process it names or for a process that no longer works under it.
LEMMA LockStep == IndInv /\ [Next]_vars => LockExclusion'
<1>. SUFFICES ASSUME IndInv, [Next]_vars
              PROVE  LockExclusion'
    OBVIOUS
<1>. USE DEF LockExclusion, Holding, Waiting, Goto, Return
<1>0. TypeOK /\ LockExclusion
    BY DEF IndInv
<1>1. Free \notin Proc
    BY ProcAssumption
<1>2. ASSUME NEW p \in Proc, NEW i \in EventId, NEW b \in Body, Record(p, i, b)
      PROVE  LockExclusion'
    BY <1>0, <1>2 DEF Record, diskVars, TypeOK
<1>3. ASSUME NEW p \in Proc, StartFlush(p) \/ ReadStream(p) \/ LockTimeout(p)
                             \/ ClearBuffer(p) \/ Crash(p)
      PROVE  LockExclusion'
    BY <1>0, <1>3 DEF StartFlush, ReadStream, LockTimeout, ClearBuffer, Crash,
                      diskVars, TypeOK
<1>4. ASSUME NEW p \in Proc, AcquireLock(p)
      PROVE  LockExclusion'
    BY <1>0, <1>1, <1>4 DEF AcquireLock, LockAvailable, TypeOK
<1>5. ASSUME NEW p \in Proc, CheckBatch(p) \/ WriteTmp(p) \/ Rename(p)
                \/ RenameFails(p) \/ RenameAgainFails(p) \/ SaveSnapshot(p)
                \/ WriteFails(p)
      PROVE  LockExclusion'
    BY <1>0, <1>5 DEF CheckBatch, WriteTmp, Rename, RenameFails,
                      RenameAgainFails, SaveSnapshot, WriteFails, diskVars, TypeOK
<1>6. ASSUME NEW p \in Proc, ReleaseLock(p)
      PROVE  LockExclusion'
    BY <1>0, <1>1, <1>6 DEF ReleaseLock, TypeOK
<1>7. ASSUME NEW p \in Proc, RepairStaleLock(p)
      PROVE  LockExclusion'
    BY <1>0, <1>7 DEF RepairStaleLock, TypeOK
<1>8. CASE UNCHANGED vars
    BY <1>0, <1>8 DEF vars, diskVars
<1>. QED
    BY <1>2, <1>3, <1>4, <1>5, <1>6, <1>7, <1>8 DEF Next, FlushStep

\* Only the process that holds the lock touches the stream and the temporary
\* file, and what it puts in place continues the stream it read under the lock.
LEMMA StreamStep ==
    IndInv /\ [Next]_vars => StreamWellFormed' /\ ReplacementReady'
<1>. SUFFICES ASSUME IndInv, [Next]_vars
              PROVE  StreamWellFormed' /\ ReplacementReady'
    OBVIOUS
<1>. USE DEF StreamWellFormed, ReplacementReady
<1>0. TypeOK /\ LockExclusion /\ StreamWellFormed /\ ReplacementReady
    BY DEF IndInv
<1>. DEFINE Replacing == {"writing", "renaming", "removed"}
<1>1. \A p, q \in Proc : pc[p] \in Replacing /\ pc[q] \in Replacing => p = q
    BY <1>0 DEF LockExclusion, Holding
<1>2. ASSUME UNCHANGED <<streamFile, tmp>>, NEW p \in Proc,
             pc' = pc \/ \E l \in PC \ Replacing : pc' = [pc EXCEPT ![p] = l],
             \/ result' = result
             \/ /\ pc[p] \notin Replacing \/ pc'[p] \notin Replacing
                /\ \E r \in SUBSET Event : result' = [result EXCEPT ![p] = r]
      PROVE  StreamWellFormed' /\ ReplacementReady'
    <2>1. ASSUME NEW q \in Proc, pc'[q] \in Replacing
          PROVE  pc'[q] = pc[q] /\ result'[q] = result[q]
        BY <1>0, <1>2, <2>1 DEF TypeOK
    <2>. QED
        BY <1>0, <1>2, <2>1
<1>3. ASSUME NEW p \in Proc, NEW i \in EventId, NEW b \in Body, Record(p, i, b)
      PROVE  StreamWellFormed' /\ ReplacementReady'
    BY <1>2, <1>3 DEF Record, diskVars, flushVars
<1>4. ASSUME NEW p \in Proc, StartFlush(p)
      PROVE  StreamWellFormed' /\ ReplacementReady'
    BY <1>2, <1>4 DEF StartFlush, diskVars, Goto, PC
<1>5. ASSUME NEW p \in Proc, ReadStream(p) \/ LockTimeout(p) \/ ClearBuffer(p)
                             \/ Crash(p)
      PROVE  StreamWellFormed' /\ ReplacementReady'
    <2>1. UNCHANGED <<streamFile, tmp>>
        BY <1>5 DEF ReadStream, LockTimeout, ClearBuffer, Crash, diskVars
    <2>2. \E l \in PC \ Replacing : pc' = [pc EXCEPT ![p] = l]
        BY <1>5 DEF ReadStream, LockTimeout, ClearBuffer, Crash, Return, Goto,
                    PC, Waiting
    <2>3. pc'[p] \notin Replacing
        BY <1>0, <2>2 DEF TypeOK
    <2>4. result' = result \/ \E r \in SUBSET Event : result' = [result EXCEPT ![p] = r]
        BY <1>0, <1>5 DEF ReadStream, LockTimeout, ClearBuffer, Crash, Return, TypeOK
    <2>. QED
        BY <1>2, <2>1, <2>2, <2>3, <2>4
<1>6. ASSUME NEW p \in Proc, AcquireLock(p) \/ SaveSnapshot(p) \/ WriteFails(p)
                             \/ RenameAgainFails(p)
      PROVE  StreamWellFormed' /\ ReplacementReady'
    <2>1. UNCHANGED <<streamFile, tmp, result>>
        BY <1>6 DEF AcquireLock, SaveSnapshot, WriteFails, RenameAgainFails,
                    diskVars, flushVars
    <2>2. \E l \in PC \ Replacing : pc' = [pc EXCEPT ![p] = l]
        BY <1>6 DEF AcquireLock, SaveSnapshot, WriteFails, RenameAgainFails,
                    Goto, PC, Holding
    <2>. QED
        BY <1>2, <2>1, <2>2
<1>7. ASSUME NEW p \in Proc, ReleaseLock(p)
      PROVE  StreamWellFormed' /\ ReplacementReady'
    <2>1. UNCHANGED <<streamFile, tmp>>
        BY <1>7 DEF ReleaseLock
    <2>2. \E l \in PC \ Replacing : pc' = [pc EXCEPT ![p] = l]
        BY <1>7 DEF ReleaseLock, Return, Goto, PC, Waiting
    <2>3. pc'[p] \notin Replacing
        BY <1>0, <2>2 DEF TypeOK
    <2>4. result' = result \/ \E r \in SUBSET Event : result' = [result EXCEPT ![p] = r]
        BY <1>7 DEF ReleaseLock, Return, flushVars
    <2>. QED
        BY <1>2, <2>1, <2>2, <2>3, <2>4
<1>8. ASSUME NEW p \in Proc, RepairStaleLock(p)
      PROVE  StreamWellFormed' /\ ReplacementReady'
    BY <1>2, <1>8 DEF RepairStaleLock, flushVars
<1>9. ASSUME NEW p \in Proc, CheckBatch(p)
      PROVE  StreamWellFormed' /\ ReplacementReady'
    <2>. DEFINE fresh == Fresh(streamFile, batch[p])
    <2>1. streamFile \in SUBSET Event /\ fresh \in SUBSET Event
        BY <1>0 DEF TypeOK, Fresh
    <2>2. pc[p] = "checking" /\ UNCHANGED <<streamFile, tmp>>
        BY <1>9 DEF CheckBatch, diskVars
    <2>3. CASE pc'[p] \notin Replacing
        <3>1. \E l \in PC \ Replacing : pc' = [pc EXCEPT ![p] = l]
            BY <1>0, <1>9, <2>3 DEF CheckBatch, Goto, TypeOK, PC, Holding
        <3>2. result' = result \/ \E r \in SUBSET Event : result' = [result EXCEPT ![p] = r]
            BY <1>9, <2>1 DEF CheckBatch
        <3>. QED
            BY <1>2, <2>2, <2>3, <3>1, <3>2
    <2>4. CASE pc'[p] \in Replacing
        <3>1. /\ BatchAccepted(p)
              /\ fresh # {}
              /\ result' = [result EXCEPT ![p] = streamFile \cup fresh]
              /\ pc' = [pc EXCEPT ![p] = "writing"]
            BY <1>0, <1>9, <2>4 DEF CheckBatch, Goto, TypeOK
        <3>2. Appendable(streamFile, fresh)
            BY <3>1 DEF BatchAccepted
        <3>3. WellFormed(streamFile \cup fresh)
            BY <1>0, <2>1, <3>2, AppendableKeepsWellFormed
        <3>4. Continues(streamFile, streamFile \cup fresh)
            BY <2>1, <3>1, <3>2 DEF Continues
        <3>5. \A q \in Proc \ {p} : pc'[q] = pc[q] /\ result'[q] = result[q]
            BY <1>0, <3>1 DEF TypeOK
        <3>6. result'[p] = streamFile \cup fresh /\ pc'[p] = "writing"
            BY <1>0, <3>1 DEF TypeOK
        <3>. QED
            BY <1>0, <2>2, <3>3, <3>4, <3>5, <3>6
    <2>. QED
        BY <2>3, <2>4
<1>10. ASSUME NEW p \in Proc, WriteTmp(p)
       PROVE  StreamWellFormed' /\ ReplacementReady'
    <2>1. \A q \in Proc \ {p} : pc'[q] \notin Replacing
        BY <1>0, <1>1, <1>10 DEF WriteTmp, Goto, TypeOK
    <2>. QED
        BY <1>0, <1>10, <2>1 DEF WriteTmp, Goto, TypeOK, flushVars
<1>11. ASSUME NEW p \in Proc, Rename(p)
       PROVE  StreamWellFormed' /\ ReplacementReady'
    <2>1. \A q \in Proc : pc'[q] \notin Replacing
        BY <1>0, <1>1, <1>11 DEF Rename, Goto, TypeOK
    <2>2. WellFormed(tmp)
        BY <1>0, <1>11 DEF Rename
    <2>. QED
        BY <1>11, <2>1, <2>2 DEF Rename
<1>12. ASSUME NEW p \in Proc, RenameFails(p)
       PROVE  StreamWellFormed' /\ ReplacementReady'
    <2>1. \A q \in Proc \ {p} : pc'[q] \notin Replacing
        BY <1>0, <1>1, <1>12 DEF RenameFails, Goto, TypeOK
    <2>2. WellFormed({})
        BY DEF WellFormed, OnePerId, OnePerSeq
    <2>3. /\ pc'[p] \notin {"writing", "renaming"}
          /\ tmp' = tmp /\ result' = result
          /\ streamFile' \in {streamFile, {}}
        BY <1>0, <1>12 DEF RenameFails, Goto, TypeOK, flushVars
    <2>4. pc[p] = "renaming"
        BY <1>12 DEF RenameFails
    <2>. QED
        BY <1>0, <2>1, <2>2, <2>3, <2>4
<1>13. CASE UNCHANGED vars
    BY <1>0, <1>13 DEF vars, diskVars, flushVars
<1>. QED
    BY <1>3, <1>4, <1>5, <1>6, <1>7, <1>8, <1>9, <1>10, <1>11, <1>12, <1>13
       DEF Next, FlushStep

\* The inductive invariant: types, numbered buffers, the lock's exclusion, a
\* parseable stream, and a replacement that continues it.
THEOREM Invariance == Spec => []IndInv
<1>1. IndInv /\ [Next]_vars => IndInv'
    BY TypeStep, BuffersStep, LockStep, StreamStep DEF IndInv
<1>. QED
    BY InitIndInv, <1>1, PTL DEF Spec

\* Every variable of every writer keeps its type, the buffer positions and the
\* renumbered events included, however many writers there are.
THEOREM TypeCorrect == Spec => []TypeOK
<1>1. IndInv => TypeOK
    BY DEF IndInv
<1>. QED
    BY Invariance, <1>1, PTL

\* event_lock_acquire and event_lock_release keep writers apart, whichever of
\* them crash or leave their lock file behind.
THEOREM OneWriterAtATime == Spec => []LockExclusion
<1>1. IndInv => LockExclusion
    BY DEF IndInv
<1>. QED
    BY Invariance, <1>1, PTL

\* No interleaving of writers, failed renames or crashes leaves a stream on
\* disk with a duplicated id, a duplicated sequence number or a gap.
THEOREM StreamAlwaysParses == Spec => []StreamWellFormed
<1>1. IndInv => StreamWellFormed
    BY DEF IndInv
<1>. QED
    BY Invariance, <1>1, PTL

-----------------------------------------------------------------------------
(* Where a rename is never refused. *)

\* The two invariants together.
NoLoss == IndInv /\ NoLossInv

\* Where a rename is never refused no process loses its stream to a removal.
LEMMA NeverRemoved ==
    ASSUME ~RenameMayFail, NoLoss, [Next]_vars
    PROVE  \A p \in Proc : pc'[p] # "removed"
<1>0. TypeOK /\ \A p \in Proc : pc[p] # "removed"
    BY DEF NoLoss, IndInv, NoLossInv
<1>1. ASSUME NEW p \in Proc, NEW l, l # "removed", pc' = [pc EXCEPT ![p] = l]
      PROVE  \A q \in Proc : pc'[q] # "removed"
    BY <1>0, <1>1 DEF TypeOK
<1>2. CASE UNCHANGED pc
    BY <1>0, <1>2
<1>3. ASSUME NEW p \in Proc, StartFlush(p) \/ FlushStep(p) \/ Crash(p)
      PROVE  UNCHANGED pc \/ \E l : l # "removed" /\ pc' = [pc EXCEPT ![p] = l]
    BY <1>3 DEF StartFlush, FlushStep, ReadStream, AcquireLock, LockTimeout,
                CheckBatch, WriteTmp, Rename, RenameFails, RenameAgainFails,
                ReleaseLock, SaveSnapshot, WriteFails, ClearBuffer, Crash,
                Return, Goto
<1>4. ASSUME NEW p \in Proc, NEW i \in EventId, NEW b \in Body, Record(p, i, b)
      PROVE  UNCHANGED pc
    BY <1>4 DEF Record
<1>5. CASE UNCHANGED vars
    BY <1>2, <1>5 DEF vars
<1>6. ASSUME NEW p \in Proc, RepairStaleLock(p)
      PROVE  UNCHANGED pc
    BY <1>6 DEF RepairStaleLock
<1>. QED
    BY <1>1, <1>2, <1>3, <1>4, <1>5, <1>6 DEF Next

\* A step leaves the stream alone or adds events at its end; the step that adds
\* them is the rename of a process that holds the lock.
LEMMA StreamGrows ==
    ASSUME ~RenameMayFail, NoLoss, [Next]_vars
    PROVE  \/ UNCHANGED streamFile
           \/ /\ Continues(streamFile, streamFile')
              /\ \E p \in Proc : Rename(p)
<1>0. ReplacementReady /\ \A p \in Proc : pc[p] # "removed"
    BY DEF NoLoss, IndInv, NoLossInv
<1>1. ASSUME NEW p \in Proc, Rename(p)
      PROVE  Continues(streamFile, streamFile')
    BY <1>0, <1>1 DEF ReplacementReady, Rename
<1>2. CASE \E p \in Proc : Rename(p)
    BY <1>1, <1>2
<1>3. CASE ~ \E p \in Proc : Rename(p)
    <2>1. CASE UNCHANGED vars
        BY <2>1 DEF vars, diskVars
    <2>2. CASE Next
        BY <1>3, <2>2 DEF Next, FlushStep, Record, StartFlush, ReadStream,
            AcquireLock, LockTimeout, CheckBatch, WriteTmp, RenameFails,
            RenameAgainFails, ReleaseLock, SaveSnapshot, WriteFails,
            ClearBuffer, Crash, RepairStaleLock, diskVars
    <2>. QED
        BY <2>1, <2>2
<1>. QED
    BY <1>2, <1>3

\* A stream that grows still holds what it held.
LEMMA HoldsMore ==
    ASSUME NEW S, NEW T, NEW x, S \subseteq T, Holds(S, x)
    PROVE  Holds(T, x)
BY DEF Holds

\* The facts a flush set out to persist survive every step of every writer:
\* first in its own batch, at last in the stream.
LEMMA FactsStep ==
    ASSUME ~RenameMayFail, NoLoss, [Next]_vars
    PROVE  FactsInFlight'
<1>0. TypeOK /\ ReplacementReady /\ FactsInFlight /\ \A p \in Proc : pc[p] # "removed"
    BY DEF NoLoss, IndInv, NoLossInv
<1>1. streamFile \subseteq streamFile'
    BY StreamGrows DEF Continues
<1>. SUFFICES ASSUME NEW q \in Proc, NEW x \in copied'[q]
              PROVE  /\ pc'[q] \in {"append", "checking"} =>
                           Holds(streamFile' \cup batch'[q], x)
                     /\ pc'[q] \in {"writing", "renaming"} => Holds(result'[q], x)
                     /\ pc'[q] \in {"appended", "snapshot", "saving", "saved", "clearing"}
                           => Holds(streamFile', x)
    BY DEF FactsInFlight
<1>. DEFINE Durable == {"appended", "snapshot", "saving", "saved", "clearing"}
<1>2. CASE /\ x \in copied[q] /\ batch'[q] = batch[q] /\ result'[q] = result[q]
           /\ \/ pc'[q] = pc[q]
              \/ pc[q] \in {"append", "checking"} /\ pc'[q] \in {"append", "checking"}
              \/ pc[q] \in {"writing", "renaming"} /\ pc'[q] \in {"writing", "renaming"}
              \/ pc[q] \in Durable /\ pc'[q] \in Durable
              \/ pc'[q] \in {"read", "failing", "removed", "idle"}
    <2>1. streamFile \cup batch[q] \subseteq streamFile' \cup batch'[q]
        BY <1>1, <1>2
    <2>. QED
        BY <1>0, <1>1, <1>2, <2>1, HoldsMore DEF FactsInFlight
<1>3. ASSUME NEW p \in Proc, Return(p) \/ StartFlush(p), p = q
      PROVE  pc'[q] \in {"idle", "read"}
    BY <1>0, <1>3 DEF Return, StartFlush, Goto, TypeOK
<1>4. ASSUME NEW p \in Proc, NEW i \in EventId, NEW b \in Body, Record(p, i, b)
      PROVE  UNCHANGED <<pc, flushVars>>
    BY <1>4 DEF Record
<1>5. ASSUME NEW p \in Proc, p # q, StartFlush(p) \/ FlushStep(p) \/ Crash(p)
      PROVE  /\ pc'[q] = pc[q] /\ copied'[q] = copied[q]
             /\ batch'[q] = batch[q] /\ result'[q] = result[q]
    <2>1. /\ \A l : [pc EXCEPT ![p] = l][q] = pc[q]
          /\ \A v : [copied EXCEPT ![p] = v][q] = copied[q]
          /\ \A v : [batch EXCEPT ![p] = v][q] = batch[q]
          /\ \A v : [result EXCEPT ![p] = v][q] = result[q]
        BY <1>0, <1>5 DEF TypeOK
    <2>. QED
        BY <1>5, <2>1 DEF StartFlush, FlushStep, ReadStream, AcquireLock,
            LockTimeout, CheckBatch, WriteTmp, Rename, RenameFails,
            RenameAgainFails, ReleaseLock, SaveSnapshot, WriteFails,
            ClearBuffer, Crash, Return, Goto, flushVars
<1>6. CASE StartFlush(q) \/ LockTimeout(q) \/ ClearBuffer(q) \/ Crash(q)
    BY <1>3, <1>6 DEF LockTimeout, ClearBuffer, Crash
<1>7. CASE ReadStream(q)
    <2>. DEFINE fresh == Fresh(streamFile, copied[q])
    <2>1. CASE pc'[q] = "idle"
        BY <2>1
    <2>2. CASE pc'[q] # "idle"
        <3>1. ~ContentConflict(streamFile, copied[q]) /\ ~Return(q)
            BY <1>0, <1>7, <2>2 DEF ReadStream, Return, Goto, TypeOK
        <3>2. copied' = copied /\ streamFile' = streamFile
            BY <1>7, <3>1 DEF ReadStream, diskVars
        <3>3. x.id \in Ids(streamFile) => Holds(streamFile, x)
            BY <3>1, <3>2 DEF ContentConflict, Ids, Holds
        <3>4. CASE fresh = {}
            <4>1. x.id \in Ids(streamFile)
                BY <3>2, <3>4 DEF Fresh
            <4>2. pc'[q] = "snapshot"
                BY <1>0, <1>7, <3>1, <3>4 DEF ReadStream, Goto, TypeOK
            <4>. QED
                BY <3>2, <3>3, <4>1, <4>2
        <3>5. CASE fresh # {}
            <4>1. /\ pc'[q] = "append"
                  /\ batch'[q] = Renumbered(streamFile, fresh)
                BY <1>0, <1>7, <3>1, <3>5 DEF ReadStream, Goto, TypeOK
            <4>2. ASSUME x.id \notin Ids(streamFile)
                  PROVE  Holds(batch'[q], x)
                <5>1. x \in fresh /\ x \in Event
                    BY <1>0, <3>2, <4>2 DEF Fresh, TypeOK
                <5>2. [x EXCEPT !.seq = LastSequence(streamFile)
                          + Cardinality({y \in fresh : y.seq <= x.seq})] \in batch'[q]
                    BY <4>1, <5>1 DEF Renumbered
                <5>3. \A n : [x EXCEPT !.seq = n].id = x.id
                             /\ [x EXCEPT !.seq = n].body = x.body
                    BY <5>1 DEF Event
                <5>. QED
                    BY <5>2, <5>3 DEF Holds
            <4>. QED
                BY <3>2, <3>3, <4>1, <4>2, HoldsMore
        <3>. QED
            BY <3>4, <3>5
    <2>. QED
        BY <2>1, <2>2
<1>8. CASE AcquireLock(q)
    BY <1>0, <1>2, <1>8 DEF AcquireLock, Waiting, Goto, TypeOK, flushVars
<1>9. CASE CheckBatch(q)
    <2>1. pc[q] = "checking" /\ x \in copied[q] /\ streamFile' = streamFile
        BY <1>9 DEF CheckBatch, diskVars
    <2>2. CASE ~BatchAccepted(q)
        BY <1>0, <1>9, <2>2 DEF CheckBatch, Goto, TypeOK
    <2>3. CASE BatchAccepted(q)
        <3>. DEFINE fresh == Fresh(streamFile, batch[q])
        <3>1. /\ result'[q] = streamFile \cup fresh
              /\ pc'[q] = IF fresh = {} THEN "appended" ELSE "writing"
            BY <1>0, <1>9, <2>3 DEF CheckBatch, Goto, TypeOK
        <3>2. Holds(streamFile \cup batch[q], x)
            BY <1>0, <2>1 DEF FactsInFlight
        <3>3. Holds(streamFile \cup fresh, x)
            BY <2>3, <3>2 DEF Holds, BatchAccepted, EventConflict, Fresh, Ids
        <3>. QED
            BY <2>1, <3>1, <3>3
    <2>. QED
        BY <2>2, <2>3
<1>10. CASE WriteTmp(q) \/ RenameFails(q) \/ RenameAgainFails(q) \/ SaveSnapshot(q)
            \/ WriteFails(q)
    BY <1>0, <1>2, <1>10 DEF WriteTmp, RenameFails, RenameAgainFails,
        SaveSnapshot, WriteFails, Goto, TypeOK, flushVars
<1>11. CASE Rename(q)
    <2>1. pc'[q] = "appended" /\ x \in copied[q] /\ streamFile' = result[q]
        BY <1>0, <1>11 DEF Rename, Goto, TypeOK, flushVars, ReplacementReady
    <2>2. Holds(result[q], x)
        BY <1>0, <1>11, <2>1 DEF Rename, FactsInFlight
    <2>. QED
        BY <2>1, <2>2
<1>12. CASE ReleaseLock(q)
    <2>1. CASE pc[q] = "failing"
        BY <1>3, <1>12, <2>1 DEF ReleaseLock
    <2>2. CASE pc[q] # "failing"
        BY <1>0, <1>2, <1>12, <2>2 DEF ReleaseLock, Goto, TypeOK, flushVars
    <2>. QED
        BY <2>1, <2>2
<1>13. CASE UNCHANGED <<pc, flushVars>>
    BY <1>2, <1>13 DEF flushVars
<1>14. ASSUME NEW p \in Proc, RepairStaleLock(p)
       PROVE  UNCHANGED <<pc, flushVars>>
    BY <1>14 DEF RepairStaleLock
<1>15. ASSUME NEW p \in Proc, StartFlush(p) \/ FlushStep(p) \/ Crash(p)
       PROVE  /\ pc'[q] \in {"append", "checking"} => Holds(streamFile' \cup batch'[q], x)
              /\ pc'[q] \in {"writing", "renaming"} => Holds(result'[q], x)
              /\ pc'[q] \in Durable => Holds(streamFile', x)
    <2>1. CASE p # q
        BY <1>2, <1>5, <1>15, <2>1
    <2>2. CASE p = q
        BY <1>6, <1>7, <1>8, <1>9, <1>10, <1>11, <1>12, <1>15, <2>2 DEF FlushStep
    <2>. QED
        BY <2>1, <2>2
<1>16. UNCHANGED vars => UNCHANGED <<pc, flushVars>>
    BY DEF vars
<1>. QED
    BY <1>4, <1>13, <1>14, <1>15, <1>16 DEF Next

\* What a process or the snapshot remembers of the stream stays a former state
\* of it.
LEMMA FormerStep ==
    ASSUME ~RenameMayFail, NoLoss, [Next]_vars
    PROVE  FormerStreams'
<1>. DEFINE Remembering == {"appended", "snapshot", "saving"}
<1>0. /\ TypeOK /\ StreamWellFormed /\ ReplacementReady /\ FormerStreams
      /\ \A p \in Proc : pc[p] # "removed"
    BY DEF NoLoss, IndInv, NoLossInv
<1>1. streamFile \subseteq streamFile'
    BY StreamGrows DEF Continues
<1>2. WellFormed(snapshot') /\ snapshot' \subseteq streamFile'
    <2>1. CASE UNCHANGED snapshot
        BY <1>0, <1>1, <2>1 DEF FormerStreams
    <2>2. ASSUME NEW p \in Proc, SaveSnapshot(p)
          PROVE  WellFormed(snapshot') /\ snapshot' \subseteq streamFile'
        BY <1>0, <1>1, <2>2 DEF SaveSnapshot, FormerStreams
    <2>3. CASE UNCHANGED vars
        BY <2>1, <2>3 DEF vars, diskVars
    <2>4. CASE Next
        <3>1. UNCHANGED snapshot \/ \E p \in Proc : SaveSnapshot(p)
            BY <2>4 DEF Next, FlushStep, Record, StartFlush, ReadStream,
                AcquireLock, LockTimeout, CheckBatch, WriteTmp, Rename,
                RenameFails, RenameAgainFails, ReleaseLock, WriteFails,
                ClearBuffer, Crash, RepairStaleLock, diskVars
        <3>. QED
            BY <2>1, <2>2, <3>1
    <2>. QED
        BY <2>3, <2>4
<1>. SUFFICES ASSUME NEW q \in Proc, pc'[q] \in Remembering
              PROVE  WellFormed(result'[q]) /\ result'[q] \subseteq streamFile'
    BY <1>2 DEF FormerStreams
<1>3. CASE pc[q] \in Remembering /\ result'[q] = result[q]
    BY <1>0, <1>1, <1>3 DEF FormerStreams
<1>4. ASSUME NEW p \in Proc, p # q, StartFlush(p) \/ FlushStep(p) \/ Crash(p)
      PROVE  pc'[q] = pc[q] /\ result'[q] = result[q]
    <2>1. /\ \A l : [pc EXCEPT ![p] = l][q] = pc[q]
          /\ \A v : [result EXCEPT ![p] = v][q] = result[q]
        BY <1>0, <1>4 DEF TypeOK
    <2>. QED
        BY <1>4, <2>1 DEF StartFlush, FlushStep, ReadStream, AcquireLock,
            LockTimeout, CheckBatch, WriteTmp, Rename, RenameFails,
            RenameAgainFails, ReleaseLock, SaveSnapshot, WriteFails,
            ClearBuffer, Crash, Return, Goto, flushVars
<1>5. ~Return(q) /\ ~StartFlush(q)
    BY <1>0 DEF Return, StartFlush, Goto, TypeOK
<1>6. CASE ReadStream(q)
    <2>1. result'[q] = streamFile /\ streamFile' = streamFile
        BY <1>0, <1>5, <1>6 DEF ReadStream, Goto, TypeOK, diskVars
    <2>. QED
        BY <1>0, <2>1 DEF StreamWellFormed
<1>7. CASE CheckBatch(q)
    <2>1. /\ Fresh(streamFile, batch[q]) = {}
          /\ result'[q] = streamFile \cup Fresh(streamFile, batch[q])
          /\ streamFile' = streamFile
        BY <1>0, <1>7 DEF CheckBatch, Goto, TypeOK, diskVars
    <2>. QED
        BY <1>0, <2>1 DEF StreamWellFormed
<1>8. CASE Rename(q)
    BY <1>0, <1>8 DEF Rename, ReplacementReady, flushVars
<1>9. CASE AcquireLock(q) \/ ReleaseLock(q)
    <2>1. pc[q] \in Remembering
        BY <1>0, <1>5, <1>9 DEF AcquireLock, ReleaseLock, Waiting, Goto, TypeOK
    <2>2. result'[q] = result[q]
        BY <1>5, <1>9 DEF AcquireLock, ReleaseLock, flushVars
    <2>. QED
        BY <1>3, <2>1, <2>2
<1>10. ~ (\/ WriteTmp(q) \/ RenameFails(q) \/ RenameAgainFails(q) \/ SaveSnapshot(q)
          \/ WriteFails(q) \/ LockTimeout(q) \/ ClearBuffer(q) \/ Crash(q))
    BY <1>0, <1>5 DEF WriteTmp, RenameFails, RenameAgainFails, SaveSnapshot,
        WriteFails, LockTimeout, ClearBuffer, Crash, Goto, TypeOK
<1>11. ASSUME NEW p \in Proc, StartFlush(p) \/ FlushStep(p) \/ Crash(p)
       PROVE  WellFormed(result'[q]) /\ result'[q] \subseteq streamFile'
    BY <1>3, <1>4, <1>5, <1>6, <1>7, <1>8, <1>9, <1>10, <1>11 DEF FlushStep
<1>12. ASSUME NEW p \in Proc, NEW i \in EventId, NEW b \in Body, Record(p, i, b)
       PROVE  UNCHANGED <<pc, result>>
    BY <1>12 DEF Record, flushVars
<1>13. ASSUME NEW p \in Proc, RepairStaleLock(p)
       PROVE  UNCHANGED <<pc, result>>
    BY <1>13 DEF RepairStaleLock, flushVars
<1>14. UNCHANGED vars => UNCHANGED <<pc, result>>
    BY DEF vars, flushVars
<1>. QED
    BY <1>3, <1>11, <1>12, <1>13, <1>14 DEF Next

\* Both invariants hold where a rename is never refused.
LEMMA NoLossHolds ==
    ASSUME ~RenameMayFail
    PROVE  Spec => []NoLoss
<1>1. Init => NoLoss
    <2>1. WellFormed({})
        BY DEF WellFormed, OnePerId, OnePerSeq
    <2>. QED
        BY <2>1, InitIndInv DEF Init, NoLoss, NoLossInv, FactsInFlight, FormerStreams
<1>2. NoLoss /\ [Next]_vars => NoLoss'
    <2>. SUFFICES ASSUME NoLoss, [Next]_vars
                  PROVE  IndInv' /\ NoLossInv'
        BY DEF NoLoss
    <2>1. IndInv'
        BY TypeStep, BuffersStep, LockStep, StreamStep DEF NoLoss, IndInv
    <2>. QED
        BY <2>1, NeverRemoved, FactsStep, FormerStep DEF NoLossInv
<1>. QED
    BY <1>1, <1>2, PTL DEF Spec

\* A checkpoint whose lastSequence is that of the stream folds exactly the
\* stream, so loadProjection may use it, however many writers saved older ones.
THEOREM CheckpointNeverLies ==
    ASSUME ~RenameMayFail
    PROVE  Spec => []SnapshotTruthful
<1>1. NoLoss => SnapshotTruthful
    BY SameLastSameStream
       DEF NoLoss, IndInv, TypeOK, StreamWellFormed, NoLossInv, FormerStreams,
           SnapshotTruthful
<1>. QED
    BY NoLossHolds, <1>1, PTL

\* When a flush reaches the point of clearing its buffer, the events it copied
\* are in the stream, with their contents, for any number of writers.
THEOREM FlushIsDurable ==
    ASSUME ~RenameMayFail
    PROVE  Spec => []FlushedFactsDurable
<1>1. NoLoss => FlushedFactsDurable
    BY DEF NoLoss, NoLossInv, FactsInFlight, Holds, FlushedFactsDurable
<1>. QED
    BY NoLossHolds, <1>1, PTL

\* Neither the snapshot nor a finished flush claims what the stream does not hold.
THEOREM ClaimsAreBacked ==
    ASSUME ~RenameMayFail
    PROVE  Spec => []StreamBacksClaims
<1>1. Spec => []SnapshotTruthful
    BY CheckpointNeverLies
<1>2. Spec => []FlushedFactsDurable
    BY FlushIsDurable
<1>. QED
    BY <1>1, <1>2, PTL DEF StreamBacksClaims

\* The locked, crash-prone, multi-writer file is one append-only log: each step
\* appends one batch at the end of what is there or changes nothing.
THEOREM RefinesEventLog ==
    ASSUME ~RenameMayFail
    PROVE  Spec => ImplementsEventLog
<1>1. Init => Log!Init
    BY DEF Init, Log!Init
<1>2. NoLoss /\ [Next]_vars => [Log!Next]_streamFile
    <2>. SUFFICES ASSUME NoLoss, [Next]_vars, streamFile' # streamFile
                  PROVE  Log!Next
        OBVIOUS
    <2>1. PICK B \in SUBSET Event : /\ B # {} /\ Appendable(streamFile, B)
                                   /\ streamFile' = streamFile \cup B
        BY StreamGrows DEF Continues
    <2>2. streamFile' \ streamFile = B
        BY <2>1 DEF Appendable, Ids
    <2>3. Log!StoredEvent = Event
        BY DEF Log!StoredEvent, Event
    <2>4. Log!Appendable(streamFile, B)
        BY <2>1 DEF Log!Appendable, Appendable, Log!Ids, Ids, Log!OnePerId,
            OnePerId, Log!OnePerSeq, OnePerSeq, Log!Seqs, Seqs,
            Log!LastSequence, LastSequence
    <2>5. Log!AppendBatch(B)
        BY <2>1, <2>3, <2>4 DEF Log!AppendBatch
    <2>. QED
        BY <2>2, <2>5 DEF Log!Next
<1>. QED
    BY <1>1, <1>2, NoLossHolds, PTL DEF Spec, ImplementsEventLog, Log!Spec

-----------------------------------------------------------------------------
(***************************************************************************)
(* TaskLifecycle. The three predicates of TaskReplay about one execution   *)
(* are inductive together: a retry is accepted because the newest attempt  *)
(* ended, and that it is the newest is what the fences say.                *)
(***************************************************************************)

Good(x) == NewestOpen(x) /\ FenceNewest(x) /\ SuccessNewest(x)

LEMMA EventTypes ==
    ASSUME NEW e \in TaskEvent
    PROVE  /\ e.type \in EventType
           /\ e.attempt \in Attempts \cup {0}
           /\ e.next \in Attempts \cup {0}
           /\ e.next # 0 => e.type = "TaskQueued" /\ e.attempt = 0
           /\ StatusOf(e.type) \in TaskStatus
           /\ StatusOf(e.type) = "succeeded"
                <=> e.type \in {"TaskSucceeded", "TaskCleaned"}
           /\ StatusOf(e.type) = "waiting-feedback"
                <=> e.type = "TaskFeedbackRequested"
<1>1. /\ e.type \in EventType
      /\ e.attempt \in Attempts \cup {0}
      /\ e.next \in Attempts \cup {0}
      /\ e.next # 0 => e.type = "TaskQueued" /\ e.attempt = 0
  <2>1. CASE \E type \in AttemptEvents, a \in Attempts : e = Strict(type, a)
    BY <2>1 DEF Strict, EventType
  <2>2. CASE \E type \in EventType \ AttemptEvents : e = Strict(type, 0)
    BY <2>2 DEF Strict
  <2>3. CASE \E n \in Attempts : e = Fence(n)
    BY <2>3 DEF Fence, EventType
  <2>4. CASE \E type \in EventType : e = Legacy(type)
    BY <2>4 DEF Legacy
  <2> QED
    BY <2>1, <2>2, <2>3, <2>4 DEF TaskEvent
<1>2. /\ StatusOf(e.type) \in TaskStatus
      /\ StatusOf(e.type) = "succeeded"
           <=> e.type \in {"TaskSucceeded", "TaskCleaned"}
      /\ StatusOf(e.type) = "waiting-feedback"
           <=> e.type = "TaskFeedbackRequested"
  BY <1>1 DEF EventType, AttemptEvents, StatusOf, TaskStatus
<1> QED
  BY <1>1, <1>2

\* An event without a fence speaks of an attempt from 1 on, or of none.
LEMMA AttemptOfType ==
    ASSUME NEW x \in Execution, NEW e \in TaskEvent
    PROVE  AttemptOf(x, e) \in Attempts \cup {0}
BY EventTypes, MaxAttemptAssumption DEF AttemptOf, Execution, Attempts

LEMMA AfterType ==
    ASSUME NEW x \in Execution, NEW e \in TaskEvent, Accepts(x, e)
    PROVE  After(x, e) \in Execution
<1> DEFINE a == AttemptOf(x, e)
<1>1. a \in Attempts \cup {0}
  BY AttemptOfType
<1>2. /\ e.next \in Attempts \cup {0}
      /\ StatusOf(e.type) \in TaskStatus
  BY EventTypes
<1>3. FenceAfter(x, e) \in Attempts \cup {0}
  BY <1>2 DEF FenceAfter, Execution
<1> HIDE DEF a
<1>4. CASE e.type = "TaskAttemptMarkedUnknown"
  <2>1. After(x, e) = MarkedUnknown(x, a)
    BY <1>4 DEF After, a
  <2>2. [x.attempt EXCEPT ![a] = "unknown"]
          \in [Attempts -> AttemptStatus \cup {"none"}]
    BY DEF Execution, AttemptStatus
  <2>3. ASSUME NEW f \in [Attempts -> AttemptStatus \cup {"none"}]
        PROVE  [x EXCEPT !.status = "running", !.current = 0, !.attempt = f]
                 \in Execution
    BY DEF Execution, TaskStatus
  <2>4. MarkedUnknown(x, a) \in Execution
    BY <2>2, <2>3 DEF MarkedUnknown
  <2> QED
    BY <2>1, <2>4
<1>5. CASE e.type # "TaskAttemptMarkedUnknown"
  <2>1. After(x, e) =
          [status |-> StatusOf(e.type),
           current |-> IF e.next # 0 THEN 0 ELSE IF a # 0 THEN a ELSE x.current,
           pending |-> FenceAfter(x, e),
           last |-> IF a > x.last THEN a ELSE x.last,
           attempt |-> [b \in Attempts |->
                          IF b = a THEN StatusOf(e.type) ELSE x.attempt[b]]]
    BY <1>5 DEF After, a
  <2> QED
    BY <2>1, <1>1, <1>2, <1>3 DEF Execution, TaskStatus, AttemptStatus
<1> QED
  BY <1>4, <1>5

\* An interrupted attempt is the current one, and it becomes an ended one.
LEMMA MarkedUnknownGood ==
    ASSUME NEW x \in Execution, Good(x), NEW a,
           x.current = a, AttemptAt(x, a) = "running"
    PROVE  Good(MarkedUnknown(x, a))
<1>1. a \in Attempts /\ x.attempt[a] = "running" /\ a = x.last
  BY MaxAttemptAssumption
     DEF AttemptAt, Good, FenceNewest, Execution, Attempts
<1> DEFINE y == MarkedUnknown(x, a)
<1>2. /\ y.status = "running" /\ y.current = 0
      /\ y.pending = x.pending /\ y.last = x.last
      /\ \A b \in Attempts :
           y.attempt[b] = IF b = a THEN "unknown" ELSE x.attempt[b]
  BY <1>1 DEF MarkedUnknown, Execution
<1>3. x.pending = 0
  BY <1>1 DEF Good, FenceNewest, Execution, Attempts
<1> HIDE DEF y
<1>4. NewestOpen(y)
  BY <1>1, <1>2 DEF Good, NewestOpen, Ended
<1>5. FenceNewest(y)
  BY <1>2, <1>3 DEF FenceNewest
<1>6. SuccessNewest(y)
  BY <1>2 DEF SuccessNewest
<1> QED
  BY <1>4, <1>5, <1>6 DEF Good, y

\* Every other accepted event.
LEMMA EventGood ==
    ASSUME NEW x \in Execution, Good(x), NEW e \in TaskEvent, Accepts(x, e),
           e.type # "TaskAttemptMarkedUnknown"
    PROVE  Good(After(x, e))
<1> DEFINE a == AttemptOf(x, e)
           s == StatusOf(e.type)
           y == After(x, e)
<1>1. a \in Attempts \cup {0}
  BY AttemptOfType
<1>2. /\ y.status = s
      /\ y.current = IF e.next # 0 THEN 0 ELSE IF a # 0 THEN a ELSE x.current
      /\ y.pending = FenceAfter(x, e)
      /\ y.last = IF a > x.last THEN a ELSE x.last
      /\ \A b \in Attempts : y.attempt[b] = IF b = a THEN s ELSE x.attempt[b]
  BY DEF After
<1>3. /\ e.next \in Attempts \cup {0}
      /\ s \in TaskStatus
      /\ e.next # 0 => e.type = "TaskQueued" /\ e.attempt = 0
      /\ s = "succeeded" <=> e.type \in {"TaskSucceeded", "TaskCleaned"}
      /\ s = "waiting-feedback" <=> e.type = "TaskFeedbackRequested"
      /\ e.type \in EventType
  BY EventTypes
<1>4. /\ e.type = "TaskQueued" /\ e.next = 0 =>
           x.status = "none" \/ (x.last = 0 /\ x.status = "queued")
      /\ e.next # 0 => FenceAccepted(x, e)
      /\ a # 0 => OrderAccepted(x, a) /\ LifecycleAccepted(x, e, a)
  BY DEF Accepts
<1>5. a = 0 \/ a = x.last \/ a = x.last + 1
  BY <1>4 DEF OrderAccepted, Execution
<1>6. e.next # 0 => a = 0
  BY <1>3 DEF AttemptOf, AttemptEvents
<1>7. e.type \in AttemptEvents <=> a # 0
  BY <1>1, <1>3, MaxAttemptAssumption
     DEF AttemptOf, AttemptEvents, EventType, TaskEvent, Strict, Fence,
         Legacy, Execution, Attempts
<1>8. /\ x.last \in Attempts \cup {0}
      /\ x.current \in {0, x.last}
      /\ x.pending \in Attempts \cup {0}
  BY DEF Good, FenceNewest, Execution
<1>9. x.last \in Attempts /\ a = x.last + 1 => x.attempt[x.last] \in Ended
  BY <1>4, <1>8
     DEF OrderAccepted, LatestEnded, AttemptAt, Good, NewestOpen, Attempts
<1> HIDE DEF a, s, y
<1>10. NewestOpen(y)
  BY <1>1, <1>2, <1>3, <1>5, <1>8, <1>9
     DEF Good, NewestOpen, TaskStatus, Attempts, Ended
<1>11. FenceNewest(y)
  <2>1. CASE e.next # 0
    <3>1. /\ y.current = 0 /\ y.pending = e.next /\ y.last = x.last
          /\ x.last # 0 => y.attempt[x.last] = x.attempt[x.last]
      BY <2>1, <1>2, <1>3, <1>6, <1>8 DEF FenceAfter, Completions, Attempts
    <3> QED
      BY <3>1, <2>1, <1>2, <1>4, <1>6, <1>8
         DEF FenceAccepted, Good, FenceNewest, Attempts
  <2>2. CASE e.next = 0 /\ a = 0
    BY <2>2, <1>2, <1>8 DEF FenceAfter, Good, FenceNewest, Attempts
  <2>3. CASE e.next = 0 /\ a # 0
    <3>1. y.current = a /\ y.last = a
      BY <2>3, <1>1, <1>2, <1>5, <1>8 DEF Attempts
    <3>2. CASE e.type # "TaskFeedbackRequested"
      <4>1. e.type \in Completions \cup {"TaskStarted"}
        BY <3>2, <2>3, <1>7 DEF AttemptEvents, Completions
      <4> QED
        BY <4>1, <3>1, <1>2 DEF FenceAfter, FenceNewest
    <3>3. CASE e.type = "TaskFeedbackRequested"
      <4>1. y.pending = x.pending /\ y.attempt[a] = "waiting-feedback"
        BY <3>3, <2>3, <1>1, <1>2, <1>3 DEF FenceAfter, Completions
      <4>2. x.pending # 0 => x.pending = a
        BY <3>3, <2>3, <1>1, <1>4, <1>5, <1>8
           DEF OrderAccepted, LifecycleAccepted, AttemptAt, Good, NewestOpen,
               FenceNewest, Attempts
      <4> QED
        BY <4>1, <4>2, <3>1 DEF FenceNewest
    <3> QED
      BY <3>2, <3>3
  <2> QED
    BY <2>1, <2>2, <2>3, <1>3
<1>12. SuccessNewest(y)
  <2> SUFFICES ASSUME y.status = "succeeded"
               PROVE  /\ y.last # 0
                      /\ y.current = y.last
                      /\ y.attempt[y.last] = "succeeded"
                      /\ y.pending = 0
    BY DEF SuccessNewest
  <2>1. e.type \in {"TaskSucceeded", "TaskCleaned"} /\ s = "succeeded"
    BY <1>2, <1>3
  <2>2. a # 0 /\ e.next = 0
    BY <2>1, <1>3, <1>7 DEF AttemptEvents
  <2> QED
    BY <2>1, <2>2, <1>1, <1>2, <1>5, <1>8
       DEF FenceAfter, Completions, Attempts
<1> QED
  BY <1>10, <1>11, <1>12 DEF Good, y

LEMMA AfterGood ==
    ASSUME NEW x \in Execution, Good(x), NEW e \in TaskEvent, Accepts(x, e)
    PROVE  Good(After(x, e))
<1>1. CASE e.type = "TaskAttemptMarkedUnknown"
  BY <1>1, MarkedUnknownGood DEF Accepts, After
<1>2. CASE e.type # "TaskAttemptMarkedUnknown"
  BY <1>2, EventGood
<1> QED
  BY <1>1, <1>2

LEMMA ImportedGood ==
    ASSUME NEW x \in Execution, Good(x), Migrating(x), ImportAccepted(x)
    PROVE  Imported(x) \in Execution /\ Good(Imported(x))
<1> DEFINE y == Imported(x)
<1>1. x.last \in 0 .. MaxAttempt /\ x.last + 1 \in Attempts
  BY MaxAttemptAssumption DEF Execution, Attempts, ImportAccepted
<1>2. /\ y.status \in {"queued"}
      /\ y.current = 0 /\ y.pending = 0 /\ y.last = x.last + 1
      /\ \A b \in Attempts :
           y.attempt[b] = IF b = x.last + 1 THEN "unknown" ELSE x.attempt[b]
  BY <1>1 DEF Imported, Migrating, Execution
<1>3. y \in Execution
  BY <1>1 DEF Imported, Execution, TaskStatus, AttemptStatus
<1> HIDE DEF y
<1>4. NewestOpen(y)
  BY <1>1, <1>2 DEF Migrating, Good, NewestOpen, Ended, Attempts
<1> QED
  BY <1>2, <1>3, <1>4 DEF Good, FenceNewest, SuccessNewest, y

-----------------------------------------------------------------------------

\* The inductive invariant: every execution is good.
IInv == LifecycleTypeOK /\ \A r \in Run, t \in TaskId : Good(executions[r][t])

LEMMA InitIInv == LifecycleInit => IInv
BY MaxAttemptAssumption
   DEF LifecycleInit, IInv, LifecycleTypeOK, NoExecution, NoTask, Execution, Good, NewestOpen,
       FenceNewest, SuccessNewest, Attempts

LEMMA NextIInv == IInv /\ [LifecycleNext]_lifecycleVars => IInv'
<1> SUFFICES ASSUME IInv, [LifecycleNext]_lifecycleVars
             PROVE  IInv'
  OBVIOUS
<1>0. /\ executions \in [Run -> [TaskId -> Execution]]
      /\ tasks \in [TaskId -> [run : Run \cup {"none"},
                             status : TaskStatus \cup {"none"}]]
      /\ runs \in [Run -> ReplayedStatus \cup {"none"}]
      /\ \A r \in Run, t \in TaskId : Good(executions[r][t])
  BY DEF IInv, LifecycleTypeOK
<1>1. ASSUME NEW r \in Run, NEW t \in TaskId, NEW e \in TaskEvent,
             ReplayTaskEvent(r, t, e)
      PROVE  IInv'
  <2>1. /\ executions[r][t] \in Execution
        /\ Good(executions[r][t])
        /\ Accepts(executions[r][t], e)
    BY <1>0, <1>1 DEF ReplayTaskEvent
  <2>2. After(executions[r][t], e) \in Execution /\ Good(After(executions[r][t], e))
    BY <2>1, AfterType, AfterGood
  <2>3. executions' = [executions EXCEPT ![r][t] = After(executions[r][t], e)]
    BY <1>1 DEF ReplayTaskEvent
  <2>4. tasks' \in [TaskId -> [run : Run \cup {"none"},
                             status : TaskStatus \cup {"none"}]]
    BY <1>0, <1>1, EventTypes DEF ReplayTaskEvent
  <2>5. runs' = runs
    BY <1>1 DEF ReplayTaskEvent
  <2> QED
    BY <1>0, <2>2, <2>3, <2>4, <2>5 DEF IInv, LifecycleTypeOK
<1>2. ASSUME NEW r \in Run, NEW t \in TaskId, ReplayImport(r, t)
      PROVE  IInv'
  <2>1. Imported(executions[r][t]) \in Execution /\ Good(Imported(executions[r][t]))
    BY <1>0, <1>2, ImportedGood DEF ReplayImport
  <2>2. /\ executions' = [executions EXCEPT ![r][t] = Imported(executions[r][t])]
        /\ UNCHANGED <<tasks, runs>>
    BY <1>2 DEF ReplayImport
  <2> QED
    BY <1>0, <2>1, <2>2 DEF IInv, LifecycleTypeOK
<1>3. ASSUME NEW r \in Run, ReplayRunEvent(r)
      PROVE  IInv'
  BY <1>0, <1>3 DEF ReplayRunEvent, ReplayedStatus, IInv, LifecycleTypeOK
<1>4. ASSUME NEW r \in Run, ReplayRunSucceeded(r)
      PROVE  IInv'
  BY <1>0, <1>4 DEF ReplayRunSucceeded, ReplayedStatus, IInv, LifecycleTypeOK
<1>5. CASE UNCHANGED lifecycleVars
  BY <1>0, <1>5 DEF lifecycleVars, IInv, LifecycleTypeOK
<1> QED
  BY <1>1, <1>2, <1>3, <1>4, <1>5 DEF LifecycleNext

THEOREM TasksInvariance == LifecycleSpec => []IInv
BY InitIInv, NextIInv, PTL DEF LifecycleSpec

\* The projection never leaves its type, whatever is replayed.
THEOREM TasksTyped == LifecycleSpec => []LifecycleTypeOK
<1>1. IInv => LifecycleTypeOK
  BY DEF IInv
<1> QED
  BY <1>1, TasksInvariance, PTL

\* No accepted stream gives an execution two open attempts or a gap between two
\* (applyTaskLineageProjection).
THEOREM OneOpenAttempt == LifecycleSpec => []OnlyNewestOpen
<1>1. IInv => OnlyNewestOpen
  BY DEF IInv, Good, OnlyNewestOpen
<1> QED
  BY <1>1, TasksInvariance, PTL

\* The fencing token names the newest attempt and the retry fence the next one.
THEOREM FencesAgree == LifecycleSpec => []FencesAreNewest
<1>1. IInv => FencesAreNewest
  BY DEF IInv, Good, FencesAreNewest
<1> QED
  BY <1>1, TasksInvariance, PTL

\* A succeeded execution is one whose newest attempt succeeded.
THEOREM SuccessIsReal == LifecycleSpec => []SuccessIsOfNewest
<1>1. IInv => SuccessIsOfNewest
  BY DEF IInv, Good, SuccessIsOfNewest
<1> QED
  BY <1>1, TasksInvariance, PTL

\* The newest attempt decides: it alone can be open, and a success is its own.
THEOREM NewestAttemptDecides == LifecycleSpec => []NewestDecides
  BY OneOpenAttempt, SuccessIsReal, PTL DEF NewestDecides

\* An accepted event leaves every ended attempt as it ended.
LEMMA EndedKept ==
    ASSUME NEW x \in Execution, Good(x), NEW e \in TaskEvent, Accepts(x, e),
           NEW a \in Attempts, x.attempt[a] \in Ended
    PROVE  After(x, e).attempt[a] = x.attempt[a]
<1>1. CASE e.type = "TaskAttemptMarkedUnknown"
  BY <1>1 DEF Accepts, After, MarkedUnknown, AttemptAt, Ended, Execution
<1>2. CASE e.type # "TaskAttemptMarkedUnknown"
  <2> DEFINE b == AttemptOf(x, e)
  <2>1. After(x, e).attempt[a] = IF a = b THEN StatusOf(e.type) ELSE x.attempt[a]
    BY <1>2 DEF After
  <2>2. b # 0 => LifecycleAccepted(x, e, b)
    BY <1>2 DEF Accepts
  <2>3. e.type \in AttemptEvents <=> b # 0
    BY EventTypes, AttemptOfType, MaxAttemptAssumption
       DEF AttemptOf, AttemptEvents, EventType, TaskEvent, Strict, Fence,
           Legacy, Execution, Attempts
  <2> HIDE DEF b
  <2>4. CASE a # b
    BY <2>1, <2>4
  <2>5. CASE a = b
    <3>1. AttemptAt(x, b) = x.attempt[a] /\ x.attempt[a] \notin {"none", "running"}
      BY <2>5 DEF AttemptAt, Ended
    <3>2. b # 0
      BY <2>5 DEF Attempts
    <3>3. e.type = "TaskCleaned" /\ x.attempt[a] = "succeeded"
      BY <3>1, <3>2, <1>2, <2>2, <2>3 DEF LifecycleAccepted, AttemptEvents
    <3> QED
      BY <3>3, <2>1, <2>5 DEF StatusOf
  <2> QED
    BY <2>4, <2>5
<1> QED
  BY <1>1, <1>2

\* What an attempt ended as is never rewritten by a later event.
THEOREM EndedForever == LifecycleSpec => EndedIsFinal
<1>1. ASSUME IInv, [LifecycleNext]_lifecycleVars,
             NEW r \in Run, NEW t \in TaskId, NEW a \in Attempts,
             executions[r][t].attempt[a] \in Ended
      PROVE  executions'[r][t].attempt[a] = executions[r][t].attempt[a]
  <2>0. /\ executions \in [Run -> [TaskId -> Execution]]
        /\ \A q \in Run, u \in TaskId : Good(executions[q][u])
    BY <1>1 DEF IInv, LifecycleTypeOK
  <2>1. ASSUME NEW q \in Run, NEW u \in TaskId, NEW e \in TaskEvent,
               ReplayTaskEvent(q, u, e)
        PROVE  executions'[r][t].attempt[a] = executions[r][t].attempt[a]
    <3>1. executions' = [executions EXCEPT ![q][u] = After(executions[q][u], e)]
      BY <2>1 DEF ReplayTaskEvent
    <3>2. CASE q = r /\ u = t
      BY <3>1, <3>2, <2>0, <2>1, <1>1, EndedKept DEF ReplayTaskEvent
    <3>3. CASE ~(q = r /\ u = t)
      BY <3>1, <3>3, <2>0
    <3> QED
      BY <3>2, <3>3
  <2>2. ASSUME NEW q \in Run, NEW u \in TaskId, ReplayImport(q, u)
        PROVE  executions'[r][t].attempt[a] = executions[r][t].attempt[a]
    <3>1. executions' = [executions EXCEPT ![q][u] = Imported(executions[q][u])]
      BY <2>2 DEF ReplayImport
    <3>2. CASE q = r /\ u = t
      <4>1. executions[r][t] \in Execution /\ Good(executions[r][t])
        BY <2>0
      <4>2. a # executions[r][t].last + 1
        BY <4>1, <1>1, MaxAttemptAssumption
           DEF Good, NewestOpen, Ended, Execution, Attempts
      <4>3. Imported(executions[r][t]).attempt[a] = executions[r][t].attempt[a]
        BY <4>1, <4>2 DEF Imported, Execution
      <4> QED
        BY <4>3, <3>1, <3>2, <2>0
    <3>3. CASE ~(q = r /\ u = t)
      BY <3>1, <3>3, <2>0
    <3> QED
      BY <3>2, <3>3
  <2>3. ASSUME NEW q \in Run, ReplayRunEvent(q) \/ ReplayRunSucceeded(q)
        PROVE  executions'[r][t].attempt[a] = executions[r][t].attempt[a]
    BY <2>3 DEF ReplayRunEvent, ReplayRunSucceeded
  <2>4. CASE UNCHANGED lifecycleVars
    BY <2>4 DEF lifecycleVars
  <2> QED
    BY <1>1, <2>1, <2>2, <2>3, <2>4 DEF LifecycleNext
<1>2. IInv /\ [LifecycleNext]_lifecycleVars =>
        [\A r \in Run, t \in TaskId, a \in Attempts :
           executions[r][t].attempt[a] \in Ended =>
             executions'[r][t].attempt[a] = executions[r][t].attempt[a]]_lifecycleVars
  BY <1>1
<1> QED
  BY <1>2, TasksInvariance, PTL DEF LifecycleSpec, EndedIsFinal

\* A RunSucceeded the reducer accepts is backed by the newest attempt of every
\* execution of the run.
THEOREM RunSuccessReal == LifecycleSpec => RunSuccessBacked
<1>1. ASSUME IInv, [LifecycleNext]_lifecycleVars, NEW r \in Run,
             runs[r] # "succeeded", runs'[r] = "succeeded",
             NEW t \in ExecutionsOf(r)
      PROVE  /\ executions[r][t].last # 0
             /\ executions[r][t].attempt[executions[r][t].last] = "succeeded"
  <2>0. /\ runs \in [Run -> ReplayedStatus \cup {"none"}]
        /\ \A q \in Run, u \in TaskId : Good(executions[q][u])
    BY <1>1 DEF IInv, LifecycleTypeOK
  <2>1. runs' # runs
    BY <1>1
  <2>2. PICK q \in Run : ReplayRunEvent(q) \/ ReplayRunSucceeded(q)
    BY <1>1, <2>1 DEF LifecycleNext, lifecycleVars, ReplayTaskEvent, ReplayImport
  <2>3. ReplayRunSucceeded(q) /\ q = r
    BY <2>0, <2>2, <1>1 DEF ReplayRunEvent, ReplayRunSucceeded
  <2>4. t \in TaskId /\ executions[r][t].status = "succeeded"
    BY <2>3, <1>1 DEF ReplayRunSucceeded, AllSucceeded, ExecutionsOf
  <2> QED
    BY <2>0, <2>4 DEF Good, SuccessNewest
<1>2. IInv /\ [LifecycleNext]_lifecycleVars =>
        [\A r \in Run : runs[r] # "succeeded" /\ runs'[r] = "succeeded" =>
           \A t \in ExecutionsOf(r) : LET x == executions[r][t] IN
             x.last # 0 /\ x.attempt[x.last] = "succeeded"]_lifecycleVars
  BY <1>1
<1> QED
  BY <1>2, TasksInvariance, PTL DEF LifecycleSpec, RunSuccessBacked

-----------------------------------------------------------------------------
\* The task records are written by events alone, and an import never names an
\* execution for the first time where an event already did.
ShownIInv ==
    \A t \in TaskId : tasks[t].run # "none" =>
        /\ tasks[t].run \in Run
        /\ tasks[t].status = executions[tasks[t].run][t].status
        /\ tasks[t].status \in TaskStatus

LEMMA NextShown == IInv /\ ShownIInv /\ [LifecycleNext]_lifecycleVars => ShownIInv'
<1> SUFFICES ASSUME IInv, ShownIInv, [LifecycleNext]_lifecycleVars,
                    NEW t \in TaskId, tasks'[t].run # "none"
             PROVE  /\ tasks'[t].run \in Run
                    /\ tasks'[t].status = executions'[tasks'[t].run][t].status
                    /\ tasks'[t].status \in TaskStatus
  BY DEF ShownIInv
<1>0. /\ executions \in [Run -> [TaskId -> Execution]]
      /\ tasks \in [TaskId -> [run : Run \cup {"none"}, status : TaskStatus \cup {"none"}]]
  BY DEF IInv, LifecycleTypeOK
<1>1. ASSUME NEW r \in Run, NEW u \in TaskId, NEW e \in TaskEvent, ReplayTaskEvent(r, u, e)
      PROVE  /\ tasks'[t].run \in Run
             /\ tasks'[t].status = executions'[tasks'[t].run][t].status
             /\ tasks'[t].status \in TaskStatus
  <2>1. /\ executions' = [executions EXCEPT ![r][u] = After(executions[r][u], e)]
        /\ tasks' = [tasks EXCEPT ![u] = [run |-> r, status |-> StatusOf(e.type)]]
    BY <1>1 DEF ReplayTaskEvent
  <2>2. CASE u = t
    <3>1. After(executions[r][u], e).status = StatusOf(e.type)
      <4> DEFINE x == executions[r][u]
      <4>0. x \in Execution
        BY <1>0
      <4>1. CASE e.type = "TaskAttemptMarkedUnknown"
        <5>1. After(x, e) = MarkedUnknown(x, AttemptOf(x, e)) /\ StatusOf(e.type) = "running"
          BY <4>1 DEF After, StatusOf
        <5>2. MarkedUnknown(x, AttemptOf(x, e)).status = "running"
          BY <4>0 DEF MarkedUnknown, Execution
        <5> QED
          BY <5>1, <5>2
      <4>2. CASE e.type # "TaskAttemptMarkedUnknown"
        BY <4>2 DEF After
      <4> QED
        BY <4>1, <4>2
    <3> QED
      BY <1>0, <2>1, <2>2, <3>1, EventTypes
  <2>3. CASE u # t
    <3>1. tasks'[t] = tasks[t]
      BY <1>0, <2>1, <2>3
    <3>2. \A q \in Run : executions'[q][t] = executions[q][t]
      BY <1>0, <2>1, <2>3
    <3> QED
      BY <3>1, <3>2 DEF ShownIInv
  <2> QED
    BY <2>2, <2>3
<1>2. ASSUME NEW r \in Run, NEW u \in TaskId, ReplayImport(r, u)
      PROVE  /\ tasks'[t].run \in Run
             /\ tasks'[t].status = executions'[tasks'[t].run][t].status
             /\ tasks'[t].status \in TaskStatus
  <2>1. /\ executions' = [executions EXCEPT ![r][u] = Imported(executions[r][u])]
        /\ tasks' = tasks
    BY <1>2 DEF ReplayImport
  <2>2. /\ tasks[t].run \in Run /\ tasks[t].status \in TaskStatus
        /\ tasks[t].status = executions[tasks[t].run][t].status
    BY <2>1 DEF ShownIInv
  <2>3. executions[tasks[t].run][t].status # "none"
    BY <2>2 DEF TaskStatus
  <2>4. executions'[tasks[t].run][t].status = executions[tasks[t].run][t].status
    <3>1. CASE tasks[t].run = r /\ u = t
      <4>1. executions'[r][t] = Imported(executions[r][t])
        BY <1>0, <2>1, <3>1
      <4> QED
        <5>1. executions[r][t] \in Execution /\ executions[r][t].status # "none"
          BY <1>0, <3>1, <2>3
        <5> QED
          BY <4>1, <3>1, <5>1 DEF Imported, Execution
    <3>2. CASE ~(tasks[t].run = r /\ u = t)
      BY <1>0, <2>1, <2>2, <3>2
    <3> QED
      BY <3>1, <3>2
  <2> QED
    BY <2>1, <2>2, <2>4
<1>3. CASE UNCHANGED <<executions, tasks>>
  BY <1>3 DEF ShownIInv
<1> QED
  BY <1>1, <1>2, <1>3 DEF LifecycleNext, ReplayRunEvent, ReplayRunSucceeded, lifecycleVars

\* The compatibility projection of a task agrees with the execution of the run it
\* names, whichever of several runs wrote it last.
THEOREM TasksShowTheirRuns == LifecycleSpec => []TaskShowsItsRun
<1>1. LifecycleInit => ShownIInv
  BY DEF LifecycleInit, ShownIInv, NoTask
<1>2. ShownIInv => TaskShowsItsRun
  BY DEF ShownIInv, TaskShowsItsRun
<1> QED
  BY <1>1, <1>2, NextShown, TasksInvariance, PTL DEF LifecycleSpec

=============================================================================
