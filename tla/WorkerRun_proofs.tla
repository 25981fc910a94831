-------------------------- MODULE WorkerRun_proofs --------------------------
(***************************************************************************)
(* Theorems of WorkerRun, for every task graph, concurrency and bound,     *)
(* whatever the sessions, saves, crashes, decisions and sweeps do.         *)
(*                                                                         *)
(* First: the journal and the executions implement AttemptEffects.  What   *)
(* the queue operators compute does not matter for that: the argument is   *)
(* about the leases, of which a step only ever gives up some, or takes the *)
(* one journal record that nobody has.  So a driver is typed with its      *)
(* queue left open.                                                        *)
(*                                                                         *)
(* Second: nothing says that an attempt succeeded before its receipt does. *)
(* For that the queue operators, the replay of the stream and the decision *)
(* matter: each is shown to make what the journal backs from what it       *)
(* backs, and a lease to be at the attempt its task has in the queue.      *)
(*                                                                         *)
(* Third: in the first session the store follows the events.  What the     *)
(* stream comes to with the buffer is one value, Base: every step leaves   *)
(* it, or takes it to what it comes to with the events of the queue.  The  *)
(* queue records its tasks: they are what Base says once its events are    *)
(* appended, with no identity taken twice.                                 *)
(***************************************************************************)
EXTENDS WorkerRun, RecursionLemmas, SequenceTheorems, TLAPS

\* d has the fields of a driver, and typed leases.
IsDriver(d) ==
    /\ d = [phase |-> d.phase, queue |-> d.queue, lease |-> d.lease,
            save |-> d.save, next |-> d.next,
            terminalized |-> d.terminalized, rejected |-> d.rejected]
    /\ d.lease \in [Task -> Lease]
    /\ \A t \in Task :
         d.lease[t].stage \in {"leased", "claimed", "executed"} =>
           d.lease[t].attempt \in Attempts

Typed ==
    /\ session \in Sessions
    /\ journal \in [Task -> [Attempts -> Effect]]
    /\ executed \in [Task -> [Attempts -> {0, 1}]]
    /\ driver = [s \in Sessions |-> driver[s]]
    /\ \A s \in Sessions : IsDriver(driver[s])

\* A claimed attempt has its record, and nobody has executed it ...
ClaimedOpen ==
    \A s \in Sessions, t \in Task : LET a == driver[s].lease[t].attempt IN
      driver[s].lease[t].stage = "claimed" =>
        executed[t][a] = 0 /\ journal[t][a] \in {"started", "unknown"}

\* ... or has claimed it too.
ClaimedOnce ==
    \A s, r \in Sessions, t \in Task :
      /\ driver[s].lease[t].stage = "claimed" /\ driver[r].lease[t].stage = "claimed"
      /\ driver[s].lease[t].attempt = driver[r].lease[t].attempt
      => s = r

ExecutedDone ==
    \A s \in Sessions, t \in Task :
      driver[s].lease[t].stage = "executed" =>
        executed[t][driver[s].lease[t].attempt] = 1

ExecutedHasRecord ==
    \A t \in Task, a \in Attempts : executed[t][a] = 1 => journal[t][a] # "none"

IInv == Typed /\ ClaimedOpen /\ ClaimedOnce /\ ExecutedDone /\ ExecutedHasRecord

\* x is d with some of its leases given up or, not claimed yet, taken.
Eased(x, d) ==
    /\ IsDriver(x)
    /\ \A t \in Task : \/ x.lease[t] = d.lease[t]
                       \/ x.lease[t].stage \in {"none", "allocating", "leased"}

\* The journal and the executions stay, or started effects become unknown.
Lost ==
    /\ executed' = executed
    /\ journal' \in [Task -> [Attempts -> Effect]]
    /\ \A t \in Task, a \in Attempts :
         \/ journal'[t][a] = journal[t][a]
         \/ journal[t][a] = "started" /\ journal'[t][a] = "unknown"

\* Or one attempt is claimed, or gets its receipt.
Moved ==
    \/ Lost
    \/ \E t \in Task, a \in Attempts :
         \/ Effects!Claim(t, a)
         \/ \E result \in {"succeeded", "failed"} : Effects!Receipt(t, a, result)

-----------------------------------------------------------------------------
\* What the operators that rebuild a driver do to its leases.

Fields(p, q, l, s, n, t, r) ==
    [phase |-> p, queue |-> q, lease |-> l, save |-> s, next |-> n,
     terminalized |-> t, rejected |-> r]

\* Leases of d, of which some are given up or not claimed yet.
Easier(l, d) ==
    /\ l \in [Task -> Lease]
    /\ \A t \in Task :
         /\ l[t] = d.lease[t] \/ l[t].stage \in {"none", "allocating", "leased"}
         /\ l[t].stage \in {"leased", "claimed", "executed"} => l[t].attempt \in Attempts

\* Whatever the other fields are, the leases say whether a driver is eased.
LEMMA FieldsEase ==
    ASSUME NEW d, NEW l, Easier(l, d),
           NEW p, NEW q, NEW s, NEW n, NEW b, NEW r
    PROVE  Eased(Fields(p, q, l, s, n, b, r), d)
BY DEF Eased, IsDriver, Fields, Easier

LEMMA DriverFields ==
    ASSUME NEW d, NEW e, Eased(d, e)
    PROVE  /\ d = Fields(d.phase, d.queue, d.lease, d.save, d.next,
                         d.terminalized, d.rejected)
           /\ Easier(d.lease, e)
BY DEF IsDriver, Fields, Eased, Easier

LEMMA SelfEase ==
    ASSUME NEW d, IsDriver(d)
    PROVE  Eased(d, d)
BY DEF Eased

LEMMA NoLeasesEase ==
    ASSUME NEW d
    PROVE  Easier(NoLeases, d)
BY DEF NoLeases, NoLease, Lease, Easier

LEMMA ReleaseEase ==
    ASSUME NEW d, NEW e, Eased(d, e), NEW t \in Task
    PROVE  Easier([d.lease EXCEPT ![t] = NoLease], e)
<1> DEFINE l == [d.lease EXCEPT ![t] = NoLease]
<1>1. Easier(d.lease, e)
  BY DriverFields
<1>2. l \in [Task -> Lease] /\ l[t] = NoLease /\ \A u \in Task \ {t} : l[u] = d.lease[u]
  BY <1>1 DEF NoLease, Lease, Easier
<1>3. NoLease.stage = "none"
  BY DEF NoLease
<1> HIDE DEF l
<1>4. Easier(l, e)
  BY <1>1, <1>2, <1>3 DEF Easier
<1> QED
  BY <1>4 DEF l

LEMMA ExceptFields ==
    ASSUME NEW p, NEW q, NEW l, NEW s, NEW n, NEW b, NEW r, NEW v
    PROVE  LET d == Fields(p, q, l, s, n, b, r) IN
           /\ [d EXCEPT !.phase = v] = Fields(v, q, l, s, n, b, r)
           /\ [d EXCEPT !.queue = v] = Fields(p, v, l, s, n, b, r)
           /\ [d EXCEPT !.lease = v] = Fields(p, q, v, s, n, b, r)
           /\ [d EXCEPT !.save = v] = Fields(p, q, l, v, n, b, r)
           /\ [d EXCEPT !.next = v] = Fields(p, q, l, s, v, b, r)
           /\ [d EXCEPT !.terminalized = v] = Fields(p, q, l, s, n, v, r)
           /\ [d EXCEPT !.rejected = v] = Fields(p, q, l, s, n, b, v)
BY DEF Fields

LEMMA RestEase ==
    ASSUME NEW d, NEW e, NEW s
    PROVE  /\ Eased(Rest(s, e), d)
           /\ Eased(NoDriver, d)
           /\ \A q : Eased(Driver(q), d)
<1>1. ASSUME NEW q PROVE Driver(q) = Fields("idle", q, NoLeases, "none", "none", FALSE, FALSE)
  BY DEF Driver, Fields
<1>2. ASSUME NEW q PROVE Eased(Driver(q), d)
  BY <1>1, NoLeasesEase, FieldsEase
<1>3. ASSUME NEW q, NEW b, NEW r
      PROVE  [Fields("idle", q, NoLeases, "none", "none", b, r) EXCEPT !.phase = "ended"]
               = Fields("ended", q, NoLeases, "none", "none", b, r)
  BY ExceptFields
<1>4. NoDriver = Fields("ended", Restored(NewRun), NoLeases, "none", "none", FALSE, FALSE)
  BY <1>1, <1>3, Zenon DEF NoDriver
<1>5. Eased(NoDriver, d)
  BY <1>4, NoLeasesEase, FieldsEase
<1> QED
  BY <1>2, <1>5 DEF Rest

\* Every way a step gives fields of a driver other values.
LEMMA UpdateEase ==
    ASSUME NEW d, NEW e, Eased(d, e), NEW v
    PROVE  /\ Eased([d EXCEPT !.phase = v], e)
           /\ Eased([d EXCEPT !.queue = v], e)
           /\ Eased([d EXCEPT !.queue.events = v], e)
           /\ Eased([d EXCEPT !.lease = NoLeases], e)
           /\ Eased([d EXCEPT !.save = v], e)
           /\ Eased([d EXCEPT !.next = v], e)
           /\ Eased([d EXCEPT !.terminalized = v], e)
           /\ Eased([d EXCEPT !.rejected = v], e)
<1>1. PICK p, q, l, s, n, b, r : d = Fields(p, q, l, s, n, b, r) /\ Easier(l, e)
  BY DriverFields
<1>2. Easier(NoLeases, e)
  BY NoLeasesEase
<1>3. /\ [d EXCEPT !.phase = v] = Fields(v, q, l, s, n, b, r)
      /\ [d EXCEPT !.queue = v] = Fields(p, v, l, s, n, b, r)
      /\ [d EXCEPT !.queue.events = v] = Fields(p, [q EXCEPT !.events = v], l, s, n, b, r)
  BY <1>1 DEF Fields
<1>4. /\ [d EXCEPT !.lease = NoLeases] = Fields(p, q, NoLeases, s, n, b, r)
      /\ [d EXCEPT !.save = v] = Fields(p, q, l, v, n, b, r)
      /\ [d EXCEPT !.next = v] = Fields(p, q, l, s, v, b, r)
  BY <1>1 DEF Fields
<1>5. /\ [d EXCEPT !.terminalized = v] = Fields(p, q, l, s, n, v, r)
      /\ [d EXCEPT !.rejected = v] = Fields(p, q, l, s, n, b, v)
  BY <1>1 DEF Fields
<1> QED
  BY <1>1, <1>2, <1>3, <1>4, <1>5, FieldsEase

LEMMA LeaseEase ==
    ASSUME NEW d, NEW e, Eased(d, e), NEW l, Easier(l, e)
    PROVE  Eased([d EXCEPT !.lease = l], e)
<1>1. PICK p, q, k, s, n, b, r : d = Fields(p, q, k, s, n, b, r)
  BY DriverFields
<1>2. [d EXCEPT !.lease = l] = Fields(p, q, l, s, n, b, r)
  BY <1>1 DEF Fields
<1> QED
  BY <1>2, FieldsEase

LEMMA QueueLeaseEase ==
    ASSUME NEW d, NEW e, Eased(d, e), NEW t \in Task, NEW q, NEW v,
           Easier([d.lease EXCEPT ![t] = v], e)
    PROVE  Eased([d EXCEPT !.queue = q, !.lease[t] = v], e)
<1> DEFINE x == [d EXCEPT !.queue = q]
           l == [d.lease EXCEPT ![t] = v]
<1>1. PICK p, o, k, s, n, b, r : d = Fields(p, o, k, s, n, b, r)
  BY DriverFields
<1>2. x = Fields(p, q, k, s, n, b, r) /\ d.lease = k
  BY <1>1 DEF Fields
<1>3. x.lease = d.lease
  BY <1>2 DEF Fields
<1>4. Eased(x, e)
  BY UpdateEase
<1>5. [d EXCEPT !.queue = q, !.lease[t] = v] = [x EXCEPT !.lease[t] = v]
  OBVIOUS
<1> HIDE DEF x
<1>6. [x EXCEPT !.lease[t] = v] = [x EXCEPT !.lease = [x.lease EXCEPT ![t] = v]]
  OBVIOUS
<1>7. [x EXCEPT !.lease[t] = v] = [x EXCEPT !.lease = l]
  BY <1>3, <1>6, Zenon
<1>8. Eased([x EXCEPT !.lease = l], e)
  BY <1>4, LeaseEase
<1> QED
  BY <1>5, <1>7, <1>8, Zenon

LEMMA UpdatesEase ==
    ASSUME NEW d, NEW e, Eased(d, e), NEW v, NEW w, NEW u
    PROVE  /\ Eased([d EXCEPT !.save = v, !.next = w, !.phase = u], e)
           /\ Eased([d EXCEPT !.save = v, !.next = w, !.queue.events = u], e)
           /\ Eased([d EXCEPT !.queue = v, !.terminalized = w], e)
           /\ Eased([d EXCEPT !.phase = v, !.lease = NoLeases, !.terminalized = w], e)
           /\ Eased(Saving(d, v, w), e)
<1>1. /\ Eased([d EXCEPT !.save = v], e)
      /\ Eased([d EXCEPT !.queue = v], e)
      /\ Eased([d EXCEPT !.phase = v], e)
      /\ Eased([d EXCEPT !.phase = "save"], e)
  BY UpdateEase
<1>2. /\ Eased([[d EXCEPT !.save = v] EXCEPT !.next = w], e)
      /\ Eased([[d EXCEPT !.phase = v] EXCEPT !.lease = NoLeases], e)
      /\ Eased([[d EXCEPT !.phase = "save"] EXCEPT !.save = w], e)
  BY <1>1, UpdateEase
<1>3. Eased([d EXCEPT !.save = v, !.next = w, !.phase = u], e)
  <2>1. [d EXCEPT !.save = v, !.next = w, !.phase = u]
          = [[[d EXCEPT !.save = v] EXCEPT !.next = w] EXCEPT !.phase = u]
    OBVIOUS
  <2> QED
    BY <1>2, <2>1, UpdateEase
<1>4. Eased([d EXCEPT !.save = v, !.next = w, !.queue.events = u], e)
  <2>1. [d EXCEPT !.save = v, !.next = w, !.queue.events = u]
          = [[[d EXCEPT !.save = v] EXCEPT !.next = w] EXCEPT !.queue.events = u]
    OBVIOUS
  <2> QED
    BY <1>2, <2>1, UpdateEase
<1>5. Eased([d EXCEPT !.queue = v, !.terminalized = w], e)
  <2>1. [d EXCEPT !.queue = v, !.terminalized = w]
          = [[d EXCEPT !.queue = v] EXCEPT !.terminalized = w]
    OBVIOUS
  <2> QED
    BY <1>1, <2>1, UpdateEase
<1>6. Eased([d EXCEPT !.phase = v, !.lease = NoLeases, !.terminalized = w], e)
  <2>1. [d EXCEPT !.phase = v, !.lease = NoLeases, !.terminalized = w]
          = [[[d EXCEPT !.phase = v] EXCEPT !.lease = NoLeases] EXCEPT !.terminalized = w]
    OBVIOUS
  <2> QED
    BY <1>2, <2>1, UpdateEase
<1>7. Eased(Saving(d, v, w), e)
  <2>1. ASSUME NEW x
        PROVE  [d EXCEPT !.phase = x, !.save = w, !.next = v]
                 = [[[d EXCEPT !.phase = x] EXCEPT !.save = w] EXCEPT !.next = v]
    OBVIOUS
  <2>2. Eased([[[d EXCEPT !.phase = "save"] EXCEPT !.save = w] EXCEPT !.next = v], e)
    BY <1>2, UpdateEase
  <2> QED
    BY <2>1, <2>2, Zenon DEF Saving
<1> QED
  BY <1>3, <1>4, <1>5, <1>6, <1>7

LEMMA ResumedEase ==
    ASSUME NEW d, NEW e, Eased(d, e), NEW s
    PROVE  Eased(Resumed(s, d), e)
<1> DEFINE done == [d EXCEPT !.save = "none", !.next = "none", !.queue.events = <<>>]
<1>1. Eased(done, e)
  BY UpdatesEase
<1>2. /\ Eased(Rest(s, done), e)
      /\ Eased([done EXCEPT !.phase = "work"], e)
      /\ Eased([done EXCEPT !.phase = "loop", !.lease = NoLeases,
                            !.terminalized = FALSE], e)
      /\ Eased([d EXCEPT !.save = "none", !.next = "none", !.phase = "admit"], e)
      /\ Eased(Saving(d, "admit", "file"), e)
  BY <1>1, UpdateEase, UpdatesEase, RestEase
<1> QED
  BY <1>2 DEF Resumed

LEMMA ReleasedEase ==
    ASSUME NEW d, NEW e, Eased(d, e), NEW t \in Task, NEW s, NEW status
    PROVE  /\ Eased(Released(d, t), e)
           /\ Eased(Marked(d, t, status), e)
           /\ Eased(Caught(s, d, t), e)
<1>1. PICK p, q, v, n, b, r : d = Fields(p, q, d.lease, v, n, b, r)
  BY DriverFields
<1>2. Released(d, t) = Fields(p, q, [d.lease EXCEPT ![t] = NoLease], v, n, b, r)
  BY <1>1 DEF Released, Fields
<1>3. Eased(Released(d, t), e)
  BY <1>2, ReleaseEase, FieldsEase
<1>4. ASSUME NEW x PROVE Eased(Marked(d, t, x), e)
  BY <1>3, UpdatesEase DEF Marked
<1>5. Eased([Released(d, t) EXCEPT !.rejected = TRUE], e)
  BY <1>3, UpdateEase
<1> QED
  BY <1>3, <1>4, <1>5 DEF Caught

LEMMA TransitionEase ==
    ASSUME NEW d, NEW e, Eased(d, e), NEW s, NEW next, Transition(s, d, next)
    PROVE  \E x : Eased(x, e) /\ Set(s, x)
<1>1. /\ Eased(NoDriver, e)
      /\ Eased(Resumed(s, [d EXCEPT !.next = next]), e)
      /\ Eased(Saving(d, next, "file"), e)
  BY UpdateEase, UpdatesEase, ResumedEase, RestEase
<1>2. \/ Set(s, NoDriver)
      \/ Set(s, Resumed(s, [d EXCEPT !.next = next]))
      \/ Set(s, Saving(d, next, "file"))
  BY DEF Transition
<1> QED
  BY <1>1, <1>2

-----------------------------------------------------------------------------
\* Steps that only ease a driver keep the invariant.

QuietStep ==
    /\ session' \in Sessions
    /\ Moved
    /\ \/ driver' = driver
       \/ \E s \in Sessions : \E x : Eased(x, driver[s]) /\ Set(s, x)
       \/ driver' = [s \in Sessions |-> NoDriver]

LEMMA SetDriver ==
    ASSUME Typed, NEW s \in Sessions, NEW x, Set(s, x)
    PROVE  /\ driver'[s] = x
           /\ \A r \in Sessions \ {s} : driver'[r] = driver[r]
           /\ driver' = [r \in Sessions |-> driver'[r]]
BY DEF Typed, Set

LEMMA QuietDrivers ==
    ASSUME Typed, QuietStep
    PROVE  /\ driver' = [r \in Sessions |-> driver'[r]]
           /\ \A r \in Sessions : Eased(driver'[r], driver[r])
<1>1. \A r \in Sessions : Eased(driver[r], driver[r])
  BY SelfEase DEF Typed
<1>2. CASE driver' = driver
  BY <1>1, <1>2 DEF Typed
<1>3. ASSUME NEW s \in Sessions, NEW x, Eased(x, driver[s]), Set(s, x)
      PROVE  /\ driver' = [r \in Sessions |-> driver'[r]]
             /\ \A r \in Sessions : Eased(driver'[r], driver[r])
  BY <1>1, <1>3, SetDriver
<1>4. CASE driver' = [s \in Sessions |-> NoDriver]
  BY <1>4, RestEase
<1> QED
  BY <1>2, <1>3, <1>4 DEF QuietStep

LEMMA MovedTo ==
    ASSUME Typed, Moved
    PROVE  /\ executed' = executed
           /\ journal' \in [Task -> [Attempts -> Effect]]
           /\ \A t \in Task, a \in Attempts :
                \/ journal'[t][a] = journal[t][a]
                \/ journal[t][a] = "none" /\ journal'[t][a] # "none"
                \/ journal[t][a] = "started" /\ journal'[t][a] = "unknown"
                \/ executed[t][a] = 1 /\ journal'[t][a] # "none"
<1>1. CASE Lost
  BY <1>1 DEF Lost
<1>2. ASSUME NEW t \in Task, NEW a \in Attempts, NEW v \in Effect \ {"none"},
             executed' = executed, journal' = [journal EXCEPT ![t][a] = v],
             journal[t][a] = "none" \/ executed[t][a] = 1
      PROVE  /\ journal' \in [Task -> [Attempts -> Effect]]
             /\ \A u \in Task, c \in Attempts :
                \/ journal'[u][c] = journal[u][c]
                \/ journal[u][c] = "none" /\ journal'[u][c] # "none"
                \/ executed[u][c] = 1 /\ journal'[u][c] # "none"
  BY <1>2 DEF Typed
<1>3. ASSUME NEW t \in Task, NEW a \in Attempts,
             \/ Effects!Claim(t, a)
             \/ \E result \in {"succeeded", "failed"} : Effects!Receipt(t, a, result)
      PROVE  \E v \in Effect \ {"none"} :
               /\ executed' = executed
               /\ journal' = [journal EXCEPT ![t][a] = v]
               /\ journal[t][a] = "none" \/ executed[t][a] = 1
  BY <1>3 DEF Effects!Claim, Effects!Receipt, Effect
<1> QED
  BY <1>1, <1>2, <1>3 DEF Moved

LEMMA QuietKeeps ==
    ASSUME IInv, QuietStep
    PROVE  IInv'
<1>0. /\ Typed /\ ClaimedOpen /\ ClaimedOnce /\ ExecutedDone /\ ExecutedHasRecord
      /\ session' \in Sessions
      /\ executed' = executed
      /\ journal' \in [Task -> [Attempts -> Effect]]
      /\ \A t \in Task, a \in Attempts :
                \/ journal'[t][a] = journal[t][a]
                \/ journal[t][a] = "none" /\ journal'[t][a] # "none"
                \/ journal[t][a] = "started" /\ journal'[t][a] = "unknown"
                \/ executed[t][a] = 1 /\ journal'[t][a] # "none"
  BY MovedTo DEF IInv, QuietStep
<1>1. /\ driver' = [r \in Sessions |-> driver'[r]]
      /\ \A r \in Sessions : Eased(driver'[r], driver[r])
  BY <1>0, QuietDrivers
<1>2. Typed'
  BY <1>0, <1>1 DEF Typed, Eased
<1>3. \A r \in Sessions, t \in Task :
        /\ driver'[r].lease[t].stage = "claimed" => driver'[r].lease[t] = driver[r].lease[t]
        /\ driver'[r].lease[t].stage = "executed" => driver'[r].lease[t] = driver[r].lease[t]
        /\ driver'[r].lease[t].stage \in {"claimed", "executed"} =>
             driver'[r].lease[t].attempt \in Attempts
  BY <1>1 DEF Eased, IsDriver
<1>4. ClaimedOpen'
  <2> SUFFICES ASSUME NEW s \in Sessions, NEW t \in Task,
                      driver'[s].lease[t].stage = "claimed"
               PROVE  /\ executed'[t][driver'[s].lease[t].attempt] = 0
                      /\ journal'[t][driver'[s].lease[t].attempt] \in {"started", "unknown"}
    BY DEF ClaimedOpen
  <2> DEFINE a == driver'[s].lease[t].attempt
  <2>1. /\ a \in Attempts /\ executed[t][a] = 0
        /\ journal[t][a] \in {"started", "unknown"}
    BY <1>0, <1>3 DEF ClaimedOpen
  <2> QED
    BY <1>0, <2>1
<1>5. ClaimedOnce'
  <2> SUFFICES ASSUME NEW s \in Sessions, NEW r \in Sessions, NEW t \in Task,
                      driver'[s].lease[t].stage = "claimed",
                      driver'[r].lease[t].stage = "claimed",
                      driver'[s].lease[t].attempt = driver'[r].lease[t].attempt
               PROVE  s = r
    BY DEF ClaimedOnce
  <2>1. /\ driver'[s].lease[t] = driver[s].lease[t]
        /\ driver'[r].lease[t] = driver[r].lease[t]
    BY <1>3
  <2> QED
    BY <1>0, <2>1 DEF ClaimedOnce
<1>6. ExecutedDone'
  BY <1>0, <1>3 DEF ExecutedDone
<1>7. ExecutedHasRecord'
  BY <1>0 DEF ExecutedHasRecord
<1> QED
  BY <1>2, <1>4, <1>5, <1>6, <1>7 DEF IInv

LEMMA QuietSet ==
    ASSUME IInv, NEW s \in Sessions, NEW x, Eased(x, driver[s]), Set(s, x), Moved,
           session' = session
    PROVE  QuietStep
BY DEF QuietStep, IInv, Typed

LEMMA UnchangedMoved ==
    ASSUME IInv, UNCHANGED <<journal, executed>>
    PROVE  Moved
BY DEF IInv, Typed, Moved, Lost

-----------------------------------------------------------------------------
\* The steps that ease a driver: all but the claims, the executions and the
\* receipts.

LEMMA SaveQuiet ==
    ASSUME IInv, NEW s \in Sessions,
           \/ SaveFile(s) \/ SaveFlush(s) \/ SaveFails(s)
           \/ LateFlush(s) \/ LateFile(s) \/ LateSaveFails(s)
    PROVE  QuietStep
<1>0. Typed /\ Eased(driver[s], driver[s])
  BY SelfEase DEF IInv, Typed
<1>1. /\ Eased([driver[s] EXCEPT !.save = "flush"], driver[s])
      /\ Eased(Resumed(s, driver[s]), driver[s])
      /\ Eased(Rest(s, driver[s]), driver[s])
      /\ Eased(NoDriver, driver[s])
      /\ Eased(Saving(driver[s], "settled", "late-file"), driver[s])
  BY <1>0, UpdateEase, UpdatesEase, ResumedEase, RestEase
<1>2. /\ \/ Set(s, [driver[s] EXCEPT !.save = "flush"])
         \/ Set(s, Resumed(s, driver[s]))
         \/ Set(s, Rest(s, driver[s]))
         \/ Set(s, NoDriver)
         \/ Set(s, Saving(driver[s], "settled", "late-file"))
      /\ UNCHANGED <<journal, executed, session>>
  BY DEF SaveFile, SaveFlush, SaveFails, LateFlush, LateFile, LateSaveFails, host
<1> QED
  BY <1>0, <1>1, <1>2, QuietSet, UnchangedMoved

LEMMA LoopQuiet ==
    ASSUME IInv, NEW s \in Sessions,
           Admit(s) \/ Loop(s) \/ Batched(s) \/ Settled(s)
    PROVE  QuietStep
<1>0. Typed /\ Eased(driver[s], driver[s])
  BY SelfEase DEF IInv, Typed
<1>1. ASSUME NEW x, Eased(x, driver[s]), Set(s, x),
             UNCHANGED <<journal, executed, session>>
      PROVE  QuietStep
  BY <1>0, <1>1, QuietSet, UnchangedMoved
<1>2. CASE Admit(s)
  <2>1. /\ Eased([driver[s] EXCEPT !.phase = "loop"], driver[s])
        /\ Eased(Rest(s, driver[s]), driver[s])
    BY <1>0, UpdateEase, RestEase
  <2> QED
    BY <1>1, <1>2, <2>1 DEF Admit, host
<1>3. CASE Loop(s)
  <2> DEFINE q == Reconciled(driver[s].queue)
             d == [driver[s] EXCEPT !.queue = q]
             batch == SubSeq(Runnable(q), 1, Min({Concurrency, Len(Runnable(q))}))
             l == [t \in Task |-> IF t \in ToSet(batch)
                                  THEN [NoLease EXCEPT !.stage = "allocating"]
                                  ELSE NoLease]
  <2>0. /\ \/ Set(s, NoDriver)
           \/ Set(s, [d EXCEPT !.phase = "claim", !.lease = l])
           \/ Transition(s, d, "return")
        /\ UNCHANGED <<journal, executed, session>>
    BY <1>3 DEF Loop, host
  <2>1. Eased(d, driver[s])
    BY <1>0, UpdateEase
  <2>2. Easier(l, driver[s])
    BY DEF Easier, NoLease, Lease
  <2> HIDE DEF l, d, q, batch
  <2>3. Eased([d EXCEPT !.phase = "claim"], driver[s])
    BY <2>1, UpdateEase
  <2>4. ASSUME NEW x
        PROVE  [d EXCEPT !.phase = x, !.lease = l] = [[d EXCEPT !.phase = x] EXCEPT !.lease = l]
    OBVIOUS
  <2>5. Eased([[d EXCEPT !.phase = "claim"] EXCEPT !.lease = l], driver[s])
    BY <2>2, <2>3, LeaseEase
  <2>7. Eased([d EXCEPT !.phase = "claim", !.lease = l], driver[s])
    BY <2>4, <2>5, Zenon
  <2>8. Eased(NoDriver, driver[s])
    BY RestEase
  <2> QED
    BY <1>1, <2>0, <2>1, <2>7, <2>8, TransitionEase
<1>4. CASE Batched(s)
  <2>1. /\ Set(s, NoDriver) \/ Transition(s, driver[s], "work")
        /\ UNCHANGED <<journal, executed, session>>
    BY <1>4 DEF Batched, host
  <2> QED
    BY <1>0, <1>1, <2>1, RestEase, TransitionEase
<1>5. CASE Settled(s)
  <2>1. Transition(s, driver[s], "settled") /\ UNCHANGED <<journal, executed, session>>
    BY <1>5 DEF Settled, host
  <2> QED
    BY <1>0, <1>1, <2>1, TransitionEase
<1> QED
  BY <1>2, <1>3, <1>4, <1>5

LEMMA ClaimQuiet ==
    ASSUME IInv, NEW s \in Sessions, NEW t \in Task, Claim(s, t)
    PROVE  QuietStep
<1> DEFINE d == driver[s]
           a == NextAttempt(d.queue, t)
           lease == [stage |-> "leased", attempt |-> a]
           l == [d.lease EXCEPT ![t] = lease]
<1>0. Typed /\ Eased(d, d) /\ Easier(d.lease, d)
  BY SelfEase, DriverFields DEF IInv, Typed
<1>1. /\ a \in Attempts
      /\ \/ Set(s, [d EXCEPT !.queue = Claimed(@, t), !.lease[t] = lease])
         \/ Set(s, [d EXCEPT !.queue = ClaimFailed(@, t), !.lease[t] = NoLease])
      /\ UNCHANGED <<journal, executed, session>>
  BY DEF Claim, host
<1>2. lease \in Lease
  BY <1>1 DEF Lease
<1>3. l \in [Task -> Lease] /\ l[t] = lease /\ \A u \in Task \ {t} : l[u] = d.lease[u]
  BY <1>0, <1>2 DEF Easier
<1>4. lease.stage = "leased" /\ lease.attempt \in Attempts
  BY <1>1
<1> HIDE DEF lease, l, d
<1>5. Easier(l, d)
  BY <1>0, <1>3, <1>4 DEF Easier
<1>6. Easier([d.lease EXCEPT ![t] = NoLease], d)
  BY <1>0, ReleaseEase
<1>7. ASSUME NEW x, NEW y PROVE [d EXCEPT !.queue = Claimed(@, x), !.lease[t] = y]
                                  = [d EXCEPT !.queue = Claimed(d.queue, x), !.lease[t] = y]
  OBVIOUS
<1>8. ASSUME NEW x, NEW y PROVE [d EXCEPT !.queue = ClaimFailed(@, x), !.lease[t] = y]
                                  = [d EXCEPT !.queue = ClaimFailed(d.queue, x), !.lease[t] = y]
  OBVIOUS
<1>9. /\ Eased([d EXCEPT !.queue = Claimed(d.queue, t), !.lease[t] = lease], d)
      /\ Eased([d EXCEPT !.queue = ClaimFailed(d.queue, t), !.lease[t] = NoLease], d)
  BY <1>0, <1>5, <1>6, QueueLeaseEase DEF l
<1> QED
  BY <1>0, <1>1, <1>7, <1>8, <1>9, QuietSet, UnchangedMoved, Zenon DEF d

\* The attempt of a lease past the stage "allocating", and what is written of it.
LEMMA RecordMoved ==
    ASSUME IInv, NEW s \in Sessions, NEW t \in Task, NEW v,
           driver[s].lease[t].stage \in {"leased", "claimed", "executed"},
           WriteRecord(s, t, v), executed' = executed,
           \/ EffectOn(s, t) = "none" /\ v = "started"
           \/ EffectOn(s, t) = "started" /\ v = "unknown"
           \/ /\ EffectOn(s, t) = "started" /\ v \in {"succeeded", "failed"}
              /\ driver[s].lease[t].stage = "executed"
    PROVE  Moved
<1> DEFINE a == driver[s].lease[t].attempt
<1>1. /\ Typed /\ a \in Attempts
      /\ driver[s].lease[t].stage = "executed" => executed[t][a] = 1
      /\ journal' = [journal EXCEPT ![t][a] = v]
      /\ EffectOn(s, t) = journal[t][a]
  BY DEF IInv, Typed, IsDriver, ExecutedDone, WriteRecord, EffectOn, AttemptOn
<1>2. CASE EffectOn(s, t) = "none" /\ v = "started"
  BY <1>1, <1>2 DEF Moved, Effects!Claim
<1>3. CASE EffectOn(s, t) = "started" /\ v = "unknown"
  BY <1>1, <1>3 DEF Moved, Lost, Typed, Effect
<1>4. CASE /\ EffectOn(s, t) = "started" /\ v \in {"succeeded", "failed"}
           /\ driver[s].lease[t].stage = "executed"
  BY <1>1, <1>4 DEF Moved, Effects!Receipt
<1> QED
  BY <1>2, <1>3, <1>4

LEMMA LeaseQuiet ==
    ASSUME IInv, NEW s \in Sessions, NEW t \in Task,
           \/ LeaseNotClaimed(s, t) \/ LeaseWait(s, t) \/ LeaseThrows(s, t)
           \/ \E result \in {"succeeded", "failed"} :
                LeaseComplete(s, t, result) \/ LeaseCompleteFails(s, t, result)
    PROVE  QuietStep
<1> DEFINE d == driver[s]
<1>0. Eased(d, d)
  BY SelfEase DEF IInv, Typed
<1>1. /\ Eased(Released(d, t), d)
      /\ Eased(Caught(s, d, t), d)
      /\ \A v : Eased(Marked(d, t, v), d)
  BY <1>0, ReleasedEase
<1>2. Eased([Released(d, t) EXCEPT !.queue = Parked(@, t), !.terminalized = TRUE], d)
  <2>1. [Released(d, t) EXCEPT !.queue = Parked(@, t), !.terminalized = TRUE]
          = [Released(d, t) EXCEPT !.queue = Parked(Released(d, t).queue, t),
                                   !.terminalized = TRUE]
    OBVIOUS
  <2> QED
    BY <1>1, <2>1, UpdatesEase
<1>3. /\ \/ Set(s, Released(d, t)) \/ Set(s, Caught(s, d, t))
         \/ \E v : Set(s, Marked(d, t, v))
         \/ Set(s, [Released(d, t) EXCEPT !.queue = Parked(@, t), !.terminalized = TRUE])
      /\ session' = session /\ executed' = executed
  BY DEF LeaseNotClaimed, LeaseWait, LeaseThrows, LeaseComplete, LeaseCompleteFails, host
<1>4. Moved
  <2>1. CASE LeaseNotClaimed(s, t)
    BY <1>3, <2>1, RecordMoved, UnchangedMoved DEF LeaseNotClaimed, Leased
  <2>2. CASE LeaseWait(s, t)
    BY <1>3, <2>2, RecordMoved, UnchangedMoved DEF LeaseWait, Leased, Advance
  <2>3. CASE LeaseThrows(s, t)
    BY <1>3, <2>3, RecordMoved, UnchangedMoved DEF LeaseThrows, Leased, Advance
  <2>4. ASSUME NEW result \in {"succeeded", "failed"},
               LeaseComplete(s, t, result) \/ LeaseCompleteFails(s, t, result)
        PROVE  Moved
    BY <1>3, <2>4, RecordMoved, UnchangedMoved DEF LeaseComplete, LeaseCompleteFails, Leased
  <2> QED
    BY <2>1, <2>2, <2>3, <2>4
<1> HIDE DEF d
<1> QED
  BY <1>1, <1>2, <1>3, <1>4, QuietSet DEF d

LEMMA UserQuiet ==
    ASSUME IInv, StartRun \/ UserSave \/ UserFlush \/ Sweep \/ Recover
    PROVE  QuietStep
<1>0. /\ session \in Sessions /\ Eased(driver[session], driver[session])
  BY SelfEase DEF IInv, Typed
<1>1. CASE StartRun
  <2>1. /\ Set(session, Saving(driver[session], "admit", "file"))
        /\ UNCHANGED <<journal, executed, session>>
    BY <1>1 DEF StartRun, host
  <2> QED
    BY <1>0, <2>1, UpdatesEase, QuietSet, UnchangedMoved
<1>2. CASE UserSave \/ UserFlush
  <2>1. UNCHANGED <<journal, executed, session, driver>>
    BY <1>2 DEF UserSave, UserFlush, host
  <2> QED
    BY <1>0, <2>1, UnchangedMoved DEF QuietStep
<1>3. ASSUME journal' = Swept, executed' = executed PROVE Moved
  BY <1>3 DEF IInv, Typed, Swept, Moved, Lost, Effect
<1>4. CASE Sweep
  BY <1>0, <1>3, <1>4 DEF Sweep, QuietStep
<1>5. CASE Recover
  <2>1. /\ Set(session, [driver[session] EXCEPT !.phase = "decide"])
        /\ journal' = Swept /\ executed' = executed /\ session' = session
    BY <1>5 DEF Recover, host
  <2> QED
    BY <1>0, <1>3, <2>1, UpdateEase, QuietSet
<1> QED
  BY <1>1, <1>2, <1>4, <1>5

LEMMA DecideQuiet ==
    ASSUME IInv, NEW s \in Sessions, NEW decision, Decide(s, decision)
    PROVE  QuietStep
<1> DEFINE decided == Decided(app, decision)
<1>1. /\ Eased(Driver(Restored(decided)), driver[s])
      /\ Eased(Rest(s, driver[s]), driver[s])
  BY RestEase
<1>2. \A next : Eased(Saving(Driver(Restored(decided)), next, "file"), driver[s])
  BY <1>1, UpdatesEase
<1>3. /\ \/ \E next : Set(s, Saving(Driver(Restored(decided)), next, "file"))
         \/ Set(s, Rest(s, driver[s]))
      /\ UNCHANGED <<journal, executed, session>>
  BY DEF Decide
<1> HIDE DEF decided
<1> QED
  BY <1>1, <1>2, <1>3, QuietSet, UnchangedMoved

LEMMA SessionQuiet ==
    ASSUME IInv, Close \/ RunCrash \/ CrashClosed \/ Open
    PROVE  QuietStep
<1>0. /\ session \in Sessions /\ Eased(driver[session], driver[session])
  BY SelfEase DEF IInv, Typed
<1>1. CASE Close
  <2>1. /\ \/ Set(session, NoDriver) \/ Set(session, driver[session])
        /\ UNCHANGED <<journal, executed, session>>
    BY <1>1 DEF Close, Closed
  <2> QED
    BY <1>0, <2>1, RestEase, QuietSet, UnchangedMoved
<1>2. CASE RunCrash \/ CrashClosed
  <2>1. /\ driver' = [s \in Sessions |-> NoDriver]
        /\ UNCHANGED <<journal, executed, session>>
    BY <1>2 DEF RunCrash, Closed, CrashClosed, host
  <2> QED
    BY <1>0, <2>1, UnchangedMoved DEF QuietStep
<1>3. CASE Open
  <2> DEFINE run == ReconciledRun(file, stream)
             reason == Refusal(run, Consistent(run, stream))
             queue == Restored(IF reason = "none" THEN run ELSE NewRun)
  <2>1. /\ session < MaxSessions /\ session' = session + 1
        /\ Set(session + 1, Driver(queue))
        /\ UNCHANGED <<journal, executed>>
    BY <1>3 DEF Open
  <2> HIDE DEF queue
  <2>2. session + 1 \in Sessions
    BY <1>0, <2>1, BoundsAssumption DEF Sessions
  <2>3. Eased(Driver(queue), driver[session + 1])
    BY RestEase
  <2> QED
    BY <2>1, <2>2, <2>3, UnchangedMoved DEF QuietStep
<1> QED
  BY <1>1, <1>2, <1>3

-----------------------------------------------------------------------------
\* The claim that gets the record, and the execution of a claimed attempt.

\* x is d with the lease of t at another stage.
Staged(x, d, t, stage) ==
    /\ IsDriver(x)
    /\ x.lease[t].stage = stage /\ x.lease[t].attempt = d.lease[t].attempt
    /\ \A u \in Task \ {t} : x.lease[u] = d.lease[u]

LEMMA SetStage ==
    ASSUME NEW d, IsDriver(d), NEW t \in Task, NEW stage \in {"claimed", "executed"},
           d.lease[t].stage \in {"leased", "claimed"}
    PROVE  Staged([d EXCEPT !.lease[t].stage = stage], d, t, stage)
<1> DEFINE l == [d.lease EXCEPT ![t].stage = stage]
<1>1. PICK p, q, k, v, n, b, r : d = Fields(p, q, k, v, n, b, r) /\ d.lease = k
  BY DEF IsDriver, Fields
<1>2. [d EXCEPT !.lease[t].stage = stage] = Fields(p, q, l, v, n, b, r)
  BY <1>1 DEF Fields
<1>3. d.lease \in [Task -> Lease] /\ d.lease[t].attempt \in Attempts
  BY DEF IsDriver
<1>4. /\ l \in [Task -> Lease]
      /\ l[t].stage = stage /\ l[t].attempt = d.lease[t].attempt
      /\ \A u \in Task \ {t} : l[u] = d.lease[u]
  BY <1>3 DEF Lease
<1> HIDE DEF l
<1>5. \A u \in Task : l[u].stage \in {"leased", "claimed", "executed"} =>
                          l[u].attempt \in Attempts
  BY <1>3, <1>4 DEF IsDriver
<1> QED
  BY <1>2, <1>4, <1>5 DEF Staged, IsDriver, Fields

LEMMA ClaimKeeps ==
    ASSUME IInv, NEW s \in Sessions, NEW t \in Task, LeaseClaim(s, t)
    PROVE  IInv' /\ Moved
<1> DEFINE d == driver[s]
           a == d.lease[t].attempt
           x == [d EXCEPT !.lease[t].stage = "claimed"]
<1>0. /\ Typed /\ ClaimedOpen /\ ClaimedOnce /\ ExecutedDone /\ ExecutedHasRecord
      /\ IsDriver(d) /\ Eased(d, d)
      /\ d.lease[t].stage = "leased" /\ a \in Attempts
      /\ UNCHANGED <<executed, session>>
      /\ EffectOn(s, t) = journal[t][a]
  BY SelfEase DEF IInv, Typed, IsDriver, LeaseClaim, Leased, host, EffectOn, AttemptOn
<1>1. \/ \E y : UNCHANGED journal /\ Set(s, y) /\ Eased(y, d)
      \/ journal[t][a] = "none" /\ WriteRecord(s, t, "started") /\ Set(s, x)
  <2>1. /\ Eased(Released(d, t), d)
        /\ \A v : Eased(Marked(d, t, v), d)
    BY <1>0, ReleasedEase
  <2> QED
    BY <1>0, <2>1 DEF LeaseClaim
<1>2. ASSUME NEW y, UNCHANGED journal, Set(s, y), Eased(y, d)
      PROVE  IInv' /\ Moved
  BY <1>0, <1>2, QuietSet, QuietKeeps, UnchangedMoved
<1>3. ASSUME journal[t][a] = "none", WriteRecord(s, t, "started"), Set(s, x)
      PROVE  IInv' /\ Moved
  <2>1. Moved
    BY <1>0, <1>3, RecordMoved
  <2>2. Staged(x, d, t, "claimed")
    BY <1>0, SetStage
  <2> HIDE DEF x
  <2>3. /\ driver'[s] = x
        /\ \A r \in Sessions \ {s} : driver'[r] = driver[r]
        /\ driver' = [r \in Sessions |-> driver'[r]]
    BY <1>0, <1>3, SetDriver
  <2>4. /\ journal' \in [Task -> [Attempts -> Effect]]
        /\ journal'[t][a] = "started"
        /\ \A u \in Task, c \in Attempts :
              u # t \/ c # a => journal'[u][c] = journal[u][c]
    BY <1>0, <1>3 DEF Typed, WriteRecord, AttemptOn, Effect
  <2>5. Typed'
    BY <1>0, <2>2, <2>3, <2>4 DEF Typed, Staged
  <2>6. executed[t][a] = 0
    BY <1>0, <1>3 DEF Typed, ExecutedHasRecord
  <2>7. \A r \in Sessions : driver[r].lease[t].stage = "claimed" =>
                                driver[r].lease[t].attempt # a
    BY <1>0, <1>3 DEF ClaimedOpen
  <2>8. \A r \in Sessions, u \in Task :
          \/ driver'[r].lease[u] = driver[r].lease[u]
          \/ /\ r = s /\ u = t /\ driver'[r].lease[u].stage = "claimed"
             /\ driver'[r].lease[u].attempt = a
    BY <2>2, <2>3 DEF Staged
  <2>9. \A r \in Sessions, u \in Task :
          driver[r].lease[u].stage \in {"claimed", "executed"} =>
            driver[r].lease[u].attempt \in Attempts
    BY <1>0 DEF Typed, IsDriver
  <2>10. ClaimedOpen'
    BY <1>0, <2>4, <2>6, <2>8, <2>9 DEF ClaimedOpen
  <2>11. ClaimedOnce'
    <3> SUFFICES ASSUME NEW r \in Sessions, NEW q \in Sessions, NEW u \in Task,
                        driver'[r].lease[u].stage = "claimed",
                        driver'[q].lease[u].stage = "claimed",
                        driver'[r].lease[u].attempt = driver'[q].lease[u].attempt
                 PROVE  r = q
      BY DEF ClaimedOnce
    <3>1. CASE driver'[r].lease[u] = driver[r].lease[u] /\ driver'[q].lease[u] = driver[q].lease[u]
      BY <1>0, <3>1 DEF ClaimedOnce
    <3>2. CASE driver'[r].lease[u] # driver[r].lease[u]
      <4>1. r = s /\ u = t /\ driver'[r].lease[u].attempt = a
        BY <2>8, <3>2
      <4>2. CASE driver'[q].lease[u] = driver[q].lease[u]
        BY <2>7, <4>1, <4>2
      <4> QED
        BY <2>8, <4>1, <4>2
    <3>3. CASE driver'[q].lease[u] # driver[q].lease[u]
      <4>1. q = s /\ u = t /\ driver'[q].lease[u].attempt = a
        BY <2>8, <3>3
      <4>2. CASE driver'[r].lease[u] = driver[r].lease[u]
        BY <2>7, <4>1, <4>2
      <4> QED
        BY <2>8, <4>1, <4>2
    <3> QED
      BY <3>1, <3>2, <3>3
  <2>12. ExecutedDone'
    BY <1>0, <2>8 DEF ExecutedDone
  <2>13. ExecutedHasRecord'
    BY <1>0, <2>4 DEF ExecutedHasRecord
  <2> QED
    BY <2>1, <2>5, <2>10, <2>11, <2>12, <2>13 DEF IInv
<1> QED
  BY <1>1, <1>2, <1>3

LEMMA ExecuteKeeps ==
    ASSUME IInv, NEW s \in Sessions, NEW t \in Task, LeaseExecute(s, t)
    PROVE  IInv' /\ \E a \in Attempts : Effects!Execute(t, a)
<1> DEFINE d == driver[s]
           a == d.lease[t].attempt
           x == [d EXCEPT !.lease[t].stage = "executed"]
<1>0. /\ Typed /\ ClaimedOpen /\ ClaimedOnce /\ ExecutedDone /\ ExecutedHasRecord
      /\ IsDriver(d)
      /\ d.lease[t].stage = "claimed" /\ a \in Attempts
      /\ UNCHANGED <<journal, session>>
      /\ executed' = [executed EXCEPT ![t][a] = @ + 1]
      /\ Set(s, x)
  BY DEF IInv, Typed, IsDriver, LeaseExecute, Leased, host, AttemptOn
<1>1. Staged(x, d, t, "executed")
  BY <1>0, SetStage
<1> HIDE DEF x
<1>2. /\ driver'[s] = x
      /\ \A r \in Sessions \ {s} : driver'[r] = driver[r]
      /\ driver' = [r \in Sessions |-> driver'[r]]
  BY <1>0, SetDriver
<1>3. executed[t][a] = 0 /\ journal[t][a] \in {"started", "unknown"}
  BY <1>0 DEF ClaimedOpen
<1>4. /\ executed' = [executed EXCEPT ![t][a] = 1]
      /\ executed' \in [Task -> [Attempts -> {0, 1}]]
      /\ executed'[t][a] = 1
      /\ \A u \in Task, c \in Attempts :
            u # t \/ c # a => executed'[u][c] = executed[u][c]
  BY <1>0, <1>3 DEF Typed
<1>5. Effects!Execute(t, a)
  BY <1>0, <1>3, <1>4 DEF Effects!Execute
<1>6. Typed'
  BY <1>0, <1>1, <1>2, <1>4 DEF Typed, Staged
<1>7. \A r \in Sessions, u \in Task :
        \/ driver'[r].lease[u] = driver[r].lease[u]
        \/ /\ r = s /\ u = t /\ driver'[r].lease[u].stage = "executed"
           /\ driver'[r].lease[u].attempt = a
  BY <1>1, <1>2 DEF Staged
<1>8. \A r \in Sessions, u \in Task :
        driver[r].lease[u].stage \in {"claimed", "executed"} =>
          driver[r].lease[u].attempt \in Attempts
  BY <1>0 DEF Typed, IsDriver
<1>9. driver'[s].lease[t].stage = "executed"
  BY <1>1, <1>2 DEF Staged
<1>10. \A r \in Sessions, u \in Task :
         driver'[r].lease[u].stage = "claimed" =>
           /\ driver'[r].lease[u] = driver[r].lease[u]
           /\ u # t \/ driver[r].lease[u].attempt # a
  <2> SUFFICES ASSUME NEW r \in Sessions, NEW u \in Task,
                      driver'[r].lease[u].stage = "claimed"
               PROVE  /\ driver'[r].lease[u] = driver[r].lease[u]
                      /\ u # t \/ driver[r].lease[u].attempt # a
    OBVIOUS
  <2>1. driver'[r].lease[u] = driver[r].lease[u] /\ (r # s \/ u # t)
    BY <1>7, <1>9
  <2>2. ASSUME u = t, driver[r].lease[u].attempt = a PROVE FALSE
    BY <1>0, <2>1, <2>2 DEF ClaimedOnce
  <2> QED
    BY <2>1, <2>2
<1>11. ClaimedOpen'
  BY <1>0, <1>4, <1>8, <1>10 DEF ClaimedOpen
<1>12. ClaimedOnce'
  <2> SUFFICES ASSUME NEW r \in Sessions, NEW q \in Sessions, NEW u \in Task,
                      driver'[r].lease[u].stage = "claimed",
                      driver'[q].lease[u].stage = "claimed",
                      driver'[r].lease[u].attempt = driver'[q].lease[u].attempt
               PROVE  r = q
    BY DEF ClaimedOnce
  <2>1. driver'[r].lease[u] = driver[r].lease[u] /\ driver'[q].lease[u] = driver[q].lease[u]
    BY <1>10
  <2> QED
    BY <1>0, <2>1 DEF ClaimedOnce
<1>13. ExecutedDone'
  BY <1>0, <1>4, <1>7, <1>8 DEF ExecutedDone
<1>14. ExecutedHasRecord'
  BY <1>0, <1>3, <1>4 DEF ExecutedHasRecord
<1> QED
  BY <1>0, <1>5, <1>6, <1>11, <1>12, <1>13, <1>14 DEF IInv

-----------------------------------------------------------------------------
\* Every step is one of these.

LEMMA InitIInv == RunInit => IInv
<1> SUFFICES ASSUME RunInit PROVE IInv
  OBVIOUS
<1>1. 1 \in Sessions
  BY BoundsAssumption DEF Sessions
<1>2. ASSUME NEW s \in Sessions PROVE Eased(driver[s], driver[s])
  <2>1. /\ Eased(Driver(Restored(NewRun)), driver[s])
        /\ Eased(NoDriver, driver[s])
    BY RestEase
  <2>2. driver[s] = Driver(Restored(NewRun)) \/ driver[s] = NoDriver
    BY <1>2 DEF RunInit
  <2> QED
    BY <2>1, <2>2
<1>3. Typed
  BY <1>1, <1>2 DEF RunInit, Typed, Effect, Eased
<1>4. ASSUME NEW q PROVE Driver(q).lease = NoLeases
  BY DEF Driver
<1>5. NoDriver.lease = NoLeases
  <2>1. Driver(Restored(NewRun)) = Fields("idle", Restored(NewRun), NoLeases, "none",
                                          "none", FALSE, FALSE)
    BY DEF Driver, Fields
  <2>2. ASSUME NEW d, NEW q, NEW v,
               d = Fields("idle", q, NoLeases, "none", "none", FALSE, FALSE)
        PROVE  [d EXCEPT !.phase = v].lease = NoLeases
    BY <2>2 DEF Fields
  <2> QED
    BY <2>1, <2>2, Zenon DEF NoDriver
<1>6. \A s \in Sessions : driver[s].lease = NoLeases
  BY <1>4, <1>5 DEF RunInit
<1>7. \A s \in Sessions, t \in Task : driver[s].lease[t].stage = "none"
  BY <1>6 DEF NoLeases, NoLease
<1>8. \A t \in Task, a \in Attempts : executed[t][a] = 0
  BY DEF RunInit
<1> QED
  BY <1>3, <1>7, <1>8 DEF IInv, ClaimedOpen, ClaimedOnce, ExecutedDone, ExecutedHasRecord

\* A step of the journal or of the executions alone.
Promised == Moved \/ \E t \in Task, a \in Attempts : Effects!Execute(t, a)

LEMMA NextIInv ==
    ASSUME IInv, [RunNext]_runVars
    PROVE  IInv' /\ Promised
<1>1. CASE QuietStep
  BY <1>1, QuietKeeps DEF Promised, QuietStep
<1>2. CASE UNCHANGED runVars
  <2>1. UNCHANGED <<journal, executed, session, driver>>
    BY <1>2 DEF runVars
  <2>2. QuietStep
    BY <2>1, UnchangedMoved DEF QuietStep, IInv, Typed
  <2> QED
    BY <1>1, <2>2
<1>3. ASSUME NEW s \in Sessions, NEW t \in Task, LeaseClaim(s, t)
      PROVE  IInv' /\ Promised
  BY <1>3, ClaimKeeps DEF Promised
<1>4. ASSUME NEW s \in Sessions, NEW t \in Task, LeaseExecute(s, t)
      PROVE  IInv' /\ Promised
  BY <1>4, ExecuteKeeps DEF Promised
<1>5. ASSUME NEW s \in Sessions, DriverStep(s)
      PROVE  IInv' /\ Promised
  <2>1. CASE \/ SaveFile(s) \/ SaveFlush(s) \/ SaveFails(s)
             \/ LateFlush(s) \/ LateFile(s) \/ LateSaveFails(s)
    BY <1>1, <2>1, SaveQuiet
  <2>2. CASE Admit(s) \/ Loop(s) \/ Batched(s) \/ Settled(s)
    BY <1>1, <2>2, LoopQuiet
  <2>3. ASSUME NEW t \in Task, Claim(s, t)
        PROVE  IInv' /\ Promised
    BY <1>1, <2>3, ClaimQuiet
  <2>4. ASSUME NEW t \in Task,
               \/ LeaseNotClaimed(s, t) \/ LeaseWait(s, t) \/ LeaseThrows(s, t)
               \/ \E result \in {"succeeded", "failed"} :
                    LeaseComplete(s, t, result) \/ LeaseCompleteFails(s, t, result)
        PROVE  IInv' /\ Promised
    BY <1>1, <2>4, LeaseQuiet
  <2> QED
    BY <1>3, <1>4, <1>5, <2>1, <2>2, <2>3, <2>4 DEF DriverStep
<1>6. ASSUME NEW s \in Sessions, NEW decision, Decide(s, decision)
      PROVE  IInv' /\ Promised
  BY <1>1, <1>6, DecideQuiet
<1>7. CASE StartRun \/ UserSave \/ UserFlush \/ Sweep \/ Recover
  BY <1>1, <1>7, UserQuiet
<1>8. CASE Close \/ RunCrash \/ CrashClosed \/ Open
  BY <1>1, <1>8, SessionQuiet
<1> QED
  BY <1>2, <1>5, <1>6, <1>7, <1>8 DEF RunNext, DriverMoves

\* Whatever overlaps, crashes or is recovered: the leases of all drivers are
\* typed, a claimed attempt has its record and no second claimant, and what was
\* executed has a record (claimSideEffect, recordSideEffect and the leases of
\* runWorkerQueue).
THEOREM Invariance == RunSpec => []IInv
<1>1. RunInit => IInv
  BY InitIInv
<1>2. IInv /\ [RunNext]_runVars => IInv'
  BY NextIInv
<1> QED
  BY <1>1, <1>2, PTL DEF RunSpec

-----------------------------------------------------------------------------
\* The refinement.

LEMMA LostLoses ==
    ASSUME Typed, Lost
    PROVE  \E lost \in SUBSET (Task \X Attempts) : Effects!Lose(lost)
<1> DEFINE lost == {p \in Task \X Attempts : journal'[p[1]][p[2]] # journal[p[1]][p[2]]}
           after == [t \in Task |-> [a \in Attempts |->
                       IF journal[t][a] = "started" /\ <<t, a>> \in lost
                       THEN "unknown" ELSE journal[t][a]]]
<1>1. \A t \in Task, a \in Attempts :
        <<t, a>> \in lost <=> journal'[t][a] # journal[t][a]
  OBVIOUS
<1>2. \A t \in Task, a \in Attempts : after[t][a] = journal'[t][a]
  BY <1>1 DEF Lost
<1>3. journal' \in [Task -> [Attempts -> Effect]]
  BY DEF Lost
<1>4. ASSUME NEW t \in Task PROVE after[t] = journal'[t]
  BY <1>2, <1>3
<1>5. after = journal'
  BY <1>3, <1>4
<1>6. Effects!Lose(lost)
  BY <1>5, Zenon DEF Effects!Lose, Lost
<1> QED
  BY <1>6

\* No attempt is handed to the executor twice or without its record in the
\* journal, a receipt follows the execution, and a receipt or an unknown outcome
\* is never written over: the run implements AttemptEffects for every task graph,
\* concurrency and number of sessions, decisions and faults (sideEffects.ts and
\* the leases of workerQueue.ts).
THEOREM AttemptPromiseHolds == RunSpec => AttemptPromise
<1>1. RunInit => Effects!Init
  BY DEF RunInit, Effects!Init
<1>2. IInv /\ [RunNext]_runVars => [Effects!Next]_<<journal, executed>>
  <2> SUFFICES ASSUME IInv, [RunNext]_runVars PROVE Effects!Next
    OBVIOUS
  <2>1. Typed /\ Promised
    BY NextIInv DEF IInv
  <2>2. CASE Lost
    BY <2>1, <2>2, LostLoses DEF Effects!Next
  <2>3. CASE \E t \in Task, a \in Attempts :
               \/ Effects!Claim(t, a) \/ Effects!Execute(t, a)
               \/ \E result \in {"succeeded", "failed"} : Effects!Receipt(t, a, result)
    BY <2>3 DEF Effects!Next
  <2> QED
    BY <2>1, <2>2, <2>3 DEF Promised, Moved
<1> QED
  BY <1>1, <1>2, Invariance, PTL DEF RunSpec, AttemptPromise, Effects!Spec

-----------------------------------------------------------------------------
\* Sequences made of sequences.

\* FlattenSeq of sequences over X.
LEMMA FlattenTyped ==
    ASSUME NEW X, NEW s \in Seq(Seq(X))
    PROVE  FlattenSeq(s) \in Seq(X)
<1> DEFINE n == Len(s)
           Y == Seq(X)
           Is(f) == f = [i \in 1..n |-> IF i = 1 THEN s[i] ELSE f[i - 1] \o s[i]]
           F == CHOOSE f : Is(f)
           G == [k \in 1..n |-> [y \in Y |-> IF k = 1 THEN s[k] ELSE y \o s[k]]]
<1>1. n \in Nat /\ \A i \in 1..n : s[i] \in Y
  OBVIOUS
<1>2. CASE n = 0
  <2>1. s = <<>>
    BY <1>2
  <2> QED
    BY <1>2, <2>1 DEF FlattenSeq
<1>3. CASE n # 0
  <2>1. FlattenSeq(s) = F[n]
    BY <1>3 DEF FlattenSeq
  <2>2. <<>> \in Y /\ \A x, y \in Y : x \o y \in Y
    OBVIOUS
  <2> HIDE DEF Y, n
  <2>3. G \in [1..n -> [Y -> Y]]
    BY <1>1, <2>2
  <2>4. \A k \in 1..n, y \in Y : G[k][y] = IF k = 1 THEN s[k] ELSE y \o s[k]
    OBVIOUS
  <2> HIDE DEF G
  <2>5. PICK g : Recursive(g, n, Y, <<>>, G)
    BY <1>1, <2>2, <2>3, Recursion
  <2>6. /\ \A k \in 0..n : g[k] \in Y
        /\ \A k \in 1..n : g[k] = G[k][g[k - 1]]
    BY <2>5 DEF Recursive
  <2> DEFINE h == [i \in 1..n |-> g[i]]
  <2>7. \A i \in 1..n : h[i] = IF i = 1 THEN s[i] ELSE h[i - 1] \o s[i]
    <3>1. ASSUME NEW i \in 1..n PROVE g[i] = IF i = 1 THEN s[i] ELSE g[i - 1] \o s[i]
      <4>1. i - 1 \in 0..n
        BY <1>1
      <4> QED
        BY <2>4, <2>6, <4>1
    <3>2. ASSUME NEW i \in 1..n, i # 1 PROVE i - 1 \in 1..n
      BY <1>1, <3>2
    <3> QED
      BY <3>1, <3>2
  <2>8. Is(h)
    <3>1. h = [i \in 1..n |-> h[i]]
      OBVIOUS
    <3> HIDE DEF h
    <3> QED
      BY <2>7, <3>1
  <2>9. Is(F)
    <3> HIDE DEF Is
    <3> QED
      BY <2>8
  <2>10. \A i \in 1..n : F[i] = IF i = 1 THEN s[i] ELSE F[i - 1] \o s[i]
    BY <2>9
  <2> HIDE DEF F, h
  <2> DEFINE S == {k \in 0..n : k # 0 => F[k] \in Y}
  <2>11. ASSUME NEW k \in 1..n, k - 1 \in S PROVE k \in S
    <3>1. CASE k = 1
      BY <1>1, <2>10, <3>1
    <3>2. CASE k # 1
      <4>1. F[k - 1] \in Y
        BY <1>1, <2>11, <3>2
      <4>2. F[k] = F[k - 1] \o s[k]
        BY <2>10, <3>2
      <4>3. F[k] \in Y
        BY <1>1, <2>2, <4>1, <4>2
      <4> QED
        BY <1>1, <4>3
    <3> QED
      BY <3>1, <3>2
  <2>12. 0 \in S
    BY <1>1
  <2> HIDE DEF S
  <2>13. 0..n \subseteq S
    BY <1>1, <2>11, <2>12, UpTo
  <2>14. n \in S
    BY <1>1, <2>13
  <2>15. F[n] \in Y
    BY <1>3, <2>14 DEF S
  <2> QED
    BY <2>1, <2>15 DEF Y
<1> QED
  BY <1>2, <1>3

-----------------------------------------------------------------------------
\* Events, runs and queues that a journal J backs.

RunType == {"RunCreated", "RunQueued", "RunStarted", "RunPartial", "RunBlocked",
            "RunSucceeded"}

EventRecord == [type : EventType \cup RunType, attempt : Attempts \cup {0},
                next : Attempts \cup {0}, strict : BOOLEAN]

\* An event that says of an attempt of t that it succeeded has the receipt.
BackedBy(J, t, e) ==
    e.type \in {"TaskSucceeded", "TaskCleaned"} =>
      e.attempt \in Attempts /\ J[t][e.attempt] = "succeeded"

Events(J) ==
    {ev \in [task : Task \cup {"run"}, e : EventRecord, tag : Nat, n : Nat] :
       IF ev.task = "run" THEN ev.e.type \in RunType
       ELSE ev.e \in TaskEvent /\ BackedBy(J, ev.task, ev.e)}

\* A task that was begun has an attempt, and one that succeeded the receipt.
TaskSound(J, t, x) ==
    /\ x.status \in {"running", "waiting-feedback", "succeeded", "failed"} =>
         x.attempt \in Attempts
    /\ x.status = "succeeded" => J[t][x.attempt] = "succeeded"

TasksSound(J, tasks) ==
    tasks \in [Task -> QueueTask] /\ \A t \in Task : TaskSound(J, t, tasks[t])

Runs(J) == {run \in RunState : TasksSound(J, run.tasks)}

Queues(J) ==
    {q \in [status : RunStatus, tasks : [Task -> QueueTask], started : BOOLEAN,
            events : Seq(Events(J)), seq : Nat] : TasksSound(J, q.tasks)}

QueueOf(status, tasks, started, events, seq) ==
    [status |-> status, tasks |-> tasks, started |-> started, events |-> events, seq |-> seq]

LEMMA QueueParts ==
    ASSUME NEW J, NEW q \in Queues(J)
    PROVE  /\ q = QueueOf(q.status, q.tasks, q.started, q.events, q.seq)
           /\ q.status \in RunStatus /\ TasksSound(J, q.tasks) /\ q.started \in BOOLEAN
           /\ q.events \in Seq(Events(J)) /\ q.seq \in Nat
BY DEF Queues, QueueOf

LEMMA QueueMade ==
    ASSUME NEW J, NEW q, NEW status \in RunStatus, NEW tasks, TasksSound(J, tasks),
           NEW started \in BOOLEAN, NEW events \in Seq(Events(J)), NEW seq \in Nat,
           q = QueueOf(status, tasks, started, events, seq)
    PROVE  /\ q \in Queues(J)
           /\ q.status = status /\ q.tasks = tasks /\ q.started = started
           /\ q.events = events /\ q.seq = seq
BY DEF Queues, QueueOf, TasksSound

LEMMA TaskEventTyped ==
    ASSUME NEW e \in TaskEvent
    PROVE  e \in EventRecord /\ e.type \in EventType
<1>0. Attempts \subseteq Attempts \cup {0} /\ 0 \in Attempts \cup {0} /\ AttemptEvents \subseteq EventType
  BY DEF EventType
<1>1. ASSUME NEW type \in EventType, NEW a \in Attempts \cup {0}, NEW n \in Attempts \cup {0},
             NEW b \in BOOLEAN, e = [type |-> type, attempt |-> a, next |-> n, strict |-> b]
      PROVE  e \in EventRecord /\ e.type \in EventType
  BY <1>1 DEF EventRecord
<1>2. "TaskQueued" \in EventType
  BY DEF EventType
<1>3. CASE e \in {Strict(type, a) : type \in AttemptEvents, a \in Attempts}
  <2>1. PICK type \in AttemptEvents, a \in Attempts : e = Strict(type, a)
    BY <1>3
  <2>2. type \in EventType /\ a \in Attempts \cup {0}
    BY <1>0
  <2> HIDE DEF Attempts, EventType, AttemptEvents
  <2> QED
    BY <1>0, <1>1, <2>1, <2>2 DEF Strict
<1>4. CASE e \in {Strict(type, 0) : type \in EventType \ AttemptEvents}
  BY <1>0, <1>1, <1>4 DEF Strict
<1>5. CASE e \in {Fence(n) : n \in Attempts}
  BY <1>0, <1>1, <1>2, <1>5 DEF Fence
<1>6. CASE e \in {Legacy(type) : type \in EventType}
  BY <1>0, <1>1, <1>6 DEF Legacy
<1> QED
  BY <1>3, <1>4, <1>5, <1>6 DEF TaskEvent

LEMMA StrictEvents ==
    /\ \A type \in AttemptEvents, a \in Attempts :
         /\ Strict(type, a) \in TaskEvent
         /\ Strict(type, a).type = type /\ Strict(type, a).attempt = a
    /\ Strict("TaskBlocked", 0) \in TaskEvent /\ Strict("TaskBlocked", 0).type = "TaskBlocked"
    /\ \A n \in Attempts : Fence(n) \in TaskEvent /\ Fence(n).type = "TaskQueued"
<1>1. "TaskBlocked" \in EventType \ AttemptEvents
  BY DEF EventType, AttemptEvents
<1>2. \A type \in AttemptEvents, a \in Attempts : Strict(type, a) \in TaskEvent
  BY DEF TaskEvent
<1>3. Strict("TaskBlocked", 0) \in TaskEvent
  BY <1>1 DEF TaskEvent
<1>4. \A n \in Attempts : Fence(n) \in TaskEvent
  BY DEF TaskEvent
<1>5. /\ \A type, a : Strict(type, a).type = type /\ Strict(type, a).attempt = a
      /\ \A n : Fence(n).type = "TaskQueued"
  BY DEF Strict, Fence
<1> QED
  BY <1>2, <1>3, <1>4, <1>5

LEMMA MadeEvent ==
    ASSUME NEW J, NEW t \in Task, NEW e \in TaskEvent, BackedBy(J, t, e),
           NEW tag \in Nat, NEW n \in Nat
    PROVE  QueueEvent(t, e, tag, n) \in Events(J)
<1>1. e \in EventRecord /\ t # "run"
  BY TaskEventTyped, OrderAssumption
<1> QED
  BY <1>1 DEF Events, QueueEvent

LEMMA MadeRunEvent ==
    ASSUME NEW J, NEW type \in RunType, NEW tag \in Nat, NEW n \in Nat
    PROVE  QueueEvent("run", Strict(type, 0), tag, n) \in Events(J)
<1>1. Strict(type, 0) \in EventRecord /\ Strict(type, 0).type = type
  BY DEF EventRecord, Strict
<1> HIDE DEF RunType
<1> QED
  BY <1>1 DEF Events, QueueEvent

LEMMA TasksKept ==
    ASSUME NEW J, NEW tasks, TasksSound(J, tasks), NEW t \in Task, NEW x \in QueueTask,
           TaskSound(J, t, x)
    PROVE  TasksSound(J, [tasks EXCEPT ![t] = x])
BY DEF TasksSound

LEMMA AttemptsNat == Attempts \cup {0} = 0..MaxAttempt /\ MaxAttempt \in Nat \ {0} /\ 1 \in Attempts
BY MaxAttemptAssumption DEF Attempts

LEMMA GreatestTyped ==
    ASSUME NEW J, NEW q, TasksSound(J, q.tasks)
    PROVE  GreatestAttempt(q) \in Nat
<1> DEFINE T == {q.tasks[t].attempt : t \in Task}
<1>1. T \in SUBSET (0..MaxAttempt)
  BY AttemptsNat DEF TasksSound, QueueTask
<1>2. T # {}
  <2>1. Len(Order) \in Nat \ {0} /\ DOMAIN Order = 1..Len(Order)
    BY OrderAssumption
  <2>2. 1 \in DOMAIN Order
    BY <2>1
  <2>3. Order[1] \in Task
    BY <2>2 DEF Task, ToSet
  <2> QED
    BY <2>3
<1> HIDE DEF T
<1>3. Max(T) \in T
  BY <1>1, <1>2, AttemptsNat, MaxIs
<1>4. Max(T) \in Nat
  <2>1. \A x \in 0..MaxAttempt : x \in Nat
    BY AttemptsNat
  <2> QED
    BY <1>1, <1>3, <2>1
<1> QED
  BY <1>4 DEF GreatestAttempt, T

LEMMA QueueField ==
    ASSUME NEW J, NEW q \in Queues(J), NEW v
    PROVE  /\ [q EXCEPT !.tasks = v] = QueueOf(q.status, v, q.started, q.events, q.seq)
           /\ [q EXCEPT !.status = v] = QueueOf(v, q.tasks, q.started, q.events, q.seq)
           /\ [q EXCEPT !.events = v] = QueueOf(q.status, q.tasks, q.started, v, q.seq)
<1>1. PICK a, b, c, d, n : q = QueueOf(a, b, c, d, n)
  BY QueueParts
<1> QED
  BY <1>1 DEF QueueOf

LEMMA QueueNumbered ==
    ASSUME NEW J, NEW q \in Queues(J), NEW v, NEW w
    PROVE  [q EXCEPT !.events = v, !.seq = w] = QueueOf(q.status, q.tasks, q.started, v, w)
<1> DEFINE r == [q EXCEPT !.events = v]
<1>1. r = QueueOf(q.status, q.tasks, q.started, v, q.seq)
  BY QueueField
<1>2. [q EXCEPT !.events = v, !.seq = w] = [r EXCEPT !.seq = w]
  OBVIOUS
<1> HIDE DEF r
<1>3. [r EXCEPT !.seq = w] = QueueOf(q.status, q.tasks, q.started, v, w)
  BY <1>1 DEF QueueOf
<1> QED
  BY <1>2, <1>3, Zenon

LEMMA EmitTaskSound ==
    ASSUME NEW J, NEW q \in Queues(J), NEW t \in Task, NEW e \in TaskEvent, BackedBy(J, t, e)
    PROVE  EmitTask(q, t, e) \in Queues(J) /\ EmitTask(q, t, e).tasks = q.tasks
<1> DEFINE ev == QueueEvent(t, e, e.attempt, q.seq)
           events == Append(q.events, ev)
           n == q.seq + 1
<1>1. e.attempt \in Nat
  BY TaskEventTyped, AttemptsNat DEF EventRecord
<1>2. /\ q.status \in RunStatus /\ TasksSound(J, q.tasks) /\ q.started \in BOOLEAN
      /\ q.events \in Seq(Events(J)) /\ q.seq \in Nat
  BY QueueParts
<1>3. ev \in Events(J)
  BY <1>1, <1>2, MadeEvent
<1> HIDE DEF ev
<1>4. events \in Seq(Events(J)) /\ n \in Nat
  BY <1>2, <1>3
<1>5. EmitTask(q, t, e) = [q EXCEPT !.events = events, !.seq = n]
  BY DEF EmitTask, ev
<1> HIDE DEF events, n
<1>6. EmitTask(q, t, e) = QueueOf(q.status, q.tasks, q.started, events, n)
  BY <1>5, QueueNumbered
<1> QED
  BY <1>2, <1>4, <1>6, QueueMade

LEMMA EmitRunSound ==
    ASSUME NEW J, NEW q \in Queues(J), NEW type \in RunType
    PROVE  EmitRun(q, type) \in Queues(J) /\ EmitRun(q, type).tasks = q.tasks
<1> DEFINE ev == QueueEvent("run", Strict(type, 0), GreatestAttempt(q), q.seq)
           events == Append(q.events, ev)
           n == q.seq + 1
<1>1. /\ q.status \in RunStatus /\ TasksSound(J, q.tasks) /\ q.started \in BOOLEAN
      /\ q.events \in Seq(Events(J)) /\ q.seq \in Nat
  BY QueueParts
<1>2. ev \in Events(J)
  BY <1>1, GreatestTyped, MadeRunEvent
<1> HIDE DEF ev
<1>3. events \in Seq(Events(J)) /\ n \in Nat
  BY <1>1, <1>2
<1>4. PICK st \in BOOLEAN : st = (q.started \/ type = "RunStarted")
  OBVIOUS
<1> DEFINE r == [q EXCEPT !.events = events, !.seq = n]
<1>5. EmitRun(q, type) = [r EXCEPT !.started = st]
  BY <1>4 DEF EmitRun, ev
<1> HIDE DEF events, n, RunType
<1>6. r = QueueOf(q.status, q.tasks, q.started, events, n)
  BY QueueNumbered
<1> HIDE DEF r
<1>7. [r EXCEPT !.started = st] = QueueOf(q.status, q.tasks, st, events, n)
  BY <1>6 DEF QueueOf
<1> DEFINE e == EmitRun(q, type)
<1> HIDE DEF e
<1>8. /\ e.status = q.status /\ e.tasks = q.tasks /\ e.started = st
      /\ e.events = events /\ e.seq = n
      /\ e = [status |-> e.status, tasks |-> e.tasks, started |-> e.started,
              events |-> e.events, seq |-> e.seq]
  <2>1. e = QueueOf(q.status, q.tasks, st, events, n)
    BY <1>5, <1>7, Zenon DEF e
  <2> QED
    BY <2>1 DEF QueueOf
<1>9. e \in Queues(J)
  BY <1>1, <1>3, <1>4, <1>8 DEF Queues, TasksSound
<1> QED
  BY <1>8, <1>9 DEF e

LEMMA TasksUpdate ==
    ASSUME NEW J, NEW q \in Queues(J), NEW tasks, TasksSound(J, tasks)
    PROVE  /\ [q EXCEPT !.tasks = tasks] \in Queues(J)
           /\ [q EXCEPT !.tasks = tasks].tasks = tasks
<1> DEFINE r == [q EXCEPT !.tasks = tasks]
<1>1. r = QueueOf(q.status, tasks, q.started, q.events, q.seq)
  BY QueueField
<1> HIDE DEF r
<1>2. r \in Queues(J) /\ r.tasks = tasks
  BY <1>1, QueueParts, QueueMade
<1> QED
  BY <1>2 DEF r

LEMMA StatusUpdate ==
    ASSUME NEW J, NEW q \in Queues(J), NEW status \in RunStatus
    PROVE  /\ [q EXCEPT !.status = status] \in Queues(J)
           /\ [q EXCEPT !.status = status].tasks = q.tasks
<1> DEFINE r == [q EXCEPT !.status = status]
<1>1. r = QueueOf(status, q.tasks, q.started, q.events, q.seq)
  BY QueueField
<1> HIDE DEF r
<1>2. /\ TasksSound(J, q.tasks) /\ q.started \in BOOLEAN
      /\ q.events \in Seq(Events(J)) /\ q.seq \in Nat
  BY QueueParts
<1>3. /\ r.status = status /\ r.tasks = q.tasks /\ r.started = q.started
      /\ r.events = q.events /\ r.seq = q.seq
      /\ r = [status |-> r.status, tasks |-> r.tasks, started |-> r.started,
              events |-> r.events, seq |-> r.seq]
  BY <1>1 DEF QueueOf
<1>4. r \in Queues(J) /\ r.tasks = q.tasks
  BY <1>2, <1>3 DEF Queues, TasksSound
<1> QED
  BY <1>4 DEF r

\* A task of another status.
Turned(x, status) == [x EXCEPT !.status = status]

LEMMA TurnedTyped ==
    ASSUME NEW x \in QueueTask, NEW status \in TaskStatus
    PROVE  /\ Turned(x, status) \in QueueTask
           /\ Turned(x, status).status = status /\ Turned(x, status).attempt = x.attempt
           /\ Turned(x, status).pending = x.pending /\ Turned(x, status).current = x.current
BY DEF QueueTask, Turned

LEMMA TaskUpdate ==
    ASSUME NEW J, NEW q \in Queues(J), NEW t \in Task, NEW status \in TaskStatus,
           status \in {"running", "waiting-feedback", "succeeded", "failed"} =>
             q.tasks[t].attempt \in Attempts,
           status = "succeeded" => J[t][q.tasks[t].attempt] = "succeeded"
    PROVE  /\ [q EXCEPT !.tasks[t].status = status] \in Queues(J)
           /\ [q EXCEPT !.tasks[t].status = status].tasks
                = [q.tasks EXCEPT ![t] = Turned(q.tasks[t], status)]
<1> DEFINE T == [q.tasks EXCEPT ![t] = Turned(q.tasks[t], status)]
<1>1. TasksSound(J, q.tasks) /\ q.tasks[t] \in QueueTask
  BY QueueParts DEF TasksSound
<1>2. TaskSound(J, t, Turned(q.tasks[t], status)) /\ Turned(q.tasks[t], status) \in QueueTask
  BY <1>1, TurnedTyped DEF TaskSound
<1>3. TasksSound(J, T)
  BY <1>1, <1>2, TasksKept
<1>4. [q EXCEPT !.tasks[t].status = status] = [q EXCEPT !.tasks = T]
  BY DEF Turned
<1> DEFINE r == [q EXCEPT !.tasks[t].status = status]
<1> HIDE DEF T
<1>5. [q EXCEPT !.tasks = T] \in Queues(J) /\ [q EXCEPT !.tasks = T].tasks = T
  BY <1>3, TasksUpdate
<1>6. r = [q EXCEPT !.tasks = T]
  BY <1>4
<1> HIDE DEF r
<1>7. r \in Queues(J) /\ r.tasks = T
  BY <1>5, <1>6, Zenon
<1> QED
  BY <1>7 DEF r, T

\* What reconcileBlocked makes of tasks: some that were queued are blocked.
OnlyBlocks(before, after) ==
    \A t \in Task :
      \/ after[t] = before[t]
      \/ before[t].status = "queued" /\ after[t] = Turned(before[t], "blocked")

SameAttempts(before, after) == \A t \in Task : after[t].attempt = before[t].attempt

LEMMA BlockSound ==
    ASSUME NEW J, NEW before, TasksSound(J, before),
           NEW q \in Queues(J), OnlyBlocks(before, q.tasks), NEW t \in Task
    PROVE  BlockTask(q, t) \in Queues(J) /\ OnlyBlocks(before, BlockTask(q, t).tasks)
<1> DEFINE e == Strict("TaskBlocked", 0)
           r == [q EXCEPT !.tasks[t].status = "blocked"]
<1>1. TasksSound(J, q.tasks) /\ "blocked" \in TaskStatus
  BY QueueParts DEF TaskStatus
<1>2. e \in TaskEvent /\ BackedBy(J, t, e)
  BY StrictEvents DEF BackedBy
<1>3. r \in Queues(J) /\ r.tasks = [q.tasks EXCEPT ![t] = Turned(q.tasks[t], "blocked")]
  BY <1>1, TaskUpdate
<1> HIDE DEF e, r
<1>4. EmitTask(r, t, e) \in Queues(J) /\ EmitTask(r, t, e).tasks = r.tasks
  BY <1>2, <1>3, EmitTaskSound
<1>5. ASSUME q.tasks[t].status = "queued" PROVE OnlyBlocks(before, r.tasks)
  <2>1. q.tasks[t] = before[t]
    <3>1. ASSUME q.tasks[t] = Turned(before[t], "blocked") PROVE q.tasks[t].status = "blocked"
      BY <1>1, <3>1, TurnedTyped DEF TasksSound
    <3> QED
      BY <1>5, <3>1 DEF OnlyBlocks
  <2> QED
    BY <1>1, <1>3, <1>5, <2>1 DEF OnlyBlocks, TasksSound
<1> QED
  BY <1>4, <1>5 DEF BlockTask, e, r

LEMMA ReconciledSound ==
    ASSUME NEW J, NEW q \in Queues(J)
    PROVE  Reconciled(q) \in Queues(J) /\ OnlyBlocks(q.tasks, Reconciled(q).tasks)
<1> DEFINE s == FlattenSeq([i \in 1 .. Len(Order) |-> Order])
           D == DOMAIN s
           X == {r \in Queues(J) : OnlyBlocks(q.tasks, r.tasks)}
           ch == Newest(D)
           Is(f) == f = [u \in SUBSET D |-> IF u = {} THEN q
                                            ELSE BlockTask(f[u \ {Max(u)}], s[Max(u)])]
           it == CHOOSE f : Is(f)
           G == [p \in D \X X |-> BlockTask(p[2], s[p[1]])]
<1>1. s \in Seq(Task)
  <2>1. [i \in 1 .. Len(Order) |-> Order] \in Seq(Seq(Task))
    BY OrderAssumption
  <2> QED
    BY <2>1, FlattenTyped
<1>2. IsFiniteSet(D) /\ Chooses(ch, D) /\ \A i \in D : s[i] \in Task
  <2> HIDE DEF s
  <2> QED
    BY <1>1, LastChooses
<1>3. Reconciled(q) = it[D]
  BY DEF Reconciled, FoldLeft, MapThenFoldSet
<1>4. TasksSound(J, q.tasks) /\ q \in X
  BY QueueParts DEF OnlyBlocks
<1> HIDE DEF s
<1>5. \A i \in D, r \in X : BlockTask(r, s[i]) \in X
  BY <1>2, <1>4, BlockSound
<1>6. \A i \in D, r \in X : G[<<i, r>>] = BlockTask(r, s[i])
  OBVIOUS
<1>7. \A u \in SUBSET D : ch[u] = Max(u)
  BY DEF Newest
<1> HIDE DEF D, X, ch, G
<1>8. PICK g : Folding(g, D, q, ch, G)
  BY <1>2, <1>4, <1>5, <1>6, FoldExists
<1>9. g \in [SUBSET D -> X]
  <2>1. IsFiniteSet(D) /\ Chooses(ch, D) /\ \A x \in D, v \in X : G[<<x, v>>] \in X
    BY <1>2, <1>5, <1>6
  <2> QED
    BY <1>4, <1>8, <2>1, FoldTyped
<1>10. Is(g)
  <2>1. ASSUME NEW u \in SUBSET D, u # {}
        PROVE  g[u] = BlockTask(g[u \ {Max(u)}], s[Max(u)])
    <3>1. ch[u] \in u /\ ch[u] = Max(u) /\ ch[u] \in D
      BY <1>2, <1>7, <2>1 DEF Chooses
    <3>2. g[u \ {ch[u]}] \in X
      BY <1>9
    <3>3. g[u] = G[<<ch[u], g[u \ {ch[u]}]>>]
      BY <1>8, <2>1 DEF Folding
    <3> QED
      BY <1>6, <3>1, <3>2, <3>3
  <2>2. g = [u \in SUBSET D |-> g[u]] /\ g[{}] = q
    BY <1>8 DEF Folding
  <2> QED
    BY <2>1, <2>2
<1>11. Is(it)
  <2> HIDE DEF Is
  <2> QED
    BY <1>10
<1> HIDE DEF it
<1>12. /\ it[{}] = q
       /\ \A u \in SUBSET D : u # {} => it[u] = BlockTask(it[u \ {Max(u)}], s[Max(u)])
  BY <1>11
<1> HIDE DEF Is
<1>13. ASSUME NEW u \in SUBSET D, u # {}, it[u \ {ch[u]}] \in X PROVE it[u] \in X
  <2>1. ch[u] = Max(u) /\ ch[u] \in D
    BY <1>2, <1>7, <1>13 DEF Chooses
  <2> QED
    BY <1>5, <1>12, <1>13, <2>1
<1>14. it[D] \in X
  BY <1>2, <1>4, <1>12, <1>13, FoldStays
<1> QED
  BY <1>3, <1>14 DEF X

LEMMA BlocksSameAttempts ==
    ASSUME NEW J, NEW before, TasksSound(J, before), NEW after, OnlyBlocks(before, after)
    PROVE  SameAttempts(before, after)
<1>1. \A t \in Task : Turned(before[t], "blocked").attempt = before[t].attempt
  <2>1. "blocked" \in TaskStatus
    BY DEF TaskStatus
  <2> QED
    BY <2>1, TurnedTyped DEF TasksSound
<1> QED
  BY <1>1 DEF OnlyBlocks, SameAttempts

LEMMA RecomputedSound ==
    ASSUME NEW J, NEW q \in Queues(J)
    PROVE  Recomputed(q) \in Queues(J) /\ Recomputed(q).tasks = q.tasks
<1> DEFINE status == StatusFor(q)
           r == [q EXCEPT !.status = status]
<1>1. status \in RunStatus
  BY DEF StatusFor, RunStatus
<1> HIDE DEF status
<1>2. r \in Queues(J) /\ r.tasks = q.tasks
  BY <1>1, StatusUpdate
<1>3. status # "queued" => RunEventFor(status) \in RunType
  BY <1>1 DEF RunEventFor, RunStatus, RunType
<1> HIDE DEF r
<1>4. status # "queued" => /\ EmitRun(r, RunEventFor(status)) \in Queues(J)
                           /\ EmitRun(r, RunEventFor(status)).tasks = r.tasks
  BY <1>2, <1>3, EmitRunSound
<1>5. Recomputed(q) \in {q, r} \/ (status # "queued" /\ Recomputed(q) = EmitRun(r, RunEventFor(status)))
  BY DEF Recomputed, status, r
<1> QED
  BY <1>2, <1>4, <1>5

LEMMA ClaimedSound ==
    ASSUME NEW J, NEW q \in Queues(J), NEW t \in Task, NextAttempt(q, t) \in Attempts
    PROVE  /\ Claimed(q, t) \in Queues(J)
           /\ Claimed(q, t).tasks[t].attempt = NextAttempt(q, t)
           /\ \A u \in Task \ {t} : Claimed(q, t).tasks[u] = q.tasks[u]
<1> DEFINE a == NextAttempt(q, t)
           x == [status |-> "running", attempt |-> a, current |-> a, pending |-> 0]
           T == [q.tasks EXCEPT ![t] = x]
           p == [q EXCEPT !.status = "running"]
           r == [p EXCEPT !.tasks = T]
           begun == IF q.started THEN r ELSE EmitRun(r, "RunStarted")
           e == Strict("TaskStarted", a)
<1>1. TasksSound(J, q.tasks)
  BY QueueParts
<1>2. x \in QueueTask /\ TaskSound(J, t, x) /\ x.attempt = a
  BY DEF QueueTask, TaskStatus, TaskSound
<1> HIDE DEF a, x
<1>3. TasksSound(J, T) /\ T[t] = x /\ \A u \in Task \ {t} : T[u] = q.tasks[u]
  BY <1>1, <1>2, TasksKept DEF TasksSound
<1> HIDE DEF T
<1>4. p \in Queues(J)
  BY StatusUpdate DEF RunStatus
<1> HIDE DEF p
<1>5. r \in Queues(J) /\ r.tasks = T
  BY <1>3, <1>4, TasksUpdate
<1> HIDE DEF r
<1>6. begun \in Queues(J) /\ begun.tasks = T
  BY <1>5, EmitRunSound DEF RunType
<1>7. e \in TaskEvent /\ BackedBy(J, t, e)
  BY StrictEvents DEF BackedBy, AttemptEvents, a
<1> HIDE DEF begun, e
<1>8. EmitTask(begun, t, e) \in Queues(J) /\ EmitTask(begun, t, e).tasks = T
  BY <1>6, <1>7, EmitTaskSound
<1>9. Claimed(q, t) = EmitTask(begun, t, e)
  <2>1. [q EXCEPT !.status = "running", !.tasks[t] = x] = r
    BY DEF r, p, T
  <2> QED
    BY <2>1 DEF Claimed, a, x, begun, e
<1> QED
  BY <1>2, <1>3, <1>8, <1>9 DEF a

LEMMA CompletedSound ==
    ASSUME NEW J, NEW q \in Queues(J), NEW t \in Task, NEW status \in {"succeeded", "failed"},
           q.tasks[t].attempt \in Attempts,
           status = "succeeded" => J[t][q.tasks[t].attempt] = "succeeded"
    PROVE  /\ Completed(q, t, status) \in Queues(J)
           /\ SameAttempts(q.tasks, Completed(q, t, status).tasks)
<1> DEFINE type == IF status = "succeeded" THEN "TaskSucceeded" ELSE "TaskFailed"
           e == Strict(type, q.tasks[t].attempt)
           T == [q.tasks EXCEPT ![t] = Turned(q.tasks[t], status)]
           p == [q EXCEPT !.tasks[t].status = status]
           r == EmitTask(p, t, e)
           b == Reconciled(r)
<1>1. TasksSound(J, q.tasks) /\ status \in TaskStatus
  BY QueueParts DEF TaskStatus
<1>2. p \in Queues(J) /\ p.tasks = T
  BY <1>1, TaskUpdate
<1>3. e \in TaskEvent /\ BackedBy(J, t, e)
  BY StrictEvents DEF BackedBy, AttemptEvents
<1>4. Completed(q, t, status) = Recomputed(b)
  BY DEF Completed
<1>5. SameAttempts(q.tasks, T)
  BY <1>1, TurnedTyped DEF SameAttempts, TasksSound
<1> HIDE DEF p, e, T
<1>6. r \in Queues(J) /\ r.tasks = T
  BY <1>2, <1>3, EmitTaskSound
<1> HIDE DEF r
<1>7. b \in Queues(J) /\ SameAttempts(T, b.tasks)
  BY <1>6, ReconciledSound, QueueParts, BlocksSameAttempts
<1> HIDE DEF b
<1>8. Recomputed(b) \in Queues(J) /\ Recomputed(b).tasks = b.tasks
  BY <1>7, RecomputedSound
<1> QED
  BY <1>4, <1>5, <1>7, <1>8 DEF SameAttempts

LEMMA ClaimFailedSound ==
    ASSUME NEW J, NEW q \in Queues(J), NEW t \in Task, NextAttempt(q, t) \in Attempts
    PROVE  /\ ClaimFailed(q, t) \in Queues(J)
           /\ \A u \in Task \ {t} : ClaimFailed(q, t).tasks[u].attempt = q.tasks[u].attempt
<1> DEFINE r == Claimed(q, t)
<1>1. /\ r \in Queues(J) /\ r.tasks[t].attempt \in Attempts
      /\ \A u \in Task \ {t} : r.tasks[u] = q.tasks[u]
  BY ClaimedSound
<1> HIDE DEF r
<1>2. Completed(r, t, "failed") \in Queues(J) /\ SameAttempts(r.tasks, Completed(r, t, "failed").tasks)
  BY <1>1, CompletedSound
<1> QED
  BY <1>1, <1>2 DEF ClaimFailed, SameAttempts, r

LEMMA ParkedSound ==
    ASSUME NEW J, NEW q \in Queues(J), NEW t \in Task, q.tasks[t].attempt \in Attempts
    PROVE  Parked(q, t) \in Queues(J) /\ SameAttempts(q.tasks, Parked(q, t).tasks)
<1> DEFINE e == Strict("TaskFeedbackRequested", q.tasks[t].attempt)
           T == [q.tasks EXCEPT ![t] = Turned(q.tasks[t], "waiting-feedback")]
           p == [q EXCEPT !.tasks[t].status = "waiting-feedback"]
           o == [p EXCEPT !.status = "blocked"]
           r == EmitTask(o, t, e)
<1>1. TasksSound(J, q.tasks) /\ "waiting-feedback" \in TaskStatus /\ "blocked" \in RunStatus
  BY QueueParts DEF TaskStatus, RunStatus
<1>2. p \in Queues(J) /\ p.tasks = T
  BY <1>1, TaskUpdate
<1>3. e \in TaskEvent /\ BackedBy(J, t, e)
  BY StrictEvents DEF BackedBy, AttemptEvents
<1>4. SameAttempts(q.tasks, T)
  BY <1>1, TurnedTyped DEF SameAttempts, TasksSound
<1>5. [q EXCEPT !.status = "blocked", !.tasks[t].status = "waiting-feedback"] = o
  <2>1. /\ [q EXCEPT !.status = "blocked", !.tasks[t].status = "waiting-feedback"]
              = QueueOf("blocked", T, q.started, q.events, q.seq)
        /\ o = QueueOf("blocked", T, q.started, q.events, q.seq)
    <3>1. PICK a, b, c, d, n : q = QueueOf(a, b, c, d, n)
      BY QueueParts
    <3> DEFINE k == [q EXCEPT !.status = "blocked"]
    <3>2. k = QueueOf("blocked", b, c, d, n) /\ b = q.tasks /\ c = q.started /\ d = q.events /\ n = q.seq
      BY <3>1 DEF QueueOf
    <3>3. [q EXCEPT !.status = "blocked", !.tasks[t].status = "waiting-feedback"]
            = [k EXCEPT !.tasks[t].status = "waiting-feedback"]
      OBVIOUS
    <3> HIDE DEF k
    <3>4. k.tasks = q.tasks
      BY <3>2 DEF QueueOf
    <3>5. [k EXCEPT !.tasks[t].status = "waiting-feedback"] = [k EXCEPT !.tasks = T]
      BY <3>4 DEF Turned
    <3>6. [k EXCEPT !.tasks = T] = QueueOf("blocked", T, c, d, n)
      BY <3>2 DEF QueueOf
    <3>7. p = [q EXCEPT !.tasks = T]
      BY DEF Turned
    <3> HIDE DEF p, T
    <3>8. p = QueueOf(a, T, c, d, n)
      BY <3>1, <3>7 DEF QueueOf
    <3>9. o = QueueOf("blocked", T, c, d, n)
      BY <3>8 DEF QueueOf
    <3> QED
      BY <3>2, <3>3, <3>5, <3>6, <3>9, Zenon
  <2> QED
    BY <2>1, Zenon
<1>6. Parked(q, t) = Recomputed(r)
  BY <1>5, Zenon DEF Parked
<1> HIDE DEF p, e, T
<1>7. o \in Queues(J) /\ o.tasks = T
  BY <1>1, <1>2, StatusUpdate
<1> HIDE DEF o
<1>8. r \in Queues(J) /\ r.tasks = T
  BY <1>3, <1>7, EmitTaskSound
<1> HIDE DEF r
<1>9. Recomputed(r) \in Queues(J) /\ Recomputed(r).tasks = r.tasks
  BY <1>8, RecomputedSound
<1> QED
  BY <1>4, <1>6, <1>8, <1>9 DEF SameAttempts

LEMMA RestoredSound ==
    ASSUME NEW J, NEW run \in Runs(J)
    PROVE  /\ Restored(run) \in Queues(J)
           /\ \A t \in Task : /\ Restored(run).tasks[t].status = run.tasks[t].status
                             /\ Restored(run).tasks[t].attempt = run.tasks[t].attempt
<1> DEFINE T == [t \in Task |-> NormalTask(run.tasks[t])]
<1>1. run.status \in RunStatus /\ TasksSound(J, run.tasks)
  BY DEF Runs, RunState
<1>2. ASSUME NEW t \in Task
      PROVE  /\ NormalTask(run.tasks[t]) \in QueueTask
             /\ NormalTask(run.tasks[t]).status = run.tasks[t].status
             /\ NormalTask(run.tasks[t]).attempt = run.tasks[t].attempt
  BY <1>1 DEF NormalTask, TasksSound, QueueTask
<1>3. /\ TasksSound(J, T)
      /\ \A t \in Task : /\ T[t].status = run.tasks[t].status
                        /\ T[t].attempt = run.tasks[t].attempt
  BY <1>1, <1>2 DEF TasksSound, TaskSound
<1> DEFINE q == Restored(run)
<1>4. /\ q.status = run.status /\ q.tasks = T /\ q.started \in BOOLEAN
      /\ q.events = <<>> /\ q.seq = 1
      /\ q = [status |-> q.status, tasks |-> q.tasks, started |-> q.started,
              events |-> q.events, seq |-> q.seq]
  BY DEF Restored
<1>5. <<>> \in Seq(Events(J)) /\ 1 \in Nat
  OBVIOUS
<1> HIDE DEF q, T
<1>6. q \in Queues(J)
  BY <1>1, <1>3, <1>4, <1>5 DEF Queues, TasksSound
<1> QED
  BY <1>3, <1>4, <1>6 DEF q

LEMMA SnapshotSound ==
    ASSUME NEW J, NEW q \in Queues(J)
    PROVE  Snapshot(q) \in Runs(J) /\ Snapshot(q).tasks = q.tasks
<1>1. q.status \in RunStatus /\ TasksSound(J, q.tasks)
  BY QueueParts
<1> QED
  BY <1>1 DEF Snapshot, Runs, RunState, TasksSound

-----------------------------------------------------------------------------
\* The stream and the buffer.

Identities == (Task \cup {"run"}) \X (EventType \cup RunType) \X Nat \X Nat

ReceiptsBack(J, t, x) == \A a \in Attempts : x.attempt[a] = "succeeded" => J[t][a] = "succeeded"

Streams(J) ==
    {st \in [run : RunStatus \cup {"none"}, execution : [Task -> Execution],
             ids : SUBSET Identities, fence : [Task -> Attempts \cup {0}],
             requeued : BOOLEAN] :
       \A t \in Task : ReceiptsBack(J, t, st.execution[t])}

StreamOf(run, execution, ids, fence, requeued) ==
    [run |-> run, execution |-> execution, ids |-> ids, fence |-> fence,
     requeued |-> requeued]

LEMMA StatusOfTyped ==
    ASSUME NEW type \in EventType
    PROVE  /\ StatusOf(type) \in TaskStatus
           /\ StatusOf(type) = "succeeded" => type \in {"TaskSucceeded", "TaskCleaned"}
BY DEF StatusOf, EventType, AttemptEvents, TaskStatus

LEMMA AfterSound ==
    ASSUME NEW J, NEW t, NEW x \in Execution, ReceiptsBack(J, t, x),
           NEW e \in TaskEvent, BackedBy(J, t, e)
    PROVE  After(x, e) \in Execution /\ ReceiptsBack(J, t, After(x, e))
<1> DEFINE a == AttemptOf(x, e)
           y == After(x, e)
<1>1. /\ e.type \in EventType /\ e.attempt \in Attempts \cup {0} /\ e.next \in Attempts \cup {0}
  BY TaskEventTyped DEF EventRecord
<1>2. /\ x.status \in TaskStatus \cup {"none"} /\ x.current \in Attempts \cup {0}
      /\ x.pending \in Attempts \cup {0} /\ x.last \in Attempts \cup {0}
      /\ x.attempt \in [Attempts -> AttemptStatus \cup {"none"}]
      /\ x = [status |-> x.status, current |-> x.current, pending |-> x.pending,
              last |-> x.last, attempt |-> x.attempt]
  BY DEF Execution
<1>3. a \in Attempts \cup {0}
  BY <1>1, <1>2, AttemptsNat DEF AttemptOf
<1>4. e.attempt # 0 => a = e.attempt
  BY DEF AttemptOf
<1> HIDE DEF a
<1>5. CASE e.type = "TaskAttemptMarkedUnknown"
  <2> DEFINE h == [x.attempt EXCEPT ![a] = "unknown"]
  <2>1. h \in [Attempts -> AttemptStatus \cup {"none"}]
        /\ \A b \in Attempts : h[b] = x.attempt[b] \/ h[b] = "unknown"
    BY <1>2 DEF AttemptStatus
  <2>2. y = [status |-> "running", current |-> 0, pending |-> x.pending, last |-> x.last,
             attempt |-> h]
    <3>1. y = MarkedUnknown(x, a)
      BY <1>5 DEF After, a
    <3> DEFINE z == [x EXCEPT !.status = "running"]
               w == [z EXCEPT !.current = 0]
    <3>2. MarkedUnknown(x, a) = [w EXCEPT !.attempt = h]
      BY DEF MarkedUnknown
    <3>3. z = [status |-> "running", current |-> x.current, pending |-> x.pending,
               last |-> x.last, attempt |-> x.attempt]
      BY <1>2
    <3> HIDE DEF h, y, z
    <3>4. w = [status |-> "running", current |-> 0, pending |-> x.pending,
               last |-> x.last, attempt |-> x.attempt]
      BY <3>3
    <3> HIDE DEF w
    <3>5. [w EXCEPT !.attempt = h] = [status |-> "running", current |-> 0, pending |-> x.pending,
               last |-> x.last, attempt |-> h]
      BY <3>4
    <3> QED
      BY <3>1, <3>2, <3>5, Zenon
  <2> HIDE DEF h, y
  <2>3. y \in Execution
    BY <1>2, <2>1, <2>2 DEF Execution, TaskStatus
  <2>4. y.attempt = h
    BY <2>2
  <2>5. ReceiptsBack(J, t, y)
    BY <2>1, <2>4 DEF ReceiptsBack
  <2> QED
    BY <2>3, <2>5 DEF y
<1>6. CASE e.type # "TaskAttemptMarkedUnknown"
  <2> DEFINE h == [b \in Attempts |-> IF b = a THEN StatusOf(e.type) ELSE x.attempt[b]]
             cur == IF e.next # 0 THEN 0 ELSE IF a # 0 THEN a ELSE x.current
             pend == FenceAfter(x, e)
             latest == IF a > x.last THEN a ELSE x.last
  <2>1. StatusOf(e.type) \in TaskStatus
    BY <1>1, StatusOfTyped
  <2>2. h \in [Attempts -> AttemptStatus \cup {"none"}]
    BY <1>2, <2>1 DEF AttemptStatus
  <2>3. cur \in Attempts \cup {0} /\ pend \in Attempts \cup {0} /\ latest \in Attempts \cup {0}
    BY <1>1, <1>2, <1>3 DEF FenceAfter
  <2>4. y = [status |-> StatusOf(e.type), current |-> cur, pending |-> pend, last |-> latest,
             attempt |-> h]
    BY <1>6 DEF After, a
  <2>5. ReceiptsBack(J, t, [attempt |-> h])
    <3> SUFFICES ASSUME NEW b \in Attempts, h[b] = "succeeded" PROVE J[t][b] = "succeeded"
      BY DEF ReceiptsBack
    <3>1. CASE b = a
      <4>1. StatusOf(e.type) = "succeeded"
        BY <3>1
      <4>2. e.type \in {"TaskSucceeded", "TaskCleaned"}
        BY <1>1, <4>1, StatusOfTyped
      <4>3. e.attempt \in Attempts /\ J[t][e.attempt] = "succeeded"
        BY <4>2 DEF BackedBy
      <4>4. e.attempt # 0
        BY <4>3 DEF Attempts
      <4> QED
        BY <1>4, <3>1, <4>3, <4>4
    <3>2. CASE b # a
      <4>1. x.attempt[b] = "succeeded"
        BY <3>2
      <4> QED
        BY <4>1 DEF ReceiptsBack
    <3> QED
      BY <3>1, <3>2
  <2> HIDE DEF h, cur, pend, latest, y
  <2>6. y \in Execution
    BY <2>1, <2>2, <2>3, <2>4 DEF Execution
  <2>7. y.attempt = h
    BY <2>4
  <2>8. ReceiptsBack(J, t, y)
    BY <2>5, <2>7 DEF ReceiptsBack
  <2> QED
    BY <2>6, <2>8 DEF y
<1> QED
  BY <1>5, <1>6

LEMMA StreamParts ==
    ASSUME NEW J, NEW st \in Streams(J)
    PROVE  /\ st = StreamOf(st.run, st.execution, st.ids, st.fence, st.requeued)
           /\ st.run \in RunStatus \cup {"none"} /\ st.execution \in [Task -> Execution]
           /\ st.ids \in SUBSET Identities /\ st.fence \in [Task -> Attempts \cup {0}]
           /\ st.requeued \in BOOLEAN
           /\ \A t \in Task : ReceiptsBack(J, t, st.execution[t])
BY DEF Streams, StreamOf

LEMMA ReplayedSound ==
    ASSUME NEW J, NEW st \in Streams(J), NEW ev \in Events(J)
    PROVE  Replayed(st, ev) \in Streams(J)
<1> DEFINE id == IdentityOf(ev)
           ids == st.ids \cup {id}
           known == [st EXCEPT !.ids = ids]
<1>1. /\ ev.task \in Task \cup {"run"} /\ ev.e \in EventRecord /\ ev.tag \in Nat /\ ev.n \in Nat
      /\ IF ev.task = "run" THEN ev.e.type \in RunType
         ELSE ev.e \in TaskEvent /\ BackedBy(J, ev.task, ev.e)
  BY DEF Events
<1>2. id \in Identities
  BY <1>1 DEF IdentityOf, Identities, EventRecord
<1> HIDE DEF id
<1>3. ids \in SUBSET Identities
  BY <1>2, StreamParts
<1> HIDE DEF ids
<1>4. PICK a, b, c, d, r : /\ st = StreamOf(a, b, c, d, r)
                           /\ a \in RunStatus \cup {"none"} /\ b \in [Task -> Execution]
                           /\ d \in [Task -> Attempts \cup {0}] /\ r \in BOOLEAN
                           /\ \A t \in Task : ReceiptsBack(J, t, b[t])
  BY StreamParts
<1>5. known = StreamOf(a, b, ids, d, r)
  BY <1>4 DEF StreamOf
<1> HIDE DEF known
<1>6. CASE ev.task = "run"
  <2> DEFINE v == RunStatusOf(ev.e.type)
  <2>1. v \in RunStatus
    BY <1>1, <1>6 DEF RunStatusOf, RunStatus, RunType
  <2>2. PICK w \in BOOLEAN : w = (known.requeued \/ ev.e.type = "RunQueued")
    OBVIOUS
  <2> DEFINE k == [known EXCEPT !.run = v]
  <2>3. Replayed(st, ev) = [k EXCEPT !.requeued = w]
    BY <1>6, <2>2 DEF Replayed, known, ids, id
  <2> HIDE DEF v
  <2>4. k = StreamOf(v, b, ids, d, r)
    BY <1>5 DEF StreamOf
  <2> HIDE DEF k
  <2> DEFINE y == Replayed(st, ev)
  <2> HIDE DEF y
  <2>5. /\ y.run = v /\ y.execution = b /\ y.ids = ids /\ y.fence = d /\ y.requeued = w
        /\ y = [run |-> y.run, execution |-> y.execution, ids |-> y.ids, fence |-> y.fence,
                requeued |-> y.requeued]
    BY <2>3, <2>4 DEF StreamOf, y
  <2>6. y \in Streams(J)
    BY <1>3, <1>4, <2>1, <2>2, <2>5 DEF Streams
  <2> QED
    BY <2>6 DEF y
<1>7. CASE ev.task # "run"
  <2> DEFINE t == ev.task
             x == After(b[t], ev.e)
             f == IF ev.e.next # 0 THEN ev.e.next ELSE d[t]
             k == [known EXCEPT !.execution[t] = x]
             y == Replayed(st, ev)
  <2>1. t \in Task
    BY <1>1, <1>7
  <2>2. x \in Execution /\ ReceiptsBack(J, t, x)
    BY <1>1, <1>4, <1>7, <2>1, AfterSound
  <2>3. f \in Attempts \cup {0}
    BY <1>1, <1>4, <2>1 DEF EventRecord
  <2>4. known.execution = b /\ known.fence = d
    BY <1>5 DEF StreamOf
  <2>5. k.fence = d
    BY <1>5 DEF StreamOf
  <2>6. y = [k EXCEPT !.fence[t] = f]
    BY <1>7, <2>4, <2>5 DEF Replayed, known, ids, id
  <2> DEFINE execution == [b EXCEPT ![t] = x]
             fence == [d EXCEPT ![t] = f]
  <2>7. execution \in [Task -> Execution] /\ fence \in [Task -> Attempts \cup {0}]
        /\ \A u \in Task : ReceiptsBack(J, u, execution[u])
    BY <1>4, <2>1, <2>2, <2>3
  <2>8. k = [known EXCEPT !.execution = execution] /\ [k EXCEPT !.fence[t] = f] = [k EXCEPT !.fence = fence]
    BY <2>4, <2>5
  <2> HIDE DEF x, f, execution, fence, k
  <2>9. k = StreamOf(a, execution, ids, d, r)
    BY <1>5, <2>8 DEF StreamOf
  <2>13. [k EXCEPT !.fence = fence] = StreamOf(a, execution, ids, fence, r)
    BY <2>9 DEF StreamOf
  <2>10. y = StreamOf(a, execution, ids, fence, r)
    BY <2>6, <2>8, <2>13, Zenon
  <2> HIDE DEF y
  <2>11. /\ y.run = a /\ y.execution = execution /\ y.ids = ids /\ y.fence = fence /\ y.requeued = r
         /\ y = [run |-> y.run, execution |-> y.execution, ids |-> y.ids, fence |-> y.fence,
                 requeued |-> y.requeued]
    BY <2>10 DEF StreamOf
  <2>12. y \in Streams(J)
    BY <1>3, <1>4, <2>7, <2>11 DEF Streams
  <2> QED
    BY <2>12 DEF y
<1> QED
  BY <1>6, <1>7

Flushes(J) == [ok : BOOLEAN, stream : Streams(J)]

LEMMA AppendedSound ==
    ASSUME NEW J, NEW acc \in Flushes(J), NEW ev \in Events(J)
    PROVE  Appended(acc, ev) \in Flushes(J)
<1>1. /\ acc.ok \in BOOLEAN /\ acc.stream \in Streams(J)
      /\ acc = [ok |-> acc.ok, stream |-> acc.stream]
  BY DEF Flushes
<1>2. Replayed(acc.stream, ev) \in Streams(J)
  BY <1>1, ReplayedSound
<1>3. [acc EXCEPT !.stream = Replayed(acc.stream, ev)] \in Flushes(J)
  BY <1>2 DEF Flushes
<1>4. [acc EXCEPT !.ok = FALSE] \in Flushes(J)
  BY DEF Flushes
<1> QED
  BY <1>3, <1>4 DEF Appended

LEMMA FlushedSound ==
    ASSUME NEW J, NEW st \in Streams(J), NEW s \in Seq(Events(J))
    PROVE  Flushed(st, s).stream \in Streams(J)
<1> DEFINE D == DOMAIN s
           X == Flushes(J)
           b == [ok |-> TRUE, stream |-> st]
           ch == Newest(D)
           Is(f) == f = [u \in SUBSET D |-> IF u = {} THEN b
                                            ELSE Appended(f[u \ {Max(u)}], s[Max(u)])]
           it == CHOOSE f : Is(f)
           G == [p \in D \X X |-> Appended(p[2], s[p[1]])]
<1>2. IsFiniteSet(D) /\ Chooses(ch, D) /\ \A i \in D : s[i] \in Events(J)
  BY LastChooses
<1>3. Flushed(st, s) = it[D]
  BY DEF Flushed, FoldLeft, MapThenFoldSet
<1>4. b \in X
  BY DEF Flushes
<1>5. \A i \in D, r \in X : Appended(r, s[i]) \in X
  BY <1>2, AppendedSound
<1>6. \A i \in D, r \in X : G[<<i, r>>] = Appended(r, s[i])
  OBVIOUS
<1>7. \A u \in SUBSET D : ch[u] = Max(u)
  BY DEF Newest
<1> HIDE DEF D, X, ch, G, b
<1>8. PICK g : Folding(g, D, b, ch, G)
  BY <1>2, <1>4, <1>5, <1>6, FoldExists
<1>9. g \in [SUBSET D -> X]
  <2>1. IsFiniteSet(D) /\ Chooses(ch, D) /\ \A x \in D, v \in X : G[<<x, v>>] \in X
    BY <1>2, <1>5, <1>6
  <2> QED
    BY <1>4, <1>8, <2>1, FoldTyped
<1>10. Is(g)
  <2>1. ASSUME NEW u \in SUBSET D, u # {}
        PROVE  g[u] = Appended(g[u \ {Max(u)}], s[Max(u)])
    <3>1. ch[u] \in u /\ ch[u] = Max(u) /\ ch[u] \in D
      BY <1>2, <1>7, <2>1 DEF Chooses
    <3>2. g[u \ {ch[u]}] \in X
      BY <1>9
    <3>3. g[u] = G[<<ch[u], g[u \ {ch[u]}]>>]
      BY <1>8, <2>1 DEF Folding
    <3> QED
      BY <1>6, <3>1, <3>2, <3>3
  <2>2. g = [u \in SUBSET D |-> g[u]] /\ g[{}] = b
    BY <1>8 DEF Folding
  <2> QED
    BY <2>1, <2>2
<1>11. Is(it)
  <2> HIDE DEF Is
  <2> QED
    BY <1>10
<1> HIDE DEF it
<1>12. /\ it[{}] = b
       /\ \A u \in SUBSET D : u # {} => it[u] = Appended(it[u \ {Max(u)}], s[Max(u)])
  BY <1>11
<1> HIDE DEF Is
<1>13. ASSUME NEW u \in SUBSET D, u # {}, it[u \ {ch[u]}] \in X PROVE it[u] \in X
  <2>1. ch[u] = Max(u) /\ ch[u] \in D
    BY <1>2, <1>7, <1>13 DEF Chooses
  <2> QED
    BY <1>5, <1>12, <1>13, <2>1
<1>14. it[D] \in X
  BY <1>2, <1>4, <1>12, <1>13, FoldStays
<1> QED
  BY <1>3, <1>14 DEF X, Flushes

LEMMA BufferedSound ==
    ASSUME NEW X, NEW p \in Seq(X), NEW s \in Seq(X)
    PROVE  Buffered(p, s) \in Seq(X)
<1> DEFINE f == [i \in DOMAIN s |->
                 IF \E k \in DOMAIN p : IdentityOf(p[k]) = IdentityOf(s[i])
                 THEN <<>> ELSE <<s[i]>>]
<1>1. Len(s) \in Nat /\ DOMAIN s = 1..Len(s) /\ \A i \in DOMAIN s : s[i] \in X
  OBVIOUS
<1>2. ASSUME NEW i \in DOMAIN s PROVE f[i] \in Seq(X)
  <2>1. <<>> \in Seq(X) /\ <<s[i]>> \in Seq(X)
    BY <1>1
  <2>2. f[i] \in {<<>>, <<s[i]>>}
    OBVIOUS
  <2> QED
    BY <2>1, <2>2
<1>3. f = [i \in 1..Len(s) |-> f[i]]
  BY <1>1
<1> HIDE DEF f
<1>4. f \in Seq(Seq(X))
  BY <1>1, <1>2, <1>3
<1>5. FlattenSeq(f) \in Seq(X)
  BY <1>4, FlattenTyped
<1>6. Buffered(p, s) = p \o FlattenSeq(f)
  BY DEF Buffered, f
<1> QED
  BY <1>5, <1>6

-----------------------------------------------------------------------------
\* What a project is created with, opened with and decided to be.

LEMMA CreatedSound ==
    ASSUME NEW J
    PROVE  NewRun \in Runs(J) /\ NoStream \in Streams(J) /\ CreatedEvents \in Seq(Events(J))
<1>1. NewTask \in QueueTask /\ \A t \in Task : TaskSound(J, t, NewTask)
  BY DEF NewTask, QueueTask, TaskStatus, TaskSound
<1>2. NewRun \in Runs(J)
  BY <1>1 DEF NewRun, Runs, RunState, RunStatus, TasksSound
<1>3. NoExecution \in Execution /\ \A t \in Task : ReceiptsBack(J, t, NoExecution)
  BY DEF NoExecution, Execution, ReceiptsBack
<1>4. NoStream \in Streams(J)
  BY <1>3 DEF NoStream, Streams
<1>5. QueueEvent("run", Strict("RunCreated", 0), 0, 1) \in Events(J)
  BY MadeRunEvent DEF RunType
<1>6. Strict("TaskQueued", 0) \in TaskEvent /\ Strict("TaskQueued", 0).type = "TaskQueued"
  <2>1. "TaskQueued" \in EventType \ AttemptEvents
    BY DEF EventType, AttemptEvents
  <2>2. Strict("TaskQueued", 0).type = "TaskQueued"
    BY DEF Strict
  <2> QED
    BY <2>1, <2>2 DEF TaskEvent
<1> DEFINE rest == [i \in DOMAIN Order |->
                      QueueEvent(Order[i], Strict("TaskQueued", 0), 0, i + 1)]
<1>7. Len(Order) \in Nat /\ DOMAIN Order = 1..Len(Order) /\ \A i \in DOMAIN Order : Order[i] \in Task
  BY OrderAssumption
<1>8. ASSUME NEW i \in DOMAIN Order PROVE rest[i] \in Events(J)
  <2>1. i + 1 \in Nat /\ 0 \in Nat /\ Order[i] \in Task
    BY <1>7
  <2>2. BackedBy(J, Order[i], Strict("TaskQueued", 0))
    BY <1>6 DEF BackedBy
  <2> QED
    BY <1>6, <2>1, <2>2, MadeEvent
<1>9. rest = [i \in 1..Len(Order) |-> rest[i]]
  BY <1>7
<1>10. CreatedEvents = <<QueueEvent("run", Strict("RunCreated", 0), 0, 1)>> \o rest
  BY DEF CreatedEvents
<1> HIDE DEF rest
<1>11. rest \in Seq(Events(J))
  BY <1>7, <1>8, <1>9
<1>12. CreatedEvents \in Seq(Events(J))
  BY <1>5, <1>10, <1>11
<1> QED
  BY <1>2, <1>4, <1>12

LEMMA ReconciledRunSound ==
    ASSUME NEW J, NEW run \in Runs(J), NEW st \in Streams(J)
    PROVE  ReconciledRun(run, st) \in Runs(J)
<1> DEFINE fence(t) == st.fence[t]
           x(t) == run.tasks[t]
           y(t) == FenceApplied(x(t), fence(t))
           z(t) == FenceRepaired(y(t))
           after == Reconciliation(run, st)
<1>1. run.status \in RunStatus /\ TasksSound(J, run.tasks)
  BY DEF Runs, RunState
<1>2. \A t \in Task : fence(t) \in 0..MaxAttempt
  BY AttemptsNat, StreamParts
<1>3. ASSUME NEW t \in Task PROVE y(t) \in QueueTask /\ TaskSound(J, t, y(t))
  <2>1. x(t) \in QueueTask /\ TaskSound(J, t, x(t)) /\ fence(t) \in Attempts \cup {0}
    BY <1>1, <1>2, AttemptsNat DEF TasksSound
  <2>2. fence(t) > 1 => fence(t) - 1 \in Attempts \cup {0}
    BY <1>2, AttemptsNat
  <2> HIDE DEF x, fence
  <2> DEFINE w == [status |-> "queued", attempt |-> IF fence(t) > 1 THEN fence(t) - 1 ELSE x(t).attempt,
                   current |-> 0, pending |-> fence(t)]
  <2>3. w \in QueueTask
    BY <2>1, <2>2 DEF QueueTask, TaskStatus
  <2>4. TaskSound(J, t, w)
    BY DEF TaskSound
  <2>5. y(t) \in {x(t), w}
    BY DEF FenceApplied
  <2> HIDE DEF w, y
  <2> QED
    BY <2>1, <2>3, <2>4, <2>5
<1>4. ASSUME NEW t \in Task PROVE z(t) \in QueueTask /\ TaskSound(J, t, z(t))
  <2>1. y(t) \in QueueTask /\ TaskSound(J, t, y(t))
    BY <1>3
  <2> HIDE DEF y
  <2> DEFINE w == [y(t) EXCEPT !.pending = 0]
  <2>2. w \in QueueTask /\ w.status = y(t).status /\ w.attempt = y(t).attempt
    BY <2>1 DEF QueueTask
  <2>3. TaskSound(J, t, w)
    BY <2>1, <2>2 DEF TaskSound
  <2>4. z(t) \in {y(t), w}
    BY DEF FenceRepaired
  <2> HIDE DEF w, z
  <2> QED
    BY <2>1, <2>2, <2>3, <2>4
<1> DEFINE T == [t \in Task |-> z(t)]
           status == IF st.requeued /\ run.status # "succeeded" THEN "queued" ELSE run.status
<1>5. after = [status |-> status, tasks |-> T]
  BY DEF Reconciliation
<1>6. status \in RunStatus
  BY <1>1 DEF RunStatus
<1>7. TasksSound(J, T)
  <2> HIDE DEF z
  <2> QED
    BY <1>4 DEF TasksSound
<1> HIDE DEF T, status, after
<1>8. after \in Runs(J)
  BY <1>5, <1>6, <1>7 DEF Runs, RunState, TasksSound
<1>9. Snapshot(Restored(after)) \in Runs(J)
  BY <1>8, RestoredSound, SnapshotSound
<1> QED
  BY <1>9 DEF ReconciledRun, after

\* What a decision makes of a task.
DecidedTask(x, y) ==
    \/ y.status = x.status
    \/ y.status = "queued" /\ y.pending \in Attempts
    \/ y.status = "failed" /\ y.attempt \in Attempts
    \/ y.status = "blocked"

LEMMA RetriedSound ==
    ASSUME NEW J, NEW run \in Runs(J), Decidable(run, "retry")
    PROVE  /\ Retried(run) \in Runs(J)
           /\ \A t \in Task : DecidedTask(run.tasks[t], Retried(run).tasks[t])
<1> DEFINE y(t) == IF t \in RetryTasks(run)
                   THEN [status |-> "queued", attempt |-> run.tasks[t].attempt, current |-> 0,
                         pending |-> run.tasks[t].attempt + 1]
                   ELSE run.tasks[t]
           T == [t \in Task |-> y(t)]
<1>1. TasksSound(J, run.tasks)
  BY DEF Runs
<1>2. \A t \in RetryTasks(run) : run.tasks[t].attempt < MaxAttempt
  BY DEF Decidable
<1>3. ASSUME NEW t \in Task
      PROVE  y(t) \in QueueTask /\ TaskSound(J, t, y(t)) /\ DecidedTask(run.tasks[t], y(t))
  <2> DEFINE a == run.tasks[t].attempt
  <2>1. run.tasks[t] \in QueueTask /\ TaskSound(J, t, run.tasks[t])
    BY <1>1 DEF TasksSound
  <2>2. a \in 0..MaxAttempt
    BY <2>1, AttemptsNat DEF QueueTask
  <2>3. CASE t \in RetryTasks(run)
    <3>1. a + 1 \in Attempts
      BY <1>2, <2>2, <2>3, AttemptsNat DEF Attempts
    <3> DEFINE w == [status |-> "queued", attempt |-> a, current |-> 0, pending |-> a + 1]
    <3>2. a \in Attempts \cup {0}
      BY <2>2, AttemptsNat
    <3> HIDE DEF a
    <3>3. w \in QueueTask /\ w.status = "queued" /\ w.pending \in Attempts
      BY <3>1, <3>2 DEF QueueTask, TaskStatus
    <3>4. y(t) = w
      BY <2>3 DEF a
    <3> HIDE DEF w, y
    <3> QED
      BY <3>3, <3>4 DEF TaskSound, DecidedTask
  <2>4. CASE t \notin RetryTasks(run)
    <3>1. y(t) = run.tasks[t]
      BY <2>4
    <3> HIDE DEF y
    <3> QED
      BY <2>1, <3>1 DEF DecidedTask
  <2> QED
    BY <2>3, <2>4
<1>4. Retried(run) = [status |-> "queued", tasks |-> T]
  BY DEF Retried
<1> HIDE DEF y
<1>5. TasksSound(J, T) /\ \A t \in Task : DecidedTask(run.tasks[t], T[t])
  BY <1>3 DEF TasksSound
<1> HIDE DEF T
<1> QED
  BY <1>4, <1>5 DEF Runs, RunState, TasksSound, RunStatus

LEMMA SkippedSound ==
    ASSUME NEW J, NEW run \in Runs(J)
    PROVE  /\ Skipped(run) \in Runs(J)
           /\ \A t \in Task : DecidedTask(run.tasks[t], Skipped(run).tasks[t])
<1> DEFINE y(t) == IF t \in PlanTasks(run) THEN Turned(run.tasks[t], "failed") ELSE run.tasks[t]
           T == [t \in Task |-> y(t)]
           failed == [status |-> "partial", tasks |-> T]
           q == Restored(failed)
           r == Reconciled(q)
<1>1. TasksSound(J, run.tasks)
  BY DEF Runs
<1>2. ASSUME NEW t \in Task
      PROVE  /\ y(t) \in QueueTask /\ TaskSound(J, t, y(t))
             /\ y(t).status = run.tasks[t].status
                  \/ (y(t).status = "failed" /\ y(t).attempt \in Attempts)
  <2>1. run.tasks[t] \in QueueTask /\ TaskSound(J, t, run.tasks[t]) /\ "failed" \in TaskStatus
    BY <1>1 DEF TasksSound, TaskStatus
  <2>2. CASE t \in PlanTasks(run)
    <3>1. run.tasks[t].attempt \in Attempts
      BY <2>1, <2>2 DEF PlanTasks, TaskSound
    <3>2. y(t) = Turned(run.tasks[t], "failed")
      BY <2>2
    <3> HIDE DEF y
    <3>3. y(t) \in QueueTask /\ y(t).status = "failed" /\ y(t).attempt \in Attempts
      BY <2>1, <3>1, <3>2, TurnedTyped
    <3> QED
      BY <3>3 DEF TaskSound
  <2>3. CASE t \notin PlanTasks(run)
    BY <2>1, <2>3
  <2> QED
    BY <2>2, <2>3
<1>3. Skipped(run) = Snapshot(r)
  BY DEF Skipped, Turned
<1> HIDE DEF y
<1>4. TasksSound(J, T)
  BY <1>2 DEF TasksSound
<1>5. failed \in Runs(J) /\ failed.tasks = T
  BY <1>4 DEF Runs, RunState, RunStatus, TasksSound
<1>6. \A t \in Task : T[t] = y(t)
  OBVIOUS
<1> HIDE DEF T, failed
<1>7. /\ q \in Queues(J)
      /\ \A t \in Task : q.tasks[t].status = T[t].status /\ q.tasks[t].attempt = T[t].attempt
  BY <1>5, RestoredSound
<1> HIDE DEF q
<1>8. r \in Queues(J) /\ OnlyBlocks(q.tasks, r.tasks)
  BY <1>7, ReconciledSound
<1> HIDE DEF r
<1>9. Snapshot(r) \in Runs(J) /\ Snapshot(r).tasks = r.tasks
  BY <1>8, SnapshotSound
<1>10. ASSUME NEW t \in Task PROVE DecidedTask(run.tasks[t], r.tasks[t])
  <2>1. CASE r.tasks[t] = q.tasks[t]
    BY <1>2, <1>6, <1>7, <2>1 DEF DecidedTask
  <2>2. CASE r.tasks[t] = Turned(q.tasks[t], "blocked")
    <3>1. q.tasks[t] \in QueueTask /\ "blocked" \in TaskStatus
      BY <1>7, QueueParts DEF TasksSound, TaskStatus
    <3> QED
      BY <2>2, <3>1, TurnedTyped DEF DecidedTask
  <2> QED
    BY <1>8, <2>1, <2>2 DEF OnlyBlocks
<1> QED
  BY <1>3, <1>9, <1>10

LEMMA DecidedSound ==
    ASSUME NEW J, NEW run \in Runs(J), NEW decision \in {"retry", "skip"},
           Decidable(run, decision)
    PROVE  /\ Decided(run, decision) \in Runs(J)
           /\ \A t \in Task : DecidedTask(run.tasks[t], Decided(run, decision).tasks[t])
<1>1. CASE decision = "retry"
  BY <1>1, RetriedSound DEF Decided
<1>2. CASE decision = "skip"
  BY <1>2, SkippedSound DEF Decided
<1> QED
  BY <1>1, <1>2

LEMMA DecisionEventsSound ==
    ASSUME NEW J, NEW before \in Runs(J), NEW after \in Runs(J), NEW decision, NEW id \in Nat,
           \A t \in Task : DecidedTask(before.tasks[t], after.tasks[t])
    PROVE  DecisionEvents(before, after, decision, id) \in Seq(Events(J))
<1> DEFINE E(t) == TaskDecisionEvents(before, after, decision, id, t)
           f == [i \in DOMAIN Order |-> E(Order[i])]
           head == IF after.status = before.status THEN <<>>
                   ELSE <<QueueEvent("run", Strict(IF after.status = "queued" THEN "RunQueued"
                                                   ELSE "RunPartial", 0), id, 0)>>
           S == Seq(Events(J))
<1>0. /\ <<>> \in S /\ \A ev \in Events(J) : <<ev>> \in S
      /\ \A a, b \in S : a \o b \in S
  OBVIOUS
<1>1. head \in S
  <2>1. ASSUME NEW type \in {"RunQueued", "RunPartial"}
        PROVE  QueueEvent("run", Strict(type, 0), id, 0) \in Events(J)
    BY MadeRunEvent DEF RunType
  <2> HIDE DEF S
  <2> QED
    BY <1>0, <2>1
<1>2. ASSUME NEW t \in Task PROVE E(t) \in S
  <2> DEFINE x == before.tasks[t]
             y == after.tasks[t]
             Made(e) == QueueEvent(t, e, id, 0)
             u == IF decision = "retry" /\ x.status = "running" /\ x.current # 0
                  THEN <<Made(Strict("TaskAttemptMarkedUnknown", x.current))>> ELSE <<>>
             v == CASE y.status = "queued" -> Made(Fence(y.pending))
                    [] y.status = "failed" -> Made(Strict("TaskFailed", y.attempt))
                    [] y.status = "blocked" -> Made(Strict("TaskBlocked", 0))
  <2>1. x \in QueueTask /\ y \in QueueTask /\ DecidedTask(x, y)
    BY DEF Runs, RunState
  <2>2. \A e \in TaskEvent : BackedBy(J, t, e) => Made(e) \in Events(J)
    BY MadeEvent
  <2>3. x.current # 0 => Made(Strict("TaskAttemptMarkedUnknown", x.current)) \in Events(J)
    <3>1. x.current # 0 => x.current \in Attempts
      BY <2>1 DEF QueueTask
    <3> HIDE DEF Made
    <3> QED
      BY <2>2, <3>1, StrictEvents DEF BackedBy, AttemptEvents
  <2>4. \A a \in Attempts : Made(Fence(a)) \in Events(J) /\ Made(Strict("TaskFailed", a)) \in Events(J)
    <3> HIDE DEF Made
    <3> QED
      BY <2>2, StrictEvents DEF BackedBy, AttemptEvents
  <2>5. Made(Strict("TaskBlocked", 0)) \in Events(J)
    <3> HIDE DEF Made
    <3> QED
      BY <2>2, StrictEvents DEF BackedBy
  <2>6. u \in S
    <3> HIDE DEF Made, S
    <3> QED
      BY <1>0, <2>3
  <2>7. E(t) = IF x.status = y.status THEN <<>> ELSE u \o <<v>>
    BY DEF TaskDecisionEvents
  <2>8. x.status # y.status => v \in Events(J)
    <3> HIDE DEF Made, x, y
    <3> QED
      BY <2>1, <2>4, <2>5 DEF DecidedTask
  <2> HIDE DEF u, v, S, E
  <2> QED
    BY <1>0, <2>6, <2>7, <2>8
<1>3. Len(Order) \in Nat /\ DOMAIN Order = 1..Len(Order) /\ \A i \in DOMAIN Order : Order[i] \in Task
  BY OrderAssumption
<1>4. f = [i \in 1..Len(Order) |-> f[i]]
  BY <1>3
<1>5. \A i \in DOMAIN Order : f[i] \in S
  <2> HIDE DEF E, S
  <2> QED
    BY <1>2, <1>3
<1>6. DecisionEvents(before, after, decision, id) = head \o FlattenSeq(f)
  BY DEF DecisionEvents
<1> HIDE DEF f, head
<1>7. f \in Seq(S)
  BY <1>3, <1>4, <1>5
<1>8. FlattenSeq(f) \in S
  BY <1>7, FlattenTyped
<1> QED
  BY <1>0, <1>1, <1>6, <1>8

-----------------------------------------------------------------------------
\* A journal that keeps its receipts backs what it backed.

Keeps(J, K) == \A t \in Task, a \in Attempts : J[t][a] = "succeeded" => K[t][a] = "succeeded"

LEMMA KeepsBacked ==
    ASSUME NEW J, NEW K, Keeps(J, K)
    PROVE  /\ Seq(Events(J)) \subseteq Seq(Events(K))
           /\ Runs(J) \subseteq Runs(K)
           /\ Queues(J) \subseteq Queues(K)
           /\ Streams(J) \subseteq Streams(K)
<1>1. ASSUME NEW ev \in Events(J) PROVE ev \in Events(K)
  <2>1. ev \in [task : Task \cup {"run"}, e : EventRecord, tag : Nat, n : Nat]
    BY DEF Events
  <2>2. ev.task # "run" => ev.task \in Task
    BY <2>1
  <2>3. IF ev.task = "run" THEN ev.e.type \in RunType
        ELSE ev.e \in TaskEvent /\ BackedBy(J, ev.task, ev.e)
    BY DEF Events
  <2>4. ev.task # "run" => BackedBy(K, ev.task, ev.e)
    BY <2>2, <2>3 DEF BackedBy, Keeps
  <2> QED
    BY <2>1, <2>3, <2>4 DEF Events
<1>2. ASSUME NEW s \in Seq(Events(J)) PROVE s \in Seq(Events(K))
  BY <1>1, SeqMonotonic
<1>3. ASSUME NEW tasks, TasksSound(J, tasks) PROVE TasksSound(K, tasks)
  BY <1>3 DEF TasksSound, TaskSound, Keeps
<1>4. Runs(J) \subseteq Runs(K)
  BY <1>3 DEF Runs
<1>5. Queues(J) \subseteq Queues(K)
  <2> SUFFICES ASSUME NEW q \in Queues(J) PROVE q \in Queues(K)
    OBVIOUS
  <2>1. /\ q.status \in RunStatus /\ TasksSound(K, q.tasks) /\ q.started \in BOOLEAN
        /\ q.events \in Seq(Events(K)) /\ q.seq \in Nat
        /\ q = [status |-> q.status, tasks |-> q.tasks, started |-> q.started,
                events |-> q.events, seq |-> q.seq]
    BY <1>2, <1>3, QueueParts DEF QueueOf
  <2> QED
    BY <2>1 DEF Queues, TasksSound
<1>6. Streams(J) \subseteq Streams(K)
  BY DEF Streams, ReceiptsBack, Keeps
<1> QED
  BY <1>2, <1>4, <1>5, <1>6

\* The queue of a driver is sound, and a lease is at the attempt its task has in it.
Held(J, q, l) ==
    /\ q \in Queues(J)
    /\ l \in [Task -> Lease]
    /\ \A t \in Task :
         l[t].stage \in {"leased", "claimed", "executed"} =>
           l[t].attempt \in Attempts /\ q.tasks[t].attempt = l[t].attempt

Holds(J, d) ==
    \E p, q, l, s, n, b, r : d = Fields(p, q, l, s, n, b, r) /\ Held(J, q, l)

LEMMA FieldsHold ==
    ASSUME NEW J, NEW q, NEW l, Held(J, q, l), NEW p, NEW s, NEW n, NEW b, NEW r
    PROVE  Holds(J, Fields(p, q, l, s, n, b, r))
BY DEF Holds

LEMMA HoldsFields ==
    ASSUME NEW J, NEW d, Holds(J, d)
    PROVE  /\ d = Fields(d.phase, d.queue, d.lease, d.save, d.next,
                         d.terminalized, d.rejected)
           /\ Held(J, d.queue, d.lease)
           /\ d.queue \in Queues(J)
<1>1. PICK p, q, l, s, n, b, r : d = Fields(p, q, l, s, n, b, r) /\ Held(J, q, l)
  BY DEF Holds
<1>2. /\ d.phase = p /\ d.queue = q /\ d.lease = l /\ d.save = s /\ d.next = n
      /\ d.terminalized = b /\ d.rejected = r
  BY <1>1 DEF Fields
<1> QED
  BY <1>1, <1>2 DEF Held

LEMMA NoLeasesHeld ==
    ASSUME NEW J, NEW q \in Queues(J)
    PROVE  Held(J, q, NoLeases)
BY DEF Held, NoLeases, NoLease, Lease

LEMMA DriverHolds ==
    ASSUME NEW J, NEW q \in Queues(J)
    PROVE  Holds(J, Driver(q))
<1>1. Driver(q) = Fields("idle", q, NoLeases, "none", "none", FALSE, FALSE)
  BY DEF Driver, Fields
<1> QED
  BY <1>1, NoLeasesHeld, FieldsHold

LEMMA EventsCleared ==
    ASSUME NEW J, NEW q \in Queues(J)
    PROVE  /\ [q EXCEPT !.events = <<>>] \in Queues(J)
           /\ [q EXCEPT !.events = <<>>].tasks = q.tasks
<1> DEFINE r == [q EXCEPT !.events = <<>>]
<1>1. r = QueueOf(q.status, q.tasks, q.started, <<>>, q.seq)
  BY QueueField
<1>2. <<>> \in Seq(Events(J))
  OBVIOUS
<1>3. /\ q.status \in RunStatus /\ TasksSound(J, q.tasks) /\ q.started \in BOOLEAN
      /\ q.seq \in Nat
  BY QueueParts
<1> HIDE DEF r
<1>4. /\ r.status = q.status /\ r.tasks = q.tasks /\ r.started = q.started
      /\ r.events = <<>> /\ r.seq = q.seq
      /\ r = [status |-> r.status, tasks |-> r.tasks, started |-> r.started,
              events |-> r.events, seq |-> r.seq]
  BY <1>1 DEF QueueOf
<1>5. r \in Queues(J)
  BY <1>2, <1>3, <1>4 DEF Queues, TasksSound
<1> QED
  BY <1>4, <1>5 DEF r

\* Every way a step gives fields of a driver other values, the queue set apart.
LEMMA UpdateHolds ==
    ASSUME NEW J, NEW d, Holds(J, d), NEW v
    PROVE  /\ Holds(J, [d EXCEPT !.phase = v])
           /\ Holds(J, [d EXCEPT !.queue.events = <<>>])
           /\ Holds(J, [d EXCEPT !.lease = NoLeases])
           /\ Holds(J, [d EXCEPT !.save = v])
           /\ Holds(J, [d EXCEPT !.next = v])
           /\ Holds(J, [d EXCEPT !.terminalized = v])
           /\ Holds(J, [d EXCEPT !.rejected = v])
<1>1. PICK p, q, l, s, n, b, r : d = Fields(p, q, l, s, n, b, r) /\ Held(J, q, l)
  BY DEF Holds
<1>2. Held(J, q, NoLeases)
  BY <1>1, NoLeasesHeld DEF Held
<1>3. Held(J, [q EXCEPT !.events = <<>>], l)
  BY <1>1, EventsCleared DEF Held
<1>4. /\ [d EXCEPT !.phase = v] = Fields(v, q, l, s, n, b, r)
      /\ [d EXCEPT !.queue.events = <<>>] = Fields(p, [q EXCEPT !.events = <<>>], l, s, n, b, r)
  BY <1>1 DEF Fields
<1>5. /\ [d EXCEPT !.lease = NoLeases] = Fields(p, q, NoLeases, s, n, b, r)
      /\ [d EXCEPT !.save = v] = Fields(p, q, l, v, n, b, r)
      /\ [d EXCEPT !.next = v] = Fields(p, q, l, s, v, b, r)
  BY <1>1 DEF Fields
<1>6. /\ [d EXCEPT !.terminalized = v] = Fields(p, q, l, s, n, v, r)
      /\ [d EXCEPT !.rejected = v] = Fields(p, q, l, s, n, b, v)
  BY <1>1 DEF Fields
<1> QED
  BY <1>1, <1>2, <1>3, <1>4, <1>5, <1>6, FieldsHold

LEMMA NoDriverHolds ==
    ASSUME NEW J
    PROVE  Holds(J, NoDriver)
<1>1. Restored(NewRun) \in Queues(J)
  BY CreatedSound, RestoredSound
<1>2. Holds(J, Driver(Restored(NewRun)))
  BY <1>1, DriverHolds
<1>3. Holds(J, [Driver(Restored(NewRun)) EXCEPT !.phase = "ended"])
  BY <1>2, UpdateHolds
<1> QED
  BY <1>3 DEF NoDriver

LEMMA RestHolds ==
    ASSUME NEW J, NEW d, Holds(J, d), NEW s
    PROVE  Holds(J, Rest(s, d))
BY HoldsFields, DriverHolds, NoDriverHolds DEF Rest

LEMMA QueueHolds ==
    ASSUME NEW J, NEW d, NEW q, NEW l, Held(J, q, l),
           NEW K, Holds(K, d)
    PROVE  /\ Holds(J, [d EXCEPT !.queue = q, !.lease = l])
           /\ l = d.lease => Holds(J, [d EXCEPT !.queue = q])
<1>1. PICK p, o, k, s, n, b, r : d = Fields(p, o, k, s, n, b, r) /\ d.lease = k
  BY DEF Holds, Fields
<1>2. [d EXCEPT !.queue = q, !.lease = l] = Fields(p, q, l, s, n, b, r)
  <2> DEFINE x == [d EXCEPT !.queue = q]
  <2>1. x = Fields(p, q, k, s, n, b, r)
    BY <1>1 DEF Fields
  <2>2. [d EXCEPT !.queue = q, !.lease = l] = [x EXCEPT !.lease = l]
    OBVIOUS
  <2> HIDE DEF x
  <2>3. [x EXCEPT !.lease = l] = Fields(p, q, l, s, n, b, r)
    BY <2>1 DEF Fields
  <2> QED
    BY <2>2, <2>3
<1>3. [d EXCEPT !.queue = q] = Fields(p, q, k, s, n, b, r)
  BY <1>1 DEF Fields
<1> QED
  BY <1>1, <1>2, <1>3, FieldsHold

LEMMA UpdatesHold ==
    ASSUME NEW J, NEW d, Holds(J, d), NEW v, NEW w, NEW u
    PROVE  /\ Holds(J, [d EXCEPT !.save = v, !.next = w, !.phase = u])
           /\ Holds(J, [d EXCEPT !.save = v, !.next = w, !.queue.events = <<>>])
           /\ Holds(J, [d EXCEPT !.phase = v, !.lease = NoLeases, !.terminalized = w])
           /\ Holds(J, Saving(d, v, w))
<1>1. /\ Holds(J, [d EXCEPT !.save = v])
      /\ Holds(J, [d EXCEPT !.phase = v])
      /\ Holds(J, [d EXCEPT !.phase = "save"])
  BY UpdateHolds
<1>2. /\ Holds(J, [[d EXCEPT !.save = v] EXCEPT !.next = w])
      /\ Holds(J, [[d EXCEPT !.phase = v] EXCEPT !.lease = NoLeases])
      /\ Holds(J, [[d EXCEPT !.phase = "save"] EXCEPT !.save = w])
  BY <1>1, UpdateHolds
<1>3. Holds(J, [d EXCEPT !.save = v, !.next = w, !.phase = u])
  <2>1. [d EXCEPT !.save = v, !.next = w, !.phase = u]
          = [[[d EXCEPT !.save = v] EXCEPT !.next = w] EXCEPT !.phase = u]
    OBVIOUS
  <2> QED
    BY <1>2, <2>1, UpdateHolds
<1>4. Holds(J, [d EXCEPT !.save = v, !.next = w, !.queue.events = <<>>])
  <2>1. [d EXCEPT !.save = v, !.next = w, !.queue.events = <<>>]
          = [[[d EXCEPT !.save = v] EXCEPT !.next = w] EXCEPT !.queue.events = <<>>]
    OBVIOUS
  <2> QED
    BY <1>2, <2>1, UpdateHolds
<1>5. Holds(J, [d EXCEPT !.phase = v, !.lease = NoLeases, !.terminalized = w])
  <2>1. [d EXCEPT !.phase = v, !.lease = NoLeases, !.terminalized = w]
          = [[[d EXCEPT !.phase = v] EXCEPT !.lease = NoLeases] EXCEPT !.terminalized = w]
    OBVIOUS
  <2> QED
    BY <1>2, <2>1, UpdateHolds
<1>6. Holds(J, Saving(d, v, w))
  <2>1. ASSUME NEW x
        PROVE  [d EXCEPT !.phase = x, !.save = w, !.next = v]
                 = [[[d EXCEPT !.phase = x] EXCEPT !.save = w] EXCEPT !.next = v]
    OBVIOUS
  <2>2. Holds(J, [[[d EXCEPT !.phase = "save"] EXCEPT !.save = w] EXCEPT !.next = v])
    BY <1>2, UpdateHolds
  <2> QED
    BY <2>1, <2>2, Zenon DEF Saving
<1> QED
  BY <1>3, <1>4, <1>5, <1>6

LEMMA ResumedHolds ==
    ASSUME NEW J, NEW d, Holds(J, d), NEW s
    PROVE  Holds(J, Resumed(s, d))
<1> DEFINE done == [d EXCEPT !.save = "none", !.next = "none", !.queue.events = <<>>]
<1>1. Holds(J, done)
  BY UpdatesHold
<1>2. /\ Holds(J, Rest(s, done))
      /\ Holds(J, [done EXCEPT !.phase = "work"])
      /\ Holds(J, [done EXCEPT !.phase = "loop", !.lease = NoLeases,
                               !.terminalized = FALSE])
      /\ Holds(J, [d EXCEPT !.save = "none", !.next = "none", !.phase = "admit"])
      /\ Holds(J, Saving(d, "admit", "file"))
  BY <1>1, UpdateHolds, UpdatesHold, RestHolds
<1> QED
  BY <1>2 DEF Resumed

LEMMA ReleasedHolds ==
    ASSUME NEW J, NEW d, Holds(J, d), NEW t \in Task
    PROVE  /\ Holds(J, Released(d, t))
           /\ Released(d, t).queue = d.queue
<1>1. PICK p, q, l, s, n, b, r : d = Fields(p, q, l, s, n, b, r) /\ Held(J, q, l)
  BY DEF Holds
<1> DEFINE k == [l EXCEPT ![t] = NoLease]
<1>2. Released(d, t) = Fields(p, q, k, s, n, b, r)
  BY <1>1 DEF Released, Fields
<1>3. NoLease \in Lease /\ NoLease.stage = "none"
  BY DEF NoLease, Lease
<1>4. k \in [Task -> Lease] /\ k[t] = NoLease /\ \A u \in Task \ {t} : k[u] = l[u]
  BY <1>1, <1>3 DEF Held
<1> HIDE DEF k
<1>5. Held(J, q, k)
  BY <1>1, <1>3, <1>4 DEF Held
<1>6. Released(d, t).queue = q /\ d.queue = q
  BY <1>1, <1>2 DEF Fields
<1> QED
  BY <1>2, <1>5, <1>6, FieldsHold

\* A queue whose tasks have the attempts the leases were taken at.
LEMMA ChangedHolds ==
    ASSUME NEW J, NEW d, Holds(J, d), NEW q \in Queues(J),
           SameAttempts(d.queue.tasks, q.tasks), NEW v
    PROVE  Holds(J, [d EXCEPT !.queue = q, !.terminalized = v])
<1> DEFINE x == [d EXCEPT !.queue = q]
<1>1. Held(J, q, d.lease)
  BY HoldsFields DEF Held, SameAttempts
<1>2. Holds(J, x)
  BY <1>1, QueueHolds
<1>3. [d EXCEPT !.queue = q, !.terminalized = v] = [x EXCEPT !.terminalized = v]
  OBVIOUS
<1> HIDE DEF x
<1> QED
  BY <1>2, <1>3, UpdateHolds

LEMMA LeasedAttempt ==
    ASSUME NEW J, NEW d, Holds(J, d), NEW t \in Task,
           d.lease[t].stage \in {"leased", "claimed", "executed"}
    PROVE  d.lease[t].attempt \in Attempts /\ d.queue.tasks[t].attempt = d.lease[t].attempt
BY HoldsFields DEF Held

LEMMA MarkedHolds ==
    ASSUME NEW J, NEW d, Holds(J, d), NEW t \in Task,
           d.lease[t].stage \in {"leased", "claimed", "executed"},
           NEW status \in {"succeeded", "failed"},
           status = "succeeded" => J[t][d.lease[t].attempt] = "succeeded"
    PROVE  Holds(J, Marked(d, t, status))
<1> DEFINE x == Released(d, t)
           q == Completed(x.queue, t, status)
<1>1. Holds(J, x) /\ x.queue = d.queue /\ x.queue \in Queues(J)
  BY ReleasedHolds, HoldsFields
<1>2. d.queue.tasks[t].attempt \in Attempts /\ d.queue.tasks[t].attempt = d.lease[t].attempt
  BY LeasedAttempt
<1>3. q \in Queues(J) /\ SameAttempts(x.queue.tasks, q.tasks)
  BY <1>1, <1>2, CompletedSound
<1>4. Marked(d, t, status) = [x EXCEPT !.queue = q, !.terminalized = TRUE]
  BY DEF Marked
<1> HIDE DEF x, q
<1>5. Holds(J, [x EXCEPT !.queue = q, !.terminalized = TRUE])
  BY <1>1, <1>3, ChangedHolds
<1> QED
  BY <1>4, <1>5, Zenon

LEMMA WaitedHolds ==
    ASSUME NEW J, NEW d, Holds(J, d), NEW t \in Task,
           d.lease[t].stage \in {"leased", "claimed", "executed"}
    PROVE  Holds(J, [Released(d, t) EXCEPT !.queue = Parked(@, t), !.terminalized = TRUE])
<1> DEFINE x == Released(d, t)
           q == Parked(x.queue, t)
<1>1. Holds(J, x) /\ x.queue = d.queue /\ x.queue \in Queues(J)
  BY ReleasedHolds, HoldsFields
<1>2. d.queue.tasks[t].attempt \in Attempts
  BY LeasedAttempt
<1>3. q \in Queues(J) /\ SameAttempts(x.queue.tasks, q.tasks)
  BY <1>1, <1>2, ParkedSound
<1>4. [Released(d, t) EXCEPT !.queue = Parked(@, t), !.terminalized = TRUE]
        = [x EXCEPT !.queue = q, !.terminalized = TRUE]
  OBVIOUS
<1> HIDE DEF x, q
<1>5. Holds(J, [x EXCEPT !.queue = q, !.terminalized = TRUE])
  BY <1>1, <1>3, ChangedHolds
<1> QED
  BY <1>4, <1>5

LEMMA CaughtHolds ==
    ASSUME NEW J, NEW d, Holds(J, d), NEW t \in Task,
           d.lease[t].stage \in {"leased", "claimed", "executed"}, NEW s
    PROVE  Holds(J, Caught(s, d, t))
<1>1. Holds(J, Marked(d, t, "failed"))
  BY MarkedHolds
<1>2. Holds(J, [Released(d, t) EXCEPT !.rejected = TRUE])
  BY ReleasedHolds, UpdateHolds
<1> QED
  BY <1>1, <1>2 DEF Caught

LEMMA StagedHolds ==
    ASSUME NEW J, NEW d, Holds(J, d), NEW t \in Task, NEW stage \in {"claimed", "executed"},
           d.lease[t].stage \in {"leased", "claimed"}
    PROVE  Holds(J, [d EXCEPT !.lease[t].stage = stage])
<1>1. PICK p, q, l, s, n, b, r : d = Fields(p, q, l, s, n, b, r) /\ Held(J, q, l)
  BY DEF Holds
<1> DEFINE k == [l EXCEPT ![t].stage = stage]
<1>2. [d EXCEPT !.lease[t].stage = stage] = Fields(p, q, k, s, n, b, r) /\ d.lease = l
  BY <1>1 DEF Fields
<1>3. l \in [Task -> Lease] /\ l[t].attempt \in Attempts /\ q.tasks[t].attempt = l[t].attempt
  BY <1>1, <1>2 DEF Held
<1>4. /\ k \in [Task -> Lease]
      /\ k[t].stage = stage /\ k[t].attempt = l[t].attempt
      /\ \A u \in Task \ {t} : k[u] = l[u]
  BY <1>3 DEF Lease
<1> HIDE DEF k
<1>5. Held(J, q, k)
  BY <1>1, <1>3, <1>4 DEF Held
<1> QED
  BY <1>2, <1>5, FieldsHold

LEMMA HoldsKept ==
    ASSUME NEW J, NEW K, Keeps(J, K), NEW d, Holds(J, d)
    PROVE  Holds(K, d)
<1>1. Queues(J) \subseteq Queues(K)
  BY KeepsBacked
<1>2. PICK p, q, l, s, n, b, r : d = Fields(p, q, l, s, n, b, r) /\ Held(J, q, l)
  BY DEF Holds
<1>3. Held(K, q, l)
  BY <1>1, <1>2 DEF Held
<1> QED
  BY <1>2, <1>3, FieldsHold

-----------------------------------------------------------------------------
\* Every step keeps what the journal backs.

SInv ==
    /\ file \in Runs(journal)
    /\ app \in Runs(journal)
    /\ stream \in Streams(journal)
    /\ pending \in Seq(Events(journal))
    /\ decisions \in Nat
    /\ \A s \in Sessions : Holds(journal, driver[s])

\* The receipts stay, and what a step writes is backed.
SoundStep ==
    /\ Keeps(journal, journal')
    /\ file' = file \/ file' \in Runs(journal')
    /\ app' = app \/ app' \in Runs(journal')
    /\ stream' = stream \/ stream' \in Streams(journal')
    /\ pending' = pending \/ pending' \in Seq(Events(journal'))
    /\ decisions' \in Nat
    /\ \/ driver' = driver
       \/ \E s \in Sessions : \E x : Holds(journal', x) /\ Set(s, x)
       \/ driver' = [s \in Sessions |-> NoDriver]

LEMMA SoundKeeps ==
    ASSUME Typed, SInv, SoundStep
    PROVE  SInv'
<1>1. /\ Seq(Events(journal)) \subseteq Seq(Events(journal'))
      /\ Runs(journal) \subseteq Runs(journal')
      /\ Streams(journal) \subseteq Streams(journal')
  BY KeepsBacked DEF SoundStep
<1>2. \A s \in Sessions : Holds(journal', driver[s])
  BY HoldsKept DEF SInv, SoundStep
<1>3. \A s \in Sessions : Holds(journal', driver'[s])
  <2>1. CASE driver' = driver
    BY <1>2, <2>1
  <2>2. ASSUME NEW s \in Sessions, NEW x, Holds(journal', x), Set(s, x)
        PROVE  \A r \in Sessions : Holds(journal', driver'[r])
    BY <1>2, <2>2, SetDriver
  <2>3. CASE driver' = [s \in Sessions |-> NoDriver]
    BY <2>3, NoDriverHolds
  <2> QED
    BY <2>1, <2>2, <2>3 DEF SoundStep
<1>4. /\ file' \in Runs(journal') /\ app' \in Runs(journal')
      /\ stream' \in Streams(journal')
      /\ pending' \in Seq(Events(journal'))
      /\ decisions' \in Nat
  BY <1>1 DEF SInv, SoundStep
<1> QED
  BY <1>3, <1>4 DEF SInv

LEMMA SameKeeps ==
    ASSUME journal' = journal
    PROVE  Keeps(journal, journal')
BY DEF Keeps

\* A step of one driver that writes nothing else, or lost effects only.
LEMMA DriverSound ==
    ASSUME SInv, NEW s \in Sessions, NEW x, Set(s, x), Keeps(journal, journal'),
           Holds(journal', x), UNCHANGED <<file, app, stream, pending, decisions>>
    PROVE  SoundStep
BY DEF SoundStep, SInv

\* What a driver transition writes.
LEMMA TransitionSound ==
    ASSUME SInv, NEW s \in Sessions, NEW d, Holds(journal, d), NEW next,
           Transition(s, d, next), UNCHANGED <<file, stream, journal, decisions>>
    PROVE  SoundStep
<1>1. d.queue \in Queues(journal) /\ d.queue.events \in Seq(Events(journal))
  BY HoldsFields, QueueParts
<1>2. Keeps(journal, journal')
  BY SameKeeps
<1>3. CASE Set(s, NoDriver) /\ UNCHANGED <<app, pending>>
  <2>1. Holds(journal', NoDriver)
    BY NoDriverHolds
  <2> QED
    BY <1>2, <1>3, <2>1, DriverSound
<1>4. CASE Set(s, Resumed(s, [d EXCEPT !.next = next])) /\ UNCHANGED <<app, pending>>
  <2>1. Holds(journal', Resumed(s, [d EXCEPT !.next = next]))
    BY UpdateHolds, ResumedHolds
  <2> QED
    BY <1>2, <1>4, <2>1, DriverSound
<1>5. CASE /\ Set(s, Saving(d, next, "file"))
           /\ app' = Snapshot(d.queue)
           /\ pending' = Buffered(pending, d.queue.events)
  <2>1. Holds(journal', Saving(d, next, "file"))
    BY UpdatesHold
  <2>2. app' \in Runs(journal')
    BY <1>1, <1>5, SnapshotSound
  <2>3. pending' \in Seq(Events(journal'))
    BY <1>1, <1>5, BufferedSound DEF SInv
  <2> QED
    BY <1>2, <1>5, <2>1, <2>2, <2>3 DEF SoundStep, SInv
<1> QED
  BY <1>3, <1>4, <1>5 DEF Transition

LEMMA DriverOf ==
    ASSUME SInv, NEW s \in Sessions
    PROVE  /\ Holds(journal, driver[s])
           /\ driver[s].queue \in Queues(journal)
           /\ driver[s].queue.events \in Seq(Events(journal))
BY HoldsFields, QueueParts DEF SInv

LEMMA SaveSound ==
    ASSUME SInv, NEW s \in Sessions,
           \/ SaveFile(s) \/ SaveFlush(s) \/ SaveFails(s)
           \/ LateFlush(s) \/ LateFile(s) \/ LateSaveFails(s)
    PROVE  SoundStep
<1> DEFINE d == driver[s]
           buffer == Buffered(pending, d.queue.events)
<1>1. /\ Holds(journal, [d EXCEPT !.save = "flush"])
      /\ Holds(journal, Resumed(s, d))
      /\ Holds(journal, Rest(s, d))
      /\ Holds(journal, NoDriver)
      /\ Holds(journal, Saving(d, "settled", "late-file"))
  BY DriverOf, UpdateHolds, UpdatesHold, ResumedHolds, RestHolds, NoDriverHolds
<1>2. journal' = journal /\ decisions' = decisions
  BY DEF SaveFile, SaveFlush, SaveFails, LateFlush, LateFile, LateSaveFails, host
<1>3. Keeps(journal, journal')
  BY <1>2, SameKeeps
<1>4. /\ Flushed(stream, pending).stream \in Streams(journal)
      /\ <<>> \in Seq(Events(journal))
      /\ buffer \in Seq(Events(journal))
      /\ Flushed(stream, buffer).stream \in Streams(journal)
  <2>1. buffer \in Seq(Events(journal))
    BY DriverOf, BufferedSound DEF SInv
  <2> HIDE DEF buffer
  <2> QED
    BY <2>1, FlushedSound DEF SInv
<1>5. Snapshot(d.queue) \in Runs(journal)
  BY DriverOf, SnapshotSound
<1> HIDE DEF d
<1>6. CASE SaveFile(s)
  <2>1. /\ Set(s, [d EXCEPT !.save = "flush"]) /\ file' = app
        /\ UNCHANGED <<app, stream, pending>>
    BY <1>6 DEF SaveFile, d
  <2> QED
    BY <1>1, <1>2, <1>3, <2>1 DEF SoundStep, SInv
<1>7. CASE SaveFlush(s)
  <2>1. /\ Set(s, Resumed(s, d)) \/ Set(s, Rest(s, d))
        /\ \/ stream' = Flushed(stream, pending).stream /\ pending' = <<>>
           \/ UNCHANGED <<stream, pending>>
        /\ UNCHANGED <<file, app>>
    BY <1>7 DEF SaveFlush, d
  <2> QED
    BY <1>1, <1>2, <1>3, <1>4, <2>1 DEF SoundStep, SInv
<1>8. CASE SaveFails(s)
  <2>1. Set(s, Rest(s, d)) /\ UNCHANGED <<file, app, stream, pending>>
    BY <1>8 DEF SaveFails, d, durable
  <2> QED
    BY <1>1, <1>2, <1>3, <2>1 DEF SoundStep, SInv
<1>9. CASE LateFlush(s)
  <2>1. /\ \/ /\ stream' = Flushed(stream, buffer).stream /\ pending' = <<>>
              /\ Set(s, Saving(d, "settled", "late-file"))
           \/ /\ pending' = buffer /\ UNCHANGED stream /\ Set(s, NoDriver)
        /\ UNCHANGED <<file, app>>
    BY <1>9 DEF LateFlush, d
  <2> HIDE DEF buffer
  <2> QED
    BY <1>1, <1>2, <1>3, <1>4, <2>1 DEF SoundStep, SInv
<1>10. CASE LateFile(s)
  <2>1. /\ Set(s, NoDriver) /\ file' = Snapshot(d.queue)
        /\ UNCHANGED <<app, stream, pending>>
    BY <1>10 DEF LateFile, d
  <2> QED
    BY <1>1, <1>2, <1>3, <1>5, <2>1 DEF SoundStep, SInv
<1>11. CASE LateSaveFails(s)
  <2>1. Set(s, NoDriver) /\ UNCHANGED <<file, app, stream, pending>>
    BY <1>11 DEF LateSaveFails, durable
  <2> QED
    BY <1>1, <1>2, <1>3, <2>1 DEF SoundStep, SInv
<1> QED
  BY <1>6, <1>7, <1>8, <1>9, <1>10, <1>11

LEMMA LoopSound ==
    ASSUME SInv, NEW s \in Sessions,
           Admit(s) \/ Loop(s) \/ Batched(s) \/ Settled(s)
    PROVE  SoundStep
<1>0. Holds(journal, driver[s])
  BY DriverOf
<1>1. ASSUME NEW x, Holds(journal, x), Set(s, x),
             UNCHANGED <<journal, file, app, stream, pending, decisions>>
      PROVE  SoundStep
  BY <1>1, SameKeeps, DriverSound
<1>2. CASE Admit(s)
  <2>1. /\ Holds(journal, [driver[s] EXCEPT !.phase = "loop"])
        /\ Holds(journal, Rest(s, driver[s]))
    BY <1>0, UpdateHolds, RestHolds
  <2> QED
    BY <1>1, <1>2, <2>1 DEF Admit, host, durable
<1>3. CASE Loop(s)
  <2> DEFINE q == Reconciled(driver[s].queue)
             d == [driver[s] EXCEPT !.queue = q]
             batch == SubSeq(Runnable(q), 1, Min({Concurrency, Len(Runnable(q))}))
             l == [t \in Task |-> IF t \in ToSet(batch)
                                  THEN [NoLease EXCEPT !.stage = "allocating"]
                                  ELSE NoLease]
  <2>0. /\ \/ Set(s, NoDriver) /\ UNCHANGED <<app, pending>>
           \/ Set(s, [d EXCEPT !.phase = "claim", !.lease = l]) /\ UNCHANGED <<app, pending>>
           \/ Transition(s, d, "return")
        /\ UNCHANGED <<journal, file, stream, decisions>>
    BY <1>3 DEF Loop, host, durable
  <2>1. q \in Queues(journal) /\ OnlyBlocks(driver[s].queue.tasks, q.tasks)
    BY DriverOf, ReconciledSound
  <2>2. SameAttempts(driver[s].queue.tasks, q.tasks)
    BY <2>1, DriverOf, QueueParts, BlocksSameAttempts
  <2>3. Held(journal, q, driver[s].lease)
    <3> HIDE DEF q
    <3> QED
      BY <1>0, <2>1, <2>2, HoldsFields DEF Held, SameAttempts
  <2>4. Held(journal, q, l)
    <3>1. \A t \in Task : l[t].stage \in {"none", "allocating"} /\ l[t] \in Lease
      BY DEF NoLease, Lease
    <3>2. l \in [Task -> Lease]
      BY <3>1
    <3> HIDE DEF q, l
    <3> QED
      BY <2>1, <3>1, <3>2 DEF Held
  <2>5. Holds(journal, d)
    <3> HIDE DEF q
    <3> QED
      BY <1>0, <2>3, QueueHolds
  <2> HIDE DEF q, batch, l, d
  <2>6. Holds(journal, [d EXCEPT !.queue = q, !.lease = l])
    BY <2>4, <2>5, QueueHolds
  <2>7. d.queue = q
    <3>1. PICK p, o, k, v, n, b, r : driver[s] = Fields(p, o, k, v, n, b, r)
      BY <1>0 DEF Holds
    <3> QED
      BY <3>1 DEF d, Fields
  <2>8. Holds(journal, [d EXCEPT !.lease = l])
    <3>1. d = [d EXCEPT !.queue = q]
      <4>1. PICK p, o, k, v, n, b, r : d = Fields(p, o, k, v, n, b, r)
        BY <2>5 DEF Holds
      <4>2. o = q
        BY <2>7, <4>1 DEF Fields
      <4> QED
        BY <4>1, <4>2 DEF Fields
    <3>2. [d EXCEPT !.queue = q, !.lease = l] = [[d EXCEPT !.queue = q] EXCEPT !.lease = l]
      OBVIOUS
    <3> QED
      BY <2>6, <3>1, <3>2, Zenon
  <2>9. Holds(journal, [d EXCEPT !.phase = "claim", !.lease = l])
    <3>1. ASSUME NEW x
          PROVE  [d EXCEPT !.phase = x, !.lease = l] = [[d EXCEPT !.lease = l] EXCEPT !.phase = x]
      OBVIOUS
    <3>2. Holds(journal, [[d EXCEPT !.lease = l] EXCEPT !.phase = "claim"])
      BY <2>8, UpdateHolds
    <3> QED
      BY <3>1, <3>2, Zenon
  <2> QED
    BY <1>1, <2>0, <2>5, <2>9, NoDriverHolds, TransitionSound
<1>4. CASE Batched(s)
  <2>1. /\ (Set(s, NoDriver) /\ UNCHANGED <<app, pending>>) \/ Transition(s, driver[s], "work")
        /\ UNCHANGED <<journal, file, stream, decisions>>
    BY <1>4 DEF Batched, host, durable
  <2> QED
    BY <1>0, <1>1, <2>1, NoDriverHolds, TransitionSound
<1>5. CASE Settled(s)
  <2>1. Transition(s, driver[s], "settled") /\ UNCHANGED <<journal, file, stream, decisions>>
    BY <1>5 DEF Settled, host, durable
  <2> QED
    BY <1>0, <2>1, TransitionSound
<1> QED
  BY <1>2, <1>3, <1>4, <1>5

LEMMA ClaimSound ==
    ASSUME SInv, NEW s \in Sessions, NEW t \in Task, Claim(s, t)
    PROVE  SoundStep
<1> DEFINE d == driver[s]
           a == NextAttempt(d.queue, t)
           lease == [stage |-> "leased", attempt |-> a]
           l == [d.lease EXCEPT ![t] = lease]
           k == [d.lease EXCEPT ![t] = NoLease]
           q == Claimed(d.queue, t)
           r == ClaimFailed(d.queue, t)
<1>0. Holds(journal, d) /\ Held(journal, d.queue, d.lease) /\ d.queue \in Queues(journal)
  BY DriverOf, HoldsFields
<1>1. /\ a \in Attempts
      /\ \/ Set(s, [d EXCEPT !.queue = Claimed(@, t), !.lease[t] = lease])
         \/ Set(s, [d EXCEPT !.queue = ClaimFailed(@, t), !.lease[t] = NoLease])
      /\ UNCHANGED <<journal, file, app, stream, pending, decisions>>
  BY DEF Claim, host, durable
<1>2. /\ lease \in Lease /\ lease.stage = "leased" /\ lease.attempt = a
      /\ NoLease \in Lease /\ NoLease.stage = "none"
  BY <1>1 DEF Lease, NoLease
<1> HIDE DEF lease
<1>3. /\ l \in [Task -> Lease] /\ l[t] = lease /\ \A u \in Task \ {t} : l[u] = d.lease[u]
      /\ k \in [Task -> Lease] /\ k[t] = NoLease /\ \A u \in Task \ {t} : k[u] = d.lease[u]
  BY <1>0, <1>2 DEF Held
<1>4. /\ q \in Queues(journal) /\ q.tasks[t].attempt = a
      /\ \A u \in Task \ {t} : q.tasks[u] = d.queue.tasks[u]
  BY <1>0, <1>1, ClaimedSound
<1>5. /\ r \in Queues(journal)
      /\ \A u \in Task \ {t} : r.tasks[u].attempt = d.queue.tasks[u].attempt
  BY <1>0, <1>1, ClaimFailedSound
<1>6. [d EXCEPT !.queue = Claimed(@, t), !.lease[t] = lease] = [d EXCEPT !.queue = q, !.lease = l]
  OBVIOUS
<1>7. [d EXCEPT !.queue = ClaimFailed(@, t), !.lease[t] = NoLease]
        = [d EXCEPT !.queue = r, !.lease = k]
  OBVIOUS
<1> HIDE DEF l, k, q, r, d, a
<1>8. Held(journal, q, l) /\ Held(journal, r, k)
  BY <1>0, <1>1, <1>2, <1>3, <1>4, <1>5 DEF Held
<1>9. /\ Holds(journal, [d EXCEPT !.queue = q, !.lease = l])
      /\ Holds(journal, [d EXCEPT !.queue = r, !.lease = k])
  BY <1>0, <1>8, QueueHolds
<1>10. Keeps(journal, journal')
  BY <1>1, SameKeeps
<1> QED
  BY <1>1, <1>6, <1>7, <1>9, <1>10, DriverSound

-----------------------------------------------------------------------------
\* The journal: no receipt is written over.

LEMMA WriteKeeps ==
    ASSUME Typed, NEW s \in Sessions, NEW t \in Task, NEW v,
           driver[s].lease[t].stage \in {"leased", "claimed", "executed"},
           WriteRecord(s, t, v), EffectOn(s, t) # "succeeded"
    PROVE  Keeps(journal, journal') /\ journal'[t][driver[s].lease[t].attempt] = v
<1>1. driver[s].lease[t].attempt \in Attempts
  BY DEF Typed, IsDriver
<1> QED
  BY <1>1 DEF Typed, Keeps, WriteRecord, EffectOn, AttemptOn

LEMMA SweptKeeps ==
    ASSUME Typed, journal' = Swept
    PROVE  Keeps(journal, journal')
BY DEF Typed, Keeps, Swept

LEMMA LeaseSound ==
    ASSUME Typed, SInv, NEW s \in Sessions, NEW t \in Task,
           \/ LeaseClaim(s, t) \/ LeaseNotClaimed(s, t) \/ LeaseExecute(s, t)
           \/ LeaseWait(s, t) \/ LeaseThrows(s, t)
           \/ \E result \in {"succeeded", "failed"} :
                LeaseComplete(s, t, result) \/ LeaseCompleteFails(s, t, result)
    PROVE  SoundStep
<1> DEFINE d == driver[s]
           a == d.lease[t].attempt
<1>0. /\ Holds(journal, d)
      /\ d.lease[t].stage \in {"leased", "claimed", "executed"}
      /\ UNCHANGED <<file, app, stream, pending, decisions>>
      /\ EffectOn(s, t) = journal[t][a]
  BY DriverOf DEF LeaseClaim, LeaseNotClaimed, LeaseExecute, LeaseWait, LeaseThrows,
     LeaseComplete, LeaseCompleteFails, Leased, host, durable, EffectOn, AttemptOn
<1>1. ASSUME NEW x, Set(s, x), Keeps(journal, journal'), Holds(journal', x)
      PROVE  SoundStep
  BY <1>0, <1>1, DriverSound
<1>2. ASSUME NEW v, WriteRecord(s, t, v), EffectOn(s, t) # "succeeded"
      PROVE  Keeps(journal, journal') /\ journal'[t][a] = v
  BY <1>0, <1>2, WriteKeeps
<1>3. UNCHANGED journal => Keeps(journal, journal')
  BY SameKeeps
<1>4. Keeps(journal, journal')
        => /\ Holds(journal', d)
           /\ Holds(journal', Released(d, t))
           /\ Holds(journal', Caught(s, d, t))
           /\ Holds(journal', [Released(d, t) EXCEPT !.queue = Parked(@, t),
                                                     !.terminalized = TRUE])
  <2> SUFFICES ASSUME Keeps(journal, journal') PROVE Holds(journal', d)
    BY <1>0, ReleasedHolds, CaughtHolds, WaitedHolds
  <2> QED
    BY <1>0, HoldsKept
<1>5. ASSUME NEW v, Advance(s, t, v) PROVE Keeps(journal, journal')
  BY <1>2, <1>3, <1>5 DEF Advance
<1>6. CASE LeaseClaim(s, t)
  <2>1. CASE /\ EffectOn(s, t) = "none" /\ WriteRecord(s, t, "started")
             /\ Set(s, [d EXCEPT !.lease[t].stage = "claimed"])
    <3>1. Keeps(journal, journal')
      BY <1>2, <2>1
    <3>2. d.lease[t].stage = "leased" /\ Holds(journal', d)
      BY <1>4, <1>6, <3>1 DEF LeaseClaim, Leased
    <3>3. Holds(journal', [d EXCEPT !.lease[t].stage = "claimed"])
      BY <3>2, StagedHolds
    <3> QED
      BY <1>1, <2>1, <3>1, <3>3
  <2>2. CASE /\ EffectOn(s, t) \in {"succeeded", "failed"} /\ UNCHANGED journal
             /\ Set(s, Marked(d, t, EffectOn(s, t)))
    <3>1. Holds(journal', Marked(d, t, EffectOn(s, t)))
      BY <1>0, <2>2, MarkedHolds
    <3> QED
      BY <1>1, <1>3, <2>2, <3>1
  <2>3. CASE Set(s, Released(d, t)) /\ UNCHANGED journal
    BY <1>1, <1>3, <1>4, <2>3
  <2> QED
    BY <1>6, <2>1, <2>2, <2>3 DEF LeaseClaim
<1>7. CASE LeaseNotClaimed(s, t)
  <2>1. Set(s, Caught(s, d, t))
    BY <1>7 DEF LeaseNotClaimed
  <2>2. UNCHANGED journal \/ (EffectOn(s, t) = "none" /\ WriteRecord(s, t, "started"))
    BY <1>7 DEF LeaseNotClaimed
  <2>3. Keeps(journal, journal')
    BY <1>2, <1>3, <2>2
  <2> QED
    BY <1>1, <1>4, <2>1, <2>3
<1>8. CASE LeaseExecute(s, t)
  <2>1. /\ Set(s, [d EXCEPT !.lease[t].stage = "executed"]) /\ UNCHANGED journal
        /\ d.lease[t].stage = "claimed"
    BY <1>8 DEF LeaseExecute, Leased
  <2>2. Holds(journal', [d EXCEPT !.lease[t].stage = "executed"])
    BY <1>0, <2>1, StagedHolds
  <2> QED
    BY <1>1, <1>3, <2>1, <2>2
<1>9. CASE LeaseWait(s, t)
  <2>1. /\ Advance(s, t, "unknown")
        /\ Set(s, [Released(d, t) EXCEPT !.queue = Parked(@, t), !.terminalized = TRUE])
    BY <1>9 DEF LeaseWait
  <2> QED
    BY <1>1, <1>4, <1>5, <2>1
<1>10. CASE LeaseThrows(s, t)
  <2>1. /\ Advance(s, t, "unknown") \/ UNCHANGED journal
        /\ Set(s, Caught(s, d, t))
    BY <1>10 DEF LeaseThrows
  <2> QED
    BY <1>1, <1>3, <1>4, <1>5, <2>1
<1>11. ASSUME NEW result \in {"succeeded", "failed"}, LeaseComplete(s, t, result)
       PROVE  SoundStep
  <2>1. CASE EffectOn(s, t) = "started"
    <3>1. WriteRecord(s, t, result) /\ Set(s, Marked(d, t, result))
      BY <1>11, <2>1 DEF LeaseComplete
    <3>2. Keeps(journal, journal') /\ journal'[t][a] = result
      BY <1>2, <2>1, <3>1
    <3>3. Holds(journal', Marked(d, t, result))
      BY <1>0, <1>4, <3>2, MarkedHolds
    <3> QED
      BY <1>1, <3>1, <3>2, <3>3
  <2>2. CASE EffectOn(s, t) # "started"
    <3>1. Set(s, Released(d, t)) /\ UNCHANGED journal
      BY <1>11, <2>2 DEF LeaseComplete
    <3> QED
      BY <1>1, <1>3, <1>4, <3>1
  <2> QED
    BY <2>1, <2>2
<1>12. ASSUME NEW result \in {"succeeded", "failed"}, LeaseCompleteFails(s, t, result)
       PROVE  SoundStep
  <2>1. /\ EffectOn(s, t) = "started" /\ WriteRecord(s, t, result)
        /\ Set(s, Caught(s, d, t))
    BY <1>12 DEF LeaseCompleteFails
  <2> QED
    BY <1>1, <1>2, <1>4, <2>1
<1> QED
  BY <1>6, <1>7, <1>8, <1>9, <1>10, <1>11, <1>12

LEMMA UserSound ==
    ASSUME Typed, SInv, StartRun \/ UserSave \/ UserFlush \/ Sweep \/ Recover
    PROVE  SoundStep
<1>0. session \in Sessions /\ Holds(journal, driver[session])
  BY DriverOf DEF Typed
<1>1. CASE StartRun
  <2>1. /\ Set(session, Saving(driver[session], "admit", "file"))
        /\ UNCHANGED <<journal, file, app, stream, pending, decisions>>
    BY <1>1 DEF StartRun, host, durable
  <2>2. Holds(journal', Saving(driver[session], "admit", "file"))
    BY <1>0, <2>1, UpdatesHold
  <2> QED
    BY <1>0, <2>1, <2>2, SameKeeps, DriverSound
<1>2. CASE UserSave
  <2>1. file' = app /\ UNCHANGED <<journal, app, stream, pending, decisions, driver>>
    BY <1>2 DEF UserSave, host
  <2> QED
    BY <2>1, SameKeeps DEF SoundStep, SInv
<1>3. CASE UserFlush
  <2>1. /\ \/ stream' = Flushed(stream, pending).stream /\ pending' = <<>>
           \/ UNCHANGED <<stream, pending>>
        /\ UNCHANGED <<journal, file, app, decisions, driver>>
    BY <1>3 DEF UserFlush, host
  <2>2. Flushed(stream, pending).stream \in Streams(journal) /\ <<>> \in Seq(Events(journal))
    BY FlushedSound DEF SInv
  <2> QED
    BY <2>1, <2>2, SameKeeps DEF SoundStep, SInv
<1>4. CASE Sweep
  <2>1. journal' = Swept /\ UNCHANGED <<file, app, stream, pending, decisions, driver>>
    BY <1>4 DEF Sweep, durable
  <2> QED
    BY <2>1, SweptKeeps DEF SoundStep, SInv
<1>5. CASE Recover
  <2>1. /\ Set(session, [driver[session] EXCEPT !.phase = "decide"])
        /\ journal' = Swept /\ UNCHANGED <<file, app, stream, pending, decisions>>
    BY <1>5 DEF Recover, host, durable
  <2>2. Keeps(journal, journal')
    BY <2>1, SweptKeeps
  <2>3. Holds(journal', [driver[session] EXCEPT !.phase = "decide"])
    BY <1>0, <2>2, HoldsKept, UpdateHolds
  <2> QED
    BY <1>0, <2>1, <2>2, <2>3, DriverSound
<1> QED
  BY <1>1, <1>2, <1>3, <1>4, <1>5

LEMMA DecideSound ==
    ASSUME SInv, NEW s \in Sessions, NEW decision \in {"retry", "skip"}, Decide(s, decision)
    PROVE  SoundStep
<1> DEFINE decided == Decided(app, decision)
           id == decisions + 1
           events == DecisionEvents(app, decided, decision, id)
           q == Restored(decided)
<1>1. journal' = journal /\ UNCHANGED <<file, stream>> /\ Keeps(journal, journal')
  BY SameKeeps DEF Decide, durable
<1>2. CASE ~Aborted(s) /\ Decidable(app, decision)
  <2>1. /\ decisions' = id
        /\ pending' = Buffered(pending, events)
        /\ app' = decided
        /\ \E next : Set(s, Saving(Driver(q), next, "file"))
    BY <1>2 DEF Decide
  <2>2. /\ decided \in Runs(journal)
        /\ \A t \in Task : DecidedTask(app.tasks[t], decided.tasks[t])
    BY <1>2, DecidedSound DEF SInv
  <2>3. id \in Nat
    BY DEF SInv
  <2> HIDE DEF decided, id
  <2>4. events \in Seq(Events(journal))
    BY <2>2, <2>3, DecisionEventsSound DEF SInv
  <2> HIDE DEF events
  <2>5. Buffered(pending, events) \in Seq(Events(journal))
    BY <2>4, BufferedSound DEF SInv
  <2>6. q \in Queues(journal)
    BY <2>2, RestoredSound
  <2> HIDE DEF q
  <2>7. \A next : Holds(journal, Saving(Driver(q), next, "file"))
    BY <2>6, DriverHolds, UpdatesHold
  <2> QED
    BY <1>1, <2>1, <2>2, <2>3, <2>5, <2>7 DEF SoundStep
<1>3. CASE ~(~Aborted(s) /\ Decidable(app, decision))
  <2>1. Set(s, Rest(s, driver[s])) /\ UNCHANGED <<app, pending, decisions>>
    BY <1>3 DEF Decide
  <2>2. Holds(journal', Rest(s, driver[s]))
    BY <1>1, DriverOf, RestHolds
  <2> QED
    BY <1>1, <2>1, <2>2, DriverSound
<1> QED
  BY <1>2, <1>3

LEMMA SessionSound ==
    ASSUME Typed, SInv, Close \/ RunCrash \/ CrashClosed \/ Open
    PROVE  SoundStep
<1>0. session \in Sessions /\ Holds(journal, driver[session]) /\ Holds(journal, NoDriver)
  BY DriverOf, NoDriverHolds DEF Typed
<1>1. pending' = <<>> /\ journal' = journal /\ decisions' = decisions /\ stream' = stream
  BY DEF Close, RunCrash, Closed, CrashClosed, Open, host, durable
<1>2. Keeps(journal, journal') /\ pending' \in Seq(Events(journal')) /\ decisions' \in Nat
  BY <1>1, SameKeeps DEF SInv
<1>3. CASE Close \/ RunCrash \/ CrashClosed
  <2>1. /\ UNCHANGED <<file, app>>
        /\ \/ Set(session, NoDriver) \/ Set(session, driver[session])
           \/ driver' = [s \in Sessions |-> NoDriver]
    BY <1>3 DEF Close, RunCrash, Closed, CrashClosed, durable
  <2> QED
    BY <1>0, <1>1, <1>2, <2>1 DEF SoundStep
<1>4. CASE Open
  <2> DEFINE run == ReconciledRun(file, stream)
             reason == Refusal(run, Consistent(run, stream))
             chosen == IF reason = "none" THEN run ELSE NewRun
             queue == Restored(chosen)
  <2>1. /\ session < MaxSessions
        /\ Set(session + 1, Driver(queue))
        /\ app' = run /\ file' = run
    BY <1>4 DEF Open
  <2>2. run \in Runs(journal) /\ NewRun \in Runs(journal)
    BY CreatedSound, ReconciledRunSound DEF SInv
  <2> HIDE DEF run, reason
  <2>3. chosen \in Runs(journal)
    BY <2>2
  <2> HIDE DEF chosen
  <2>4. queue \in Queues(journal)
    BY <2>3, RestoredSound
  <2> HIDE DEF queue
  <2>5. Holds(journal, Driver(queue))
    BY <2>4, DriverHolds
  <2>6. session + 1 \in Sessions
    BY <1>0, <2>1, BoundsAssumption DEF Sessions
  <2> QED
    BY <1>1, <1>2, <2>1, <2>2, <2>5, <2>6 DEF SoundStep
<1> QED
  BY <1>3, <1>4

LEMMA InitSInv == RunInit => SInv
<1> SUFFICES ASSUME RunInit PROVE SInv
  OBVIOUS
<1>1. /\ NewRun \in Runs(journal) /\ NoStream \in Streams(journal)
      /\ CreatedEvents \in Seq(Events(journal))
  BY CreatedSound
<1>2. Flushed(NoStream, CreatedEvents).stream \in Streams(journal)
  BY <1>1, FlushedSound
<1>3. Holds(journal, NoDriver) /\ Holds(journal, Driver(Restored(NewRun)))
  BY <1>1, NoDriverHolds, RestoredSound, DriverHolds
<1>4. \A s \in Sessions : Holds(journal, driver[s])
  <2>1. \A s \in Sessions : driver[s] = Driver(Restored(NewRun)) \/ driver[s] = NoDriver
    BY DEF RunInit
  <2> QED
    BY <1>3, <2>1
<1>5. <<>> \in Seq(Events(journal)) /\ 0 \in Nat
  OBVIOUS
<1>6. /\ file = NewRun /\ app = NewRun /\ pending = <<>> /\ decisions = 0
      /\ stream = Flushed(NoStream, CreatedEvents).stream
  BY DEF RunInit
<1> QED
  BY <1>1, <1>2, <1>4, <1>5, <1>6 DEF SInv

LEMMA NextSInv ==
    ASSUME IInv, SInv, [RunNext]_runVars
    PROVE  SInv'
<1>0. Typed
  BY DEF IInv
<1>1. CASE SoundStep
  BY <1>0, <1>1, SoundKeeps
<1>2. CASE UNCHANGED runVars
  <2>1. UNCHANGED <<file, app, stream, pending, journal, decisions, driver>>
    BY <1>2 DEF runVars
  <2>2. SoundStep
    BY <2>1, SameKeeps DEF SoundStep, SInv
  <2> QED
    BY <1>1, <2>2
<1>3. ASSUME NEW s \in Sessions, DriverStep(s) PROVE SInv'
  <2>1. CASE \/ SaveFile(s) \/ SaveFlush(s) \/ SaveFails(s)
             \/ LateFlush(s) \/ LateFile(s) \/ LateSaveFails(s)
    BY <1>1, <2>1, SaveSound
  <2>2. CASE Admit(s) \/ Loop(s) \/ Batched(s) \/ Settled(s)
    BY <1>1, <2>2, LoopSound
  <2>3. ASSUME NEW t \in Task, Claim(s, t) PROVE SInv'
    BY <1>1, <2>3, ClaimSound
  <2>4. ASSUME NEW t \in Task,
               \/ LeaseClaim(s, t) \/ LeaseNotClaimed(s, t) \/ LeaseExecute(s, t)
               \/ LeaseWait(s, t) \/ LeaseThrows(s, t)
               \/ \E result \in {"succeeded", "failed"} :
                    LeaseComplete(s, t, result) \/ LeaseCompleteFails(s, t, result)
        PROVE  SInv'
    BY <1>0, <1>1, <2>4, LeaseSound
  <2> QED
    BY <1>3, <2>1, <2>2, <2>3, <2>4 DEF DriverStep
<1>4. ASSUME NEW s \in Sessions, NEW decision \in {"retry", "skip"}, Decide(s, decision)
      PROVE  SInv'
  BY <1>1, <1>4, DecideSound
<1>5. CASE StartRun \/ UserSave \/ UserFlush \/ Sweep \/ Recover
  BY <1>0, <1>1, <1>5, UserSound
<1>6. CASE Close \/ RunCrash \/ CrashClosed \/ Open
  BY <1>0, <1>1, <1>6, SessionSound
<1> QED
  BY <1>2, <1>3, <1>4, <1>5, <1>6 DEF RunNext, DriverMoves

\* The project file, the store, the stream, the buffer of events and the queue of
\* every driver are backed by the journal, and every lease is at the attempt that
\* its task has in the queue (workerQueue.ts, replayDomainEvents, the reconciliation
\* of a project that opens, the decisions of workerSideEffects.ts and eventBuffer.ts,
\* over the journal of sideEffects.ts).
THEOREM Soundness == RunSpec => []SInv
<1>1. RunInit => SInv
  BY InitSInv
<1>2. IInv /\ SInv /\ [RunNext]_runVars => SInv'
  BY NextSInv
<1> QED
  BY <1>1, <1>2, Invariance, PTL DEF RunSpec

LEMMA SInvBacked == SInv => SuccessBacked
<1> SUFFICES ASSUME SInv, NEW t \in Task
             PROVE  /\ \A a \in Attempts :
                         stream.execution[t].attempt[a] = "succeeded" =>
                           journal[t][a] = "succeeded"
                    /\ \A run \in {file, app} \cup {Snapshot(driver[s].queue) : s \in Sessions} :
                         run.tasks[t].status = "succeeded" =>
                           journal[t][run.tasks[t].attempt] = "succeeded"
  BY DEF SuccessBacked
<1>1. ReceiptsBack(journal, t, stream.execution[t])
  BY StreamParts DEF SInv
<1>2. \A a \in Attempts : stream.execution[t].attempt[a] = "succeeded" => journal[t][a] = "succeeded"
  BY <1>1 DEF ReceiptsBack
<1>3. \A s \in Sessions : Snapshot(driver[s].queue) \in Runs(journal)
  BY DriverOf, SnapshotSound
<1>4. \A run \in {file, app} \cup {Snapshot(driver[s].queue) : s \in Sessions} :
        run \in Runs(journal)
  BY <1>3 DEF SInv
<1>5. ASSUME NEW run \in Runs(journal), run.tasks[t].status = "succeeded"
      PROVE  journal[t][run.tasks[t].attempt] = "succeeded"
  BY <1>5 DEF Runs, TasksSound, TaskSound
<1> QED
  BY <1>2, <1>4, <1>5

\* Nothing says that an attempt succeeded before its receipt in the journal does,
\* whatever sessions overlap, crash, are swept or recovered, and however saves fail:
\* not the stream, the file, the store or the queue of a driver (completeTask and
\* recorder.claim of workerQueue.ts, the replay and the reconciliation).
THEOREM SuccessIsBacked == RunSpec => []SuccessBacked
<1>1. SInv => SuccessBacked
  BY SInvBacked
<1> QED
  BY <1>1, Soundness, PTL


-----------------------------------------------------------------------------
\* A flush as a fold, and one event after another.

Fresh(st) == [ok |-> TRUE, stream |-> st]
Steps(J, s) == [p \in (DOMAIN s) \X Flushes(J) |-> Appended(p[2], s[p[1]])]

LEMMA FlushFolds ==
    ASSUME NEW J, NEW st \in Streams(J), NEW s \in Seq(Events(J))
    PROVE  \E it : /\ TypedFold(it, DOMAIN s, Flushes(J), Fresh(st), Newest(DOMAIN s), Steps(J, s))
                   /\ Flushed(st, s) = it[DOMAIN s]
<1> DEFINE D == DOMAIN s
           X == Flushes(J)
           b == Fresh(st)
           ch == Newest(D)
           Is(f) == f = [u \in SUBSET D |-> IF u = {} THEN b
                                            ELSE Appended(f[u \ {Max(u)}], s[Max(u)])]
           it == CHOOSE f : Is(f)
           G == Steps(J, s)
<1>2. IsFiniteSet(D) /\ Chooses(ch, D) /\ \A i \in D : s[i] \in Events(J)
  BY LastChooses
<1>3. Flushed(st, s) = it[D]
  BY DEF Flushed, FoldLeft, MapThenFoldSet, Fresh
<1>4. b \in X
  BY DEF Flushes, Fresh
<1>5. \A i \in D, r \in X : Appended(r, s[i]) \in X
  BY <1>2, AppendedSound
<1>6. \A i \in D, r \in X : G[<<i, r>>] = Appended(r, s[i])
  BY DEF Steps
<1>7. \A u \in SUBSET D : ch[u] = Max(u)
  BY DEF Newest
<1> HIDE DEF D, X, ch, G, b
<1>8. PICK g : Folding(g, D, b, ch, G)
  BY <1>2, <1>4, <1>5, <1>6, FoldExists
<1>9. g \in [SUBSET D -> X]
  <2>1. IsFiniteSet(D) /\ Chooses(ch, D) /\ \A x \in D, v \in X : G[<<x, v>>] \in X
    BY <1>2, <1>5, <1>6
  <2> QED
    BY <1>4, <1>8, <2>1, FoldTyped
<1>10. Is(g)
  <2>1. ASSUME NEW u \in SUBSET D, u # {}
        PROVE  g[u] = Appended(g[u \ {Max(u)}], s[Max(u)])
    <3>1. ch[u] \in u /\ ch[u] = Max(u) /\ ch[u] \in D
      BY <1>2, <1>7, <2>1 DEF Chooses
    <3>2. g[u \ {ch[u]}] \in X
      BY <1>9
    <3>3. g[u] = G[<<ch[u], g[u \ {ch[u]}]>>]
      BY <1>8, <2>1 DEF Folding
    <3> QED
      BY <1>6, <3>1, <3>2, <3>3
  <2>2. g = [u \in SUBSET D |-> g[u]] /\ g[{}] = b
    BY <1>8 DEF Folding
  <2> QED
    BY <2>1, <2>2
<1>11. Is(it)
  <2> HIDE DEF Is
  <2> QED
    BY <1>10
<1> HIDE DEF it
<1>12. /\ it[{}] = b /\ it = [u \in SUBSET D |-> it[u]]
       /\ \A u \in SUBSET D : u # {} => it[u] = Appended(it[u \ {Max(u)}], s[Max(u)])
  BY <1>11
<1> HIDE DEF Is
<1>13. ASSUME NEW u \in SUBSET D, u # {}, it[u \ {ch[u]}] \in X
       PROVE  it[u] \in X /\ it[u] = G[<<ch[u], it[u \ {ch[u]}]>>]
  <2>1. ch[u] = Max(u) /\ ch[u] \in D
    BY <1>2, <1>7, <1>13 DEF Chooses
  <2> QED
    <3> DEFINE i == ch[u]
               r == it[u \ {i}]
    <3>1. i \in D /\ r \in X
      BY <1>13, <2>1
    <3>2. it[u] = Appended(r, s[i])
      BY <1>12, <1>13, <2>1
    <3> HIDE DEF i, r
    <3>3. Appended(r, s[i]) \in X /\ G[<<i, r>>] = Appended(r, s[i])
      BY <1>5, <1>6, <3>1
    <3>4. it[u] \in X /\ it[u] = G[<<i, r>>]
      BY <3>2, <3>3
    <3> QED
      BY <3>4 DEF i, r
<1>14. ASSUME NEW w \in SUBSET D PROVE it[w] \in X
  <2>1. IsFiniteSet(w) /\ Chooses(ch, w)
    BY <1>2, FS_Subset DEF Chooses
  <2>2. \A u \in SUBSET w : u # {} /\ it[u \ {ch[u]}] \in X => it[u] \in X
    BY <1>13
  <2> QED
    BY <1>4, <1>12, <2>1, <2>2, FoldStays
<1>15. it \in [SUBSET D -> X]
  BY <1>12, <1>14
<1>16. \A u \in SUBSET D : u # {} => it[u] = G[<<ch[u], it[u \ {ch[u]}]>>]
  BY <1>13, <1>14
<1>17. Folding(it, D, b, ch, G)
  BY <1>12, <1>16 DEF Folding
<1> QED
  BY <1>2, <1>3, <1>15, <1>17 DEF TypedFold, D, X, b, ch, G

LEMMA FlushAppend ==
    ASSUME NEW J, NEW st \in Streams(J), NEW s \in Seq(Events(J)), NEW ev \in Events(J)
    PROVE  /\ Flushed(st, s) \in Flushes(J)
           /\ Flushed(st, Append(s, ev)) = Appended(Flushed(st, s), ev)
<1> DEFINE X == Flushes(J)
           r == Append(s, ev)
           n == Len(s) + 1
           D == DOMAIN s
           E == DOMAIN r
           b == Fresh(st)
<1>1. /\ Len(s) \in Nat /\ D = 1..Len(s) /\ E = 1..n /\ r \in Seq(Events(J))
      /\ r[n] = ev /\ \A i \in D : r[i] = s[i]
  OBVIOUS
<1> HIDE DEF D, E, r, n, X, b
<1>2. PICK f : TypedFold(f, D, X, b, Newest(D), Steps(J, s)) /\ Flushed(st, s) = f[D]
  BY FlushFolds DEF D, X, b
<1>3. PICK g : TypedFold(g, E, X, b, Newest(E), Steps(J, r)) /\ Flushed(st, r) = g[E]
  BY <1>1, FlushFolds DEF E, X, b
<1>4. n \in Nat /\ D \in SUBSET E /\ E \ {n} = D /\ E # {} /\ n \in E
  <2>1. n \in Nat /\ n = Len(s) + 1
    BY <1>1 DEF n
  <2>2. D = 1..Len(s) /\ E = 1..n /\ Len(s) \in Nat
    BY <1>1
  <2>3. n \in E /\ n \notin D /\ \A i : i \in E <=> i = n \/ i \in D
    BY <2>1, <2>2
  <2> QED
    BY <2>1, <2>3
<1>5. Max(E) = n
  <2>1. E \subseteq 0..n
    BY <1>1, <1>4
  <2>2. \E x \in E : \A y \in E : x >= y
    BY <1>1, <1>4
  <2> QED
    BY <1>1, <1>4, <2>2 DEF Max
<1>6. SameSteps(D, X, Newest(D), Newest(E), Steps(J, s), Steps(J, r))
  BY <1>1, <1>4 DEF SameSteps, Newest, Steps, X, D, E
<1>7. D \in SUBSET D
  OBVIOUS
<1>8. f[D] = g[D]
  BY <1>2, <1>3, <1>4, <1>6, <1>7, FoldAgree
<1>9. f[D] \in X /\ g[D] \in X
  BY <1>2, <1>8 DEF TypedFold
<1>10. Newest(E)[E] = n
  BY <1>5 DEF Newest
<1>11. g[E] = Steps(J, r)[<<n, g[D]>>]
  BY <1>3, <1>4, <1>10 DEF TypedFold, Folding
<1>12. Steps(J, r)[<<n, g[D]>>] = Appended(g[D], r[n])
  BY <1>4, <1>9 DEF Steps, X, E
<1> QED
  BY <1>1, <1>2, <1>3, <1>8, <1>9, <1>11, <1>12 DEF X, r

LEMMA FlushNothing ==
    ASSUME NEW J, NEW st \in Streams(J)
    PROVE  Flushed(st, <<>>) = Fresh(st)
<1> DEFINE e == <<>>
<1>1. e \in Seq(Events(J)) /\ DOMAIN e = {}
  OBVIOUS
<1> HIDE DEF e
<1>2. PICK f : TypedFold(f, DOMAIN e, Flushes(J), Fresh(st), Newest(DOMAIN e), Steps(J, e))
               /\ Flushed(st, e) = f[DOMAIN e]
  BY <1>1, FlushFolds
<1>3. f[DOMAIN e] = Fresh(st)
  BY <1>1, <1>2 DEF TypedFold, Folding
<1> QED
  BY <1>2, <1>3 DEF e

\* The first k elements of s.
Prefix(s, k) == SubSeq(s, 1, k)

LEMMA PrefixesOf ==
    ASSUME NEW X, NEW s \in Seq(X)
    PROVE  /\ Len(s) \in Nat /\ DOMAIN s = 1..Len(s)
           /\ Prefix(s, 0) = <<>> /\ Prefix(s, Len(s)) = s
           /\ \A k \in 1..Len(s) : /\ k - 1 \in 0..Len(s) /\ s[k] \in X
                                   /\ Prefix(s, k - 1) \in Seq(X) /\ Prefix(s, k) \in Seq(X)
                                   /\ Prefix(s, k) = Append(Prefix(s, k - 1), s[k])
<1>1. Len(s) \in Nat /\ DOMAIN s = 1..Len(s) /\ \A i \in 1..Len(s) : s[i] \in X
  OBVIOUS
<1>2. SubSeq(s, 1, 0) = <<>>
  OBVIOUS
<1>3. SubSeq(s, 1, Len(s)) = s
  OBVIOUS
<1>4. ASSUME NEW k \in 0..Len(s) PROVE SubSeq(s, 1, k) \in Seq(X)
  BY <1>1
<1>5. ASSUME NEW k \in 1..Len(s) PROVE SubSeq(s, 1, k) = Append(SubSeq(s, 1, k - 1), s[k])
  BY <1>1
<1>6. \A k \in 1..Len(s) : k - 1 \in 0..Len(s) /\ k \in 0..Len(s)
  BY <1>1
<1> QED
  BY <1>1, <1>2, <1>3, <1>4, <1>5, <1>6 DEF Prefix

LEMMA FlushSteps ==
    ASSUME NEW J, NEW st \in Streams(J), NEW s \in Seq(Events(J)), NEW k \in 1..Len(s)
    PROVE  /\ s[k] \in Events(J) /\ k \in 0..Len(s)
           /\ Flushed(st, Prefix(s, k)) = Appended(Flushed(st, Prefix(s, k - 1)), s[k])
<1> DEFINE p == Prefix(s, k - 1)
<1>1. s[k] \in Events(J) /\ p \in Seq(Events(J)) /\ Prefix(s, k) = Append(p, s[k])
  BY PrefixesOf
<1>2. k \in 0..Len(s)
  OBVIOUS
<1> HIDE DEF p
<1>3. Flushed(st, Append(p, s[k])) = Appended(Flushed(st, p), s[k])
  BY <1>1, FlushAppend
<1> QED
  BY <1>1, <1>2, <1>3 DEF p

\* What the replay of an event does to the events known and to the executions.
ExecutionsAfter(execution, ev) ==
    IF ev.task = "run" THEN execution
    ELSE [execution EXCEPT ![ev.task] = After(execution[ev.task], ev.e)]

LEMMA ReplayedParts ==
    ASSUME NEW J, NEW st \in Streams(J), NEW ev \in Events(J)
    PROVE  /\ Replayed(st, ev).ids = st.ids \cup {IdentityOf(ev)}
           /\ Replayed(st, ev).execution = ExecutionsAfter(st.execution, ev)
<1> DEFINE ids == st.ids \cup {IdentityOf(ev)}
           known == [st EXCEPT !.ids = ids]
<1>1. PICK a, b, c, d, r : st = StreamOf(a, b, c, d, r)
  BY StreamParts
<1>2. /\ st.execution = b /\ known = StreamOf(a, b, ids, d, r)
  BY <1>1 DEF StreamOf
<1> HIDE DEF ids
<1>3. known.ids = ids /\ known.execution = b /\ known.fence = d
  BY <1>2 DEF StreamOf
<1>4. ASSUME NEW v, NEW w
      PROVE  /\ [known EXCEPT !.run = v, !.requeued = w].ids = ids
             /\ [known EXCEPT !.run = v, !.requeued = w].execution = b
             /\ [known EXCEPT !.execution = v, !.fence = w].ids = ids
             /\ [known EXCEPT !.execution = v, !.fence = w].execution = v
  <2> HIDE DEF known
  <2> QED
    BY <1>2 DEF StreamOf
<1>5. CASE ev.task = "run"
  <2>1. PICK w \in BOOLEAN : w = (known.requeued \/ ev.e.type = "RunQueued")
    OBVIOUS
  <2>2. Replayed(st, ev) = [known EXCEPT !.run = RunStatusOf(ev.e.type), !.requeued = w]
    BY <1>5, <2>1 DEF Replayed, ids
  <2> HIDE DEF known
  <2> QED
    BY <1>2, <1>4, <1>5, <2>2 DEF ids, ExecutionsAfter
<1>6. CASE ev.task # "run"
  <2> DEFINE t == ev.task
             x == After(b[t], ev.e)
             f == IF ev.e.next # 0 THEN ev.e.next ELSE d[t]
             execution == [b EXCEPT ![t] = x]
             fence == [d EXCEPT ![t] = f]
  <2>1. Replayed(st, ev) = [known EXCEPT !.execution[t] = x, !.fence[t] = f]
    BY <1>3, <1>6 DEF Replayed, ids
  <2>2. [known EXCEPT !.execution[t] = x, !.fence[t] = f]
          = [known EXCEPT !.execution = execution, !.fence = fence]
    <3> HIDE DEF known, x, f
    <3> DEFINE k == [known EXCEPT !.execution = execution]
    <3>1. k.fence = d
      BY <1>2 DEF StreamOf
    <3>2. [known EXCEPT !.execution[t] = x] = k
      BY <1>3
    <3>3. [known EXCEPT !.execution[t] = x, !.fence[t] = f] = [[known EXCEPT !.execution[t] = x] EXCEPT !.fence[t] = f]
      OBVIOUS
    <3>4. [known EXCEPT !.execution = execution, !.fence = fence] = [k EXCEPT !.fence = fence]
      OBVIOUS
    <3> HIDE DEF k
    <3>5. [k EXCEPT !.fence[t] = f] = [k EXCEPT !.fence = fence]
      BY <3>1
    <3> QED
      BY <3>2, <3>3, <3>4, <3>5, Zenon
  <2> HIDE DEF known, x, f, fence
  <2>3. Replayed(st, ev).ids = ids /\ Replayed(st, ev).execution = execution
    BY <1>4, <2>1, <2>2
  <2> QED
    BY <1>2, <1>6, <2>3 DEF ids, x, ExecutionsAfter
<1> QED
  BY <1>5, <1>6

IdsOf(s) == {IdentityOf(s[i]) : i \in DOMAIN s}

LEMMA AppendedParts ==
    ASSUME NEW J, NEW acc \in Flushes(J), NEW ev \in Events(J)
    PROVE  /\ Appended(acc, ev) \in Flushes(J)
           /\ acc.stream.ids \subseteq Appended(acc, ev).stream.ids
           /\ Appended(acc, ev).ok => acc.ok \/ IdentityOf(ev) \in acc.stream.ids
           /\ Appended(acc, ev).ok => IdentityOf(ev) \in Appended(acc, ev).stream.ids
           /\ Appended(acc, ev).stream.ids \subseteq acc.stream.ids \cup {IdentityOf(ev)}
           /\ IdentityOf(ev) \in acc.stream.ids => Appended(acc, ev) = acc
<1>1. Appended(acc, ev) \in Flushes(J)
  BY AppendedSound
<1>2. /\ acc.ok \in BOOLEAN /\ acc.stream \in Streams(J)
      /\ acc = [ok |-> acc.ok, stream |-> acc.stream]
  BY DEF Flushes
<1> DEFINE base == acc.stream
           st == Replayed(base, ev)
<1>3. st.ids = base.ids \cup {IdentityOf(ev)}
  <2>1. base \in Streams(J)
    BY <1>2
  <2> HIDE DEF base
  <2>2. \A x \in Streams(J) : Replayed(x, ev).ids = x.ids \cup {IdentityOf(ev)}
    BY ReplayedParts
  <2> QED
    BY <2>1, <2>2
<1> HIDE DEF st
<1>4. /\ [acc EXCEPT !.stream = st].ok = acc.ok /\ [acc EXCEPT !.stream = st].stream = st
      /\ [acc EXCEPT !.ok = FALSE].ok = FALSE /\ [acc EXCEPT !.ok = FALSE].stream = acc.stream
  BY <1>2
<1>5. CASE IdentityOf(ev) \in acc.stream.ids
  BY <1>1, <1>5 DEF Appended
<1>6. CASE IdentityOf(ev) \notin acc.stream.ids /\ acc.ok /\ Replayable(acc.stream, ev)
  <2>1. Appended(acc, ev) = [acc EXCEPT !.stream = st]
    BY <1>6 DEF Appended, st
  <2> QED
    BY <1>1, <1>3, <1>4, <1>6, <2>1
<1>7. CASE IdentityOf(ev) \notin acc.stream.ids /\ ~(acc.ok /\ Replayable(acc.stream, ev))
  <2>1. Appended(acc, ev) = [acc EXCEPT !.ok = FALSE]
    BY <1>7 DEF Appended
  <2> QED
    BY <1>1, <1>4, <1>7, <2>1
<1> QED
  BY <1>5, <1>6, <1>7

\* A flush keeps the events the stream has, and when it succeeds the stream has
\* those that were flushed.
LEMMA FlushKnows ==
    ASSUME NEW J, NEW st \in Streams(J), NEW s \in Seq(Events(J))
    PROVE  /\ Flushed(st, s) \in Flushes(J)
           /\ st.ids \subseteq Flushed(st, s).stream.ids
           /\ Flushed(st, s).ok => IdsOf(s) \subseteq Flushed(st, s).stream.ids
<1> DEFINE F(k) == Flushed(st, Prefix(s, k))
           S == {k \in 0..Len(s) :
                   /\ F(k) \in Flushes(J)
                   /\ st.ids \subseteq F(k).stream.ids
                   /\ F(k).ok => \A i \in 1..k : IdentityOf(s[i]) \in F(k).stream.ids}
<1>1. /\ Len(s) \in Nat /\ DOMAIN s = 1..Len(s) /\ Prefix(s, Len(s)) = s
      /\ Prefix(s, 0) = <<>>
  BY PrefixesOf
<1>2. F(0) = Fresh(st)
  BY <1>1, FlushNothing
<1>3. 0 \in S
  <2>1. Fresh(st) \in Flushes(J) /\ Fresh(st).stream = st /\ \A i \in 1..0 : FALSE
    BY DEF Fresh, Flushes
  <2>2. 0 \in 0..Len(s)
    BY <1>1
  <2> HIDE DEF F
  <2> QED
    BY <1>2, <2>1, <2>2
<1>4. ASSUME NEW k \in 1..Len(s), k - 1 \in S PROVE k \in S
  <2> DEFINE acc == F(k - 1)
             ev == s[k]
  <2>1. ev \in Events(J) /\ F(k) = Appended(acc, ev)
    BY FlushSteps
  <2>2. /\ acc \in Flushes(J) /\ st.ids \subseteq acc.stream.ids
        /\ acc.ok => \A i \in 1..(k - 1) : IdentityOf(s[i]) \in acc.stream.ids
    BY <1>4
  <2> HIDE DEF F, acc
  <2>3. /\ F(k) \in Flushes(J) /\ acc.stream.ids \subseteq F(k).stream.ids
        /\ F(k).ok => acc.ok \/ IdentityOf(ev) \in acc.stream.ids
        /\ F(k).ok => IdentityOf(ev) \in F(k).stream.ids
        /\ IdentityOf(ev) \in acc.stream.ids => F(k) = acc
    BY <2>1, <2>2, AppendedParts
  <2>4. F(k).ok => acc.ok
    BY <2>3
  <2>5. \A i \in 1..k : i = k \/ i \in 1..(k - 1)
    OBVIOUS
  <2>6. F(k).ok => \A i \in 1..k : IdentityOf(s[i]) \in F(k).stream.ids
    BY <2>2, <2>3, <2>4, <2>5
  <2>7. st.ids \subseteq F(k).stream.ids /\ k \in 0..Len(s)
    BY <2>2, <2>3
  <2> QED
    BY <2>3, <2>6, <2>7
<1> HIDE DEF S
<1>5. Len(s) \in S
  <2>1. 0..Len(s) \subseteq S
    BY <1>1, <1>3, <1>4, UpTo
  <2> QED
    BY <1>1, <2>1
<1>6. F(Len(s)) = Flushed(st, s)
  BY <1>1
<1> HIDE DEF F
<1> QED
  BY <1>1, <1>5, <1>6 DEF S, IdsOf

\* Events that the stream has leave it as it is.
LEMMA FlushKnown ==
    ASSUME NEW J, NEW st \in Streams(J), NEW s \in Seq(Events(J)), IdsOf(s) \subseteq st.ids
    PROVE  Flushed(st, s) = Fresh(st)
<1> DEFINE F(k) == Flushed(st, Prefix(s, k))
           S == {k \in 0..Len(s) : F(k) = Fresh(st)}
<1>1. /\ Len(s) \in Nat /\ DOMAIN s = 1..Len(s) /\ Prefix(s, Len(s)) = s
      /\ Prefix(s, 0) = <<>>
  BY PrefixesOf
<1>2. 0 \in S
  BY <1>1, FlushNothing
<1>3. Fresh(st) \in Flushes(J) /\ Fresh(st).stream = st
  BY DEF Fresh, Flushes
<1>4. ASSUME NEW k \in 1..Len(s), k - 1 \in S PROVE k \in S
  <2>1. s[k] \in Events(J) /\ F(k) = Appended(F(k - 1), s[k])
    BY FlushSteps
  <2>2. IdentityOf(s[k]) \in st.ids
    BY <1>1 DEF IdsOf
  <2>3. F(k) = Appended(Fresh(st), s[k])
    BY <1>4, <2>1
  <2>4. F(k) = Fresh(st)
    BY <1>3, <2>1, <2>2, <2>3, AppendedParts
  <2>5. k \in 0..Len(s)
    OBVIOUS
  <2> QED
    BY <2>4, <2>5
<1> HIDE DEF S
<1>5. 0..Len(s) \subseteq S
  BY <1>1, <1>2, <1>4, UpTo
<1> QED
  BY <1>1, <1>5 DEF S

\* FlattenSeq appends one sequence after another.
LEMMA FlattenSteps ==
    ASSUME NEW X, NEW s \in Seq(Seq(X))
    PROVE  \E g \in [0..Len(s) -> Seq(X)] :
             /\ g[0] = <<>> /\ \A k \in 1..Len(s) : g[k] = g[k - 1] \o s[k]
             /\ FlattenSeq(s) = g[Len(s)]
<1> DEFINE n == Len(s)
           Y == Seq(X)
           Is(f) == f = [i \in 1..n |-> IF i = 1 THEN s[i] ELSE f[i - 1] \o s[i]]
           F == CHOOSE f : Is(f)
           G == [k \in 1..n |-> [y \in Y |-> y \o s[k]]]
<1>1. n \in Nat /\ \A i \in 1..n : s[i] \in Y
  OBVIOUS
<1>2. <<>> \in Y /\ (\A x, y \in Y : x \o y \in Y) /\ \A y \in Y : <<>> \o y = y
  OBVIOUS
<1>3. n = 0 => FlattenSeq(s) = <<>>
  <2>1. n = 0 => s = <<>>
    OBVIOUS
  <2> QED
    BY <2>1 DEF FlattenSeq
<1>4. n # 0 => FlattenSeq(s) = F[n]
  BY DEF FlattenSeq
<1> HIDE DEF Y, n
<1>5. G \in [1..n -> [Y -> Y]]
  BY <1>1, <1>2
<1>6. \A k \in 1..n, y \in Y : G[k][y] = y \o s[k]
  OBVIOUS
<1> HIDE DEF G
<1>7. PICK g : Recursive(g, n, Y, <<>>, G)
  BY <1>1, <1>2, <1>5, Recursion
<1>8. g \in [0..n -> Y] /\ g[0] = <<>> /\ \A k \in 1..n : g[k] = G[k][g[k - 1]]
  BY <1>7 DEF Recursive
<1>9. ASSUME NEW k \in 1..n PROVE k - 1 \in 0..n /\ k \in 0..n
  BY <1>1
<1>10. \A k \in 1..n : g[k] = g[k - 1] \o s[k]
  BY <1>6, <1>8, <1>9
<1>19. 1 \in 1..n => g[1] = s[1]
  <2> SUFFICES ASSUME 1 \in 1..n PROVE g[1] = s[1]
    OBVIOUS
  <2>1. 1 - 1 = 0
    OBVIOUS
  <2>2. g[1] = <<>> \o s[1]
    BY <1>8, <1>10, <2>1
  <2>3. s[1] \in Y
    BY <1>1
  <2> QED
    BY <1>2, <2>2, <2>3
<1> DEFINE h == [i \in 1..n |-> g[i]]
<1>11. \A i \in 1..n : h[i] = IF i = 1 THEN s[i] ELSE h[i - 1] \o s[i]
  <2>1. ASSUME NEW i \in 1..n, i = 1 PROVE g[i] = s[i]
    BY <1>19, <2>1
  <2>2. ASSUME NEW i \in 1..n, i # 1 PROVE i - 1 \in 1..n
    BY <1>1, <2>2
  <2> QED
    BY <1>10, <2>1, <2>2
<1>12. Is(h)
  <2>1. h = [i \in 1..n |-> h[i]]
    OBVIOUS
  <2> HIDE DEF h
  <2> QED
    BY <1>11, <2>1
<1>13. Is(F)
  <2> HIDE DEF Is
  <2> QED
    BY <1>12
<1>14. \A i \in 1..n : F[i] = IF i = 1 THEN s[i] ELSE F[i - 1] \o s[i]
  BY <1>13
<1> HIDE DEF F, h, Is
<1> DEFINE S == {k \in 0..n : k # 0 => F[k] = g[k]}
<1>15. ASSUME NEW k \in 1..n, k - 1 \in S PROVE k \in S
  <2>1. CASE k = 1
    BY <1>9, <1>14, <1>19, <2>1
  <2>2. CASE k # 1
    <3>1. F[k - 1] = g[k - 1]
      BY <1>1, <1>15, <2>2
    <3> QED
      BY <1>9, <1>10, <1>14, <2>2, <3>1
  <2> QED
    BY <2>1, <2>2
<1>16. 0 \in S
  BY <1>1
<1> HIDE DEF S
<1>17. n \in S
  <2>1. 0..n \subseteq S
    BY <1>1, <1>15, <1>16, UpTo
  <2> QED
    BY <1>1, <2>1
<1>18. FlattenSeq(s) = g[n]
  BY <1>3, <1>4, <1>8, <1>17 DEF S
<1> QED
  BY <1>8, <1>10, <1>18 DEF n, Y

\* A flush of events and then of more.
LEMMA FlushConcat ==
    ASSUME NEW J, NEW st \in Streams(J), NEW p \in Seq(Events(J)), NEW s \in Seq(Events(J)),
           Flushed(st, p).ok
    PROVE  Flushed(st, p \o s) = Flushed(Flushed(st, p).stream, s)
<1> DEFINE base == Flushed(st, p).stream
           F(k) == Flushed(base, Prefix(s, k))
           S == {k \in 0..Len(s) : Flushed(st, p \o Prefix(s, k)) = F(k)}
<1>1. /\ Len(s) \in Nat /\ DOMAIN s = 1..Len(s) /\ Prefix(s, Len(s)) = s
      /\ Prefix(s, 0) = <<>> /\ p \o <<>> = p
  BY PrefixesOf
<1>2. Flushed(st, p) \in Flushes(J)
  BY FlushKnows
<1>3. base \in Streams(J) /\ Flushed(st, p) = Fresh(base)
  BY <1>2 DEF Flushes, Fresh
<1> HIDE DEF base
<1>4. 0 \in S
  <2>1. Flushed(base, <<>>) = Fresh(base)
    BY <1>3, FlushNothing
  <2>2. Flushed(st, p \o Prefix(s, 0)) = F(0)
    BY <1>1, <1>3, <2>1
  <2>3. 0 \in 0..Len(s)
    BY <1>1
  <2> HIDE DEF F
  <2> QED
    BY <2>2, <2>3
<1>5. ASSUME NEW k \in 1..Len(s), k - 1 \in S PROVE k \in S
  <2> DEFINE r == Prefix(s, k - 1)
             ev == s[k]
  <2>1. ev \in Events(J) /\ r \in Seq(Events(J)) /\ Prefix(s, k) = Append(r, ev)
    BY PrefixesOf
  <2>2. Flushed(st, p \o r) = Flushed(base, r)
    BY <1>5
  <2> HIDE DEF r, ev
  <2>3. p \o Append(r, ev) = Append(p \o r, ev) /\ p \o r \in Seq(Events(J))
    BY <2>1
  <2>4. Flushed(st, Append(p \o r, ev)) = Appended(Flushed(st, p \o r), ev)
    <3> DEFINE u == p \o r
    <3>1. u \in Seq(Events(J))
      BY <2>3
    <3> HIDE DEF u
    <3>2. Flushed(st, Append(u, ev)) = Appended(Flushed(st, u), ev)
      BY <2>1, <3>1, FlushAppend
    <3> QED
      BY <3>2 DEF u
  <2>5. Flushed(base, Append(r, ev)) = Appended(Flushed(base, r), ev)
    BY <1>3, <2>1, FlushAppend
  <2>6. Flushed(st, p \o Prefix(s, k)) = F(k)
    BY <2>1, <2>2, <2>3, <2>4, <2>5
  <2> HIDE DEF F
  <2> QED
    BY <2>6
<1> HIDE DEF S
<1>6. Len(s) \in S
  <2>1. 0..Len(s) \subseteq S
    BY <1>1, <1>4, <1>5, UpTo
  <2> QED
    BY <1>1, <2>1
<1> QED
  BY <1>1, <1>6 DEF S, base

\* Events that are waiting already are known once the buffer was flushed, so it
\* does not matter that they are not buffered again.
LEMMA FlushBuffered ==
    ASSUME NEW J, NEW st \in Streams(J), NEW p \in Seq(Events(J)), NEW s \in Seq(Events(J)),
           Flushed(st, p).ok
    PROVE  Flushed(st, Buffered(p, s)) = Flushed(Flushed(st, p).stream, s)
<1> DEFINE base == Flushed(st, p).stream
           X == Events(J)
           f == [i \in DOMAIN s |->
                 IF \E k \in DOMAIN p : IdentityOf(p[k]) = IdentityOf(s[i])
                 THEN <<>> ELSE <<s[i]>>]
<1>1. Len(s) \in Nat /\ DOMAIN s = 1..Len(s) /\ \A i \in DOMAIN s : s[i] \in X
  OBVIOUS
<1>2. /\ \A i \in DOMAIN s : f[i] \in Seq(X)
      /\ \A i \in DOMAIN s : f[i] = <<s[i]>> \/ (f[i] = <<>> /\ IdentityOf(s[i]) \in IdsOf(p))
  <2>1. ASSUME NEW i \in DOMAIN s
        PROVE  f[i] \in Seq(X) /\ (f[i] = <<s[i]>> \/ (f[i] = <<>> /\ IdentityOf(s[i]) \in IdsOf(p)))
    <3>1. <<>> \in Seq(X) /\ <<s[i]>> \in Seq(X)
      BY <1>1
    <3>2. f[i] = <<s[i]>> \/ (f[i] = <<>> /\ \E k \in DOMAIN p : IdentityOf(p[k]) = IdentityOf(s[i]))
      OBVIOUS
    <3> HIDE DEF f
    <3> QED
      BY <3>1, <3>2 DEF IdsOf
  <2> QED
    BY <2>1
<1>3. f = [i \in 1..Len(s) |-> f[i]]
  BY <1>1
<1>4. Buffered(p, s) = p \o FlattenSeq(f)
  BY DEF Buffered
<1> HIDE DEF f, X
<1>5. f \in Seq(Seq(X)) /\ Len(f) = Len(s)
  <2>1. \A i \in 1..Len(s) : f[i] \in Seq(X)
    BY <1>1, <1>2
  <2>2. f \in [1..Len(s) -> Seq(X)]
    BY <1>3, <2>1
  <2> QED
    BY <1>1, <2>2
<1>6. PICK g \in [0..Len(s) -> Seq(X)] :
        /\ g[0] = <<>> /\ \A k \in 1..Len(s) : g[k] = g[k - 1] \o f[k]
        /\ FlattenSeq(f) = g[Len(s)]
  <2>1. f \in Seq(Seq(X))
    BY <1>5
  <2>2. \E g \in [0..Len(f) -> Seq(X)] :
          /\ g[0] = <<>> /\ \A k \in 1..Len(f) : g[k] = g[k - 1] \o f[k]
          /\ FlattenSeq(f) = g[Len(f)]
    BY <2>1, FlattenSteps, Zenon
  <2> QED
    BY <1>5, <2>2, Zenon
<1>7. base \in Streams(J) /\ IdsOf(p) \subseteq base.ids
  <2>1. Flushed(st, p) \in Flushes(J)
    BY FlushKnows
  <2> QED
    BY <2>1, FlushKnows DEF Flushes
<1> HIDE DEF base
<1> DEFINE F(k) == Flushed(base, Prefix(s, k))
           S == {k \in 0..Len(s) : Flushed(base, g[k]) = F(k)}
<1>8. Prefix(s, 0) = <<>> /\ Prefix(s, Len(s)) = s
  BY PrefixesOf
<1>9. 0 \in S
  BY <1>1, <1>6, <1>8
<1>10. ASSUME NEW k \in 1..Len(s), k - 1 \in S PROVE k \in S
  <2> DEFINE ev == s[k]
             was == g[k - 1]
             acc == F(k - 1)
  <2>1. ev \in X /\ k \in DOMAIN s /\ k - 1 \in 0..Len(s) /\ k \in 0..Len(s)
    BY <1>1
  <2>2. was \in Seq(X) /\ g[k] = was \o f[k]
    BY <1>6, <2>1
  <2>3. F(k) = Appended(acc, ev)
    BY <1>7, FlushSteps DEF X
  <2>4. acc = Flushed(base, was)
    BY <1>10
  <2>5. acc \in Flushes(J) /\ base.ids \subseteq acc.stream.ids
    <3> HIDE DEF acc, was
    <3> QED
      BY <1>7, <2>2, <2>4, FlushKnows DEF X
  <2> HIDE DEF ev, acc, was, F
  <2>6. CASE f[k] = <<s[k]>>
    <3>1. was \o f[k] = Append(was, ev)
      BY <2>1, <2>2, <2>6 DEF ev
    <3>2. Flushed(base, Append(was, ev)) = Appended(acc, ev)
      BY <1>7, <2>1, <2>2, <2>4, FlushAppend DEF X
    <3>3. Flushed(base, g[k]) = F(k)
      BY <2>2, <2>3, <3>1, <3>2
    <3> QED
      BY <2>1, <3>3
  <2>7. CASE f[k] = <<>> /\ IdentityOf(s[k]) \in IdsOf(p)
    <3>1. g[k] = was
      BY <2>2, <2>7
    <3>2. IdentityOf(ev) \in acc.stream.ids
      BY <1>7, <2>5, <2>7 DEF ev
    <3>3. Appended(acc, ev) = acc
      BY <3>2 DEF Appended
    <3>4. Flushed(base, g[k]) = F(k)
      BY <2>3, <2>4, <3>1, <3>3
    <3> QED
      BY <2>1, <3>4
  <2> QED
    BY <1>2, <2>1, <2>6, <2>7
<1> HIDE DEF S
<1>11. Len(s) \in S
  <2>1. 0..Len(s) \subseteq S
    BY <1>1, <1>9, <1>10, UpTo
  <2> QED
    BY <1>1, <2>1
<1>12. Flushed(base, FlattenSeq(f)) = Flushed(base, s)
  BY <1>6, <1>8, <1>11 DEF S
<1>13. FlattenSeq(f) \in Seq(X)
  BY <1>5, FlattenTyped
<1>14. Flushed(st, p \o FlattenSeq(f)) = Flushed(base, FlattenSeq(f))
  BY <1>13, FlushConcat DEF X, base
<1> QED
  BY <1>4, <1>12, <1>14 DEF base

\* A journal that backs everything: what is said here is not about receipts.
AllReceipts == [t \in Task |-> [a \in Attempts |-> "succeeded"]]

\* A task in the first session: it has no retry, so no attempt or its first one.
First(x) ==
    /\ x.current = x.attempt /\ x.pending = 0
    /\ \/ x.status \in {"queued", "blocked"} /\ x.attempt = 0
       \/ x.status \in {"running", "waiting-feedback", "succeeded", "failed"} /\ x.attempt = 1

\* What the stream says of such a task.
ExecOf(x) ==
    [status |-> x.status, current |-> x.attempt, pending |-> 0, last |-> x.attempt,
     attempt |-> [a \in Attempts |-> IF a = x.attempt THEN x.status ELSE "none"]]

Shows(st, tasks) == \A t \in Task : First(tasks[t]) /\ st.execution[t] = ExecOf(tasks[t])

\* The types that only the creation of a run emits.
Created == {"TaskQueued", "RunCreated"}

\* Events emitted before the number n.
Below(ids, n) == \A id \in ids : id[2] \in Created \/ id[4] < n

\* After the stream m and the events of q the tasks are these.
Records(m, q, tasks) ==
    LET then == Flushed(m, q.events) IN
    /\ then.ok
    /\ Shows(then.stream, tasks)
    /\ Below(then.stream.ids, q.seq)

-----------------------------------------------------------------------------
\* The life of a task.

LEMMA StartedFirst ==
    ASSUME NEW x \in QueueTask, First(x), x.status = "queued",
           NEW y, y = [status |-> "running", attempt |-> 1, current |-> 1, pending |-> 0]
    PROVE  /\ Accepts(ExecOf(x), Strict("TaskStarted", 1))
           /\ After(ExecOf(x), Strict("TaskStarted", 1)) = ExecOf(y)
           /\ First(y)
<1> DEFINE e == Strict("TaskStarted", 1)
           o == ExecOf(x)
<1>1. e.type = "TaskStarted" /\ e.attempt = 1 /\ e.next = 0 /\ e.strict
  BY DEF Strict
<1>2. /\ o.status = "queued" /\ o.current = 0 /\ o.pending = 0 /\ o.last = 0
      /\ o.attempt = [a \in Attempts |-> "none"]
  <2>1. x.attempt = 0
    BY DEF First
  <2>2. \A a \in Attempts : a # 0
    BY DEF Attempts
  <2> QED
    BY <2>1, <2>2 DEF ExecOf
<1> HIDE DEF e, o
<1>3. AttemptOf(o, e) = 1 /\ AttemptAt(o, 1) = "none" /\ 1 \in Attempts
  BY <1>1, <1>2, AttemptsNat DEF AttemptOf, AttemptAt
<1>4. Accepts(o, e)
  BY <1>1, <1>2, <1>3 DEF Accepts, OrderAccepted, LifecycleAccepted, Completions
<1>5. After(o, e) = [status |-> "running", current |-> 1, pending |-> 0, last |-> 1,
                     attempt |-> [b \in Attempts |-> IF b = 1 THEN "running" ELSE "none"]]
  BY <1>1, <1>2, <1>3 DEF After, StatusOf, FenceAfter
<1> QED
  BY <1>4, <1>5 DEF ExecOf, First, e, o

LEMMA EndedFirst ==
    ASSUME NEW x \in QueueTask, First(x), x.status = "running",
           NEW type, NEW status,
           <<type, status>> \in {<<"TaskSucceeded", "succeeded">>, <<"TaskFailed", "failed">>,
                                 <<"TaskFeedbackRequested", "waiting-feedback">>}
    PROVE  /\ Accepts(ExecOf(x), Strict(type, 1))
           /\ After(ExecOf(x), Strict(type, 1)) = ExecOf(Turned(x, status))
           /\ First(Turned(x, status))
<1> DEFINE e == Strict(type, 1)
           o == ExecOf(x)
           y == Turned(x, status)
<1>1. e.type = type /\ e.attempt = 1 /\ e.next = 0 /\ e.strict
  BY DEF Strict
<1>2. /\ o.status = "running" /\ o.current = 1 /\ o.pending = 0 /\ o.last = 1
      /\ o.attempt = [a \in Attempts |-> IF a = 1 THEN "running" ELSE "none"]
  BY DEF First, ExecOf
<1>3. /\ y.status = status /\ y.attempt = 1 /\ y.current = 1 /\ y.pending = 0
      /\ x.attempt = 1
  <2>1. status \in TaskStatus
    BY DEF TaskStatus
  <2> QED
    BY <2>1, TurnedTyped DEF First
<1> HIDE DEF e, o, y
<1>4. AttemptOf(o, e) = 1 /\ AttemptAt(o, 1) = "running" /\ 1 \in Attempts
  BY <1>1, <1>2, AttemptsNat DEF AttemptOf, AttemptAt
<1>5. Accepts(o, e)
  BY <1>1, <1>2, <1>4 DEF Accepts, OrderAccepted, LifecycleAccepted, Completions
<1>6. /\ StatusOf(type) = status /\ type # "TaskAttemptMarkedUnknown"
      /\ FenceAfter(o, e) = 0
  BY <1>1, <1>2 DEF StatusOf, FenceAfter, Completions
<1>7. After(o, e) = [status |-> status, current |-> 1, pending |-> 0, last |-> 1,
                     attempt |-> [b \in Attempts |-> IF b = 1 THEN status ELSE o.attempt[b]]]
  BY <1>1, <1>2, <1>4, <1>6 DEF After
<1>8. [b \in Attempts |-> IF b = 1 THEN status ELSE o.attempt[b]]
        = [b \in Attempts |-> IF b = 1 THEN status ELSE "none"]
  BY <1>2
<1>9. After(o, e) = ExecOf(y)
  BY <1>3, <1>7, <1>8 DEF ExecOf
<1>10. First(y)
  BY <1>3 DEF First
<1> QED
  BY <1>5, <1>9, <1>10 DEF e, o, y

LEMMA BlockedFirst ==
    ASSUME NEW x \in QueueTask, First(x), x.status = "queued"
    PROVE  /\ Accepts(ExecOf(x), Strict("TaskBlocked", 0))
           /\ After(ExecOf(x), Strict("TaskBlocked", 0)) = ExecOf(Turned(x, "blocked"))
           /\ First(Turned(x, "blocked"))
<1> DEFINE e == Strict("TaskBlocked", 0)
           o == ExecOf(x)
           y == Turned(x, "blocked")
<1>1. e.type = "TaskBlocked" /\ e.attempt = 0 /\ e.next = 0 /\ e.strict
  BY DEF Strict
<1>2. \A a \in Attempts : a # 0
  BY DEF Attempts
<1>3. /\ o.status = "queued" /\ o.current = 0 /\ o.pending = 0 /\ o.last = 0
      /\ o.attempt = [a \in Attempts |-> "none"]
  BY <1>2 DEF First, ExecOf
<1>4. /\ y.status = "blocked" /\ y.attempt = 0 /\ y.current = 0 /\ y.pending = 0
  <2>1. "blocked" \in TaskStatus
    BY DEF TaskStatus
  <2> QED
    BY <2>1, TurnedTyped DEF First
<1> HIDE DEF e, o, y
<1>5. AttemptOf(o, e) = 0
  BY <1>1 DEF AttemptOf, AttemptEvents
<1>6. Accepts(o, e)
  BY <1>1, <1>3, <1>5 DEF Accepts
<1>7. After(o, e) = [status |-> "blocked", current |-> 0, pending |-> 0, last |-> 0,
                     attempt |-> [b \in Attempts |-> IF b = 0 THEN "blocked" ELSE o.attempt[b]]]
  BY <1>1, <1>3, <1>5 DEF After, StatusOf, FenceAfter
<1>8. [b \in Attempts |-> IF b = 0 THEN "blocked" ELSE o.attempt[b]]
        = [b \in Attempts |-> IF b = 0 THEN "blocked" ELSE "none"]
  BY <1>3
<1>9. After(o, e) = ExecOf(y)
  BY <1>4, <1>7, <1>8 DEF ExecOf
<1>10. First(y)
  BY <1>4 DEF First
<1> QED
  BY <1>6, <1>9, <1>10 DEF e, o, y

-----------------------------------------------------------------------------
\* An event more.

LEMMA RunEventShows ==
    ASSUME NEW st \in Streams(AllReceipts), NEW tasks, Shows(st, tasks),
           NEW ev \in Events(AllReceipts), ev.task = "run",
           ev.e.type = "RunSucceeded" => \A t \in Task : tasks[t].status = "succeeded"
    PROVE  Replayable(st, ev) /\ Shows(Replayed(st, ev), tasks)
<1>1. ASSUME NEW t \in Task PROVE st.execution[t].status = tasks[t].status
  <2>1. st.execution[t] = ExecOf(tasks[t])
    BY DEF Shows
  <2>2. ExecOf(tasks[t]).status = tasks[t].status
    BY DEF ExecOf
  <2> QED
    BY <2>1, <2>2
<1>2. Replayed(st, ev).execution = st.execution
  <2>1. Replayed(st, ev).execution = ExecutionsAfter(st.execution, ev)
    BY ReplayedParts
  <2> QED
    BY <2>1 DEF ExecutionsAfter
<1> QED
  BY <1>1, <1>2 DEF Replayable, Shows

LEMMA TaskEventShows ==
    ASSUME NEW st \in Streams(AllReceipts), NEW tasks, Shows(st, tasks),
           NEW ev \in Events(AllReceipts), NEW t \in Task, ev.task = t,
           NEW x, First(x), Accepts(ExecOf(tasks[t]), ev.e),
           After(ExecOf(tasks[t]), ev.e) = ExecOf(x),
           NEW done, \A u \in Task : done[u] = IF u = t THEN x ELSE tasks[u]
    PROVE  Replayable(st, ev) /\ Shows(Replayed(st, ev), done)
<1>1. ev.task # "run"
  BY OrderAssumption
<1>2. st.execution[t] = ExecOf(tasks[t]) /\ st.execution \in [Task -> Execution]
  BY StreamParts DEF Shows
<1>3. Replayed(st, ev).execution = [st.execution EXCEPT ![t] = ExecOf(x)]
  <2>1. Replayed(st, ev).execution = ExecutionsAfter(st.execution, ev)
    BY ReplayedParts
  <2> QED
    BY <1>1, <1>2, <2>1 DEF ExecutionsAfter
<1>4. \A u \in Task : First(done[u]) /\ Replayed(st, ev).execution[u] = ExecOf(done[u])
  BY <1>2, <1>3 DEF Shows
<1> QED
  BY <1>1, <1>2, <1>4 DEF Replayable, Shows

LEMMA AppendRecords ==
    ASSUME NEW m \in Streams(AllReceipts), NEW q \in Queues(AllReceipts), NEW tasks, Records(m, q, tasks),
           NEW ev \in Events(AllReceipts), ev.n = q.seq, ev.e.type \notin Created,
           NEW r, r.events = Append(q.events, ev), r.seq = q.seq + 1, NEW done,
           \A st \in Streams(AllReceipts) :
             Shows(st, tasks) => Replayable(st, ev) /\ Shows(Replayed(st, ev), done)
    PROVE  Records(m, r, done)
<1> DEFINE then == Flushed(m, q.events)
           base == then.stream
           st == Replayed(base, ev)
           id == IdentityOf(ev)
<1>1. q.events \in Seq(Events(AllReceipts)) /\ q.seq \in Nat
  BY QueueParts
<1>2. then \in Flushes(AllReceipts) /\ Flushed(m, r.events) = Appended(then, ev)
  BY <1>1, FlushAppend
<1>3. then.ok /\ Shows(base, tasks) /\ Below(base.ids, q.seq)
  BY DEF Records
<1> HIDE DEF then
<1>4. base \in Streams(AllReceipts) /\ then = [ok |-> then.ok, stream |-> base]
  BY <1>2 DEF Flushes
<1> HIDE DEF base
<1>5. id[2] = ev.e.type /\ id[4] = q.seq
  BY DEF IdentityOf
<1> HIDE DEF id
<1>6. id \notin base.ids
  BY <1>1, <1>3, <1>5 DEF Below
<1>7. Replayable(base, ev) /\ Shows(st, done)
  BY <1>3, <1>4
<1>8. st.ids = base.ids \cup {id}
  BY <1>4, ReplayedParts DEF id
<1> HIDE DEF st
<1>9. Appended(then, ev) = [then EXCEPT !.stream = st]
  BY <1>3, <1>6, <1>7 DEF Appended, id, st, base
<1>10. [then EXCEPT !.stream = st].ok /\ [then EXCEPT !.stream = st].stream = st
  BY <1>3, <1>4
<1>11. Below(st.ids, r.seq)
  <2>1. base.ids \in SUBSET Identities
    BY <1>4, StreamParts
  <2>2. ASSUME NEW i \in base.ids PROVE i[4] \in Nat
    BY <2>1 DEF Identities
  <2>3. ASSUME NEW i \in base.ids PROVE i[2] \in Created \/ i[4] < r.seq
    BY <1>1, <1>3, <2>2 DEF Below
  <2>4. id[4] < r.seq
    BY <1>1, <1>5
  <2> QED
    BY <1>8, <2>3, <2>4 DEF Below
<1> QED
  BY <1>2, <1>7, <1>9, <1>10, <1>11 DEF Records

-----------------------------------------------------------------------------
\* The operators of the queue.

LEMMA EmitTaskParts ==
    ASSUME NEW J, NEW q \in Queues(J), NEW t \in Task, NEW e \in TaskEvent, BackedBy(J, t, e)
    PROVE  /\ QueueEvent(t, e, e.attempt, q.seq) \in Events(J)
           /\ EmitTask(q, t, e).events = Append(q.events, QueueEvent(t, e, e.attempt, q.seq))
           /\ EmitTask(q, t, e).seq = q.seq + 1
<1> DEFINE ev == QueueEvent(t, e, e.attempt, q.seq)
           events == Append(q.events, ev)
           n == q.seq + 1
<1>1. e.attempt \in Nat /\ q.seq \in Nat
  BY TaskEventTyped, AttemptsNat, QueueParts DEF EventRecord
<1>2. ev \in Events(J)
  BY <1>1, MadeEvent
<1>3. EmitTask(q, t, e) = [q EXCEPT !.events = events, !.seq = n]
  BY DEF EmitTask
<1> HIDE DEF events, n, ev
<1>4. EmitTask(q, t, e) = QueueOf(q.status, q.tasks, q.started, events, n)
  BY <1>3, QueueNumbered
<1>5. QueueOf(q.status, q.tasks, q.started, events, n).events = events
      /\ QueueOf(q.status, q.tasks, q.started, events, n).seq = n
  BY DEF QueueOf
<1> QED
  BY <1>2, <1>4, <1>5 DEF events, n, ev

RunEventOf(q, type) == QueueEvent("run", Strict(type, 0), GreatestAttempt(q), q.seq)

LEMMA EmitRunParts ==
    ASSUME NEW J, NEW q \in Queues(J), NEW type \in RunType
    PROVE  /\ RunEventOf(q, type) \in Events(J)
           /\ EmitRun(q, type).events = Append(q.events, RunEventOf(q, type))
           /\ EmitRun(q, type).seq = q.seq + 1
<1> DEFINE ev == RunEventOf(q, type)
           events == Append(q.events, ev)
           n == q.seq + 1
           r == [q EXCEPT !.events = events, !.seq = n]
<1>1. TasksSound(J, q.tasks) /\ q.seq \in Nat
  BY QueueParts
<1>2. ev \in Events(J)
  BY <1>1, GreatestTyped, MadeRunEvent DEF RunEventOf
<1>3. PICK st \in BOOLEAN : st = (q.started \/ type = "RunStarted")
  OBVIOUS
<1>4. EmitRun(q, type) = [r EXCEPT !.started = st]
  BY <1>3 DEF EmitRun, RunEventOf
<1> HIDE DEF events, n, ev
<1>5. r = QueueOf(q.status, q.tasks, q.started, events, n)
  BY QueueNumbered
<1> HIDE DEF r
<1>6. [r EXCEPT !.started = st].events = events /\ [r EXCEPT !.started = st].seq = n
  BY <1>5 DEF QueueOf
<1> QED
  BY <1>2, <1>4, <1>6 DEF events, n, ev

LEMMA EmitTaskRecords ==
    ASSUME NEW m \in Streams(AllReceipts), NEW q \in Queues(AllReceipts), NEW tasks, Records(m, q, tasks),
           NEW t \in Task, NEW e \in TaskEvent, BackedBy(AllReceipts, t, e), e.type \notin Created,
           NEW x, First(x), Accepts(ExecOf(tasks[t]), e), After(ExecOf(tasks[t]), e) = ExecOf(x),
           NEW done, \A u \in Task : done[u] = IF u = t THEN x ELSE tasks[u]
    PROVE  Records(m, EmitTask(q, t, e), done)
<1> DEFINE ev == QueueEvent(t, e, e.attempt, q.seq)
           r == EmitTask(q, t, e)
<1>1. ev \in Events(AllReceipts) /\ r.events = Append(q.events, ev) /\ r.seq = q.seq + 1
  BY EmitTaskParts
<1>2. ev.task = t /\ ev.e = e /\ ev.n = q.seq
  BY DEF QueueEvent
<1> HIDE DEF ev, r
<1>3. ASSUME NEW st \in Streams(AllReceipts), Shows(st, tasks)
      PROVE  Replayable(st, ev) /\ Shows(Replayed(st, ev), done)
  BY <1>1, <1>2, <1>3, TaskEventShows
<1>4. Records(m, r, done)
  BY <1>1, <1>2, <1>3, AppendRecords
<1> QED
  BY <1>4 DEF r

LEMMA EmitRunRecords ==
    ASSUME NEW m \in Streams(AllReceipts), NEW q \in Queues(AllReceipts), NEW tasks, Records(m, q, tasks),
           NEW type \in RunType, type # "RunCreated",
           type = "RunSucceeded" => \A t \in Task : tasks[t].status = "succeeded"
    PROVE  Records(m, EmitRun(q, type), tasks)
<1> DEFINE ev == RunEventOf(q, type)
           r == EmitRun(q, type)
<1>1. ev \in Events(AllReceipts) /\ r.events = Append(q.events, ev) /\ r.seq = q.seq + 1
  BY EmitRunParts
<1>2. ev.task = "run" /\ ev.e.type = type /\ ev.n = q.seq
  BY DEF QueueEvent, RunEventOf, Strict
<1>3. type \notin Created
  BY DEF Created, RunType
<1> HIDE DEF ev, r
<1>4. ASSUME NEW st \in Streams(AllReceipts), Shows(st, tasks)
      PROVE  Replayable(st, ev) /\ Shows(Replayed(st, ev), tasks)
  BY <1>1, <1>2, <1>4, RunEventShows
<1>5. Records(m, r, tasks)
  BY <1>1, <1>2, <1>3, <1>4, AppendRecords
<1> QED
  BY <1>5 DEF r

\* A queue whose events record its own tasks.
Recording(m) == {q \in Queues(AllReceipts) : Records(m, q, q.tasks)}

\* The task t takes a status.
WithStatus(q, t, status) == [q EXCEPT !.tasks[t].status = status]

LEMMA TurnRecords ==
    ASSUME NEW q \in Queues(AllReceipts), NEW t \in Task, NEW status \in TaskStatus,
           q.tasks[t].attempt \in Attempts \/ status \in {"queued", "blocked"}
    PROVE  /\ WithStatus(q, t, status) \in Queues(AllReceipts)
           /\ WithStatus(q, t, status).events = q.events
           /\ WithStatus(q, t, status).seq = q.seq
           /\ \A u \in Task : WithStatus(q, t, status).tasks[u]
                               = IF u = t THEN Turned(q.tasks[t], status) ELSE q.tasks[u]
<1> DEFINE r == [q EXCEPT !.tasks[t].status = status]
           T == [q.tasks EXCEPT ![t] = Turned(q.tasks[t], status)]
           v == [q EXCEPT !.tasks = T]
<1>1. status \in {"running", "waiting-feedback", "succeeded", "failed"} =>
         q.tasks[t].attempt \in Attempts
  OBVIOUS
<1>2. status = "succeeded" => AllReceipts[t][q.tasks[t].attempt] = "succeeded"
  BY DEF AllReceipts
<1>3. q.tasks \in [Task -> QueueTask]
  BY QueueParts DEF TasksSound
<1>4. r = v
  BY DEF Turned
<1>5. \A u \in Task : T[u] = IF u = t THEN Turned(q.tasks[t], status) ELSE q.tasks[u]
  BY <1>3
<1>6. r \in Queues(AllReceipts) /\ r.tasks = T
  BY <1>1, <1>2, TaskUpdate
<1> HIDE DEF r, T
<1>7. v = QueueOf(q.status, T, q.started, q.events, q.seq)
  BY QueueField
<1> HIDE DEF v
<1>8. v.events = q.events /\ v.seq = q.seq
  BY <1>7 DEF QueueOf
<1> QED
  BY <1>4, <1>5, <1>6, <1>8 DEF r, WithStatus

\* What reconcileBlocked makes of the tasks: none but a queued one that waits for
\* another is changed.
Settles(before, after) ==
    \A t \in Task :
      \/ after[t] = before[t]
      \/ /\ before[t].status = "queued"
         /\ after[t] = Turned(before[t], "blocked")
         /\ \E d \in DependsOn[t] : before[d].status # "succeeded"

LEMMA BlockRecords ==
    ASSUME NEW m \in Streams(AllReceipts), NEW before \in [Task -> QueueTask],
           NEW q \in Recording(m), Settles(before, q.tasks), NEW t \in Task
    PROVE  BlockTask(q, t) \in Recording(m) /\ Settles(before, BlockTask(q, t).tasks)
<1> DEFINE e == Strict("TaskBlocked", 0)
           r == WithStatus(q, t, "blocked")
           x == Turned(q.tasks[t], "blocked")
<1>1. /\ q \in Queues(AllReceipts) /\ Records(m, q, q.tasks)
      /\ q.tasks \in [Task -> QueueTask] /\ q.tasks[t] \in QueueTask
  BY QueueParts DEF TasksSound, Recording
<1>2. e \in TaskEvent /\ BackedBy(AllReceipts, t, e) /\ e.type \notin Created /\ "blocked" \in TaskStatus
  BY StrictEvents DEF BackedBy, Created, TaskStatus
<1>3. CASE ~ /\ q.tasks[t].status = "queued"
             /\ \E d \in DependsOn[t] : q.tasks[d].status \in DeadEnd
  BY <1>3 DEF BlockTask
<1>4. CASE /\ q.tasks[t].status = "queued"
           /\ \E d \in DependsOn[t] : q.tasks[d].status \in DeadEnd
  <2>1. BlockTask(q, t) = EmitTask(r, t, e)
    BY <1>4 DEF BlockTask, WithStatus
  <2>2. /\ r \in Queues(AllReceipts) /\ r.events = q.events /\ r.seq = q.seq
        /\ \A u \in Task : r.tasks[u] = IF u = t THEN x ELSE q.tasks[u]
    BY <1>1, <1>2, TurnRecords
  <2>3. First(q.tasks[t])
    BY <1>1 DEF Records, Shows
  <2>4. First(x) /\ Accepts(ExecOf(q.tasks[t]), e) /\ After(ExecOf(q.tasks[t]), e) = ExecOf(x)
    BY <1>1, <1>4, <2>3, BlockedFirst
  <2> HIDE DEF e, r, x
  <2>5. Records(m, r, q.tasks)
    BY <1>1, <2>2 DEF Records
  <2>6. Records(m, EmitTask(r, t, e), r.tasks)
    BY <1>2, <2>2, <2>4, <2>5, EmitTaskRecords
  <2>7. EmitTask(r, t, e) \in Queues(AllReceipts) /\ EmitTask(r, t, e).tasks = r.tasks
    BY <1>2, <2>2, EmitTaskSound
  <2>8. before[t].status = "queued" /\ q.tasks[t] = before[t]
    <3>1. Turned(before[t], "blocked").status = "blocked"
      BY <1>2, TurnedTyped
    <3> QED
      BY <1>4, <3>1 DEF Settles
  <2>9. \E d \in DependsOn[t] : before[d].status # "succeeded"
    <3>1. PICK d \in DependsOn[t] : q.tasks[d].status \in DeadEnd
      BY <1>4
    <3>2. d \in Task
      BY <3>1, DependsOnAssumption
    <3> QED
      BY <3>1, <3>2 DEF Settles, DeadEnd
  <2>10. Settles(before, r.tasks)
    BY <2>2, <2>8, <2>9 DEF Settles, x
  <2> QED
    BY <2>1, <2>6, <2>7, <2>10 DEF Recording
<1> QED
  BY <1>3, <1>4

LEMMA ReconciledFolds ==
    ASSUME NEW X, NEW q \in X, \A r \in X : \A t \in Task : BlockTask(r, t) \in X
    PROVE  Reconciled(q) \in X
<1> DEFINE s == FlattenSeq([i \in 1 .. Len(Order) |-> Order])
           D == DOMAIN s
           ch == Newest(D)
           Is(f) == f = [u \in SUBSET D |-> IF u = {} THEN q
                                            ELSE BlockTask(f[u \ {Max(u)}], s[Max(u)])]
           it == CHOOSE f : Is(f)
           G == [p \in D \X X |-> BlockTask(p[2], s[p[1]])]
<1>1. s \in Seq(Task)
  <2>1. [i \in 1 .. Len(Order) |-> Order] \in Seq(Seq(Task))
    BY OrderAssumption
  <2> QED
    BY <2>1, FlattenTyped
<1>2. IsFiniteSet(D) /\ Chooses(ch, D) /\ \A i \in D : s[i] \in Task
  <2> HIDE DEF s
  <2> QED
    BY <1>1, LastChooses
<1>3. Reconciled(q) = it[D]
  BY DEF Reconciled, FoldLeft, MapThenFoldSet
<1>4. q \in X
  OBVIOUS
<1> HIDE DEF s
<1>5. \A i \in D, r \in X : BlockTask(r, s[i]) \in X
  BY <1>2
<1>6. \A i \in D, r \in X : G[<<i, r>>] = BlockTask(r, s[i])
  OBVIOUS
<1>7. \A u \in SUBSET D : ch[u] = Max(u)
  BY DEF Newest
<1> HIDE DEF D, ch, G
<1>8. PICK g : Folding(g, D, q, ch, G)
  BY <1>2, <1>4, <1>5, <1>6, FoldExists
<1>9. g \in [SUBSET D -> X]
  <2>1. IsFiniteSet(D) /\ Chooses(ch, D) /\ \A x \in D, v \in X : G[<<x, v>>] \in X
    BY <1>2, <1>5, <1>6
  <2> QED
    BY <1>4, <1>8, <2>1, FoldTyped
<1>10. Is(g)
  <2>1. ASSUME NEW u \in SUBSET D, u # {}
        PROVE  g[u] = BlockTask(g[u \ {Max(u)}], s[Max(u)])
    <3>1. ch[u] \in u /\ ch[u] = Max(u) /\ ch[u] \in D
      BY <1>2, <1>7, <2>1 DEF Chooses
    <3>2. g[u \ {ch[u]}] \in X
      BY <1>9
    <3>3. g[u] = G[<<ch[u], g[u \ {ch[u]}]>>]
      BY <1>8, <2>1 DEF Folding
    <3> QED
      BY <1>6, <3>1, <3>2, <3>3
  <2>2. g = [u \in SUBSET D |-> g[u]] /\ g[{}] = q
    BY <1>8 DEF Folding
  <2> QED
    BY <2>1, <2>2
<1>11. Is(it)
  <2> HIDE DEF Is
  <2> QED
    BY <1>10
<1> HIDE DEF it
<1>12. /\ it[{}] = q
       /\ \A u \in SUBSET D : u # {} => it[u] = BlockTask(it[u \ {Max(u)}], s[Max(u)])
  BY <1>11
<1> HIDE DEF Is
<1>13. ASSUME NEW u \in SUBSET D, u # {}, it[u \ {ch[u]}] \in X PROVE it[u] \in X
  <2>1. ch[u] = Max(u) /\ ch[u] \in D
    BY <1>2, <1>7, <1>13 DEF Chooses
  <2> QED
    BY <1>5, <1>12, <1>13, <2>1
<1>14. it[D] \in X
  BY <1>2, <1>4, <1>12, <1>13, FoldStays
<1> QED
  BY <1>3, <1>14

LEMMA ReconciledRecords ==
    ASSUME NEW m \in Streams(AllReceipts), NEW q \in Recording(m)
    PROVE  Reconciled(q) \in Recording(m) /\ Settles(q.tasks, Reconciled(q).tasks)
<1> DEFINE X == {r \in Recording(m) : Settles(q.tasks, r.tasks)}
<1>1. q \in X
  BY DEF Settles
<1>2. q.tasks \in [Task -> QueueTask]
  BY QueueParts DEF TasksSound, Recording
<1>3. ASSUME NEW r \in X, NEW t \in Task PROVE BlockTask(r, t) \in X
  BY <1>2, BlockRecords
<1> HIDE DEF X
<1>4. Reconciled(q) \in X
  BY <1>1, <1>3, ReconciledFolds
<1> QED
  BY <1>4 DEF X

LEMMA RecomputedRecords ==
    ASSUME NEW m \in Streams(AllReceipts), NEW q \in Recording(m)
    PROVE  Recomputed(q) \in Recording(m) /\ Recomputed(q).tasks = q.tasks
<1> DEFINE status == StatusFor(q)
           type == RunEventFor(status)
           r == [q EXCEPT !.status = status]
<1>1. q \in Queues(AllReceipts) /\ Records(m, q, q.tasks)
  BY DEF Recording
<1>2. /\ status \in RunStatus
      /\ status = "succeeded" => \A t \in Task : q.tasks[t].status = "succeeded"
  BY DEF StatusFor, RunStatus
<1> HIDE DEF status
<1>3. r \in Queues(AllReceipts) /\ r.tasks = q.tasks
  BY <1>1, <1>2, StatusUpdate
<1>4. r = QueueOf(status, q.tasks, q.started, q.events, q.seq)
  BY <1>1, QueueField
<1>5. status # "queued" => /\ type \in RunType /\ type # "RunCreated"
                           /\ type = "RunSucceeded" => status = "succeeded"
  BY <1>2 DEF RunEventFor, RunStatus, RunType
<1>6. Recomputed(q) \in {q, r} \/ (status # "queued" /\ Recomputed(q) = EmitRun(r, type))
  BY DEF Recomputed, status
<1> HIDE DEF r, type
<1>7. r.events = q.events /\ r.seq = q.seq
  BY <1>4 DEF QueueOf
<1>8. Records(m, r, q.tasks)
  BY <1>1, <1>7 DEF Records
<1>9. status # "queued" => Records(m, EmitRun(r, type), q.tasks)
  BY <1>2, <1>3, <1>5, <1>8, EmitRunRecords
<1>10. status # "queued" => /\ EmitRun(r, type) \in Queues(AllReceipts)
                            /\ EmitRun(r, type).tasks = r.tasks
  BY <1>3, <1>5, EmitRunSound
<1> QED
  BY <1>1, <1>3, <1>6, <1>8, <1>9, <1>10 DEF Recording

\* A task that begins.
Begun == [status |-> "running", attempt |-> 1, current |-> 1, pending |-> 0]

LEMMA ClaimedRecords ==
    ASSUME NEW m \in Streams(AllReceipts), NEW q \in Recording(m),
           NEW t \in Task, q.tasks[t].status = "queued"
    PROVE  /\ NextAttempt(q, t) = 1
           /\ Claimed(q, t) \in Recording(m)
           /\ Claimed(q, t).tasks[t] = Begun
           /\ \A u \in Task : u # t => Claimed(q, t).tasks[u] = q.tasks[u]
<1> DEFINE T == [q.tasks EXCEPT ![t] = Begun]
           p == [q EXCEPT !.status = "running"]
           r == [p EXCEPT !.tasks = T]
           begun == IF q.started THEN r ELSE EmitRun(r, "RunStarted")
           e == Strict("TaskStarted", 1)
<1>1. q \in Queues(AllReceipts) /\ Records(m, q, q.tasks) /\ "running" \in RunStatus
  BY DEF Recording, RunStatus
<1>2. First(q.tasks[t]) /\ TasksSound(AllReceipts, q.tasks)
  BY <1>1, QueueParts DEF Records, Shows
<1>3. NextAttempt(q, t) = 1
  BY <1>2 DEF NextAttempt, First
<1>4. /\ Begun \in QueueTask /\ Begun.status = "running"
      /\ TaskSound(AllReceipts, t, Begun)
  BY AttemptsNat DEF Begun, QueueTask, TaskStatus, TaskSound
<1>5. Claimed(q, t) = EmitTask(begun, t, e)
  <2>1. [q EXCEPT !.status = "running", !.tasks[t] = Begun] = r
    OBVIOUS
  <2> QED
    BY <1>3, <2>1 DEF Claimed, Begun
<1>6. TasksSound(AllReceipts, T) /\ T[t] = Begun /\ \A u \in Task : u # t => T[u] = q.tasks[u]
  BY <1>2, <1>4, TasksKept DEF TasksSound
<1>7. /\ Accepts(ExecOf(q.tasks[t]), e) /\ After(ExecOf(q.tasks[t]), e) = ExecOf(Begun)
      /\ First(Begun)
  BY <1>2, StartedFirst DEF TasksSound, Begun
<1>8. e \in TaskEvent /\ BackedBy(AllReceipts, t, e) /\ e.type \notin Created
  BY StrictEvents, AttemptsNat DEF BackedBy, AttemptEvents, Created
<1> HIDE DEF T, e
<1>9. p \in Queues(AllReceipts) /\ p = QueueOf("running", q.tasks, q.started, q.events, q.seq)
  BY <1>1, StatusUpdate, QueueField
<1> HIDE DEF p
<1>10. p.events = q.events /\ p.seq = q.seq /\ p.status = "running" /\ p.started = q.started
  BY <1>9 DEF QueueOf
<1>11. r = QueueOf(p.status, T, p.started, p.events, p.seq)
  BY <1>9, QueueField
<1>12. r \in Queues(AllReceipts) /\ r.tasks = T
  BY <1>6, <1>9, TasksUpdate
<1> HIDE DEF r
<1>13. r.events = q.events /\ r.seq = q.seq
  BY <1>10, <1>11 DEF QueueOf
<1>14. Records(m, r, q.tasks)
  BY <1>1, <1>13 DEF Records
<1>15. "RunStarted" \in RunType /\ "RunStarted" # "RunCreated" /\ "RunStarted" # "RunSucceeded"
  BY DEF RunType
<1>16. EmitRun(r, "RunStarted") \in Queues(AllReceipts) /\ EmitRun(r, "RunStarted").tasks = T
       /\ Records(m, EmitRun(r, "RunStarted"), q.tasks)
  BY <1>12, <1>14, <1>15, EmitRunSound, EmitRunRecords
<1>17. begun \in Queues(AllReceipts) /\ begun.tasks = T /\ Records(m, begun, q.tasks)
  BY <1>12, <1>14, <1>16
<1> HIDE DEF begun
<1>18. Records(m, EmitTask(begun, t, e), T)
  <2>1. \A u \in Task : T[u] = IF u = t THEN Begun ELSE q.tasks[u]
    BY <1>6
  <2> QED
    BY <1>7, <1>8, <1>17, <2>1, EmitTaskRecords
<1>19. EmitTask(begun, t, e) \in Queues(AllReceipts) /\ EmitTask(begun, t, e).tasks = T
  BY <1>8, <1>17, EmitTaskSound
<1> QED
  BY <1>3, <1>5, <1>6, <1>18, <1>19 DEF Recording

\* The tasks with x for t.
Put(tasks, t, x) == [tasks EXCEPT ![t] = x]

LEMMA PutAt ==
    ASSUME NEW tasks \in [Task -> QueueTask], NEW t \in Task, NEW x
    PROVE  \A u \in Task : Put(tasks, t, x)[u] = IF u = t THEN x ELSE tasks[u]
BY DEF Put

LEMMA RecordingParts ==
    ASSUME NEW m, NEW q \in Recording(m)
    PROVE  /\ q \in Queues(AllReceipts) /\ Records(m, q, q.tasks)
           /\ q.tasks \in [Task -> QueueTask]
           /\ \A t \in Task : First(q.tasks[t])
BY QueueParts DEF TasksSound, Recording, Records, Shows

\* The events that end a running task, and the status they leave it in.
Ends(type, status) ==
    <<type, status>> \in {<<"TaskSucceeded", "succeeded">>, <<"TaskFailed", "failed">>,
                          <<"TaskFeedbackRequested", "waiting-feedback">>}

LEMMA EndRecords ==
    ASSUME NEW m \in Streams(AllReceipts), NEW q \in Recording(m),
           NEW t \in Task, q.tasks[t].status = "running", NEW type, NEW status, Ends(type, status),
           NEW p \in Queues(AllReceipts), p.events = q.events, p.seq = q.seq,
           \A u \in Task : p.tasks[u] = IF u = t THEN Turned(q.tasks[t], status) ELSE q.tasks[u]
    PROVE  LET r == EmitTask(p, t, Strict(type, q.tasks[t].attempt)) IN
           r \in Recording(m) /\ r.tasks = p.tasks
<1> DEFINE e == Strict(type, 1)
           x == Turned(q.tasks[t], status)
<1>1. /\ q \in Queues(AllReceipts) /\ Records(m, q, q.tasks) /\ q.tasks[t] \in QueueTask
      /\ First(q.tasks[t])
  BY RecordingParts
<1>2. q.tasks[t].attempt = 1
  BY <1>1 DEF First
<1>3. e \in TaskEvent /\ BackedBy(AllReceipts, t, e) /\ e.type \notin Created
  <2>1. /\ type \in AttemptEvents \ {"TaskRequeued", "TaskBlocked"}
        /\ type \notin {"TaskRequeued", "TaskBlocked", "TaskQueued", "RunCreated"}
    BY DEF AttemptEvents, Ends
  <2>2. AllReceipts[t][1] = "succeeded"
    BY AttemptsNat DEF AllReceipts
  <2> QED
    BY <2>1, <2>2, StrictEvents, AttemptsNat DEF BackedBy, Created
<1>4. Accepts(ExecOf(q.tasks[t]), e) /\ After(ExecOf(q.tasks[t]), e) = ExecOf(x) /\ First(x)
  BY <1>1, EndedFirst DEF Ends
<1> HIDE DEF e, x
<1>5. Records(m, p, q.tasks)
  BY <1>1 DEF Records
<1>6. Records(m, EmitTask(p, t, e), p.tasks)
  <2>1. \A u \in Task : p.tasks[u] = IF u = t THEN x ELSE q.tasks[u]
    BY DEF x
  <2> QED
    BY <1>3, <1>4, <1>5, <2>1, EmitTaskRecords
<1>7. EmitTask(p, t, e) \in Queues(AllReceipts) /\ EmitTask(p, t, e).tasks = p.tasks
  BY <1>3, EmitTaskSound
<1> QED
  BY <1>2, <1>6, <1>7 DEF Recording, e

LEMMA CompletedRecords ==
    ASSUME NEW m \in Streams(AllReceipts), NEW q \in Recording(m),
           NEW t \in Task, q.tasks[t].status = "running", NEW status \in {"succeeded", "failed"}
    PROVE  /\ Completed(q, t, status) \in Recording(m)
           /\ Settles(Put(q.tasks, t, Turned(q.tasks[t], status)), Completed(q, t, status).tasks)
<1> DEFINE type == IF status = "succeeded" THEN "TaskSucceeded" ELSE "TaskFailed"
           e == Strict(type, q.tasks[t].attempt)
           p == WithStatus(q, t, status)
           r == EmitTask(p, t, e)
           b == Reconciled(r)
           T == Put(q.tasks, t, Turned(q.tasks[t], status))
<1>1. q \in Queues(AllReceipts) /\ q.tasks \in [Task -> QueueTask] /\ First(q.tasks[t])
      /\ status \in TaskStatus
  BY RecordingParts DEF TaskStatus
<1>2. q.tasks[t].attempt \in Attempts
  BY <1>1, AttemptsNat DEF First
<1>3. /\ p \in Queues(AllReceipts) /\ p.events = q.events /\ p.seq = q.seq
      /\ \A u \in Task : p.tasks[u] = IF u = t THEN Turned(q.tasks[t], status) ELSE q.tasks[u]
  BY <1>1, <1>2, TurnRecords
<1>4. Completed(q, t, status) = Recomputed(b)
  BY DEF Completed, WithStatus
<1>5. \A u \in Task : T[u] = p.tasks[u]
  BY <1>1, <1>3, PutAt
<1> HIDE DEF p, T
<1>6. Ends(type, status)
  BY DEF Ends
<1> HIDE DEF type
<1>7. r \in Recording(m) /\ r.tasks = p.tasks
  BY <1>3, <1>6, EndRecords
<1> HIDE DEF r
<1>8. b \in Recording(m) /\ Settles(r.tasks, b.tasks)
  BY <1>7, ReconciledRecords
<1> HIDE DEF b
<1>9. Recomputed(b) \in Recording(m) /\ Recomputed(b).tasks = b.tasks
  BY <1>8, RecomputedRecords
<1>10. Settles(T, b.tasks)
  <2>1. \A u \in Task : T[u] = r.tasks[u]
    BY <1>5, <1>7
  <2>2. \A u \in Task : DependsOn[u] \subseteq Task
    BY DependsOnAssumption
  <2> QED
    BY <1>8, <2>1, <2>2 DEF Settles
<1> QED
  BY <1>4, <1>9, <1>10 DEF T

LEMMA ClaimFailedRecords ==
    ASSUME NEW m \in Streams(AllReceipts), NEW q \in Recording(m),
           NEW t \in Task, q.tasks[t].status = "queued"
    PROVE  /\ ClaimFailed(q, t) \in Recording(m)
           /\ Settles(Put(q.tasks, t, Turned(Begun, "failed")), ClaimFailed(q, t).tasks)
<1> DEFINE r == Claimed(q, t)
<1>1. /\ r \in Recording(m) /\ r.tasks[t] = Begun
      /\ \A u \in Task : u # t => r.tasks[u] = q.tasks[u]
  BY ClaimedRecords
<1> HIDE DEF r
<1>2. Begun.status = "running"
  BY DEF Begun
<1>3. /\ Completed(r, t, "failed") \in Recording(m)
      /\ Settles(Put(r.tasks, t, Turned(Begun, "failed")), Completed(r, t, "failed").tasks)
  <2>1. r.tasks[t].status = "running" /\ "failed" \in {"succeeded", "failed"}
    BY <1>1, <1>2
  <2> QED
    BY <1>1, <2>1, CompletedRecords
<1>4. ClaimFailed(q, t) = Completed(r, t, "failed")
  BY DEF ClaimFailed, r
<1>5. Put(r.tasks, t, Turned(Begun, "failed")) = Put(q.tasks, t, Turned(Begun, "failed"))
  <2>1. r.tasks \in [Task -> QueueTask] /\ q.tasks \in [Task -> QueueTask]
    BY <1>1, RecordingParts
  <2> QED
    BY <1>1, <2>1 DEF Put
<1> QED
  BY <1>3, <1>4, <1>5

LEMMA ParkedRecords ==
    ASSUME NEW m \in Streams(AllReceipts), NEW q \in Recording(m),
           NEW t \in Task, q.tasks[t].status = "running"
    PROVE  /\ Parked(q, t) \in Recording(m)
           /\ Settles(Put(q.tasks, t, Turned(q.tasks[t], "waiting-feedback")), Parked(q, t).tasks)
<1> DEFINE e == Strict("TaskFeedbackRequested", q.tasks[t].attempt)
           v == [q EXCEPT !.status = "blocked"]
           p == WithStatus(v, t, "waiting-feedback")
           r == EmitTask(p, t, e)
           T == Put(q.tasks, t, Turned(q.tasks[t], "waiting-feedback"))
<1>1. q \in Queues(AllReceipts) /\ q.tasks \in [Task -> QueueTask] /\ First(q.tasks[t])
      /\ "waiting-feedback" \in TaskStatus /\ "blocked" \in RunStatus
  BY RecordingParts DEF TaskStatus, RunStatus
<1>2. q.tasks[t].attempt \in Attempts
  BY <1>1, AttemptsNat DEF First
<1>3. v \in Queues(AllReceipts) /\ v = QueueOf("blocked", q.tasks, q.started, q.events, q.seq)
  BY <1>1, StatusUpdate, QueueField
<1>4. Parked(q, t) = Recomputed(r)
  <2>1. [q EXCEPT !.status = "blocked", !.tasks[t].status = "waiting-feedback"] = p
    BY DEF WithStatus
  <2> QED
    BY <2>1 DEF Parked
<1> HIDE DEF v
<1>5. v.tasks = q.tasks /\ v.events = q.events /\ v.seq = q.seq
  BY <1>3 DEF QueueOf
<1>6. /\ p \in Queues(AllReceipts) /\ p.events = v.events /\ p.seq = v.seq
      /\ \A u \in Task : p.tasks[u] = IF u = t THEN Turned(v.tasks[t], "waiting-feedback")
                                      ELSE v.tasks[u]
  BY <1>1, <1>2, <1>3, <1>5, TurnRecords
<1>7. \A u \in Task : T[u] = p.tasks[u]
  BY <1>1, <1>5, <1>6, PutAt
<1>8. Ends("TaskFeedbackRequested", "waiting-feedback")
  BY DEF Ends
<1> HIDE DEF p, T
<1>9. r \in Recording(m) /\ r.tasks = p.tasks
  <2>1. /\ p.events = q.events /\ p.seq = q.seq
        /\ \A u \in Task : p.tasks[u] = IF u = t THEN Turned(q.tasks[t], "waiting-feedback")
                                        ELSE q.tasks[u]
    BY <1>5, <1>6
  <2> QED
    BY <1>6, <1>8, <2>1, EndRecords
<1> HIDE DEF r
<1>10. Recomputed(r) \in Recording(m) /\ Recomputed(r).tasks = r.tasks
  BY <1>9, RecomputedRecords
<1>11. Settles(T, r.tasks)
  BY <1>7, <1>9 DEF Settles
<1> QED
  BY <1>4, <1>10, <1>11 DEF T

-----------------------------------------------------------------------------
\* A lease goes with the status of its task.

Fit(tasks, lease) ==
    \A t \in Task :
      /\ lease[t].stage \in {"leased", "claimed", "executed"} => tasks[t].status = "running"
      /\ lease[t].stage = "allocating" =>
           /\ tasks[t].status = "queued"
           /\ \A d \in DependsOn[t] : tasks[d].status = "succeeded"

LEMMA FitMoved ==
    ASSUME NEW before \in [Task -> QueueTask], NEW lease, Fit(before, lease),
           NEW t \in Task, before[t].status # "succeeded", NEW x,
           NEW after, Settles(Put(before, t, x), after),
           NEW then, \A u \in Task : u # t => then[u] = lease[u],
           \/ then[t].stage = "none"
           \/ then[t].stage = "leased" /\ x.status = "running"
    PROVE  Fit(after, then)
<1> DEFINE T == Put(before, t, x)
<1>1. \A u \in Task : T[u] = IF u = t THEN x ELSE before[u]
  BY PutAt
<1>2. \A u \in Task : DependsOn[u] \subseteq Task
  BY DependsOnAssumption
<1> HIDE DEF T
<1>3. Settles(T, after)
  BY DEF T
<1>4. ASSUME NEW u \in Task, T[u].status # "queued" PROVE after[u] = T[u]
  BY <1>3, <1>4 DEF Settles
<1>5. ASSUME NEW u \in Task, u # t PROVE then[u] = lease[u] /\ T[u] = before[u]
  BY <1>1, <1>5
<1>6. ASSUME NEW u \in Task, then[u].stage \in {"leased", "claimed", "executed"}
      PROVE  after[u].status = "running"
  <2>1. T[u].status = "running"
    BY <1>1, <1>5, <1>6 DEF Fit
  <2> QED
    BY <1>4, <2>1
<1>7. ASSUME NEW u \in Task, then[u].stage = "allocating"
      PROVE  /\ after[u].status = "queued"
             /\ \A d \in DependsOn[u] : after[d].status = "succeeded"
  <2>1. u # t /\ T[u] = before[u]
    BY <1>5, <1>7
  <2>2. T[u].status = "queued" /\ \A d \in DependsOn[u] : before[d].status = "succeeded"
    BY <1>5, <1>7, <2>1 DEF Fit
  <2>3. \A d \in DependsOn[u] : d \in Task /\ d # t /\ T[d].status = "succeeded"
    BY <1>1, <1>2, <2>2
  <2>4. after[u] = T[u]
    BY <1>3, <2>3 DEF Settles
  <2>5. \A d \in DependsOn[u] : after[d] = T[d]
    BY <1>4, <2>3
  <2> QED
    BY <2>2, <2>3, <2>4, <2>5
<1> QED
  BY <1>6, <1>7 DEF Fit

LEMMA RunnableReady ==
    ASSUME NEW q
    PROVE  Runnable(q) \in Seq({t \in Task : Ready(q, t)})
<1> DEFINE R == {t \in Task : Ready(q, t)}
           f == [i \in DOMAIN Order |-> IF Ready(q, Order[i]) THEN <<Order[i]>> ELSE <<>>]
<1>1. Len(Order) \in Nat /\ DOMAIN Order = 1..Len(Order) /\ \A i \in DOMAIN Order : Order[i] \in Task
  BY OrderAssumption
<1>2. ASSUME NEW i \in DOMAIN Order PROVE f[i] \in Seq(R)
  <2>1. <<>> \in Seq(R)
    OBVIOUS
  <2>2. Ready(q, Order[i]) => <<Order[i]>> \in Seq(R)
    <3>1. Ready(q, Order[i]) => Order[i] \in R
      BY <1>1
    <3> HIDE DEF R
    <3> QED
      BY <3>1
  <2> HIDE DEF R
  <2> QED
    BY <2>1, <2>2
<1>3. f = [i \in 1..Len(Order) |-> f[i]]
  BY <1>1
<1>4. Runnable(q) = FlattenSeq(f)
  BY DEF Runnable
<1> HIDE DEF f, R
<1>5. f \in Seq(Seq(R))
  BY <1>1, <1>2, <1>3
<1>6. FlattenSeq(f) \in Seq(R)
  BY <1>5, FlattenTyped
<1> QED
  BY <1>4, <1>6 DEF R

\* A batch is taken from what is ready.
LEMMA BatchReady ==
    ASSUME NEW q, NEW t,
           t \in ToSet(SubSeq(Runnable(q), 1, Min({Concurrency, Len(Runnable(q))})))
    PROVE  t \in Task /\ Ready(q, t)
<1> DEFINE R == {u \in Task : Ready(q, u)}
           s == Runnable(q)
           k == Min({Concurrency, Len(s)})
<1>1. s \in Seq(R)
  BY RunnableReady
<1> HIDE DEF R, s
<1>2. Len(s) \in Nat /\ Concurrency \in Nat /\ \A i \in 1..Len(s) : s[i] \in R
  BY <1>1, BoundsAssumption
<1>3. k \in Nat /\ k <= Len(s)
  <2>1. Concurrency <= Len(s) => /\ Concurrency \in {Concurrency, Len(s)}
                                 /\ \A n \in {Concurrency, Len(s)} : Concurrency <= n
    BY <1>2
  <2>2. ~(Concurrency <= Len(s)) => /\ Len(s) \in {Concurrency, Len(s)}
                                    /\ \A n \in {Concurrency, Len(s)} : Len(s) <= n
    BY <1>2
  <2>3. k \in {Concurrency, Len(s)} /\ \A n \in {Concurrency, Len(s)} : k <= n
    BY <2>1, <2>2 DEF Min
  <2> QED
    BY <1>2, <2>3
<1> HIDE DEF k
<1>4. DOMAIN SubSeq(s, 1, k) = 1..k /\ \A i \in 1..k : SubSeq(s, 1, k)[i] = s[i]
  BY <1>1, <1>2, <1>3
<1>5. t \in {SubSeq(s, 1, k)[i] : i \in DOMAIN SubSeq(s, 1, k)}
  BY DEF ToSet, s, k
<1>6. t \in R
  <2>1. PICK i \in 1..k : t = s[i]
    BY <1>4, <1>5
  <2>2. i \in 1..Len(s)
    BY <1>2, <1>3
  <2> QED
    BY <1>2, <2>1, <2>2
<1> QED
  BY <1>6 DEF R

-----------------------------------------------------------------------------
\* The events of a queue become durable.

LEMMA FreshParts ==
    ASSUME NEW st
    PROVE  Fresh(st).ok /\ Fresh(st).stream = st
BY DEF Fresh

\* What the stream has need not be kept in the queue.
LEMMA KnownCleared ==
    ASSUME NEW m \in Streams(AllReceipts), NEW q \in Recording(m), IdsOf(q.events) \subseteq m.ids
    PROVE  /\ [q EXCEPT !.events = <<>>] \in Recording(m)
           /\ [q EXCEPT !.events = <<>>].tasks = q.tasks
           /\ [q EXCEPT !.events = <<>>].events = <<>>
<1> DEFINE r == [q EXCEPT !.events = <<>>]
<1>1. q \in Queues(AllReceipts) /\ Records(m, q, q.tasks)
  BY RecordingParts
<1>2. r \in Queues(AllReceipts) /\ r.tasks = q.tasks
  BY <1>1, EventsCleared
<1>3. r = QueueOf(q.status, q.tasks, q.started, <<>>, q.seq)
  BY <1>1, QueueField
<1>4. q.events \in Seq(Events(AllReceipts))
  BY <1>1, QueueParts
<1> HIDE DEF r
<1>5. r.events = <<>> /\ r.seq = q.seq
  BY <1>3 DEF QueueOf
<1>6. Flushed(m, q.events) = Fresh(m) /\ Flushed(m, <<>>) = Fresh(m)
  BY <1>4, FlushKnown, FlushNothing
<1>7. Records(m, r, r.tasks)
  BY <1>1, <1>2, <1>5, <1>6 DEF Records
<1> QED
  BY <1>2, <1>5, <1>7 DEF Recording, r

\* The stream with the events of a queue.
Along(m, q) == Flushed(m, q.events).stream

\* Once the events of a queue are in the stream, the queue records its tasks in it.
LEMMA FlushedRecords ==
    ASSUME NEW m \in Streams(AllReceipts), NEW q \in Recording(m)
    PROVE  /\ Flushed(m, q.events).ok
           /\ Along(m, q) \in Streams(AllReceipts)
           /\ q \in Recording(Along(m, q)) /\ IdsOf(q.events) \subseteq Along(m, q).ids
           /\ Shows(Along(m, q), q.tasks)
<1> DEFINE then == Flushed(m, q.events).stream
<1>1. q \in Queues(AllReceipts) /\ Records(m, q, q.tasks)
  BY RecordingParts
<1>2. q.events \in Seq(Events(AllReceipts))
  BY <1>1, QueueParts
<1>3. /\ Flushed(m, q.events) \in Flushes(AllReceipts)
      /\ Flushed(m, q.events).ok => IdsOf(q.events) \subseteq then.ids
  BY <1>2, FlushKnows
<1>4. Flushed(m, q.events).ok /\ Shows(then, q.tasks) /\ Below(then.ids, q.seq)
  BY <1>1 DEF Records
<1>5. then \in Streams(AllReceipts)
  BY <1>3 DEF Flushes
<1> HIDE DEF then
<1>6. Flushed(then, q.events) = Fresh(then)
  BY <1>2, <1>3, <1>4, <1>5, FlushKnown
<1>7. Records(then, q, q.tasks)
  BY <1>4, <1>6, FreshParts DEF Records
<1> QED
  BY <1>1, <1>3, <1>4, <1>5, <1>7 DEF Recording, Along, then

\* A driver in the first session, beside the stream m: the phase p, the queue q, the
\* leases l, and the step v of a save with what comes next, n.
Working(m, p, q, l, v, n) ==
    /\ q \in Recording(m)
    /\ Fit(q.tasks, l)
    /\ p # "decide"
    /\ p = "save" =>
         /\ v \in {"file", "flush"} /\ n \in {"admit", "work", "settled", "return"}
         /\ n # "admit" => IdsOf(q.events) \subseteq m.ids

Goes(m, d) ==
    \E p, q, l, v, n, b, r : d = Fields(p, q, l, v, n, b, r) /\ Working(m, p, q, l, v, n)

LEMMA FieldsGo ==
    ASSUME NEW m, NEW p, NEW q, NEW l, NEW v, NEW n, Working(m, p, q, l, v, n), NEW b, NEW r
    PROVE  Goes(m, Fields(p, q, l, v, n, b, r))
BY DEF Goes

LEMMA GoesFields ==
    ASSUME NEW m, NEW d, Goes(m, d)
    PROVE  /\ d = Fields(d.phase, d.queue, d.lease, d.save, d.next, d.terminalized, d.rejected)
           /\ Working(m, d.phase, d.queue, d.lease, d.save, d.next)
<1>1. PICK p, q, l, v, n, b, r : d = Fields(p, q, l, v, n, b, r) /\ Working(m, p, q, l, v, n)
  BY DEF Goes
<1>2. /\ d.phase = p /\ d.queue = q /\ d.lease = l /\ d.save = v /\ d.next = n
      /\ d.terminalized = b /\ d.rejected = r
  BY <1>1 DEF Fields
<1> QED
  BY <1>1, <1>2

LEMMA DriverGoes ==
    ASSUME NEW m, NEW q \in Recording(m)
    PROVE  Goes(m, Driver(q))
<1>1. Driver(q) = Fields("idle", q, NoLeases, "none", "none", FALSE, FALSE)
  BY DEF Driver, Fields
<1>2. Working(m, "idle", q, NoLeases, "none", "none")
  BY DEF Working, Fit, NoLeases, NoLease
<1> QED
  BY <1>1, <1>2, FieldsGo

LEMMA RestGoes ==
    ASSUME NEW m, NEW d, Goes(m, d), NEW s, ~Aborted(s)
    PROVE  Goes(m, Rest(s, d))
BY GoesFields, DriverGoes DEF Rest, Working

\* A driver goes on with another phase, and other leases that fit.
LEMMA PhaseGoes ==
    ASSUME NEW m, NEW d, Goes(m, d), NEW p \in {"admit", "loop", "claim", "work"}
    PROVE  Goes(m, [d EXCEPT !.phase = p])
<1>1. PICK o, q, k, w, x, b, r : d = Fields(o, q, k, w, x, b, r) /\ Working(m, o, q, k, w, x)
  BY DEF Goes
<1>2. [d EXCEPT !.phase = p] = Fields(p, q, k, w, x, b, r)
  BY <1>1 DEF Fields
<1>3. Working(m, p, q, k, w, x)
  BY <1>1 DEF Working
<1> QED
  BY <1>2, <1>3, FieldsGo

LEMMA BatchGoes ==
    ASSUME NEW m, NEW d, Goes(m, d), NEW p \in {"admit", "loop", "claim", "work"},
           NEW l, Fit(d.queue.tasks, l)
    PROVE  Goes(m, [d EXCEPT !.phase = p, !.lease = l])
<1> DEFINE y == [d EXCEPT !.phase = p]
<1>1. PICK o, q, k, w, x, b, r : d = Fields(o, q, k, w, x, b, r) /\ Working(m, o, q, k, w, x)
  BY DEF Goes
<1>2. d.queue = q
  BY <1>1 DEF Fields
<1>3. [d EXCEPT !.phase = p, !.lease = l] = [y EXCEPT !.lease = l]
  OBVIOUS
<1>4. y = Fields(p, q, k, w, x, b, r)
  BY <1>1 DEF Fields
<1> HIDE DEF y
<1>5. [y EXCEPT !.lease = l] = Fields(p, q, l, w, x, b, r)
  BY <1>4 DEF Fields
<1>6. Working(m, p, q, l, w, x)
  BY <1>1, <1>2 DEF Working
<1>7. Goes(m, Fields(p, q, l, w, x, b, r))
  BY <1>6, FieldsGo
<1> QED
  BY <1>3, <1>5, <1>7, Zenon

LEMMA AdmitGoes ==
    ASSUME NEW m, NEW d, Goes(m, d)
    PROVE  Goes(m, [d EXCEPT !.save = "none", !.next = "none", !.phase = "admit"])
<1> DEFINE y == [d EXCEPT !.save = "none"]
           z == [y EXCEPT !.next = "none"]
<1>1. PICK o, q, k, w, x, b, r : d = Fields(o, q, k, w, x, b, r) /\ Working(m, o, q, k, w, x)
  BY DEF Goes
<1>2. [d EXCEPT !.save = "none", !.next = "none", !.phase = "admit"] = [z EXCEPT !.phase = "admit"]
  OBVIOUS
<1>3. y = Fields(o, q, k, "none", x, b, r)
  BY <1>1 DEF Fields
<1> HIDE DEF y
<1>4. z = Fields(o, q, k, "none", "none", b, r)
  BY <1>3 DEF Fields
<1> HIDE DEF z
<1>5. [z EXCEPT !.phase = "admit"] = Fields("admit", q, k, "none", "none", b, r)
  BY <1>4 DEF Fields
<1>6. Working(m, "admit", q, k, "none", "none")
  BY <1>1 DEF Working
<1>7. Goes(m, Fields("admit", q, k, "none", "none", b, r))
  BY <1>6, FieldsGo
<1> QED
  BY <1>2, <1>5, <1>7, Zenon

LEMMA SavingGoes ==
    ASSUME NEW m, NEW d, Goes(m, d), NEW n \in {"admit", "work", "settled", "return"},
           n # "admit" => IdsOf(d.queue.events) \subseteq m.ids, NEW v \in {"file", "flush"}
    PROVE  Goes(m, Saving(d, n, v))
<1>1. PICK o, q, k, w, x, b, r : d = Fields(o, q, k, w, x, b, r) /\ Working(m, o, q, k, w, x)
  BY DEF Goes
<1>2. d.queue = q
  BY <1>1 DEF Fields
<1>3. Saving(d, n, v) = Fields("save", q, k, v, n, b, r)
  <2> DEFINE y == [d EXCEPT !.phase = "save"]
             z == [y EXCEPT !.save = v]
  <2>1. Saving(d, n, v) = [z EXCEPT !.next = n]
    BY DEF Saving
  <2>2. y = Fields("save", q, k, w, x, b, r)
    BY <1>1 DEF Fields
  <2> HIDE DEF y
  <2>3. z = Fields("save", q, k, v, x, b, r)
    BY <2>2 DEF Fields
  <2> HIDE DEF z
  <2>4. [z EXCEPT !.next = n] = Fields("save", q, k, v, n, b, r)
    BY <2>3 DEF Fields
  <2> QED
    BY <2>1, <2>4, Zenon
<1>4. Working(m, "save", q, k, v, n)
  BY <1>1, <1>2 DEF Working
<1> QED
  BY <1>3, <1>4, FieldsGo

LEMMA FlushStepGoes ==
    ASSUME NEW m, NEW d, Goes(m, d), NEW v \in {"file", "flush"}
    PROVE  Goes(m, [d EXCEPT !.save = v])
<1>1. PICK o, q, k, w, x, b, r : d = Fields(o, q, k, w, x, b, r) /\ Working(m, o, q, k, w, x)
  BY DEF Goes
<1>2. [d EXCEPT !.save = v] = Fields(o, q, k, v, x, b, r)
  BY <1>1 DEF Fields
<1>3. Working(m, o, q, k, v, x)
  BY <1>1 DEF Working
<1> QED
  BY <1>2, <1>3, FieldsGo

\* What a save was for is done: the events of the queue are in the stream.
LEMMA ResumedGoes ==
    ASSUME NEW m \in Streams(AllReceipts), NEW d, Goes(m, d), NEW s, ~Aborted(s),
           d.next \in {"admit", "work", "settled", "return"},
           d.next # "admit" => IdsOf(d.queue.events) \subseteq m.ids
    PROVE  Goes(m, Resumed(s, d))
<1> DEFINE x == [d EXCEPT !.save = "none"]
           y == [x EXCEPT !.next = "none"]
           done == [y EXCEPT !.queue.events = <<>>]
<1>1. PICK p, q, l, v, n, b, r : d = Fields(p, q, l, v, n, b, r) /\ Working(m, p, q, l, v, n)
  BY DEF Goes
<1>2. d.queue = q /\ d.next = n /\ q \in Recording(m) /\ Fit(q.tasks, l)
  BY <1>1 DEF Fields, Working
<1>3. CASE n = "admit"
  <2>1. Resumed(s, d) = [d EXCEPT !.save = "none", !.next = "none", !.phase = "admit"]
    BY <1>2, <1>3, Zenon DEF Resumed
  <2>2. Goes(m, [d EXCEPT !.save = "none", !.next = "none", !.phase = "admit"])
    BY AdmitGoes
  <2> QED
    BY <2>1, <2>2, Zenon
<1>4. CASE n # "admit"
  <2> DEFINE e == [q EXCEPT !.events = <<>>]
             cleared == [d EXCEPT !.save = "none", !.next = "none", !.queue.events = <<>>]
  <2>0. Resumed(s, d) \in {[cleared EXCEPT !.phase = "work"], Rest(s, cleared),
                           [cleared EXCEPT !.phase = "loop", !.lease = NoLeases,
                                           !.terminalized = FALSE]}
    <3>1. d.next \in {"work", "settled", "return"}
      BY <1>2, <1>4
    <3>2. CASE d.next = "work"
      BY <3>2 DEF Resumed
    <3>3. CASE d.next = "settled"
      BY <3>3 DEF Resumed
    <3>4. CASE d.next = "return"
      BY <3>4 DEF Resumed
    <3> QED
      BY <3>1, <3>2, <3>3, <3>4
  <2>1. e \in Recording(m) /\ e.tasks = q.tasks
    BY <1>2, <1>4, KnownCleared
  <2>2. cleared = done
    BY <1>2
  <2> HIDE DEF cleared
  <2>3. x = Fields(p, q, l, "none", n, b, r)
    BY <1>1 DEF Fields
  <2> HIDE DEF x
  <2>4. y = Fields(p, q, l, "none", "none", b, r)
    BY <2>3 DEF Fields
  <2> HIDE DEF y
  <2>5. done = Fields(p, e, l, "none", "none", b, r)
    BY <2>4 DEF Fields
  <2>6. done.queue = e /\ done.lease = l
    BY <2>5 DEF Fields
  <2> HIDE DEF done, e
  <2> DEFINE z == [done EXCEPT !.phase = "loop"]
             u == [z EXCEPT !.lease = NoLeases]
  <2>7. Goes(m, [done EXCEPT !.phase = "work"])
    <3>1. [done EXCEPT !.phase = "work"] = Fields("work", e, l, "none", "none", b, r)
      BY <2>5 DEF Fields
    <3>2. Working(m, "work", e, l, "none", "none")
      BY <1>2, <2>1 DEF Working
    <3> QED
      BY <3>1, <3>2, FieldsGo
  <2>8. Goes(m, Rest(s, done))
    BY <2>1, <2>6, DriverGoes DEF Rest
  <2>9. Goes(m, [done EXCEPT !.phase = "loop", !.lease = NoLeases, !.terminalized = FALSE])
    <3>1. [done EXCEPT !.phase = "loop", !.lease = NoLeases, !.terminalized = FALSE]
            = [u EXCEPT !.terminalized = FALSE]
      OBVIOUS
    <3>2. z = Fields("loop", e, l, "none", "none", b, r)
      BY <2>5 DEF Fields
    <3> HIDE DEF z
    <3>3. u = Fields("loop", e, NoLeases, "none", "none", b, r)
      BY <3>2 DEF Fields
    <3> HIDE DEF u
    <3>4. ASSUME NEW w
          PROVE  [u EXCEPT !.terminalized = w] = Fields("loop", e, NoLeases, "none", "none", w, r)
      BY <3>3 DEF Fields
    <3>5. Working(m, "loop", e, NoLeases, "none", "none")
      BY <2>1 DEF Working, Fit, NoLeases, NoLease
    <3>6. Goes(m, Fields("loop", e, NoLeases, "none", "none", FALSE, r))
      BY <3>5, FieldsGo
    <3> QED
      BY <3>1, <3>4, <3>6, Zenon
  <2>10. Resumed(s, d) \in {[done EXCEPT !.phase = "work"], Rest(s, done),
                            [done EXCEPT !.phase = "loop", !.lease = NoLeases,
                                         !.terminalized = FALSE]}
    BY <2>0, <2>2
  <2> QED
    BY <2>7, <2>8, <2>9, <2>10
<1> QED
  BY <1>3, <1>4

\* A task moves, and its lease with it.
LEMMA MovedWorks ==
    ASSUME NEW m, NEW p, NEW q, NEW l, NEW v, NEW n, Working(m, p, q, l, v, n), p # "save",
           NEW t \in Task, q.tasks[t].status \in {"queued", "running"},
           NEW r \in Recording(m), NEW x, Settles(Put(q.tasks, t, x), r.tasks),
           NEW k, \A u \in Task : u # t => k[u] = l[u],
           k[t].stage = "none" \/ (k[t].stage = "leased" /\ x.status = "running")
    PROVE  Working(m, p, r, k, v, n)
<1>1. q \in Recording(m) /\ Fit(q.tasks, l)
  BY DEF Working
<1>2. q.tasks \in [Task -> QueueTask] /\ q.tasks[t].status # "succeeded"
  BY <1>1, RecordingParts
<1>3. Fit(r.tasks, k)
  BY <1>1, <1>2, FitMoved
<1> QED
  BY <1>3 DEF Working

LEMMA ReleasedFields ==
    ASSUME NEW p, NEW q, NEW l, NEW v, NEW n, NEW b, NEW r, NEW t \in Task,
           NEW d, d = Fields(p, q, l, v, n, b, r)
    PROVE  Released(d, t) = Fields(p, q, [l EXCEPT ![t] = NoLease], v, n, b, r)
BY DEF Released, Fields

\* A queue and whether it made something terminal are given other values.
Changed(d, o, w) == [d EXCEPT !.queue = o, !.terminalized = w]

LEMMA QueueTerminalized ==
    ASSUME NEW p, NEW q, NEW l, NEW v, NEW n, NEW b, NEW r,
           NEW d, d = Fields(p, q, l, v, n, b, r), NEW o, NEW w
    PROVE  Changed(d, o, w) = Fields(p, o, l, v, n, w, r)
<1> DEFINE x == [d EXCEPT !.queue = o]
<1>1. [d EXCEPT !.queue = o, !.terminalized = w] = [x EXCEPT !.terminalized = w]
  OBVIOUS
<1>2. x = Fields(p, o, l, v, n, b, r)
  BY DEF Fields
<1> HIDE DEF x
<1>3. [x EXCEPT !.terminalized = w] = Fields(p, o, l, v, n, w, r)
  BY <1>2 DEF Fields
<1> QED
  BY <1>1, <1>3, Zenon DEF Changed

LEMMA NoLeaseAt ==
    ASSUME NEW l \in [Task -> Lease], NEW t \in Task
    PROVE  /\ [l EXCEPT ![t] = NoLease][t].stage = "none"
           /\ \A u \in Task : u # t => [l EXCEPT ![t] = NoLease][u] = l[u]
BY DEF NoLease

\* A lease that has been taken.
Taken(d, t) == d.lease[t].stage \in {"leased", "claimed", "executed"}

LEMMA MarkedGoes ==
    ASSUME NEW m \in Streams(AllReceipts), NEW d, Goes(m, d), d.phase # "save",
           d.lease \in [Task -> Lease], NEW t \in Task, Taken(d, t),
           NEW status \in {"succeeded", "failed"}
    PROVE  Goes(m, Marked(d, t, status))
<1> DEFINE q == d.queue
           k == [d.lease EXCEPT ![t] = NoLease]
           o == Completed(q, t, status)
           x == Released(d, t)
<1>1. /\ d = Fields(d.phase, q, d.lease, d.save, d.next, d.terminalized, d.rejected)
      /\ Working(m, d.phase, q, d.lease, d.save, d.next)
  BY GoesFields
<1>2. q \in Recording(m) /\ q.tasks[t].status = "running"
  BY <1>1 DEF Working, Fit, Taken
<1>3. o \in Recording(m) /\ Settles(Put(q.tasks, t, Turned(q.tasks[t], status)), o.tasks)
  BY <1>2, CompletedRecords
<1>4. k[t].stage = "none" /\ \A u \in Task : u # t => k[u] = d.lease[u]
  BY NoLeaseAt
<1>5. x = Fields(d.phase, q, k, d.save, d.next, d.terminalized, d.rejected)
  BY <1>1, ReleasedFields
<1>6. Marked(d, t, status) = Changed(x, o, TRUE)
  <2>1. x.queue = q
    BY <1>5 DEF Fields
  <2> QED
    BY <2>1 DEF Marked, Changed
<1> HIDE DEF q, k, o, x
<1>7. Working(m, d.phase, o, k, d.save, d.next)
  BY <1>1, <1>2, <1>3, <1>4, MovedWorks
<1>8. \A w : Changed(x, o, w) = Fields(d.phase, o, k, d.save, d.next, w, d.rejected)
  BY <1>5, QueueTerminalized
<1>9. Goes(m, Fields(d.phase, o, k, d.save, d.next, TRUE, d.rejected))
  BY <1>7, FieldsGo
<1> QED
  BY <1>6, <1>8, <1>9, Zenon

LEMMA WaitedGoes ==
    ASSUME NEW m \in Streams(AllReceipts), NEW d, Goes(m, d), d.phase # "save",
           d.lease \in [Task -> Lease], NEW t \in Task, Taken(d, t)
    PROVE  Goes(m, [Released(d, t) EXCEPT !.queue = Parked(@, t), !.terminalized = TRUE])
<1> DEFINE q == d.queue
           k == [d.lease EXCEPT ![t] = NoLease]
           o == Parked(q, t)
           x == Released(d, t)
<1>1. /\ d = Fields(d.phase, q, d.lease, d.save, d.next, d.terminalized, d.rejected)
      /\ Working(m, d.phase, q, d.lease, d.save, d.next)
  BY GoesFields
<1>2. q \in Recording(m) /\ q.tasks[t].status = "running"
  BY <1>1 DEF Working, Fit, Taken
<1>3. /\ o \in Recording(m)
      /\ Settles(Put(q.tasks, t, Turned(q.tasks[t], "waiting-feedback")), o.tasks)
  BY <1>2, ParkedRecords
<1>4. k[t].stage = "none" /\ \A u \in Task : u # t => k[u] = d.lease[u]
  BY NoLeaseAt
<1>5. x = Fields(d.phase, q, k, d.save, d.next, d.terminalized, d.rejected)
  BY <1>1, ReleasedFields
<1>6. [Released(d, t) EXCEPT !.queue = Parked(@, t), !.terminalized = TRUE]
        = Changed(x, o, TRUE)
  <2>1. x.queue = q
    BY <1>5 DEF Fields
  <2> QED
    BY <2>1 DEF Changed
<1> HIDE DEF q, k, o, x
<1>7. Working(m, d.phase, o, k, d.save, d.next)
  BY <1>1, <1>2, <1>3, <1>4, MovedWorks
<1>8. \A w : Changed(x, o, w) = Fields(d.phase, o, k, d.save, d.next, w, d.rejected)
  BY <1>5, QueueTerminalized
<1>9. Goes(m, Fields(d.phase, o, k, d.save, d.next, TRUE, d.rejected))
  BY <1>7, FieldsGo
<1> QED
  BY <1>6, <1>8, <1>9, Zenon

LEMMA FitReleased ==
    ASSUME NEW tasks, NEW l \in [Task -> Lease], Fit(tasks, l), NEW t \in Task
    PROVE  Fit(tasks, [l EXCEPT ![t] = NoLease])
BY NoLeaseAt DEF Fit

LEMMA ReleasedGoes ==
    ASSUME NEW m, NEW d, Goes(m, d), d.lease \in [Task -> Lease], NEW t \in Task
    PROVE  Goes(m, Released(d, t))
<1> DEFINE k == [d.lease EXCEPT ![t] = NoLease]
<1>1. /\ d = Fields(d.phase, d.queue, d.lease, d.save, d.next, d.terminalized, d.rejected)
      /\ Working(m, d.phase, d.queue, d.lease, d.save, d.next)
  BY GoesFields
<1>2. Fit(d.queue.tasks, k)
  BY <1>1, FitReleased DEF Working
<1>3. Released(d, t) = Fields(d.phase, d.queue, k, d.save, d.next, d.terminalized, d.rejected)
  BY <1>1, ReleasedFields
<1> HIDE DEF k
<1>4. Working(m, d.phase, d.queue, k, d.save, d.next)
  BY <1>1, <1>2 DEF Working
<1> QED
  BY <1>3, <1>4, FieldsGo

LEMMA CaughtGoes ==
    ASSUME NEW m \in Streams(AllReceipts), NEW d, Goes(m, d), d.phase # "save",
           d.lease \in [Task -> Lease], NEW t \in Task, Taken(d, t), NEW s, ~Aborted(s)
    PROVE  Goes(m, Caught(s, d, t))
<1>1. Goes(m, Marked(d, t, "failed"))
  BY MarkedGoes
<1> QED
  BY <1>1 DEF Caught

LEMMA StagedGoes ==
    ASSUME NEW m, NEW d, Goes(m, d), d.lease \in [Task -> Lease], NEW t \in Task, Taken(d, t),
           NEW stage \in {"claimed", "executed"}
    PROVE  Goes(m, [d EXCEPT !.lease[t].stage = stage])
<1> DEFINE k == [d.lease EXCEPT ![t].stage = stage]
           l == d.lease
<1>1. PICK p, q, v, n, b, r : d = Fields(p, q, l, v, n, b, r) /\ Working(m, p, q, l, v, n)
  BY GoesFields
<1>2. [d EXCEPT !.lease[t].stage = stage] = Fields(p, q, k, v, n, b, r)
  BY <1>1 DEF Fields
<1>3. k[t].stage = stage /\ \A u \in Task : u # t => k[u] = l[u]
  BY DEF Lease
<1>4. l[t].stage \in {"leased", "claimed", "executed"}
  BY DEF Taken
<1> HIDE DEF k, l
<1>5. Fit(q.tasks, k)
  BY <1>1, <1>3, <1>4 DEF Working, Fit
<1>6. Working(m, p, q, k, v, n)
  BY <1>1, <1>5 DEF Working
<1> QED
  BY <1>2, <1>6, FieldsGo

LEMMA FitSettled ==
    ASSUME NEW before, NEW lease, Fit(before, lease), NEW after, Settles(before, after)
    PROVE  Fit(after, lease)
<1>1. \A u \in Task : DependsOn[u] \subseteq Task
  BY DependsOnAssumption
<1>2. ASSUME NEW u \in Task, before[u].status # "queued" PROVE after[u] = before[u]
  BY <1>2 DEF Settles
<1>3. ASSUME NEW u \in Task, lease[u].stage = "allocating"
      PROVE  /\ after[u].status = "queued"
             /\ \A d \in DependsOn[u] : after[d].status = "succeeded"
  <2>1. before[u].status = "queued" /\ \A d \in DependsOn[u] : before[d].status = "succeeded"
    BY <1>3 DEF Fit
  <2>2. after[u] = before[u]
    BY <2>1 DEF Settles
  <2>3. \A d \in DependsOn[u] : after[d] = before[d]
    BY <1>1, <1>2, <2>1
  <2> QED
    BY <2>1, <2>2, <2>3
<1> QED
  BY <1>2, <1>3 DEF Fit

\* Queue and leases of a driver are given other values.
WithBoth(d, o, k) == [d EXCEPT !.queue = o, !.lease = k]

LEMMA BothFields ==
    ASSUME NEW p, NEW q, NEW l, NEW v, NEW n, NEW b, NEW r,
           NEW d, d = Fields(p, q, l, v, n, b, r), NEW o, NEW k
    PROVE  WithBoth(d, o, k) = Fields(p, o, k, v, n, b, r)
<1> DEFINE x == [d EXCEPT !.queue = o]
<1>1. [d EXCEPT !.queue = o, !.lease = k] = [x EXCEPT !.lease = k]
  OBVIOUS
<1>2. x = Fields(p, o, l, v, n, b, r)
  BY DEF Fields
<1> HIDE DEF x
<1>3. [x EXCEPT !.lease = k] = Fields(p, o, k, v, n, b, r)
  BY <1>2 DEF Fields
<1> QED
  BY <1>1, <1>3, Zenon DEF WithBoth

LEMMA ClaimGoes ==
    ASSUME NEW m \in Streams(AllReceipts), NEW d, Goes(m, d), d.phase # "save",
           d.lease \in [Task -> Lease], NEW t \in Task, d.lease[t].stage = "allocating", NEW a
    PROVE  /\ Goes(m, [d EXCEPT !.queue = Claimed(@, t),
                                !.lease[t] = [stage |-> "leased", attempt |-> a]])
           /\ Goes(m, [d EXCEPT !.queue = ClaimFailed(@, t), !.lease[t] = NoLease])
<1> DEFINE q == d.queue
           l == d.lease
           leased == [stage |-> "leased", attempt |-> a]
           k == [l EXCEPT ![t] = leased]
           j == [l EXCEPT ![t] = NoLease]
           o == Claimed(q, t)
           e == ClaimFailed(q, t)
<1>1. /\ d = Fields(d.phase, q, l, d.save, d.next, d.terminalized, d.rejected)
      /\ Working(m, d.phase, q, l, d.save, d.next)
  BY GoesFields
<1>2. q \in Recording(m) /\ q.tasks[t].status = "queued"
  BY <1>1 DEF Working, Fit
<1>3. /\ o \in Recording(m) /\ o.tasks[t] = Begun
      /\ \A u \in Task : u # t => o.tasks[u] = q.tasks[u]
  BY <1>2, ClaimedRecords
<1>4. e \in Recording(m) /\ Settles(Put(q.tasks, t, Turned(Begun, "failed")), e.tasks)
  BY <1>2, ClaimFailedRecords
<1>5. k[t].stage = "leased" /\ \A u \in Task : u # t => k[u] = l[u]
  OBVIOUS
<1>6. j[t].stage = "none" /\ \A u \in Task : u # t => j[u] = l[u]
  BY NoLeaseAt
<1>7. [d EXCEPT !.queue = Claimed(@, t), !.lease[t] = [stage |-> "leased", attempt |-> a]]
        = WithBoth(d, o, k)
  <2> DEFINE x == [d EXCEPT !.queue = o]
  <2>1. x.lease = l
    BY <1>1 DEF Fields
  <2>2. [d EXCEPT !.queue = Claimed(@, t), !.lease[t] = leased] = [x EXCEPT !.lease[t] = leased]
    OBVIOUS
  <2>3. WithBoth(d, o, k) = [x EXCEPT !.lease = k]
    BY DEF WithBoth
  <2> HIDE DEF x, leased
  <2>4. [x EXCEPT !.lease[t] = leased] = [x EXCEPT !.lease = k]
    BY <2>1
  <2> QED
    BY <2>2, <2>3, <2>4, Zenon DEF leased
<1>8. [d EXCEPT !.queue = ClaimFailed(@, t), !.lease[t] = NoLease] = WithBoth(d, e, j)
  <2> DEFINE x == [d EXCEPT !.queue = e]
  <2>1. x.lease = l
    BY <1>1 DEF Fields
  <2>2. [d EXCEPT !.queue = ClaimFailed(@, t), !.lease[t] = NoLease] = [x EXCEPT !.lease[t] = NoLease]
    OBVIOUS
  <2>3. WithBoth(d, e, j) = [x EXCEPT !.lease = j]
    BY DEF WithBoth
  <2> HIDE DEF x
  <2>4. [x EXCEPT !.lease[t] = NoLease] = [x EXCEPT !.lease = j]
    BY <2>1
  <2> QED
    BY <2>2, <2>3, <2>4, Zenon
<1>9. Settles(Put(q.tasks, t, Begun), o.tasks) /\ Begun.status = "running"
  <2>1. \A u \in Task : o.tasks[u] = Put(q.tasks, t, Begun)[u]
    BY <1>2, <1>3, RecordingParts, PutAt
  <2> QED
    BY <2>1 DEF Settles, Begun
<1> HIDE DEF q, l, k, j, o, e
<1>10. Working(m, d.phase, o, k, d.save, d.next)
  BY <1>1, <1>2, <1>3, <1>5, <1>9, MovedWorks
<1>11. Working(m, d.phase, e, j, d.save, d.next)
  BY <1>1, <1>2, <1>4, <1>6, MovedWorks
<1>12. /\ WithBoth(d, o, k) = Fields(d.phase, o, k, d.save, d.next, d.terminalized, d.rejected)
       /\ WithBoth(d, e, j) = Fields(d.phase, e, j, d.save, d.next, d.terminalized, d.rejected)
  BY <1>1, BothFields
<1> QED
  BY <1>7, <1>8, <1>10, <1>11, <1>12, FieldsGo

\* The driver looks what is runnable, and takes a batch.
LEMMA ReconciledGoes ==
    ASSUME NEW m \in Streams(AllReceipts), NEW d, Goes(m, d), d.phase # "save"
    PROVE  /\ Goes(m, [d EXCEPT !.queue = Reconciled(d.queue)])
           /\ [d EXCEPT !.queue = Reconciled(d.queue)].queue = Reconciled(d.queue)
           /\ [d EXCEPT !.queue = Reconciled(d.queue)].lease = d.lease
           /\ [d EXCEPT !.queue = Reconciled(d.queue)].phase = d.phase
<1> DEFINE q == d.queue
           o == Reconciled(q)
<1>1. PICK p, l, v, n, b, r : d = Fields(p, q, l, v, n, b, r) /\ Working(m, p, q, l, v, n)
  BY GoesFields
<1>2. o \in Recording(m) /\ Settles(q.tasks, o.tasks)
  BY <1>1, ReconciledRecords DEF Working
<1> HIDE DEF o
<1>3. [d EXCEPT !.queue = o] = Fields(p, o, l, v, n, b, r)
  BY <1>1 DEF Fields
<1> HIDE DEF q
<1>4. Fit(o.tasks, l)
  BY <1>1, <1>2, FitSettled DEF Working
<1>5. Working(m, p, o, l, v, n)
  <2>1. p # "save"
    BY <1>1 DEF Fields
  <2> QED
    BY <1>1, <1>2, <1>4, <2>1 DEF Working
<1>6. Goes(m, Fields(p, o, l, v, n, b, r))
  BY <1>5, FieldsGo
<1>7. /\ Fields(p, o, l, v, n, b, r).queue = o /\ Fields(p, o, l, v, n, b, r).lease = d.lease
      /\ Fields(p, o, l, v, n, b, r).phase = d.phase
  BY <1>1 DEF Fields
<1> QED
  BY <1>3, <1>6, <1>7 DEF o, q

LEMMA TakenFit ==
    ASSUME NEW q, NEW batch, \A t \in batch : t \in Task /\ Ready(q, t)
    PROVE  Fit(q.tasks, [t \in Task |-> IF t \in batch
                                        THEN [NoLease EXCEPT !.stage = "allocating"] ELSE NoLease])
BY DEF Fit, Ready, DependenciesSucceeded, NoLease

-----------------------------------------------------------------------------
\* The first session.

\* What the stream comes to with the buffer.
Base == Flushed(stream, pending)

Following ==
    /\ refusal = "none"
    /\ \A s \in Sessions : s # 1 => driver[s].phase = "ended"
    /\ Base.ok
    /\ Shows(Base.stream, app.tasks)
    /\ Goes(Base.stream, driver[1])

FInv == open /\ session = 1 => Following

LEMMA FollowTypes ==
    ASSUME SInv, Typed
    PROVE  /\ 1 \in Sessions
           /\ stream \in Streams(AllReceipts) /\ pending \in Seq(Events(AllReceipts))
           /\ Base \in Flushes(AllReceipts) /\ Base.stream \in Streams(AllReceipts)
           /\ driver[1].lease \in [Task -> Lease]
           /\ driver[1] = Fields(driver[1].phase, driver[1].queue, driver[1].lease, driver[1].save,
                                 driver[1].next, driver[1].terminalized, driver[1].rejected)
<1>1. 1 \in Sessions
  BY BoundsAssumption DEF Sessions
<1>2. Keeps(journal, AllReceipts)
  BY DEF Keeps, AllReceipts
<1>3. Seq(Events(journal)) \subseteq Seq(Events(AllReceipts))
      /\ Streams(journal) \subseteq Streams(AllReceipts)
  BY <1>2, KeepsBacked
<1>4. stream \in Streams(AllReceipts) /\ pending \in Seq(Events(AllReceipts))
  BY <1>3 DEF SInv
<1>5. Base \in Flushes(AllReceipts)
  BY <1>4, FlushKnows DEF Base
<1>6. Base.stream \in Streams(AllReceipts)
  BY <1>5 DEF Flushes
<1>7. Holds(journal, driver[1])
  BY <1>1 DEF SInv
<1> QED
  BY <1>1, <1>4, <1>5, <1>6, <1>7, HoldsFields DEF Held

\* The stream and the buffer come to the same, and the driver goes on with it.
LEMMA KeptFollows ==
    ASSUME Typed, Following, Base'.ok, Base'.stream = Base.stream, app' = app,
           refusal' = refusal,
           driver' = driver \/ \E x : Goes(Base.stream, x) /\ Set(1, x)
    PROVE  Following'
<1>1. 1 \in Sessions
  BY BoundsAssumption DEF Sessions
<1>2. Goes(Base.stream, driver'[1]) /\ \A s \in Sessions : s # 1 => driver'[s] = driver[s]
  <2>1. CASE driver' = driver
    BY <2>1 DEF Following
  <2>2. ASSUME NEW x, Goes(Base.stream, x), Set(1, x)
        PROVE  Goes(Base.stream, driver'[1]) /\ \A s \in Sessions : s # 1 => driver'[s] = driver[s]
    BY <1>1, <2>2, SetDriver
  <2> QED
    BY <2>1, <2>2
<1>3. Goes(Base'.stream, driver'[1])
  BY <1>2
<1>4. /\ refusal' = "none" /\ Shows(Base'.stream, app'.tasks)
      /\ \A s \in Sessions : s # 1 => driver'[s].phase = "ended"
  BY <1>2 DEF Following
<1> QED
  BY <1>3, <1>4 DEF Following

LEMMA SameBase ==
    ASSUME stream' = stream, pending' = pending
    PROVE  Base' = Base
BY DEF Base

LEMMA FlushedBase ==
    ASSUME SInv, Typed, stream' = Base.stream, pending' = <<>>
    PROVE  Base'.ok /\ Base'.stream = Base.stream
<1> DEFINE st == Base.stream
<1>1. st \in Streams(AllReceipts)
  BY FollowTypes
<1> HIDE DEF st
<1>2. Flushed(st, <<>>) = Fresh(st)
  BY <1>1, FlushNothing
<1>3. Base' = Flushed(st, <<>>)
  BY DEF Base, st
<1> QED
  BY <1>2, <1>3, FreshParts DEF st

LEMMA NextGoes ==
    ASSUME NEW m, NEW d, Goes(m, d), d.phase # "save", NEW n
    PROVE  Goes(m, [d EXCEPT !.next = n]) /\ [d EXCEPT !.next = n].next = n
           /\ [d EXCEPT !.next = n].queue = d.queue
<1>1. PICK o, q, k, w, x, b, r : d = Fields(o, q, k, w, x, b, r) /\ Working(m, o, q, k, w, x)
  BY DEF Goes
<1>2. [d EXCEPT !.next = n] = Fields(o, q, k, w, n, b, r) /\ o # "save" /\ d.queue = q
  BY <1>1 DEF Fields
<1>3. Working(m, o, q, k, w, n)
  BY <1>1, <1>2 DEF Working
<1>4. Fields(o, q, k, w, n, b, r).next = n /\ Fields(o, q, k, w, n, b, r).queue = q
  BY DEF Fields
<1>5. Goes(m, Fields(o, q, k, w, n, b, r))
  BY <1>3, FieldsGo
<1> QED
  BY <1>2, <1>4, <1>5

\* A queue that records its tasks in the stream with its events.
LEMMA AlongGoes ==
    ASSUME NEW m \in Streams(AllReceipts), NEW d, Goes(m, d), d.phase # "save"
    PROVE  Goes(Along(m, d.queue), d)
<1> DEFINE q == d.queue
<1>1. PICK p, l, v, n, b, r : d = Fields(p, q, l, v, n, b, r) /\ Working(m, p, q, l, v, n)
  BY GoesFields
<1>2. p # "save" /\ q \in Recording(m)
  BY <1>1 DEF Fields, Working
<1> HIDE DEF q
<1>3. q \in Recording(Along(m, q))
  BY <1>2, FlushedRecords
<1>4. Working(Along(m, q), p, q, l, v, n)
  BY <1>1, <1>2, <1>3 DEF Working
<1>5. Goes(Along(m, q), d)
  BY <1>1, <1>4, FieldsGo
<1> QED
  BY <1>5 DEF q

LEMMA TransitionFollows ==
    ASSUME SInv, Typed, Following, ~Aborted(1), NEW d, Goes(Base.stream, d), d.phase # "save",
           NEW next \in {"work", "settled", "return"}, Transition(1, d, next),
           stream' = stream, refusal' = refusal
    PROVE  Following'
<1> DEFINE m == Base.stream
           q == d.queue
           y == [d EXCEPT !.next = next]
<1>1. m \in Streams(AllReceipts) /\ Base.ok /\ 1 \in Sessions
  BY FollowTypes DEF Following
<1>2. q \in Recording(m)
  BY GoesFields DEF Working
<1>3. CASE q.events = <<>> /\ Set(1, Resumed(1, y)) /\ UNCHANGED <<app, pending>>
  <2>1. Goes(m, y) /\ y.next = next /\ y.queue = q
    BY NextGoes
  <2>2. IdsOf(q.events) \subseteq m.ids
    BY <1>3 DEF IdsOf
  <2> HIDE DEF m, y, q
  <2>3. Goes(m, Resumed(1, y))
    <3>1. /\ y.next \in {"admit", "work", "settled", "return"}
          /\ y.next # "admit" => IdsOf(y.queue.events) \subseteq m.ids
      BY <2>1, <2>2
    <3> QED
      BY <1>1, <2>1, <3>1, ResumedGoes
  <2>4. Base' = Base
    BY <1>3, SameBase
  <2>5. \E x : Goes(Base.stream, x) /\ Set(1, x)
    BY <1>3, <2>3 DEF m
  <2> QED
    BY <1>1, <1>3, <2>4, <2>5, KeptFollows
<1>4. CASE /\ Set(1, Saving(d, next, "file"))
           /\ app' = Snapshot(q)
           /\ pending' = Buffered(pending, q.events)
  <2>1. q.events \in Seq(Events(AllReceipts))
    BY <1>2, RecordingParts, QueueParts
  <2>2. Base' = Flushed(m, q.events)
    <3>1. Flushed(stream, Buffered(pending, q.events)) = Flushed(Flushed(stream, pending).stream, q.events)
      <4> HIDE DEF q
      <4> QED
        BY <1>1, <2>1, FollowTypes, FlushBuffered DEF Base
    <3>2. Base' = Flushed(stream, Buffered(pending, q.events))
      BY <1>4 DEF Base
    <3> QED
      BY <3>1, <3>2 DEF Base
  <2> DEFINE then == Along(m, q)
  <2>3. /\ Base'.ok /\ Base'.stream = then
        /\ IdsOf(q.events) \subseteq then.ids /\ Shows(then, q.tasks)
    BY <1>1, <1>2, <2>2, FlushedRecords DEF Along
  <2>4. Goes(then, d)
    BY <1>1, AlongGoes
  <2> HIDE DEF then
  <2>5. Goes(then, Saving(d, next, "file"))
    <3>1. next \in {"admit", "work", "settled", "return"} /\ "file" \in {"file", "flush"}
          /\ next # "admit" => IdsOf(d.queue.events) \subseteq then.ids
      BY <2>3
    <3> QED
      BY <2>4, <3>1, SavingGoes
  <2>6. app'.tasks = q.tasks
    BY <1>4 DEF Snapshot
  <2>7. driver'[1] = Saving(d, next, "file") /\ \A s \in Sessions \ {1} : driver'[s] = driver[s]
    BY <1>1, <1>4, SetDriver
  <2>8. \A s \in Sessions : s # 1 => driver'[s].phase = "ended"
    BY <2>7 DEF Following
  <2>9. /\ refusal' = "none" /\ Shows(Base'.stream, app'.tasks)
        /\ Goes(Base'.stream, driver'[1])
    BY <2>3, <2>5, <2>6, <2>7 DEF Following
  <2> QED
    BY <2>3, <2>8, <2>9 DEF Following
<1> QED
  BY <1>3, <1>4 DEF Transition

\* A step of the driver that writes neither the store, the stream nor the buffer.
LEMMA QuietFollows ==
    ASSUME SInv, Typed, Following, UNCHANGED <<app, stream, pending, refusal>>,
           NEW x, Goes(Base.stream, x), Set(1, x)
    PROVE  Following'
<1>1. Base' = Base
  BY SameBase
<1>2. Base.ok
  BY DEF Following
<1> QED
  BY <1>1, <1>2, KeptFollows

LEMMA SaveFollows ==
    ASSUME SInv, Typed, Following, ~Aborted(1),
           \/ SaveFile(1) \/ SaveFlush(1) \/ SaveFails(1)
           \/ LateFlush(1) \/ LateFile(1) \/ LateSaveFails(1)
    PROVE  Following'
<1> DEFINE d == driver[1]
           m == Base.stream
<1>1. /\ Goes(m, d) /\ Base.ok /\ m \in Streams(AllReceipts)
      /\ Working(m, d.phase, d.queue, d.lease, d.save, d.next)
  BY FollowTypes, GoesFields DEF Following
<1> HIDE DEF d
<1>2. CASE SaveFile(1)
  <2>1. Goes(m, [d EXCEPT !.save = "flush"])
    BY <1>1, FlushStepGoes
  <2>2. Set(1, [d EXCEPT !.save = "flush"]) /\ UNCHANGED <<app, stream, pending, refusal>>
    BY <1>2 DEF SaveFile, host, d
  <2> QED
    BY <2>1, <2>2, QuietFollows
<1>3. CASE SaveFlush(1)
  <2>1. d.phase = "save"
    BY <1>3 DEF SaveFlush, InSave, d
  <2>2. /\ d.next \in {"admit", "work", "settled", "return"}
        /\ d.next # "admit" => IdsOf(d.queue.events) \subseteq m.ids
    BY <1>1, <2>1 DEF Working
  <2>3. Set(1, Resumed(1, d)) /\ stream' = m /\ pending' = <<>> /\ UNCHANGED <<app, refusal>>
    BY <1>1, <1>3 DEF SaveFlush, Base, host, d
  <2> HIDE DEF m
  <2>4. Goes(m, Resumed(1, d))
    BY <1>1, <2>2, ResumedGoes
  <2>5. Base'.ok /\ Base'.stream = Base.stream
    BY <2>3, FlushedBase DEF m
  <2>6. \E x : Goes(Base.stream, x) /\ Set(1, x)
    BY <2>3, <2>4 DEF m
  <2> QED
    BY <2>3, <2>5, <2>6, KeptFollows
<1>4. CASE SaveFails(1)
  <2>1. Goes(m, Rest(1, d))
    BY <1>1, RestGoes
  <2>2. Set(1, Rest(1, d)) /\ UNCHANGED <<app, stream, pending, refusal>>
    BY <1>4 DEF SaveFails, host, durable, d
  <2> QED
    BY <2>1, <2>2, QuietFollows
<1>5. ~LateFlush(1)
  BY DEF LateFlush, Finalizes
<1>6. ~LateFile(1) /\ ~LateSaveFails(1)
  BY <1>1 DEF LateFile, LateSaveFails, InSave, Working, d
<1> QED
  BY <1>2, <1>3, <1>4, <1>5, <1>6

LEMMA LoopFollows ==
    ASSUME SInv, Typed, Following, ~Aborted(1),
           Admit(1) \/ Loop(1) \/ Batched(1) \/ Settled(1)
    PROVE  Following'
<1> DEFINE d == driver[1]
           m == Base.stream
<1>1. Goes(m, d) /\ m \in Streams(AllReceipts)
  BY FollowTypes DEF Following
<1> HIDE DEF d
<1>2. CASE Admit(1)
  <2>1. Goes(m, [d EXCEPT !.phase = "loop"]) /\ Goes(m, Rest(1, d))
    BY <1>1, PhaseGoes, RestGoes
  <2>2. /\ Set(1, [d EXCEPT !.phase = "loop"]) \/ Set(1, Rest(1, d))
        /\ UNCHANGED <<app, stream, pending, refusal>>
    BY <1>2 DEF Admit, host, durable, d
  <2> QED
    BY <2>1, <2>2, QuietFollows
<1>3. CASE Loop(1)
  <2> DEFINE q == Reconciled(d.queue)
             y == [d EXCEPT !.queue = Reconciled(d.queue)]
             batch == SubSeq(Runnable(q), 1, Min({Concurrency, Len(Runnable(q))}))
             l == [t \in Task |-> IF t \in ToSet(batch)
                                  THEN [NoLease EXCEPT !.stage = "allocating"]
                                  ELSE NoLease]
  <2>1. /\ d.phase = "loop"
        /\ \/ Set(1, [y EXCEPT !.phase = "claim", !.lease = l]) /\ UNCHANGED <<app, pending>>
           \/ Transition(1, y, "return")
        /\ stream' = stream /\ refusal' = refusal
    BY <1>3 DEF Loop, host, durable, d
  <2>2. Goes(m, y) /\ y.queue = q /\ y.phase = "loop"
    BY <1>1, <2>1, ReconciledGoes
  <2>3. Fit(q.tasks, l)
    <3>1. \A t \in ToSet(batch) : t \in Task /\ Ready(q, t)
      <4> HIDE DEF q
      <4> QED
        BY BatchReady
    <3> HIDE DEF q, batch
    <3> QED
      BY <3>1, TakenFit
  <2> HIDE DEF q, l, y
  <2>4. Goes(m, [y EXCEPT !.phase = "claim", !.lease = l])
    BY <2>2, <2>3, BatchGoes
  <2>5. CASE Set(1, [y EXCEPT !.phase = "claim", !.lease = l]) /\ UNCHANGED <<app, pending>>
    BY <2>1, <2>4, <2>5, QuietFollows
  <2>6. CASE Transition(1, y, "return")
    <3>1. y.phase # "save" /\ "return" \in {"work", "settled", "return"}
      BY <2>2
    <3> QED
      BY <2>1, <2>2, <2>6, <3>1, TransitionFollows
  <2> QED
    BY <2>1, <2>5, <2>6
<1>4. CASE Batched(1)
  <2>1. Transition(1, d, "work") /\ stream' = stream /\ refusal' = refusal /\ d.phase # "save"
        /\ "work" \in {"work", "settled", "return"}
    BY <1>4 DEF Batched, host, durable, d
  <2> QED
    BY <1>1, <2>1, TransitionFollows
<1>5. CASE Settled(1)
  <2>1. Transition(1, d, "settled") /\ stream' = stream /\ refusal' = refusal /\ d.phase # "save"
        /\ "settled" \in {"work", "settled", "return"}
    BY <1>5 DEF Settled, AllSettled, host, durable, d
  <2> QED
    BY <1>1, <2>1, TransitionFollows
<1> QED
  BY <1>2, <1>3, <1>4, <1>5

LEMMA LeaseFollows ==
    ASSUME SInv, Typed, Following, ~Aborted(1), NEW t \in Task,
           \/ Claim(1, t) \/ LeaseClaim(1, t) \/ LeaseNotClaimed(1, t)
           \/ LeaseExecute(1, t) \/ LeaseWait(1, t) \/ LeaseThrows(1, t)
           \/ \E outcome \in {"succeeded", "failed"} :
                LeaseComplete(1, t, outcome) \/ LeaseCompleteFails(1, t, outcome)
    PROVE  Following'
<1> DEFINE d == driver[1]
           m == Base.stream
<1>1. Goes(m, d) /\ m \in Streams(AllReceipts) /\ d.lease \in [Task -> Lease]
  BY FollowTypes DEF Following
<1> HIDE DEF d
<1>2. UNCHANGED <<app, stream, pending, refusal>>
  BY DEF Claim, LeaseClaim, LeaseNotClaimed, LeaseExecute, LeaseWait, LeaseThrows,
         LeaseComplete, LeaseCompleteFails, host, durable
<1>3. CASE Claim(1, t)
  <2> DEFINE a == NextAttempt(d.queue, t)
  <2>1. /\ d.phase # "save" /\ d.lease[t].stage = "allocating"
        /\ \/ Set(1, [d EXCEPT !.queue = Claimed(@, t),
                               !.lease[t] = [stage |-> "leased", attempt |-> a]])
           \/ Set(1, [d EXCEPT !.queue = ClaimFailed(@, t), !.lease[t] = NoLease])
    BY <1>3 DEF Claim, d
  <2> HIDE DEF a
  <2>2. /\ Goes(m, [d EXCEPT !.queue = Claimed(@, t),
                             !.lease[t] = [stage |-> "leased", attempt |-> a]])
        /\ Goes(m, [d EXCEPT !.queue = ClaimFailed(@, t), !.lease[t] = NoLease])
    BY <1>1, <2>1, ClaimGoes
  <2> QED
    BY <1>2, <2>1, <2>2, QuietFollows
<1>4. CASE ~Claim(1, t)
  <2>1. d.phase # "save" /\ Taken(d, t)
    BY <1>4 DEF LeaseClaim, LeaseNotClaimed, LeaseExecute, LeaseWait, LeaseThrows,
                LeaseComplete, LeaseCompleteFails, Leased, Taken, d
  <2>2. \/ \E status \in {"succeeded", "failed"} : Set(1, Marked(d, t, status))
        \/ Set(1, [Released(d, t) EXCEPT !.queue = Parked(@, t), !.terminalized = TRUE])
        \/ Set(1, Released(d, t))
        \/ Set(1, Caught(1, d, t))
        \/ \E stage \in {"claimed", "executed"} : Set(1, [d EXCEPT !.lease[t].stage = stage])
    <3>1. CASE LeaseClaim(1, t)
      BY <3>1 DEF LeaseClaim, d
    <3>2. CASE LeaseNotClaimed(1, t) \/ LeaseThrows(1, t)
      BY <3>2 DEF LeaseNotClaimed, LeaseThrows, d
    <3>3. CASE LeaseExecute(1, t)
      BY <3>3 DEF LeaseExecute, d
    <3>4. CASE LeaseWait(1, t)
      BY <3>4 DEF LeaseWait, d
    <3>5. ASSUME NEW outcome \in {"succeeded", "failed"},
                 LeaseComplete(1, t, outcome) \/ LeaseCompleteFails(1, t, outcome)
          PROVE  \/ Set(1, Marked(d, t, outcome)) \/ Set(1, Released(d, t))
                 \/ Set(1, Caught(1, d, t))
      BY <3>5 DEF LeaseComplete, LeaseCompleteFails, d
    <3> QED
      BY <1>4, <3>1, <3>2, <3>3, <3>4, <3>5
  <2>3. ASSUME NEW status \in {"succeeded", "failed"} PROVE Goes(m, Marked(d, t, status))
    BY <1>1, <2>1, MarkedGoes
  <2>4. Goes(m, [Released(d, t) EXCEPT !.queue = Parked(@, t), !.terminalized = TRUE])
    BY <1>1, <2>1, WaitedGoes
  <2>5. Goes(m, Released(d, t)) /\ Goes(m, Caught(1, d, t))
    <3>1. Goes(m, Released(d, t))
      BY <1>1, <2>1, ReleasedGoes
    <3> HIDE DEF m
    <3>2. Goes(m, Caught(1, d, t))
      BY <1>1, <2>1, CaughtGoes
    <3> QED
      BY <3>1, <3>2
  <2>6. ASSUME NEW stage \in {"claimed", "executed"}
        PROVE  Goes(m, [d EXCEPT !.lease[t].stage = stage])
    BY <1>1, <2>1, StagedGoes
  <2>7. \E x : Goes(m, x) /\ Set(1, x)
    BY <2>2, <2>3, <2>4, <2>5, <2>6
  <2> QED
    BY <1>2, <2>7, QuietFollows
<1> QED
  BY <1>3, <1>4

LEMMA DriverFollows ==
    ASSUME SInv, Typed, Following, open, session = 1, NEW s \in Sessions, DriverMoves(s)
    PROVE  Following'
<1>1. ~Aborted(1)
  BY DEF Aborted
<1>2. s = 1
  <2> DEFINE busy == driver[s].phase # "ended"
  <2>1. ASSUME SaveFile(s) \/ SaveFlush(s) \/ SaveFails(s) PROVE busy
    BY <2>1 DEF SaveFile, SaveFlush, SaveFails, InSave
  <2>2. ASSUME LateFile(s) \/ LateSaveFails(s) PROVE busy
    BY <2>2 DEF LateFile, LateSaveFails, InSave
  <2>3. ASSUME LateFlush(s) \/ Settled(s) PROVE busy
    BY <2>3 DEF LateFlush, Settled, AllSettled
  <2>4. ASSUME Admit(s) \/ Loop(s) \/ Batched(s) PROVE busy
    BY <2>4 DEF Admit, Loop, Batched
  <2>5. ASSUME NEW t \in Task, Claim(s, t) PROVE busy
    BY <2>5 DEF Claim
  <2>6. ASSUME NEW t \in Task,
               \/ LeaseClaim(s, t) \/ LeaseNotClaimed(s, t)
               \/ LeaseExecute(s, t) \/ LeaseWait(s, t) \/ LeaseThrows(s, t)
        PROVE  busy
    BY <2>6 DEF LeaseClaim, LeaseNotClaimed, LeaseExecute, LeaseWait, LeaseThrows, Leased
  <2>7. ASSUME NEW t \in Task, NEW outcome \in {"succeeded", "failed"},
               LeaseComplete(s, t, outcome) \/ LeaseCompleteFails(s, t, outcome)
        PROVE  busy
    BY <2>7 DEF LeaseComplete, LeaseCompleteFails, Leased
  <2>8. ASSUME NEW decision \in {"retry", "skip"}, Decide(s, decision) PROVE busy
    BY <2>8 DEF Decide
  <2>9. busy
    <3> HIDE DEF busy
    <3> QED
      BY <2>1, <2>2, <2>3, <2>4, <2>5, <2>6, <2>7, <2>8 DEF DriverMoves, DriverStep, busy
  <2> QED
    BY <2>9 DEF Following
<1>3. \A decision \in {"retry", "skip"} : ~Decide(1, decision)
  BY GoesFields DEF Decide, Following, Working
<1>4. DriverStep(1)
  BY <1>2, <1>3 DEF DriverMoves
<1>5. CASE \/ SaveFile(1) \/ SaveFlush(1) \/ SaveFails(1)
           \/ LateFlush(1) \/ LateFile(1) \/ LateSaveFails(1)
  BY <1>1, <1>5, SaveFollows
<1>6. CASE Admit(1) \/ Loop(1) \/ Batched(1) \/ Settled(1)
  BY <1>1, <1>6, LoopFollows
<1>7. ASSUME NEW t \in Task,
             \/ Claim(1, t) \/ LeaseClaim(1, t) \/ LeaseNotClaimed(1, t)
             \/ LeaseExecute(1, t) \/ LeaseWait(1, t) \/ LeaseThrows(1, t)
             \/ \E outcome \in {"succeeded", "failed"} :
                  LeaseComplete(1, t, outcome) \/ LeaseCompleteFails(1, t, outcome)
      PROVE  Following'
  BY <1>1, <1>7, LeaseFollows
<1> QED
  BY <1>4, <1>5, <1>6, <1>7 DEF DriverStep

LEMMA UserFollows ==
    ASSUME SInv, Typed, Following, open, session = 1,
           StartRun \/ UserSave \/ UserFlush \/ Sweep
    PROVE  Following'
<1> DEFINE d == driver[1]
           m == Base.stream
<1>1. Goes(m, d) /\ Base.ok
  BY DEF Following
<1> HIDE DEF d
<1>2. CASE StartRun
  <2>1. Goes(m, Saving(d, "admit", "file"))
    <3>1. "admit" \in {"admit", "work", "settled", "return"} /\ "file" \in {"file", "flush"}
          /\ "admit" # "admit" => IdsOf(d.queue.events) \subseteq m.ids
      OBVIOUS
    <3> QED
      BY <1>1, <3>1, SavingGoes
  <2>2. Set(1, Saving(d, "admit", "file")) /\ UNCHANGED <<app, stream, pending, refusal>>
    BY <1>2 DEF StartRun, host, durable, d
  <2> QED
    BY <2>1, <2>2, QuietFollows
<1>3. CASE UserSave \/ Sweep
  <2>1. UNCHANGED <<app, stream, pending, refusal, driver>>
    BY <1>3 DEF UserSave, Sweep, host, durable
  <2>2. Base' = Base
    BY <2>1, SameBase
  <2> QED
    BY <1>1, <2>1, <2>2, KeptFollows
<1>4. CASE UserFlush
  <2>1. stream' = m /\ pending' = <<>> /\ UNCHANGED <<app, refusal, driver>>
    BY <1>1, <1>4 DEF UserFlush, Base, host
  <2>2. Base'.ok /\ Base'.stream = Base.stream
    BY <2>1, FlushedBase
  <2> QED
    BY <2>1, <2>2, KeptFollows
<1> QED
  BY <1>2, <1>3, <1>4

LEMMA UnchangedFollows ==
    ASSUME Typed, Following, UNCHANGED runVars
    PROVE  Following'
<1>1. UNCHANGED <<app, stream, pending, refusal, driver>>
  BY DEF runVars
<1>2. Base' = Base /\ Base.ok
  BY <1>1, SameBase DEF Following
<1> QED
  BY <1>1, <1>2, KeptFollows

LEMMA NextFInv ==
    ASSUME Typed, SInv, FInv, [RunNext]_runVars
    PROVE  FInv'
<1> SUFFICES ASSUME open', session' = 1 PROVE Following'
  BY DEF FInv
<1>1. session \in Sessions /\ session \in Nat /\ session >= 1
  BY BoundsAssumption DEF Typed, Sessions
<1>2. ~Close /\ ~RunCrash
  BY DEF Close, RunCrash, Closed
<1>3. ~CrashClosed
  BY DEF CrashClosed, host
<1>4. ~Open
  <2>1. session + 1 # 1
    BY <1>1
  <2> QED
    BY <2>1 DEF Open
<1>5. CASE \E s \in Sessions : DriverMoves(s)
  <2>1. PICK s \in Sessions : DriverMoves(s)
    BY <1>5
  <2>2. open' = open /\ session' = session
    <3>1. ASSUME NEW decision \in {"retry", "skip"}, Decide(s, decision)
          PROVE  open' = open /\ session' = session
      BY <3>1 DEF Decide
    <3>2. ASSUME SaveFile(s) \/ SaveFlush(s) \/ SaveFails(s)
          PROVE  open' = open /\ session' = session
      BY <3>2 DEF SaveFile, SaveFlush, SaveFails, host
    <3>3. ASSUME LateFlush(s) \/ LateFile(s) \/ LateSaveFails(s)
          PROVE  open' = open /\ session' = session
      BY <3>3 DEF LateFlush, LateFile, LateSaveFails, host
    <3>4. ASSUME Admit(s) \/ Loop(s) \/ Batched(s) \/ Settled(s)
          PROVE  open' = open /\ session' = session
      BY <3>4 DEF Admit, Loop, Batched, Settled, host
    <3>5. ASSUME NEW t \in Task,
                 \/ Claim(s, t) \/ LeaseClaim(s, t) \/ LeaseNotClaimed(s, t)
                 \/ LeaseExecute(s, t) \/ LeaseWait(s, t) \/ LeaseThrows(s, t)
          PROVE  open' = open /\ session' = session
      BY <3>5 DEF Claim, LeaseClaim, LeaseNotClaimed, LeaseExecute, LeaseWait, LeaseThrows, host
    <3>6. ASSUME NEW t \in Task, NEW outcome \in {"succeeded", "failed"},
                 LeaseComplete(s, t, outcome) \/ LeaseCompleteFails(s, t, outcome)
          PROVE  open' = open /\ session' = session
      BY <3>6 DEF LeaseComplete, LeaseCompleteFails, host
    <3> DEFINE kept == open' = open /\ session' = session
    <3>7. kept
      <4> HIDE DEF kept
      <4> QED
        BY <2>1, <3>1, <3>2, <3>3, <3>4, <3>5, <3>6 DEF DriverMoves, DriverStep, kept
    <3> QED
      BY <3>7
  <2> QED
    BY <2>1, <2>2, DriverFollows DEF FInv
<1>6. CASE StartRun \/ UserSave \/ UserFlush \/ Sweep
  <2>1. open' = open /\ session' = session
    BY <1>6 DEF StartRun, UserSave, UserFlush, Sweep, host
  <2> QED
    BY <1>6, <2>1, UserFollows DEF FInv
<1>7. ~Recover
  <2>1. ASSUME Recover PROVE open /\ session = 1 /\ refusal \in Actionable
    BY <2>1 DEF Recover, host
  <2>2. "none" \notin Actionable
    BY DEF Actionable
  <2> QED
    BY <2>1, <2>2 DEF FInv, Following
<1>8. CASE UNCHANGED runVars
  <2>1. open /\ session = 1
    BY <1>8 DEF runVars
  <2> QED
    BY <1>8, <2>1, UnchangedFollows DEF FInv
<1> QED
  BY <1>2, <1>3, <1>4, <1>5, <1>6, <1>7, <1>8 DEF RunNext

LEMMA FInvFollows == FInv => StoreFollowsEvents
<1> SUFFICES ASSUME Following
             PROVE  /\ Flushed(stream, pending).ok
                    /\ \A t \in Task : TaskConsistent(app.tasks[t],
                                                      Flushed(stream, pending).stream.execution[t])
  BY DEF FInv, StoreFollowsEvents
<1>1. Base.ok /\ Shows(Base.stream, app.tasks)
  BY DEF Following
<1>2. ASSUME NEW t \in Task
      PROVE  TaskConsistent(app.tasks[t], Base.stream.execution[t])
  <2>1. First(app.tasks[t]) /\ Base.stream.execution[t] = ExecOf(app.tasks[t])
    BY <1>1 DEF Shows
  <2>2. \A a \in Attempts : a # 0
    BY DEF Attempts
  <2> QED
    BY <2>1, <2>2, AttemptsNat DEF TaskConsistent, ExecOf, First
<1> QED
  BY <1>1, <1>2 DEF Base

\* The stream while the creation of the run is appended to it, after k events.
Filled(acc, k) ==
    /\ acc.ok
    /\ \A id \in acc.stream.ids : id[2] \in Created /\ id[4] <= k
    /\ \A t \in Task : acc.stream.execution[t] \in {NoExecution, ExecOf(NewTask)}
    /\ \A i \in DOMAIN Order : i < k => acc.stream.execution[Order[i]] = ExecOf(NewTask)

CreatedEvent(k) ==
    IF k = 1 THEN QueueEvent("run", Strict("RunCreated", 0), 0, 1)
    ELSE QueueEvent(Order[k - 1], Strict("TaskQueued", 0), 0, k)

LEMMA CreatedParts ==
    /\ Len(Order) \in Nat /\ DOMAIN Order = 1..Len(Order)
    /\ Len(CreatedEvents) = Len(Order) + 1
    /\ \A k \in 1..(Len(Order) + 1) : CreatedEvents[k] = CreatedEvent(k)
    /\ \A t \in Task : \E i \in DOMAIN Order : Order[i] = t
<1> DEFINE head == <<QueueEvent("run", Strict("RunCreated", 0), 0, 1)>>
           rest == [i \in DOMAIN Order |->
                      QueueEvent(Order[i], Strict("TaskQueued", 0), 0, i + 1)]
<1>1. Len(Order) \in Nat /\ DOMAIN Order = 1..Len(Order)
  BY OrderAssumption
<1>2. CreatedEvents = head \o rest
  BY DEF CreatedEvents
<1>3. Len(rest) = Len(Order) /\ Len(head) = 1
  BY <1>1
<1>4. Len(CreatedEvents) = Len(Order) + 1
  <2> HIDE DEF head, rest
  <2>1. Len(head \o rest) = Len(head) + Len(rest)
    <3>1. head \in Seq({head[1]}) /\ rest \in Seq({rest[i] : i \in DOMAIN Order})
      BY <1>1 DEF head, rest
    <3> QED
      BY <3>1
  <2> QED
    BY <1>1, <1>2, <1>3, <2>1
<1>5. ASSUME NEW k \in 1..(Len(Order) + 1)
      PROVE  CreatedEvents[k] = CreatedEvent(k)
  <2> DEFINE X == {head[1]} \cup {rest[i] : i \in DOMAIN Order}
  <2>1. rest \in Seq(X) /\ head \in Seq(X)
    <3>1. rest \in Seq(X)
      BY <1>1
    <3>2. head \in Seq(X)
      OBVIOUS
    <3> QED
      BY <3>1, <3>2
  <2> HIDE DEF X
  <2>2. CASE k = 1
    <3>1. head[1] = CreatedEvent(1)
      BY DEF CreatedEvent
    <3> HIDE DEF head, rest
    <3>2. (head \o rest)[1] = head[1]
      BY <1>1, <1>3, <2>1, ConcatProperties
    <3> QED
      BY <1>2, <2>2, <3>1, <3>2
  <2>3. CASE k # 1
    <3>1. k - 1 \in DOMAIN Order /\ (k - 1) + 1 = k
      BY <1>1, <2>3
    <3>2. rest[k - 1] = CreatedEvent(k)
      BY <2>3, <3>1 DEF CreatedEvent
    <3> HIDE DEF head, rest
    <3>3. (head \o rest)[k] = rest[k - 1]
      <4>1. /\ k \in 1..(Len(head) + Len(rest)) /\ ~(k <= Len(head))
            /\ k - Len(head) = k - 1
        BY <1>1, <1>3, <2>3
      <4>2. (head \o rest)[k] = IF k <= Len(head) THEN head[k] ELSE rest[k - Len(head)]
        BY <2>1, <4>1, ConcatProperties
      <4> QED
        BY <4>1, <4>2
    <3> QED
      BY <1>2, <3>2, <3>3
  <2> QED
    BY <2>2, <2>3
<1>6. ASSUME NEW t \in Task PROVE \E i \in DOMAIN Order : Order[i] = t
  BY DEF Task, ToSet
<1> QED
  BY <1>1, <1>4, <1>5, <1>6

LEMMA QueuedExecution ==
    LET e == Strict("TaskQueued", 0) IN
    \A x \in {NoExecution, ExecOf(NewTask)} : Accepts(x, e) /\ After(x, e) = ExecOf(NewTask)
<1> DEFINE e == Strict("TaskQueued", 0)
<1>1. e.type = "TaskQueued" /\ e.attempt = 0 /\ e.next = 0
  BY DEF Strict
<1>2. /\ "TaskQueued" \notin AttemptEvents /\ StatusOf("TaskQueued") = "queued"
      /\ "TaskQueued" \notin Completions \cup {"TaskStarted", "TaskBlocked"}
      /\ "TaskQueued" # "TaskAttemptMarkedUnknown"
  BY DEF AttemptEvents, StatusOf, Completions
<1>3. \A a \in Attempts : a # 0
  BY DEF Attempts
<1>4. ExecOf(NewTask) = [status |-> "queued", current |-> 0, pending |-> 0, last |-> 0,
                         attempt |-> [a \in Attempts |-> "none"]]
  BY <1>3 DEF ExecOf, NewTask
<1> HIDE DEF e
<1>5. ASSUME NEW x \in {NoExecution, ExecOf(NewTask)}
      PROVE  Accepts(x, e) /\ After(x, e) = ExecOf(NewTask)
  <2>1. /\ x.status \in {"none", "queued"} /\ x.current = 0 /\ x.pending = 0 /\ x.last = 0
        /\ x.attempt = [a \in Attempts |-> "none"]
    BY <1>4 DEF NoExecution
  <2>2. AttemptOf(x, e) = 0 /\ FenceAfter(x, e) = 0
    BY <1>1, <1>2, <2>1 DEF AttemptOf, FenceAfter
  <2>3. Accepts(x, e)
    BY <1>1, <1>2, <2>1, <2>2 DEF Accepts
  <2>4. After(x, e) = [status |-> "queued", current |-> 0, pending |-> 0, last |-> 0,
                       attempt |-> [a \in Attempts |-> "none"]]
    BY <1>1, <1>2, <1>3, <2>1, <2>2 DEF After
  <2> QED
    BY <1>4, <2>3, <2>4
<1> QED
  BY <1>5 DEF e

\* The creation of a run is one event after another, none of them known.
LEMMA FilledStep ==
    ASSUME NEW acc \in Flushes(AllReceipts), NEW k \in 1..(Len(Order) + 1), Filled(acc, k - 1),
           CreatedEvent(k) \in Events(AllReceipts)
    PROVE  Filled(Appended(acc, CreatedEvent(k)), k)
<1> DEFINE ev == CreatedEvent(k)
           st == acc.stream
           id == IdentityOf(ev)
           r == Replayed(st, ev)
<1>0. Len(Order) \in Nat /\ DOMAIN Order = 1..Len(Order) /\ k \in Nat /\ k - 1 \in Nat
  BY CreatedParts
<1>1. /\ acc.ok /\ st \in Streams(AllReceipts) /\ acc = [ok |-> acc.ok, stream |-> st]
      /\ \A x \in st.ids : x[2] \in Created /\ x[4] <= k - 1
  BY DEF Flushes, Filled
<1>2. id[2] \in Created /\ id[4] = k
  BY DEF CreatedEvent, QueueEvent, IdentityOf, Strict, Created
<1>3. \A x \in st.ids : x[4] \in Nat
  BY <1>1, StreamParts DEF Identities
<1>4. id \notin st.ids
  <2> HIDE DEF id, st
  <2> QED
    BY <1>0, <1>1, <1>2, <1>3
<1>5. r.ids = st.ids \cup {id} /\ r.execution = ExecutionsAfter(st.execution, ev)
  <2>1. st \in Streams(AllReceipts)
    BY <1>1
  <2> HIDE DEF st
  <2>2. \A x \in Streams(AllReceipts) :
          /\ Replayed(x, ev).ids = x.ids \cup {IdentityOf(ev)}
          /\ Replayed(x, ev).execution = ExecutionsAfter(x.execution, ev)
    BY ReplayedParts
  <2> QED
    BY <2>1, <2>2
<1>6. \A t \in Task : st.execution[t] \in {NoExecution, ExecOf(NewTask)}
  BY DEF Filled
<1>7. \A i \in DOMAIN Order : i < k - 1 => st.execution[Order[i]] = ExecOf(NewTask)
  BY DEF Filled
<1>8. Replayable(st, ev) /\ (\A t \in Task : r.execution[t] \in {NoExecution, ExecOf(NewTask)})
      /\ (\A i \in DOMAIN Order : i < k => r.execution[Order[i]] = ExecOf(NewTask))
  <2>1. CASE k = 1
    <3>1. ev.task = "run" /\ ev.e.type = "RunCreated"
      BY <2>1 DEF CreatedEvent, QueueEvent, Strict
    <3>2. Replayable(st, ev) /\ r.execution = st.execution
      BY <1>5, <3>1 DEF Replayable, ExecutionsAfter
    <3>3. \A i \in DOMAIN Order : ~(i < k)
      BY <1>0, <2>1
    <3> QED
      BY <1>6, <3>2, <3>3
  <2>2. CASE k # 1
    <3> DEFINE u == Order[k - 1]
               e == Strict("TaskQueued", 0)
    <3>1. k - 1 \in DOMAIN Order /\ u \in Task /\ u # "run"
      <4>1. k - 1 \in DOMAIN Order
        BY <1>0, <2>2
      <4> QED
        BY <4>1, OrderAssumption
    <3>2. ev.task = u /\ ev.e = e
      BY <2>2 DEF CreatedEvent, QueueEvent
    <3> HIDE DEF u, e, ev, r, st
    <3>3. Accepts(st.execution[u], e) /\ After(st.execution[u], e) = ExecOf(NewTask)
      BY <1>6, <3>1, QueuedExecution DEF e
    <3>4. Replayable(st, ev)
      BY <3>1, <3>2, <3>3 DEF Replayable
    <3>5. st.execution \in [Task -> Execution]
      BY <1>1, StreamParts
    <3>6. \A t \in Task : r.execution[t] = IF t = u THEN ExecOf(NewTask) ELSE st.execution[t]
      BY <1>5, <3>1, <3>2, <3>3, <3>5 DEF ExecutionsAfter
    <3>7. \A i \in DOMAIN Order : Order[i] \in Task
      BY <1>0, OrderAssumption
    <3>8. \A i \in DOMAIN Order : i < k => i < k - 1 \/ i = k - 1
      BY <1>0
    <3> QED
      BY <1>6, <1>7, <3>4, <3>6, <3>7, <3>8 DEF u
  <2> QED
    BY <2>1, <2>2
<1>9. Appended(acc, ev) = [acc EXCEPT !.stream = r]
  BY <1>1, <1>4, <1>8 DEF Appended
<1>10. [acc EXCEPT !.stream = r].ok = acc.ok /\ [acc EXCEPT !.stream = r].stream = r
  <2> HIDE DEF r, st
  <2> QED
    BY <1>1
<1>11. \A x \in r.ids : x[2] \in Created /\ x[4] <= k
  <2> HIDE DEF r, id, st
  <2> QED
    BY <1>0, <1>1, <1>2, <1>3, <1>5
<1> HIDE DEF r, st
<1> QED
  BY <1>1, <1>8, <1>9, <1>10, <1>11 DEF Filled

\* The run as the planning creates it: its tasks wait, and so the stream says.
LEMMA CreatedFlush ==
    LET st == Flushed(NoStream, CreatedEvents).stream IN
    /\ st \in Streams(AllReceipts)
    /\ Shows(st, NewRun.tasks)
    /\ \A id \in st.ids : id[2] \in Created
<1> DEFINE s == CreatedEvents
           F(k) == Flushed(NoStream, Prefix(s, k))
           S == {k \in 0..Len(s) : F(k) \in Flushes(AllReceipts) /\ Filled(F(k), k)}
<1>1. NoStream \in Streams(AllReceipts) /\ s \in Seq(Events(AllReceipts))
  BY CreatedSound
<1>2. /\ Len(Order) \in Nat /\ DOMAIN Order = 1..Len(Order) /\ Len(s) = Len(Order) + 1
      /\ \A k \in 1..(Len(Order) + 1) : s[k] = CreatedEvent(k)
      /\ \A t \in Task : \E i \in DOMAIN Order : Order[i] = t
  BY CreatedParts
<1> HIDE DEF s
<1>3. /\ Len(s) \in Nat /\ DOMAIN s = 1..Len(s) /\ Prefix(s, Len(s)) = s
      /\ Prefix(s, 0) = <<>>
  BY <1>1, PrefixesOf
<1>4. 0 \in S
  <2>1. F(0) = Fresh(NoStream)
    BY <1>1, <1>3, FlushNothing
  <2>2. Fresh(NoStream) \in Flushes(AllReceipts) /\ Fresh(NoStream).ok /\ Fresh(NoStream).stream = NoStream
    BY <1>1 DEF Fresh, Flushes
  <2>3. NoStream.ids = {} /\ \A t \in Task : NoStream.execution[t] = NoExecution
    BY DEF NoStream
  <2>4. \A i \in DOMAIN Order : ~(i < 0)
    BY <1>2
  <2>5. Filled(Fresh(NoStream), 0)
    BY <2>2, <2>3, <2>4 DEF Filled
  <2>6. 0 \in 0..Len(s)
    BY <1>3
  <2> HIDE DEF F
  <2> QED
    BY <2>1, <2>2, <2>5, <2>6
<1>5. ASSUME NEW k \in 1..Len(s), k - 1 \in S PROVE k \in S
  <2> DEFINE acc == F(k - 1)
             ev == s[k]
  <2>1. ev \in Events(AllReceipts) /\ F(k) = Appended(acc, ev) /\ k \in 0..Len(s)
    BY <1>1, FlushSteps
  <2>2. acc \in Flushes(AllReceipts) /\ Filled(acc, k - 1)
    BY <1>5
  <2>3. ev = CreatedEvent(k) /\ k \in 1..(Len(Order) + 1)
    BY <1>2
  <2> HIDE DEF F, acc, ev
  <2>4. Appended(acc, CreatedEvent(k)) \in Flushes(AllReceipts)
    BY <2>1, <2>2, <2>3, AppendedSound
  <2>5. Filled(Appended(acc, CreatedEvent(k)), k)
    BY <2>1, <2>2, <2>3, FilledStep
  <2> QED
    BY <2>1, <2>3, <2>4, <2>5
<1> HIDE DEF S
<1>6. Len(s) \in S
  <2>1. 0..Len(s) \subseteq S
    BY <1>3, <1>4, <1>5, UpTo
  <2> QED
    BY <1>3, <2>1
<1>7. F(Len(s)) = Flushed(NoStream, s)
  BY <1>3
<1> HIDE DEF F
<1>8. Flushed(NoStream, s) \in Flushes(AllReceipts) /\ Filled(Flushed(NoStream, s), Len(Order) + 1)
  BY <1>2, <1>6, <1>7 DEF S
<1> DEFINE st == Flushed(NoStream, s).stream
<1>9. st \in Streams(AllReceipts) /\ \A id \in st.ids : id[2] \in Created
  BY <1>8 DEF Flushes, Filled
<1>10. ASSUME NEW t \in Task
       PROVE  First(NewRun.tasks[t]) /\ st.execution[t] = ExecOf(NewRun.tasks[t])
  <2>1. NewRun.tasks[t] = NewTask
    BY DEF NewRun
  <2>2. First(NewTask)
    BY DEF First, NewTask
  <2>3. \A i \in DOMAIN Order : i < Len(Order) + 1
    BY <1>2
  <2>4. st.execution[t] = ExecOf(NewTask)
    BY <1>2, <1>8, <2>3 DEF Filled
  <2> QED
    BY <2>1, <2>2, <2>4
<1>11. Shows(st, NewRun.tasks)
  BY <1>10 DEF Shows
<1> QED
  BY <1>9, <1>11 DEF s

LEMMA InitFInv == RunInit => FInv
<1> SUFFICES ASSUME RunInit PROVE Following
  BY DEF FInv
<1>1. /\ stream \in Streams(AllReceipts) /\ Shows(stream, NewRun.tasks)
      /\ \A id \in stream.ids : id[2] \in Created
  BY CreatedFlush DEF RunInit
<1>2. pending = <<>> /\ app = NewRun /\ refusal = "none" /\ 1 \in Sessions
  BY BoundsAssumption DEF RunInit, Sessions
<1>3. Base = Fresh(stream)
  BY <1>1, <1>2, FlushNothing DEF Base
<1>4. Base.ok /\ Base.stream = stream
  BY <1>3, FreshParts
<1> DEFINE q == Restored(NewRun)
<1>5. q \in Queues(AllReceipts)
  BY CreatedSound, RestoredSound
<1>6. q.events = <<>> /\ q.tasks = NewRun.tasks
  <2>1. \A t \in Task : NormalTask(NewRun.tasks[t]) = NewRun.tasks[t]
    BY DEF NormalTask, NewRun, NewTask
  <2>2. NewRun.tasks = [t \in Task |-> NewRun.tasks[t]]
    BY DEF NewRun
  <2>3. q.tasks = [t \in Task |-> NormalTask(NewRun.tasks[t])]
    BY DEF Restored
  <2>4. q.events = <<>>
    BY DEF Restored
  <2> HIDE DEF q
  <2> QED
    BY <2>1, <2>2, <2>3, <2>4
<1> HIDE DEF q
<1>7. Records(stream, q, q.tasks)
  <2>1. Flushed(stream, q.events) = Fresh(stream)
    BY <1>1, <1>6, FlushNothing
  <2>2. Below(stream.ids, q.seq)
    BY <1>1 DEF Below
  <2> QED
    BY <1>1, <1>6, <2>1, <2>2, FreshParts DEF Records
<1>8. Goes(stream, Driver(q))
  BY <1>5, <1>7, DriverGoes DEF Recording
<1>9. driver[1] = Driver(q) /\ \A s \in Sessions : s # 1 => driver[s] = NoDriver
  BY <1>2 DEF RunInit, q
<1>10. NoDriver.phase = "ended"
  BY DEF NoDriver, Driver
<1> QED
  BY <1>1, <1>2, <1>4, <1>8, <1>9, <1>10 DEF Following

\* Whatever fails in the first session, the buffer can be flushed and the tasks of the
\* store are what the stream then says: a queue keeps its events beside its tasks, a
\* save flushes them with the tasks it writes, and the store takes both or neither
\* (createWorkerRunTransitionPersistence, flushPendingProjectEvents, workerQueue.ts).
THEOREM StoreFollows == RunSpec => []StoreFollowsEvents
<1>1. RunInit => FInv
  BY InitFInv
<1>2. IInv /\ SInv /\ FInv /\ [RunNext]_runVars => FInv'
  <2>1. IInv => Typed
    BY DEF IInv
  <2> QED
    BY <2>1, NextFInv
<1>3. FInv => StoreFollowsEvents
  BY FInvFollows
<1> QED
  BY <1>1, <1>2, <1>3, Invariance, Soundness, PTL DEF RunSpec

=============================================================================
