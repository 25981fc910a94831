------------------------------ MODULE MCDomain ------------------------------
(***************************************************************************)
(* The domain layer in one model check: the event store under its writers, *)
(* the projection that replays its events, and the worker run that emits   *)
(* them.  The three share no state here, so that interleaving them would   *)
(* only multiply their states: `focus' is the part that moves.             *)
(***************************************************************************)
EXTENDS EventStore, TaskLifecycle, WorkerRun, TLC

CONSTANTS e1, e2, b1, b2, p1, p2

VARIABLE focus

domainVars == <<focus, vars, lifecycleVars, runVars>>

\* e2 with the contents b1 stands for an event whose lifecycle needs an earlier
\* e1, as TaskSucceeded needs TaskStarted; every other event replays anywhere.
MCReplays(S) ==
    \A x \in S : x.id = e2 /\ x.body = b1 =>
        \E y \in S : y.id = e1 /\ y.seq < x.seq

\* The writers are interchangeable.
Writers == Permutations(Proc)

\* Two tasks, the second after the first.
Two == <<"t1", "t2">>
Chain == [t \in {"t1", "t2"} |-> IF t = "t2" THEN {"t1"} ELSE {}]

DomainInit ==
  /\ focus \in {"store", "lifecycle", "worker"}
  /\ Init /\ LifecycleInit /\ RunInit

DomainNext ==
  /\ UNCHANGED focus
  /\ \/ focus = "store" /\ Next /\ UNCHANGED <<lifecycleVars, runVars>>
     \/ focus = "lifecycle" /\ LifecycleNext /\ UNCHANGED <<vars, runVars>>
     \/ focus = "worker" /\ RunNext /\ UNCHANGED <<vars, lifecycleVars>>

DomainSpec == DomainInit /\ [][DomainNext]_domainVars

=============================================================================
