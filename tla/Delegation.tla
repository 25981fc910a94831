----------------------------- MODULE Delegation -----------------------------
(***************************************************************************)
(* The delegation of tasks among the agents of a project                   *)
(* (src/src/projectControl: hierarchy, protocol, delegation, budget,       *)
(* contextPack, retrieval and evidenceIndex).  An agent hands a part of    *)
(* what it may do to another, which may delegate in its turn; a ledger     *)
(* reserves and settles what the tasks consume; what an agent may read of  *)
(* the evidence is cut to its scope.  The libraries leave it to the caller *)
(* what to pass on: here it is the scope, the role and the depth under     *)
(* which the delegating task was itself delegated.                         *)
(***************************************************************************)
EXTENDS Naturals, Sequences, FiniteSets, FiniteSetsExt

CONSTANTS
  DlTask, RootTask,
  Grant,         \* ids of delegations
  NoGrant,
  File,
  DlScopes,      \* the scopes a task may be given by its planner
  RootScope, PolicyScope,
  BudgetLimit,
  MaxReserves    \* bound: reservations made

Roles == {"module-lead", "worker", "specialist", "independent-reviewer"}

\* PROJECT_ROLE_DEFINITIONS below the lead of a module; whoever reviews delegates nothing.
CanDelegateTo(role) ==
  CASE role = "module-lead" -> {"worker", "specialist"}
    [] role = "worker" -> {"specialist"}
    [] OTHER -> {}

Scope == [files : SUBSET File, evidence : BOOLEAN, roles : SUBSET Roles, delegates : BOOLEAN,
          depth : Nat, fan : Nat, tokens : Nat, expires : Nat]

ASSUME DelegationAssumption ==
  /\ IsFiniteSet(DlTask) /\ RootTask \in DlTask
  /\ IsFiniteSet(Grant) /\ NoGrant \notin Grant \cup Nat
  /\ DlScopes \subseteq Scope /\ RootScope \in Scope /\ PolicyScope \in Scope
  /\ BudgetLimit \in Nat /\ MaxReserves \in Nat

VARIABLE dl  \* the delegations, the budget ledger, and the files contexts were opened for

-----------------------------------------------------------------------------
(* A request *)

\* Mutant: the scope of the parent is taken for that of the policy.
IntersectUnbounded(parent, policy, child) ==
  [files |-> policy.files \cap child.files,
   evidence |-> policy.evidence /\ child.evidence,
   roles |-> policy.roles \cap child.roles,
   delegates |-> policy.delegates /\ child.delegates,
   depth |-> Min({policy.depth, child.depth}), fan |-> Min({policy.fan, child.fan}),
   tokens |-> Min({policy.tokens, child.tokens}),
   expires |-> Min({policy.expires, child.expires})]
\* intersectChildScope; the tools are the one to delegate and the right to read evidence.
Intersect(parent, policy, child) ==
  [files |-> parent.files \cap policy.files \cap child.files,
   evidence |-> parent.evidence /\ policy.evidence /\ child.evidence,
   roles |-> parent.roles \cap policy.roles \cap child.roles,
   delegates |-> parent.delegates /\ policy.delegates /\ child.delegates,
   depth |-> Min({parent.depth, policy.depth, child.depth}),
   fan |-> Min({parent.fan, policy.fan, child.fan}),
   tokens |-> Min({parent.tokens, policy.tokens, child.tokens}),
   expires |-> Min({parent.expires, policy.expires, child.expires})]

Granted == {g \in Grant : dl.requests[g] # NoGrant}
Request(g) == dl.requests[g]

\* Under what an agent works on a task.
RootHeld == [role |-> "module-lead", scope |-> RootScope, depth |-> 0]
Held(t) ==
  (IF t = RootTask THEN {RootHeld} ELSE {}) \cup
  {[role |-> Request(g).role, scope |-> Request(g).scope, depth |-> Request(g).depth] :
     g \in {x \in Granted : Request(x).child = t}}

\* createDelegationRequest; a deadline after the expiry is refused.
Requests(parent, child) ==
  {r \in {[parent |-> parent, child |-> child, role |-> role, depth |-> h.depth + 1,
           scope |-> Intersect(h.scope, PolicyScope, s), deadline |-> s.expires, from |-> h.role] :
            h \in Held(parent), role \in Roles, s \in DlScopes} :
     /\ parent # child /\ r.role \in CanDelegateTo(r.from)
     /\ r.role \in r.scope.roles /\ r.scope.delegates
     /\ r.depth <= r.scope.depth /\ r.deadline <= r.scope.expires}

-----------------------------------------------------------------------------
(* The graph of delegations *)

Edges == {<<Request(g).parent, Request(g).child>> : g \in Granted}

\* The tasks under a task.
Below(edges, t) ==
  LET f[k \in 0..Cardinality(DlTask)] ==
        IF k = 0 THEN {t}
        ELSE LET before == f[k - 1]
             IN  before \cup {e[2] : e \in {x \in edges : x[1] \in before}}
  IN  f[Cardinality(DlTask)]

Siblings(t) == {g \in Granted : Request(g).parent = t}

\* registerDelegation, with the key of a pair of tasks: a request repeated in full
\* changes nothing.
RegisterGrant(g) ==
  \E parent, child \in DlTask : \E r \in Requests(parent, child) :
    /\ dl.requests[g] \in {NoGrant, r}
    /\ \A other \in Granted \ {g} :
         <<Request(other).parent, Request(other).child>> # <<parent, child>>
    /\ Cardinality(Siblings(parent) \ {g}) < r.scope.fan
    /\ parent \notin Below(Edges \cup {<<parent, child>>}, child)
    /\ dl' = [dl EXCEPT !.requests[g] = r]

-----------------------------------------------------------------------------
(* The budget *)

Reserved == {g \in Grant : dl.open[g] # NoGrant}

\* reserveBudget: what is reserved again under its id must be the same.
ReserveBudget(g) ==
  /\ g \in Granted
  /\ \E asked \in 0..Request(g).scope.tokens :
       \/ dl.open[g] = asked /\ UNCHANGED dl
       \/ /\ g \notin Reserved /\ dl.reserves < MaxReserves
          /\ asked + dl.consumed + dl.reserved <= BudgetLimit
          /\ dl' = [dl EXCEPT !.open[g] = asked, !.reserved = @ + asked, !.reserves = @ + 1]

\* settleBudget: what was consumed may be more than what was reserved.
SettleBudget(g) ==
  /\ g \in Reserved
  /\ \E actual \in 0..(dl.open[g] + 1) :
       dl' = [dl EXCEPT !.open[g] = NoGrant, !.reserved = @ - dl.open[g], !.consumed = @ + actual,
                        !.over = @ \/ actual > dl.open[g] \/ dl.consumed + actual > BudgetLimit]

\* createContextPack and checkContextAccess: the files of a context are in its scope.
OpenContext(g) ==
  /\ g \in Granted
  /\ \E f \in Request(g).scope.files : dl' = [dl EXCEPT !.opened = @ \cup {f}]

DelegationInit ==
  dl = [requests |-> [g \in Grant |-> NoGrant], open |-> [g \in Grant |-> NoGrant],
        reserved |-> 0, consumed |-> 0, over |-> FALSE, reserves |-> 0, opened |-> {}]

DelegationNext ==
  \E g \in Grant : RegisterGrant(g) \/ ReserveBudget(g) \/ SettleBudget(g) \/ OpenContext(g)

DelegationSpec == DelegationInit /\ [][DelegationNext]_dl

-----------------------------------------------------------------------------
(* What a scope may read of the evidence *)

\* An index lists the evidence of one project, with what each entry matches and the
\* tokens it takes; a query may name the project and the ids it wants.
EvidenceEntry == [id : {"e1", "e2", "e3"}, kind : {"test", "acceptance"}, cost : 1..2]
EvidenceIndex ==
  {x \in UNION {[1..n -> EvidenceEntry] : n \in 0..2} :
     \A i, j \in DOMAIN x : x[i].id = x[j].id => i = j}
EvidenceQuery == [project : {"own", "other", "any"}, ids : {{}, {"e1"}, {"e2", "e3"}},
                  exact : BOOLEAN, kind : {"test", "any"}, limit : 1..2, tokens : 1..3]

Matches(index, q) ==
  LET Fits(e) == (q.exact => e.id \in q.ids) /\ q.kind \in {"any", e.kind}
      found[n \in 0..Len(index)] ==
        IF n = 0 THEN <<>>
        ELSE found[n - 1] \o (IF Fits(index[n]) THEN <<index[n]>> ELSE <<>>)
  IN  found[Len(index)]

QueryAnswer(verdict, entries) == [verdict |-> verdict, entries |-> entries]

\* queryEvidenceIndex
QueryIndex(index, q) ==
  LET found == Matches(index, q)
  IN  IF q.project = "other" THEN QueryAnswer("out-of-scope", <<>>)
      ELSE QueryAnswer(IF found = <<>> THEN (IF q.exact THEN "not-found" ELSE "empty")
                  ELSE IF Len(found) > q.limit THEN "truncated" ELSE "ok",
                  SubSeq(found, 1, Min({q.limit, Len(found)})))

CostTo(entries, n) == MapThenSumSet(LAMBDA i : entries[i].cost, 1..n)

\* limitByTokenBudget stops at the first entry that does not fit.
Fitting(entries, tokens) ==
  SubSeq(entries, 1, Max({n \in 0..Len(entries) : CostTo(entries, n) <= tokens}))

\* queryEvidenceWithinScope
Retrieved(index, q, scope) ==
  LET all == QueryIndex(index, q)
      kept == Fitting(all.entries, Min({q.tokens, scope.tokens}))
  IN  IF ~scope.evidence THEN QueryAnswer("out-of-scope", <<>>)
      ELSE QueryAnswer(IF Len(kept) < Len(all.entries) THEN "truncated" ELSE all.verdict, kept)

-----------------------------------------------------------------------------
\* What is read costs no more than the scope and the query allow, comes in the order
\* of the index, and is all there is unless the answer says it was cut or refused.
ReadsBounded ==
  \A index \in EvidenceIndex, q \in EvidenceQuery, e \in BOOLEAN, t \in 0..3 :
    LET scope == [evidence |-> e, tokens |-> t]
        read == Retrieved(index, q, scope)
        found == Matches(index, q)
    IN  /\ CostTo(read.entries, Len(read.entries)) <= Min({t, q.tokens})
        /\ Len(read.entries) <= q.limit
        /\ read.entries = SubSeq(found, 1, Len(read.entries))
        /\ read.entries # <<>> => e /\ q.project # "other"
        /\ read.verdict \in {"ok", "empty", "not-found"} => read.entries = found

\* A scope allows no more than another.
NoWiderThan(s, t) ==
  /\ s.files \subseteq t.files /\ s.roles \subseteq t.roles
  /\ (s.evidence => t.evidence) /\ (s.delegates => t.delegates)
  /\ s.depth <= t.depth /\ s.fan <= t.fan /\ s.tokens <= t.tokens /\ s.expires <= t.expires

\* However tasks are delegated, nobody comes to work under itself, nobody gets more
\* than the root and the policy allow or delegates to more tasks than a scope of its
\* own does, and the budget is exceeded only when a settlement has said so.
DelegationSound ==
  /\ ReadsBounded
  /\ \A S \in SUBSET DlTask : S # {} =>
       \E t \in S : \A e \in Edges : e[2] = t => e[1] \notin S
  /\ \A g \in Granted :
       /\ NoWiderThan(Request(g).scope, RootScope) /\ NoWiderThan(Request(g).scope, PolicyScope)
       /\ Request(g).depth <= RootScope.depth /\ Request(g).deadline <= RootScope.expires
  /\ \A t \in DlTask : Siblings(t) # {} =>
       \E h \in Held(t) : Cardinality(Siblings(t)) <= h.scope.fan
  /\ dl.opened \subseteq RootScope.files \cap PolicyScope.files
  /\ dl.reserved = MapThenSumSet(LAMBDA g : dl.open[g], Reserved)
  /\ dl.consumed + dl.reserved <= BudgetLimit \/ dl.over
=============================================================================
