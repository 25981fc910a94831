---------------------------- MODULE WorkflowRun ----------------------------
(***************************************************************************)
(* Runs of one workflow. Each run has a generation; starting a run takes   *)
(* the next one, and so does stopping. A run works through the stages of   *)
(* its plan: the clusters of a stage in parallel, the nodes of a cluster   *)
(* one after the other. It learns that it was stopped or replaced only     *)
(* when it next looks at its signal and its generation, while the nodes it *)
(* started are still executing; meanwhile it shares the node statuses, the *)
(* result cache and the running flag of the store with its successors.     *)
(*                                                                         *)
(* Steps between two awaits of the code are one action, except that the    *)
(* nodes of a stage are decided one by one.                                *)
(***************************************************************************)
EXTENDS Naturals, Sequences, FiniteSets

CONSTANTS
  Plans,    \* the plans of the workflows to check, compiled by RunPlan
  Handles,  \* node |-> the handles of its outputs
  Branchers,\* nodes which declare the handle they take, one per execution
  Askers,   \* nodes which may ask the user to intervene while they execute
  Streamers,\* nodes which show partial results while they execute
  Repeatable,\* nodes whose inputs repeat, so that a lookup may find a result
  Options,  \* the options with which the user starts runs
  MaxGen,   \* bound: generations handed out
  MaxLive,  \* bound: runs that have not come to their end, old ones included
  MaxRounds \* a plan's limit of rounds

VARIABLES
  plan,       \* the execution plan of the workflow on the canvas
  current,    \* GenerationState.currentRunId, to which activeRunId is equal
  controller, \* the run whose AbortController is held, or NoRun
  aborted,    \* the runs whose signal is aborted
  running,    \* runStates[wfId].running
  status,     \* status of each node in the store
  cache,      \* <<node, handles>>: a result that a lookup may find, or may not:
              \* its key stands for the inputs, which are left out
  runs        \* what each run's coroutine holds, with the result it recorded

vars == <<plan, current, controller, aborted, running, status, cache, runs>>

NoRun == 0
Gens == 1 .. MaxGen
Nodes == DOMAIN Handles
Stage(i) == UNION plan.clusters[i]

\* branchState: the handles a node activated. A node not in the map counts as
\* having activated all of its handles.
Branches == UNION {SUBSET Handles[n] : n \in Nodes}
Taken(n) == IF n \in Branchers THEN {{h} : h \in Handles[n]} ELSE {Handles[n]}

Phases == {"none", "worktree", "stage", "persisting", "cleaning", "ended"}
\* A node of a run: not reached in this round, executing, waiting for the user,
\* executing after the user's answer, decided or finished, left by a stale run.
NodeStates == {"waiting", "executing", "asking", "answered", "settled", "left"}
Statuses == {"idle", "running", "success", "error", "skipped", "cached"}
Results == {"none", "success", "error", "aborted"}

Fresh == [n \in Nodes |-> "waiting"]
NotStarted ==
  [phase |-> "none", options |-> CHOOSE o \in Options : TRUE, round |-> 0,
   stage |-> 1, node |-> Fresh, failed |-> {}, branch |-> Handles,
   passed |-> {}, forced |-> {}, result |-> "none"]

\* Code of a run that looks now finds its signal aborted or its generation past.
Stale(r) == r \in aborted \/ current # r

Live == {r \in Gens : runs[r].phase \notin {"none", "ended"}}

ASSUME ConstantsAssumption ==
  /\ MaxGen \in Nat /\ MaxRounds \in Nat /\ Options # {}
  /\ Handles \in [Nodes -> Branches] /\ Repeatable \subseteq Nodes

\* Each node of a plan is in one cluster of one stage. A plan that is run has a
\* stage: an empty canvas is left out.
ASSUME PlansAssumption ==
  \A p \in Plans :
    /\ p.cyclic # {} \/ p.clusters # << >>
    /\ p.redone \subseteq Nodes /\ p.clusters \in Seq(SUBSET SUBSET Nodes)
    /\ \A i, j \in DOMAIN p.clusters : \A c \in p.clusters[i], d \in p.clusters[j] :
         c \cap d # {} => i = j /\ c = d

-----------------------------------------------------------------------------
\* cancelInterventionsForRun: every pending request of the run is answered.
Cancelled_never(rs, r) == rs
Cancelled(rs, r) ==
  IF r = NoRun THEN rs
  ELSE [rs EXCEPT ![r].node =
         [n \in Nodes |-> IF rs[r].node[n] = "asking" THEN "answered" ELSE rs[r].node[n]]]

\* From the end of the awaits before a run to its first stage. Nothing here asks
\* whether the run is still the current one: a stale run takes over the flag and
\* the statuses too, and then finds no stage to run. A cyclic graph is refused.
Launch(r, rs, now, held, stale) ==
  IF plan.cyclic # {}
  THEN /\ status' = [n \in Nodes |-> IF n \in plan.cyclic THEN "error" ELSE status[n]]
       /\ runs' = [rs EXCEPT ![r].phase = "cleaning"]
       /\ running' = (running /\ now # r)
       /\ controller' = IF now = r THEN NoRun ELSE held
       /\ UNCHANGED cache
  ELSE /\ status' = [n \in Nodes |-> "idle"]
       /\ cache' = IF rs[r].options.forceRerun THEN {} ELSE cache
       /\ running' = TRUE
       /\ controller' = held
       /\ runs' = [rs EXCEPT ![r].phase = IF stale THEN "cleaning" ELSE "stage"]

\* runWorkflow up to its first await. A start finds the running flag set unless
\* it forces its way; then it aborts the run it replaces.
Start(o) ==
  /\ current + 1 \in Gens /\ Cardinality(Live) < MaxLive
  /\ running => o.force
  /\ LET r == current + 1
         freed == IF running THEN Cancelled(runs, current) ELSE runs
         rs == [freed EXCEPT ![r].options = o]
     IN  /\ current' = r
         /\ aborted' = IF running THEN aborted \cup ({controller} \ {NoRun}) ELSE aborted
         /\ \/ /\ o.worktree
               /\ runs' = [rs EXCEPT ![r].phase = "worktree"]
               /\ controller' = r
               /\ UNCHANGED <<running, status, cache>>
            \/ /\ ~ o.worktree
               /\ Launch(r, rs, r, r, FALSE)
  /\ UNCHANGED plan

\* The git worktree of a sandboxed run exists, or could not be made.
WorktreeReady(r) ==
  /\ runs[r].phase = "worktree"
  /\ Launch(r, runs, current, controller, Stale(r))
  /\ UNCHANGED <<plan, current, aborted>>

\* stopWorkflow, offered while the flag is set.
Stop ==
  /\ running
  /\ current + 1 \in Gens
  /\ aborted' = aborted \cup ({controller} \ {NoRun})
  /\ controller' = NoRun
  /\ current' = current + 1
  /\ running' = FALSE
  /\ status' = [n \in Nodes |-> "idle"]
  /\ runs' = Cancelled(runs, current)
  /\ UNCHANGED <<plan, cache>>

-----------------------------------------------------------------------------
EdgesTo(n) == {e \in plan.edges : e.to = n}
Over(s) == s \in {"settled", "left"}

\* Run r has come to node n of its stage: the nodes before n in its cluster are
\* over. InTurn is asked again before every node.
InTurn(r, n) ==
  /\ runs[r].phase = "stage"
  /\ runs[r].node[n] = "waiting"
  /\ \E cluster \in plan.clusters[runs[r].stage] :
       /\ n \in cluster
       /\ \A m \in cluster : plan.rank[m] < plan.rank[n] => Over(runs[r].node[m])

Settle(r, n, branch, shown) ==
  /\ runs' = [runs EXCEPT ![r] = [@ EXCEPT !.node[n] = "settled", !.branch[n] = branch]]
  /\ status' = [status EXCEPT ![n] = shown]

\* A cluster of a stale run starts no more nodes.
Leave(r, n) ==
  /\ InTurn(r, n)
  /\ Stale(r)
  /\ runs' = [runs EXCEPT ![r].node[n] = "left"]
  /\ UNCHANGED <<plan, current, controller, aborted, running, status, cache>>

UpstreamFailed(r, n) == \E e \in EdgesTo(n) : e.from \in runs[r].failed
Pruned(r, n) ==
  /\ ~ runs[r].options.skipFailed
  /\ EdgesTo(n) # {}
  /\ \A e \in EdgesTo(n) : e.handle \notin runs[r].branch[e.from]

\* The decisions before a node is executed: an upstream node failed, no edge to
\* the node is active, the cache has its result, or it has to execute.
FailWithUpstream(r, n) ==
  /\ InTurn(r, n) /\ ~ Stale(r)
  /\ UpstreamFailed(r, n)
  /\ runs' = [runs EXCEPT ![r] = [@ EXCEPT !.node[n] = "settled", !.branch[n] = {},
                                          !.failed = runs[r].failed \cup {n}]]
  /\ status' = [status EXCEPT ![n] = "error"]
  /\ UNCHANGED <<plan, current, controller, aborted, running, cache>>

Prune(r, n) ==
  /\ InTurn(r, n) /\ ~ Stale(r)
  /\ ~ UpstreamFailed(r, n) /\ Pruned(r, n)
  /\ Settle(r, n, {}, "skipped")
  /\ UNCHANGED <<plan, current, controller, aborted, running, cache>>

UseCache(r, n, b) ==
  /\ InTurn(r, n) /\ ~ Stale(r)
  /\ ~ UpstreamFailed(r, n) /\ ~ Pruned(r, n)
  /\ n \notin runs[r].forced /\ <<n, b>> \in cache
  /\ Settle(r, n, b, "cached")
  /\ UNCHANGED <<plan, current, controller, aborted, running, cache>>

Execute(r, n) ==
  /\ InTurn(r, n) /\ ~ Stale(r)
  /\ ~ UpstreamFailed(r, n) /\ ~ Pruned(r, n)
  /\ runs' = [runs EXCEPT ![r].node[n] = "executing"]
  /\ status' = [status EXCEPT ![n] = "running"]
  /\ UNCHANGED <<plan, current, controller, aborted, running, cache>>

-----------------------------------------------------------------------------
Executes(r, n) == runs[r].node[n] \in {"executing", "answered"}

\* ctx.intervene: refused to a node of an old generation, which goes on at once.
Ask_anyGeneration(r, n) ==
  /\ runs[r].node[n] = "executing" /\ n \in Askers
  /\ runs' = [runs EXCEPT ![r].node[n] = "asking"]
  /\ UNCHANGED <<plan, current, controller, aborted, running, status, cache>>

Ask(r, n) ==
  /\ runs[r].node[n] = "executing" /\ n \in Askers
  /\ runs' = [runs EXCEPT ![r].node[n] = IF current = r THEN "asking" ELSE "answered"]
  /\ UNCHANGED <<plan, current, controller, aborted, running, status, cache>>

\* The user submits a result or cancels the request.
Answer(r, n) ==
  /\ runs[r].node[n] = "asking"
  /\ runs' = [runs EXCEPT ![r].node[n] = "answered"]
  /\ UNCHANGED <<plan, current, controller, aborted, running, status, cache>>

\* ctx.setPartial, which looks at no generation.
ShowPartial(r, n) ==
  /\ Executes(r, n) /\ n \in Streamers
  /\ status' = [status EXCEPT ![n] = "running"]
  /\ UNCHANGED <<plan, current, controller, aborted, running, cache, runs>>

\* def.execute returns. A gate that took its pass handle has said so before.
Succeed(r, n, b) ==
  /\ Executes(r, n) /\ ~ Stale(r)
  /\ runs' = [runs EXCEPT ![r] =
       [@ EXCEPT !.node[n] = "settled", !.branch[n] = b,
                 !.passed = runs[r].passed \cup (IF "pass" \in b THEN {n} \cap plan.gates ELSE {})]]
  /\ status' = [status EXCEPT ![n] = "success"]
  /\ cache' = IF n \in Repeatable THEN cache \cup {<<n, b>>} ELSE cache
  /\ UNCHANGED <<plan, current, controller, aborted, running>>

\* def.execute throws, and its retries are used up.
Fail(r, n) ==
  /\ Executes(r, n) /\ ~ Stale(r)
  /\ runs' = [runs EXCEPT ![r] =
       [@ EXCEPT !.node[n] = "settled", !.failed = runs[r].failed \cup {n},
                 !.branch[n] = IF runs[r].options.skipFailed THEN Handles[n] ELSE {}]]
  /\ status' = [status EXCEPT ![n] = "error"]
  /\ UNCHANGED <<plan, current, controller, aborted, running, cache>>

\* Either of them in a stale run: its result is dropped and the node shown idle.
ReturnStale(r, n) ==
  /\ Executes(r, n) /\ Stale(r)
  /\ runs' = [runs EXCEPT ![r].node[n] = "left"]
  /\ status' = [status EXCEPT ![n] = "idle"]
  /\ UNCHANGED <<plan, current, controller, aborted, running, cache>>

-----------------------------------------------------------------------------
StageOver(r) ==
  /\ runs[r].phase = "stage"
  /\ \A n \in Stage(runs[r].stage) : Over(runs[r].node[n])

\* failFast: a stage with a failed node is the last of its run.
CutShort(r) == runs[r].options.failFast /\ runs[r].failed # {}
LastStage(r) == runs[r].stage = Len(plan.clusters)
\* Another round, if a gate passed and the limit allows; rounds count from 0.
Again_offByOne(r) == plan.hasLoop /\ runs[r].passed # {} /\ runs[r].round <= MaxRounds
Again(r) == plan.hasLoop /\ runs[r].passed # {} /\ runs[r].round < MaxRounds

NextStage_afterFailure(r) ==
  /\ StageOver(r) /\ ~ Stale(r)
  /\ ~ LastStage(r)
  /\ runs' = [runs EXCEPT ![r].stage = @ + 1]
  /\ UNCHANGED <<plan, current, controller, aborted, running, status, cache>>

NextStage(r) ==
  /\ StageOver(r) /\ ~ Stale(r) /\ ~ CutShort(r)
  /\ ~ LastStage(r)
  /\ runs' = [runs EXCEPT ![r].stage = @ + 1]
  /\ UNCHANGED <<plan, current, controller, aborted, running, status, cache>>

NextRound(r) ==
  /\ StageOver(r) /\ ~ Stale(r) /\ ~ CutShort(r)
  /\ LastStage(r) /\ Again(r)
  /\ runs' = [runs EXCEPT ![r] =
       [@ EXCEPT !.round = runs[r].round + 1, !.stage = 1, !.node = Fresh,
                 !.passed = {}, !.forced = runs[r].forced \cup plan.redone]]
  /\ cache' = {c \in cache : c[1] \notin plan.redone}
  /\ UNCHANGED <<plan, current, controller, aborted, running, status>>

\* finalizeRun of the current run up to its await, with the abort of failFast.
Result(r) == IF runs[r].failed # {} THEN "error"
             ELSE IF r \in aborted THEN "aborted" ELSE "success"
Finalize_anyStage(r) ==
  /\ StageOver(r) /\ current = r
  /\ Stale(r) \/ CutShort(r) \/ ~ Again(r)
  /\ aborted' = IF CutShort(r) THEN aborted \cup {r} ELSE aborted
  /\ runs' = [runs EXCEPT ![r] = [@ EXCEPT !.phase = "persisting", !.result = Result(r)]]
  /\ UNCHANGED <<plan, current, controller, running, status, cache>>

Finalize(r) ==
  /\ StageOver(r) /\ current = r
  /\ Stale(r) \/ CutShort(r) \/ (LastStage(r) /\ ~ Again(r))
  /\ aborted' = IF CutShort(r) THEN aborted \cup {r} ELSE aborted
  /\ runs' = [runs EXCEPT ![r] = [@ EXCEPT !.phase = "persisting", !.result = Result(r)]]
  /\ UNCHANGED <<plan, current, controller, running, status, cache>>

\* finalizeRun of a run that is not the current one records nothing, and the
\* finally block touches neither the flag nor the controller.
FinalizeStale(r) ==
  /\ StageOver(r) /\ current # r
  /\ runs' = [runs EXCEPT ![r].phase = "cleaning"]
  /\ UNCHANGED <<plan, current, controller, aborted, running, status, cache>>

\* The checkpoint is written, or could not be. The finally block runs up to the
\* cleanup of the run's resources.
Release_anyGeneration(r) ==
  /\ runs[r].phase = "persisting"
  /\ runs' = [runs EXCEPT ![r].phase = "cleaning"]
  /\ running' = FALSE
  /\ controller' = NoRun
  /\ UNCHANGED <<plan, current, aborted, status, cache>>

Release(r) ==
  /\ runs[r].phase = "persisting"
  /\ runs' = [runs EXCEPT ![r].phase = "cleaning"]
  /\ running' = (running /\ current # r)
  /\ controller' = IF current = r THEN NoRun ELSE controller
  /\ UNCHANGED <<plan, current, aborted, status, cache>>

\* The requests still open are cancelled, and the coroutine is gone.
CleanUp(r) ==
  /\ runs[r].phase = "cleaning"
  /\ runs' = [runs EXCEPT ![r] = [NotStarted EXCEPT !.phase = "ended"]]
  /\ UNCHANGED <<plan, current, controller, aborted, running, status, cache>>

-----------------------------------------------------------------------------
Init ==
  /\ plan \in Plans
  /\ current = 0 /\ controller = NoRun /\ aborted = {} /\ running = FALSE
  /\ status = [n \in Nodes |-> "idle"]
  /\ cache = {}
  /\ runs = [r \in Gens |-> NotStarted]

\* The steps of a run that need nothing of the user. What a node asks of others
\* times out or is aborted in the end, so that a node that executes returns.
Advance(r) ==
  \/ WorktreeReady(r) \/ NextStage(r) \/ NextRound(r)
  \/ Finalize(r) \/ FinalizeStale(r) \/ Release(r) \/ CleanUp(r)
  \/ runs[r].phase = "stage" /\ \E n \in Nodes :
       \/ Leave(r, n) \/ FailWithUpstream(r, n) \/ Prune(r, n) \/ Execute(r, n)
       \/ ReturnStale(r, n) \/ Fail(r, n)
       \/ \E b \in Branches : UseCache(r, n, b)
       \/ \E b \in Taken(n) : Succeed(r, n, b)

Next ==
  \/ Stop \/ \E o \in Options : Start(o)
  \/ \E r \in Gens :
       \/ Advance(r)
       \/ \E n \in Nodes : Ask(r, n) \/ Answer(r, n) \/ ShowPartial(r, n)

\* A run goes on while it can. Users need not start, stop or answer.
Spec == Init /\ [][Next]_vars
FairSpec == Spec /\ \A r \in Gens : WF_vars(Advance(r))

-----------------------------------------------------------------------------
\* The values of the variables. The statuses are those that a node of a graph
\* without bypassed or muted nodes may show.
Run ==
  [phase : Phases, options : Options, round : 0 .. MaxRounds, stage : Nat \ {0},
   node : [Nodes -> NodeStates], failed : SUBSET Nodes, branch : [Nodes -> Branches],
   passed : SUBSET Nodes, forced : SUBSET Nodes, result : Results]
TypeOK ==
  /\ current \in 0 .. MaxGen /\ controller \in Gens \cup {NoRun}
  /\ aborted \subseteq Gens /\ running \in BOOLEAN
  /\ status \in [Nodes -> Statuses] /\ cache \subseteq Nodes \X Branches
  /\ runs \in [Gens -> Run]

Busy(s) == s \in {"executing", "asking", "answered"}

\* A node executes only when what it depends on is over: the sources of its data
\* edges, and the loop gate that starts it. Stages are computed once from the
\* whole graph, nodes run in parallel by their clusters.
StartsInOrder ==
  \A r \in Gens, n \in Nodes : Busy(runs[r].node[n]) =>
    \A e \in EdgesTo(n) :
      (e.kind # "control" \/ e.from \in plan.gates) => Over(runs[r].node[e.from])

\* While the run of the current generation works, the workflow is shown as
\* running, and its stop button reaches that run: a run that ends late, or that
\* is stopped, takes the flag or the controller of no other.
LiveShown ==
  \A r \in Gens :
    current = r /\ runs[r].phase \in {"stage", "persisting"} => running /\ controller = r

\* A request to the user is open only for a run that can still use the answer.
AsksLive ==
  \A r \in Gens, n \in Nodes :
    runs[r].node[n] = "asking" => /\ current = r /\ r \notin aborted
                                  /\ runs[r].phase = "stage"

\* The window deals with the live run only: it shows that run and asks for it.
LiveRunOnly == LiveShown /\ AsksLive

\* Two nodes of one run that touch a common resource never execute together.
ScopesApart ==
  \A r \in Gens : \A m, n \in Nodes :
    m # n /\ Busy(runs[r].node[m]) /\ Busy(runs[r].node[n]) => plan.scopes[m] \cap plan.scopes[n] = {}

\* With failFast a run starts no stage after one in which a node failed.
FailuresStay ==
  \A r \in Gens :
    runs[r].phase = "stage" /\ CutShort(r) => runs[r].failed \cap Stage(runs[r].stage) # {}

\* A run is recorded as a success only if each of its nodes was decided or has
\* finished in the last round, and none failed: it did not learn on the way that
\* it was stopped, nor miss a stage.
RecordsWhole ==
  \A r \in Gens :
    runs[r].result = "success" =>
      /\ runs[r].failed = {}
      /\ \A i \in DOMAIN plan.clusters : \A n \in Stage(i) : runs[r].node[n] = "settled"

\* A run that was stopped or replaced comes to its end, even while it waits for
\* an answer the user will never give.
SupersededEnds ==
  \A r \in Gens :
    (current # r /\ runs[r].phase # "none") ~> (runs[r].phase = "ended")

\* executionCoordinator.ts: "A stop or force takeover advances the current
\* generation, so late async completions cannot write to the new run": a step of
\* an older run leaves the status of the nodes the new run has come to.
LateWritesNothing ==
  [][\A r \in 1 .. current - 1 : \A n \in Nodes :
       runs'[r] # runs[r] /\ runs[current].node[n] # "waiting"
         => status'[n] = status[n]]_vars
=============================================================================
