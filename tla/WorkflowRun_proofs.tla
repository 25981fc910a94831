------------------------- MODULE WorkflowRun_proofs -------------------------
(***************************************************************************)
(* Proofs about WorkflowRun, for every set of plans, every bound and every *)
(* choice of options. What a run holds is described by two predicates of   *)
(* one run's record: Inside, about the record alone, and Beside, about it  *)
(* and the flags the runs share. A step of a run changes its record only,  *)
(* or also the flags; each action is shown to keep both.                   *)
(*                                                                         *)
(* And about RunPlan, for every graph: what the compilation promises of a  *)
(* plan, from which the order of the nodes and their keeping apart follow. *)
(***************************************************************************)
EXTENDS RunPlan, WorkflowRun, RecursionLemmas, TLAPS

\* What holds of the record of a run, whatever the other runs do.
Inside(x) ==
  /\ x.phase \in {"none", "worktree"} => x.node = Fresh /\ x.failed = {} /\ x.stage = 1
  /\ x.result # "none" => x.phase \in {"persisting", "cleaning"}
  /\ \A n \in Nodes : Busy(x.node[n]) => x.phase = "stage" /\ n \in Stage(x.stage)
  /\ x.phase = "stage" =>
       /\ x.stage \in DOMAIN plan.clusters
       /\ \A i \in DOMAIN plan.clusters : \A n \in Stage(i) :
            /\ i < x.stage => Over(x.node[n])
            /\ i > x.stage => x.node[n] = "waiting"
       /\ \A c \in plan.clusters[x.stage] : \A m, n \in c :
            plan.rank[m] < plan.rank[n] /\ x.node[n] # "waiting" => Over(x.node[m])
       /\ x.options.failFast /\ x.failed # {} => x.failed \cap Stage(x.stage) # {}
  /\ x.result = "success" =>
       /\ x.failed = {}
       /\ \A i \in DOMAIN plan.clusters : \A n \in Stage(i) : x.node[n] = "settled"

\* What holds of run r with record x when c is the current generation, ab are
\* the aborted runs, h holds the controller and shown is the running flag.
Beside(r, x, c, ab, h, shown) ==
  /\ r > c => x = NotStarted /\ r \notin ab
  /\ c = r /\ x.phase \in {"worktree", "stage", "persisting"} => h = r
  /\ c = r /\ x.phase \in {"stage", "persisting"} => shown
  /\ c = r /\ r \in ab => x.phase \notin {"worktree", "stage"}
  /\ \A n \in Nodes : x.node[n] = "asking" => c = r
  /\ \A n \in Nodes : x.node[n] = "left" => r \in ab \/ c # r

IInv ==
  /\ TypeOK /\ plan \in Plans /\ controller \in 0 .. current
  /\ \A r \in Gens : Inside(runs[r])
  /\ \A r \in Gens : Beside(r, runs[r], current, aborted, controller, running)
-----------------------------------------------------------------------------
\* Run record x has come to node n and is not done with it.
Reached(x, n) ==
  /\ x.phase = "stage" /\ n \in Stage(x.stage) /\ ~ Over(x.node[n])
  /\ \A c \in plan.clusters[x.stage] : \A m \in c :
       n \in c /\ plan.rank[m] < plan.rank[n] => Over(x.node[m])

\* What a run has before it starts.
LEMMA NotStartedFacts ==
  /\ NotStarted \in Run
  /\ NotStarted.node = Fresh /\ NotStarted.stage = 1
  /\ NotStarted.phase = "none" /\ NotStarted.result = "none" /\ NotStarted.failed = {}
<1>1. (CHOOSE o \in Options : TRUE) \in Options  BY ConstantsAssumption
<1>2. Fresh \in [Nodes -> NodeStates]  BY DEF Fresh, NodeStates
<1> QED  BY <1>1, <1>2, ConstantsAssumption DEF NotStarted, Run, Phases, Results

\* A run without started nodes that is in none of its stages satisfies Inside.
LEMMA IdleInside ==
  ASSUME NEW x \in Run, x.node = Fresh, x.failed = {}, x.stage = 1, x.result = "none",
         x.phase \in Phases \ {"stage"}
  PROVE  Inside(x)
BY DEF Inside, Fresh, Busy

LEMMA InTurnReached ==
  ASSUME IInv, NEW r \in Gens, NEW n \in Nodes, InTurn(r, n)
  PROVE  Reached(runs[r], n)
<1>1. PICK cluster \in plan.clusters[runs[r].stage] :
        /\ n \in cluster
        /\ \A m \in cluster : plan.rank[m] < plan.rank[n] => Over(runs[r].node[m])
  BY DEF InTurn
<1>2. runs[r].phase = "stage" /\ runs[r].node[n] = "waiting"  BY DEF InTurn
<1>3. runs[r].stage \in DOMAIN plan.clusters  BY <1>2 DEF IInv, Inside
<1>4. \A c \in plan.clusters[runs[r].stage] : n \in c => c = cluster
  BY <1>1, <1>3, PlansAssumption DEF IInv
<1> QED  BY <1>1, <1>2, <1>4 DEF Reached, Stage, Over

LEMMA BusyReached ==
  ASSUME IInv, NEW r \in Gens, NEW n \in Nodes, Busy(runs[r].node[n])
  PROVE  Reached(runs[r], n)
<1>1. Inside(runs[r])  BY DEF IInv
<1>2. runs[r].phase = "stage" /\ n \in Stage(runs[r].stage)  BY <1>1 DEF Inside
<1>3. ~ Over(runs[r].node[n]) /\ runs[r].node[n] # "waiting"  BY DEF Over, Busy
<1>4. \A c \in plan.clusters[runs[r].stage] : \A m \in c :
        n \in c /\ plan.rank[m] < plan.rank[n] => Over(runs[r].node[m])
  BY <1>1, <1>2, <1>3 DEF Inside
<1> QED  BY <1>2, <1>3, <1>4 DEF Reached

-----------------------------------------------------------------------------
\* A step that changes the record of one run, and neither the generation nor
\* what belongs to it, keeps the invariant if the new record fits.
LEMMA Keep ==
  ASSUME IInv, NEW r \in Gens, runs' \in [Gens -> Run],
         \A q \in Gens \ {r} : runs'[q] = runs[q],
         Inside(runs'[r]), Beside(r, runs'[r], current, aborted, controller, running),
         UNCHANGED <<plan, current, controller, aborted, running>>,
         status' \in [Nodes -> Statuses], cache' \subseteq Nodes \X Branches
  PROVE  IInv'
<1>1. \A q \in Gens : Inside(runs'[q])  BY DEF IInv
<1>2. \A q \in Gens : Beside(q, runs'[q], current, aborted, controller, running)  BY DEF IInv
<1>3. \A q \in Gens : Inside(runs[q])'  BY <1>1 DEF Inside, Stage
<1>4. \A q \in Gens : Beside(q, runs[q], current, aborted, controller, running)'
  BY <1>2 DEF Beside, NotStarted
<1>5. TypeOK'  BY DEF IInv, TypeOK
<1> QED  BY <1>3, <1>4, <1>5 DEF IInv

\* A node that was reached moves on, and may fail.
LEMMA NodeMoves ==
  ASSUME plan \in Plans, NEW x \in Run, Inside(x), NEW n \in Nodes, Reached(x, n),
         NEW s \in NodeStates \ {"waiting"}, NEW y \in Run,
         y.node = [x.node EXCEPT ![n] = s], y.failed \in {x.failed, x.failed \cup {n}},
         y.phase = x.phase, y.stage = x.stage, y.options = x.options, y.result = x.result
  PROVE  Inside(y)
<1>1. x.phase = "stage" /\ n \in Stage(x.stage)  BY DEF Reached
<1>2. y.result = "none"  BY <1>1 DEF Inside
<1>3. \A m \in Nodes \ {n} : y.node[m] = x.node[m]  BY DEF Run
<1>4. y.node[n] = s  BY DEF Run
<1>5. \A m \in Nodes : Busy(y.node[m]) => y.phase = "stage" /\ m \in Stage(y.stage)
  BY <1>1, <1>3, <1>4 DEF Inside
<1>6. \A i \in DOMAIN plan.clusters : \A m \in Stage(i) : m \in Nodes
  BY PlansAssumption DEF Stage
<1>7. \A i \in DOMAIN plan.clusters : i # x.stage => n \notin Stage(i)
  BY <1>1, PlansAssumption DEF Stage, Inside
<1>8. \A i \in DOMAIN plan.clusters : \A m \in Stage(i) :
         /\ i < y.stage => Over(y.node[m])
         /\ i > y.stage => y.node[m] = "waiting"
  <2> SUFFICES ASSUME NEW i \in DOMAIN plan.clusters, NEW m \in Stage(i), i # y.stage
               PROVE  y.node[m] = x.node[m]
    BY <1>1, PlansAssumption DEF Inside, Run
  <2> QED  BY <1>3, <1>6, <1>7
<1>9. \A c \in plan.clusters[y.stage] : \A m, k \in c :
         plan.rank[m] < plan.rank[k] /\ y.node[k] # "waiting" => Over(y.node[m])
  <2> SUFFICES ASSUME NEW c \in plan.clusters[x.stage], NEW m \in c, NEW k \in c,
                      plan.rank[m] < plan.rank[k], y.node[k] # "waiting"
               PROVE  Over(y.node[m])
    OBVIOUS
  <2>1. c \subseteq Stage(x.stage) /\ x.stage \in DOMAIN plan.clusters
    BY <1>1 DEF Stage, Inside
  <2>2. m \in Nodes /\ k \in Nodes  BY <2>1, <1>6
  <2>3. Over(x.node[m])
    <3>1. CASE k = n  BY <3>1 DEF Reached
    <3>2. CASE k # n  BY <3>2, <2>2, <1>1, <1>3 DEF Inside
    <3> QED  BY <3>1, <3>2
  <2>4. m # n  BY <2>3 DEF Reached
  <2> QED  BY <2>2, <2>3, <2>4, <1>3
<1>10. y.options.failFast /\ y.failed # {} => y.failed \cap Stage(y.stage) # {}
  BY <1>1 DEF Inside
<1>11. y.stage \in DOMAIN plan.clusters  BY <1>1 DEF Inside
<1> QED  BY <1>1, <1>2, <1>5, <1>8, <1>9, <1>10, <1>11 DEF Inside

\* ... and so a step of one node of one run keeps the invariant.
LEMMA NodeKeeps ==
  ASSUME IInv, NEW r \in Gens, NEW n \in Nodes, Reached(runs[r], n),
         NEW s \in NodeStates \ {"waiting"}, runs' \in [Gens -> Run],
         \A q \in Gens \ {r} : runs'[q] = runs[q],
         runs'[r].node = [runs[r].node EXCEPT ![n] = s],
         runs'[r].failed \in {runs[r].failed, runs[r].failed \cup {n}},
         runs'[r].phase = runs[r].phase, runs'[r].stage = runs[r].stage,
         runs'[r].options = runs[r].options, runs'[r].result = runs[r].result,
         s = "asking" => current = r, s = "left" => Stale(r),
         UNCHANGED <<plan, current, controller, aborted, running>>,
         status' \in [Nodes -> Statuses], cache' \subseteq Nodes \X Branches
  PROVE  IInv'
<1>1. runs \in [Gens -> Run]  BY DEF IInv, TypeOK
<1>2. Inside(runs[r]) /\ plan \in Plans  BY DEF IInv
<1>3. Inside(runs'[r])  BY <1>1, <1>2, NodeMoves
<1>4. Beside(r, runs[r], current, aborted, controller, running)  BY DEF IInv
<1>5. ~ (r > current)  BY <1>4, NotStartedFacts DEF Beside, Reached
<1>6. \A m \in Nodes : runs'[r].node[m] = IF m = n THEN s ELSE runs[r].node[m]
  BY <1>1 DEF Run
<1>7. Beside(r, runs'[r], current, aborted, controller, running)
  BY <1>4, <1>5, <1>6 DEF Beside, Stale
<1> QED  BY <1>3, <1>7, Keep

\* Two records of a run that differ by a step of node n to s, which leaves f as
\* the failed nodes.
Moved(y, x, n, s, f) ==
  /\ y \in Run /\ y.node = [x.node EXCEPT ![n] = s] /\ y.failed = f
  /\ y.phase = x.phase /\ y.stage = x.stage
  /\ y.options = x.options /\ y.result = x.result

\* The updates of a record by the actions of a node.
LEMMA MarkMoves ==
  ASSUME NEW x \in Run, NEW n \in Nodes, NEW s \in NodeStates
  PROVE  Moved([x EXCEPT !.node[n] = s], x, n, s, x.failed)
BY DEF Run, Moved

LEMMA SettleMoves ==
  ASSUME NEW x \in Run, NEW n \in Nodes, NEW s \in NodeStates, NEW b \in Branches
  PROVE  Moved([x EXCEPT !.node[n] = s, !.branch[n] = b], x, n, s, x.failed)
BY DEF Run, Moved

LEMMA SucceedMoves ==
  ASSUME NEW x \in Run, NEW n \in Nodes, NEW s \in NodeStates, NEW b \in Branches,
         NEW p \in SUBSET Nodes
  PROVE  Moved([x EXCEPT !.node[n] = s, !.branch[n] = b, !.passed = p], x, n, s, x.failed)
BY DEF Run, Moved

LEMMA FailMoves ==
  ASSUME NEW x \in Run, NEW n \in Nodes, NEW s \in NodeStates, NEW b \in Branches
  PROVE  /\ Moved([x EXCEPT !.node[n] = s, !.branch[n] = b, !.failed = x.failed \cup {n}],
                  x, n, s, x.failed \cup {n})
         /\ Moved([x EXCEPT !.node[n] = s, !.failed = x.failed \cup {n}, !.branch[n] = b],
                  x, n, s, x.failed \cup {n})
BY DEF Run, Moved

\* The handles that nodes activate.
LEMMA BranchFacts ==
  ASSUME NEW n \in Nodes
  PROVE  /\ {} \in Branches /\ Handles[n] \in Branches
         /\ \A b \in Taken(n) : b \in Branches
<1>1. \A b \in SUBSET Handles[n] : b \in Branches  BY DEF Branches
<1> QED  BY <1>1 DEF Taken

\* NodeKeeps, for an action given by the record y that it leaves.
LEMMA NodeStepKeeps ==
  ASSUME IInv, NEW r \in Gens, NEW n \in Nodes, Reached(runs[r], n),
         NEW s \in NodeStates \ {"waiting"}, NEW f \in {runs[r].failed, runs[r].failed \cup {n}},
         Moved(runs'[r], runs[r], n, s, f), runs' = [runs EXCEPT ![r] = runs'[r]],
         s = "asking" => current = r, s = "left" => Stale(r),
         UNCHANGED <<plan, current, controller, aborted, running>>,
         status' \in [Nodes -> Statuses], cache' \subseteq Nodes \X Branches
  PROVE  IInv'
<1>1. runs \in [Gens -> Run]  BY DEF IInv, TypeOK
<1>2. runs' \in [Gens -> Run] /\ \A q \in Gens \ {r} : runs'[q] = runs[q]
  BY <1>1 DEF Moved
<1> QED  BY <1>1, <1>2, NodeKeeps DEF Moved

-----------------------------------------------------------------------------
LEMMA KeepLeave ==
  ASSUME IInv, NEW r \in Gens, NEW n \in Nodes, Leave(r, n)
  PROVE  IInv'
<1>1. Reached(runs[r], n)  BY InTurnReached DEF Leave
<1>2. runs \in [Gens -> Run] /\ "left" \in NodeStates \ {"waiting"}
  BY DEF IInv, TypeOK, NodeStates
<1> DEFINE y == [runs[r] EXCEPT !.node[n] = "left"]
<1>3. runs' = [runs EXCEPT ![r] = y] /\ runs'[r] = y  BY <1>2 DEF Leave
<1>4. Moved(y, runs[r], n, "left", runs[r].failed)  BY <1>2, MarkMoves
<1> HIDE DEF y
<1>5. status' \in [Nodes -> Statuses] /\ cache' \subseteq Nodes \X Branches
  BY DEF IInv, TypeOK, Leave
<1> QED  BY <1>1, <1>2, <1>3, <1>4, <1>5, NodeStepKeeps DEF Leave

LEMMA KeepFailWithUpstream ==
  ASSUME IInv, NEW r \in Gens, NEW n \in Nodes, FailWithUpstream(r, n)
  PROVE  IInv'
<1>1. Reached(runs[r], n)  BY InTurnReached DEF FailWithUpstream
<1>2. /\ runs \in [Gens -> Run] /\ "settled" \in NodeStates \ {"waiting"} /\ {} \in Branches
      /\ runs[r].failed \cup {n} \in SUBSET Nodes
  BY BranchFacts DEF IInv, TypeOK, NodeStates, Run
<1> DEFINE y == [runs[r] EXCEPT !.node[n] = "settled", !.branch[n] = {},
                                !.failed = runs[r].failed \cup {n}]
<1>3. runs' = [runs EXCEPT ![r] = y] /\ runs'[r] = y  BY <1>2 DEF FailWithUpstream
<1>4. Moved(y, runs[r], n, "settled", runs[r].failed \cup {n})  BY <1>2, FailMoves
<1> HIDE DEF y
<1>5. status' \in [Nodes -> Statuses] /\ cache' \subseteq Nodes \X Branches
  BY DEF IInv, TypeOK, FailWithUpstream, Statuses
<1> QED  BY <1>1, <1>2, <1>3, <1>4, <1>5, NodeStepKeeps DEF FailWithUpstream

LEMMA KeepPrune ==
  ASSUME IInv, NEW r \in Gens, NEW n \in Nodes, Prune(r, n)
  PROVE  IInv'
<1>1. Reached(runs[r], n)  BY InTurnReached DEF Prune
<1>2. runs \in [Gens -> Run] /\ "settled" \in NodeStates \ {"waiting"} /\ {} \in Branches
  BY BranchFacts DEF IInv, TypeOK, NodeStates
<1> DEFINE y == [runs[r] EXCEPT !.node[n] = "settled", !.branch[n] = {}]
<1>3. runs' = [runs EXCEPT ![r] = y] /\ runs'[r] = y  BY <1>2 DEF Prune, Settle
<1>4. Moved(y, runs[r], n, "settled", runs[r].failed)  BY <1>2, SettleMoves
<1> HIDE DEF y
<1>5. status' \in [Nodes -> Statuses] /\ cache' \subseteq Nodes \X Branches
  BY DEF IInv, TypeOK, Prune, Settle, Statuses
<1> QED  BY <1>1, <1>2, <1>3, <1>4, <1>5, NodeStepKeeps DEF Prune

LEMMA KeepUseCache ==
  ASSUME IInv, NEW r \in Gens, NEW n \in Nodes, NEW b \in Branches, UseCache(r, n, b)
  PROVE  IInv'
<1>1. Reached(runs[r], n)  BY InTurnReached DEF UseCache
<1>2. runs \in [Gens -> Run] /\ "settled" \in NodeStates \ {"waiting"}
  BY DEF IInv, TypeOK, NodeStates
<1> DEFINE y == [runs[r] EXCEPT !.node[n] = "settled", !.branch[n] = b]
<1>3. runs' = [runs EXCEPT ![r] = y] /\ runs'[r] = y  BY <1>2 DEF UseCache, Settle
<1>4. Moved(y, runs[r], n, "settled", runs[r].failed)  BY <1>2, SettleMoves
<1> HIDE DEF y
<1>5. status' \in [Nodes -> Statuses] /\ cache' \subseteq Nodes \X Branches
  BY DEF IInv, TypeOK, UseCache, Settle, Statuses
<1> QED  BY <1>1, <1>2, <1>3, <1>4, <1>5, NodeStepKeeps DEF UseCache

LEMMA KeepExecute ==
  ASSUME IInv, NEW r \in Gens, NEW n \in Nodes, Execute(r, n)
  PROVE  IInv'
<1>1. Reached(runs[r], n)  BY InTurnReached DEF Execute
<1>2. runs \in [Gens -> Run] /\ "executing" \in NodeStates \ {"waiting"}
  BY DEF IInv, TypeOK, NodeStates
<1> DEFINE y == [runs[r] EXCEPT !.node[n] = "executing"]
<1>3. runs' = [runs EXCEPT ![r] = y] /\ runs'[r] = y  BY <1>2 DEF Execute
<1>4. Moved(y, runs[r], n, "executing", runs[r].failed)  BY <1>2, MarkMoves
<1> HIDE DEF y
<1>5. status' \in [Nodes -> Statuses] /\ cache' \subseteq Nodes \X Branches
  BY DEF IInv, TypeOK, Execute, Statuses
<1> QED  BY <1>1, <1>2, <1>3, <1>4, <1>5, NodeStepKeeps DEF Execute

LEMMA KeepAsk ==
  ASSUME IInv, NEW r \in Gens, NEW n \in Nodes, Ask(r, n)
  PROVE  IInv'
<1>1. Reached(runs[r], n)  BY BusyReached DEF Ask, Busy
<1> DEFINE s == IF current = r THEN "asking" ELSE "answered"
<1>2. runs \in [Gens -> Run] /\ s \in NodeStates \ {"waiting"} /\ s # "left"
  BY DEF IInv, TypeOK, NodeStates
<1>3. s = "asking" => current = r  OBVIOUS
<1> DEFINE y == [runs[r] EXCEPT !.node[n] = s]
<1>4. runs' = [runs EXCEPT ![r] = y] /\ runs'[r] = y  BY <1>2 DEF Ask
<1> HIDE DEF s
<1>5. Moved(y, runs[r], n, s, runs[r].failed)  BY <1>2, MarkMoves
<1> HIDE DEF y
<1>6. status' \in [Nodes -> Statuses] /\ cache' \subseteq Nodes \X Branches
  BY DEF IInv, TypeOK, Ask
<1> QED  BY <1>1, <1>2, <1>3, <1>4, <1>5, <1>6, NodeStepKeeps DEF Ask

LEMMA KeepAnswer ==
  ASSUME IInv, NEW r \in Gens, NEW n \in Nodes, Answer(r, n)
  PROVE  IInv'
<1>1. Reached(runs[r], n)  BY BusyReached DEF Answer, Busy
<1>2. runs \in [Gens -> Run] /\ "answered" \in NodeStates \ {"waiting"}
  BY DEF IInv, TypeOK, NodeStates
<1> DEFINE y == [runs[r] EXCEPT !.node[n] = "answered"]
<1>3. runs' = [runs EXCEPT ![r] = y] /\ runs'[r] = y  BY <1>2 DEF Answer
<1>4. Moved(y, runs[r], n, "answered", runs[r].failed)  BY <1>2, MarkMoves
<1> HIDE DEF y
<1>5. status' \in [Nodes -> Statuses] /\ cache' \subseteq Nodes \X Branches
  BY DEF IInv, TypeOK, Answer
<1> QED  BY <1>1, <1>2, <1>3, <1>4, <1>5, NodeStepKeeps DEF Answer

LEMMA KeepReturnStale ==
  ASSUME IInv, NEW r \in Gens, NEW n \in Nodes, ReturnStale(r, n)
  PROVE  IInv'
<1>1. Reached(runs[r], n)  BY BusyReached DEF ReturnStale, Executes, Busy
<1>2. runs \in [Gens -> Run] /\ "left" \in NodeStates \ {"waiting"}
  BY DEF IInv, TypeOK, NodeStates
<1> DEFINE y == [runs[r] EXCEPT !.node[n] = "left"]
<1>3. runs' = [runs EXCEPT ![r] = y] /\ runs'[r] = y  BY <1>2 DEF ReturnStale
<1>4. Moved(y, runs[r], n, "left", runs[r].failed)  BY <1>2, MarkMoves
<1> HIDE DEF y
<1>5. status' \in [Nodes -> Statuses] /\ cache' \subseteq Nodes \X Branches
  BY DEF IInv, TypeOK, ReturnStale, Statuses
<1> QED  BY <1>1, <1>2, <1>3, <1>4, <1>5, NodeStepKeeps DEF ReturnStale

LEMMA KeepSucceed ==
  ASSUME IInv, NEW r \in Gens, NEW n \in Nodes, NEW b \in Taken(n), Succeed(r, n, b)
  PROVE  IInv'
<1>1. Reached(runs[r], n)  BY BusyReached DEF Succeed, Executes, Busy
<1> DEFINE p == runs[r].passed \cup (IF "pass" \in b THEN {n} \cap plan.gates ELSE {})
<1>2. /\ runs \in [Gens -> Run] /\ "settled" \in NodeStates \ {"waiting"} /\ b \in Branches
      /\ p \in SUBSET Nodes
  BY BranchFacts DEF IInv, TypeOK, NodeStates, Run
<1> DEFINE y == [runs[r] EXCEPT !.node[n] = "settled", !.branch[n] = b, !.passed = p]
<1>3. runs' = [runs EXCEPT ![r] = y] /\ runs'[r] = y  BY <1>2 DEF Succeed
<1> HIDE DEF p
<1>4. Moved(y, runs[r], n, "settled", runs[r].failed)  BY <1>2, SucceedMoves
<1> HIDE DEF y
<1>5. status' \in [Nodes -> Statuses]
  BY DEF IInv, TypeOK, Succeed, Statuses
<1>6. cache' \subseteq Nodes \X Branches
  BY <1>2 DEF IInv, TypeOK, Succeed
<1> QED  BY <1>1, <1>2, <1>3, <1>4, <1>5, <1>6, NodeStepKeeps DEF Succeed

LEMMA KeepFail ==
  ASSUME IInv, NEW r \in Gens, NEW n \in Nodes, Fail(r, n)
  PROVE  IInv'
<1>1. Reached(runs[r], n)  BY BusyReached DEF Fail, Executes, Busy
<1> DEFINE b == IF runs[r].options.skipFailed THEN Handles[n] ELSE {}
<1>2. runs \in [Gens -> Run] /\ "settled" \in NodeStates \ {"waiting"} /\ b \in Branches
  BY BranchFacts DEF IInv, TypeOK, NodeStates
<1> DEFINE y == [runs[r] EXCEPT !.node[n] = "settled",
                                !.failed = runs[r].failed \cup {n}, !.branch[n] = b]
<1>3. runs' = [runs EXCEPT ![r] = y] /\ runs'[r] = y  BY <1>2 DEF Fail
<1> HIDE DEF b
<1>4. Moved(y, runs[r], n, "settled", runs[r].failed \cup {n})  BY <1>2, FailMoves
<1> HIDE DEF y
<1>5. status' \in [Nodes -> Statuses] /\ cache' \subseteq Nodes \X Branches
  BY DEF IInv, TypeOK, Fail, Statuses
<1> QED  BY <1>1, <1>2, <1>3, <1>4, <1>5, NodeStepKeeps DEF Fail

-----------------------------------------------------------------------------
\* What a step has to keep, when it changes more than the record of one run.
LEMMA KeepAll ==
  ASSUME IInv, runs' \in [Gens -> Run], plan' = plan,
         current' \in 0 .. MaxGen, controller' \in 0 .. current',
         aborted' \subseteq Gens, running' \in BOOLEAN,
         status' \in [Nodes -> Statuses], cache' \subseteq Nodes \X Branches,
         \A q \in Gens : Inside(runs'[q]),
         \A q \in Gens : Beside(q, runs'[q], current', aborted', controller', running')
  PROVE  IInv'
<1>1. \A q \in Gens : Inside(runs[q])'  BY DEF Inside, Stage
<1>2. \A q \in Gens : Beside(q, runs[q], current, aborted, controller, running)'
  BY DEF Beside, NotStarted
<1>3. TypeOK'  BY ConstantsAssumption DEF TypeOK, Gens, NoRun
<1> QED  BY <1>1, <1>2, <1>3 DEF IInv

\* The nodes of a stage that is over are over, and no node of the run is busy.
LEMMA StageOverFacts ==
  ASSUME IInv, NEW r \in Gens, StageOver(r)
  PROVE  /\ runs[r] \in Run /\ Inside(runs[r]) /\ runs[r].phase = "stage"
         /\ runs[r].result = "none" /\ r <= current
         /\ runs[r].stage \in DOMAIN plan.clusters
         /\ \A n \in Nodes : ~ Busy(runs[r].node[n])
         /\ \A i \in DOMAIN plan.clusters :
              i <= runs[r].stage => \A n \in Stage(i) : Over(runs[r].node[n])
<1>1. runs[r] \in Run /\ Inside(runs[r])  BY DEF IInv, TypeOK
<1>2. runs[r].phase = "stage"  BY DEF StageOver
<1>3. r <= current
  BY <1>2, NotStartedFacts DEF IInv, TypeOK, Beside, Gens
<1>4. \A n \in Nodes : ~ Busy(runs[r].node[n])
  BY <1>1 DEF StageOver, Inside, Busy, Over
<1>5. plan.clusters \in Seq(SUBSET SUBSET Nodes)  BY PlansAssumption DEF IInv
<1>6. \A i \in DOMAIN plan.clusters :
        i <= runs[r].stage => \A n \in Stage(i) : Over(runs[r].node[n])
  BY <1>1, <1>2, <1>5 DEF StageOver, Inside
<1> QED  BY <1>1, <1>2, <1>3, <1>4, <1>6 DEF Inside

LEMMA KeepShowPartial ==
  ASSUME IInv, NEW r \in Gens, NEW n \in Nodes, ShowPartial(r, n)
  PROVE  IInv'
<1>1. runs' = runs /\ UNCHANGED <<plan, current, controller, aborted, running, cache>>
  BY DEF ShowPartial
<1>2. status' \in [Nodes -> Statuses]  BY DEF IInv, TypeOK, ShowPartial, Statuses
<1> QED  BY <1>1, <1>2, Keep DEF IInv, TypeOK

LEMMA KeepNextStage ==
  ASSUME IInv, NEW r \in Gens, NextStage(r)
  PROVE  IInv'
<1> DEFINE x == runs[r]
           y == [runs[r] EXCEPT !.stage = runs[r].stage + 1]
<1>1. StageOver(r) /\ ~ CutShort(r) /\ ~ LastStage(r)  BY DEF NextStage
<1>2. plan.clusters \in Seq(SUBSET SUBSET Nodes)  BY PlansAssumption DEF IInv
<1>3. runs \in [Gens -> Run]  BY DEF IInv, TypeOK
<1>4. runs' = [runs EXCEPT ![r] = y] /\ runs'[r] = y  BY <1>3 DEF NextStage
<1>5. /\ y \in Run /\ y.stage = x.stage + 1 /\ y.node = x.node /\ y.phase = x.phase
      /\ y.failed = x.failed /\ y.result = x.result /\ y.options = x.options
  BY <1>3 DEF Run
<1> HIDE DEF x, y
<1>6. /\ x \in Run /\ Inside(x) /\ x.phase = "stage" /\ x.result = "none"
      /\ x.stage \in DOMAIN plan.clusters /\ r <= current
      /\ \A n \in Nodes : ~ Busy(x.node[n])
      /\ \A i \in DOMAIN plan.clusters :
           i <= x.stage => \A n \in Stage(i) : Over(x.node[n])
  BY <1>1, StageOverFacts DEF x
<1>7. x.stage + 1 \in DOMAIN plan.clusters
  BY <1>1, <1>2, <1>6 DEF LastStage, x
<1>8. \A i \in DOMAIN plan.clusters : /\ i < x.stage + 1 => i <= x.stage
                                      /\ i > x.stage + 1 => i > x.stage
  BY <1>2, <1>6
<1>9. \A i \in DOMAIN plan.clusters : \A n \in Stage(i) :
         /\ i < y.stage => Over(y.node[n])
         /\ i > y.stage => y.node[n] = "waiting"
  <2> SUFFICES ASSUME NEW i \in DOMAIN plan.clusters, NEW n \in Stage(i)
               PROVE  /\ i < x.stage + 1 => Over(x.node[n])
                      /\ i > x.stage + 1 => x.node[n] = "waiting"
    BY <1>5
  <2>1. i > x.stage => x.node[n] = "waiting"  BY <1>6 DEF Inside
  <2> QED  BY <2>1, <1>6, <1>8
<1>10. \A n \in Stage(y.stage) : y.node[n] = "waiting"
  <2>1. x.stage + 1 > x.stage  BY <1>2, <1>6
  <2> QED  BY <2>1, <1>5, <1>6, <1>7 DEF Inside
<1>11. \A c \in plan.clusters[y.stage] : \A n \in c : y.node[n] = "waiting"
  BY <1>10 DEF Stage
<1>12. y.options.failFast => y.failed = {}
  BY <1>1, <1>5 DEF CutShort, x
<1>13. Inside(y)
  BY <1>5, <1>6, <1>7, <1>9, <1>11, <1>12 DEF Inside
<1>14. Beside(r, y, current, aborted, controller, running)
  BY <1>5, <1>6 DEF IInv, TypeOK, Beside, Gens, x
<1>15. runs' \in [Gens -> Run] /\ \A q \in Gens \ {r} : runs'[q] = runs[q]
  BY <1>3, <1>4, <1>5
<1> QED  BY <1>4, <1>13, <1>14, <1>15, Keep DEF NextStage, IInv, TypeOK

\* The record of a run in its next round.
Restarted(y, x, i, g) ==
  /\ y \in Run /\ y.stage = i /\ y.node = g /\ y.phase = x.phase
  /\ y.failed = x.failed /\ y.result = x.result /\ y.options = x.options

LEMMA RoundMoves ==
  ASSUME NEW x \in Run, NEW k \in 0 .. MaxRounds, NEW i \in Nat \ {0},
         NEW g \in [Nodes -> NodeStates], NEW p \in SUBSET Nodes, NEW f \in SUBSET Nodes
  PROVE  Restarted([x EXCEPT !.round = k, !.stage = i, !.node = g, !.passed = p, !.forced = f],
                   x, i, g)
BY DEF Run, Restarted

LEMMA KeepNextRound ==
  ASSUME IInv, NEW r \in Gens, NextRound(r)
  PROVE  IInv'
<1> DEFINE y == [runs[r] EXCEPT !.round = runs[r].round + 1, !.stage = 1, !.node = Fresh,
                                !.passed = {}, !.forced = runs[r].forced \cup plan.redone]
<1>1. StageOver(r) /\ ~ CutShort(r) /\ Again(r)  BY DEF NextRound
<1>2. plan.redone \subseteq Nodes /\ plan.clusters \in Seq(SUBSET SUBSET Nodes)
  BY PlansAssumption DEF IInv
<1>3. runs \in [Gens -> Run]  BY DEF IInv, TypeOK
<1>4. runs' = [runs EXCEPT ![r] = y] /\ runs'[r] = y  BY <1>3 DEF NextRound
<1>5. runs[r].round + 1 \in 0 .. MaxRounds
  BY <1>1, <1>3, ConstantsAssumption DEF Again, Run
<1>6. Fresh \in [Nodes -> NodeStates] /\ runs[r].forced \cup plan.redone \in SUBSET Nodes
  BY <1>2, <1>3 DEF Fresh, NodeStates, Run
<1>7. Restarted(y, runs[r], 1, Fresh)
  <2> DEFINE k == runs[r].round + 1
             f == runs[r].forced \cup plan.redone
             p == {}
             i == 1
  <2>1. /\ runs[r] \in Run /\ k \in 0 .. MaxRounds /\ f \in SUBSET Nodes
        /\ p \in SUBSET Nodes /\ i \in Nat \ {0}
    BY <1>3, <1>5, <1>6
  <2> HIDE DEF k, f, p, i
  <2>2. Restarted([runs[r] EXCEPT !.round = k, !.stage = i, !.node = Fresh,
                                  !.passed = p, !.forced = f], runs[r], i, Fresh)
    BY <1>6, <2>1, RoundMoves
  <2> QED  BY <2>2 DEF k, f, p, i
<1> HIDE DEF y
<1>8. /\ runs[r].phase = "stage" /\ runs[r].result = "none" /\ r <= current
      /\ runs[r].stage \in DOMAIN plan.clusters
  BY <1>1, StageOverFacts
<1>9. \A n \in Nodes : y.node[n] = "waiting"  BY <1>7 DEF Fresh, Restarted
<1>10. 1 \in DOMAIN plan.clusters /\ \A i \in DOMAIN plan.clusters : ~ (i < 1)
  BY <1>2, <1>8
<1>11. \A i \in DOMAIN plan.clusters : Stage(i) \subseteq Nodes  BY <1>2 DEF Stage
<1>12. \A c \in plan.clusters[1] : \A n \in c : y.node[n] = "waiting"
  BY <1>2, <1>9, <1>10
<1>13. y.options.failFast => y.failed = {}  BY <1>1, <1>7 DEF CutShort, Restarted
<1>14. Inside(y)
  BY <1>7, <1>8, <1>9, <1>10, <1>11, <1>12, <1>13 DEF Inside, Busy, Restarted
<1>15. Beside(r, y, current, aborted, controller, running)
  BY <1>7, <1>8, <1>9 DEF IInv, TypeOK, Beside, Gens, Restarted
<1>16. runs' \in [Gens -> Run] /\ \A q \in Gens \ {r} : runs'[q] = runs[q]
  BY <1>3, <1>4, <1>7 DEF Restarted
<1>17. status' \in [Nodes -> Statuses] /\ cache' \subseteq Nodes \X Branches
  BY DEF NextRound, IInv, TypeOK
<1> QED  BY <1>4, <1>14, <1>15, <1>16, <1>17, Keep DEF NextRound

-----------------------------------------------------------------------------
\* Two records of a run that differ by its phase and result.
Phased(y, x, ph, res) ==
  /\ y \in Run /\ y.phase = ph /\ y.result = res /\ y.stage = x.stage
  /\ y.node = x.node /\ y.failed = x.failed /\ y.options = x.options

LEMMA PhaseMoves ==
  ASSUME NEW x \in Run, NEW ph \in Phases
  PROVE  Phased([x EXCEPT !.phase = ph], x, ph, x.result)
BY DEF Run, Phased

LEMMA ResultMoves ==
  ASSUME NEW x \in Run, NEW ph \in Phases, NEW res \in Results
  PROVE  Phased([x EXCEPT !.phase = ph, !.result = res], x, ph, res)
BY DEF Run, Phased

LEMMA KeepFinalize ==
  ASSUME IInv, NEW r \in Gens, Finalize(r)
  PROVE  IInv'
<1> DEFINE x == runs[r]
           res == Result(r)
           y == [runs[r] EXCEPT !.phase = "persisting", !.result = res]
<1>1. /\ StageOver(r) /\ current = r
      /\ Stale(r) \/ CutShort(r) \/ LastStage(r)
      /\ aborted' = IF CutShort(r) THEN aborted \cup {r} ELSE aborted
      /\ UNCHANGED <<plan, current, controller, running, status, cache>>
  BY DEF Finalize
<1>2. runs \in [Gens -> Run] /\ "persisting" \in Phases /\ res \in Results
  BY DEF IInv, TypeOK, Phases, Results, Result
<1>3. runs' = [runs EXCEPT ![r] = y] /\ runs'[r] = y  BY <1>2 DEF Finalize
<1>4. Phased(y, x, "persisting", res)
  <2> HIDE DEF res
  <2> QED  BY <1>2, ResultMoves
<1> HIDE DEF x, y, res
<1>5. /\ Inside(x) /\ x.phase = "stage"
      /\ \A n \in Nodes : ~ Busy(x.node[n])
      /\ \A i \in DOMAIN plan.clusters :
           i <= x.stage => \A n \in Stage(i) : Over(x.node[n])
  BY <1>1, StageOverFacts DEF x
<1>6. Beside(r, x, current, aborted, controller, running)  BY DEF IInv, x
<1>7. res = "success" =>
        /\ x.failed = {}
        /\ \A i \in DOMAIN plan.clusters : \A n \in Stage(i) : x.node[n] = "settled"
  <2> SUFFICES ASSUME res = "success"
               PROVE  /\ x.failed = {}
                      /\ \A i \in DOMAIN plan.clusters : \A n \in Stage(i) : x.node[n] = "settled"
    OBVIOUS
  <2>1. x.failed = {} /\ r \notin aborted  BY DEF res, Result, x
  <2>2. LastStage(r)  BY <1>1, <2>1 DEF CutShort, Stale, x
  <2>3. plan.clusters \in Seq(SUBSET SUBSET Nodes)  BY PlansAssumption DEF IInv
  <2>4. \A i \in DOMAIN plan.clusters : i <= x.stage  BY <2>2, <2>3 DEF LastStage, x
  <2>5. \A i \in DOMAIN plan.clusters : Stage(i) \subseteq Nodes  BY <2>3 DEF Stage
  <2>6. \A n \in Nodes : x.node[n] # "left"  BY <1>1, <1>6, <2>1 DEF Beside
  <2> QED  BY <1>5, <2>1, <2>4, <2>5, <2>6 DEF Over
<1>8. Inside(y)  BY <1>4, <1>5, <1>7 DEF Phased, Inside
<1>9. r \in 0 .. MaxGen  BY <1>1 DEF IInv, TypeOK
<1>10. Beside(r, y, current, aborted', controller, running)
  BY <1>1, <1>4, <1>5, <1>6, <1>9 DEF Phased, Beside
<1>11. \A q \in Gens \ {r} : runs'[q] = runs[q]  BY <1>2, <1>3
<1>12. runs' \in [Gens -> Run]  BY <1>2, <1>3, <1>4 DEF Phased
<1>13. \A q \in Gens : Inside(runs'[q])  BY <1>3, <1>8, <1>11 DEF IInv
<1>14. \A q \in Gens \ {r} :
         Beside(q, runs'[q], current, aborted', controller, running)
  <2> SUFFICES ASSUME NEW q \in Gens \ {r}
               PROVE  Beside(q, runs[q], current, aborted', controller, running)
    BY <1>11
  <2>1. Beside(q, runs[q], current, aborted, controller, running)  BY DEF IInv
  <2>2. q \in aborted' <=> q \in aborted  BY <1>1
  <2> QED  BY <2>1, <2>2 DEF Beside
<1>15. aborted' \subseteq Gens /\ current \in 0 .. MaxGen /\ controller \in 0 .. current
       /\ running \in BOOLEAN /\ status \in [Nodes -> Statuses]
       /\ cache \subseteq Nodes \X Branches
  BY <1>1 DEF IInv, TypeOK
<1>16. \A q \in Gens : Beside(q, runs'[q], current', aborted', controller', running')
  BY <1>1, <1>3, <1>10, <1>14
<1> QED  BY <1>1, <1>12, <1>13, <1>15, <1>16, KeepAll

LEMMA KeepFinalizeStale ==
  ASSUME IInv, NEW r \in Gens, FinalizeStale(r)
  PROVE  IInv'
<1> DEFINE x == runs[r]
           y == [runs[r] EXCEPT !.phase = "cleaning"]
<1>1. StageOver(r) /\ current # r  BY DEF FinalizeStale
<1>2. runs \in [Gens -> Run] /\ "cleaning" \in Phases  BY DEF IInv, TypeOK, Phases
<1>3. runs' = [runs EXCEPT ![r] = y] /\ runs'[r] = y  BY <1>2 DEF FinalizeStale
<1>4. Phased(y, x, "cleaning", x.result)  BY <1>2, PhaseMoves
<1> HIDE DEF x, y
<1>5. /\ x.result = "none" /\ r <= current /\ \A n \in Nodes : ~ Busy(x.node[n])
  BY <1>1, StageOverFacts DEF x
<1>6. Inside(y)  BY <1>4, <1>5 DEF Phased, Inside
<1>7. Beside(r, y, current, aborted, controller, running)
  BY <1>1, <1>4, <1>5 DEF Phased, Beside, IInv, TypeOK, Gens, Busy
<1>8. runs' \in [Gens -> Run] /\ \A q \in Gens \ {r} : runs'[q] = runs[q]
  BY <1>2, <1>3, <1>4 DEF Phased
<1> QED  BY <1>3, <1>6, <1>7, <1>8, Keep DEF FinalizeStale, IInv, TypeOK

LEMMA KeepRelease ==
  ASSUME IInv, NEW r \in Gens, Release(r)
  PROVE  IInv'
<1> DEFINE x == runs[r]
           y == [runs[r] EXCEPT !.phase = "cleaning"]
<1>1. /\ x.phase = "persisting"
      /\ running' = (running /\ current # r)
      /\ controller' = IF current = r THEN NoRun ELSE controller
      /\ UNCHANGED <<plan, current, aborted, status, cache>>
  BY DEF Release
<1>2. runs \in [Gens -> Run] /\ "cleaning" \in Phases  BY DEF IInv, TypeOK, Phases
<1>3. runs' = [runs EXCEPT ![r] = y] /\ runs'[r] = y  BY <1>2 DEF Release
<1>4. Phased(y, x, "cleaning", x.result)  BY <1>2, PhaseMoves
<1>5. Inside(x) /\ Beside(r, x, current, aborted, controller, running)  BY DEF IInv
<1> HIDE DEF x, y
<1>6. Inside(y)  BY <1>1, <1>4, <1>5 DEF Phased, Inside
<1>7. ~ (r > current)  BY <1>1, <1>5, NotStartedFacts DEF Beside
<1>8. Beside(r, y, current', aborted', controller', running')
  BY <1>1, <1>4, <1>5, <1>7 DEF Phased, Beside
<1>9. runs' \in [Gens -> Run] /\ \A q \in Gens \ {r} : runs'[q] = runs[q]
  BY <1>2, <1>3, <1>4 DEF Phased
<1>10. \A q \in Gens : Inside(runs'[q])  BY <1>3, <1>6, <1>9 DEF IInv
<1>11. \A q \in Gens : Beside(q, runs'[q], current', aborted', controller', running')
  <2> SUFFICES ASSUME NEW q \in Gens \ {r}
               PROVE  Beside(q, runs[q], current', aborted', controller', running')
    BY <1>3, <1>8, <1>9
  <2>1. Beside(q, runs[q], current, aborted, controller, running)  BY DEF IInv
  <2> QED  BY <1>1, <2>1 DEF Beside
<1>12. current' \in 0 .. MaxGen /\ controller' \in 0 .. current' /\ running' \in BOOLEAN
  BY <1>1 DEF IInv, TypeOK, NoRun
<1> QED  BY <1>1, <1>9, <1>10, <1>11, <1>12, KeepAll DEF IInv, TypeOK

LEMMA KeepCleanUp ==
  ASSUME IInv, NEW r \in Gens, CleanUp(r)
  PROVE  IInv'
<1> DEFINE y == [NotStarted EXCEPT !.phase = "ended"]
<1>1. runs \in [Gens -> Run] /\ "ended" \in Phases  BY DEF IInv, TypeOK, Phases
<1>2. runs' = [runs EXCEPT ![r] = y] /\ runs'[r] = y  BY <1>1 DEF CleanUp
<1>3. Phased(y, NotStarted, "ended", "none")  BY <1>1, NotStartedFacts, PhaseMoves
<1> HIDE DEF y
<1>4. Inside(y)
  BY <1>1, <1>3, NotStartedFacts, IdleInside DEF Phased
<1>5. ~ (r > current)  BY NotStartedFacts DEF CleanUp, IInv, Beside
<1>6. \A n \in Nodes : y.node[n] = "waiting"  BY <1>3, NotStartedFacts DEF Phased, Fresh
<1>7. Beside(r, y, current, aborted, controller, running)
  BY <1>3, <1>5, <1>6 DEF Phased, Beside
<1>8. runs' \in [Gens -> Run] /\ \A q \in Gens \ {r} : runs'[q] = runs[q]
  BY <1>1, <1>2, <1>3 DEF Phased
<1> QED  BY <1>2, <1>4, <1>7, <1>8, Keep DEF CleanUp, IInv, TypeOK

-----------------------------------------------------------------------------
\* A record of a run as it is before its first stage.
Ready(x) == x \in Run /\ x.node = Fresh /\ x.failed = {} /\ x.stage = 1 /\ x.result = "none"

\* A run that gets through its awaits keeps the invariant, whatever generation
\* is then the current one.
LEMMA LaunchKeeps ==
  ASSUME IInv, NEW r \in Gens, NEW rs \in [Gens -> Run], NEW held, NEW stale \in BOOLEAN,
         Launch(r, rs, current', held, stale),
         plan' = plan, current' \in 0 .. MaxGen, aborted' \subseteq Gens,
         held \in 0 .. current', r <= current', current' = r => held = r,
         ~ stale => r \notin aborted',
         Ready(rs[r]),
         \A q \in Gens \ {r} : Inside(rs[q]),
         \A q \in Gens \ {r} : Beside(q, rs[q], current', aborted', held, running)
  PROVE  IInv'
<1>1. /\ running \in BOOLEAN /\ status \in [Nodes -> Statuses]
      /\ cache \subseteq Nodes \X Branches /\ plan \in Plans
  BY DEF IInv, TypeOK
<1> DEFINE ph == IF plan.cyclic = {} /\ ~ stale THEN "stage" ELSE "cleaning"
           y == [rs[r] EXCEPT !.phase = ph]
<1>2. runs' = [rs EXCEPT ![r] = y] /\ runs'[r] = y  BY DEF Launch
<1>3. ph \in Phases /\ ph \in {"stage", "cleaning"}  BY DEF Phases
<1>4. Phased(y, rs[r], ph, "none")
  <2> HIDE DEF ph
  <2> QED  BY <1>3, PhaseMoves DEF Ready
<1>5. ph = "stage" => plan.cyclic = {} /\ ~ stale  OBVIOUS
<1> HIDE DEF y, ph
<1>6. ph = "stage" =>
        /\ 1 \in DOMAIN plan.clusters
        /\ \A i \in DOMAIN plan.clusters : ~ (i < 1) /\ Stage(i) \subseteq Nodes
        /\ \A c \in plan.clusters[1] : c \subseteq Nodes
  <2> SUFFICES ASSUME ph = "stage"
               PROVE  /\ 1 \in DOMAIN plan.clusters
                      /\ \A i \in DOMAIN plan.clusters : ~ (i < 1) /\ Stage(i) \subseteq Nodes
                      /\ \A c \in plan.clusters[1] : c \subseteq Nodes
    OBVIOUS
  <2>1. plan.clusters \in Seq(SUBSET SUBSET Nodes) /\ plan.clusters # << >>
    BY <1>1, <1>5, PlansAssumption
  <2> QED  BY <2>1 DEF Stage
<1>7. y.node = Fresh /\ \A n \in Nodes : y.node[n] = "waiting"
  BY <1>4 DEF Phased, Ready, Fresh
<1>8. Inside(y)
  BY <1>3, <1>4, <1>6, <1>7 DEF Phased, Ready, Inside, Busy
<1>9. controller' \in {held, NoRun} /\ (plan.cyclic = {} => controller' = held /\ running' = TRUE)
  BY DEF Launch
<1>10. Beside(r, y, current', aborted', controller', running')
  <2>1. ~ (r > current')  BY DEF Gens
  <2>2. y.phase \in {"stage", "cleaning"}  BY <1>3, <1>4 DEF Phased
  <2>3. y.phase = "stage" => /\ controller' = held /\ running' = TRUE
                            /\ r \notin aborted'
    BY <1>4, <1>5, <1>9 DEF Phased
  <2> QED  BY <1>7, <2>1, <2>2, <2>3 DEF Beside
<1>11. \A q \in Gens \ {r} : runs'[q] = rs[q]  BY <1>2
<1>12. \A q \in Gens : Inside(runs'[q])  BY <1>2, <1>8, <1>11
<1>13. \A q \in Gens : Beside(q, runs'[q], current', aborted', controller', running')
  <2> SUFFICES ASSUME NEW q \in Gens \ {r}
               PROVE  Beside(q, rs[q], current', aborted', controller', running')
    BY <1>2, <1>10, <1>11
  <2>1. Beside(q, rs[q], current', aborted', held, running)  OBVIOUS
  <2>2. current' # r => controller' = held /\ (running => running')
    BY <1>1 DEF Launch
  <2> QED  BY <2>1, <2>2 DEF Beside
<1>14. runs' \in [Gens -> Run]  BY <1>2, <1>4 DEF Phased
<1>15. controller' \in 0 .. current' /\ running' \in BOOLEAN
  <2>1. controller' \in 0 .. current'  BY <1>9 DEF NoRun
  <2>2. running' \in BOOLEAN
    <3>1. CASE plan.cyclic # {}  BY <3>1 DEF Launch
    <3>2. CASE plan.cyclic = {}  BY <3>2, <1>9
    <3> QED  BY <3>1, <3>2
  <2> QED  BY <2>1, <2>2
<1>16. status' \in [Nodes -> Statuses] /\ cache' \subseteq Nodes \X Branches
  BY <1>1 DEF Launch, Statuses
<1> QED  BY <1>12, <1>13, <1>14, <1>15, <1>16, KeepAll

LEMMA KeepWorktreeReady ==
  ASSUME IInv, NEW r \in Gens, WorktreeReady(r)
  PROVE  IInv'
<1>1. /\ runs \in [Gens -> Run] /\ current \in 0 .. MaxGen /\ aborted \subseteq Gens
      /\ controller \in 0 .. current /\ runs[r].phase = "worktree"
  BY DEF IInv, TypeOK, WorktreeReady
<1>2. Inside(runs[r]) /\ Beside(r, runs[r], current, aborted, controller, running)
  BY DEF IInv
<1>3. Ready(runs[r])  BY <1>1, <1>2 DEF Ready, Inside
<1>4. ~ (r > current)  BY <1>1, <1>2, NotStartedFacts DEF Beside
<1>5. r <= current  BY <1>1, <1>4 DEF Gens
<1>6. current = r => controller = r  BY <1>1, <1>2 DEF Beside
<1>7. /\ Launch(r, runs, current', controller, Stale(r))
      /\ plan' = plan /\ current' = current /\ aborted' = aborted
  BY DEF WorktreeReady
<1>8. Stale(r) \in BOOLEAN /\ (~ Stale(r) => r \notin aborted)  BY DEF Stale
<1>9. \A q \in Gens \ {r} : /\ Inside(runs[q])
                            /\ Beside(q, runs[q], current', aborted', controller, running)
  BY <1>7 DEF IInv
<1> QED  BY <1>1, <1>3, <1>5, <1>6, <1>7, <1>8, <1>9, LaunchKeeps

-----------------------------------------------------------------------------
\* The requests of a run are answered: the record stays within Inside, and no
\* node waits for the user.
LEMMA AnsweredInside ==
  ASSUME NEW x \in Run, Inside(x), NEW y \in Run,
         y.node = [n \in Nodes |-> IF x.node[n] = "asking" THEN "answered" ELSE x.node[n]],
         y.phase = x.phase, y.result = x.result, y.stage = x.stage,
         y.failed = x.failed, y.options = x.options, plan \in Plans
  PROVE  /\ Inside(y)
         /\ \A n \in Nodes : y.node[n] # "asking"
         /\ \A n \in Nodes : y.node[n] = "left" => x.node[n] = "left"
<1>1. \A n \in Nodes : /\ Busy(y.node[n]) <=> Busy(x.node[n])
                       /\ Over(y.node[n]) <=> Over(x.node[n])
                       /\ y.node[n] = "waiting" <=> x.node[n] = "waiting"
                       /\ x.node[n] = "settled" => y.node[n] = "settled"
                       /\ y.node[n] # "asking"
                       /\ y.node[n] = "left" => x.node[n] = "left"
  BY DEF Busy, Over
<1>2. plan.clusters \in Seq(SUBSET SUBSET Nodes)  BY PlansAssumption
<1>3. \A i \in DOMAIN plan.clusters : Stage(i) \subseteq Nodes  BY <1>2 DEF Stage
<1>4. \A i \in DOMAIN plan.clusters : \A c \in plan.clusters[i] : c \subseteq Nodes
  BY <1>2
<1>5. x.phase \in {"none", "worktree"} => y.node = Fresh
  <2> SUFFICES ASSUME x.phase \in {"none", "worktree"}  PROVE  y.node = Fresh
    OBVIOUS
  <2>1. \A n \in Nodes : x.node[n] = "waiting"  BY DEF Inside, Fresh
  <2> QED  BY <2>1 DEF Fresh
<1>6. \A n \in Nodes : Busy(y.node[n]) => y.phase = "stage" /\ n \in Stage(y.stage)
  BY <1>1 DEF Inside
<1>7. y.phase = "stage" =>
        /\ y.stage \in DOMAIN plan.clusters
        /\ \A i \in DOMAIN plan.clusters : \A n \in Stage(i) :
             /\ i < y.stage => Over(y.node[n])
             /\ i > y.stage => y.node[n] = "waiting"
        /\ y.options.failFast /\ y.failed # {} => y.failed \cap Stage(y.stage) # {}
  BY <1>1, <1>3 DEF Inside
<1>8. y.phase = "stage" =>
        \A c \in plan.clusters[y.stage] : \A m, n \in c :
          plan.rank[m] < plan.rank[n] /\ y.node[n] # "waiting" => Over(y.node[m])
  BY <1>1, <1>4 DEF Inside
<1>9. y.result = "success" =>
        /\ y.failed = {}
        /\ \A i \in DOMAIN plan.clusters : \A n \in Stage(i) : y.node[n] = "settled"
  BY <1>1, <1>3 DEF Inside
<1>10. Inside(y)  BY <1>5, <1>6, <1>7, <1>8, <1>9 DEF Inside
<1> QED  BY <1>1, <1>10

\* The records after the requests of the current run are answered, as they are
\* for the next generation.
LEMMA CancelledFacts ==
  ASSUME IInv
  PROVE  /\ Cancelled(runs, current) \in [Gens -> Run]
         /\ \A q \in Gens :
              /\ Inside(Cancelled(runs, current)[q])
              /\ \A n \in Nodes : Cancelled(runs, current)[q].node[n] # "asking"
              /\ q > current => Cancelled(runs, current)[q] = NotStarted
<1>1. runs \in [Gens -> Run] /\ current \in 0 .. MaxGen /\ plan \in Plans
  BY DEF IInv, TypeOK
<1>2. \A q \in Gens : /\ Inside(runs[q])
                      /\ Beside(q, runs[q], current, aborted, controller, running)
  BY DEF IInv
<1>3. \A q \in Gens \ {current} : \A n \in Nodes : runs[q].node[n] # "asking"
  BY <1>2 DEF Beside
<1>4. \A q \in Gens : q > current => runs[q] = NotStarted
  BY <1>2 DEF Beside
<1>5. CASE current = NoRun
  BY <1>1, <1>2, <1>3, <1>4, <1>5 DEF Cancelled, NoRun, Gens
<1>6. CASE current # NoRun
  <2> DEFINE x == runs[current]
             y == [x EXCEPT !.node = [n \in Nodes |-> IF x.node[n] = "asking" THEN "answered"
                                                      ELSE x.node[n]]]
  <2>1. current \in Gens /\ ~ (current > current)  BY <1>1, <1>6 DEF NoRun, Gens
  <2>2. Cancelled(runs, current) = [runs EXCEPT ![current] = y]
    BY <1>1, <1>6, <2>1 DEF Cancelled
  <2>3. x \in Run /\ Inside(x)  BY <1>1, <1>2, <2>1
  <2>4. [n \in Nodes |-> IF x.node[n] = "asking" THEN "answered" ELSE x.node[n]]
          \in [Nodes -> NodeStates]
    BY <2>3 DEF Run, NodeStates
  <2>5. /\ y \in Run
        /\ y.node = [n \in Nodes |-> IF x.node[n] = "asking" THEN "answered" ELSE x.node[n]]
        /\ y.phase = x.phase /\ y.result = x.result /\ y.stage = x.stage
        /\ y.failed = x.failed /\ y.options = x.options
    BY <2>3, <2>4 DEF Run
  <2> HIDE DEF x, y
  <2>6. Inside(y) /\ \A n \in Nodes : y.node[n] # "asking"
    BY <1>1, <2>3, <2>5, AnsweredInside
  <2> HIDE <2>2
  <2> DEFINE cs == [runs EXCEPT ![current] = y]
  <2>7. cs \in [Gens -> Run] /\ cs[current] = y /\ \A q \in Gens \ {current} : cs[q] = runs[q]
    BY <1>1, <2>1, <2>5
  <2> HIDE DEF cs
  <2>8. \A q \in Gens : /\ Inside(cs[q])
                        /\ \A n \in Nodes : cs[q].node[n] # "asking"
                        /\ q > current => cs[q] = NotStarted
    <3> SUFFICES ASSUME NEW q \in Gens
                 PROVE  /\ Inside(cs[q])
                        /\ \A n \in Nodes : cs[q].node[n] # "asking"
                        /\ q > current => cs[q] = NotStarted
      OBVIOUS
    <3>1. CASE q = current  BY <3>1, <2>1, <2>6, <2>7
    <3>2. CASE q # current  BY <3>2, <1>2, <1>3, <1>4, <2>7
    <3> QED  BY <3>1, <3>2
  <2> QED  BY <2>2, <2>7, <2>8 DEF cs
<1> QED  BY <1>5, <1>6

\* Without the running flag nobody waits for the user, so that a start that does
\* not replace a run finds the records as after a stop.
LEMMA UnshownFacts ==
  ASSUME IInv, ~ running
  PROVE  \A q \in Gens : /\ Inside(runs[q])
                         /\ \A n \in Nodes : runs[q].node[n] # "asking"
                         /\ q > current => runs[q] = NotStarted
<1> SUFFICES ASSUME NEW q \in Gens
             PROVE  /\ Inside(runs[q])
                    /\ \A n \in Nodes : runs[q].node[n] # "asking"
                    /\ q > current => runs[q] = NotStarted
  OBVIOUS
<1>1. Inside(runs[q]) /\ Beside(q, runs[q], current, aborted, controller, running)
  BY DEF IInv
<1> QED  BY <1>1 DEF Inside, Beside, Busy

\* Records without open requests fit in with the next generation.
LEMMA NextGeneration ==
  ASSUME IInv, NEW rs, NEW q \in Gens, NEW ab, NEW h, NEW shown,
         ab \subseteq aborted \cup ({controller} \ {NoRun}),
         q > current => rs[q] = NotStarted,
         \A n \in Nodes : rs[q].node[n] # "asking"
  PROVE  /\ q # current + 1 => Beside(q, rs[q], current + 1, ab, h, shown)
         /\ q = current + 1 => q \notin ab
<1>1. current \in 0 .. MaxGen /\ controller \in 0 .. current /\ aborted \subseteq Gens
  BY DEF IInv, TypeOK
<1>2. \A p \in Gens : p > current => p \notin ab
  <2> SUFFICES ASSUME NEW p \in Gens, p > current  PROVE  p \notin ab
    OBVIOUS
  <2>1. p \notin aborted  BY DEF IInv, Beside
  <2>2. p # controller  BY <1>1 DEF Gens
  <2> QED  BY <2>1, <2>2
<1>3. q > current + 1 => q > current  BY <1>1 DEF Gens
<1>4. q = current + 1 => q > current  BY <1>1 DEF Gens
<1>5. ASSUME q # current + 1
      PROVE  Beside(q, rs[q], current + 1, ab, h, shown)
  BY <1>2, <1>3, <1>5 DEF Beside
<1> QED  BY <1>2, <1>4, <1>5

LEMMA KeepStop ==
  ASSUME IInv, Stop
  PROVE  IInv'
<1>1. /\ current + 1 \in Gens /\ current' = current + 1 /\ controller' = NoRun
      /\ running' = FALSE /\ aborted' = aborted \cup ({controller} \ {NoRun})
      /\ status' = [n \in Nodes |-> "idle"] /\ runs' = Cancelled(runs, current)
      /\ UNCHANGED <<plan, cache>>
  BY DEF Stop
<1>2. /\ current \in 0 .. MaxGen /\ controller \in Gens \cup {NoRun}
      /\ aborted \subseteq Gens /\ cache \subseteq Nodes \X Branches
  BY DEF IInv, TypeOK
<1>3. /\ runs' \in [Gens -> Run]
      /\ \A q \in Gens : /\ Inside(runs'[q])
                         /\ \A n \in Nodes : runs'[q].node[n] # "asking"
                         /\ q > current => runs'[q] = NotStarted
  BY <1>1, CancelledFacts
<1>4. \A q \in Gens : Beside(q, runs'[q], current', aborted', controller', running')
  <2> SUFFICES ASSUME NEW q \in Gens
               PROVE  Beside(q, runs'[q], current + 1, aborted', controller', running')
    BY <1>1
  <2>1. /\ q # current + 1 => Beside(q, runs'[q], current + 1, aborted', controller', running')
        /\ q = current + 1 => q \notin aborted'
    BY <1>1, <1>3, NextGeneration
  <2>2. CASE q = current + 1
    <3>1. runs'[q] = NotStarted  BY <1>2, <1>3, <2>2
    <3>2. ~ (q > current + 1) /\ q \notin aborted'  BY <1>2, <2>1, <2>2
    <3>3. \A n \in Nodes : runs'[q].node[n] = "waiting"
      BY <3>1, NotStartedFacts DEF Fresh
    <3> QED  BY <3>1, <3>2, <3>3, NotStartedFacts DEF Beside
  <2> QED  BY <2>1, <2>2
<1>5. current' \in 0 .. MaxGen /\ controller' \in 0 .. current' /\ aborted' \subseteq Gens
  BY <1>1, <1>2 DEF Gens, NoRun
<1>6. running' \in BOOLEAN /\ status' \in [Nodes -> Statuses] /\ cache' \subseteq Nodes \X Branches
  BY <1>1, <1>2 DEF Statuses
<1> QED  BY <1>1, <1>3, <1>4, <1>5, <1>6, KeepAll

\* A run that starts is ready, with the options it was given.
LEMMA ChosenReady ==
  ASSUME NEW o \in Options
  PROVE  Ready([NotStarted EXCEPT !.options = o])
<1>1. /\ [NotStarted EXCEPT !.options = o] \in Run
      /\ [NotStarted EXCEPT !.options = o].node = NotStarted.node
      /\ [NotStarted EXCEPT !.options = o].failed = NotStarted.failed
      /\ [NotStarted EXCEPT !.options = o].stage = NotStarted.stage
      /\ [NotStarted EXCEPT !.options = o].result = NotStarted.result
  BY NotStartedFacts DEF Run
<1> QED  BY <1>1, NotStartedFacts DEF Ready

LEMMA KeepStart ==
  ASSUME IInv, NEW o \in Options, Start(o)
  PROVE  IInv'
<1> DEFINE r == current + 1
           freed == IF running THEN Cancelled(runs, current) ELSE runs
           rs == [freed EXCEPT ![r].options = o]
           z == [NotStarted EXCEPT !.options = o]
<1>1. /\ r \in Gens /\ current' = r /\ plan' = plan
      /\ aborted' = IF running THEN aborted \cup ({controller} \ {NoRun}) ELSE aborted
      /\ \/ /\ runs' = [rs EXCEPT ![r].phase = "worktree"] /\ controller' = r
            /\ UNCHANGED <<running, status, cache>>
         \/ Launch(r, rs, r, r, FALSE)
  BY DEF Start
<1>2. /\ current \in 0 .. MaxGen /\ controller \in Gens \cup {NoRun}
      /\ aborted \subseteq Gens /\ cache \subseteq Nodes \X Branches
      /\ runs \in [Gens -> Run] /\ running \in BOOLEAN
      /\ status \in [Nodes -> Statuses]
  BY DEF IInv, TypeOK
<1>3. /\ freed \in [Gens -> Run]
      /\ \A q \in Gens : /\ Inside(freed[q])
                         /\ \A n \in Nodes : freed[q].node[n] # "asking"
                         /\ q > current => freed[q] = NotStarted
  <2>1. CASE running  BY <2>1, CancelledFacts
  <2>2. CASE ~ running  BY <1>2, <2>2, UnshownFacts
  <2> QED  BY <2>1, <2>2
<1>4. r > current /\ freed[r] = NotStarted  BY <1>1, <1>2, <1>3
<1>5. Ready(z)  BY ChosenReady
<1>6. rs = [freed EXCEPT ![r] = z]  BY <1>4
<1> HIDE DEF freed, z
<1>7. rs[r] = z /\ \A q \in Gens \ {r} : rs[q] = freed[q]
  BY <1>1, <1>3, <1>6
<1>8. rs \in [Gens -> Run]  BY <1>3, <1>5, <1>6 DEF Ready
<1> HIDE DEF rs
<1>9. /\ current' \in 0 .. MaxGen /\ aborted' \subseteq Gens /\ r \in 0 .. current'
      /\ r <= current'
  BY <1>1, <1>2 DEF Gens
<1>10. aborted' \subseteq aborted \cup ({controller} \ {NoRun})  BY <1>1
<1>11. r \notin aborted'  BY <1>1, <1>3, <1>10, NextGeneration
<1>12. \A q \in Gens \ {r} : Inside(rs[q])  BY <1>3, <1>7
<1>13. \A q \in Gens \ {r}, shown \in BOOLEAN : Beside(q, rs[q], current', aborted', r, shown)
  <2> SUFFICES ASSUME NEW q \in Gens \ {r}, NEW shown \in BOOLEAN
               PROVE  Beside(q, freed[q], current + 1, aborted', r, shown)
    BY <1>1, <1>7
  <2> QED  BY <1>3, <1>10, NextGeneration
<1>14. CASE Launch(r, rs, r, r, FALSE)
  <2>1. Launch(r, rs, current', r, FALSE)  BY <1>1, <1>14
  <2>2. \A q \in Gens \ {r} : Beside(q, rs[q], current', aborted', r, running)
    BY <1>2, <1>13
  <2>3. Ready(rs[r])  BY <1>5, <1>7
  <2> HIDE DEF r
  <2> QED  BY <1>1, <1>8, <1>9, <1>11, <1>12, <2>1, <2>2, <2>3, LaunchKeeps
<1>15. CASE /\ runs' = [rs EXCEPT ![r].phase = "worktree"] /\ controller' = r
            /\ UNCHANGED <<running, status, cache>>
  <2> DEFINE y == [z EXCEPT !.phase = "worktree"]
  <2>1. Phased(y, z, "worktree", "none")
    BY <1>5, PhaseMoves DEF Ready, Phases
  <2>2. runs' = [rs EXCEPT ![r] = y] /\ runs'[r] = y  BY <1>1, <1>7, <1>8, <1>15
  <2> HIDE DEF y
  <2>3. \A q \in Gens \ {r} : runs'[q] = rs[q]  BY <1>8, <2>2
  <2>4. runs' \in [Gens -> Run]  BY <1>8, <2>1, <2>2 DEF Phased
  <2>5. \A n \in Nodes : y.node[n] = "waiting"  BY <1>5, <2>1 DEF Phased, Ready, Fresh
  <2>6. Inside(y)  BY <1>5, <2>1, <2>5 DEF Phased, Ready, Inside, Busy
  <2>7. ~ (r > current')  BY <1>9, <1>1, <1>2
  <2>8. Beside(r, y, current', aborted', r, running')
    BY <1>11, <2>1, <2>5, <2>7 DEF Phased, Beside
  <2>9. \A q \in Gens : Inside(runs'[q])  BY <1>12, <2>2, <2>3, <2>6
  <2>10. \A q \in Gens : Beside(q, runs'[q], current', aborted', controller', running')
    BY <1>2, <1>13, <1>15, <2>2, <2>3, <2>8
  <2>11. status' \in [Nodes -> Statuses] /\ cache' \subseteq Nodes \X Branches
         /\ running' \in BOOLEAN /\ controller' \in 0 .. current'
    BY <1>2, <1>9, <1>15
  <2> HIDE DEF r
  <2> QED  BY <1>1, <1>9, <2>4, <2>9, <2>10, <2>11, KeepAll
<1> QED  BY <1>1, <1>14, <1>15

-----------------------------------------------------------------------------
LEMMA InitIInv == Init => IInv
<1> SUFFICES ASSUME Init  PROVE  IInv
  OBVIOUS
<1>1. \A r \in Gens : runs[r] = NotStarted  BY DEF Init
<1>2. \A r \in Gens : Inside(runs[r])
  BY <1>1, NotStartedFacts, IdleInside DEF Phases
<1>3. \A n \in Nodes : NotStarted.node[n] = "waiting"  BY NotStartedFacts DEF Fresh
<1>4. \A r \in Gens : Beside(r, runs[r], current, aborted, controller, running)
  BY <1>1, <1>3, NotStartedFacts DEF Init, Beside
<1>5. runs \in [Gens -> Run]  BY NotStartedFacts DEF Init
<1>6. status \in [Nodes -> Statuses] /\ cache \subseteq Nodes \X Branches /\ running \in BOOLEAN
  BY DEF Init, Statuses
<1>7. TypeOK
  BY <1>5, <1>6, ConstantsAssumption DEF Init, TypeOK, NoRun
<1> QED  BY <1>2, <1>4, <1>7 DEF Init, IInv, NoRun

LEMMA NextKeeps ==
  ASSUME IInv, [Next]_vars
  PROVE  IInv'
<1>1. CASE Stop  BY <1>1, KeepStop
<1>2. ASSUME NEW o \in Options, Start(o)  PROVE  IInv'
  BY <1>2, KeepStart
<1>3. ASSUME NEW r \in Gens, Advance(r)  PROVE  IInv'
  <2>1. CASE WorktreeReady(r)  BY <2>1, KeepWorktreeReady
  <2>2. CASE NextStage(r)  BY <2>2, KeepNextStage
  <2>3. CASE NextRound(r)  BY <2>3, KeepNextRound
  <2>4. CASE Finalize(r)  BY <2>4, KeepFinalize
  <2>5. CASE FinalizeStale(r)  BY <2>5, KeepFinalizeStale
  <2>6. CASE Release(r)  BY <2>6, KeepRelease
  <2>7. CASE CleanUp(r)  BY <2>7, KeepCleanUp
  <2>8. ASSUME NEW n \in Nodes, Leave(r, n)  PROVE  IInv'  BY <2>8, KeepLeave
  <2>9. ASSUME NEW n \in Nodes, FailWithUpstream(r, n)  PROVE  IInv'
    BY <2>9, KeepFailWithUpstream
  <2>10. ASSUME NEW n \in Nodes, Prune(r, n)  PROVE  IInv'  BY <2>10, KeepPrune
  <2>11. ASSUME NEW n \in Nodes, Execute(r, n)  PROVE  IInv'  BY <2>11, KeepExecute
  <2>12. ASSUME NEW n \in Nodes, ReturnStale(r, n)  PROVE  IInv'
    BY <2>12, KeepReturnStale
  <2>13. ASSUME NEW n \in Nodes, Fail(r, n)  PROVE  IInv'  BY <2>13, KeepFail
  <2>14. ASSUME NEW n \in Nodes, NEW b \in Branches, UseCache(r, n, b)  PROVE  IInv'
    BY <2>14, KeepUseCache
  <2>15. ASSUME NEW n \in Nodes, NEW b \in Taken(n), Succeed(r, n, b)  PROVE  IInv'
    BY <2>15, KeepSucceed
  <2> QED  BY <1>3, <2>1, <2>2, <2>3, <2>4, <2>5, <2>6, <2>7, <2>8, <2>9, <2>10,
              <2>11, <2>12, <2>13, <2>14, <2>15 DEF Advance
<1>4. ASSUME NEW r \in Gens, NEW n \in Nodes, Ask(r, n)  PROVE  IInv'
  BY <1>4, KeepAsk
<1>5. ASSUME NEW r \in Gens, NEW n \in Nodes, Answer(r, n)  PROVE  IInv'
  BY <1>5, KeepAnswer
<1>6. ASSUME NEW r \in Gens, NEW n \in Nodes, ShowPartial(r, n)  PROVE  IInv'
  BY <1>6, KeepShowPartial
<1>7. CASE UNCHANGED vars
  <2>1. UNCHANGED <<plan, current, controller, aborted, running, status, cache, runs>>
    BY <1>7 DEF vars
  <2>2. \A q \in Gens : Inside(runs'[q])  BY <2>1 DEF IInv
  <2>3. \A q \in Gens : Beside(q, runs'[q], current', aborted', controller', running')
    BY <2>1 DEF IInv
  <2>4. runs' \in [Gens -> Run] /\ current' \in 0 .. MaxGen /\ controller' \in 0 .. current'
    BY <2>1 DEF IInv, TypeOK
  <2>5. /\ aborted' \subseteq Gens /\ running' \in BOOLEAN
        /\ status' \in [Nodes -> Statuses] /\ cache' \subseteq Nodes \X Branches
    BY <2>1 DEF IInv, TypeOK
  <2> QED  BY <2>1, <2>2, <2>3, <2>4, <2>5, KeepAll
<1> QED  BY <1>1, <1>2, <1>3, <1>4, <1>5, <1>6, <1>7 DEF Next

\* The invariant holds of every behaviour of the engine, whatever the graphs.
THEOREM Invariance == Spec => []IInv
<1>1. IInv /\ [Next]_vars => IInv'  BY NextKeeps
<1> QED  BY <1>1, InitIInv, PTL DEF Spec

\* The variables keep to their types in every behaviour.
THEOREM TypeCorrect == Spec => []TypeOK
BY Invariance, PTL DEF IInv

\* While the run of the current generation works, the workflow is shown as
\* running and the stop button reaches it.
THEOREM ShownWhileLive == Spec => []LiveShown
<1>1. IInv => LiveShown
  <2> SUFFICES ASSUME IInv, NEW r \in Gens, current = r,
                      runs[r].phase \in {"stage", "persisting"}
               PROVE  running /\ controller = r
    BY DEF LiveShown
  <2>1. Beside(r, runs[r], current, aborted, controller, running)  BY DEF IInv
  <2> QED  BY <2>1 DEF Beside
<1> QED  BY <1>1, Invariance, PTL

\* A request to the user is open only for a run that can still use the answer.
THEOREM RequestsBelong == Spec => []AsksLive
<1>1. IInv => AsksLive
  <2> SUFFICES ASSUME IInv, NEW r \in Gens, NEW n \in Nodes, runs[r].node[n] = "asking"
               PROVE  current = r /\ r \notin aborted /\ runs[r].phase = "stage"
    BY DEF AsksLive
  <2>1. Inside(runs[r]) /\ Beside(r, runs[r], current, aborted, controller, running)
    BY DEF IInv
  <2>2. runs[r].phase = "stage"  BY <2>1 DEF Inside, Busy
  <2> QED  BY <2>1, <2>2 DEF Beside
<1> QED  BY <1>1, Invariance, PTL

\* The window shows the live run and asks for it alone.
THEOREM OnlyLiveRun == Spec => []LiveRunOnly
  BY ShownWhileLive, RequestsBelong, PTL DEF LiveRunOnly

\* With failFast no stage is started after one in which a node failed.
THEOREM FailFastStays == Spec => []FailuresStay
<1>1. IInv => FailuresStay  BY DEF IInv, Inside, FailuresStay, CutShort
<1> QED  BY <1>1, Invariance, PTL

\* A run that is recorded as a success has decided or finished every node.
THEOREM SuccessIsWhole == Spec => []RecordsWhole
<1>1. IInv => RecordsWhole  BY DEF IInv, Inside, RecordsWhole
<1> QED  BY <1>1, Invariance, PTL

-----------------------------------------------------------------------------
(* The compilation of a graph. *)

\* What one round of a search along the arcs of R adds to A.
Onward(A, R) == A \cup {a[2] : a \in {b \in R : b[1] \in A}}

Rounds(f, n, S, R) ==
  /\ n \in Nat /\ n = Cardinality(R)
  /\ f[0] = S /\ \A k \in 1..n : f[k] = Onward(f[k - 1], R)
  /\ Reach(S, R) = f[n]

\* The search is a sequence of rounds, one for each arc.
LEMMA ReachRounds ==
  ASSUME NEW S, NEW R, IsFiniteSet(R)
  PROVE  \E f, n : Rounds(f, n, S, R)
<1> DEFINE n == Cardinality(R)
           P == SUBSET (S \cup {a[2] : a \in R})
           G == [k \in 1..n |-> [A \in P |-> Onward(A, R)]]
           Is(f) == f = [k \in 0..n |->
                           IF k = 0 THEN S
                           ELSE f[k - 1] \cup {a[2] : a \in {b \in R : b[1] \in f[k - 1]}}]
           f == CHOOSE g : Is(g)
<1>1. n \in Nat
  BY FS_CardinalityType
<1>2. \A A \in P : Onward(A, R) \in P
  BY DEF Onward
<1>3. G \in [1..n -> [P -> P]]
  BY <1>2
<1>4. S \in P
  OBVIOUS
<1>5. \A k \in 1..n, A \in P : G[k][A] = Onward(A, R)
  OBVIOUS
<1>6. Reach(S, R) = f[n]
  BY DEF Reach
<1>7. \E g : Is(g)
  <2> HIDE DEF n, P, G
  <2>1. PICK g : Recursive(g, n, P, S, G)
    BY <1>1, <1>3, <1>4, Recursion
  <2>2. g \in [0..n -> P] /\ g[0] = S /\ \A k \in 1..n : g[k] = G[k][g[k - 1]]
    BY <2>1 DEF Recursive
  <2>3. \A k \in 1..n : k - 1 \in 0..n
    BY <1>1
  <2>4. \A k \in 1..n : g[k] = Onward(g[k - 1], R)
    BY <1>5, <2>2, <2>3
  <2>5. \A k \in 0..n : g[k] = IF k = 0 THEN S ELSE Onward(g[k - 1], R)
    BY <1>1, <2>2, <2>4
  <2>6. g = [k \in 0..n |-> IF k = 0 THEN S ELSE Onward(g[k - 1], R)]
    BY <2>2, <2>5
  <2> QED
    BY <2>6 DEF Onward
<1>8. f = [k \in 0..n |-> IF k = 0 THEN S ELSE Onward(f[k - 1], R)]
  <2>1. Is(f)
    BY <1>7
  <2> HIDE DEF f, n
  <2> QED
    BY <2>1 DEF Onward
<1>9. 0 \in 0..n /\ \A k \in 1..n : k \in 0..n /\ k # 0
  BY <1>1
<1>10. f[0] = S /\ \A k \in 1..n : f[k] = Onward(f[k - 1], R)
  <2> HIDE DEF f, n
  <2> QED
    BY <1>8, <1>9
<1> HIDE DEF f, Is
<1> QED
  BY <1>1, <1>6, <1>10 DEF Rounds

\* The search finds where it starts, and has nowhere left to go.
LEMMA ReachClosed ==
  ASSUME NEW S, NEW R, IsFiniteSet(R)
  PROVE  /\ S \subseteq Reach(S, R)
         /\ \A a \in R : a[1] \in Reach(S, R) => a[2] \in Reach(S, R)
<1>1. PICK f, n : Rounds(f, n, S, R)
  BY ReachRounds
<1>2. /\ n \in Nat /\ n = Cardinality(R) /\ f[0] = S
      /\ \A k \in 1..n : f[k] = Onward(f[k - 1], R)
      /\ Reach(S, R) = f[n]
  BY <1>1 DEF Rounds
<1> DEFINE T(A) == {a \in R : a[2] \in A}
           Q == {k \in 0..n : S \subseteq f[k] /\ (Onward(f[k], R) = f[k] \/ Cardinality(T(f[k])) >= k)}
<1>3. \A A : IsFiniteSet(T(A)) /\ Cardinality(T(A)) \in Nat
  <2>1. ASSUME NEW A PROVE IsFiniteSet(T(A)) /\ Cardinality(T(A)) \in Nat
    <3>1. T(A) \subseteq R
      OBVIOUS
    <3> HIDE DEF T
    <3> QED
      BY <3>1, FS_Subset, FS_CardinalityType
  <2> QED
    BY <2>1
<1>4. 0 \in Q
  <2>1. 0 \in 0..n /\ S \subseteq f[0]
    BY <1>2
  <2> HIDE DEF T
  <2>2. Cardinality(T(f[0])) >= 0
    BY <1>3
  <2> QED
    BY <2>1, <2>2
<1>5. ASSUME NEW k \in 1..n, k - 1 \in Q PROVE k \in Q
  <2> DEFINE A == f[k - 1]
  <2>1. S \subseteq A /\ (Onward(A, R) = A \/ Cardinality(T(A)) >= k - 1)
    BY <1>5
  <2>2. f[k] = Onward(A, R) /\ k \in 0..n
    BY <1>2
  <2>3. A \subseteq Onward(A, R)
    BY DEF Onward
  <2> HIDE DEF A
  <2>4. CASE Onward(A, R) = A
    BY <2>1, <2>2, <2>4
  <2>5. CASE Onward(A, R) # A /\ Cardinality(T(A)) >= k - 1
    <3> DEFINE B == Onward(A, R)
    <3>1. PICK y \in B : y \notin A
      BY <2>3, <2>5
    <3>2. PICK a \in R : a[2] = y
      BY <3>1 DEF Onward
    <3>3. T(A) \subseteq T(B) /\ T(A) # T(B)
      <4>1. a \in T(B) /\ a \notin T(A)
        BY <3>1, <3>2
      <4>2. T(A) \subseteq T(B)
        BY <2>3
      <4> QED
        BY <4>1, <4>2
    <3> HIDE DEF T, B
    <3>4. Cardinality(T(A)) <= Cardinality(T(B)) /\ Cardinality(T(A)) # Cardinality(T(B))
      BY <1>3, <3>3, FS_Subset
    <3>5. Cardinality(T(A)) \in Nat /\ Cardinality(T(B)) \in Nat
      BY <1>3
    <3>6. Cardinality(T(B)) >= k
      BY <2>5, <3>4, <3>5
    <3>7. S \subseteq B
      BY <2>1, <2>3 DEF B
    <3> QED
      BY <2>2, <3>6, <3>7 DEF B
  <2> QED
    BY <2>1, <2>4, <2>5
<1> HIDE DEF Q
<1>6. n \in Q
  <2>1. 0..n \subseteq Q
    BY <1>2, <1>4, <1>5, UpTo
  <2> QED
    BY <1>2, <2>1
<1>7. S \subseteq f[n] /\ (Onward(f[n], R) = f[n] \/ Cardinality(T(f[n])) >= n)
  BY <1>6 DEF Q
<1>8. CASE Onward(f[n], R) = f[n]
  BY <1>2, <1>7, <1>8 DEF Onward
<1>9. CASE Cardinality(T(f[n])) >= n
  <2> DEFINE A == f[n]
  <2>1. T(A) \subseteq R
    OBVIOUS
  <2> HIDE DEF T
  <2>2. Cardinality(T(A)) <= Cardinality(R) /\ Cardinality(T(A)) \in Nat
    BY <1>3, <2>1, FS_Subset
  <2>3. Cardinality(T(A)) = Cardinality(R)
    BY <1>2, <1>9, <2>2
  <2>4. T(A) = R
    BY <2>1, <2>3, FS_Subset
  <2> QED
    BY <1>2, <1>7, <2>4 DEF T
<1> QED
  BY <1>7, <1>8, <1>9

\* It finds nothing outside a set that holds where it starts and that no arc leaves.
LEMMA ReachWithin ==
  ASSUME NEW S, NEW R, IsFiniteSet(R), NEW P, S \subseteq P,
         \A a \in R : a[1] \in P => a[2] \in P
  PROVE  Reach(S, R) \subseteq P
<1>1. PICK f, n : Rounds(f, n, S, R)
  BY ReachRounds
<1>2. /\ n \in Nat /\ f[0] = S
      /\ \A k \in 1..n : f[k] = Onward(f[k - 1], R)
      /\ Reach(S, R) = f[n]
  BY <1>1 DEF Rounds
<1> DEFINE Q == {k \in 0..n : f[k] \subseteq P}
<1>3. 0 \in Q
  BY <1>2
<1>4. ASSUME NEW k \in 1..n, k - 1 \in Q PROVE k \in Q
  <2>1. f[k - 1] \subseteq P /\ f[k] = Onward(f[k - 1], R) /\ k \in 0..n
    BY <1>2, <1>4
  <2> QED
    BY <2>1 DEF Onward
<1> HIDE DEF Q
<1>5. 0..n \subseteq Q
  BY <1>2, <1>3, <1>4, UpTo
<1> QED
  BY <1>2, <1>5 DEF Q

\* In a symmetric relation what is found from two places is the same or apart.
LEMMA ReachApart ==
  ASSUME NEW R, IsFiniteSet(R), \A a \in R : \E b \in R : b[1] = a[2] /\ b[2] = a[1],
         NEW x, NEW y, Reach({x}, R) \cap Reach({y}, R) # {}
  PROVE  Reach({x}, R) = Reach({y}, R)
<1>1. \A z : /\ {z} \subseteq Reach({z}, R)
             /\ \A a \in R : a[1] \in Reach({z}, R) => a[2] \in Reach({z}, R)
  BY ReachClosed
<1>2. ASSUME NEW u, NEW v, u \in Reach({v}, R) PROVE Reach({u}, R) \subseteq Reach({v}, R)
  BY <1>1, <1>2, ReachWithin
\* what finds u is found from u
<1>3. ASSUME NEW u, NEW v, u \in Reach({v}, R) PROVE v \in Reach({u}, R)
  <2> DEFINE P == {w \in Reach({v}, R) : v \in Reach({w}, R)}
  <2>1. {v} \subseteq P
    BY <1>1
  <2>2. ASSUME NEW a \in R, a[1] \in P PROVE a[2] \in P
    <3>1. PICK b \in R : b[1] = a[2] /\ b[2] = a[1]
      OBVIOUS
    <3>2. a[2] \in Reach({v}, R)
      BY <1>1, <2>2
    <3>3. a[1] \in Reach({a[2]}, R)
      BY <1>1, <3>1
    <3>4. Reach({a[1]}, R) \subseteq Reach({a[2]}, R)
      BY <1>2, <3>3
    <3> QED
      BY <2>2, <3>2, <3>4
  <2> HIDE DEF P
  <2>3. Reach({v}, R) \subseteq P
    BY <2>1, <2>2, ReachWithin
  <2> QED
    BY <1>3, <2>3 DEF P
<1>4. PICK z : z \in Reach({x}, R) /\ z \in Reach({y}, R)
  OBVIOUS
<1>5. ASSUME NEW v, z \in Reach({v}, R) PROVE Reach({z}, R) = Reach({v}, R)
  <2>1. v \in Reach({z}, R)
    BY <1>3, <1>5
  <2>2. Reach({z}, R) \subseteq Reach({v}, R)
    BY <1>2, <1>5
  <2>3. Reach({v}, R) \subseteq Reach({z}, R)
    BY <1>2, <2>1
  <2> QED
    BY <2>2, <2>3
<1>6. Reach({z}, R) = Reach({x}, R) /\ Reach({z}, R) = Reach({y}, R)
  BY <1>4, <1>5
<1> QED
  BY <1>5, <1>6

IsGraph(g) ==
  /\ g.nodes \in Seq(NodesOf(g)) /\ g.nodes # << >>
  /\ g.edges \in Seq(EdgesOf(g))
  /\ \A e \in EdgesOf(g) : e.from \in NodesOf(g) /\ e.to \in NodesOf(g)
  /\ g.gates \subseteq NodesOf(g)

\* The elements of a sequence are finitely many.
LEMMA ElementsFinite ==
  ASSUME NEW X, NEW s \in Seq(X), X = {s[i] : i \in DOMAIN s}
  PROVE  IsFiniteSet(X)
<1>1. Len(s) \in Nat /\ s \in [1..Len(s) -> X] /\ DOMAIN s = 1..Len(s)
  OBVIOUS
<1>2. s \in Surjection(1..Len(s), X)
  BY <1>1 DEF Surjection
<1>3. IsFiniteSet(1..Len(s))
  <2>1. \A n \in Nat : IsFiniteSet(1..n)
    BY FS_Interval
  <2> QED
    BY <1>1, <2>1
<1> DEFINE D == 1..Len(s)
<1>4. s \in Surjection(D, X) /\ IsFiniteSet(D)
  BY <1>2, <1>3
<1> HIDE DEF D
<1> QED
  BY <1>4, FS_Surjection

\* A graph is finite, and at least one pass is made over it.
LEMMA GraphFinite ==
  ASSUME NEW g, IsGraph(g)
  PROVE  /\ Len(g.nodes) \in Nat \ {0} /\ DOMAIN g.nodes = 1..Len(g.nodes)
         /\ IsFiniteSet(NodesOf(g)) /\ IsFiniteSet(EdgesOf(g)) /\ Passes(g) \in Nat \ {0}
<1>1. /\ g.nodes \in Seq(NodesOf(g)) /\ g.nodes # << >>
      /\ g.edges \in Seq(EdgesOf(g))
  BY DEF IsGraph
<1>2. /\ Len(g.nodes) \in Nat \ {0} /\ DOMAIN g.nodes = 1..Len(g.nodes)
      /\ Len(g.edges) \in Nat /\ DOMAIN g.edges = 1..Len(g.edges)
  BY <1>1
<1>3. IsFiniteSet(DOMAIN g.nodes) /\ IsFiniteSet(DOMAIN g.edges)
  BY <1>2, FS_Interval
<1>4. IsFiniteSet(NodesOf(g))
  <2>1. NodesOf(g) = {g.nodes[i] : i \in DOMAIN g.nodes}
    BY DEF NodesOf
  <2> QED
    BY <1>1, <2>1, ElementsFinite
<1>5. IsFiniteSet(EdgesOf(g))
  <2>1. EdgesOf(g) = {g.edges[i] : i \in DOMAIN g.edges}
    BY DEF EdgesOf
  <2> QED
    BY <1>1, <2>1, ElementsFinite
<1>6. Passes(g) \in Nat \ {0}
  <2>1. ControlEdges(g) \subseteq DOMAIN g.edges
    BY DEF ControlEdges
  <2>2. IsFiniteSet(ControlEdges(g))
    BY <1>3, <2>1, FS_Subset
  <2> DEFINE C == ControlEdges(g)
             m == Cardinality(C)
             l == Len(g.nodes)
  <2>3. m \in Nat /\ (C # {} => m # 0)
    BY <2>2, FS_CardinalityType, FS_EmptySet
  <2>4. l \in Nat \ {0}
    BY <1>2
  <2>5. Passes(g) = IF C = {} THEN l ELSE l * m
    BY DEF Passes
  <2> HIDE DEF m, l, C
  <2>6. m # 0 => l * m \in Nat \ {0}
    BY <2>3, <2>4
  <2> QED
    BY <2>3, <2>4, <2>5, <2>6
<1> QED
  BY <1>2, <1>4, <1>5, <1>6

\* What a pass makes of b along the edges in u: it lifts along the last of them
\* what it made of b along the others.
Passing(it, g, b) ==
  /\ it[{}] = b /\ Pass(g, b) = it[DOMAIN g.edges]
  /\ \A u \in SUBSET DOMAIN g.edges :
       u # {} => it[u] = LiftAlong(g, it[u \ {Max(u)}], g.edges[Max(u)])

\* There is such an iteration, and it stays where each lifting stays.
LEMMA PassFolds ==
  ASSUME NEW g, IsGraph(g), NEW X, NEW b \in X,
         \A st \in X, e \in EdgesOf(g) : LiftAlong(g, st, e) \in X
  PROVE  \E it : Passing(it, g, b) /\ \A u \in SUBSET DOMAIN g.edges : it[u] \in X
<1> DEFINE s == g.edges
           D == DOMAIN s
           ch == Newest(D)
           Is(f) == f = [u \in SUBSET D |-> IF u = {} THEN b
                                            ELSE LiftAlong(g, f[u \ {Max(u)}], s[Max(u)])]
           it == CHOOSE f : Is(f)
           G == [p \in D \X X |-> LiftAlong(g, p[2], s[p[1]])]
<1>1. IsFiniteSet(D) /\ Chooses(ch, D) /\ \A i \in D : s[i] \in EdgesOf(g)
  <2>1. s \in Seq(EdgesOf(g))
    BY DEF IsGraph
  <2> QED
    BY <2>1, LastChooses
<1>2. Pass(g, b) = it[D]
  BY DEF Pass, FoldLeft, MapThenFoldSet
<1>3. \A i \in D, st \in X : LiftAlong(g, st, s[i]) \in X
  BY <1>1
<1>4. \A i \in D, st \in X : G[<<i, st>>] = LiftAlong(g, st, s[i])
  OBVIOUS
<1>5. \A u \in SUBSET D : ch[u] = Max(u)
  BY DEF Newest
<1> HIDE DEF D, ch, G, s
<1>6. \A i \in D, st \in X : G[<<i, st>>] \in X
  BY <1>3, <1>4
<1>7. PICK f : Folding(f, D, b, ch, G)
  BY <1>1, <1>6, FoldExists
<1>8. f \in [SUBSET D -> X]
  BY <1>1, <1>6, <1>7, FoldTyped
<1>9. Is(f)
  <2>1. ASSUME NEW u \in SUBSET D, u # {}
        PROVE  f[u] = LiftAlong(g, f[u \ {Max(u)}], s[Max(u)])
    <3>1. ch[u] = Max(u) /\ ch[u] \in D
      BY <1>1, <1>5, <2>1 DEF Chooses
    <3>2. f[u \ {ch[u]}] \in X
      BY <1>8
    <3>3. f[u] = G[<<ch[u], f[u \ {ch[u]}]>>]
      BY <1>7, <2>1 DEF Folding
    <3> QED
      BY <1>4, <3>1, <3>2, <3>3
  <2>2. f = [u \in SUBSET D |-> f[u]] /\ f[{}] = b
    BY <1>7 DEF Folding
  <2> QED
    BY <2>1, <2>2
<1>10. Is(it)
  <2> HIDE DEF Is
  <2> QED
    BY <1>9
<1> HIDE DEF it
<1>11. /\ it[{}] = b
       /\ \A u \in SUBSET D : u # {} => it[u] = LiftAlong(g, it[u \ {Max(u)}], s[Max(u)])
  BY <1>10
<1> HIDE DEF Is
<1>12. \A u \in SUBSET D : u # {} /\ it[u \ {ch[u]}] \in X => it[u] \in X
  <2> SUFFICES ASSUME NEW u \in SUBSET D, u # {}, it[u \ {ch[u]}] \in X PROVE it[u] \in X
    OBVIOUS
  <2>1. ch[u] = Max(u) /\ ch[u] \in D
    BY <1>1, <1>5 DEF Chooses
  <2>2. it[u] = LiftAlong(g, it[u \ {ch[u]}], s[ch[u]])
    BY <1>11, <2>1
  <2> QED
    BY <1>3, <2>1, <2>2
<1>13. ASSUME NEW w \in SUBSET D PROVE it[w] \in X
  <2>1. IsFiniteSet(w) /\ Chooses(ch, w)
    BY <1>1, FS_Subset DEF Chooses
  <2>2. \A u \in SUBSET w : u # {} /\ it[u \ {ch[u]}] \in X => it[u] \in X
    BY <1>12
  <2> QED
    BY <1>11, <2>1, <2>2, FoldStays
<1>14. Passing(it, g, b)
  BY <1>2, <1>11 DEF Passing, D, s
<1> QED
  BY <1>13, <1>14 DEF D, s

\* What every lifting keeps, a pass keeps.
LEMMA PassStays ==
  ASSUME NEW g, IsGraph(g), NEW X, NEW b \in X,
         \A st \in X, e \in EdgesOf(g) : LiftAlong(g, st, e) \in X
  PROVE  Pass(g, b) \in X
<1>1. PICK it : Passing(it, g, b) /\ \A u \in SUBSET DOMAIN g.edges : it[u] \in X
  BY PassFolds
<1> QED
  BY <1>1 DEF Passing

\* What the layers have and every lifting keeps, the stages have after each pass.
LEMMA LiftedStays ==
  ASSUME NEW g, IsGraph(g), NEW X, Layer(g) \in X,
         \A st \in X, e \in EdgesOf(g) : LiftAlong(g, st, e) \in X
  PROVE  /\ \A k \in 0..Passes(g) : Lifted(g)[k] \in X
         /\ \A k \in 1..Passes(g) : Lifted(g)[k] = Pass(g, Lifted(g)[k - 1])
<1> DEFINE n == Passes(g)
           G == [k \in 1..n |-> [st \in X |-> Pass(g, st)]]
           Is(f) == f = [k \in 0..n |-> IF k = 0 THEN Layer(g) ELSE Pass(g, f[k - 1])]
           f == CHOOSE h : Is(h)
<1>1. n \in Nat
  BY GraphFinite
<1>2. \A st \in X : Pass(g, st) \in X
  BY PassStays
<1>3. G \in [1..n -> [X -> X]] /\ \A k \in 1..n, st \in X : G[k][st] = Pass(g, st)
  BY <1>2
<1>4. Lifted(g) = f
  BY DEF Lifted
<1> HIDE DEF n, G
<1>5. PICK h : Recursive(h, n, X, Layer(g), G)
  BY <1>1, <1>3, Recursion
<1>6. h \in [0..n -> X] /\ h[0] = Layer(g) /\ \A k \in 1..n : h[k] = G[k][h[k - 1]]
  BY <1>5 DEF Recursive
<1>7. \A k \in 1..n : k - 1 \in 0..n
  BY <1>1
<1>8. \A k \in 1..n : h[k] = Pass(g, h[k - 1])
  BY <1>3, <1>6, <1>7
<1>9. \A k \in 0..n : h[k] = IF k = 0 THEN Layer(g) ELSE Pass(g, h[k - 1])
  BY <1>1, <1>6, <1>8
<1>10. Is(h)
  BY <1>6, <1>9
<1>11. Is(f)
  <2> HIDE DEF Is
  <2> QED
    BY <1>10
<1> HIDE DEF f
<1> DEFINE Q == {k \in 0..n : f[k] \in X}
<1>15. \A k \in 1..n : f[k] = Pass(g, f[k - 1])
  <2>1. \A k \in 1..n : k \in 0..n /\ k # 0
    BY <1>1
  <2> QED
    BY <1>11, <2>1
<1>12. 0 \in Q
  BY <1>1, <1>11
<1>13. ASSUME NEW k \in 1..n, k - 1 \in Q PROVE k \in Q
  <2>1. k \in 0..n /\ k # 0
    BY <1>1
  <2>2. f[k] = Pass(g, f[k - 1])
    BY <1>11, <2>1
  <2> QED
    BY <1>2, <1>13, <2>1, <2>2
<1> HIDE DEF Q, Is
<1>14. 0..n \subseteq Q
  BY <1>1, <1>12, <1>13, UpTo
<1> QED
  BY <1>4, <1>14, <1>15 DEF Q, n

\* Finitely many edges make finitely many arcs.
LEMMA ArcsFinite == ASSUME NEW A, IsFiniteSet(A) PROVE IsFiniteSet(Arcs(A))
<1> DEFINE f == [d \in A |-> <<d.from, d.to>>]
           R == Arcs(A)
<1>1. R = {<<d.from, d.to>> : d \in A}
  BY DEF Arcs
<1> HIDE DEF R
<1>2. f \in [A -> R] /\ \A a \in R : \E d \in A : f[d] = a
  BY <1>1
<1> HIDE DEF f
<1>3. f \in Surjection(A, R)
  BY <1>2 DEF Surjection
<1> QED
  BY <1>3, FS_Surjection DEF R

\* One more layer: the nodes whose data comes from A alone.
NextLayer(g, A) ==
  {n \in NodesOf(g) : \A e \in DataEdges(g) : e.to = n => e.from \in A}

\* Kahn's layers, each added to those before it.
LEMMA VisitedGrows ==
  ASSUME NEW g, IsGraph(g)
  PROVE  /\ Visited(g) \in [0..Len(g.nodes) -> SUBSET NodesOf(g)]
         /\ Visited(g)[0] = {}
         /\ \A k \in 1..Len(g.nodes) : Visited(g)[k] = NextLayer(g, Visited(g)[k - 1])
         /\ \A i, j \in 0..Len(g.nodes) : i <= j => Visited(g)[i] \subseteq Visited(g)[j]
<1> DEFINE n == Len(g.nodes)
           X == SUBSET NodesOf(g)
           G == [k \in 1..n |-> [A \in X |-> NextLayer(g, A)]]
           Is(f) == f = [k \in 0..n |->
                           IF k = 0 THEN {}
                           ELSE {m \in NodesOf(g) :
                                   \A e \in DataEdges(g) : e.to = m => e.from \in f[k - 1]}]
           v == CHOOSE h : Is(h)
<1>1. n \in Nat
  BY GraphFinite
<1>2. \A A \in X : NextLayer(g, A) \in X
  BY DEF NextLayer
<1>3. G \in [1..n -> [X -> X]] /\ \A k \in 1..n, A \in X : G[k][A] = NextLayer(g, A)
  BY <1>2
<1>4. Visited(g) = v
  BY DEF Visited
<1>5. {} \in X
  OBVIOUS
<1> HIDE DEF n, G, X
<1>6. PICK h : Recursive(h, n, X, {}, G)
  BY <1>1, <1>3, <1>5, Recursion
<1>7. h \in [0..n -> X] /\ h[0] = {} /\ \A k \in 1..n : h[k] = G[k][h[k - 1]]
  BY <1>6 DEF Recursive
<1>8. \A k \in 1..n : k - 1 \in 0..n
  BY <1>1
<1>9. \A k \in 1..n : h[k] = NextLayer(g, h[k - 1])
  BY <1>3, <1>7, <1>8
<1>10. \A k \in 0..n : h[k] = IF k = 0 THEN {} ELSE NextLayer(g, h[k - 1])
  BY <1>1, <1>7, <1>9
<1>11. Is(h)
  BY <1>7, <1>10 DEF NextLayer
<1>12. Is(v)
  <2> HIDE DEF Is
  <2> QED
    BY <1>11
<1> HIDE DEF v
<1>13. v = [k \in 0..n |-> IF k = 0 THEN {} ELSE NextLayer(g, v[k - 1])]
  BY <1>12 DEF NextLayer
<1> HIDE DEF Is
<1>14. 0 \in 0..n /\ \A k \in 1..n : k \in 0..n /\ k # 0
  BY <1>1
<1>15. v[0] = {} /\ \A k \in 1..n : v[k] = NextLayer(g, v[k - 1])
  BY <1>13, <1>14
<1>16. \A k \in 0..n : v[k] \in X
  BY <1>13, <1>14 DEF X, NextLayer
<1>17. v \in [0..n -> X]
  BY <1>13, <1>16
<1> DEFINE Q == {k \in 0..n : k = 0 \/ v[k - 1] \subseteq v[k]}
<1>18. 0 \in Q
  BY <1>14
<1>19. ASSUME NEW k \in 1..n, k - 1 \in Q PROVE k \in Q
  <2>1. k \in 0..n /\ v[k] = NextLayer(g, v[k - 1])
    BY <1>14, <1>15
  <2>2. CASE k = 1
    BY <1>15, <2>1, <2>2
  <2>3. CASE k # 1
    <3>1. k - 1 \in 1..n /\ v[k - 1 - 1] \subseteq v[k - 1]
      BY <1>1, <1>19, <2>3
    <3>2. v[k - 1] = NextLayer(g, v[k - 1 - 1])
      BY <1>15, <3>1
    <3> QED
      BY <2>1, <3>1, <3>2 DEF NextLayer
  <2> QED
    BY <2>2, <2>3
<1>20. \A k \in 1..n : v[k - 1] \subseteq v[k]
  <2> HIDE DEF Q
  <2>1. 0..n \subseteq Q
    BY <1>1, <1>18, <1>19, UpTo
  <2> QED
    BY <1>14, <2>1 DEF Q
<1> HIDE DEF Q
<1> DEFINE U == {j \in 0..n : \A i \in 0..n : i <= j => v[i] \subseteq v[j]}
<1>21. 0 \in U
  BY <1>1
<1>22. ASSUME NEW k \in 1..n, k - 1 \in U PROVE k \in U
  <2>1. ASSUME NEW i \in 0..n, i <= k PROVE v[i] \subseteq v[k]
    <3>1. CASE i = k
      BY <3>1
    <3>2. CASE i # k
      <4>1. i <= k - 1
        BY <1>1, <2>1, <3>2
      <4> QED
        BY <1>20, <1>22, <4>1
    <3> QED
      BY <3>1, <3>2
  <2> QED
    BY <1>14, <2>1
<1>23. 0..n \subseteq U
  <2> HIDE DEF U
  <2> QED
    BY <1>1, <1>21, <1>22, UpTo
<1> QED
  BY <1>4, <1>15, <1>17, <1>23 DEF U, n, X

\* Every node that is not on a cycle, or behind one, has one layer, and data
\* leads from a layer to a later one.
LEMMA LayerIs ==
  ASSUME NEW g, IsGraph(g)
  PROVE  /\ Layer(g) \in [NodesOf(g) \ Unvisited(g) -> Nat]
         /\ \A e \in DataEdges(g) :
              e.to \in NodesOf(g) \ Unvisited(g) =>
                e.from \in NodesOf(g) \ Unvisited(g) /\ Layer(g)[e.from] < Layer(g)[e.to]
<1> DEFINE n == Len(g.nodes)
           v == Visited(g)
           V == NodesOf(g) \ Unvisited(g)
<1>1. /\ n \in Nat /\ v[0] = {} /\ \A k \in 0..n : v[k] \subseteq NodesOf(g)
      /\ \A k \in 1..n : v[k] = NextLayer(g, v[k - 1])
      /\ \A i, j \in 0..n : i <= j => v[i] \subseteq v[j]
  BY GraphFinite, VisitedGrows
<1>2. V = v[n]
  BY <1>1 DEF Unvisited
<1>3. Layer(g) = [m \in V |-> CHOOSE k \in 0..n - 1 : m \in v[k + 1] \ v[k]]
  BY DEF Layer
<1> HIDE DEF n, v, V
<1>4. ASSUME NEW m \in V PROVE \E k \in 0..n - 1 : m \in v[k + 1] \ v[k]
  <2> DEFINE T == {k \in 0..n : m \in v[k]}
  <2>1. n \in T
    BY <1>1, <1>2, <1>4
  <2>2. T \in SUBSET Nat /\ T # {}
    BY <2>1
  <2>3. PICK l \in T : \A y \in T : l <= y
    <3> HIDE DEF T
    <3> QED
      BY <2>2, LeastOf
  <2>4. l # 0 /\ l \in 0..n /\ m \in v[l]
    BY <1>1, <2>3
  <2>5. l - 1 \in 0..n - 1 /\ l - 1 \in 0..n /\ l - 1 + 1 = l /\ l - 1 < l
    BY <1>1, <2>4
  <2>6. m \notin v[l - 1]
    BY <2>3, <2>5
  <2> QED
    BY <2>4, <2>5, <2>6
<1>5. \A m \in V : Layer(g)[m] \in 0..n - 1 /\ m \in v[Layer(g)[m] + 1] \ v[Layer(g)[m]]
  BY <1>3, <1>4
<1>6. Layer(g) \in [V -> Nat]
  BY <1>1, <1>3, <1>5
<1>7. ASSUME NEW e \in DataEdges(g), e.to \in V
      PROVE  e.from \in V /\ Layer(g)[e.from] < Layer(g)[e.to]
  <2> DEFINE t == Layer(g)[e.to]
             f == Layer(g)[e.from]
  <2>1. t \in 0..n - 1 /\ e.to \in v[t + 1]
    BY <1>5, <1>7
  <2> HIDE DEF t, f
  <2>2. t + 1 \in 1..n /\ t + 1 - 1 = t /\ t \in 0..n /\ t <= n
    BY <1>1, <2>1
  <2>3. v[t + 1] = NextLayer(g, v[t])
    BY <1>1, <2>2
  <2>4. e.from \in v[t]
    BY <1>7, <2>1, <2>3 DEF NextLayer
  <2>5. e.from \in V
    BY <1>1, <1>2, <2>2, <2>4
  <2>6. f \in 0..n - 1 /\ e.from \notin v[f]
    BY <1>5, <2>5 DEF f
  <2>7. ~ t <= f
    BY <1>1, <2>2, <2>4, <2>6
  <2>8. f < t
    BY <1>1, <2>2, <2>6, <2>7
  <2> QED
    BY <2>5, <2>8 DEF f, t
<1> QED
  BY <1>6, <1>7 DEF V

\* Lifting along an edge keeps the stage numbers.
LEMMA LiftTyped ==
  ASSUME NEW g, IsGraph(g), NEW st \in [NodesOf(g) -> Nat], NEW e \in EdgesOf(g)
  PROVE  LiftAlong(g, st, e) \in [NodesOf(g) -> Nat]
<1>1. DOMAIN st = NodesOf(g) /\ e.from \in NodesOf(g) /\ st[e.from] + 1 \in Nat
  BY DEF IsGraph
<1> QED
  BY <1>1 DEF LiftAlong, Lift

\* The arcs a lifting follows are finitely many.
LEMMA EdgeArcsFinite ==
  ASSUME NEW g, IsGraph(g), NEW n
  PROVE  IsFiniteSet(Arcs({d \in DataEdges(g) : d.to # n}))
<1> DEFINE A == {d \in DataEdges(g) : d.to # n}
<1>1. A \subseteq EdgesOf(g)
  BY DEF DataEdges
<1> HIDE DEF A
<1>2. IsFiniteSet(A)
  BY <1>1, GraphFinite, FS_Subset
<1> QED
  BY <1>2, ArcsFinite DEF A

\* Without a loop no lifting moves a node: along every other control edge, what the
\* edge could lift is late enough.
LEMMA LiftStays ==
  ASSUME NEW g, IsGraph(g), Unvisited(g) = {}, ~ HasLoop(g), NEW e \in EdgesOf(g)
  PROVE  LiftAlong(g, Layer(g), e) = Layer(g)
<1> DEFINE L == Layer(g)
           R == Arcs({d \in DataEdges(g) : d.to # e.from})
<1>1. L \in [NodesOf(g) -> Nat] /\ \A d \in DataEdges(g) : L[d.from] < L[d.to]
  <2>1. \A d \in DataEdges(g) : d.to \in NodesOf(g)
    BY DEF IsGraph, DataEdges
  <2> QED
    BY <2>1, LayerIs
<1>2. /\ e.from \in NodesOf(g) /\ e.to \in NodesOf(g)
      /\ \A d \in DataEdges(g) : d.from \in NodesOf(g) /\ d.to \in NodesOf(g)
  BY DEF IsGraph, DataEdges
<1>3. e.kind = "control" => e.from \notin g.gates
  BY DEF HasLoop
<1>4. IsFiniteSet(R)
  BY EdgeArcsFinite
<1> HIDE DEF L
<1>5. CASE e.kind = "control" /\ L[e.from] < L[e.to]
  <2> DEFINE P == {m \in NodesOf(g) : L[e.to] <= L[m]}
  <2>1. {e.to} \subseteq P
    BY <1>1, <1>2
  <2>2. ASSUME NEW a \in R, a[1] \in P PROVE a[2] \in P
    <3>1. PICK d \in DataEdges(g) : a = <<d.from, d.to>>
      BY DEF Arcs
    <3>2. L[d.from] < L[d.to] /\ d.from \in NodesOf(g) /\ d.to \in NodesOf(g)
      BY <1>1, <1>2
    <3>3. L[e.to] \in Nat /\ L[d.from] \in Nat /\ L[d.to] \in Nat
      BY <1>1, <1>2, <3>2
    <3> QED
      BY <2>2, <3>1, <3>2, <3>3
  <2> HIDE DEF P, R
  <2>3. Reach({e.to}, R) \subseteq P
    BY <1>4, <2>1, <2>2, ReachWithin
  <2> DEFINE lifted == Reach({e.to}, R) \ {e.from}
             need == L[e.from] + 1
  <2>4. \A m \in NodesOf(g) : ~ (m \in lifted /\ L[m] < need)
    <3> SUFFICES ASSUME NEW m \in NodesOf(g), m \in lifted PROVE ~ L[m] < need
      OBVIOUS
    <3>1. L[e.to] <= L[m]
      BY <2>3 DEF P
    <3>2. L[e.to] \in Nat /\ L[e.from] \in Nat /\ L[m] \in Nat
      BY <1>1, <1>2
    <3> QED
      BY <1>5, <3>1, <3>2
  <2>5. LiftAlong(g, L, e) = IF e.from \notin g.gates /\ L[e.to] <= L[e.from] THEN L
                             ELSE [m \in DOMAIN L |-> IF m \in lifted /\ L[m] < need
                                                      THEN need ELSE L[m]]
    BY <1>5 DEF LiftAlong, Lift, R
  <2> HIDE DEF lifted, need
  <2>6. [m \in DOMAIN L |-> IF m \in lifted /\ L[m] < need THEN need ELSE L[m]] = L
    BY <1>1, <2>4
  <2> QED
    BY <2>5, <2>6 DEF L
<1>6. CASE e.kind = "control" /\ ~ L[e.from] < L[e.to]
  <2>1. e.from \notin g.gates
    BY <1>3, <1>6
  <2>2. L[e.to] <= L[e.from]
    <3>1. L[e.to] \in Nat /\ L[e.from] \in Nat
      BY <1>1, <1>2
    <3> QED
      BY <1>6, <3>1
  <2> QED
    BY <1>6, <2>1, <2>2 DEF LiftAlong, Lift, L
<1>7. CASE e.kind # "control"
  BY <1>7 DEF LiftAlong, L
<1> QED
  BY <1>5, <1>6, <1>7

\* A finite set of numbers has a greatest.
LEMMA GreatestOf ==
  ASSUME NEW T, IsFiniteSet(T), T # {}, \A x \in T : x \in Nat
  PROVE  \E s \in T : \A x \in T : x <= s
<1> DEFINE Above(x) == {y \in T : x < y}
           F == {Above(x) : x \in T}
<1>1. F \in SUBSET (SUBSET T) /\ F # {}
  OBVIOUS
<1>2. \E f \in F : \A h \in F : h \subseteq f => h = f
  <2>1. \A G \in SUBSET (SUBSET T) : G # {} => \E f \in G : \A h \in G : h \subseteq f => h = f
    BY SmallestOf
  <2> HIDE DEF F
  <2> QED
    BY <1>1, <2>1
<1>3. PICK s \in T : \A x \in T : Above(x) \subseteq Above(s) => Above(x) = Above(s)
  <2> HIDE DEF Above
  <2> QED
    BY <1>2
<1>4. ASSUME NEW x \in T, ~ x <= s PROVE FALSE
  <2>1. x \in Above(s) /\ x \notin Above(x)
    BY <1>4
  <2>2. \A y \in T : x < y => s < y
    BY <1>4
  <2>3. Above(x) \subseteq Above(s)
    BY <2>2
  <2> HIDE DEF Above
  <2> QED
    BY <1>3, <2>1, <2>3
<1> QED
  BY <1>4

\* Every stage number is a number, whatever the lifting does.
LEMMA LiftedTyped ==
  ASSUME NEW g, IsGraph(g), Unvisited(g) = {}
  PROVE  \A k \in 0..Passes(g) : Lifted(g)[k] \in [NodesOf(g) -> Nat]
<1>1. Layer(g) \in [NodesOf(g) -> Nat]
  BY LayerIs
<1>2. \A st \in [NodesOf(g) -> Nat], e \in EdgesOf(g) : LiftAlong(g, st, e) \in [NodesOf(g) -> Nat]
  BY LiftTyped
<1> QED
  BY <1>1, <1>2, LiftedStays

\* Without a loop the stages are the layers.
LEMMA LiftedNothing ==
  ASSUME NEW g, IsGraph(g), Unvisited(g) = {}, ~ HasLoop(g)
  PROVE  Lifted(g)[Passes(g)] = Layer(g)
<1> DEFINE X == {Layer(g)}
<1>1. Layer(g) \in X /\ \A st \in X, e \in EdgesOf(g) : LiftAlong(g, st, e) \in X
  BY LiftStays
<1> HIDE DEF X
<1>2. \A k \in 0..Passes(g) : Lifted(g)[k] \in X
  BY <1>1, LiftedStays
<1>3. Passes(g) \in 0..Passes(g)
  BY GraphFinite
<1> QED
  BY <1>2, <1>3 DEF X

\* Lifting moves no node to an earlier stage.
LEMMA LiftRaises ==
  ASSUME NEW g, IsGraph(g), NEW st \in [NodesOf(g) -> Nat], NEW e \in EdgesOf(g),
         NEW n \in NodesOf(g)
  PROVE  st[n] <= LiftAlong(g, st, e)[n]
<1> DEFINE need == st[e.from] + 1
           lifted == Reach({e.to}, Arcs({d \in DataEdges(g) : d.to # e.from})) \ {e.from}
<1>1. DOMAIN st = NodesOf(g) /\ st[n] \in Nat
  OBVIOUS
<1>2. LiftAlong(g, st, e) = st \/ LiftAlong(g, st, e) =
        [m \in DOMAIN st |-> IF m \in lifted /\ st[m] < need THEN need ELSE st[m]]
  BY DEF LiftAlong, Lift
<1>3. need \in Nat
  BY DEF IsGraph
<1> HIDE DEF need, lifted
<1> QED
  BY <1>1, <1>2, <1>3

\* A pass that changes nothing lifts nothing along any edge.
LEMMA PassSettled ==
  ASSUME NEW g, IsGraph(g), NEW st \in [NodesOf(g) -> Nat], Pass(g, st) = st,
         NEW e \in EdgesOf(g)
  PROVE  LiftAlong(g, st, e) = st
<1> DEFINE N == NodesOf(g)
           X == [N -> Nat]
           D == DOMAIN g.edges
           l == Len(g.edges)
<1>1. st \in X /\ \A x \in X, d \in EdgesOf(g) : LiftAlong(g, x, d) \in X
  BY LiftTyped
<1>2. \A x \in X, d \in EdgesOf(g), n \in N : x[n] <= LiftAlong(g, x, d)[n]
  BY LiftRaises
<1>3. l \in Nat /\ D = 1..l /\ \A i \in D : g.edges[i] \in EdgesOf(g)
  BY DEF IsGraph, EdgesOf
<1> HIDE DEF X
<1>4. PICK it : Passing(it, g, st) /\ \A u \in SUBSET D : it[u] \in X
  BY <1>1, PassFolds
<1> HIDE DEF D, l
<1> DEFINE v(k) == it[1..k]
<1>5. \A k \in 1..l : Max(1..k) = k /\ (1..k) \ {k} = 1..k - 1 /\ 1..k \in SUBSET D /\ k \in 1..k
  <2> TAKE k \in 1..l
  <2>1. k \in Nat /\ 1 <= k /\ k <= l
    BY <1>3
  <2>2. (1..k) \ {k} = 1..k - 1 /\ 1..k \in SUBSET (1..l) /\ k \in 1..k
    BY <1>3, <2>1
  <2>3. k \in 1..k /\ \A y \in 1..k : k >= y
    BY <2>1
  <2>4. \A x \in 1..k : (\A y \in 1..k : x >= y) => x = k
    BY <2>1
  <2>5. Max(1..k) = k
    BY <2>3, <2>4 DEF Max
  <2> QED
    BY <1>3, <2>2, <2>5
<1>6. ASSUME NEW k \in 1..l
      PROVE  v(k) = LiftAlong(g, v(k - 1), g.edges[k]) /\ k \in D
  <2>1. Max(1..k) = k /\ (1..k) \ {k} = 1..k - 1 /\ 1..k \in SUBSET D /\ 1..k # {}
    BY <1>5
  <2>2. \A u \in SUBSET D : u # {} => it[u] = LiftAlong(g, it[u \ {Max(u)}], g.edges[Max(u)])
    BY <1>4 DEF Passing, D
  <2> QED
    BY <1>3, <2>1, <2>2
<1>7. v(0) = st /\ v(l) = st
  <2>1. 1..0 = {} /\ 1..l = D
    BY <1>3
  <2> QED
    BY <1>4, <2>1 DEF Passing, D
<1>8. \A k \in 0..l : v(k) \in X
  <2> TAKE k \in 0..l
  <2>1. 1..k \in SUBSET D
    BY <1>3
  <2> QED
    BY <1>4, <2>1
<1>9. \A k \in 1..l : k \in 0..l /\ k - 1 \in 0..l /\ k - 1 \in Nat
  BY <1>3
<1>10. \A k \in 1..l : \A n \in N : v(k - 1)[n] <= v(k)[n]
  <2> TAKE k \in 1..l
  <2>1. v(k - 1) \in X /\ g.edges[k] \in EdgesOf(g) /\ v(k) = LiftAlong(g, v(k - 1), g.edges[k])
    BY <1>3, <1>6, <1>8, <1>9
  <2> HIDE DEF v
  <2> QED
    BY <1>2, <2>1
<1> HIDE DEF v
<1>11. \A k \in 0..l : \A n \in N : v(k)[n] \in Nat
  BY <1>8 DEF X
<1> DEFINE Q == {k \in 0..l : \A i \in 0..l : i <= k => \A n \in N : v(i)[n] <= v(k)[n]}
<1>12. 0 \in Q
  BY <1>3, <1>11
<1>13. ASSUME NEW k \in 1..l, k - 1 \in Q PROVE k \in Q
  <2> SUFFICES ASSUME NEW i \in 0..l, i <= k, NEW n \in N PROVE v(i)[n] <= v(k)[n]
    BY <1>9
  <2>1. v(i)[n] \in Nat /\ v(k)[n] \in Nat /\ v(k - 1)[n] \in Nat
    BY <1>9, <1>11
  <2>2. CASE i = k
    BY <2>1, <2>2
  <2>3. CASE i # k
    <3>1. i <= k - 1
      BY <1>3, <2>3
    <3>2. v(i)[n] <= v(k - 1)[n] /\ v(k - 1)[n] <= v(k)[n]
      BY <1>10, <1>13, <3>1
    <3> QED
      BY <2>1, <3>2
  <2> QED
    BY <2>2, <2>3
<1>14. 0..l \subseteq Q
  <2> HIDE DEF Q
  <2> QED
    BY <1>3, <1>12, <1>13, UpTo
<1>15. \A k \in 0..l : v(k) = st
  <2> TAKE k \in 0..l
  <2>1. k \in Q /\ l \in Q /\ 0 \in 0..l /\ l \in 0..l /\ 0 <= k /\ k <= l
    BY <1>3, <1>14
  <2>2. \A n \in N : v(0)[n] <= v(k)[n] /\ v(k)[n] <= v(l)[n]
    BY <2>1
  <2>3. \A n \in N : v(k)[n] = st[n]
    BY <1>7, <1>11, <2>1, <2>2
  <2> QED
    BY <1>1, <1>8, <2>3 DEF X
<1>16. PICK i \in 1..l : g.edges[i] = e
  BY <1>3 DEF EdgesOf, D
<1> QED
  BY <1>6, <1>9, <1>15, <1>16

\* Where nothing is lifted any more, each control edge of a gate leads to a later
\* stage, unless it leads back into the gate itself.
LEMMA GatesLead ==
  ASSUME NEW g, IsGraph(g), Cyclic(g) = {}, NEW e \in EdgesOf(g), e.kind = "control",
         e.from \in g.gates, e.from # e.to
  PROVE  Lifted(g)[Passes(g)][e.from] < Lifted(g)[Passes(g)][e.to]
<1>1. Unvisited(g) = {} /\ Lifted(g)[Passes(g)] = Lifted(g)[Passes(g) - 1]
  <2>1. 1 \in DOMAIN g.nodes
    BY GraphFinite
  <2>2. NodesOf(g) # {}
    BY <2>1 DEF NodesOf
  <2> QED
    BY <2>2 DEF Cyclic
<1> DEFINE X == [NodesOf(g) -> Nat]
           m == Passes(g)
           st == Lifted(g)[m]
<1>2. m \in 1..m
  BY GraphFinite
<1>3. Layer(g) \in X /\ \A x \in X, d \in EdgesOf(g) : LiftAlong(g, x, d) \in X
  BY <1>1, LayerIs, LiftTyped
<1>4. /\ \A k \in 0..m : Lifted(g)[k] \in X
      /\ \A k \in 1..m : Lifted(g)[k] = Pass(g, Lifted(g)[k - 1])
  <2> HIDE DEF X
  <2> QED
    BY <1>3, LiftedStays
<1>5. st \in X /\ Pass(g, st) = st
  <2>1. m \in 0..m
    BY <1>2
  <2> HIDE DEF m, X
  <2> QED
    BY <1>1, <1>2, <1>4, <2>1 DEF m
<1> HIDE DEF st
<1>6. LiftAlong(g, st, e) = st
  BY <1>5, PassSettled
<1> DEFINE R == Arcs({d \in DataEdges(g) : d.to # e.from})
<1>7. e.to \in Reach({e.to}, R) \ {e.from}
  <2>1. IsFiniteSet(R)
    BY EdgeArcsFinite
  <2> HIDE DEF R
  <2>2. {e.to} \subseteq Reach({e.to}, R)
    BY <2>1, ReachClosed
  <2> QED
    BY <2>2
<1>8. e.to \in DOMAIN st /\ st[e.from] \in Nat /\ st[e.to] \in Nat
  BY <1>5 DEF IsGraph
<1>9. LiftAlong(g, st, e)[e.to] = IF st[e.to] < st[e.from] + 1 THEN st[e.from] + 1 ELSE st[e.to]
  BY <1>7, <1>8 DEF LiftAlong, Lift
<1> QED
  BY <1>6, <1>8, <1>9 DEF st

\* The nodes by their stages: each node is in the stage its number says.
LEMMA StagesAre ==
  ASSUME NEW g, IsGraph(g), Unvisited(g) = {}
  PROVE  \E last \in Nat :
           /\ DOMAIN Stages(g) = 1..last + 1
           /\ \A i \in 1..last + 1 :
                Stages(g)[i] = {n \in NodesOf(g) : Lifted(g)[Passes(g)][n] = i - 1}
           /\ \A n \in NodesOf(g) :
                Lifted(g)[Passes(g)][n] \in Nat /\ Lifted(g)[Passes(g)][n] <= last
<1> DEFINE st == Lifted(g)[Passes(g)]
           T == {st[n] : n \in NodesOf(g)}
           last == CHOOSE s \in T : \A n \in NodesOf(g) : st[n] <= s
<1>1. st \in [NodesOf(g) -> Nat]
  BY LiftedTyped, GraphFinite
<1>2. NodesOf(g) # {} /\ IsFiniteSet(NodesOf(g))
  <2>1. 1 \in DOMAIN g.nodes
    BY GraphFinite
  <2> QED
    BY <2>1, GraphFinite DEF NodesOf
<1> HIDE DEF st
<1>3. T # {} /\ T \in SUBSET Nat /\ IsFiniteSet(T)
  <2>1. st \in Surjection(NodesOf(g), T)
    BY <1>1 DEF Surjection
  <2> HIDE DEF T
  <2>2. IsFiniteSet(T)
    BY <1>2, <2>1, FS_Surjection
  <2> QED
    BY <1>1, <1>2, <2>2 DEF T
<1>4. \E s \in T : \A x \in T : x <= s
  <2> HIDE DEF T
  <2> QED
    BY <1>3, GreatestOf
<1>5. last \in T /\ \A n \in NodesOf(g) : st[n] <= last
  <2>1. \E s \in T : \A n \in NodesOf(g) : st[n] <= s
    BY <1>4
  <2> HIDE DEF T
  <2> QED
    BY <2>1
<1>6. Stages(g) = [i \in 1 .. last + 1 |-> {n \in NodesOf(g) : st[n] = i - 1}]
  BY DEF Stages, st
<1> HIDE DEF last, T
<1>7. last \in Nat
  BY <1>3, <1>5
<1>8. /\ DOMAIN Stages(g) = 1..last + 1
      /\ \A i \in 1..last + 1 : Stages(g)[i] = {n \in NodesOf(g) : st[n] = i - 1}
  BY <1>6
<1> QED
  BY <1>1, <1>5, <1>7, <1>8 DEF st

\* A cluster is a set of nodes of its stage, every node of the stage is in one, and
\* no node in two.
LEMMA ClustersAre ==
  ASSUME NEW g, IsGraph(g), NEW S \in SUBSET NodesOf(g)
  PROVE  /\ Clusters(g, S) \in SUBSET SUBSET S
         /\ UNION Clusters(g, S) = S
         /\ \A c, d \in Clusters(g, S) : c \cap d # {} => c = d
         /\ \A m, n \in S : m # n /\ ScopeOf(g, m) \cap ScopeOf(g, n) # {} =>
              \E c \in Clusters(g, S) : m \in c /\ n \in c
<1> DEFINE R == {p \in S \X S : p[1] # p[2] /\ ScopeOf(g, p[1]) \cap ScopeOf(g, p[2]) # {}}
<1>1. IsFiniteSet(R)
  <2>1. IsFiniteSet(S)
    BY GraphFinite, FS_Subset
  <2>2. R \subseteq S \X S
    OBVIOUS
  <2> HIDE DEF R
  <2> QED
    BY <2>1, <2>2, FS_Product, FS_Subset
<1>2. \A a \in R : a[1] \in S /\ a[2] \in S /\ \E b \in R : b[1] = a[2] /\ b[2] = a[1]
  <2> SUFFICES ASSUME NEW a \in R
               PROVE  a[1] \in S /\ a[2] \in S /\ <<a[2], a[1]>> \in R
    OBVIOUS
  <2> QED
    OBVIOUS
<1>3. \A m, n \in S : m # n /\ ScopeOf(g, m) \cap ScopeOf(g, n) # {} => <<m, n>> \in R
  OBVIOUS
<1>4. Clusters(g, S) = {Reach({n}, R) : n \in S}
  BY DEF Clusters
<1> HIDE DEF R
<1>5. \A n \in S : n \in Reach({n}, R)
  BY <1>1, ReachClosed
<1>6. \A n \in S : Reach({n}, R) \subseteq S
  <2> TAKE n \in S
  <2>1. {n} \subseteq S /\ \A a \in R : a[1] \in S => a[2] \in S
    BY <1>2
  <2> QED
    BY <1>1, <2>1, ReachWithin
<1>7. ASSUME NEW x, NEW y, Reach({x}, R) \cap Reach({y}, R) # {}
      PROVE  Reach({x}, R) = Reach({y}, R)
  <2>1. \A a \in R : \E b \in R : b[1] = a[2] /\ b[2] = a[1]
    BY <1>2
  <2> QED
    BY <1>1, <1>7, <2>1, ReachApart
<1>8. ASSUME NEW m \in S, NEW n \in S, m # n, ScopeOf(g, m) \cap ScopeOf(g, n) # {}
      PROVE  n \in Reach({m}, R)
  <2>1. <<m, n>> \in R
    BY <1>3, <1>8
  <2>2. \A a \in R : a[1] \in Reach({m}, R) => a[2] \in Reach({m}, R)
    BY <1>1, ReachClosed
  <2> QED
    BY <1>5, <2>1, <2>2
<1>9. Clusters(g, S) \in SUBSET SUBSET S /\ UNION Clusters(g, S) = S
  BY <1>4, <1>5, <1>6
<1>10. \A c, d \in Clusters(g, S) : c \cap d # {} => c = d
  BY <1>4, <1>7
<1>11. \A m, n \in S : m # n /\ ScopeOf(g, m) \cap ScopeOf(g, n) # {} =>
         \E c \in Clusters(g, S) : m \in c /\ n \in c
  BY <1>4, <1>5, <1>8
<1> QED
  BY <1>9, <1>10, <1>11

\* What the plan of a graph holds.
LEMMA PlanIs ==
  ASSUME NEW g
  PROVE  LET p == Compile(g) IN
           /\ p.nodes = NodesOf(g) /\ p.edges = EdgesOf(g) /\ p.gates = g.gates
           /\ p.rank = [n \in NodesOf(g) |-> CHOOSE i \in DOMAIN g.nodes : g.nodes[i] = n]
           /\ p.scopes = [n \in NodesOf(g) |-> ScopeOf(g, n)]
           /\ p.cyclic = Cyclic(g) /\ p.hasLoop = HasLoop(g) /\ p.redone = Redone(g)
           /\ Cyclic(g) # {} => p.clusters = << >>
           /\ Cyclic(g) = {} =>
                /\ Unvisited(g) = {}
                /\ p.clusters = [i \in DOMAIN Stages(g) |-> Clusters(g, Stages(g)[i])]
BY DEF Compile, Cyclic

-----------------------------------------------------------------------------
(* What the engine owes to the compilation of its plans. *)

\* Nodes of a stage that touch a common resource share a cluster, in which no two
\* have the same place.
Gathered(p) ==
  \A i \in DOMAIN p.clusters : \A m, n \in UNION p.clusters[i] :
    m # n /\ p.scopes[m] \cap p.scopes[n] # {} =>
      \E c \in p.clusters[i] :
        /\ m \in c /\ n \in c
        /\ p.rank[m] < p.rank[n] \/ p.rank[n] < p.rank[m]

\* Where the target of e is in a stage, its source is in an earlier one.
LeadsOn(p, e) ==
  \A j \in DOMAIN p.clusters : e.to \in UNION p.clusters[j] =>
    \E i \in DOMAIN p.clusters : i < j /\ e.from \in UNION p.clusters[i]

\* Every plan is compiled from a graph on the canvas.
Compiled(p) == \E g : IsGraph(g) /\ p = Compile(g)

\* What the model takes for granted of its plans holds of every compiled one.
THEOREM CompiledPlans ==
  ASSUME NEW g, IsGraph(g), NodesOf(g) \subseteq Nodes, NEW p, p = Compile(g)
  PROVE  /\ p.cyclic # {} \/ p.clusters # << >>
         /\ p.redone \subseteq Nodes /\ p.clusters \in Seq(SUBSET SUBSET Nodes)
         /\ \A i, j \in DOMAIN p.clusters : \A c \in p.clusters[i], d \in p.clusters[j] :
              c \cap d # {} => i = j /\ c = d
<1> DEFINE N == NodesOf(g)
<1>1. /\ p.cyclic = Cyclic(g) /\ p.redone = Redone(g)
      /\ Cyclic(g) # {} => p.clusters = << >>
      /\ Cyclic(g) = {} =>
           /\ Unvisited(g) = {}
           /\ p.clusters = [i \in DOMAIN Stages(g) |-> Clusters(g, Stages(g)[i])]
  BY PlanIs
<1>2. p.redone \subseteq Nodes
  <2>1. ASSUME NEW gate PROVE Body(g, gate) \subseteq N
    <3> DEFINE seeds == {e.to : e \in {d \in EdgesOf(g) : d.kind = "control" /\ d.from = gate}} \ {gate}
               A == {e \in EdgesOf(g) : e.to # gate}
    <3>1. seeds \subseteq N
      BY DEF IsGraph
    <3>2. \A a \in Arcs(A) : a[1] \in N => a[2] \in N
      BY DEF IsGraph, Arcs
    <3>3. IsFiniteSet(Arcs(A))
      <4>1. A \subseteq EdgesOf(g)
        OBVIOUS
      <4> HIDE DEF A
      <4> QED
        BY <4>1, GraphFinite, FS_Subset, ArcsFinite
    <3>4. Body(g, gate) = Reach(seeds, Arcs(A))
      BY DEF Body
    <3> HIDE DEF seeds, A, N
    <3> QED
      BY <3>1, <3>2, <3>3, <3>4, ReachWithin
  <2>2. g.gates \subseteq N
    BY DEF IsGraph
  <2> QED
    BY <1>1, <2>1, <2>2 DEF Redone
<1>3. CASE Cyclic(g) # {}
  <2>1. p.cyclic # {} /\ p.clusters = << >> /\ DOMAIN p.clusters = {}
    BY <1>1, <1>3
  <2>2. \A X : << >> \in Seq(X)
    OBVIOUS
  <2> QED
    BY <1>2, <2>1, <2>2
<1>4. CASE Cyclic(g) = {}
  <2> DEFINE st == Lifted(g)[Passes(g)]
  <2>1. PICK last \in Nat :
          /\ DOMAIN Stages(g) = 1..last + 1
          /\ \A i \in 1..last + 1 : Stages(g)[i] = {n \in N : st[n] = i - 1}
          /\ \A n \in N : st[n] \in Nat /\ st[n] <= last
    BY <1>1, <1>4, StagesAre
  <2>2. p.clusters = [i \in 1..last + 1 |-> Clusters(g, Stages(g)[i])]
    BY <1>1, <1>4, <2>1
  <2>3. ASSUME NEW S \in SUBSET N
        PROVE  /\ Clusters(g, S) \in SUBSET SUBSET S
               /\ \A c, d \in Clusters(g, S) : c \cap d # {} => c = d
    BY ClustersAre
  <2>4. \A i \in 1..last + 1 : Stages(g)[i] \in SUBSET N
    BY <2>1
  <2> HIDE DEF st, N
  <2>5. \A i \in 1..last + 1 : Clusters(g, Stages(g)[i]) \in SUBSET SUBSET Nodes
    <3>1. N \subseteq Nodes
      BY DEF N
    <3> QED
      BY <2>3, <2>4, <3>1
  <2>6. last + 1 \in Nat /\ 1 \in 1..last + 1
    BY <2>1
  <2>7. p.clusters \in Seq(SUBSET SUBSET Nodes) /\ p.clusters # << >>
    <3> DEFINE X == SUBSET SUBSET Nodes
    <3>1. p.clusters \in [1..last + 1 -> X] /\ DOMAIN p.clusters # {}
      BY <2>2, <2>5, <2>6
    <3> HIDE DEF X
    <3> QED
      BY <2>6, <3>1 DEF X
  <2>8. ASSUME NEW i \in DOMAIN p.clusters, NEW j \in DOMAIN p.clusters,
               NEW c \in p.clusters[i], NEW d \in p.clusters[j], c \cap d # {}
        PROVE  i = j /\ c = d
    <3>1. /\ i \in 1..last + 1 /\ j \in 1..last + 1
          /\ c \in Clusters(g, Stages(g)[i]) /\ d \in Clusters(g, Stages(g)[j])
      BY <2>2, <2>8
    <3>2. c \subseteq Stages(g)[i] /\ d \subseteq Stages(g)[j]
      BY <2>3, <2>4, <3>1
    <3>3. PICK n \in N : st[n] = i - 1 /\ st[n] = j - 1
      BY <2>1, <2>8, <3>1, <3>2
    <3>4. i = j
      BY <2>6, <3>1, <3>3
    <3> QED
      BY <2>3, <2>4, <2>8, <3>1, <3>4
  <2> QED
    BY <1>1, <1>2, <2>7, <2>8
<1> QED
  BY <1>3, <1>4

\* Compiled plans gather the nodes with common resources.
LEMMA CompiledGathered ==
  ASSUME NEW g, IsGraph(g), NEW p, p = Compile(g)
  PROVE  Gathered(p)
<1>1. /\ p.scopes = [n \in NodesOf(g) |-> ScopeOf(g, n)]
      /\ p.rank = [n \in NodesOf(g) |-> CHOOSE i \in DOMAIN g.nodes : g.nodes[i] = n]
      /\ Cyclic(g) # {} => p.clusters = << >>
      /\ Cyclic(g) = {} =>
           /\ Unvisited(g) = {}
           /\ p.clusters = [i \in DOMAIN Stages(g) |-> Clusters(g, Stages(g)[i])]
  BY PlanIs
<1> SUFFICES ASSUME NEW i \in DOMAIN p.clusters, NEW m \in UNION p.clusters[i],
                    NEW n \in UNION p.clusters[i],
                    m # n, p.scopes[m] \cap p.scopes[n] # {}
             PROVE  \E c \in p.clusters[i] :
                      /\ m \in c /\ n \in c
                      /\ p.rank[m] < p.rank[n] \/ p.rank[n] < p.rank[m]
  BY DEF Gathered
<1>2. Cyclic(g) = {}
  BY <1>1
<1>3. p.clusters = [k \in DOMAIN Stages(g) |-> Clusters(g, Stages(g)[k])] /\ Unvisited(g) = {}
  BY <1>1, <1>2
<1>4. i \in DOMAIN Stages(g) /\ p.clusters[i] = Clusters(g, Stages(g)[i])
  BY <1>3
<1>5. Stages(g)[i] \in SUBSET NodesOf(g)
  <2>1. PICK last \in Nat :
          /\ DOMAIN Stages(g) = 1..last + 1
          /\ \A k \in 1..last + 1 : Stages(g)[k] = {x \in NodesOf(g) : Lifted(g)[Passes(g)][x] = k - 1}
    BY <1>3, StagesAre
  <2> QED
    BY <1>4, <2>1
<1>6. /\ UNION p.clusters[i] = Stages(g)[i]
      /\ \A x, y \in Stages(g)[i] : x # y /\ ScopeOf(g, x) \cap ScopeOf(g, y) # {} =>
           \E c \in p.clusters[i] : x \in c /\ y \in c
  BY <1>4, <1>5, ClustersAre
<1>7. m \in Stages(g)[i] /\ n \in Stages(g)[i] /\ m \in NodesOf(g) /\ n \in NodesOf(g)
  BY <1>5, <1>6
<1>8. p.scopes[m] = ScopeOf(g, m) /\ p.scopes[n] = ScopeOf(g, n)
  BY <1>1, <1>7
<1>9. PICK c \in p.clusters[i] : m \in c /\ n \in c
  BY <1>6, <1>7, <1>8
<1>10. p.rank[m] < p.rank[n] \/ p.rank[n] < p.rank[m]
  <2>1. \A x \in NodesOf(g) : \E k \in DOMAIN g.nodes : g.nodes[k] = x
    BY DEF NodesOf
  <2>2. \A x \in NodesOf(g) : p.rank[x] \in DOMAIN g.nodes /\ g.nodes[p.rank[x]] = x
    BY <1>1, <2>1
  <2>3. p.rank[m] # p.rank[n] /\ p.rank[m] \in DOMAIN g.nodes /\ p.rank[n] \in DOMAIN g.nodes
    BY <1>7, <2>2
  <2>4. p.rank[m] \in Nat /\ p.rank[n] \in Nat
    BY <2>3, GraphFinite
  <2> QED
    BY <2>3, <2>4
<1> QED
  BY <1>9, <1>10


\* An edge of a compiled plan leads on when its target's stage number is greater.
LEMMA StagesLead ==
  ASSUME NEW g, IsGraph(g), NEW p, p = Compile(g), NEW e \in EdgesOf(g),
         Cyclic(g) = {} => Lifted(g)[Passes(g)][e.from] < Lifted(g)[Passes(g)][e.to]
  PROVE  LeadsOn(p, e)
<1>1. /\ Cyclic(g) # {} => p.clusters = << >>
      /\ Cyclic(g) = {} =>
           /\ Unvisited(g) = {}
           /\ p.clusters = [i \in DOMAIN Stages(g) |-> Clusters(g, Stages(g)[i])]
  BY PlanIs
<1> SUFFICES ASSUME NEW j \in DOMAIN p.clusters, e.to \in UNION p.clusters[j]
             PROVE  \E i \in DOMAIN p.clusters : i < j /\ e.from \in UNION p.clusters[i]
  BY DEF LeadsOn
<1>2. Cyclic(g) = {}
  BY <1>1
<1>3. p.clusters = [k \in DOMAIN Stages(g) |-> Clusters(g, Stages(g)[k])] /\ Unvisited(g) = {}
  BY <1>1, <1>2
<1> DEFINE L == Lifted(g)[Passes(g)]
<1>4. L[e.from] < L[e.to]
  BY <1>2
<1>5. PICK last \in Nat :
        /\ DOMAIN Stages(g) = 1..last + 1
        /\ \A i \in 1..last + 1 : Stages(g)[i] = {n \in NodesOf(g) : L[n] = i - 1}
        /\ \A n \in NodesOf(g) : L[n] \in Nat /\ L[n] <= last
  BY <1>3, StagesAre
<1> HIDE DEF L
<1>6. e.from \in NodesOf(g) /\ e.to \in NodesOf(g)
  BY DEF IsGraph
<1>7. \A k \in 1..last + 1 :
        p.clusters[k] = Clusters(g, Stages(g)[k]) /\ UNION p.clusters[k] = Stages(g)[k]
  <2> TAKE k \in 1..last + 1
  <2>1. p.clusters[k] = Clusters(g, Stages(g)[k]) /\ Stages(g)[k] \in SUBSET NodesOf(g)
    BY <1>3, <1>5
  <2>2. UNION Clusters(g, Stages(g)[k]) = Stages(g)[k]
    BY <2>1, ClustersAre
  <2> QED
    BY <2>1, <2>2
<1>8. DOMAIN p.clusters = 1..last + 1
  BY <1>3, <1>5
<1>9. L[e.to] = j - 1
  BY <1>5, <1>7, <1>8
<1> DEFINE i == L[e.from] + 1
<1>10. L[e.from] \in Nat /\ L[e.to] \in Nat /\ L[e.from] <= last
  BY <1>5, <1>6
<1>11. i \in 1..last + 1 /\ i < j /\ i - 1 = L[e.from]
  BY <1>4, <1>8, <1>9, <1>10
<1> HIDE DEF i
<1>12. e.from \in UNION p.clusters[i]
  BY <1>5, <1>6, <1>7, <1>11
<1> QED
  BY <1>8, <1>11, <1>12

\* In a graph with a loop the lifting left no data edge within a stage or backward,
\* and no gate is in its own body.
LoopInStages(g) ==
  \A e \in EdgesOf(g) :
    IF e.kind = "control" THEN e.from \in g.gates => e.from # e.to
    ELSE Lifted(g)[Passes(g)][e.from] < Lifted(g)[Passes(g)][e.to]

\* What a node depends on is in an earlier stage than the node.
LEMMA DependenciesLead ==
  ASSUME NEW g, IsGraph(g), HasLoop(g) => LoopInStages(g), NEW p, p = Compile(g),
         NEW e \in p.edges, e.kind # "control" \/ e.from \in p.gates
  PROVE  LeadsOn(p, e)
<1>1. e \in EdgesOf(g) /\ (e.kind # "control" \/ e.from \in g.gates)
  BY PlanIs
<1> DEFINE L == Lifted(g)[Passes(g)]
<1>2. ASSUME Cyclic(g) = {} PROVE L[e.from] < L[e.to]
  <2>1. Unvisited(g) = {}
    BY <1>2, PlanIs
  <2>2. CASE HasLoop(g) /\ e.kind = "control"
    <3>1. e.from # e.to
      BY <1>1, <2>2 DEF LoopInStages
    <3> QED
      BY <1>1, <1>2, <2>2, <3>1, GatesLead
  <2>3. CASE HasLoop(g) /\ e.kind # "control"
    BY <1>1, <2>3 DEF LoopInStages
  <2>4. CASE ~ HasLoop(g)
    <3>1. e \in DataEdges(g) /\ e.to \in NodesOf(g) \ Unvisited(g)
      BY <1>1, <2>1, <2>4 DEF DataEdges, IsGraph, HasLoop
    <3>2. Layer(g)[e.from] < Layer(g)[e.to]
      BY <3>1, LayerIs
    <3>3. L = Layer(g)
      BY <2>1, <2>4, LiftedNothing
    <3> QED
      BY <3>2, <3>3
  <2> QED
    BY <2>2, <2>3, <2>4
<1> HIDE DEF L
<1> QED
  BY <1>1, <1>2, StagesLead DEF L

\* While a node executes, the source of an edge that leads on to it is over.
LEMMA SourceOver ==
  ASSUME IInv, NEW r \in Gens, NEW n \in Nodes, Busy(runs[r].node[n]),
         NEW e \in EdgesTo(n), LeadsOn(plan, e)
  PROVE  Over(runs[r].node[e.from])
<1>1. /\ runs[r].phase = "stage" /\ runs[r].stage \in DOMAIN plan.clusters
      /\ n \in Stage(runs[r].stage)
  BY DEF IInv, Inside
<1>2. PICK i \in DOMAIN plan.clusters : i < runs[r].stage /\ e.from \in Stage(i)
  BY <1>1 DEF LeadsOn, EdgesTo, Stage
<1> QED
  BY <1>1, <1>2 DEF IInv, Inside

\* Whatever the graph of a workflow, no two nodes of it that touch a common resource
\* execute together in a run.
THEOREM ResourcesApart ==
  ASSUME \A p \in Plans : Compiled(p)
  PROVE  Spec => []ScopesApart
<1>1. IInv => ScopesApart
  <2> SUFFICES ASSUME IInv, NEW r \in Gens, NEW m \in Nodes, NEW n \in Nodes,
                      m # n, Busy(runs[r].node[m]), Busy(runs[r].node[n]),
                      plan.scopes[m] \cap plan.scopes[n] # {}
               PROVE  FALSE
    BY DEF ScopesApart
  <2>1. /\ runs[r].phase = "stage" /\ runs[r].stage \in DOMAIN plan.clusters
        /\ m \in Stage(runs[r].stage) /\ n \in Stage(runs[r].stage)
    BY DEF IInv, Inside
  <2>2. Gathered(plan)
    BY CompiledGathered DEF IInv, Compiled
  <2>3. PICK c \in plan.clusters[runs[r].stage] :
          /\ m \in c /\ n \in c
          /\ plan.rank[m] < plan.rank[n] \/ plan.rank[n] < plan.rank[m]
    BY <2>1, <2>2 DEF Gathered, Stage
  <2>4. \A k \in {m, n} : runs[r].node[k] # "waiting" /\ ~ Over(runs[r].node[k])
    BY DEF Busy, Over
  <2> QED  BY <2>1, <2>3, <2>4 DEF IInv, Inside
<1> QED  BY <1>1, Invariance, PTL

\* In a workflow without a loop a node executes only when what it depends on is
\* over; in one with a loop too, if the lifting left its data edges in order.
THEOREM InOrder ==
  ASSUME \A p \in Plans :
           \E g : IsGraph(g) /\ (HasLoop(g) => LoopInStages(g)) /\ p = Compile(g)
  PROVE  Spec => []StartsInOrder
<1>1. IInv => StartsInOrder
  <2> SUFFICES ASSUME IInv, NEW r \in Gens, NEW n \in Nodes, Busy(runs[r].node[n]),
                      NEW e \in EdgesTo(n), e.kind # "control" \/ e.from \in plan.gates
               PROVE  Over(runs[r].node[e.from])
    BY DEF StartsInOrder
  <2>1. e \in plan.edges
    BY DEF EdgesTo
  <2>2. LeadsOn(plan, e)
    BY <2>1, DependenciesLead DEF IInv
  <2> QED  BY <2>2, SourceOver
<1> QED  BY <1>1, Invariance, PTL

\* The body of a loop starts only when its gate is over.
BodyAfterGate ==
  \A r \in Gens, n \in Nodes : Busy(runs[r].node[n]) =>
    \A e \in EdgesTo(n) :
      e.kind = "control" /\ e.from \in plan.gates /\ e.from # n => Over(runs[r].node[e.from])

\* The lifting always brings the nodes a gate's control edges lead to behind the
\* gate, whatever it does to the data edges among them: where it does not settle, the
\* graph is refused.
THEOREM BodiesWait ==
  ASSUME \A p \in Plans : Compiled(p)
  PROVE  Spec => []BodyAfterGate
<1>1. IInv => BodyAfterGate
  <2> SUFFICES ASSUME IInv, NEW r \in Gens, NEW n \in Nodes, Busy(runs[r].node[n]),
                      NEW e \in EdgesTo(n), e.kind = "control", e.from \in plan.gates,
                      e.from # n
               PROVE  Over(runs[r].node[e.from])
    BY DEF BodyAfterGate
  <2>1. e \in plan.edges /\ e.to = n
    BY DEF EdgesTo
  <2>2. PICK g : IsGraph(g) /\ plan = Compile(g)
    BY DEF IInv, Compiled
  <2>3. e \in EdgesOf(g) /\ e.from \in g.gates
    BY <2>1, <2>2, PlanIs
  <2>4. Cyclic(g) = {} => Lifted(g)[Passes(g)][e.from] < Lifted(g)[Passes(g)][e.to]
    BY <2>1, <2>2, <2>3, GatesLead
  <2>5. LeadsOn(plan, e)
    BY <2>2, <2>3, <2>4, StagesLead
  <2> QED  BY <2>5, SourceOver
<1> QED  BY <1>1, Invariance, PTL

=============================================================================
