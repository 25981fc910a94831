------------------------------ MODULE RunPlan ------------------------------
(***************************************************************************)
(* The execution plan of a workflow, compiled from its graph before a run: *)
(* the stages in which nodes may run, the clusters of a stage whose nodes  *)
(* must not run together, and the bodies of its loops.                     *)
(*                                                                         *)
(* A graph has a sequence of nodes, a sequence of edges (an edge leaves a  *)
(* handle of its source, is of kind "data" or "control", and may claim a   *)
(* scope: resources its target touches) and the set of its loop gates.     *)
(* Subgraphs are taken as already expanded.                                *)
(***************************************************************************)
EXTENDS Naturals, Sequences, FiniteSets, SequencesExt

NodesOf(g) == {g.nodes[i] : i \in DOMAIN g.nodes}
EdgesOf(g) == {g.edges[i] : i \in DOMAIN g.edges}
Incoming(g, n) == {e \in EdgesOf(g) : e.to = n}
DataEdges(g) == {e \in EdgesOf(g) : e.kind # "control"}
ControlEdges(g) == {i \in DOMAIN g.edges : g.edges[i].kind = "control"}
Arcs(edges) == {<<e.from, e.to>> : e \in edges}

\* What can be reached from the set S along the arcs of R, S included.
Reach(S, R) ==
  LET step[k \in 0 .. Cardinality(R)] ==
        IF k = 0 THEN S
        ELSE step[k - 1] \cup {a[2] : a \in {b \in R : b[1] \in step[k - 1]}}
  IN  step[Cardinality(R)]

-----------------------------------------------------------------------------
\* Kahn's layers over the data edges: Visited(g)[k] are the nodes of the first
\* k layers. What is never visited lies on a cycle or behind one.
Visited(g) ==
  LET done[k \in 0 .. Len(g.nodes)] ==
        IF k = 0 THEN {}
        ELSE {n \in NodesOf(g) :
                \A e \in DataEdges(g) : e.to = n => e.from \in done[k - 1]}
  IN  done

Unvisited(g) == NodesOf(g) \ Visited(g)[Len(g.nodes)]

Layer(g) ==
  [n \in NodesOf(g) \ Unvisited(g) |->
     CHOOSE k \in 0 .. Len(g.nodes) - 1 :
       n \in Visited(g)[k + 1] \ Visited(g)[k]]

\* A control edge lifts its target, and what follows it along data edges up to
\* the edge's source, to the stage after the source. An edge back to an earlier
\* stage lifts nothing, unless it leaves a loop gate.
Lift_anyBack(g, stage, e) ==
  LET need == stage[e.from] + 1
      lifted == Reach({e.to}, Arcs({d \in DataEdges(g) : d.to # e.from})) \ {e.from}
  IN  IF stage[e.to] <= stage[e.from] THEN stage
      ELSE [n \in DOMAIN stage |->
              IF n \in lifted /\ stage[n] < need THEN need ELSE stage[n]]

Lift(g, stage, e) ==
  LET need == stage[e.from] + 1
      lifted == Reach({e.to}, Arcs({d \in DataEdges(g) : d.to # e.from})) \ {e.from}
  IN  IF e.from \notin g.gates /\ stage[e.to] <= stage[e.from] THEN stage
      ELSE [n \in DOMAIN stage |->
              IF n \in lifted /\ stage[n] < need THEN need ELSE stage[n]]

LiftAlong(g, stage, e) == IF e.kind = "control" THEN Lift(g, stage, e) ELSE stage

\* One pass over the control edges, and the stages after each pass: as many
\* passes as the code allows before it gives up.
Pass(g, stage) == FoldLeft(LAMBDA s, e : LiftAlong(g, s, e), stage, g.edges)
Passes(g) == IF ControlEdges(g) = {} THEN Len(g.nodes)
             ELSE Len(g.nodes) * Cardinality(ControlEdges(g))
Lifted(g) ==
  LET pass[k \in 0 .. Passes(g)] == IF k = 0 THEN Layer(g) ELSE Pass(g, pass[k - 1])
  IN  pass

\* The nodes for which there is no order: on a data cycle, or all of them when
\* the lifting does not settle. A graph that has some is not run.
Cyclic(g) ==
  IF Unvisited(g) # {} THEN Unvisited(g)
  ELSE IF Lifted(g)[Passes(g)] # Lifted(g)[Passes(g) - 1] THEN NodesOf(g)
  ELSE {}

Stages(g) ==
  LET stage == Lifted(g)[Passes(g)]
      last == CHOOSE s \in {stage[n] : n \in NodesOf(g)} :
                \A n \in NodesOf(g) : stage[n] <= s
  IN  [i \in 1 .. last + 1 |-> {n \in NodesOf(g) : stage[n] = i - 1}]

-----------------------------------------------------------------------------
\* Nodes of a stage whose incoming edges claim a common resource go, with all
\* they conflict with in turn, in one cluster.
ScopeOf(g, n) == UNION {e.scope : e \in Incoming(g, n)}
Clusters_alone(g, stage) == {{n} : n \in stage}
Clusters(g, stage) ==
  LET conflict == {p \in stage \X stage :
                     p[1] # p[2] /\ ScopeOf(g, p[1]) \cap ScopeOf(g, p[2]) # {}}
  IN  {Reach({n}, conflict) : n \in stage}

\* The body of a loop is what its gate's control edges lead to along edges of
\* any kind, up to the gate.
HasLoop(g) == \E e \in EdgesOf(g) : e.kind = "control" /\ e.from \in g.gates
Body(g, gate) ==
  LET seeds == {e.to : e \in {d \in EdgesOf(g) : d.kind = "control" /\ d.from = gate}}
  IN  Reach(seeds \ {gate}, Arcs({e \in EdgesOf(g) : e.to # gate}))

\* The nodes each round after the first computes anew.
Redone(g) ==
  IF HasLoop(g) THEN g.gates \cup UNION {Body(g, gate) : gate \in g.gates} ELSE {}

Compile(g) ==
  [nodes    |-> NodesOf(g),
   edges    |-> EdgesOf(g),
   rank     |-> [n \in NodesOf(g) |-> CHOOSE i \in DOMAIN g.nodes : g.nodes[i] = n],
   scopes   |-> [n \in NodesOf(g) |-> ScopeOf(g, n)],
   gates    |-> g.gates,
   cyclic   |-> Cyclic(g),
   clusters |-> IF Cyclic(g) # {} THEN << >>
                ELSE [i \in DOMAIN Stages(g) |-> Clusters(g, Stages(g)[i])],
   hasLoop  |-> HasLoop(g),
   redone   |-> Redone(g)]
=============================================================================
