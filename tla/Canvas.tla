------------------------------- MODULE Canvas -------------------------------
(***************************************************************************)
(* The canvas of one window: the graph of the active workflow with its     *)
(* history, the clipboard, groups and subgraphs (src/src/store/            *)
(* workflow*Commands.ts, workflowGraph.ts, src/src/canvas).                *)
(*                                                                         *)
(* A node is a number, fresh when it is created; `made' says of every node *)
(* whether it refers to a subgraph.  A plain node has one input and one    *)
(* output; a reference has those of its subgraph, each named by the inner  *)
(* node it stands for.  An edge joins two ports, <<node, inner>> with      *)
(* inner = Sole for a plain node.  Positions, parameters, labels and the    *)
(* types of ports are left out; statuses and saving are other modules'.    *)
(***************************************************************************)
EXTENDS Naturals, Sequences
LOCAL INSTANCE FiniteSets
LOCAL INSTANCE SequencesExt

CONSTANTS
  Sheet,        \* workflow ids
  HomeSheet,    \* the active workflow at the start
  Sub,          \* subgraph ids
  NoSub,
  MaxMade,      \* bound: nodes ever created
  MaxPast,      \* maxHistory, 100 in the code
  MaxCommands   \* bound: commands of the user

ASSUME CanvasAssumption ==
  /\ HomeSheet \in Sheet /\ NoSub \notin Sub
  /\ MaxMade \in Nat /\ MaxPast \in Nat \ {0} /\ MaxCommands \in Nat

VARIABLES
  cv,      \* the part of the store the canvas shows and changes
  made,    \* Seq(Sub \cup {NoSub}): what every node created so far is
  editor,  \* the subgraph open in SubgraphEditor, with its nodes and edges
  done     \* how many commands the user gave

canvasVars == <<cv, made, editor, done>>

Sole == 0
Lost == 0   \* the node of an edge tied to a port whose inner node is gone
Blank == [nodes |-> {}, edges |-> {}]
NoDef == [nodes |-> {}, edges |-> {}, ins |-> {}, outs |-> {}, there |-> FALSE]

IsRef(n) == made[n] \in Sub

-----------------------------------------------------------------------------
(* Graphs *)

Within(E, N) == {e \in E : e[1][1] \in N /\ e[2][1] \in N}
Without(g, N) == [nodes |-> g.nodes \ N, edges |-> Within(g.edges, g.nodes \ N)]

\* resolvePorts: a reference whose definition is gone has no port.
Inputs(n) == IF IsRef(n) THEN cv.defs[made[n]].ins ELSE {Sole}
Outputs(n) == IF IsRef(n) THEN cv.defs[made[n]].outs ELSE {Sole}

\* wouldCreateCycle.
ClosesCycle(a, b, E) ==
  LET reached[k \in 0..Len(made)] ==
        IF k = 0 THEN {b}
        ELSE LET before == reached[k-1]
             IN  before \cup {e[2][1] : e \in {x \in E : x[1][1] \in before}}
  IN  a \in reached[Len(made)]

\* inferPorts: what no inner edge occupies is a port of the subgraph.  The
\* definition of a reference's own ports is not in the table of node types.
FreeInputs(N, E) == {n \in N : ~IsRef(n) /\ \A e \in E : e[2] # <<n, Sole>>}
FreeOutputs(N, E) == {n \in N : ~IsRef(n) /\ \A e \in E : e[1] # <<n, Sole>>}

\* snapshotPush: the graph only, no group and no definition; what was undone
\* is forgotten.
Remembered(c) ==
  LET longer == Append(c.past, c.graph)
  IN  [c EXCEPT !.past = IF Len(longer) > MaxPast THEN Tail(longer) ELSE longer,
                !.future = <<>>]

\* switchWorkflow writes the canvas back; the activation of a new or of the next
\* workflow does not.
WrittenBack(c) == [c.sheets EXCEPT ![c.active] = [graph |-> c.graph, groups |-> c.groups]]
NoSheet == [graph |-> Blank, groups |-> {}]

\* Fresh copies of the nodes N, as a function from N.
Copies(N) == [n \in N |-> Len(made) + Cardinality({m \in N : m <= n})]
Creates(kinds) == Len(made) + Len(kinds) <= MaxMade /\ made' = made \o kinds
CreatesCopies(N) ==
  LET copy == Copies(N)
  IN  Creates([i \in 1..Cardinality(N) |-> made[CHOOSE n \in N : copy[n] = Len(made) + i]])

-----------------------------------------------------------------------------
CanvasInit ==
  /\ made = <<NoSub, NoSub, NoSub>>
  /\ cv = [graph |-> [nodes |-> {1, 2}, edges |-> {<<<<1, Sole>>, <<2, Sole>>>>}],
           groups |-> {}, active |-> HomeSheet,
           sheets |-> [w \in Sheet |-> IF w = HomeSheet THEN NoSheet
                                       ELSE [NoSheet EXCEPT !.graph.nodes = {3}]],
           open |-> Sheet, past |-> <<>>, future |-> <<>>, clip |-> Blank,
           defs |-> [s \in Sub |-> NoDef]]
  /\ editor = [sub |-> NoSub, nodes |-> {}, edges |-> {}]
  /\ done = 0

\* The effect of GroupLayer that follows a change of the nodes is due.
Stray(c) == {g \in c.groups : ~(g.members \subseteq c.graph.nodes)}

\* A command of the user at the canvas: effects have run, the editor is closed.
Commands(next) ==
  /\ done' = done + 1
  /\ Stray(cv) = {} /\ editor.sub = NoSub
  /\ cv' = next /\ UNCHANGED editor
Plainly == UNCHANGED made

-----------------------------------------------------------------------------
(* Nodes and edges *)

\* addNode.
WithNode(c) == [Remembered(c) EXCEPT !.graph.nodes = @ \cup {Len(made) + 1}]

\* A node is dropped on the canvas.
DropNode == Creates(<<NoSub>>) /\ Commands(WithNode(cv))

\* classifyConnection: every type of port here fits every other.
Connections(a, b, E) ==
  IF ClosesCycle(a, b, E) THEN {}
  ELSE {<<<<a, p>>, <<b, q>>>> : p \in Outputs(a), q \in Inputs(b)}

\* onConnect: a refused connection leaves no trace in the history.
Linked(c, e) == [Remembered(c) EXCEPT !.graph.edges = @ \cup {e}]
Link(a, b) ==
  /\ \E e \in Connections(a, b, cv.graph.edges) : Commands(Linked(cv, e))
  /\ Plainly

\* onPickNode: an edge pulled from a to an empty place makes a node and the edge,
\* two commands in the history.
PickNode(a) ==
  /\ Creates(<<NoSub>>)
  /\ \E p \in Outputs(a) :
       Commands(Linked(WithNode(cv), <<<<a, p>>, <<Len(made) + 1, Sole>>>>))

\* alignSelected and distributeSelected: positions only, but remembered, as is a
\* command of subgraphs that is refused.
Arrange == Commands(Remembered(cv)) /\ Plainly

\* loadGraph, from a template or an imported file: nothing is remembered, and the
\* groups of what was there stay for the effect to find.
LoadGraph ==
  /\ Creates(<<NoSub>>)
  /\ Commands([cv EXCEPT !.graph = [Blank EXCEPT !.nodes = {Len(made) + 1}]])

\* onReconnect: the end of an edge is dragged to another node.  An edge tied to
\* a missing node is not drawn.
Relink(e, b) ==
  /\ {e[1][1], e[2][1]} \subseteq cv.graph.nodes
  /\ \E f \in Connections(e[1][1], b, cv.graph.edges \ {e}) :
       /\ f[1] = e[1]
       /\ Commands([Remembered(cv) EXCEPT !.graph.edges = (@ \ {e}) \cup {f}])
  /\ Plainly

\* The delete key (the changes of React Flow) and removeNode: nothing is remembered.
Erase(N) == Commands([cv EXCEPT !.graph = Without(@, N)]) /\ Plainly

\* deleteSelected with the focus in the canvas, and clearGraph.
DeleteSelected(N) == Commands([Remembered(cv) EXCEPT !.graph = Without(@, N)]) /\ Plainly
ClearGraph == Commands([Remembered(cv) EXCEPT !.graph = Blank, !.groups = {}]) /\ Plainly

\* deleteSelected with the focus in the pane of a split view: the history of the
\* canvas takes the active graph, the deletion is in the other workflow.
DeleteInPane(w, N) ==
  /\ w # cv.active
  /\ Commands([Remembered(cv) EXCEPT !.sheets[w].graph = Without(@, N)])
  /\ Plainly

\* Erasing in the pane: updateWorkflowGraph writes its copy to the registry, for
\* the active workflow as well, whose canvas does not see it.
EraseInPane(w, N) ==
  Commands([cv EXCEPT !.sheets[w].graph = Without(@, N)]) /\ Plainly

\* copySelection and pasteClipboard: the clipboard outlives every switch.
CopySelection(N) ==
  /\ Commands([cv EXCEPT !.clip = [nodes |-> N, edges |-> Within(cv.graph.edges, N)]])
  /\ Plainly

Pasted(c, clip) ==
  LET copy == Copies(clip.nodes)
  IN  [Remembered(c) EXCEPT
        !.graph.nodes = @ \cup {copy[n] : n \in clip.nodes},
        !.graph.edges = @ \cup {<<<<copy[e[1][1]], e[1][2]>>, <<copy[e[2][1]], e[2][2]>>>>
                                  : e \in clip.edges}]
PasteClipboard ==
  /\ cv.clip.nodes # {} /\ CreatesCopies(cv.clip.nodes)
  /\ Commands(Pasted(cv, cv.clip))

\* duplicateSelection: the one after the other.
DuplicateSelection(N) ==
  LET clip == [nodes |-> N, edges |-> Within(cv.graph.edges, N)]
  IN  CreatesCopies(N) /\ Commands(Pasted([cv EXCEPT !.clip = clip], clip))

\* snapshotUndo and snapshotRedo; the redo does not cut the past to its limit.
UndoGraph ==
  /\ cv.past # <<>>
  /\ Commands([cv EXCEPT !.graph = Last(cv.past), !.past = Front(@),
                         !.future = Append(@, cv.graph)])
  /\ Plainly
RedoGraph ==
  /\ cv.future # <<>>
  /\ Commands([cv EXCEPT !.graph = Last(cv.future), !.future = Front(@),
                         !.past = Append(@, cv.graph)])
  /\ Plainly

-----------------------------------------------------------------------------
(* Groups *)

\* createGroup: the members leave their other groups; a definition of the group's
\* own takes a copy of them, without ports.
CreateGroup(N, s) ==
  /\ ~cv.defs[s].there
  /\ LET left == {[g EXCEPT !.members = @ \ N] : g \in cv.groups}
     IN  Commands([Remembered(cv) EXCEPT
           !.groups = {g \in left : g.members # {}} \cup {[members |-> N, sub |-> s]},
           !.defs[s] = [NoDef EXCEPT !.nodes = N, !.edges = Within(cv.graph.edges, N),
                                     !.there = TRUE]])
  /\ Plainly

\* removeGroup: the group's definition goes with it, whoever refers to it.
Ungrouped(c, g) ==
  [Remembered(c) EXCEPT !.groups = @ \ {g}, !.defs[g.sub] = NoDef]
RemoveGroup(g) == Commands(Ungrouped(cv, g)) /\ Plainly

\* The effect of GroupLayer: members that left the canvas leave their group, and
\* an empty group is removed, as a command with a place in the history.
PruneGroup(g) ==
  LET kept == g.members \cap cv.graph.nodes
  IN  /\ cv' = IF kept = {} THEN Ungrouped(cv, g)
               ELSE [cv EXCEPT !.groups = (@ \ {g}) \cup {[g EXCEPT !.members = kept]}]
      /\ UNCHANGED <<made, editor, done>>

-----------------------------------------------------------------------------
(* Subgraphs *)

\* Mutant: an edge into the selection keeps its inner end.
PackedEndUntied(x, N, ports, ref) ==
  IF x[1] \notin N THEN {x} ELSE IF x[1] \in ports THEN {x} ELSE {}

\* packSelectionAsSubgraph: an edge across the border is tied to the port of its
\* inner node, and dropped when there is none.
PackedEnd(x, N, ports, ref) ==
  IF x[1] \notin N THEN {x} ELSE IF x[1] \in ports THEN {<<ref, x[1]>>} ELSE {}

Pack(N, s) ==
  LET ref   == Len(made) + 1
      inner == Within(cv.graph.edges, N)
      ins   == FreeInputs(N, inner)
      outs  == FreeOutputs(N, inner)
      left  == {[g EXCEPT !.members = @ \ N] : g \in cv.groups}
  IN  /\ ~cv.defs[s].there /\ \A n \in N : ~IsRef(n)
      /\ Creates(<<s>>)
      /\ Commands([Remembered(cv) EXCEPT
           !.defs[s] = [nodes |-> N, edges |-> inner, ins |-> ins, outs |-> outs, there |-> TRUE],
           !.graph = [nodes |-> (cv.graph.nodes \ N) \cup {ref},
                      edges |-> UNION {PackedEnd(e[1], N, outs, ref) \X PackedEnd(e[2], N, ins, ref)
                                         : e \in cv.graph.edges \ inner}],
           !.groups = {g \in left : g.members # {}}])

\* expandSubgraphInstance: what was tied to the reference is tied to the copies;
\* the inner node of a port may have been deleted in the editor.
UnpackedEnd(x, ref, ports, copy) ==
  IF x[1] # ref THEN {x}
  ELSE IF x[2] \notin ports THEN {}
  ELSE IF x[2] \in DOMAIN copy THEN {<<copy[x[2]], Sole>>} ELSE {<<Lost, Sole>>}

Unpack(n) ==
  LET def  == cv.defs[made[n]]
      copy == Copies(def.nodes)
  IN  /\ IsRef(n) /\ def.there
      /\ CreatesCopies(def.nodes)
      /\ Commands([Remembered(cv) EXCEPT
           !.graph = [nodes |-> (@.nodes \ {n}) \cup {copy[m] : m \in def.nodes},
                      edges |-> {<<<<copy[e[1][1]], e[1][2]>>, <<copy[e[2][1]], e[2][2]>>>>
                                   : e \in def.edges}
                                \cup UNION {UnpackedEnd(e[1], n, def.outs, copy)
                                              \X UnpackedEnd(e[2], n, def.ins, copy)
                                             : e \in @.edges}]])

\* addSubgraphRefNode.
AddReference(s) ==
  /\ cv.defs[s].there
  /\ Creates(<<s>>)
  /\ Commands(WithNode(cv))

\* removeSubgraph: the references stay.
RemoveSubgraph(s) ==
  /\ cv.defs[s].there /\ Commands([cv EXCEPT !.defs[s] = NoDef]) /\ Plainly

\* SubgraphEditor: opened by a double click, a copy is edited.
OpenEditor(s) ==
  /\ done' = done + 1
  /\ cv.defs[s].there /\ Stray(cv) = {} /\ editor.sub = NoSub
  /\ editor' = [sub |-> s, nodes |-> cv.defs[s].nodes, edges |-> cv.defs[s].edges]
  /\ UNCHANGED <<cv, made>>

EditInner ==
  /\ editor.sub # NoSub /\ done' = done + 1
  /\ \/ \E n \in editor.nodes :
          /\ editor' = [editor EXCEPT !.nodes = @ \ {n}, !.edges = Within(@, editor.nodes \ {n})]
          /\ UNCHANGED made
     \/ Creates(<<NoSub>>) /\ editor' = [editor EXCEPT !.nodes = @ \cup {Len(made) + 1}]
  /\ UNCHANGED cv

\* close and saveSubgraphDef: inferred ports are added, none is taken away (ports
\* drawn by hand to the editor's own two ends are left out).
CloseEditor ==
  /\ editor.sub # NoSub
  /\ cv' = [cv EXCEPT !.defs[editor.sub] =
              [nodes |-> editor.nodes, edges |-> editor.edges, there |-> TRUE,
               ins |-> @.ins \cup FreeInputs(editor.nodes, editor.edges),
               outs |-> @.outs \cup FreeOutputs(editor.nodes, editor.edges)]]
  /\ editor' = [sub |-> NoSub, nodes |-> {}, edges |-> {}]
  /\ UNCHANGED <<made, done>>

-----------------------------------------------------------------------------
(* Workflows: neither the history nor the clipboard belongs to one *)

ShowSheet(w) ==
  /\ w \in cv.open \ {cv.active}
  /\ Commands([cv EXCEPT !.sheets = WrittenBack(cv), !.active = w,
                         !.graph = cv.sheets[w].graph, !.groups = cv.sheets[w].groups])
  /\ Plainly

\* newWorkflowInProject: the canvas is not written back.
NewSheet(w) ==
  /\ w \notin cv.open
  /\ Commands([cv EXCEPT !.open = @ \cup {w}, !.sheets[w] = NoSheet, !.active = w,
                         !.graph = Blank, !.groups = {}])
  /\ Plainly

\* removeWorkflow: the next one is shown, among the groups of the one removed.
RemoveSheet(w) ==
  /\ w \in cv.open /\ cv.open # {w}
  /\ \E v \in IF w = cv.active THEN cv.open \ {w} ELSE {cv.active} :
       Commands([cv EXCEPT !.open = @ \ {w}, !.active = v,
                           !.graph = IF w = cv.active THEN cv.sheets[v].graph ELSE @])
  /\ Plainly

\* openProject: the workflows, groups and definitions of another project; history
\* and clipboard are still those of the one before (nothing calls clearHistory).
OpenOther ==
  /\ Creates(<<NoSub>>)
  /\ Commands([cv EXCEPT !.graph = [Blank EXCEPT !.nodes = {Len(made) + 1}], !.groups = {},
                         !.sheets = [w \in Sheet |-> NoSheet], !.open = {HomeSheet},
                         !.active = HomeSheet, !.defs = [s \in Sub |-> NoDef]])

-----------------------------------------------------------------------------
Selections(g) == SUBSET g.nodes \ {{}}

\* What the user does, and what follows of itself.
UserSteps ==
  \/ DropNode \/ Arrange \/ LoadGraph \/ ClearGraph \/ OpenOther
  \/ PasteClipboard \/ UndoGraph \/ RedoGraph
  \/ \E a \in cv.graph.nodes : PickNode(a)
  \/ \E a, b \in cv.graph.nodes : Link(a, b)
  \/ \E e \in cv.graph.edges, b \in cv.graph.nodes : Relink(e, b)
  \/ \E N \in Selections(cv.graph) :
       \/ Erase(N) \/ DeleteSelected(N) \/ CopySelection(N) \/ DuplicateSelection(N)
       \/ \E s \in Sub : CreateGroup(N, s) \/ Pack(N, s)
  \/ \E w \in cv.open : \E N \in Selections(cv.sheets[w].graph) :
       DeleteInPane(w, N) \/ EraseInPane(w, N)
  \/ \E g \in cv.groups : RemoveGroup(g)
  \/ \E n \in cv.graph.nodes : Unpack(n)
  \/ \E s \in Sub : AddReference(s) \/ RemoveSubgraph(s) \/ OpenEditor(s)
  \/ EditInner
  \/ \E w \in Sheet : ShowSheet(w) \/ NewSheet(w) \/ RemoveSheet(w)

CanvasNext ==
  \/ done < MaxCommands /\ UserSteps
  \/ (\E g \in Stray(cv) : PruneGroup(g)) \/ CloseEditor

CanvasSpec == CanvasInit /\ [][CanvasNext]_canvasVars

-----------------------------------------------------------------------------
\* What the canvas shows, keeps and remembers is whole: every edge of a graph, of
\* a definition, of the clipboard and of the history joins two of its nodes, or is
\* tied to a port whose inner node the editor deleted; no node is in two groups.
Anchored(g) == \A e \in g.edges : {e[1][1], e[2][1]} \subseteq g.nodes \cup {Lost}

CanvasWhole ==
  /\ Anchored(cv.graph) /\ Anchored(cv.clip) /\ Anchored(editor)
  /\ \A w \in Sheet : Anchored(cv.sheets[w].graph)
  /\ \A s \in Sub : Anchored(cv.defs[s])
  /\ \A i \in DOMAIN cv.past : Anchored(cv.past[i])
  /\ \A i \in DOMAIN cv.future : Anchored(cv.future[i])
  /\ \A g, h \in cv.groups : g = h \/ g.members \cap h.members = {}
=============================================================================
