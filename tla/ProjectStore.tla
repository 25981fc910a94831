---------------------------- MODULE ProjectStore ----------------------------
(***************************************************************************)
(* The store of one window and the files of its projects: the canvas and   *)
(* the registry of workflows, the mark "unsaved", and the saves that run   *)
(* beside the user (src/src/store, src/src/io/projectIO.ts).               *)
(*                                                                         *)
(* A save is an asynchronous function.  It waits in the queue of its key   *)
(* (projectSaveQueue.ts), reads the event stream, builds the file from     *)
(* the store, waits for the write lock of the directory, writes one file   *)
(* after another and only then sets the mark and the project's identity    *)
(* in the store.  Between these steps the user edits, switches workflows,  *)
(* closes the project or opens another one.                                *)
(*                                                                         *)
(* A graph and a list of agents are numbers, fresh at every change; 0 is   *)
(* the empty graph and the default agent.  The stream's flush is module    *)
(* EventStore's.  The undo stack and the clipboard are left out.           *)
(***************************************************************************)
EXTENDS Naturals, FiniteSets

CONSTANTS
    Root,       \* project directories
    HomeRoot,   \* the directory that holds a saved project at the start
    NoRoot,
    Flow,       \* workflow ids
    FirstFlow,  \* the active workflow of the saved project
    SavedFlows, \* its workflows
    NoFlow,
    Saver,      \* saves and checkpoint writes in flight
    MaxPsEdits, \* bound: steps of the user at the canvas, checkpoints
    MaxPsSaves, \* bound: files built, saves and checkpoints together
    MaxPsSwitches, \* bound: projects closed, opened, created
    MaxPsFaults \* bound: failing reads and writes, refused dialogs

ASSUME PsAssumption ==
    /\ HomeRoot \in Root /\ NoRoot \notin Root
    /\ FirstFlow \in SavedFlows /\ SavedFlows \subseteq Flow
    /\ NoFlow \notin Flow
    /\ MaxPsEdits \in Nat /\ MaxPsSaves \in Nat 
    /\ MaxPsSwitches \in Nat /\ MaxPsFaults \in Nat

\* A project is named by the directory it was created in (its id is a time
\* stamp in the code); 0 stands for no project.
NoProjectId == NoRoot

VARIABLES
    st,        \* the zustand store
    disk,      \* the .slimemold directory of every root
    opened,    \* a project read from disk and not yet applied
    ops,       \* the saves in flight
    line,      \* Saver -> those ahead of it in its queue of projectSaveQueue.ts
    lock,      \* Saver -> those ahead of it at the write lock of its directory
    timer,     \* the autosave timer of projectConfigAutosave.ts is armed
    switched,  \* how often the identity of the open project changed
    psEdits, psBuilt, psFaults

psVars == <<st, disk, opened, ops, line, lock, timer, switched,
            psEdits, psBuilt, psFaults>>

-----------------------------------------------------------------------------
(* Files and snapshots *)

Absent == [there |-> FALSE, graph |-> 0, agents |-> 0]
Entry(graph, agents) == [there |-> TRUE, graph |-> graph, agents |-> agents]
NoFlows == [w \in Flow |-> Absent]
EmptyFlows(ws) == [w \in Flow |-> IF w \in ws THEN Entry(0, 0) ELSE Absent]

\* The registry with the canvas written over the active workflow, as
\* buildProjectFile and switchWorkflow both see it.
Overlaid(s) ==
    IF s.active = NoFlow THEN s.flows
    ELSE [s.flows EXCEPT ![s.active] = Entry(s.canvas, s.agents)]

\* projectSnapshot: the part of the file the mark "unsaved" is about.  The
\* checkpoints are in it as well, but never set off a comparison.
Shot(s) == [some |-> TRUE, flows |-> Overlaid(s), agents |-> s.agents]
NoShot == [some |-> FALSE, flows |-> NoFlows, agents |-> 0]

\* buildProjectFile: the registry with the canvas in it.  Without an active
\* workflow the canvas, empty then, becomes a workflow w of its own.
FileOf(s, w, built) ==
    [pid |-> s.pid, agents |-> s.agents, active |-> w, ckpt |-> s.ckpt,
     flows |-> Overlaid([s EXCEPT !.active = w]), built |-> built]
NoFile == [pid |-> NoProjectId, flows |-> NoFlows, agents |-> 0,
           active |-> NoFlow, ckpt |-> 0, built |-> 0]

NoDir == [pid |-> NoProjectId, flows |-> NoFlows, agents |-> 0,
          active |-> NoFlow, ckpt |-> 0, metaBuilt |-> 0, ckptBuilt |-> 0]

Graphs(flows) == [w \in Flow |-> <<flows[w].there, flows[w].graph>>]

ClosedStore ==
    [pid |-> NoProjectId, root |-> NoRoot, dirty |-> FALSE, saved |-> NoShot,
     flows |-> NoFlows, active |-> NoFlow, canvas |-> 0, agents |-> 0,
     ckpt |-> 0]

IdleOp == [stage |-> "idle", key |-> <<NoProjectId, NoRoot>>, kind |-> "save",
           guarded |-> FALSE, from |-> 0, target |-> NoRoot, file |-> NoFile]

\* projectDirtyController: a set() that changes a listed key marks the
\* project unless its snapshot equals the saved one.
Marked(s) ==
    [s EXCEPT !.dirty = @ \/ ~s.saved.some \/ s.saved # Shot(s)]

\* buildOpenProjectState: the loaded state is the baseline of the mark.
Reopened(file, r) ==
    LET s == [ClosedStore EXCEPT
                !.pid = file.pid, !.root = r, !.flows = file.flows,
                !.active = file.active,
                !.canvas = file.flows[file.active].graph,
                !.agents = file.agents, !.ckpt = file.ckpt]
    IN  [s EXCEPT !.saved = Shot(s)]

-----------------------------------------------------------------------------
\* The session of the last start is restored: the saved project is open.
PsInit ==
    /\ disk = [r \in Root |->
                 IF r = HomeRoot
                 THEN [NoDir EXCEPT !.pid = r, !.flows = EmptyFlows(SavedFlows),
                                    !.active = FirstFlow]
                 ELSE NoDir]
    /\ st = Reopened([NoFile EXCEPT !.pid = HomeRoot, !.active = FirstFlow,
                                    !.flows = EmptyFlows(SavedFlows)], HomeRoot)
    /\ opened = [from |-> NoRoot, file |-> NoFile]
    /\ ops = [s \in Saver |-> IdleOp]
    /\ line = [s \in Saver |-> {}] /\ lock = [s \in Saver |-> {}]
    /\ timer = FALSE
    /\ switched = 0 /\ psEdits = 0 /\ psBuilt = 0 /\ psFaults = 0

\* Every step of the user, and every checkpoint, takes a number of its own.
Fresh(n) == psEdits < MaxPsEdits /\ n = psEdits + 1 /\ psEdits' = n

\* The controller of the project operation is aborted whenever the identity
\* of the open project changes (projectOperation.ts): every set() of the
\* store is observed.
Sets(next) ==
    /\ st' = next
    /\ switched' = IF <<next.pid, next.root>> # <<st.pid, st.root>>
                   THEN switched + 1 ELSE switched

\* A set() that also changes agents arms the timer, unless the set() is
\* suppressed or the project has no directory.
Arms(next) ==
    timer' = (timer \/ (next.agents # st.agents /\ next.root # NoRoot))

Unsaved == UNCHANGED <<disk, opened, ops, line, lock>>

-----------------------------------------------------------------------------
(* The user at the canvas *)

\* addNode, removeNode, onConnect, undo ...: the graph of the active workflow.
EditCanvas ==
    \E n \in 1..MaxPsEdits :
        /\ st.active # NoFlow
        /\ Fresh(n)
        /\ Sets(Marked([st EXCEPT !.canvas = n]))
        /\ Unsaved /\ UNCHANGED <<timer, psBuilt, psFaults>>

\* updateWorkflowGraph: the pane of a split view writes another workflow.
EditOther(w) ==
    \E n \in 1..MaxPsEdits :
        /\ w # st.active /\ st.flows[w].there
        /\ Fresh(n)
        /\ Sets(Marked([st EXCEPT !.flows[w].graph = n]))
        /\ Unsaved /\ UNCHANGED <<timer, psBuilt, psFaults>>

\* upsertAgent, removeAgent, setDefaultAgent.
EditAgents ==
    \E n \in 1..MaxPsEdits :
        /\ Fresh(n)
        /\ LET next == Marked([st EXCEPT !.agents = n])
           IN  Sets(next) /\ Arms(next)
        /\ Unsaved /\ UNCHANGED <<psBuilt, psFaults>>

\* Mutant: the canvas is not written back.
SwitchForgets(w) ==
    [st EXCEPT !.active = w, !.canvas = st.flows[w].graph]

\* switchWorkflow, with the marking suppressed: the canvas goes back to the
\* registry, the agents stay those of the project.
SwitchTo(w) ==
    [st EXCEPT !.flows = Overlaid(st), !.active = w,
               !.canvas = st.flows[w].graph]

SwitchFlow(w) ==
    /\ w # st.active /\ st.flows[w].there
    /\ Sets(SwitchTo(w))
    /\ \E n \in 1..MaxPsEdits : Fresh(n)
    /\ Unsaved /\ UNCHANGED <<timer, psBuilt, psFaults>>

\* Activation as newWorkflowInProject, registerWorkflow and removeWorkflow do
\* it: the canvas and the agents of the store become those of the workflow,
\* and the canvas that was active is not written back.
Activate(flows, w) ==
    Marked([st EXCEPT !.flows = flows, !.active = w,
                      !.canvas = flows[w].graph, !.agents = flows[w].agents])

\* newWorkflowInProject: an empty workflow with the default agent.
NewFlow(w) ==
    /\ ~st.flows[w].there /\ st.pid # NoProjectId
    /\ LET next == Activate([st.flows EXCEPT ![w] = Entry(0, 0)], w)
       IN  Sets(next) /\ Arms(next)
    /\ \E n \in 1..MaxPsEdits : Fresh(n)
    /\ Unsaved /\ UNCHANGED <<psBuilt, psFaults>>

\* registerWorkflow: a generated graph with the agents of the active entry,
\* activated or not.
RegisterFlow(w, activate) ==
    \E n \in 1..MaxPsEdits :
        /\ ~st.flows[w].there /\ st.active # NoFlow /\ Fresh(n)
        /\ LET flows == [st.flows EXCEPT
                            ![w] = Entry(n, st.flows[st.active].agents)]
               next  == IF activate THEN Activate(flows, w)
                        ELSE Marked([st EXCEPT !.flows = flows])
           IN  Sets(next) /\ Arms(next)
        /\ Unsaved /\ UNCHANGED <<psBuilt, psFaults>>

\* removeWorkflow: removing the active one activates the first that is left,
\* removing the last one empties the canvas.
RemoveFlow(w) ==
    /\ st.flows[w].there
    /\ LET flows == [st.flows EXCEPT ![w] = Absent]
           left  == {v \in Flow : flows[v].there}
       IN  \E next \in
             IF left = {}
             THEN {Marked([st EXCEPT !.flows = flows, !.active = NoFlow,
                                     !.canvas = 0, !.agents = 0])}
             ELSE IF w # st.active
             THEN {Marked([st EXCEPT !.flows = flows])}
             ELSE {Activate(flows, v) : v \in left} :
               Sets(next) /\ Arms(next)
    /\ \E n \in 1..MaxPsEdits : Fresh(n)
    /\ Unsaved /\ UNCHANGED <<psBuilt, psFaults>>

-----------------------------------------------------------------------------
(* Projects *)

Switches == switched < MaxPsSwitches

\* openProjectByPath reads the directory; workflows of a directory are the
\* files found in it.
ReadProject(r) ==
    /\ Switches /\ opened.from = NoRoot /\ disk[r].pid # NoProjectId
    /\ opened' = [from |-> r,
                  file |-> [pid |-> disk[r].pid, flows |-> disk[r].flows,
                            agents |-> disk[r].agents,
                            active |-> disk[r].active,
                            ckpt |-> disk[r].ckpt, built |-> 0]]
    /\ UNCHANGED <<st, disk, ops, line, lock, timer, switched,
                   psEdits, psBuilt, psFaults>>

\* openProject: refused when the active workflow is missing.
ApplyProject ==
    /\ opened.from # NoRoot
    /\ opened' = [from |-> NoRoot, file |-> NoFile]
    /\ IF opened.file.active # NoFlow /\ opened.file.flows[opened.file.active].there
       THEN Sets(Reopened(opened.file, opened.from))
       ELSE UNCHANGED <<st, switched>>
    /\ UNCHANGED <<disk, ops, line, lock, timer, psEdits, psBuilt, psFaults>>

\* closeProject.
CloseProject ==
    /\ st.pid # NoProjectId /\ Switches
    /\ Sets(ClosedStore)
    /\ Unsaved /\ UNCHANGED <<timer, psEdits, psBuilt, psFaults>>

-----------------------------------------------------------------------------
(* Saves *)

\* A directory nobody saves in: users keep their projects apart.
Vacant(r) ==
    /\ disk[r] = NoDir /\ st.root # r
    /\ \A t \in Saver : r \notin {ops[t].target, ops[t].key[2]}

\* A project without an id gets one when it is first saved.
Identified(file, r) ==
    [file EXCEPT !.pid = IF @ = NoProjectId THEN r ELSE @]

Enters(s, op) ==
    /\ ops[s].stage = "idle"
    /\ psBuilt + Cardinality({t \in Saver : ops[t].stage # "idle"}) < MaxPsSaves
    /\ ops' = [ops EXCEPT ![s] = op]

\* A saver joins its queue behind those that are in it, and leaves it again.
Joins(queue, s, ahead) == [queue EXCEPT ![s] = ahead]
Left(queue, s) == [t \in Saver |-> IF t = s THEN {} ELSE queue[t] \ {s}]

\* The queue of a key, and of the write lock of a directory.
QueueOf(key) ==
    {t \in Saver : ops[t].stage # "idle" /\ ops[t].kind \in {"save", "create"}
                     /\ ops[t].key = key}

Writing(s) == ops[s].stage \in {"meta", "ckpt", "flows"}
LockOf(r) == {t \in Saver : Writing(t) /\ ops[t].target = r}

\* Mutant: a save that fails keeps its place in the queue.
LeavesOnSuccess(s) ==
    /\ ops' = [ops EXCEPT ![s] = IdleOp]
    /\ line' = IF ops[s].stage = "commit" THEN Left(line, s) ELSE line
    /\ lock' = Left(lock, s)

Leaves(s) ==
    /\ ops' = [ops EXCEPT ![s] = IdleOp]
    /\ line' = Left(line, s) /\ lock' = Left(lock, s)

\* saveProject(guard): the key is the identity at the time of the call.  The
\* callers that pass a guard pass the open project and its signal.
AskSave(s, guarded) ==
    /\ guarded => st.root # NoRoot
    /\ Enters(s, [IdleOp EXCEPT !.stage = "queued", !.guarded = guarded,
                                !.key = <<st.pid, st.root>>,
                                !.from = switched])
    /\ line' = Joins(line, s, QueueOf(<<st.pid, st.root>>))

RequestSave(s) ==
    /\ \E guarded \in BOOLEAN : AskSave(s, guarded)
    /\ UNCHANGED <<st, disk, opened, lock, timer, switched,
                   psEdits, psBuilt, psFaults>>

\* The autosave timer fires: whatever project is open then is saved.
Autosave(s) ==
    /\ timer /\ timer' = FALSE
    /\ AskSave(s, FALSE)
    /\ UNCHANGED <<st, disk, opened, lock, switched,
                   psEdits, psBuilt, psFaults>>

\* createProject in a fresh directory: the store is set, then saved.
CreateProject(s, r, w) ==
    /\ Switches /\ Vacant(r)
    /\ Sets([ClosedStore EXCEPT !.pid = r, !.root = r, !.dirty = TRUE,
                                !.flows = EmptyFlows({w}), !.active = w])
    /\ Enters(s, [IdleOp EXCEPT !.stage = "queued", !.key = <<r, r>>,
                                !.kind = "create", !.from = switched'])
    /\ line' = Joins(line, s, QueueOf(<<r, r>>))
    /\ UNCHANGED <<disk, opened, lock, timer, psEdits, psBuilt, psFaults>>

\* Mutant: the guard without its signal.
GuardById(op) ==
    op.guarded => op.key = <<st.pid, st.root>>

\* assertProjectSaveGuard: the signal and the identity.
GuardOk(op) ==
    op.guarded => op.from = switched /\ op.key = <<st.pid, st.root>>

\* A failed save leaves the queue; createProject then takes the directory
\* from whatever project is open.
Fails(s) ==
    /\ Leaves(s)
    /\ IF ops[s].kind = "create"
       THEN Sets([st EXCEPT !.root = NoRoot, !.dirty = TRUE])
       ELSE UNCHANGED <<st, switched>>

FirstOfKey(s) == line[s] = {}

\* The turn of the save comes: the guard is tested, the preparation reads the
\* event stream.
StartSave(s) ==
    /\ ops[s].stage = "queued" /\ FirstOfKey(s)
    /\ IF GuardOk(ops[s])
       THEN ops' = [ops EXCEPT ![s].stage = "prepare"]
            /\ UNCHANGED <<line, lock, st, switched>>
       ELSE Fails(s)
    /\ UNCHANGED <<disk, opened, timer, psEdits, psBuilt, psFaults>>

\* The file is built from the store as it is now and joins the write lock of
\* its directory; a project without a directory asks for one first.
BuildFile(s) ==
    /\ ops[s].stage = "prepare"
    /\ IF GuardOk(ops[s])
       THEN LET root == IF ops[s].kind = "as" THEN ops[s].target ELSE st.root
            IN  \E w \in (IF st.active = NoFlow THEN Flow ELSE {st.active}) :
                  LET file == FileOf(st, w, psBuilt + 1)
                  IN  /\ ops' = [ops EXCEPT
                            ![s].stage = IF root = NoRoot THEN "dialog" ELSE "meta",
                            ![s].target = root,
                            ![s].file = IF root = NoRoot THEN file
                                        ELSE Identified(file, root)]
                      /\ lock' = IF root = NoRoot THEN lock
                                 ELSE Joins(lock, s, LockOf(root))
                      /\ psBuilt' = psBuilt + 1
                      /\ UNCHANGED <<line, st, switched>>
       ELSE Fails(s) /\ UNCHANGED psBuilt
    /\ UNCHANGED <<disk, opened, timer, psEdits, psFaults>>

\* saveProjectAs: the directory is picked first; it waits in no queue.
RequestSaveAs(s, r) ==
    /\ st.pid # NoProjectId /\ Vacant(r)
    /\ Enters(s, [IdleOp EXCEPT !.stage = "prepare", !.kind = "as",
                                !.target = r, !.from = switched])
    /\ UNCHANGED <<st, disk, opened, line, lock, timer, switched,
                   psEdits, psBuilt, psFaults>>

Faulty == psFaults < MaxPsFaults /\ psFaults' = psFaults + 1

\* showSaveDirDialog answers with a directory nothing was saved in yet.
PickRoot(s) ==
    /\ ops[s].stage = "dialog"
    /\ \E r \in Root :
         /\ Vacant(r)
         /\ ops' = [ops EXCEPT ![s].stage = "meta", ![s].target = r,
                               ![s].file = Identified(@, r)]
         /\ lock' = Joins(lock, s, LockOf(r))
    /\ UNCHANGED <<st, disk, opened, line, timer, switched,
                   psEdits, psBuilt, psFaults>>

\* The dialog is dismissed.
DismissDialog(s) ==
    /\ ops[s].stage = "dialog"
    /\ Fails(s)
    /\ UNCHANGED <<disk, opened, timer, psEdits, psBuilt, psFaults>>

\* The stream needs repair, a write or the flush of the events fails.
SaveFails(s) ==
    /\ ops[s].stage \in {"prepare", "meta", "ckpt", "flows", "commit"}
    /\ ops[s].kind # "checkpoint"
    /\ Faulty
    /\ Fails(s)
    /\ UNCHANGED <<disk, opened, timer, psEdits, psBuilt>>

\* Mutant: files are written without the lock.
Unlocked(s) == TRUE

\* withProjectWriteLock: jobs of one directory write one after another.
Locked(s) == lock[s] = {}

NextStage(op) ==
    CASE op.stage = "meta" -> "ckpt" [] op.stage = "ckpt" -> "flows"
      [] OTHER -> "commit"

\* saveProjectFileUnlocked: project.json and agents.json, checkpoints.json,
\* then a file for every workflow, each overwritten in place; the file of a
\* workflow that was removed stays.
WriteFile(s) ==
    /\ ops[s].stage \in {"meta", "ckpt", "flows"}
    /\ ops[s].kind # "checkpoint" /\ Locked(s)
    /\ LET f == ops[s].file
           r == ops[s].target
       IN  disk' = CASE ops[s].stage = "meta" ->
                          [disk EXCEPT ![r].pid = f.pid, ![r].active = f.active,
                                       ![r].agents = f.agents,
                                       ![r].metaBuilt = f.built]
                     [] ops[s].stage = "ckpt" ->
                          [disk EXCEPT ![r].ckpt = f.ckpt,
                                       ![r].ckptBuilt = f.built]
                     [] OTHER ->
                          [disk EXCEPT ![r].flows =
                             [w \in Flow |-> IF f.flows[w].there THEN f.flows[w]
                                             ELSE @[w]]]
    /\ ops' = [ops EXCEPT ![s].stage = NextStage(ops[s])]
    /\ lock' = IF ops[s].stage = "flows" THEN Left(lock, s) ELSE lock
    /\ UNCHANGED <<st, opened, line, timer, switched, psEdits, psBuilt, psFaults>>

\* The last block of saveProject: the identity of the saved project and a
\* clean mark go into the store as it is by now, and the snapshot of that
\* store becomes the baseline.  Save As keeps the id (onSaved).
CommitSave(s) ==
    /\ ops[s].stage = "commit"
    /\ IF GuardOk(ops[s])
       THEN /\ LET next == [st EXCEPT !.pid = IF ops[s].kind = "as" THEN @
                                                ELSE ops[s].file.pid,
                                      !.root = ops[s].target, !.dirty = FALSE]
               IN  Sets([next EXCEPT !.saved = Shot(next)])
            /\ Leaves(s)
       ELSE Fails(s)
    /\ UNCHANGED <<disk, opened, timer, psEdits, psBuilt, psFaults>>

-----------------------------------------------------------------------------
(* Checkpoints of runs *)

\* persistCheckpoint: the store first, then the file under the same lock.
PersistCheckpoint(s) ==
    \E n \in 1..MaxPsEdits :
        /\ st.active # NoFlow /\ Fresh(n)
        /\ Sets([st EXCEPT !.ckpt = n])
        /\ IF st.root = NoRoot THEN UNCHANGED <<ops, lock, psBuilt>>
           ELSE /\ Enters(s, [IdleOp EXCEPT !.stage = "ckpt",
                                 !.kind = "checkpoint", !.target = st.root,
                                 !.file = [NoFile EXCEPT !.ckpt = n,
                                              !.built = psBuilt + 1]])
                /\ lock' = Joins(lock, s, LockOf(st.root))
                /\ psBuilt' = psBuilt + 1
        /\ UNCHANGED <<disk, opened, line, timer, psFaults>>

\* saveCheckpoints: a temporary file and a rename; a second failure of the
\* rename leaves the temporary file only.
WriteCheckpoint(s) ==
    /\ ops[s].kind = "checkpoint" /\ Locked(s)
    /\ \/ /\ disk' = [disk EXCEPT ![ops[s].target].ckpt = ops[s].file.ckpt,
                                  ![ops[s].target].ckptBuilt = ops[s].file.built]
          /\ UNCHANGED psFaults
       \/ Faulty /\ UNCHANGED disk
    /\ Leaves(s)
    /\ UNCHANGED <<st, opened, timer, switched, psEdits, psBuilt>>

-----------------------------------------------------------------------------
PsNext ==
    \/ EditCanvas \/ EditAgents
    \/ \E w \in Flow :
          \/ EditOther(w) \/ SwitchFlow(w) \/ NewFlow(w) \/ RemoveFlow(w)
          \/ \E activate \in BOOLEAN : RegisterFlow(w, activate)
    \/ \E r \in Root : ReadProject(r)
    \/ ApplyProject \/ CloseProject
    \/ \E s \in Saver :
          \/ RequestSave(s) \/ Autosave(s)
          \/ \E r \in Root : RequestSaveAs(s, r)
          \/ \E r \in Root, w \in Flow : CreateProject(s, r, w)
          \/ StartSave(s) \/ BuildFile(s) \/ PickRoot(s) \/ DismissDialog(s)
          \/ SaveFails(s) \/ WriteFile(s) \/ CommitSave(s)
          \/ PersistCheckpoint(s) \/ WriteCheckpoint(s)

PsSpec == PsInit /\ [][PsNext]_psVars

\* A save goes on by itself; a user answers the dialog one way or the other.
PsFairness ==
    \A s \in Saver :
      /\ WF_psVars(StartSave(s)) /\ WF_psVars(BuildFile(s))
      /\ WF_psVars(WriteFile(s)) /\ WF_psVars(CommitSave(s))
      /\ WF_psVars(WriteCheckpoint(s))
      /\ WF_psVars(PickRoot(s) \/ DismissDialog(s))

PsFairSpec == PsSpec /\ PsFairness

-----------------------------------------------------------------------------
RootOrNone == Root \cup {NoRoot}
FlowOrNone == Flow \cup {NoFlow}
FlowsType == [Flow -> [there : BOOLEAN, graph : Nat, agents : Nat]]

StoreType ==
    [pid : RootOrNone, root : RootOrNone, dirty : BOOLEAN,
     saved : [some : BOOLEAN, flows : FlowsType, agents : Nat],
     flows : FlowsType, active : FlowOrNone, canvas : Nat, agents : Nat, ckpt : Nat]

FileType ==
    [pid : RootOrNone, agents : Nat, active : FlowOrNone, ckpt : Nat,
     flows : FlowsType, built : Nat]

DirectoryType ==
    [pid : RootOrNone, flows : FlowsType, agents : Nat, active : FlowOrNone,
     ckpt : Nat, metaBuilt : Nat, ckptBuilt : Nat]

SaveStage == {"idle", "queued", "prepare", "dialog", "meta", "ckpt", "flows", "commit"}

SaveType ==
    [stage : SaveStage, key : RootOrNone \X RootOrNone,
     kind : {"save", "create", "as", "checkpoint"}, guarded : BOOLEAN,
     from : Nat, target : RootOrNone, file : FileType]

PsTypeOK ==
    /\ st \in StoreType
    /\ disk \in [Root -> DirectoryType]
    /\ opened \in [from : RootOrNone, file : FileType]
    /\ ops \in [Saver -> SaveType]
    /\ line \in [Saver -> SUBSET Saver] /\ lock \in [Saver -> SUBSET Saver]
    /\ timer \in BOOLEAN
    /\ switched \in Nat /\ psEdits \in Nat /\ psBuilt \in Nat /\ psFaults \in Nat

\* A save made for one opening of a project (worker transitions, recovery,
\* evidence) never sets the store of a later one, not even when the same
\* project was closed and opened again meanwhile: the signal tells them apart
\* where the id and the path do not.
GuardedSavesInOpening ==
    [][\A s \in Saver :
          (ops[s].guarded /\ ops[s].stage = "commit" /\ st' # st
             /\ ops'[s].stage = "idle")
          => ops[s].from = switched]_psVars

\* The files of a directory never go back to an earlier build: saves of
\* different keys and the checkpoints of running workflows overlap, and a
\* save that was built first must not overwrite what was built after it.
FilesNeverGoBack ==
    [][\A r \in Root : /\ disk'[r].metaBuilt >= disk[r].metaBuilt
                       /\ disk'[r].ckptBuilt >= disk[r].ckptBuilt]_psVars

\* Whatever differs from the last save is shown as unsaved; a suppressed
\* change of the store (a switch of workflows) must not change what a save
\* would write.
UnsavedShows ==
    st.saved.some =>
        \/ st.dirty
        \/ /\ st.agents = st.saved.agents
           /\ Graphs(Overlaid(st)) = Graphs(st.saved.flows)

\* Every save that was asked for ends, also behind one that failed.
SavesSettle ==
    \A s \in Saver : ops[s].stage # "idle" ~> ops[s].stage = "idle"

=============================================================================
