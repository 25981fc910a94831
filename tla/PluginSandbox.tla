--------------------------- MODULE PluginSandbox ---------------------------
(***************************************************************************)
(* A plugin of the open project and the worker that executes its nodes     *)
(* (src/src/plugins): the scan that registers it, the change of project    *)
(* that takes it away, and SandboxManager, which talks to the worker       *)
(* (sandbox/runtime.ts) by messages.  Both projects have a pack with the   *)
(* same plugin id, as copies of a project do.  Manifests, the parts of a   *)
(* plugin's context and loading without a worker are left out.             *)
(***************************************************************************)
EXTENDS Naturals, Sequences

CONSTANTS
  PlProject,     \* projects with a pack of the plugin
  FirstProject,  \* the open one at the start
  PlCall,        \* executions of nodes of the plugin
  NoCall,
  NoPack,
  MaxLanes,      \* bound: changes of project
  MaxScans,      \* bound: scans by hand
  MaxWorkers,    \* bound: workers ever made
  MissThreshold  \* HEARTBEAT_MISS_THRESHOLD, 3 in the code

ASSUME SandboxAssumption ==
  /\ FirstProject \in PlProject /\ NoCall \notin PlCall /\ NoPack \notin PlProject
  /\ {MaxLanes, MaxScans, MaxWorkers, MissThreshold} \subseteq Nat

VARIABLES
  openProject,     \* the open project and the number of its operation
  scans,      \* scans under way: <<project, operation or 0, pack read?>>
  scanned,    \* how many scans the user asked for
  boundPack, \* the project whose pack the plugin's nodes are from, or NoPack
  workers,    \* Seq of what is known of each worker
  slot,       \* the worker of the plugin: its number (0 for none), current call, misses
  calls       \* of each execution: its stage, its worker, the stop signal, whose answer it got

sandboxVars == <<openProject, scans, scanned, boundPack, workers, slot, calls>>

NoSlot == [worker |-> 0, ready |-> FALSE, current |-> NoCall, missed |-> 0]
NewWorker(code) == [code |-> code, alive |-> TRUE, doing |-> NoCall, stopping |-> FALSE,
                    inbox |-> <<<<"load-plugin", NoCall>>>>, outbox |-> <<>>]
InStage(stage) == {e \in PlCall : calls[e].stage = stage}

-----------------------------------------------------------------------------
(* Projects and scans *)

SandboxInit ==
  /\ openProject = [project |-> FirstProject, lane |-> 1]
  /\ scans = {<<FirstProject, 1, FALSE>>} /\ scanned = 0
  /\ boundPack = NoPack
  /\ workers = <<>> /\ slot = NoSlot
  /\ calls = [e \in PlCall |-> [stage |-> "new", worker |-> 0, stopped |-> FALSE, got |-> NoCall]]

\* disposeSlot, and the failure to load: the worker is ended, or at least no more
\* heard, and who waits for it, to be loaded or with an answer, is told so.
Dispose(fate) ==
  /\ workers' = [w \in DOMAIN workers |->
                   IF w = slot.worker THEN [NewWorker(workers[w].code) EXCEPT !.alive = FALSE, !.inbox = <<>>]
                   ELSE workers[w]]
  /\ slot' = NoSlot
  /\ calls' = [e \in PlCall |->
       IF e = slot.current \/ (calls[e].stage = "waiting" /\ calls[e].worker = slot.worker)
       THEN [calls[e] EXCEPT !.stage = fate] ELSE calls[e]]

\* The store shows another project.  The lifecycle, in a microtask of its own, ends
\* the workers, unloads the project's plugins and starts a scan under the signal
\* of the new operation.
OpenAnother(p) ==
  /\ p # openProject.project /\ openProject.lane < MaxLanes
  /\ openProject' = [project |-> p, lane |-> openProject.lane + 1]
  /\ boundPack' = NoPack
  /\ scans' = scans \cup {<<p, openProject.lane + 1, FALSE>>}
  /\ Dispose("failed")
  /\ UNCHANGED scanned

\* The plugin panel: no signal, only the project is compared.
ScanAgain ==
  /\ scanned < MaxScans /\ scanned' = scanned + 1
  /\ scans' = scans \cup {<<openProject.project, 0, FALSE>>}
  /\ UNCHANGED <<openProject, boundPack, workers, slot, calls>>

\* Mutant: the project is not looked at again.
CanRegisterAnyway(s) == s[2] \in {0, openProject.lane}
\* canRegister of scanProjectCustomNodes, asked again after each await.
CanRegister(s) == s[1] = openProject.project /\ s[2] \in {0, openProject.lane}

ReadPack(s) ==
  /\ ~s[3]
  /\ scans' = (scans \ {s}) \cup
                IF CanRegister(s) THEN {<<s[1], s[2], TRUE>>} ELSE {}
  /\ UNCHANGED <<openProject, scanned, boundPack, workers, slot, calls>>

\* registerPlugin takes the place of the plugin with this id.
RegisterPack(s) ==
  /\ s[3]
  /\ scans' = scans \ {s}
  /\ boundPack' = IF CanRegister(s) THEN s[1] ELSE boundPack
  /\ UNCHANGED <<openProject, scanned, workers, slot, calls>>

\* removePlugin: the worker is left as it is.
UnregisterPack ==
  /\ boundPack # NoPack /\ boundPack' = NoPack
  /\ UNCHANGED <<openProject, scans, scanned, workers, slot, calls>>

-----------------------------------------------------------------------------
(* The host of the worker *)

Sent(ws, w, messages) == [ws EXCEPT ![w].inbox = @ \o messages]

\* runOnSlot of a worker that is ready: a second call at a time is refused.  The
\* signal that came before is passed on ahead of the execution.
OnSlot(e) ==
  IF slot.current # NoCall
  THEN /\ calls' = [calls EXCEPT ![e].stage = "failed"]
       /\ UNCHANGED <<workers, slot>>
  ELSE /\ calls' = [calls EXCEPT ![e].stage = "running", ![e].worker = slot.worker]
       /\ slot' = [slot EXCEPT !.current = e, !.missed = 0]
       /\ workers' = Sent(workers, slot.worker,
                          (IF calls[e].stopped THEN <<<<"abort", e>>>> ELSE <<>>)
                            \o <<<<"execute", e>>>>)

\* createSandboxedNodeExecute and ensureSlot: the worker of the plugin is used again
\* with the code it has.
Execute(e) ==
  /\ calls[e].stage = "new" /\ boundPack # NoPack
  /\ IF slot.worker = 0
     THEN /\ Len(workers) < MaxWorkers
          /\ workers' = Append(workers, NewWorker(boundPack))
          /\ slot' = [NoSlot EXCEPT !.worker = Len(workers) + 1]
          /\ calls' = [calls EXCEPT ![e].stage = "waiting", ![e].worker = Len(workers) + 1]
     ELSE IF slot.ready THEN OnSlot(e)
     ELSE /\ calls' = [calls EXCEPT ![e].stage = "waiting", ![e].worker = slot.worker]
          /\ UNCHANGED <<workers, slot>>
  /\ UNCHANGED <<openProject, scans, scanned, boundPack>>

\* The stop of a run; what waits for the worker to load learns it later.
StopSignal(e) ==
  /\ calls[e].stage \in {"waiting", "running"} /\ ~calls[e].stopped
  /\ calls' = [calls EXCEPT ![e].stopped = TRUE]
  /\ workers' = IF calls[e].stage = "running"
                THEN Sent(workers, slot.worker, <<<<"abort", e>>>>) ELSE workers
  /\ UNCHANGED <<openProject, scans, scanned, boundPack, slot>>

\* Mutant: a call that is out of time is failed and its worker kept.
OverdueKept(e) ==
  /\ calls' = [calls EXCEPT ![e].stage = "overdue"]
  /\ slot' = [slot EXCEPT !.current = NoCall]
  /\ UNCHANGED workers
\* The time of a call is up, or the answers to pings have failed to come.
Overdue(e) == Dispose("overdue")

CallTimesOut(e) ==
  /\ calls[e].stage = "running" /\ Overdue(e)
  /\ UNCHANGED <<openProject, scans, scanned, boundPack>>

Heartbeat ==
  /\ slot.current # NoCall
  /\ IF slot.missed = MissThreshold THEN Overdue(slot.current)
     ELSE /\ slot' = [slot EXCEPT !.missed = @ + 1]
          /\ workers' = Sent(workers, slot.worker, <<<<"ping", slot.current>>>>)
          /\ UNCHANGED calls
  /\ UNCHANGED <<openProject, scans, scanned, boundPack>>

\* The worker is ready: of those that waited one goes first, the others are refused.
SlotReady ==
  LET all == {e \in InStage("waiting") : calls[e].worker = slot.worker}
  IN  \E first \in all :
        /\ calls' = [e \in PlCall |->
             IF e = first THEN [calls[e] EXCEPT !.stage = "running"]
             ELSE IF e \in all THEN [calls[e] EXCEPT !.stage = "failed"] ELSE calls[e]]
        /\ slot' = [slot EXCEPT !.ready = TRUE, !.current = first]
        /\ LET heard == [workers EXCEPT ![slot.worker].outbox = Tail(@)]
           IN  workers' = Sent(heard, slot.worker,
                               (IF calls[first].stopped THEN <<<<"abort", first>>>> ELSE <<>>)
                                 \o <<<<"execute", first>>>>)

\* onWorkerMessage and onWorkerError.  A result is given to the call in progress
\* whatever id it carries.
Hear ==
  /\ slot.worker # 0 /\ workers[slot.worker].outbox # <<>>
  /\ LET m == Head(workers[slot.worker].outbox)
         heard == [workers EXCEPT ![slot.worker].outbox = Tail(@)]
         cur == slot.current
     IN  CASE m[1] = "ready" -> SlotReady
           [] m[1] \in {"load-error", "crash"} -> Dispose("failed")
           [] m[1] = "heartbeat" ->
                /\ slot' = IF m[2] = cur /\ cur # NoCall THEN [slot EXCEPT !.missed = 0] ELSE slot
                /\ workers' = heard /\ UNCHANGED calls
           [] m[1] \in {"execute:result", "execute:error"} ->
                /\ workers' = heard
                /\ slot' = [slot EXCEPT !.current = NoCall]
                /\ calls' = IF cur = NoCall THEN calls
                            ELSE [calls EXCEPT ![cur].stage = "done", ![cur].got = m[2]]
  /\ UNCHANGED <<openProject, scans, scanned, boundPack>>

-----------------------------------------------------------------------------
(* The worker *)

Posts(w, message) == workers' = [workers EXCEPT ![w].outbox = Append(@, message)]

\* self.onmessage; a plugin that blocks its thread takes no message.
TakeMessage(w) ==
  /\ workers[w].alive /\ workers[w].inbox # <<>>
  /\ LET m == Head(workers[w].inbox)
         x == [workers[w] EXCEPT !.inbox = Tail(@)]
         Answers(message) == [x EXCEPT !.outbox = Append(@, message)]
     IN  \E y \in CASE m[1] = "load-plugin" ->
                         {Answers(<<"ready", NoCall>>), Answers(<<"load-error", NoCall>>)}
                    [] m[1] = "ping" -> {Answers(<<"heartbeat", m[2]>>)}
                    [] m[1] = "abort" -> {[x EXCEPT !.stopping = x.doing # NoCall]}
                    [] m[1] = "execute" ->
                         IF x.doing # NoCall THEN {Answers(<<"execute:error", m[2]>>)}
                         ELSE {[x EXCEPT !.doing = m[2], !.stopping = FALSE]} :
           workers' = [workers EXCEPT ![w] = y]
  /\ UNCHANGED <<openProject, scans, scanned, boundPack, slot, calls>>

\* The import of the plugin's code comes to an end, which the host does not time.
Load(w) ==
  /\ workers[w].inbox # <<>> /\ Head(workers[w].inbox)[1] = "load-plugin"
  /\ TakeMessage(w)

\* The plugin's function returns or throws.
Finish(w) ==
  /\ workers[w].alive /\ workers[w].doing # NoCall
  /\ \E answer \in {"execute:result", "execute:error"} :
       workers' = [workers EXCEPT ![w].outbox = Append(@, <<answer, workers[w].doing>>),
                                  ![w].doing = NoCall, ![w].stopping = FALSE]
  /\ UNCHANGED <<openProject, scans, scanned, boundPack, slot, calls>>

\* An error outside of the plugin's promise reaches the host as an event.
Crash(w) ==
  /\ workers[w].alive /\ workers[w].outbox = <<>>
  /\ Posts(w, <<"crash", NoCall>>)
  /\ UNCHANGED <<openProject, scans, scanned, boundPack, slot, calls>>

SandboxNext ==
  \/ \E p \in PlProject : OpenAnother(p)
  \/ ScanAgain \/ UnregisterPack
  \/ \E s \in scans : ReadPack(s) \/ RegisterPack(s)
  \/ \E e \in PlCall : Execute(e) \/ StopSignal(e) \/ CallTimesOut(e)
  \/ Heartbeat \/ Hear
  \/ \E w \in DOMAIN workers : TakeMessage(w) \/ Finish(w) \/ Crash(w)

\* Timers and messages arrive, and code that is imported ends its first run.  A
\* plugin need not answer an execution or a ping.
SandboxFairness ==
  /\ WF_sandboxVars(Hear)
  /\ WF_sandboxVars(\E w \in DOMAIN workers : Load(w))
  /\ WF_sandboxVars(\E e \in PlCall : CallTimesOut(e))

SandboxSpec == SandboxInit /\ [][SandboxNext]_sandboxVars /\ SandboxFairness

-----------------------------------------------------------------------------
\* The plugin and its worker are those of the open project, whatever scan is late
\* and whatever call was under way when the project changed; a call is answered
\* with its own result, and one that is not over waits for a worker the host
\* still listens to, so that its promise is not left hanging.
SandboxSound ==
  /\ boundPack # NoPack => boundPack = openProject.project
  /\ slot.worker # 0 => workers[slot.worker].code = openProject.project
  /\ \A e \in PlCall :
       /\ calls[e].got \in {NoCall, e}
       /\ calls[e].stage = "waiting" => calls[e].worker = slot.worker /\ ~slot.ready
       /\ calls[e].stage = "running" => calls[e].worker = slot.worker /\ slot.current = e
=============================================================================
