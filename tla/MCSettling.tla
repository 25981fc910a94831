----------------------------- MODULE MCSettling -----------------------------
(***************************************************************************)
(* What must end, under the fairness that the awaits and timers of the     *)
(* code justify: the flush of the event buffer, the calls for a            *)
(* development session, the saves of a project, the executions of a plugin *)
(* and the calls of models. The parts share no state here; `focus' is the  *)
(* part that moves.                                                        *)
(***************************************************************************)
EXTENDS GuiSession, ProjectStore, PluginSandbox, LlmCall

CONSTANTS Proc, EventId, Body, NoLock, p1, p2, caller, s1, s2, c1, c2, q1, q2

VARIABLES
  focus,
  streamFile, tmp, snapshot, lockFile, buffers, pc, copied, batch, expected, result

vars == <<streamFile, tmp, snapshot, lockFile, buffers, pc, copied, batch, expected, result>>
settlingVars == <<focus, vars, guiVars, psVars, sandboxVars, llm>>

ReplaysAnywhere(S) == TRUE

\* Two agents, in the order of the project's list.
LlmAgents == <<"a1", "a2">>

\* A rename over the stream may fail.
Store == INSTANCE EventStore WITH
  Free <- NoLock, Replays <- ReplaysAnywhere, RenameMayFail <- TRUE

\* The variables of a part that does not move are Off where they are many.
Off == "off"

SessionOff ==
  /\ project = Off /\ operation = Off /\ lane = Off /\ dsg = Off /\ activeHost = Off
  /\ inFlight = Off /\ session = Off /\ status = Off /\ hostGen = Off /\ hostBase = Off
  /\ requests = Off /\ answers = Off /\ call = Off /\ asked = Off /\ runs = Off
  /\ faults = Off

SavesOff ==
  /\ st = Off /\ disk = Off /\ opened = Off /\ ops = Off /\ line = Off /\ lock = Off
  /\ timer = Off /\ switched = Off /\ psEdits = Off /\ psBuilt = Off /\ psFaults = Off

SettlingInit ==
  /\ Store!Init /\ SandboxInit /\ LlmInit
  /\ \/ focus = "store" /\ SessionOff /\ SavesOff
     \/ focus = "session" /\ GuiInit /\ SavesOff
     \/ focus = "saves" /\ SessionOff /\ PsInit
     \/ focus \in {"plugins", "calls"} /\ SessionOff /\ SavesOff

SettlingNext ==
  /\ UNCHANGED focus
  /\ \/ focus = "store" /\ Store!Next /\ UNCHANGED <<guiVars, psVars, sandboxVars, llm>>
     \/ focus = "session" /\ GuiNext /\ UNCHANGED <<vars, psVars, sandboxVars, llm>>
     \/ focus = "saves" /\ PsNext /\ UNCHANGED <<vars, guiVars, sandboxVars, llm>>
     \/ focus = "plugins" /\ SandboxNext /\ UNCHANGED <<vars, guiVars, psVars, llm>>
     \/ focus = "calls" /\ LlmNext /\ UNCHANGED <<vars, guiVars, psVars, sandboxVars>>

\* The fairness of FairSpec of EventStore, of GuiFairSpec and of PsFairSpec, of
\* SandboxSpec and of LlmSpec, each where the part moves.
SettlingSpec ==
  /\ SettlingInit /\ [][SettlingNext]_settlingVars
  /\ \A p \in Proc : WF_vars(focus = "store" /\ Store!FlushStep(p))
  /\ WF_guiVars(focus = "session" /\ Transit)
  /\ WF_guiVars(focus = "session" /\ (HostInit(TRUE) \/ HostClear(TRUE)))
  /\ \A c \in Call : WF_guiVars(focus = "session" /\ Steps(c))
  /\ \A s \in Saver :
       /\ WF_psVars(focus = "saves" /\ StartSave(s))
       /\ WF_psVars(focus = "saves" /\ BuildFile(s))
       /\ WF_psVars(focus = "saves" /\ WriteFile(s))
       /\ WF_psVars(focus = "saves" /\ CommitSave(s))
       /\ WF_psVars(focus = "saves" /\ WriteCheckpoint(s))
       /\ WF_psVars(focus = "saves" /\ (PickRoot(s) \/ DismissDialog(s)))
  /\ WF_sandboxVars(focus = "plugins" /\ Hear)
  /\ WF_sandboxVars(focus = "plugins" /\ \E w \in DOMAIN workers : Load(w))
  /\ WF_sandboxVars(focus = "plugins" /\ \E e \in PlCall : CallTimesOut(e))
  /\ \A c \in LlmRequest :
       /\ WF_llm(focus = "calls" /\ Errs(c, "aborted"))
       /\ WF_llm(focus = "calls" /\ Wakes(c))
       /\ WF_llm(focus = "calls" /\ NextRound(c))

\* A flush of the event buffer ends, whatever lock another process holds or left
\* behind (FlushSettles of EventStore); a call for a development session ends, and
\* so does a transition of the project's lane (CallsSettle); and every save that
\* was asked for ends, also behind one that failed (SavesSettle); the execution
\* of a plugin's node ends, also when the plugin never answers; and the calls
\* of models of a run that was stopped end.  Two at a time
\* of each part, told apart by i, so that one graph serves all of them.
Waiting(i) ==
  \/ focus = "store" /\ pc[<<p1, p2>>[i]] # "idle"
  \/ focus = "session" /\ ~At(<<caller, "life">>[i], "free")
  \/ focus = "saves" /\ ops[<<s1, s2>>[i]].stage # "idle"
  \/ focus = "plugins" /\ calls[<<c1, c2>>[i]].stage \in {"waiting", "running"}
  \/ focus = "calls" /\ llm.stopped /\ Stage(<<q1, q2>>[i]) \notin {"new", "ended"}

WaitingEnds == \A i \in {1, 2} : Waiting(i) ~> ~Waiting(i)
=============================================================================
