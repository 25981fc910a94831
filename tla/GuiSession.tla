----------------------------- MODULE GuiSession -----------------------------
(***************************************************************************)
(* The development session of the desktop window (src/dev/gui.ts) and the  *)
(* host session it needs (dev_init_session and dev_clear_session of        *)
(* src-tauri/src/lib.rs).  The lifecycle of projects (projectControl/      *)
(* projectLifecycleController.ts) ends the session of the project that is  *)
(* left and ensures one for the project that is entered; recoveries,       *)
(* worker actions and workflow runs ensure one on demand.  Every call goes *)
(* on after an await, by when another may have replaced what it started    *)
(* with: the counter devSessionGeneration tells it so.                     *)
(*                                                                         *)
(* A step of this module is the code between two awaits.  The host takes   *)
(* requests up one at a time and its answers arrive in their order; what   *)
(* goes on without an answer (a microtask) runs, in any order, before the  *)
(* next answer or the next event is taken up.                              *)
(***************************************************************************)
EXTENDS Naturals, Sequences

CONSTANTS
  Project,      \* saved projects
  NoProject,    \* no project is open
  Caller,       \* calls of ensureGuiDevSession on demand
  MaxSwitches,  \* bound: projects entered or left
  MaxAsked,     \* bound: calls on demand
  MaxFaults     \* bound: requests the host fails

ASSUME ProjectAssumption == NoProject \notin Project
ASSUME CallerAssumption == {"life", "none"} \cap Caller = {}
ASSUME GuiBoundsAssumption ==
  MaxSwitches \in Nat /\ MaxAsked \in Nat /\ MaxFaults \in Nat

VARIABLES
  project,     \* the project the store shows
  operation,   \* the number of the current project operation
  lane,        \* sessionTransition: transitions of projects still to run
  dsg,         \* devSessionGeneration
  activeHost,  \* activeHostGeneration, 0 for null
  inFlight,    \* the call whose promise is ensureInFlight, or "none"
  session,     \* _session: the project and the host generation it has
  status,      \* devGuiStatus
  hostGen,     \* the host's DEV_STATE.generation
  hostBase,    \* the host's DEV_STATE.base_repo
  requests,    \* calls whose request the host has still to take up
  answers,     \* calls whose answer has still to be taken up
  call,        \* what each call knows and where it is
  asked, runs, faults \* counters of the bounds

counts == <<asked, runs, faults>>
gui == <<dsg, activeHost, inFlight, session, status>>
host == <<hostGen, hostBase>>
store == <<project, operation, lane>>
guiVars == <<store, gui, host, requests, answers, call, counts>>

Call == Caller \cup {"life"}
Peer == Call \cup {"none"}
NoSession == [base |-> NoProject, gen |-> 0]

Places == {"free", "clearing", "cleared", "kept", "torn", "opening",
           "opened", "refused", "deps", "load", "shared", "done"}
\* What a call does after the request to clear: go on with a replaced session,
\* give up, give up with status unavailable, enter the next project, or give
\* up a host session that came too late.
Afters == {"none", "replace", "end", "fail", "enter", "stale"}

Free ==
  [at |-> "free", want |-> NoProject, signal |-> 0, gen |-> 0, host |-> 0,
   life |-> 0, clears |-> 0, after |-> "none", peer |-> "none", result |-> NoSession]

\* What a call knows, and a transition of the lane.
CallState ==
  [at : Places, want : Project \cup {NoProject}, signal : Nat, gen : Nat, host : Nat,
   life : Nat, clears : Nat, after : Afters, peer : Peer,
   result : [base : Project \cup {NoProject}, gen : Nat]]
Transition == [prev : Project \cup {NoProject}, next : Project \cup {NoProject}, op : Nat]

GuiTypeOK ==
  /\ project \in Project \cup {NoProject} /\ operation \in Nat
  /\ lane \in Seq(Transition)
  /\ dsg \in Nat /\ activeHost \in Nat /\ inFlight \in Peer
  /\ session \in [base : Project \cup {NoProject}, gen : Nat]
  /\ status \in {"idle", "ready", "unavailable"}
  /\ hostGen \in Nat /\ hostBase \in Project \cup {NoProject}
  /\ requests \in Seq(Call) /\ answers \in Seq(Call)
  /\ call \in [Call -> CallState]
  /\ asked \in Nat /\ runs \in Nat /\ faults \in Nat

GuiInit ==
  /\ project = NoProject /\ operation = 1 /\ lane = <<>>
  /\ dsg = 0 /\ activeHost = 0 /\ inFlight = "none"
  /\ session = NoSession /\ status = "idle"
  /\ hostGen = 0 /\ hostBase = NoProject /\ requests = <<>> /\ answers = <<>>
  /\ call = [c \in Call |-> Free]
  /\ asked = 0 /\ runs = 0 /\ faults = 0

At(c, place) == call[c].at = place
\* The signal of a call is that of the project operation it was made under;
\* every change of project aborts it (createProjectOperationGuard).
AbortedSignal(s) == s # 0 /\ s # operation
Aborted(c) == AbortedSignal(call[c].signal)
Stale(c) == call[c].gen # dsg
Own(c) == [base |-> call[c].want, gen |-> call[c].host]

Budget == faults < MaxFaults
CountFault == faults' = faults + 1

\* A call, or the lane, that goes on before the next event is taken up.
Ready ==
  \/ lane # <<>> /\ At("life", "free")
  \/ \E c \in Call : call[c].at \in {"torn", "deps", "done"}

TakesAnswer(c) == ~Ready /\ answers # <<>> /\ Head(answers) = c /\ answers' = Tail(answers)

\* The store shows another project: its signal is aborted and the transition
\* is appended to the lane of transitions.
Switch(p) ==
  /\ ~Ready /\ p # project /\ operation =< MaxSwitches
  /\ project' = p /\ operation' = operation + 1
  /\ lane' = Append(lane, [prev |-> project, next |-> p, op |-> operation + 1])
  /\ UNCHANGED <<gui, host, requests, answers, call, counts>>

-----------------------------------------------------------------------------
(* Parts of the calls up to their first await.                             *)

\* teardownGuiDevSession by r, the record of call c, with the host generation
\* h and the counter d as they stand; flight is ensureInFlight afterwards.
Teardown(c, r, h, d, flight) ==
  /\ dsg' = d + 1 /\ activeHost' = h /\ inFlight' = flight
  /\ IF h # 0
     THEN /\ call' = [call EXCEPT ![c] = [r EXCEPT !.at = "clearing", !.life = d + 1,
                                                  !.clears = h]]
          /\ requests' = Append(requests, c)
          /\ UNCHANGED <<session, status>>
     ELSE /\ call' = [call EXCEPT ![c] = [r EXCEPT !.at = "torn", !.life = d + 1]]
          /\ session' = NoSession /\ status' = "idle" /\ UNCHANGED requests

\* Mutant: an initializer of another project is dropped without a new number,
\* and the new one takes the number as it stands.
EnsureUnfenced(c, p, s) ==
  LET r == [Free EXCEPT !.want = p, !.signal = s]
  IN IF p = NoProject \/ AbortedSignal(s)
     THEN call' = [call EXCEPT ![c] = Free] /\ UNCHANGED <<gui, requests>>
     ELSE IF inFlight # "none" /\ call[inFlight].want = p
     THEN /\ call' = [call EXCEPT ![c] = [r EXCEPT !.at = "shared", !.peer = inFlight]]
          /\ UNCHANGED <<gui, requests>>
     ELSE IF session.base = p
     THEN /\ inFlight' = c /\ status' = "ready"
          /\ call' = [call EXCEPT ![c] = [r EXCEPT !.at = "done", !.result = session]]
          /\ UNCHANGED <<dsg, activeHost, session, requests>>
     ELSE IF session # NoSession
     THEN Teardown(c, [r EXCEPT !.after = "replace"], activeHost, dsg, c)
     ELSE /\ inFlight' = c
          /\ call' = [call EXCEPT ![c] = [r EXCEPT !.at = "opening", !.gen = dsg]]
          /\ requests' = Append(requests, c)
          /\ UNCHANGED <<dsg, activeHost, session, status>>

\* ensureGuiDevSession, and initializeGuiDevSession up to its first await.
Ensure(c, p, s) ==
  LET r == [Free EXCEPT !.want = p, !.signal = s]
      d == IF inFlight = "none" THEN dsg ELSE dsg + 1
  IN IF p = NoProject \/ AbortedSignal(s)
     THEN /\ call' = [call EXCEPT ![c] = Free]
          /\ UNCHANGED <<gui, requests>>
     ELSE IF inFlight # "none" /\ call[inFlight].want = p
     THEN /\ call' = [call EXCEPT ![c] = [r EXCEPT !.at = "shared", !.peer = inFlight]]
          /\ UNCHANGED <<gui, requests>>
     ELSE IF session.base = p
     THEN /\ dsg' = d /\ inFlight' = c /\ status' = "ready"
          /\ call' = [call EXCEPT ![c] = [r EXCEPT !.at = "done", !.result = session]]
          /\ UNCHANGED <<activeHost, session, requests>>
     ELSE IF session # NoSession
     THEN Teardown(c, [r EXCEPT !.after = "replace"], activeHost, d, c)
     ELSE /\ dsg' = d + 1 /\ inFlight' = c
          /\ call' = [call EXCEPT ![c] = [r EXCEPT !.at = "opening", !.gen = d + 1]]
          /\ requests' = Append(requests, c)
          /\ UNCHANGED <<activeHost, session, status>>

\* clearStaleHostSession for the host generation of the call.
ClearStale(c) ==
  /\ call' = [call EXCEPT ![c] = [call[c] EXCEPT !.at = "clearing", !.clears = call[c].host,
                                                 !.after = "stale"]]
  /\ requests' = Append(requests, c)

\* The promise of the call is settled; its finally comes in a later step.
Done(c, result) ==
  call' = [call EXCEPT ![c].at = "done", ![c].result = result] /\ UNCHANGED requests

\* The catch of the second half of initializeGuiDevSession.
LoadFailed(c) ==
  IF Stale(c) THEN Done(c, NoSession) /\ UNCHANGED gui
  ELSE Teardown(c, [call[c] EXCEPT !.after = "fail"], activeHost, dsg, "none")

-----------------------------------------------------------------------------
\* A recovery or an action of the user ensures the session with the signal of
\* its operation, ...
Ask(c) ==
  /\ At(c, "free") /\ project # NoProject /\ asked + runs < MaxAsked
  /\ Ensure(c, project, operation)
  /\ asked' = asked + 1
  /\ UNCHANGED <<store, host, answers, runs, faults>>

\* ... a workflow run without one.
AskForRun(c) ==
  /\ At(c, "free") /\ project # NoProject /\ asked + runs < MaxAsked
  /\ Ensure(c, project, 0)
  /\ runs' = runs + 1
  /\ UNCHANGED <<store, host, answers, asked, faults>>

\* The lane takes up its next transition.
Transit ==
  /\ lane # <<>> /\ At("life", "free")
  /\ lane' = Tail(lane)
  /\ LET t == Head(lane) IN
     IF t.op # operation THEN UNCHANGED <<gui, requests, call>>
     ELSE IF t.prev # NoProject
     THEN Teardown("life", [Free EXCEPT !.want = t.next, !.signal = t.op, !.after = "enter"],
                   activeHost, dsg, "none")
     ELSE Ensure("life", t.next, t.op)
  /\ UNCHANGED <<project, operation, host, answers, counts>>

\* dev_init_session
HostInit(ok) ==
  /\ requests # <<>> /\ At(Head(requests), "opening")
  /\ requests' = Tail(requests) /\ answers' = Append(answers, Head(requests))
  /\ IF ok
     THEN /\ hostGen' = hostGen + 1 /\ hostBase' = call[Head(requests)].want
          /\ call' = [call EXCEPT ![Head(requests)].at = "opened",
                                  ![Head(requests)].host = hostGen + 1]
          /\ UNCHANGED faults
     ELSE /\ Budget /\ CountFault
          /\ call' = [call EXCEPT ![Head(requests)].at = "refused"]
          /\ UNCHANGED host
  /\ UNCHANGED <<store, gui, asked, runs>>

\* dev_clear_session: refused for another generation than the current one.
HostClear(ok) ==
  /\ requests # <<>> /\ At(Head(requests), "clearing")
  /\ requests' = Tail(requests) /\ answers' = Append(answers, Head(requests))
  /\ IF call[Head(requests)].clears # hostGen \/ hostBase = NoProject
     THEN /\ ok
          /\ call' = [call EXCEPT ![Head(requests)].at = "kept"]
          /\ UNCHANGED <<host, faults>>
     ELSE IF ok
     THEN /\ hostGen' = hostGen + 1 /\ hostBase' = NoProject
          /\ call' = [call EXCEPT ![Head(requests)].at = "cleared"]
          /\ UNCHANGED faults
     ELSE /\ Budget /\ CountFault
          /\ call' = [call EXCEPT ![Head(requests)].at = "kept"]
          /\ UNCHANGED host
  /\ UNCHANGED <<store, gui, asked, runs>>

\* The answer to a request to clear: after a teardown the session is reset
\* unless another has changed the counter.
Cleared(c) ==
  /\ call[c].at \in {"cleared", "kept"} /\ TakesAnswer(c)
  /\ activeHost' = IF At(c, "cleared") /\ activeHost = call[c].clears THEN 0 ELSE activeHost
  /\ IF call[c].after = "stale"
     THEN Done(c, NoSession) /\ UNCHANGED <<session, status>>
     ELSE /\ call' = [call EXCEPT ![c].at = "torn"]
          /\ UNCHANGED requests
          /\ IF call[c].life = dsg
             THEN session' = NoSession /\ status' = "idle"
             ELSE UNCHANGED <<session, status>>
  /\ UNCHANGED <<store, dsg, inFlight, host, counts>>

\* The caller of teardownGuiDevSession goes on.
Torn(c) ==
  /\ At(c, "torn")
  /\ \/ /\ call[c].after = "replace" /\ Aborted(c)
        /\ Done(c, NoSession) /\ UNCHANGED gui
     \/ /\ call[c].after = "replace" /\ ~Aborted(c)
        /\ dsg' = dsg + 1
        /\ call' = [call EXCEPT ![c].at = "opening", ![c].gen = dsg + 1]
        /\ requests' = Append(requests, c)
        /\ UNCHANGED <<activeHost, inFlight, session, status>>
     \/ /\ call[c].after = "end"
        /\ Done(c, NoSession) /\ UNCHANGED gui
     \/ /\ call[c].after = "fail"
        /\ session' = NoSession /\ status' = "unavailable"
        /\ Done(c, NoSession)
        /\ UNCHANGED <<dsg, activeHost, inFlight>>
     \/ /\ call[c].after = "enter"
        /\ Ensure(c, call[c].want, call[c].signal)
  /\ UNCHANGED <<store, host, answers, counts>>

\* Mutant: an answer that comes too late is dropped and the host keeps it.
OpenedUncleared(c) ==
  /\ At(c, "opened") /\ TakesAnswer(c)
  /\ IF Stale(c) THEN Done(c, NoSession) /\ UNCHANGED gui
     ELSE IF Aborted(c)
     THEN Teardown(c, [call[c] EXCEPT !.after = "end"], call[c].host, dsg, "none")
     ELSE /\ activeHost' = call[c].host
          /\ call' = [call EXCEPT ![c].at = "deps"]
          /\ UNCHANGED <<dsg, inFlight, session, status, requests>>
  /\ UNCHANGED <<store, host, counts>>

Opened(c) ==
  /\ At(c, "opened") /\ TakesAnswer(c)
  /\ IF Stale(c) THEN ClearStale(c) /\ UNCHANGED gui
     ELSE IF Aborted(c)
     THEN Teardown(c, [call[c] EXCEPT !.after = "end"], call[c].host, dsg, "none")
     ELSE /\ activeHost' = call[c].host
          /\ call' = [call EXCEPT ![c].at = "deps"]
          /\ UNCHANGED <<dsg, inFlight, session, status, requests>>
  /\ UNCHANGED <<store, host, counts>>

Refused(c) ==
  /\ At(c, "refused") /\ TakesAnswer(c)
  /\ status' = IF Stale(c) THEN status ELSE "unavailable"
  /\ Done(c, NoSession)
  /\ UNCHANGED <<store, dsg, activeHost, inFlight, session, host, counts>>

\* initDevSession: one session at a time, of one project and one host session.
InitDevSession(c) ==
  /\ At(c, "deps")
  /\ IF session \notin {NoSession, Own(c)} THEN LoadFailed(c)
     ELSE IF Stale(c)
     THEN /\ session' = NoSession /\ ClearStale(c)
          /\ UNCHANGED <<dsg, activeHost, inFlight, status>>
     ELSE /\ session' = Own(c)
          /\ call' = [call EXCEPT ![c].at = "load"]
          /\ UNCHANGED <<dsg, activeHost, inFlight, status, requests>>
  /\ UNCHANGED <<store, host, answers, counts>>

\* loadAcceptances has ended.
Loaded(c) ==
  /\ At(c, "load") /\ ~Ready
  /\ IF Stale(c)
     THEN /\ session' = IF session = Own(c) THEN NoSession ELSE session
          /\ ClearStale(c)
          /\ UNCHANGED <<dsg, activeHost, inFlight, status>>
     ELSE IF Aborted(c)
     THEN Teardown(c, [call[c] EXCEPT !.after = "end"], activeHost, dsg, "none")
     ELSE /\ status' = "ready" /\ Done(c, Own(c))
          /\ UNCHANGED <<dsg, activeHost, inFlight, session>>
  /\ UNCHANGED <<store, host, answers, counts>>

LoadRefused(c) ==
  /\ At(c, "load") /\ ~Ready /\ Budget
  /\ LoadFailed(c)
  /\ CountFault
  /\ UNCHANGED <<store, host, answers, asked, runs>>

\* Mutant: only the call itself hears that its promise is settled.
SettleAlone(c) ==
  /\ At(c, "done")
  /\ inFlight' = IF inFlight = c THEN "none" ELSE inFlight
  /\ call' = [call EXCEPT ![c] = Free]
  /\ UNCHANGED <<store, dsg, activeHost, session, status, host, requests, answers, counts>>

\* The finally of ensureGuiDevSession; everyone who shared the promise goes on.
Settle(c) ==
  /\ At(c, "done")
  /\ inFlight' = IF inFlight = c THEN "none" ELSE inFlight
  /\ call' = [d \in Call |-> IF d = c \/ call[d].peer = c THEN Free ELSE call[d]]
  /\ UNCHANGED <<store, dsg, activeHost, session, status, host, requests, answers, counts>>

Steps(c) ==
  \/ Cleared(c) \/ Torn(c) \/ Opened(c)
  \/ Refused(c) \/ InitDevSession(c) \/ Loaded(c) \/ Settle(c)

GuiNext ==
  \/ \E p \in Project \cup {NoProject} : Switch(p)
  \/ Transit
  \/ \E c \in Caller : Ask(c) \/ AskForRun(c)
  \/ \E ok \in BOOLEAN : HostInit(ok) \/ HostClear(ok)
  \/ \E c \in Call : Steps(c) \/ LoadRefused(c)

GuiSpec == GuiInit /\ [][GuiNext]_guiVars
\* Awaits return and the host answers.
GuiFairness ==
  /\ WF_guiVars(Transit)
  /\ WF_guiVars(HostInit(TRUE) \/ HostClear(TRUE))
  /\ \A c \in Call : WF_guiVars(Steps(c))

GuiFairSpec == GuiSpec /\ GuiFairness

-----------------------------------------------------------------------------
\* The host keeps nothing the window has lost: as long as no request failed, the
\* host session is the one activeHostGeneration names, which the next teardown
\* gives back, or a call will still hear of it or has asked to give it back.  A
\* session of the window with the generation of the host is of the host's project.
HostRemembered ==
  hostBase # NoProject =>
    /\ faults = 0 =>
         \/ activeHost = hostGen
         \/ \E c \in Call : At(c, "opened") /\ call[c].host = hostGen
         \/ \E c \in Call : At(c, "clearing") /\ call[c].clears = hostGen
    /\ session.gen = hostGen => session.base = hostBase

\* Of the calls that set up a session at most one is up to date, whatever fails.
OneInitializer ==
  \A c, d \in Call :
    /\ {call[c].at, call[d].at} \subseteq {"opening", "opened", "deps", "load"}
    /\ call[c].gen = dsg /\ call[d].gen = dsg
    => c = d

\* Every call comes to its end.
CallsSettle == \A c \in Call : ~At(c, "free") ~> At(c, "free")

=============================================================================
