--------------------------- MODULE Window_proofs ----------------------------
(***************************************************************************)
(* Proofs about the window: GuiSession, for any callers, projects and      *)
(* bounds on switches and numbers, Planning with the Orchestrations it     *)
(* extends, for any orchestrations, stages, graphs and decisions, and      *)
(* Canvas, for any workflows, subgraphs and length of the history.         *)
(***************************************************************************)
EXTENDS GuiSession, Planning, Canvas, TLAPS
LOCAL INSTANCE SequencesExt

-----------------------------------------------------------------------------
(***************************************************************************)
(* GuiSession. A call of the lane is at one place of its way, the answers  *)
(* of the host reach the window in the order they were given, and what a   *)
(* call has been given is of the past.                                     *)
(***************************************************************************)

Answered == {"opened", "refused", "cleared", "kept"}
SettingUp == {"opening", "opened", "deps", "load"}
Answers == 1 .. Len(answers)

\* The answers still to come are those of different calls, each of which waits
\* for it, and the hosts opened later have the higher numbers.
AnswersWait ==
  /\ \A i \in Answers : call[answers[i]].at \in Answered
  /\ \A c \in Call : At(c, "opened") => \E i \in Answers : answers[i] = c
  /\ \A i, j \in Answers : i < j =>
       /\ answers[i] # answers[j]
       /\ At(answers[i], "opened") /\ At(answers[j], "opened") =>
            call[answers[i]].host < call[answers[j]].host

\* What a call has been given is of the past, and an answer to come is newer than
\* what the window has seen.
KnowsPast(c) ==
  /\ call[c].gen <= dsg /\ call[c].host <= hostGen
  /\ At(c, "opened") => activeHost < call[c].host
  /\ At(c, "cleared") => call[c].clears < hostGen
  /\ call[c].peer # "none" => At(c, "shared")
  /\ hostBase # NoProject /\ call[c].host = hostGen => call[c].want = hostBase

NumbersGrow ==
  /\ activeHost <= hostGen /\ session.gen <= hostGen
  /\ hostBase # NoProject => hostGen > 0
  /\ \A c \in Call : KnowsPast(c)

SessionInv == GuiTypeOK /\ AnswersWait /\ NumbersGrow /\ OneInitializer /\ HostRemembered

-----------------------------------------------------------------------------
\* The call c goes on by itself or with its answer.
MovesTo(c, r) ==
  /\ call' = [call EXCEPT ![c] = r]
  /\ r.at \notin Answered /\ r.gen <= dsg'
  /\ dsg' \in Nat /\ dsg' >= dsg /\ inFlight' \in Peer
  /\ status' \in {"idle", "ready", "unavailable"} /\ requests' \in Seq(Call)
  /\ r.at \in SettingUp /\ r.gen = dsg' =>
       dsg' > dsg \/ (call[c].at \in SettingUp /\ r.gen = call[c].gen)
  /\ r.host = 0 \/ (r.host = call[c].host /\ r.want = call[c].want)
  /\ r.peer # "none" => r.at = "shared"
  /\ session' \in {session, NoSession, Own(c)}
  /\ At(c, "opened") =>
       activeHost' = call[c].host \/ (r.at = "clearing" /\ r.clears = call[c].host)
  /\ \/ activeHost' = activeHost
     \/ At(c, "opened") /\ activeHost' = call[c].host
     \/ At(c, "cleared") /\ activeHost = call[c].clears /\ activeHost' = 0

Moves(c) == \E r \in CallState : MovesTo(c, r)

Waits(c) ==
  \/ call[c].at \notin Answered \cup {"clearing"} /\ UNCHANGED answers
  \/ call[c].at \in Answered /\ answers # <<>> /\ c = Head(answers) /\ answers' = Tail(answers)

LEMMA MovesAnswers ==
    ASSUME GuiTypeOK, AnswersWait, NEW c \in Call, Moves(c), Waits(c)
    PROVE  AnswersWait'
<1> PICK r \in CallState : call' = [call EXCEPT ![c] = r] /\ r.at \notin Answered
  BY DEF Moves, MovesTo
<1> call \in [Call -> CallState] /\ answers \in Seq(Call)
  BY DEF GuiTypeOK
<1>1. CASE call[c].at \notin Answered \cup {"clearing"} /\ UNCHANGED answers
  <2>1. \A i \in Answers : answers[i] # c /\ call'[answers[i]] = call[answers[i]]
    BY <1>1 DEF AnswersWait, Answers
  <2>2. \A d \in Call : At(d, "opened")' => d # c /\ At(d, "opened")
    BY DEF At, Answered
  <2> QED BY <1>1, <2>1, <2>2 DEF AnswersWait, Answers, At
<1>2. CASE /\ answers # <<>> /\ c = Head(answers) /\ answers' = Tail(answers)
           /\ call[c].at \in Answered
  <2>1. /\ Len(answers') = Len(answers) - 1 /\ Len(answers) \in Nat /\ Len(answers) > 0
        /\ \A i \in 1 .. Len(answers') : answers'[i] = answers[i + 1] /\ i + 1 \in Answers
        /\ 1 \in Answers /\ answers[1] = c
    BY <1>2 DEF Answers
  <2>2. \A i \in 1 .. Len(answers') : answers'[i] # c /\ answers'[i] \in Call
    BY <2>1 DEF AnswersWait, Answers
  <2>3. \A i \in 1 .. Len(answers') : call'[answers'[i]] = call[answers[i + 1]]
    BY <2>1, <2>2
  <2>4. ASSUME NEW d \in Call, At(d, "opened")'
        PROVE  \E i \in 1 .. Len(answers') : answers'[i] = d
    <3>1. d # c /\ At(d, "opened")
      BY <2>4 DEF At, Answered
    <3>2. PICK i \in Answers : answers[i] = d
      BY <3>1 DEF AnswersWait
    <3>3. i - 1 \in 1 .. Len(answers') /\ answers'[i - 1] = answers[i]
      BY <2>1, <3>1, <3>2 DEF Answers
    <3> QED BY <3>2, <3>3
  <2>5. ASSUME NEW i \in 1 .. Len(answers'), NEW j \in 1 .. Len(answers'), i < j
        PROVE  /\ answers'[i] # answers'[j]
               /\ call'[answers'[i]].at = "opened" /\ call'[answers'[j]].at = "opened" =>
                    call'[answers'[i]].host < call'[answers'[j]].host
    <3>1. i + 1 \in Answers /\ j + 1 \in Answers /\ i + 1 < j + 1
      BY <2>1, <2>5 DEF Answers
    <3>2. /\ answers[i + 1] # answers[j + 1]
          /\ call[answers[i + 1]].at = "opened" /\ call[answers[j + 1]].at = "opened" =>
               call[answers[i + 1]].host < call[answers[j + 1]].host
      BY <3>1 DEF AnswersWait, At
    <3>3. /\ answers'[i] = answers[i + 1] /\ answers'[j] = answers[j + 1]
          /\ call'[answers'[i]] = call[answers[i + 1]] /\ call'[answers'[j]] = call[answers[j + 1]]
      BY <2>1, <2>3
    <3> QED BY <3>2, <3>3
  <2>6. \A i \in 1 .. Len(answers') : call'[answers'[i]].at \in Answered
    BY <2>1, <2>3 DEF AnswersWait
  <2> QED BY <2>4, <2>5, <2>6 DEF AnswersWait, Answers, At
<1> QED BY <1>1, <1>2 DEF Waits

\* What becomes of the numbers.
LEMMA MovesNumbers ==
    ASSUME SessionInv, NEW c \in Call, Moves(c), Waits(c), UNCHANGED host,
           faults' = 0 => faults = 0
    PROVE  NumbersGrow' /\ OneInitializer' /\ HostRemembered'
<1> PICK r \in CallState : MovesTo(c, r)
  BY DEF Moves
<1> USE DEF SessionInv, MovesTo
<1> /\ call \in [Call -> CallState] /\ answers \in Seq(Call)
    /\ dsg \in Nat /\ activeHost \in Nat /\ hostGen \in Nat
    /\ session \in [base : Project \cup {NoProject}, gen : Nat]
    /\ call[c] \in CallState
  BY DEF GuiTypeOK
<1> /\ call'[c] = r /\ \A d \in Call : d # c => call'[d] = call[d]
    /\ hostGen' = hostGen /\ hostBase' = hostBase
  BY DEF host
<1>0. \A d \in Call : /\ call[d].gen \in Nat /\ call[d].host \in Nat /\ call[d].clears \in Nat
                      /\ KnowsPast(d)
  BY DEF GuiTypeOK, CallState, NumbersGrow
<1>1. /\ r.gen \in Nat /\ r.host \in Nat /\ dsg' >= dsg
      /\ call[c].host <= hostGen /\ session' \in {session, NoSession, Own(c)}
  BY <1>0 DEF CallState, KnowsPast
<1>2. activeHost' <= hostGen /\ session'.gen <= hostGen /\ activeHost' \in Nat
  BY <1>0, <1>1 DEF NumbersGrow, NoSession, Own
\* The next answer is that of the lowest host.
<1>3. \A d \in Call : At(d, "opened") /\ d # c => activeHost' < call[d].host
  <2> SUFFICES ASSUME NEW d \in Call, At(d, "opened"), d # c PROVE activeHost' < call[d].host
    OBVIOUS
  <2>1. activeHost < call[d].host /\ call[d].host \in Nat
    BY <1>0 DEF KnowsPast
  <2>2. CASE At(c, "opened") /\ activeHost' = call[c].host
    <3>1. answers # <<>> /\ c = answers[1] /\ 1 \in Answers
      BY <2>2 DEF Waits, Answered, At, Answers
    <3>2. PICK j \in Answers : answers[j] = d
      BY DEF AnswersWait
    <3>3. 1 < j
      BY <3>1, <3>2 DEF Answers
    <3> QED BY <2>2, <3>1, <3>2, <3>3 DEF AnswersWait
  <2> QED BY <2>1, <2>2
<1>4. \A d \in Call : KnowsPast(d)'
  <2> SUFFICES ASSUME NEW d \in Call PROVE KnowsPast(d)'
    OBVIOUS
  <2>1. CASE d = c
    BY <2>1, <1>0, <1>1 DEF KnowsPast, At, Answered, NumbersGrow
  <2>2. CASE d # c
    BY <2>2, <1>0, <1>1, <1>3 DEF KnowsPast, At
  <2> QED BY <2>1, <2>2
<1>5. NumbersGrow'
  BY <1>2, <1>4 DEF NumbersGrow
<1>6. OneInitializer'
  BY <1>0, <1>1 DEF OneInitializer, KnowsPast, SettingUp
<1>7. HostRemembered'
  <2> SUFFICES ASSUME hostBase # NoProject PROVE HostRemembered'
    BY DEF HostRemembered
  <2>1. session'.gen = hostGen => session'.base = hostBase
    BY <1>0, <1>1 DEF HostRemembered, KnowsPast, NoSession, Own, NumbersGrow
  <2>2. ASSUME faults = 0, activeHost = hostGen PROVE activeHost' = hostGen
    BY <1>0, <1>1, <2>2 DEF KnowsPast, At
  <2>3. ASSUME NEW d \in Call, At(d, "opened") /\ call[d].host = hostGen
        PROVE  \/ activeHost' = hostGen
               \/ \E e \in Call : At(e, "opened")' /\ call'[e].host = hostGen
               \/ \E e \in Call : At(e, "clearing")' /\ call'[e].clears = hostGen
    BY <2>3 DEF At
  <2>4. ASSUME NEW d \in Call, At(d, "clearing") /\ call[d].clears = hostGen, d # c
        PROVE  \E e \in Call : At(e, "clearing")' /\ call'[e].clears = hostGen
    BY <2>4 DEF At
  <2> QED BY <2>1, <2>2, <2>3, <2>4 DEF HostRemembered, Waits, Answered, At
<1> QED BY <1>5, <1>6, <1>7

-----------------------------------------------------------------------------
LEMMA Placed ==
  /\ "opening" \in Places /\ "clearing" \in Places /\ "torn" \in Places /\ "done" \in Places
  /\ "shared" \in Places /\ "deps" \in Places /\ "load" \in Places /\ "opened" \in Places
  /\ "refused" \in Places /\ "cleared" \in Places /\ "kept" \in Places
BY DEF Places

\* Updates of what a call knows keep its type.
LEMMA Updated ==
    ASSUME NEW r \in CallState
    PROVE  /\ \A x \in Places : [r EXCEPT !.at = x] \in CallState
           /\ \A x \in Places, n \in Nat :
                /\ [r EXCEPT !.at = x, !.life = n] \in CallState
                /\ [r EXCEPT !.at = x, !.gen = n] \in CallState
                /\ [r EXCEPT !.at = x, !.host = n] \in CallState
           /\ \A x \in Places, n \in Nat, m \in Nat :
                [r EXCEPT !.at = x, !.life = n, !.clears = m] \in CallState
           /\ \A x \in Places, n \in Nat, a \in Afters :
                [r EXCEPT !.at = x, !.clears = n, !.after = a] \in CallState
           /\ \A x \in Places, p \in Peer : [r EXCEPT !.at = x, !.peer = p] \in CallState
           /\ \A x \in Places, q \in [base : Project \cup {NoProject}, gen : Nat] :
                [r EXCEPT !.at = x, !.result = q] \in CallState
           /\ \A a \in Afters : [r EXCEPT !.after = a] \in CallState
           /\ \A p \in Project \cup {NoProject}, n \in Nat :
                [r EXCEPT !.want = p, !.signal = n] \in CallState
           /\ \A p \in Project \cup {NoProject}, n \in Nat, a \in Afters :
                [r EXCEPT !.want = p, !.signal = n, !.after = a] \in CallState
BY DEF CallState

LEMMA FreeTyped == Free \in CallState /\ NoSession \in [base : Project \cup {NoProject}, gen : Nat]
<1>1. NoSession \in [base : Project \cup {NoProject}, gen : Nat]
  BY DEF NoSession
<1>2. "free" \in Places /\ "none" \in Afters /\ "none" \in Peer
  BY DEF Places, Afters, Peer
<1> QED BY <1>1, <1>2 DEF Free, CallState

\* A teardown by a call, with its record r, moves it.
LEMMA TeardownMoves ==
    ASSUME GuiTypeOK, NEW c \in Call, NEW r \in CallState, NEW h \in Nat, NEW d \in Nat, d >= dsg,
           NEW flight \in Peer, Teardown(c, r, h, d, flight),
           r.gen <= dsg, r.peer = "none",
           r.host = 0 \/ (r.host = call[c].host /\ r.want = call[c].want),
           (h = activeHost /\ ~At(c, "opened")) \/ (At(c, "opened") /\ h = call[c].host)
    PROVE  Moves(c)
<1> dsg \in Nat /\ r.gen \in Nat /\ session \in [base : Project \cup {NoProject}, gen : Nat]
  BY DEF GuiTypeOK, CallState
<1> dsg' = d + 1 /\ activeHost' = h /\ inFlight' = flight
  BY DEF Teardown
<1>1. CASE h # 0
  <2> DEFINE q == [r EXCEPT !.at = "clearing", !.life = d + 1, !.clears = h]
  <2>0. d + 1 \in Nat
    OBVIOUS
  <2>1. q \in CallState
    BY <2>0, Placed, Updated, Zenon
  <2>2. q.at = "clearing" /\ q.gen = r.gen /\ q.host = r.host /\ q.want = r.want
        /\ q.peer = r.peer /\ q.clears = h
    BY DEF CallState
  <2>3. call' = [call EXCEPT ![c] = q] /\ UNCHANGED <<session, status>>
        /\ requests' = Append(requests, c)
    BY <1>1 DEF Teardown
  <2>4. requests' \in Seq(Call) /\ status' \in {"idle", "ready", "unavailable"}
    BY <2>3 DEF GuiTypeOK
  <2> HIDE DEF q
  <2>9. MovesTo(c, q)
    BY <2>1, <2>2, <2>3, <2>4 DEF MovesTo, Answered, SettingUp
  <2> QED BY <2>1, <2>2, <2>3, <2>4, <2>9 DEF Moves
<1>2. CASE h = 0
  <2> DEFINE q == [r EXCEPT !.at = "torn", !.life = d + 1]
  <2>0. d + 1 \in Nat
    OBVIOUS
  <2>1. q \in CallState
    BY <2>0, Placed, Updated, Zenon
  <2>2. q.at = "torn" /\ q.gen = r.gen /\ q.host = r.host /\ q.want = r.want
        /\ q.peer = r.peer
    BY DEF CallState
  <2>3. call' = [call EXCEPT ![c] = q] /\ session' = NoSession /\ status' = "idle"
        /\ UNCHANGED requests
    BY <1>2 DEF Teardown
  <2>4. requests' \in Seq(Call)
    BY <2>3 DEF GuiTypeOK
  <2> HIDE DEF q
  <2>9. MovesTo(c, q)
    BY <2>1, <2>2, <2>3, <2>4 DEF MovesTo, Answered, SettingUp
  <2> QED BY <2>1, <2>2, <2>3, <2>4, <2>9 DEF Moves
<1> QED BY <1>1, <1>2

LEMMA EnsureMoves ==
    ASSUME SessionInv, NEW c \in Call, call[c].at \in {"free", "torn"},
           NEW p \in Project \cup {NoProject}, NEW s \in Nat, Ensure(c, p, s)
    PROVE  Moves(c)
<1> DEFINE r == [Free EXCEPT !.want = p, !.signal = s]
           d == IF inFlight = "none" THEN dsg ELSE dsg + 1
<1> USE DEF SessionInv
<1> /\ dsg \in Nat /\ d \in Nat /\ d >= dsg /\ activeHost \in Nat /\ inFlight \in Peer
    /\ session \in [base : Project \cup {NoProject}, gen : Nat] /\ call \in [Call -> CallState]
    /\ status \in {"idle", "ready", "unavailable"} /\ requests \in Seq(Call)
    /\ ~At(c, "opened")
  BY DEF GuiTypeOK, At
<1>1. r \in CallState /\ r.at = "free" /\ r.gen = 0 /\ r.host = 0 /\ r.peer = "none"
  BY FreeTyped DEF CallState, Free
<1>2. CASE p = NoProject \/ AbortedSignal(s)
  <2>1. call' = [call EXCEPT ![c] = Free] /\ UNCHANGED <<gui, requests>>
    BY <1>2 DEF Ensure
  <2>2. Free.at = "free" /\ Free.gen = 0 /\ Free.host = 0 /\ Free.peer = "none"
    BY DEF Free
  <2>9. MovesTo(c, Free)
    BY <2>1, <2>2, FreeTyped DEF MovesTo, gui, Answered, SettingUp
  <2> QED BY <2>9, FreeTyped DEF Moves
<1>3. CASE ~(p = NoProject \/ AbortedSignal(s)) /\ inFlight # "none" /\ call[inFlight].want = p
  <2> DEFINE q == [r EXCEPT !.at = "shared", !.peer = inFlight]
  <2>1. q \in CallState
    BY <1>1, Placed, Updated, Zenon
  <2>2. q.at = "shared" /\ q.gen = 0 /\ q.host = 0
    BY <1>1 DEF CallState
  <2>3. call' = [call EXCEPT ![c] = q] /\ UNCHANGED <<gui, requests>>
    BY <1>3 DEF Ensure
  <2> HIDE DEF q
  <2>9. MovesTo(c, q)
    BY <2>1, <2>2, <2>3 DEF MovesTo, gui, Answered, SettingUp
  <2> QED BY <2>1, <2>2, <2>3, <2>9 DEF Moves
<1> DEFINE New == ~(p = NoProject \/ AbortedSignal(s))
                  /\ ~(inFlight # "none" /\ call[inFlight].want = p)
<1>4. CASE New /\ session.base = p
  <2> DEFINE q == [r EXCEPT !.at = "done", !.result = session]
  <2>1. q \in CallState
    BY <1>1, Placed, Updated, Zenon
  <2>2. q.at = "done" /\ q.gen = 0 /\ q.host = 0 /\ q.peer = "none"
    BY <1>1 DEF CallState
  <2>3. /\ call' = [call EXCEPT ![c] = q] /\ UNCHANGED <<activeHost, session, requests>>
        /\ dsg' = d /\ inFlight' = c /\ status' = "ready"
    BY <1>4 DEF Ensure
  <2> HIDE DEF q
  <2>9. MovesTo(c, q)
    BY <2>1, <2>2, <2>3 DEF MovesTo, Peer, Answered, SettingUp
  <2> QED BY <2>1, <2>2, <2>3, <2>9 DEF Moves
<1>5. CASE New /\ session.base # p /\ session # NoSession
  <2> DEFINE q == [r EXCEPT !.after = "replace"]
  <2>1. q \in CallState /\ q.gen = 0 /\ q.host = 0 /\ q.peer = "none"
    BY <1>1 DEF CallState, Afters
  <2>2. Teardown(c, q, activeHost, d, c)
    BY <1>5 DEF Ensure
  <2> HIDE DEF q, d
  <2> QED BY <2>1, <2>2, TeardownMoves DEF Peer
<1>6. CASE New /\ session.base # p /\ session = NoSession
  <2> DEFINE q == [r EXCEPT !.at = "opening", !.gen = d + 1]
  <2>0. d + 1 \in Nat
    OBVIOUS
  <2>1. q \in CallState
    BY <1>1, <2>0, Placed, Updated, Zenon
  <2>2. q.at = "opening" /\ q.gen = d + 1 /\ q.host = 0 /\ q.peer = "none"
    BY <1>1 DEF CallState
  <2>3. /\ call' = [call EXCEPT ![c] = q] /\ UNCHANGED <<activeHost, session, status>>
        /\ dsg' = d + 1 /\ inFlight' = c /\ requests' = Append(requests, c)
    BY <1>6 DEF Ensure
  <2>4. requests' \in Seq(Call)
    BY <2>3
  <2> HIDE DEF q, d
  <2>9. MovesTo(c, q)
    BY <2>1, <2>2, <2>3, <2>4 DEF MovesTo, Peer, Answered, SettingUp
  <2> QED BY <2>1, <2>2, <2>3, <2>4, <2>9 DEF Moves
<1> QED BY <1>2, <1>3, <1>4, <1>5, <1>6

-----------------------------------------------------------------------------
\* Each action of a call moves it.
LEMMA DoneMoves ==
    ASSUME GuiTypeOK, NEW c \in Call, ~At(c, "opened"),
           NEW res \in [base : Project \cup {NoProject}, gen : Nat], Done(c, res),
           call[c].gen <= dsg, call[c].peer = "none", UNCHANGED dsg,
           inFlight' \in Peer, status' \in {"idle", "ready", "unavailable"},
           session' \in {session, NoSession},
           \/ UNCHANGED activeHost
           \/ At(c, "cleared") /\ activeHost = call[c].clears /\ activeHost' = 0
    PROVE  Moves(c)
<1> DEFINE q == [call[c] EXCEPT !.at = "done", !.result = res]
<1> call \in [Call -> CallState] /\ call[c] \in CallState /\ dsg \in Nat
    /\ requests \in Seq(Call)
  BY DEF GuiTypeOK
<1>1. q \in CallState
  BY Placed, Updated, Zenon
<1>2. q.at = "done" /\ q.gen = call[c].gen /\ q.host = call[c].host /\ q.want = call[c].want
      /\ q.peer = "none"
  BY DEF CallState
<1>3. call' = [call EXCEPT ![c] = q] /\ UNCHANGED requests
  BY DEF Done
<1> HIDE DEF q
<1>4. MovesTo(c, q)
  BY <1>1, <1>2, <1>3 DEF MovesTo, Answered, SettingUp
<1> QED BY <1>1, <1>4 DEF Moves

LEMMA ClearStaleMoves ==
    ASSUME GuiTypeOK, NEW c \in Call, ClearStale(c), call[c].gen <= dsg, call[c].peer = "none",
           UNCHANGED <<dsg, activeHost, inFlight, status>>, session' \in {session, NoSession}
    PROVE  Moves(c)
<1> DEFINE q == [call[c] EXCEPT !.at = "clearing", !.clears = call[c].host, !.after = "stale"]
<1> call \in [Call -> CallState] /\ call[c] \in CallState /\ dsg \in Nat
    /\ requests \in Seq(Call) /\ inFlight \in Peer /\ status \in {"idle", "ready", "unavailable"}
  BY DEF GuiTypeOK
<1>0. call[c].host \in Nat /\ "stale" \in Afters
  BY DEF CallState, Afters
<1>1. q \in CallState
  BY <1>0, Placed, Updated, Zenon
<1>2. q.at = "clearing" /\ q.gen = call[c].gen /\ q.host = call[c].host /\ q.want = call[c].want
      /\ q.peer = "none" /\ q.clears = call[c].host
  BY DEF CallState
<1>3. call' = [call EXCEPT ![c] = q] /\ requests' \in Seq(Call)
  BY DEF ClearStale
<1> HIDE DEF q
<1>4. MovesTo(c, q)
  BY <1>1, <1>2, <1>3 DEF MovesTo, Answered, SettingUp
<1> QED BY <1>1, <1>4 DEF Moves

\* A call that is not waiting for another has no peer, and its numbers are of the past.
LEMMA AloneFacts ==
    ASSUME SessionInv, NEW c \in Call
    PROVE  /\ ~At(c, "shared") => call[c].peer = "none"
           /\ call[c] \in CallState /\ call[c].gen \in Nat /\ call[c].host \in Nat
           /\ call[c].gen <= dsg /\ call[c].signal \in Nat
           /\ call[c].want \in Project \cup {NoProject} /\ Own(c) \in [base : Project \cup {NoProject}, gen : Nat]
<1>1. call[c] \in CallState
  BY DEF SessionInv, GuiTypeOK
<1>2. KnowsPast(c)
  BY DEF SessionInv, NumbersGrow
<1> QED BY <1>1, <1>2 DEF CallState, KnowsPast, Own

LEMMA LoadFailedMoves ==
    ASSUME SessionInv, NEW c \in Call, call[c].at \in {"deps", "load"}, LoadFailed(c)
    PROVE  Moves(c)
<1> ~At(c, "opened") /\ ~At(c, "shared")
  BY DEF At
<1> dsg \in Nat /\ activeHost \in Nat /\ inFlight \in Peer
    /\ status \in {"idle", "ready", "unavailable"}
  BY DEF SessionInv, GuiTypeOK
<1>1. CASE Stale(c)
  <2>1. Done(c, NoSession) /\ UNCHANGED gui
    BY <1>1 DEF LoadFailed
  <2> QED BY <2>1, AloneFacts, FreeTyped, DoneMoves DEF gui, SessionInv
<1>2. CASE ~Stale(c)
  <2> DEFINE q == [call[c] EXCEPT !.after = "fail"]
  <2>0. "fail" \in Afters /\ "none" \in Peer
    BY DEF Afters, Peer
  <2>1. q \in CallState
    BY <2>0, AloneFacts, Updated, Zenon
  <2>2. q.gen = call[c].gen /\ q.host = call[c].host /\ q.want = call[c].want /\ q.peer = "none"
    BY AloneFacts DEF CallState
  <2>3. Teardown(c, q, activeHost, dsg, "none")
    BY <1>2 DEF LoadFailed
  <2> HIDE DEF q
  <2> QED BY <2>0, <2>1, <2>2, <2>3, AloneFacts, TeardownMoves DEF SessionInv
<1> QED BY <1>1, <1>2

LEMMA MovesKeep ==
    ASSUME SessionInv, NEW c \in Call, Moves(c), Waits(c), UNCHANGED <<host, project, operation>>,
           lane' \in Seq(Transition), asked' \in Nat, runs' \in Nat,
           faults' \in Nat, faults' = 0 => faults = 0
    PROVE  SessionInv'
<1>1. AnswersWait'
  BY MovesAnswers DEF SessionInv
<1>2. NumbersGrow' /\ OneInitializer' /\ HostRemembered'
  BY MovesNumbers
<1>3. GuiTypeOK'
  <2> PICK r \in CallState : MovesTo(c, r)
    BY DEF Moves
  <2>0. call \in [Call -> CallState] /\ answers \in Seq(Call)
    BY DEF SessionInv, GuiTypeOK
  <2>1. call' \in [Call -> CallState]
    BY <2>0 DEF MovesTo
  <2>3. answers' \in Seq(Call)
    BY <2>0 DEF Waits
  <2>2. session' \in [base : Project \cup {NoProject}, gen : Nat] /\ activeHost' \in Nat
    BY AloneFacts, FreeTyped DEF MovesTo, SessionInv, GuiTypeOK
  <2> QED BY <2>1, <2>2, <2>3 DEF MovesTo, SessionInv, GuiTypeOK, host
<1> QED BY <1>1, <1>2, <1>3 DEF SessionInv

-----------------------------------------------------------------------------
LEMMA ClearedKeeps == ASSUME SessionInv, NEW c \in Call, Cleared(c) PROVE SessionInv'
<1> USE DEF SessionInv
<1>1. Waits(c) /\ ~At(c, "opened") /\ ~At(c, "shared")
  BY DEF Cleared, TakesAnswer, Waits, Answered, At
<1>2. inFlight' \in Peer /\ status' \in {"idle", "ready", "unavailable"}
      /\ session' \in {session, NoSession} /\ dsg' = dsg
      /\ \/ UNCHANGED activeHost
         \/ At(c, "cleared") /\ activeHost = call[c].clears /\ activeHost' = 0
  BY DEF Cleared, GuiTypeOK
<1>3. Moves(c)
  <2>1. CASE call[c].after = "stale"
    <3>1. Done(c, NoSession)
      BY <2>1 DEF Cleared
    <3> QED BY <1>1, <1>2, <3>1, AloneFacts, FreeTyped, DoneMoves
  <2>2. CASE call[c].after # "stale"
    <3> DEFINE q == [call[c] EXCEPT !.at = "torn"]
    <3> call \in [Call -> CallState]
      BY DEF GuiTypeOK
    <3>1. call' = [call EXCEPT ![c] = q] /\ UNCHANGED requests
      BY <2>2 DEF Cleared
    <3>2. q \in CallState
      BY AloneFacts, Placed, Updated, Zenon
    <3>3. q.at = "torn" /\ q.gen = call[c].gen /\ q.host = call[c].host /\ q.want = call[c].want
          /\ q.peer = "none"
      BY <1>1, AloneFacts DEF CallState
    <3> HIDE DEF q
    <3>4. MovesTo(c, q)
      BY <1>1, <1>2, <3>1, <3>2, <3>3, AloneFacts DEF MovesTo, Answered, SettingUp, GuiTypeOK
    <3> QED BY <3>2, <3>4 DEF Moves
  <2> QED BY <2>1, <2>2
<1>4. UNCHANGED <<project, operation, lane, host, asked, runs, faults>>
  BY DEF Cleared, store, counts
<1> QED BY <1>1, <1>3, <1>4, MovesKeep DEF GuiTypeOK

LEMMA TornKeeps == ASSUME SessionInv, NEW c \in Call, Torn(c) PROVE SessionInv'
<1> USE DEF SessionInv
<1>1. Waits(c) /\ call[c].at = "torn"
  BY DEF Torn, Waits, Answered, At
<1>2. UNCHANGED <<project, operation, lane, host, asked, runs, faults, answers>>
  BY DEF Torn, store, counts
<1>a. ~At(c, "opened") /\ ~At(c, "shared") /\ ~At(c, "cleared")
  BY <1>1 DEF At
<1>b. inFlight \in Peer /\ status \in {"idle", "ready", "unavailable"} /\ dsg \in Nat
      /\ requests \in Seq(Call) /\ call \in [Call -> CallState]
  BY DEF GuiTypeOK
<1>3. Moves(c)
  <2>1. CASE Done(c, NoSession) /\ UNCHANGED gui
    BY <2>1, <1>a, <1>b, AloneFacts, FreeTyped, DoneMoves DEF gui
  <2>2. CASE /\ dsg' = dsg + 1
             /\ call' = [call EXCEPT ![c].at = "opening", ![c].gen = dsg + 1]
             /\ requests' = Append(requests, c)
             /\ UNCHANGED <<activeHost, inFlight, session, status>>
    <3> DEFINE q == [call[c] EXCEPT !.at = "opening", !.gen = dsg + 1]
    <3>1. call' = [call EXCEPT ![c] = q]
      BY <1>b, <2>2
    <3>0. dsg + 1 \in Nat
      BY <1>b
    <3>2. q \in CallState
      BY <3>0, AloneFacts, Placed, Updated, Zenon
    <3>3. q.at = "opening" /\ q.gen = dsg + 1 /\ q.host = call[c].host /\ q.want = call[c].want
          /\ q.peer = "none"
      BY <1>a, AloneFacts DEF CallState
    <3> HIDE DEF q
    <3>5. requests' \in Seq(Call) /\ dsg' \in Nat /\ dsg' > dsg /\ dsg' >= dsg /\ q.gen <= dsg'
      BY <1>b, <2>2, <3>3
    <3>6. UNCHANGED <<activeHost, inFlight, session, status>>
      BY <2>2
    <3>4. MovesTo(c, q)
      BY <1>a, <1>b, <3>1, <3>3, <3>5, <3>6 DEF MovesTo, Answered, SettingUp
    <3> QED BY <3>2, <3>4 DEF Moves
  <2>3. CASE /\ session' = NoSession /\ status' = "unavailable"
             /\ Done(c, NoSession)
             /\ UNCHANGED <<dsg, activeHost, inFlight>>
    BY <2>3, <1>a, <1>b, AloneFacts, FreeTyped, DoneMoves
  <2>4. CASE Ensure(c, call[c].want, call[c].signal)
    BY <2>4, <1>1, AloneFacts, EnsureMoves
  <2> QED BY <2>1, <2>2, <2>3, <2>4 DEF Torn
<1> QED BY <1>1, <1>2, <1>3, MovesKeep DEF GuiTypeOK

LEMMA OpenedKeeps == ASSUME SessionInv, NEW c \in Call, Opened(c) PROVE SessionInv'
<1> USE DEF SessionInv
<1>1. Waits(c) /\ At(c, "opened") /\ ~At(c, "shared")
  BY DEF Opened, TakesAnswer, Waits, Answered, At
<1>2. UNCHANGED <<project, operation, lane, host, asked, runs, faults>>
  BY DEF Opened, store, counts
<1>b. inFlight \in Peer /\ status \in {"idle", "ready", "unavailable"} /\ dsg \in Nat
      /\ requests \in Seq(Call) /\ call \in [Call -> CallState]
  BY DEF GuiTypeOK
<1>3. Moves(c)
  <2>1. CASE Stale(c)
    <3>1. ClearStale(c) /\ UNCHANGED gui
      BY <2>1 DEF Opened
    <3> QED BY <3>1, <1>1, AloneFacts, ClearStaleMoves DEF gui
  <2>2. CASE ~Stale(c) /\ Aborted(c)
    <3> DEFINE q == [call[c] EXCEPT !.after = "end"]
    <3>0. "end" \in Afters /\ "none" \in Peer
      BY DEF Afters, Peer
    <3>1. q \in CallState
      BY <3>0, AloneFacts, Updated, Zenon
    <3>2. q.gen = call[c].gen /\ q.host = call[c].host /\ q.want = call[c].want /\ q.peer = "none"
      BY <1>1, AloneFacts DEF CallState
    <3>3. Teardown(c, q, call[c].host, dsg, "none")
      BY <2>2 DEF Opened
    <3> HIDE DEF q
    <3>4. call[c].host \in Nat /\ q.gen <= dsg /\ dsg >= dsg
      BY <1>b, <3>2, AloneFacts
    <3> QED BY <1>1, <1>b, <3>0, <3>1, <3>2, <3>3, <3>4, TeardownMoves
  <2>3. CASE ~Stale(c) /\ ~Aborted(c)
    <3> DEFINE q == [call[c] EXCEPT !.at = "deps"]
    <3>1. /\ call' = [call EXCEPT ![c] = q] /\ activeHost' = call[c].host
          /\ UNCHANGED <<dsg, inFlight, session, status, requests>>
      BY <2>3 DEF Opened
    <3>2. q \in CallState
      BY AloneFacts, Placed, Updated, Zenon
    <3>3. q.at = "deps" /\ q.gen = call[c].gen /\ q.host = call[c].host /\ q.want = call[c].want
          /\ q.peer = "none"
      BY <1>1, AloneFacts DEF CallState
    <3> HIDE DEF q
    <3>4. MovesTo(c, q)
      BY <1>1, <1>b, <3>1, <3>2, <3>3, AloneFacts DEF MovesTo, Answered, SettingUp, At
    <3> QED BY <3>2, <3>4 DEF Moves
  <2> QED BY <2>1, <2>2, <2>3
<1> QED BY <1>1, <1>2, <1>3, MovesKeep DEF GuiTypeOK

LEMMA RefusedKeeps == ASSUME SessionInv, NEW c \in Call, Refused(c) PROVE SessionInv'
<1> USE DEF SessionInv
<1>1. Waits(c) /\ ~At(c, "opened") /\ ~At(c, "shared")
  BY DEF Refused, TakesAnswer, Waits, Answered, At
<1>2. UNCHANGED <<project, operation, lane, host, asked, runs, faults>>
  BY DEF Refused, store, counts
<1>3. inFlight' \in Peer /\ status' \in {"idle", "ready", "unavailable"} /\ session' = session
      /\ Done(c, NoSession) /\ UNCHANGED <<dsg, activeHost>>
  BY DEF Refused, GuiTypeOK
<1>4. Moves(c)
  BY <1>1, <1>3, AloneFacts, FreeTyped, DoneMoves
<1> QED BY <1>1, <1>2, <1>4, MovesKeep DEF GuiTypeOK

LEMMA InitDevSessionKeeps == ASSUME SessionInv, NEW c \in Call, InitDevSession(c) PROVE SessionInv'
<1> USE DEF SessionInv
<1>1. Waits(c) /\ At(c, "deps") /\ ~At(c, "opened") /\ ~At(c, "shared") /\ ~At(c, "cleared")
  BY DEF InitDevSession, Waits, Answered, At
<1>2. UNCHANGED <<project, operation, lane, host, asked, runs, faults>>
  BY DEF InitDevSession, store, counts
<1>b. inFlight \in Peer /\ status \in {"idle", "ready", "unavailable"} /\ dsg \in Nat
      /\ requests \in Seq(Call) /\ call \in [Call -> CallState]
  BY DEF GuiTypeOK
<1>3. Moves(c)
  <2>1. CASE LoadFailed(c)
    BY <2>1, <1>1, LoadFailedMoves DEF At
  <2>2. CASE session' = NoSession /\ ClearStale(c) /\ UNCHANGED <<dsg, activeHost, inFlight, status>>
    BY <2>2, <1>1, AloneFacts, ClearStaleMoves
  <2>3. CASE ~Stale(c) /\ session' = Own(c) /\ call' = [call EXCEPT ![c].at = "load"]
             /\ UNCHANGED <<dsg, activeHost, inFlight, status, requests>>
    <3> DEFINE q == [call[c] EXCEPT !.at = "load"]
    <3>1. call' = [call EXCEPT ![c] = q]
      BY <2>3
    <3>2. q \in CallState
      BY AloneFacts, Placed, Updated, Zenon
    <3>3. q.at = "load" /\ q.gen = call[c].gen /\ q.host = call[c].host /\ q.want = call[c].want
          /\ q.peer = "none" /\ q.gen <= dsg
      BY <1>1, AloneFacts DEF CallState
    <3> HIDE DEF q
    <3>6. session' = Own(c) /\ UNCHANGED <<dsg, activeHost, inFlight, status, requests>>
      BY <2>3
    <3>4. MovesTo(c, q)
      BY <1>1, <1>b, <3>1, <3>3, <3>6 DEF MovesTo, Answered, SettingUp, At
    <3> QED BY <3>2, <3>4 DEF Moves
  <2> QED BY <2>1, <2>2, <2>3 DEF InitDevSession
<1> QED BY <1>1, <1>2, <1>3, MovesKeep DEF GuiTypeOK

LEMMA LoadedKeeps == ASSUME SessionInv, NEW c \in Call, Loaded(c) PROVE SessionInv'
<1> USE DEF SessionInv
<1>1. Waits(c) /\ At(c, "load") /\ ~At(c, "opened") /\ ~At(c, "shared") /\ ~At(c, "cleared")
  BY DEF Loaded, Waits, Answered, At
<1>2. UNCHANGED <<project, operation, lane, host, asked, runs, faults>>
  BY DEF Loaded, store, counts
<1>b. inFlight \in Peer /\ status \in {"idle", "ready", "unavailable"} /\ dsg \in Nat
      /\ activeHost \in Nat
  BY DEF GuiTypeOK
<1>3. Moves(c)
  <2>1. CASE Stale(c)
    <3>1. /\ session' \in {session, NoSession} /\ ClearStale(c)
          /\ UNCHANGED <<dsg, activeHost, inFlight, status>>
      BY <2>1 DEF Loaded
    <3> QED BY <3>1, <1>1, AloneFacts, ClearStaleMoves
  <2>2. CASE ~Stale(c) /\ Aborted(c)
    <3> DEFINE q == [call[c] EXCEPT !.after = "end"]
    <3>0. "end" \in Afters /\ "none" \in Peer
      BY DEF Afters, Peer
    <3>1. q \in CallState
      BY <3>0, AloneFacts, Updated, Zenon
    <3>2. q.gen = call[c].gen /\ q.host = call[c].host /\ q.want = call[c].want /\ q.peer = "none"
      BY <1>1, AloneFacts DEF CallState
    <3>3. Teardown(c, q, activeHost, dsg, "none")
      BY <2>2 DEF Loaded
    <3> HIDE DEF q
    <3>4. q.gen <= dsg /\ dsg >= dsg
      BY <1>b, <3>2, AloneFacts
    <3> QED BY <1>1, <1>b, <3>0, <3>1, <3>2, <3>3, <3>4, TeardownMoves
  <2>3. CASE ~Stale(c) /\ ~Aborted(c)
    <3>1. /\ status' = "ready" /\ Done(c, Own(c))
          /\ UNCHANGED <<dsg, activeHost, inFlight, session>>
      BY <2>3 DEF Loaded
    <3> QED BY <3>1, <1>1, <1>b, AloneFacts, DoneMoves
  <2> QED BY <2>1, <2>2, <2>3
<1> QED BY <1>1, <1>2, <1>3, MovesKeep DEF GuiTypeOK

LEMMA LoadRefusedKeeps == ASSUME SessionInv, NEW c \in Call, LoadRefused(c) PROVE SessionInv'
<1> USE DEF SessionInv
<1>1. Waits(c) /\ call[c].at = "load" /\ LoadFailed(c)
  BY DEF LoadRefused, Waits, Answered, At
<1>2. UNCHANGED <<project, operation, lane, host, asked, runs>>
  BY DEF LoadRefused, store
<1>3. faults' \in Nat /\ (faults' = 0 => faults = 0)
  BY DEF LoadRefused, CountFault, GuiTypeOK
<1>4. Moves(c)
  BY <1>1, LoadFailedMoves
<1> QED BY <1>1, <1>2, <1>3, <1>4, MovesKeep DEF GuiTypeOK

LEMMA AskKeeps == ASSUME SessionInv, NEW c \in Caller, Ask(c) \/ AskForRun(c) PROVE SessionInv'
<1> USE DEF SessionInv
<1>1. c \in Call /\ Waits(c) /\ call[c].at = "free"
  BY DEF Ask, AskForRun, Waits, Answered, At, Call
<1>2. UNCHANGED <<project, operation, lane, host, faults>> /\ asked' \in Nat /\ runs' \in Nat
  BY DEF Ask, AskForRun, store, GuiTypeOK
<1>3. project \in Project \cup {NoProject} /\ operation \in Nat /\ 0 \in Nat
  BY DEF GuiTypeOK
<1>4. Moves(c)
  BY <1>1, <1>3, EnsureMoves DEF Ask, AskForRun
<1> QED BY <1>1, <1>2, <1>4, MovesKeep DEF GuiTypeOK

LEMMA TransitKeeps == ASSUME SessionInv, Transit PROVE SessionInv'
<1> USE DEF SessionInv
<1> DEFINE t == Head(lane)
<1>1. "life" \in Call /\ Waits("life") /\ call["life"].at = "free"
  BY DEF Transit, Waits, Answered, At, Call
<1>2. UNCHANGED <<project, operation, host, asked, runs, faults, answers>>
  BY DEF Transit, counts
<1>3. lane' \in Seq(Transition) /\ t \in Transition
  BY DEF Transit, GuiTypeOK
<1>4. t.prev \in Project \cup {NoProject} /\ t.next \in Project \cup {NoProject} /\ t.op \in Nat
  BY <1>3 DEF Transition
<1> HIDE DEF t
<1>5. CASE t.op # operation
  <2>1. UNCHANGED <<gui, requests, call>>
    BY <1>5 DEF Transit, t
  <2> QED BY <1>2, <1>3, <2>1 DEF gui, host, GuiTypeOK, AnswersWait, NumbersGrow, KnowsPast, OneInitializer,
             HostRemembered, Answers, At
<1>6. CASE t.op = operation /\ t.prev # NoProject
  <2> DEFINE q == [Free EXCEPT !.want = t.next, !.signal = t.op, !.after = "enter"]
  <2>0. "enter" \in Afters /\ "none" \in Peer
    BY DEF Afters, Peer
  <2>1. q \in CallState
    BY <1>4, <2>0, FreeTyped, Updated, Zenon
  <2>2. q.gen = 0 /\ q.host = 0 /\ q.peer = "none"
    BY DEF Free
  <2>3. Teardown("life", q, activeHost, dsg, "none")
    BY <1>6 DEF Transit, t
  <2> HIDE DEF q
  <2>4. dsg \in Nat /\ activeHost \in Nat /\ q.gen <= dsg /\ dsg >= dsg /\ ~At("life", "opened")
    BY <1>1, <2>2 DEF GuiTypeOK, At
  <2>5. Moves("life")
    BY <1>1, <2>0, <2>1, <2>2, <2>3, <2>4, TeardownMoves
  <2> QED BY <1>1, <1>2, <1>3, <2>5, MovesKeep DEF GuiTypeOK
<1>7. CASE t.op = operation /\ t.prev = NoProject
  <2>1. Ensure("life", t.next, t.op)
    BY <1>7 DEF Transit, t
  <2>2. Moves("life")
    BY <1>1, <1>4, <2>1, EnsureMoves
  <2> QED BY <1>1, <1>2, <1>3, <2>2, MovesKeep DEF GuiTypeOK
<1> QED BY <1>5, <1>6, <1>7

LEMMA SwitchKeeps ==
    ASSUME SessionInv, NEW p \in Project \cup {NoProject}, Switch(p)
    PROVE  SessionInv'
<1> USE DEF SessionInv
<1>1. project \in Project \cup {NoProject} /\ operation \in Nat /\ lane \in Seq(Transition)
  BY DEF GuiTypeOK
<1>2. [prev |-> project, next |-> p, op |-> operation + 1] \in Transition
  BY <1>1 DEF Transition
<1>3. lane' \in Seq(Transition) /\ project' \in Project \cup {NoProject} /\ operation' \in Nat
      /\ UNCHANGED <<gui, host, requests, answers, call, counts>>
  BY <1>1, <1>2 DEF Switch
<1> QED BY <1>3 DEF gui, host, counts, GuiTypeOK, AnswersWait, NumbersGrow, KnowsPast, OneInitializer,
             HostRemembered, Answers, At

\* The host takes the first request up.
LEMMA HostAnswers ==
    ASSUME SessionInv, NEW c \in Call, call[c].at \in {"opening", "clearing"},
           NEW r \in CallState, call' = [call EXCEPT ![c] = r], r.at \in Answered,
           answers' = Append(answers, c),
           At(c, "opening") /\ r.at = "opened" => r.host = hostGen + 1,
           r.at = "opened" => At(c, "opening")
    PROVE  AnswersWait'
<1> USE DEF SessionInv
<1>1. call \in [Call -> CallState] /\ answers \in Seq(Call) /\ hostGen \in Nat
  BY DEF GuiTypeOK
<1>2. /\ Len(answers') = Len(answers) + 1 /\ Len(answers) \in Nat
      /\ answers'[Len(answers')] = c
      /\ \A i \in Answers : answers'[i] = answers[i] /\ answers[i] \in Call
  BY <1>1 DEF Answers
<1>3. \A i \in Answers : answers[i] # c /\ call'[answers[i]] = call[answers[i]]
  BY <1>1, <1>2 DEF AnswersWait, Answered
<1>4. call'[c] = r
  BY <1>1
<1>5. \A i \in 1 .. Len(answers') : i \in Answers \/ i = Len(answers')
  BY <1>2 DEF Answers
<1>6. \A i \in 1 .. Len(answers') : call'[answers'[i]].at \in Answered
  BY <1>2, <1>3, <1>4, <1>5 DEF AnswersWait
<1>7. ASSUME NEW d \in Call, call'[d].at = "opened"
      PROVE  \E i \in 1 .. Len(answers') : answers'[i] = d
  <2>1. CASE d = c
    BY <1>2, <2>1
  <2>2. CASE d # c
    <3>1. At(d, "opened")
      BY <1>1, <1>7, <2>2 DEF At
    <3>2. PICK i \in Answers : answers[i] = d
      BY <3>1 DEF AnswersWait
    <3> QED BY <1>2, <3>2 DEF Answers
  <2> QED BY <2>1, <2>2
<1>8. ASSUME NEW i \in 1 .. Len(answers'), NEW j \in 1 .. Len(answers'), i < j
      PROVE  /\ answers'[i] # answers'[j]
             /\ call'[answers'[i]].at = "opened" /\ call'[answers'[j]].at = "opened" =>
                  call'[answers'[i]].host < call'[answers'[j]].host
  <2>1. i \in Answers
    BY <1>2, <1>8 DEF Answers
  <2>2. CASE j \in Answers
    <3>1. /\ answers[i] # answers[j]
          /\ call[answers[i]].at = "opened" /\ call[answers[j]].at = "opened" =>
               call[answers[i]].host < call[answers[j]].host
      BY <1>8, <2>1, <2>2 DEF AnswersWait, At
    <3> QED BY <1>2, <1>3, <2>1, <2>2, <3>1
  <2>3. CASE j = Len(answers')
    <3>1. answers'[j] = c /\ answers'[i] = answers[i] /\ answers[i] # c /\ answers[i] \in Call
          /\ call'[answers[i]] = call[answers[i]]
      BY <1>2, <1>3, <2>1, <2>3
    <3>2. call[answers[i]].host \in Nat /\ call[answers[i]].host <= hostGen
      BY <3>1, AloneFacts DEF NumbersGrow, KnowsPast
    <3>3. r.at = "opened" => r.host = hostGen + 1
      BY DEF At
    <3> QED BY <1>1, <1>4, <3>1, <3>2, <3>3
  <2> QED BY <1>5, <2>2, <2>3
<1> QED BY <1>6, <1>7, <1>8 DEF AnswersWait, Answers, At

LEMMA HostInitKeeps ==
    ASSUME SessionInv, NEW ok \in BOOLEAN, HostInit(ok)
    PROVE  SessionInv'
<1> USE DEF SessionInv
<1> DEFINE c == Head(requests)
<1>1. /\ call \in [Call -> CallState] /\ hostGen \in Nat /\ activeHost \in Nat /\ dsg \in Nat
      /\ requests \in Seq(Call) /\ answers \in Seq(Call) /\ faults \in Nat
      /\ session \in [base : Project \cup {NoProject}, gen : Nat]
  BY DEF GuiTypeOK
<1>2. c \in Call /\ requests' \in Seq(Call) /\ call[c].at = "opening" /\ ~At(c, "shared")
      /\ answers' = Append(answers, c) /\ answers' \in Seq(Call)
  BY <1>1 DEF HostInit, At
<1>3. UNCHANGED <<project, operation, lane, dsg, activeHost, inFlight, session, status, asked, runs>>
  BY DEF HostInit, store, gui
<1>4. CASE ok
  <2> DEFINE q == [call[c] EXCEPT !.at = "opened", !.host = hostGen + 1]
  <2>1. /\ call' = [call EXCEPT ![c] = q]
        /\ hostGen' = hostGen + 1 /\ hostBase' = call[c].want /\ faults' = faults
    BY <1>1, <1>2, <1>4 DEF HostInit
  <2>0. hostGen + 1 \in Nat
    BY <1>1
  <2>2. q \in CallState
    BY <1>2, <2>0, AloneFacts, Placed, Updated, Zenon
  <2>3. q.at = "opened" /\ q.gen = call[c].gen /\ q.host = hostGen + 1 /\ q.want = call[c].want
        /\ q.peer = "none"
    BY <1>2, AloneFacts DEF CallState
  <2> HIDE DEF q, c
  <2>4. GuiTypeOK'
    BY <1>1, <1>2, <1>3, <2>0, <2>1, <2>2, AloneFacts DEF GuiTypeOK
  <2>5. AnswersWait'
    BY <1>2, <2>1, <2>2, <2>3, HostAnswers DEF Answered, At
  <2>6. /\ call'[c] = q /\ \A d \in Call : d # c => call'[d] = call[d]
        /\ \A d \in Call : KnowsPast(d) /\ call[d].host \in Nat /\ call[d].clears \in Nat
    BY <1>1, <1>2, <2>1 DEF NumbersGrow, CallState
  <2>7. ASSUME NEW d \in Call PROVE KnowsPast(d)'
    <3>1. CASE d = c
      BY <1>1, <1>2, <1>3, <2>1, <2>3, <2>6, <3>1, AloneFacts DEF KnowsPast, At, NumbersGrow
    <3>2. CASE d # c
      BY <1>1, <1>3, <2>1, <2>6, <3>2 DEF KnowsPast, At
    <3> QED BY <3>1, <3>2
  <2>8. NumbersGrow'
    BY <1>1, <1>3, <2>1, <2>7 DEF NumbersGrow
  <2>9. OneInitializer'
    BY <1>2, <1>3, <2>3, <2>6 DEF OneInitializer
  <2>10. HostRemembered'
    BY <1>1, <1>2, <1>3, <2>1, <2>3, <2>6 DEF HostRemembered, NumbersGrow, At
  <2> QED BY <2>4, <2>5, <2>8, <2>9, <2>10
<1>5. CASE ~ok
  <2> DEFINE q == [call[c] EXCEPT !.at = "refused"]
  <2>1. call' = [call EXCEPT ![c] = q] /\ UNCHANGED host /\ faults' = faults + 1
    BY <1>5 DEF HostInit, CountFault
  <2>2. q \in CallState
    BY <1>2, AloneFacts, Placed, Updated, Zenon
  <2>3. q.at = "refused" /\ q.gen = call[c].gen /\ q.host = call[c].host /\ q.want = call[c].want
        /\ q.peer = "none"
    BY <1>2, AloneFacts DEF CallState
  <2> HIDE DEF q, c
  <2>4. GuiTypeOK'
    BY <1>1, <1>2, <1>3, <2>1, <2>2 DEF GuiTypeOK, host
  <2>5. AnswersWait'
    BY <1>2, <2>1, <2>2, <2>3, HostAnswers DEF Answered, At
  <2>6. /\ call'[c] = q /\ \A d \in Call : d # c => call'[d] = call[d]
        /\ \A d \in Call : KnowsPast(d) /\ call[d].host \in Nat
    BY <1>1, <1>2, <2>1 DEF NumbersGrow, CallState
  <2>7. ASSUME NEW d \in Call PROVE KnowsPast(d)'
    <3>1. CASE d = c
      BY <1>1, <1>2, <1>3, <2>1, <2>3, <2>6, <3>1 DEF KnowsPast, At, host
    <3>2. CASE d # c
      BY <1>1, <1>3, <2>1, <2>6, <3>2 DEF KnowsPast, At, host
    <3> QED BY <3>1, <3>2
  <2>8. NumbersGrow'
    BY <1>1, <1>3, <2>1, <2>7 DEF NumbersGrow, host
  <2>9. OneInitializer'
    BY <1>2, <1>3, <2>3, <2>6 DEF OneInitializer
  <2>10. HostRemembered'
    BY <1>1, <1>3, <2>1, <2>6 DEF HostRemembered, host
  <2> QED BY <2>4, <2>5, <2>8, <2>9, <2>10
<1> QED BY <1>4, <1>5

LEMMA HostClearKeeps ==
    ASSUME SessionInv, NEW ok \in BOOLEAN, HostClear(ok)
    PROVE  SessionInv'
<1> USE DEF SessionInv
<1> DEFINE c == Head(requests)
           place == IF call[c].clears # hostGen \/ hostBase = NoProject THEN "kept"
                    ELSE IF ok THEN "cleared" ELSE "kept"
           q == [call[c] EXCEPT !.at = place]
<1>1. /\ call \in [Call -> CallState] /\ hostGen \in Nat /\ activeHost \in Nat /\ dsg \in Nat
      /\ requests \in Seq(Call) /\ answers \in Seq(Call) /\ faults \in Nat
      /\ session \in [base : Project \cup {NoProject}, gen : Nat]
  BY DEF GuiTypeOK
<1>2. c \in Call /\ requests' \in Seq(Call) /\ call[c].at = "clearing" /\ ~At(c, "shared")
      /\ answers' = Append(answers, c) /\ answers' \in Seq(Call)
  BY <1>1 DEF HostClear, At
<1>3. UNCHANGED <<project, operation, lane, dsg, activeHost, inFlight, session, status, asked, runs>>
  BY DEF HostClear, store, gui
<1>4. call' = [call EXCEPT ![c] = q]
  BY DEF HostClear
<1>5. \/ /\ place = "kept" /\ UNCHANGED host /\ faults' = faults
         /\ call[c].clears # hostGen \/ hostBase = NoProject
      \/ /\ place = "cleared" /\ hostGen' = hostGen + 1 /\ hostBase' = NoProject /\ faults' = faults
         /\ call[c].clears = hostGen
      \/ place = "kept" /\ UNCHANGED host /\ faults' = faults + 1
  BY DEF HostClear, CountFault
<1>6. place \in {"kept", "cleared"}
  OBVIOUS
<1> HIDE DEF place
<1>7. q \in CallState
  <2>1. place \in Places
    BY <1>6, Placed
  <2> QED BY <1>2, <2>1, AloneFacts, Updated, Zenon
<1>8. q.at = place /\ q.gen = call[c].gen /\ q.host = call[c].host /\ q.want = call[c].want
      /\ q.peer = "none" /\ q.clears = call[c].clears
  BY <1>2, AloneFacts DEF CallState
<1> HIDE DEF q, c
<1>9. hostGen' \in Nat /\ hostGen' >= hostGen /\ hostBase' \in {hostBase, NoProject} /\ faults' \in Nat
      /\ (faults' = 0 => faults = 0) /\ (hostBase' # NoProject => hostGen' = hostGen)
  BY <1>1, <1>5 DEF host
<1>10. GuiTypeOK'
  BY <1>1, <1>2, <1>3, <1>4, <1>7, <1>9 DEF GuiTypeOK
<1>11. AnswersWait'
  BY <1>2, <1>4, <1>6, <1>7, <1>8, HostAnswers DEF Answered, At
<1>12. /\ call'[c] = q /\ \A d \in Call : d # c => call'[d] = call[d]
       /\ \A d \in Call : KnowsPast(d) /\ call[d].host \in Nat /\ call[d].clears \in Nat
  BY <1>1, <1>2, <1>4 DEF NumbersGrow, CallState
<1>13. ASSUME NEW d \in Call PROVE KnowsPast(d)'
  <2>1. CASE d = c
    <3>1. /\ call'[d] = q /\ activeHost' = activeHost /\ dsg' = dsg
          /\ ~At(d, "opened")' /\ q.peer = "none"
      BY <1>3, <1>6, <1>8, <1>12, <2>1 DEF At
    <3>2. call[d].gen <= dsg /\ call[d].host <= hostGen
          /\ (hostBase # NoProject /\ call[d].host = hostGen => call[d].want = hostBase)
      BY <1>12 DEF KnowsPast
    <3>3. At(d, "cleared")' => q.clears < hostGen'
      BY <1>1, <1>5, <1>8, <2>1, <3>1 DEF At
    <3>4. hostBase' # NoProject => hostGen' = hostGen /\ hostBase' = hostBase
      BY <1>5 DEF host
    <3>5. q.gen <= dsg' /\ q.host <= hostGen'
      BY <1>1, <1>8, <1>9, <1>12, <2>1, <3>1, <3>2
    <3>6. hostBase' # NoProject /\ q.host = hostGen' => q.want = hostBase'
      BY <1>8, <2>1, <3>2, <3>4
    <3> QED BY <3>1, <3>3, <3>5, <3>6 DEF KnowsPast
  <2>2. CASE d # c
    BY <1>1, <1>3, <1>9, <1>12, <2>2 DEF KnowsPast, At
  <2> QED BY <2>1, <2>2
<1>14. NumbersGrow'
  BY <1>1, <1>3, <1>9, <1>13 DEF NumbersGrow
<1>15. OneInitializer'
  BY <1>2, <1>3, <1>6, <1>8, <1>12 DEF OneInitializer
<1>16. HostRemembered'
  <2> SUFFICES ASSUME hostBase' # NoProject PROVE HostRemembered'
    BY DEF HostRemembered
  <2>1. UNCHANGED host /\ place = "kept"
        /\ (faults' = 0 => call[c].clears # hostGen \/ hostBase = NoProject)
    BY <1>1, <1>5
  <2>2. hostBase' = hostBase /\ hostGen' = hostGen
    BY <2>1 DEF host
  <2>3. session'.gen = hostGen => session'.base = hostBase
    BY <1>3, <2>2 DEF HostRemembered
  <2>4. ASSUME faults' = 0
        PROVE  \/ activeHost' = hostGen
               \/ \E d \in Call : At(d, "opened")' /\ call'[d].host = hostGen
               \/ \E d \in Call : At(d, "clearing")' /\ call'[d].clears = hostGen
    <3>1. call[c].clears # hostGen /\ faults = 0
      BY <1>9, <2>1, <2>2, <2>4
    <3>2. \/ activeHost = hostGen
          \/ \E d \in Call : At(d, "opened") /\ call[d].host = hostGen
          \/ \E d \in Call : At(d, "clearing") /\ call[d].clears = hostGen
      BY <2>2, <3>1 DEF HostRemembered
    <3> QED BY <1>2, <1>3, <1>12, <3>1, <3>2 DEF At
  <2> QED BY <2>2, <2>3, <2>4 DEF HostRemembered
<1> QED BY <1>10, <1>11, <1>14, <1>15, <1>16

LEMMA SettleKeeps == ASSUME SessionInv, NEW c \in Call, Settle(c) PROVE SessionInv'
<1> USE DEF SessionInv
<1>1. /\ call \in [Call -> CallState] /\ hostGen \in Nat /\ activeHost \in Nat /\ dsg \in Nat
      /\ answers \in Seq(Call) /\ session \in [base : Project \cup {NoProject}, gen : Nat]
  BY DEF GuiTypeOK
<1>2. UNCHANGED <<project, operation, lane, dsg, activeHost, session, status, hostGen, hostBase,
                  requests, answers, asked, runs, faults>>
      /\ inFlight' \in {inFlight, "none"}
  BY DEF Settle, store, host, counts
<1>3. \A d \in Call : /\ KnowsPast(d) /\ call[d].host \in Nat /\ call[d].gen \in Nat
                      /\ \/ call'[d] = call[d]
                         \/ call'[d] = Free /\ call[d].at \in {"done", "shared"}
  <2>1. c # "none"
    BY CallerAssumption DEF Call
  <2>2. \A d \in Call : KnowsPast(d) /\ call[d].host \in Nat /\ call[d].gen \in Nat
    BY <1>1 DEF NumbersGrow, CallState
  <2> QED BY <2>1, <2>2 DEF Settle, KnowsPast, At
<1>4. Free.at = "free" /\ Free.gen = 0 /\ Free.host = 0 /\ Free.peer = "none"
  BY DEF Free
<1>5. GuiTypeOK'
  <2>1. call' \in [Call -> CallState]
    BY <1>1, FreeTyped DEF Settle
  <2> QED BY <1>2, <2>1 DEF GuiTypeOK, Peer
<1>6. AnswersWait'
  <2>1. \A i \in Answers : answers[i] \in Call /\ call'[answers[i]] = call[answers[i]]
    <3> SUFFICES ASSUME NEW i \in Answers
                 PROVE  answers[i] \in Call /\ call'[answers[i]] = call[answers[i]]
      OBVIOUS
    <3>1. answers[i] \in Call
      BY <1>1 DEF Answers
    <3>2. call[answers[i]].at \notin {"done", "shared"}
      BY DEF AnswersWait, Answered
    <3> QED BY <1>3, <3>1, <3>2
  <2>2. \A d \in Call : call'[d].at = "opened" => call[d].at = "opened"
    BY <1>3, <1>4
  <2> QED BY <1>2, <2>1, <2>2 DEF AnswersWait, Answers, At
<1>7. NumbersGrow'
  BY <1>1, <1>2, <1>3, <1>4 DEF NumbersGrow, KnowsPast, At
<1>8. OneInitializer'
  BY <1>2, <1>3, <1>4 DEF OneInitializer
<1>9. HostRemembered'
  BY <1>2, <1>3 DEF HostRemembered, At
<1> QED BY <1>5, <1>6, <1>7, <1>8, <1>9

LEMMA SessionInvInit == GuiInit => SessionInv
<1> SUFFICES ASSUME GuiInit PROVE SessionInv
  OBVIOUS
<1> USE DEF GuiInit
<1>1. Free \in CallState /\ Free.at = "free" /\ Free.gen = 0 /\ Free.host = 0 /\ Free.peer = "none"
  BY FreeTyped DEF Free
<1>2. GuiTypeOK
  BY <1>1, FreeTyped DEF GuiTypeOK, Peer
<1>3. \A c \in Call : call[c] = Free
  OBVIOUS
<1>4. AnswersWait
  BY <1>1, <1>3 DEF AnswersWait, Answers, At
<1>5. NumbersGrow
  BY <1>1, <1>3 DEF NumbersGrow, KnowsPast, At, NoSession
<1>6. OneInitializer /\ HostRemembered
  BY <1>1, <1>3 DEF OneInitializer, HostRemembered
<1> QED BY <1>2, <1>4, <1>5, <1>6 DEF SessionInv

LEMMA SessionInvNext == SessionInv /\ [GuiNext]_guiVars => SessionInv'
<1> SUFFICES ASSUME SessionInv, [GuiNext]_guiVars PROVE SessionInv'
  OBVIOUS
<1>1. CASE UNCHANGED guiVars
  BY <1>1 DEF guiVars, gui, host, store, counts, SessionInv, GuiTypeOK, AnswersWait, NumbersGrow, KnowsPast,
              OneInitializer, HostRemembered, Answers, At
<1>2. ASSUME NEW c \in Call, Steps(c) PROVE SessionInv'
  BY <1>2, ClearedKeeps, TornKeeps, OpenedKeeps, RefusedKeeps, InitDevSessionKeeps, LoadedKeeps,
     SettleKeeps DEF Steps
<1> QED BY <1>1, <1>2, SwitchKeeps, TransitKeeps, AskKeeps, HostInitKeeps, HostClearKeeps,
           LoadRefusedKeeps DEF GuiNext

\* In every reachable state the variables of the session have their types.
THEOREM SessionTyped == GuiSpec => []GuiTypeOK
<1>1. GuiInit => SessionInv
  BY SessionInvInit
<1>2. SessionInv /\ [GuiNext]_guiVars => SessionInv'
  BY SessionInvNext
<1>3. SessionInv => GuiTypeOK
  BY DEF SessionInv
<1> QED BY <1>1, <1>2, <1>3, PTL DEF GuiSpec

\* Of the calls that set up a session (src/dev/gui.ts) at most one is up to date,
\* for any number of callers and whatever fails.
THEOREM OneCallInitializes == GuiSpec => []OneInitializer
<1>1. GuiInit => SessionInv
  BY SessionInvInit
<1>2. SessionInv /\ [GuiNext]_guiVars => SessionInv'
  BY SessionInvNext
<1>3. SessionInv => OneInitializer
  BY DEF SessionInv
<1> QED BY <1>1, <1>2, <1>3, PTL DEF GuiSpec

\* What the host holds the window remembers or is about to hear of, for any
\* number of projects, callers and transitions.
THEOREM HostStaysRemembered == GuiSpec => []HostRemembered
<1>1. GuiInit => SessionInv
  BY SessionInvInit
<1>2. SessionInv /\ [GuiNext]_guiVars => SessionInv'
  BY SessionInvNext
<1>3. SessionInv => HostRemembered
  BY DEF SessionInv
<1> QED BY <1>1, <1>2, <1>3, PTL DEF GuiSpec

-----------------------------------------------------------------------------
(***************************************************************************)
(* Orchestrations and Planning. A record is run by one executor, what it   *)
(* says is done has succeeded, and the session, its graphs and its         *)
(* decisions agree.                                                        *)
(***************************************************************************)

\* What holds of a record the older runner is on: no worker run has it, it was
\* removed or is running or was cancelled, and the stages before have succeeded.
RunnerFacts(o) ==
  runner[o] # 0 =>
    /\ worker[o] = "none"
    /\ orchs[o] = Removed \/ Is(o, {"running", "cancelled"})
    /\ \A q \in Stage : q < runner[o] => returned[o][q] = "success"

DoneFacts(o) ==
  Is(o, {"done"}) /\ worker[o] = "none" => \A s \in Stage : returned[o][s] = "success"

OrchInv == OrchTypeOK /\ \A o \in Orch : RunnerFacts(o) /\ DoneFacts(o)

LEMMA StageTyped == 1 \in Stage /\ Stages \in Stage /\ 0 \notin Stage /\ Stage \subseteq Nat
                    /\ \A s \in Stage : s < Stages => s + 1 \in Stage
BY OrchAssumption DEF Stage

LEMMA RecordTyped ==
  /\ \A r \in OrchRecord : r # NoRecord /\ r # Removed
  /\ NoRecord # Removed
BY DEF OrchRecord, OrchStatus, NoRecord, Removed

LEMMA LiveTyped ==
    ASSUME OrchTypeOK, NEW o \in Orch
    PROVE  Live(o) <=> orchs[o] \in OrchRecord
BY RecordTyped DEF OrchTypeOK, Live

\* Updates of a record keep its type.
LEMMA RecordUpdated ==
    ASSUME NEW r \in OrchRecord
    PROVE  /\ \A x \in OrchStatus : [r EXCEPT !.status = x] \in OrchRecord
           /\ \A s \in Stage, y \in LogStatus : [r EXCEPT !.log[s] = y] \in OrchRecord
           /\ \A x \in OrchStatus, s \in Stage, y \in LogStatus :
                /\ [r EXCEPT !.status = x, !.log[s] = y] \in OrchRecord
                /\ [r EXCEPT !.log[s] = y, !.status = x] \in OrchRecord
           /\ \A x \in OrchStatus, l \in [Stage -> LogStatus] :
                [r EXCEPT !.status = x, !.log = l] \in OrchRecord
           /\ \A s \in Stage, y \in LogStatus, b \in BOOLEAN :
                [r EXCEPT !.log[s] = y, !.ran = b] \in OrchRecord
           /\ \A x \in OrchStatus, l \in [Stage -> LogStatus], b \in BOOLEAN :
                [r EXCEPT !.status = x, !.log = l, !.ran = b] \in OrchRecord
           /\ \A s \in Stage, f \in OrchFlow \cup {NoFlowId} :
                [r EXCEPT !.existing[s] = f, !.bound[s] = NoFlowId] \in OrchRecord
           /\ \A b \in [Stage -> OrchFlow \cup {NoFlowId}] : [r EXCEPT !.bound = b] \in OrchRecord
BY DEF OrchRecord

\* A record nothing of which changes keeps its facts.
LEMMA Untouched ==
    ASSUME OrchInv, NEW o \in Orch, orchs'[o] = orchs[o], runner'[o] = runner[o],
           worker'[o] = worker[o], returned'[o] = returned[o]
    PROVE  RunnerFacts(o)' /\ DoneFacts(o)'
BY DEF OrchInv, RunnerFacts, DoneFacts, Is, Live

\* Neither does one whose status alone matters.
LEMMA SameStatus ==
    ASSUME OrchInv, NEW o \in Orch, Live(o), NEW r \in OrchRecord, orchs'[o] = r,
           r.status = orchs[o].status,
           runner'[o] = runner[o], worker'[o] = worker[o], returned'[o] = returned[o]
    PROVE  RunnerFacts(o)' /\ DoneFacts(o)'
BY RecordTyped DEF OrchInv, RunnerFacts, DoneFacts, Is, Live

LEMMA ProjectedTyped ==
    ASSUME NEW r \in OrchRecord, NEW run \in WorkerStatus
    PROVE  /\ projectRun(r, run) \in OrchRecord
           /\ run = "none" => projectRun(r, run).status = r.status /\ projectRun(r, run).log = r.log
           /\ projectRun(r, run).status = StatusOfRun(run, r.status)
<1> DEFINE x == StatusOfRun(run, r.status)
           l == [s \in Stage |-> LogOfRun(run, r.log[s])]
           b == r.ran \/ run # "none"
<1>0. r.status \in OrchStatus /\ r.log \in [Stage -> LogStatus] /\ r.ran \in BOOLEAN
  BY DEF OrchRecord
<1>1. projectRun(r, run) = [r EXCEPT !.status = x, !.log = l, !.ran = b]
  BY DEF projectRun
<1>2. x \in OrchStatus
  BY <1>0 DEF StatusOfRun, OrchStatus, WorkerStatus
<1>3. \A s \in Stage : LogOfRun(run, r.log[s]) \in LogStatus
  <2> TAKE s \in Stage
  <2>1. r.log[s] \in LogStatus
    BY <1>0
  <2> QED BY <2>1 DEF LogOfRun, LogStatus, WorkerStatus
<1>4. l \in [Stage -> LogStatus]
  BY <1>3
<1>5. b \in BOOLEAN
  OBVIOUS
<1>6. run = "none" => x = r.status
  BY DEF StatusOfRun
<1>7. run = "none" => l = r.log
  <2> SUFFICES ASSUME run = "none" PROVE l = r.log
    OBVIOUS
  <2>1. \A s \in Stage : LogOfRun(run, r.log[s]) = r.log[s]
    BY DEF LogOfRun
  <2> QED BY <1>0, <2>1
<1> HIDE DEF x, l, b
<1>8. [r EXCEPT !.status = x, !.log = l, !.ran = b] \in OrchRecord
  BY <1>2, <1>4, <1>5, RecordUpdated, Zenon
<1>9. /\ [r EXCEPT !.status = x, !.log = l, !.ran = b].status = x
      /\ [r EXCEPT !.status = x, !.log = l, !.ran = b].log = l
  BY DEF OrchRecord
<1> QED BY <1>1, <1>6, <1>7, <1>8, <1>9 DEF x

-----------------------------------------------------------------------------
(* The steps of the orchestrations.                                        *)

LEMMA GenerateKeeps ==
    ASSUME OrchInv, NEW o \in Orch, NEW b \in BOOLEAN, Generate(o, b)
    PROVE  OrchInv'
<1> DEFINE r == Draft(b, [s \in Stage |-> NoFlowId])
<1>1. r \in OrchRecord /\ r.status = "awaiting-confirm"
  BY DEF Draft, OrchRecord, OrchStatus, LogStatus
<1>2. orchs[o] = NoRecord /\ orchs' = [orchs EXCEPT ![o] = r]
      /\ UNCHANGED <<flowIs, runner, worker, returned, panelBusy, cancelling, orchFaults>>
  BY DEF Generate
<1> HIDE DEF r
<1>3. OrchTypeOK'
  BY <1>1, <1>2 DEF OrchInv, OrchTypeOK
<1>4. ASSUME NEW p \in Orch PROVE RunnerFacts(p)' /\ DoneFacts(p)'
  <2>1. CASE p = o
    <3>1. orchs'[p] = r
      BY <1>2, <2>1 DEF OrchInv, OrchTypeOK
    <3>2. runner[p] = 0
      BY <1>2, <2>1, RecordTyped DEF OrchInv, RunnerFacts, Is, Live
    <3> QED BY <1>1, <1>2, <3>1, <3>2 DEF RunnerFacts, DoneFacts, Is
  <2>2. CASE p # o
    BY <1>2, <2>2, Untouched DEF OrchInv, OrchTypeOK
  <2> QED BY <2>1, <2>2
<1> QED BY <1>3, <1>4 DEF OrchInv

\* A step that changes one record, but not its status.
LEMMA SameKeeps ==
    ASSUME OrchInv, NEW o \in Orch, Live(o), NEW r \in OrchRecord, r.status = orchs[o].status,
           orchs' = [orchs EXCEPT ![o] = r], UNCHANGED <<runner, worker, returned, orchFaults>>,
           flowIs' \in [OrchFlow -> {"absent", "empty", "filled", "removed"}],
           panelBusy' \in BOOLEAN, cancelling' \in BOOLEAN
    PROVE  OrchInv'
<1>1. OrchTypeOK'
  BY DEF OrchInv, OrchTypeOK
<1>2. ASSUME NEW p \in Orch PROVE RunnerFacts(p)' /\ DoneFacts(p)'
  <2>1. CASE p = o
    <3>1. orchs'[o] = r
      BY DEF OrchInv, OrchTypeOK
    <3> QED BY <2>1, <3>1, SameStatus
  <2>2. CASE p # o
    BY <2>2, Untouched DEF OrchInv, OrchTypeOK
  <2> QED BY <2>1, <2>2
<1> QED BY <1>1, <1>2 DEF OrchInv

LEMMA BindKeeps ==
    ASSUME OrchInv, NEW o \in Orch, NEW s \in Stage, NEW f \in OrchFlow \cup {NoFlowId}, Bind(o, s, f)
    PROVE  OrchInv'
<1> DEFINE r == [orchs[o] EXCEPT !.existing[s] = f, !.bound[s] = NoFlowId]
<1>1. Live(o) /\ orchs[o] \in OrchRecord
  BY LiveTyped DEF Bind, Is, OrchInv
<1>2. r \in OrchRecord
  BY <1>1, RecordUpdated, Zenon
<1>3. r.status = orchs[o].status
  BY <1>1 DEF OrchRecord
<1>4. orchs' = [orchs EXCEPT ![o] = r]
      /\ UNCHANGED <<flowIs, runner, worker, returned, panelBusy, cancelling, orchFaults>>
  BY DEF Bind
<1> HIDE DEF r
<1> QED BY <1>1, <1>2, <1>3, <1>4, SameKeeps DEF OrchInv, OrchTypeOK

LEMMA PrepareKeeps == ASSUME OrchInv, NEW o \in Orch, Prepare(o) PROVE OrchInv'
<1> DEFINE needs == {s \in Stage : orchs[o].bound[s] = NoFlowId /\ orchs[o].existing[s] = NoFlowId}
           free == {f \in OrchFlow : flowIs[f] = "absent"}
<1>1. PICK fix \in [needs -> free] :
        /\ orchs' = [orchs EXCEPT ![o].bound =
                        [s \in Stage |-> IF s \in needs THEN fix[s] ELSE @[s]]]
        /\ flowIs' = [f \in OrchFlow |->
                         IF \E s \in needs : fix[s] = f THEN "empty" ELSE flowIs[f]]
  BY DEF Prepare
<1>2. Live(o) /\ orchs[o] \in OrchRecord
  BY LiveTyped DEF Prepare, Is, OrchInv
<1> DEFINE b == [s \in Stage |-> IF s \in needs THEN fix[s] ELSE orchs[o].bound[s]]
           r == [orchs[o] EXCEPT !.bound = b]
<1>3. b \in [Stage -> OrchFlow \cup {NoFlowId}]
  BY <1>2 DEF OrchRecord
<1>4. orchs' = [orchs EXCEPT ![o] = r]
  BY <1>1
<1>5. flowIs' \in [OrchFlow -> {"absent", "empty", "filled", "removed"}]
  BY <1>1 DEF OrchInv, OrchTypeOK
<1> HIDE DEF b
<1>6. r \in OrchRecord
  BY <1>2, <1>3, RecordUpdated, Zenon
<1>7. r.status = orchs[o].status
  BY <1>2 DEF OrchRecord
<1>8. UNCHANGED <<runner, worker, returned, panelBusy, cancelling, orchFaults>>
  BY DEF Prepare
<1> HIDE DEF r
<1> QED BY <1>2, <1>4, <1>5, <1>6, <1>7, <1>8, SameKeeps DEF OrchInv, OrchTypeOK

\* Steps that change no record.
LEMMA OthersKeep ==
    ASSUME OrchInv, UNCHANGED <<orchs, runner, worker, returned, orchFaults>>,
           flowIs' \in [OrchFlow -> {"absent", "empty", "filled", "removed"}],
           panelBusy' \in BOOLEAN, cancelling' \in BOOLEAN
    PROVE  OrchInv'
<1>1. OrchTypeOK'
  BY DEF OrchInv, OrchTypeOK
<1>2. \A p \in Orch : RunnerFacts(p)' /\ DoneFacts(p)'
  BY Untouched
<1> QED BY <1>1, <1>2 DEF OrchInv

LEMMA EditFlowKeeps == ASSUME OrchInv, NEW f \in OrchFlow, EditFlow(f) PROVE OrchInv'
<1>1. flowIs' \in [OrchFlow -> {"absent", "empty", "filled", "removed"}]
  BY DEF EditFlow, OrchInv, OrchTypeOK
<1> QED BY <1>1, OthersKeep DEF EditFlow, OrchInv, OrchTypeOK

LEMMA RemountKeeps == ASSUME OrchInv, Remount PROVE OrchInv'
BY OthersKeep DEF Remount, OrchInv, OrchTypeOK

\* A step that gives one record another status, or removes it, with the runner of
\* another stage or of none.
LEMMA MovedKeeps ==
    ASSUME OrchInv, NEW o \in Orch, NEW r \in OrchRecord \cup {Removed},
           orchs' = [orchs EXCEPT ![o] = r],
           NEW n \in Stage \cup {0}, runner' = [runner EXCEPT ![o] = n],
           NEW ret \in [Stage -> {"nothing", "success", "error", "aborted"}],
           returned' = [returned EXCEPT ![o] = ret],
           UNCHANGED <<flowIs, worker, orchFaults>>,
           panelBusy' \in BOOLEAN, cancelling' \in BOOLEAN,
           n # 0 => /\ worker[o] = "none" /\ (r = Removed \/ r.status \in {"running", "cancelled"})
                    /\ \A q \in Stage : q < n => ret[q] = "success",
           r # Removed /\ r.status = "done" /\ worker[o] = "none" => \A s \in Stage : ret[s] = "success"
    PROVE  OrchInv'
<1>1. OrchTypeOK'
  BY DEF OrchInv, OrchTypeOK
<1>2. ASSUME NEW p \in Orch PROVE RunnerFacts(p)' /\ DoneFacts(p)'
  <2>1. CASE p = o
    <3>1. orchs'[o] = r /\ runner'[o] = n /\ returned'[o] = ret /\ worker'[o] = worker[o]
      BY DEF OrchInv, OrchTypeOK
    <3>2. r # Removed => r # NoRecord
      BY RecordTyped
    <3>3. RunnerFacts(o)'
      BY <3>1, <3>2 DEF RunnerFacts, Is, Live
    <3>4. DoneFacts(o)'
      BY <3>1, <3>2 DEF DoneFacts, Is, Live
    <3> QED BY <2>1, <3>3, <3>4
  <2>2. CASE p # o
    BY <2>2, Untouched DEF OrchInv, OrchTypeOK
  <2> QED BY <2>1, <2>2
<1> QED BY <1>1, <1>2 DEF OrchInv

LEMMA RunnerSame ==
    ASSUME OrchTypeOK, NEW o \in Orch
    PROVE  /\ runner = [runner EXCEPT ![o] = runner[o]] /\ runner[o] \in Stage \cup {0}
           /\ returned = [returned EXCEPT ![o] = returned[o]]
           /\ returned[o] \in [Stage -> {"nothing", "success", "error", "aborted"}]
           /\ orchs = [orchs EXCEPT ![o] = orchs[o]]
BY DEF OrchTypeOK

LEMMA ConfirmDraftKeeps == ASSUME OrchInv, NEW o \in Orch, ConfirmDraft(o) PROVE OrchInv'
<1> DEFINE r == [orchs[o] EXCEPT !.status = "ready"]
<1>1. Live(o) /\ orchs[o] \in OrchRecord /\ orchs[o].status = "awaiting-confirm"
  BY LiveTyped DEF ConfirmDraft, Is, OrchInv
<1>0. "ready" \in OrchStatus
  BY DEF OrchStatus
<1>2. r \in OrchRecord
  BY <1>0, <1>1, RecordUpdated, Zenon
<1>3. r.status = "ready" /\ r # Removed
  BY <1>1, <1>2, RecordTyped DEF OrchRecord
<1>4. orchs' = [orchs EXCEPT ![o] = r]
      /\ UNCHANGED <<flowIs, runner, worker, returned, panelBusy, cancelling, orchFaults>>
  BY DEF ConfirmDraft
<1>5. runner[o] = 0
  BY <1>1, RecordTyped DEF OrchInv, RunnerFacts, Is
<1> DEFINE n == runner[o]
           ret == returned[o]
<1>6. /\ runner' = [runner EXCEPT ![o] = n] /\ n \in Stage \cup {0} /\ n = 0
      /\ returned' = [returned EXCEPT ![o] = ret]
      /\ ret \in [Stage -> {"nothing", "success", "error", "aborted"}]
      /\ panelBusy' \in BOOLEAN /\ cancelling' \in BOOLEAN
  BY <1>4, <1>5, RunnerSame DEF OrchInv, OrchTypeOK
<1> HIDE DEF r, n, ret
<1> QED BY <1>2, <1>3, <1>4, <1>6, MovedKeeps

LEMMA RemoveRecordKeeps == ASSUME OrchInv, NEW o \in Orch, RemoveRecord(o) PROVE OrchInv'
<1>1. orchs' = [orchs EXCEPT ![o] = Removed]
      /\ UNCHANGED <<flowIs, runner, worker, returned, panelBusy, cancelling, orchFaults>>
  BY DEF RemoveRecord
<1>2. runner[o] # 0 => worker[o] = "none" /\ \A q \in Stage : q < runner[o] => returned[o][q] = "success"
  BY DEF OrchInv, RunnerFacts
<1> DEFINE n == runner[o]
           ret == returned[o]
           r == Removed
<1>3. /\ runner' = [runner EXCEPT ![o] = n] /\ n \in Stage \cup {0}
      /\ returned' = [returned EXCEPT ![o] = ret]
      /\ ret \in [Stage -> {"nothing", "success", "error", "aborted"}]
      /\ panelBusy' \in BOOLEAN /\ cancelling' \in BOOLEAN
      /\ orchs' = [orchs EXCEPT ![o] = r] /\ r \in OrchRecord \cup {Removed} /\ r = Removed
  BY <1>1, RunnerSame DEF OrchInv, OrchTypeOK
<1>4. n # 0 => worker[o] = "none" /\ \A q \in Stage : q < n => ret[q] = "success"
  BY <1>2
<1> HIDE DEF r, n, ret
<1> QED BY <1>1, <1>3, <1>4, MovedKeeps

LEMMA EnterTyped ==
    ASSUME NEW r \in OrchRecord, NEW s \in Stage
    PROVE  /\ Enter(r, s) \in OrchRecord /\ Enter(r, s).status \in {"running", "failed"}
           /\ Awaited(Enter(r, s), s) \in Stage \cup {0}
           /\ Awaited(Enter(r, s), s) # 0 => Enter(r, s).status = "running" /\ Awaited(Enter(r, s), s) = s
<1>1. "running" \in OrchStatus \cap LogStatus /\ "failed" \in OrchStatus \cap LogStatus
  BY DEF OrchStatus, LogStatus
<1>2. /\ [r EXCEPT !.status = "running", !.log[s] = "running"] \in OrchRecord
      /\ [r EXCEPT !.status = "failed", !.log[s] = "failed"] \in OrchRecord
  BY <1>1, RecordUpdated, Zenon
<1>3. /\ [r EXCEPT !.status = "running", !.log[s] = "running"].status = "running"
      /\ [r EXCEPT !.status = "failed", !.log[s] = "failed"].status = "failed"
  BY DEF OrchRecord
<1> QED BY <1>2, <1>3 DEF Enter, Awaited

LEMMA RunKeeps == ASSUME OrchInv, NEW o \in Orch, Run(o) PROVE OrchInv'
<1> DEFINE r == Enter(orchs[o], 1)
           n == Awaited(r, 1)
           ret == [s \in Stage |-> "nothing"]
<1>1. Live(o) /\ orchs[o] \in OrchRecord /\ worker[o] = "none"
  BY LiveTyped DEF Run, Is, OrchInv, canStartLegacy
<1>2. r \in OrchRecord /\ r.status \in {"running", "failed"} /\ n \in Stage \cup {0}
      /\ (n # 0 => r.status = "running" /\ n = 1)
  BY <1>1, StageTyped, EnterTyped
<1>3. /\ orchs' = [orchs EXCEPT ![o] = r] /\ runner' = [runner EXCEPT ![o] = n]
      /\ returned' = [returned EXCEPT ![o] = ret]
      /\ UNCHANGED <<flowIs, worker, orchFaults>> /\ panelBusy' \in BOOLEAN /\ cancelling' \in BOOLEAN
  BY DEF Run, OrchInv, OrchTypeOK
<1>4. ret \in [Stage -> {"nothing", "success", "error", "aborted"}] /\ \A q \in Stage : ~(q < 1)
  BY DEF Stage
<1> HIDE DEF r, n, ret
<1> QED BY <1>1, <1>2, <1>3, <1>4, MovedKeeps

LEMMA AfterStageTyped ==
    ASSUME NEW r \in OrchRecord, NEW s \in Stage, NEW result
    PROVE  /\ AfterStage(r, s, result) \in OrchRecord
           /\ AfterStage(r, s, result).status \in {"running", "failed", "done", "cancelled"}
           /\ AfterStage(r, s, result).status = "running" => Succeeded(result)
           /\ AfterStage(r, s, result).status = "done" => Succeeded(result) /\ s = Stages
<1> DEFINE failed == [r EXCEPT !.status = "failed", !.log[s] = "failed"]
           passed == [r EXCEPT !.log[s] = "success", !.ran = TRUE]
           ended == [passed EXCEPT !.status = "done"]
<1>1. "failed" \in OrchStatus \cap LogStatus /\ "success" \in LogStatus /\ TRUE \in BOOLEAN
      /\ "done" \in OrchStatus
  BY DEF OrchStatus, LogStatus
<1>2. failed \in OrchRecord /\ passed \in OrchRecord
  BY <1>1, RecordUpdated, Zenon
<1>3. ended \in OrchRecord
  BY <1>1, <1>2, RecordUpdated, Zenon
<1>4. failed.status = "failed" /\ passed.status = r.status /\ ended.status = "done"
  BY <1>2 DEF OrchRecord
<1>5. AfterStage(r, s, result) =
        IF ~Succeeded(result) THEN failed
        ELSE IF r.status = "cancelled" THEN passed
        ELSE IF s = Stages THEN ended
        ELSE Enter(passed, s + 1)
  BY DEF AfterStage
<1>6. s # Stages => s + 1 \in Stage
  BY OrchAssumption DEF Stage
<1> HIDE DEF failed, passed, ended
<1>7. s # Stages => Enter(passed, s + 1) \in OrchRecord
                    /\ Enter(passed, s + 1).status \in {"running", "failed"}
  BY <1>2, <1>6, EnterTyped
<1> QED BY <1>2, <1>3, <1>4, <1>5, <1>7

LEMMA StageReturnsKeeps ==
    ASSUME OrchInv, NEW o \in Orch, NEW result \in {"success", "error", "aborted"}, StageReturns(o, result)
    PROVE  OrchInv'
<1> DEFINE s == runner[o]
           ret == [returned[o] EXCEPT ![s] = result]
<1>1. s \in Stage /\ s # 0 /\ returned[o] \in [Stage -> {"nothing", "success", "error", "aborted"}]
  BY DEF StageReturns, OrchInv, OrchTypeOK
<1>2. /\ worker[o] = "none" /\ (orchs[o] = Removed \/ Is(o, {"running", "cancelled"}))
      /\ \A q \in Stage : q < s => returned[o][q] = "success"
  BY <1>1 DEF OrchInv, RunnerFacts
<1>3. ret \in [Stage -> {"nothing", "success", "error", "aborted"}] /\ ret[s] = result
      /\ \A q \in Stage : q # s => ret[q] = returned[o][q]
  BY <1>1
<1>4. /\ returned' = [returned EXCEPT ![o] = ret] /\ UNCHANGED <<flowIs, worker, orchFaults>>
      /\ panelBusy' \in BOOLEAN /\ cancelling' \in BOOLEAN
  BY DEF StageReturns, OrchInv, OrchTypeOK
<1>5. CASE Overtaken(o)
  <2> DEFINE r == orchs[o]
             n == 0
  <2>1. /\ orchs' = [orchs EXCEPT ![o] = r] /\ runner' = [runner EXCEPT ![o] = n]
    BY <1>5, RunnerSame DEF StageReturns, OrchInv
  <2>2. r \in OrchRecord \cup {Removed} /\ (r # Removed => r.status = "cancelled")
    BY <1>2, <1>5, LiveTyped DEF Overtaken, Is, OrchInv
  <2>3. n \in Stage \cup {0} /\ n = 0
    OBVIOUS
  <2> HIDE DEF r, n, ret
  <2> QED BY <1>3, <1>4, <2>1, <2>2, <2>3, MovedKeeps
<1>6. CASE ~Overtaken(o)
  <2> DEFINE r == AfterStage(orchs[o], s, result)
             n == IF s < Stages THEN Awaited(r, s + 1) ELSE 0
  <2>1. Live(o) /\ orchs[o] \in OrchRecord
    BY <1>6, LiveTyped DEF Overtaken, OrchInv
  <2>2. orchs' = [orchs EXCEPT ![o] = r] /\ runner' = [runner EXCEPT ![o] = n]
    BY <1>6 DEF StageReturns
  <2>3. /\ r \in OrchRecord /\ r \in OrchRecord \cup {Removed}
        /\ r.status = "running" => result = "success"
        /\ r.status = "done" => result = "success" /\ s = Stages
    BY <1>1, <2>1, AfterStageTyped DEF Succeeded
  <2>4. n \in Stage \cup {0} /\ (n # 0 => n = s + 1 /\ r.status = "running")
    BY <1>1, StageTyped DEF Awaited
  <2> HIDE DEF r, n, s
  <2>5. n # 0 => /\ worker[o] = "none" /\ (r = Removed \/ r.status \in {"running", "cancelled"})
                 /\ \A q \in Stage : q < n => ret[q] = "success"
    BY <1>1, <1>2, <1>3, <2>3, <2>4, StageTyped
  <2>6. r # Removed /\ r.status = "done" /\ worker[o] = "none" => \A q \in Stage : ret[q] = "success"
    <3> SUFFICES ASSUME r.status = "done", NEW q \in Stage PROVE ret[q] = "success"
      OBVIOUS
    <3>1. q < s \/ q = s
      BY <2>3, OrchAssumption DEF Stage
    <3> QED BY <1>2, <1>3, <2>3, <3>1
  <2> HIDE DEF ret
  <2> QED BY <1>3, <1>4, <2>2, <2>3, <2>4, <2>5, <2>6, MovedKeeps
<1> QED BY <1>5, <1>6

LEMMA StageThrowsKeeps == ASSUME OrchInv, NEW o \in Orch, StageThrows(o) PROVE OrchInv'
<1> DEFINE s == runner[o]
           ret == [returned[o] EXCEPT ![s] = "error"]
           n == 0
           after == IF canTransition(orchs[o].status, "failed") THEN "failed" ELSE orchs[o].status
           r == IF ~Live(o) THEN orchs[o]
                ELSE [orchs[o] EXCEPT !.log[s] = "failed", !.status = after]
<1>1. s \in Stage /\ s # 0 /\ returned[o] \in [Stage -> {"nothing", "success", "error", "aborted"}]
  BY DEF StageThrows, OrchInv, OrchTypeOK
<1>2. worker[o] = "none" /\ (orchs[o] = Removed \/ Is(o, {"running", "cancelled"}))
  BY <1>1 DEF OrchInv, RunnerFacts
<1>3. ret \in [Stage -> {"nothing", "success", "error", "aborted"}] /\ n \in Stage \cup {0} /\ n = 0
  BY <1>1
<1>4. /\ returned' = [returned EXCEPT ![o] = ret] /\ UNCHANGED <<flowIs, worker, orchFaults>>
      /\ panelBusy' \in BOOLEAN /\ cancelling' \in BOOLEAN /\ runner' = [runner EXCEPT ![o] = n]
  BY DEF StageThrows
<1>5. orchs' = [orchs EXCEPT ![o] = r]
  BY RunnerSame DEF StageThrows, OrchInv
<1>6. r \in OrchRecord \cup {Removed} /\ (r # Removed => r.status # "done")
  <2>1. CASE Live(o)
    <3>1. orchs[o] \in OrchRecord /\ orchs[o].status \in {"running", "cancelled"}
      BY <1>2, <2>1, LiveTyped DEF Is, Live, OrchInv
    <3>2. "failed" \in LogStatus /\ after \in {"failed", "running", "cancelled"} /\ after \in OrchStatus
      BY <3>1 DEF LogStatus, OrchStatus
    <3> HIDE DEF after
    <3>3. [orchs[o] EXCEPT !.log[s] = "failed", !.status = after] \in OrchRecord
      BY <1>1, <3>1, <3>2, RecordUpdated, Zenon
    <3>4. [orchs[o] EXCEPT !.log[s] = "failed", !.status = after].status = after
      BY <3>1 DEF OrchRecord
    <3> QED BY <2>1, <3>2, <3>3, <3>4
  <2>2. CASE ~Live(o)
    BY <1>2, <2>2 DEF Is
  <2> QED BY <2>1, <2>2
<1> HIDE DEF r, n, ret, s
<1> QED BY <1>3, <1>4, <1>5, <1>6, MovedKeeps

LEMMA CancelKeeps == ASSUME OrchInv, NEW o \in Orch, Cancel(o) PROVE OrchInv'
<1> DEFINE l == [s \in Stage |-> CASE orchs[o].log[s] = "running" -> "cancelled"
                                   [] orchs[o].log[s] = "pending" -> "skipped"
                                   [] OTHER -> orchs[o].log[s]]
           r == [orchs[o] EXCEPT !.status = "cancelled", !.log = l]
           n == runner[o]
           ret == returned[o]
<1>1. Live(o) /\ orchs[o] \in OrchRecord
  BY LiveTyped DEF Cancel, Is, OrchInv
<1>2. l \in [Stage -> LogStatus] /\ "cancelled" \in OrchStatus
  BY <1>1 DEF OrchRecord, LogStatus, OrchStatus
<1>3. orchs' = [orchs EXCEPT ![o] = r]
  BY DEF Cancel
<1> HIDE DEF l
<1>4. r \in OrchRecord
  BY <1>1, <1>2, RecordUpdated, Zenon
<1>5. r.status = "cancelled"
  BY <1>1 DEF OrchRecord
<1>6. /\ runner' = [runner EXCEPT ![o] = n] /\ n \in Stage \cup {0}
      /\ returned' = [returned EXCEPT ![o] = ret]
      /\ ret \in [Stage -> {"nothing", "success", "error", "aborted"}]
      /\ panelBusy' \in BOOLEAN /\ cancelling' \in BOOLEAN /\ UNCHANGED <<flowIs, worker, orchFaults>>
  BY RunnerSame DEF Cancel, OrchInv, OrchTypeOK
<1>7. n # 0 => worker[o] = "none" /\ \A q \in Stage : q < n => ret[q] = "success"
  BY DEF OrchInv, RunnerFacts
<1> HIDE DEF r, n, ret
<1> QED BY <1>3, <1>4, <1>5, <1>6, <1>7, MovedKeeps

\* A step in which records are projected from the worker runs that name them: a
\* record without one keeps its status, and the runner is on none that gets one.
LEMMA ProjectionKeeps ==
    ASSUME OrchInv, worker' \in [Orch -> WorkerStatus], UNCHANGED <<runner, returned, flowIs>>,
           orchFaults' \in 0 .. MaxOrchFaults, panelBusy' \in BOOLEAN, cancelling' \in BOOLEAN,
           orchs' \in [Orch -> OrchRecord \cup {NoRecord, Removed}],
           \A p \in Orch :
             /\ worker'[p] # "none" => runner[p] = 0
             /\ worker'[p] = "none" => worker[p] = "none"
             /\ Live(p) /\ worker'[p] = "none" =>
                  orchs'[p] \in OrchRecord /\
                  (orchs'[p].status = orchs[p].status \/
                   (orchs[p].status = "done" /\ orchs'[p].status = "failed"))
             /\ ~Live(p) => orchs'[p] = orchs[p]
    PROVE  OrchInv'
<1>1. OrchTypeOK'
  BY DEF OrchInv, OrchTypeOK
<1>2. ASSUME NEW p \in Orch PROVE RunnerFacts(p)' /\ DoneFacts(p)'
  <2>1. CASE worker'[p] # "none"
    BY <2>1 DEF RunnerFacts, DoneFacts
  <2>2. CASE worker'[p] = "none" /\ ~Live(p)
    BY <2>2, Untouched
  <2>3. CASE worker'[p] = "none" /\ Live(p)
    <3>1. orchs'[p] \in OrchRecord /\ orchs'[p] # Removed /\ orchs'[p] # NoRecord
          /\ (orchs'[p].status = orchs[p].status
              \/ (orchs[p].status = "done" /\ orchs'[p].status = "failed"))
      BY <2>3, RecordTyped
    <3>2. RunnerFacts(p) /\ DoneFacts(p)
      BY DEF OrchInv
    <3>3. worker[p] = "none"
      BY <2>3
    <3>4. RunnerFacts(p)'
      BY <2>3, <3>1, <3>2 DEF RunnerFacts, Is, Live
    <3>5. DoneFacts(p)'
      BY <2>3, <3>1, <3>2, <3>3 DEF DoneFacts, Is, Live
    <3> QED BY <3>4, <3>5
  <2> QED BY <2>1, <2>2, <2>3
<1> QED BY <1>1, <1>2 DEF OrchInv

LEMMA ConfirmWorkerRunKeeps == ASSUME OrchInv, NEW o \in Orch, ConfirmWorkerRun(o) PROVE OrchInv'
<1>1. worker' = [worker EXCEPT ![o] = "queued"] /\ worker \in [Orch -> WorkerStatus]
      /\ worker' \in [Orch -> WorkerStatus]
  BY DEF ConfirmWorkerRun, OrchInv, OrchTypeOK, WorkerStatus
<1>2. runner[o] = 0
  BY RecordTyped DEF ConfirmWorkerRun, OrchInv, RunnerFacts, Is, Live
<1>3. /\ UNCHANGED <<flowIs, runner, returned>> /\ panelBusy' \in BOOLEAN /\ cancelling' \in BOOLEAN
      /\ orchFaults' \in 0 .. MaxOrchFaults
  BY DEF ConfirmWorkerRun, OrchInv, OrchTypeOK
<1> DEFINE before(p) == IF p = o THEN [orchs[p] EXCEPT !.status = "ready"] ELSE orchs[p]
<1>4. ASSUME NEW p \in Orch, Live(p)
      PROVE  orchs'[p] = projectRun(before(p), worker'[p]) /\ before(p) \in OrchRecord
  <2>1. orchs[p] \in OrchRecord
    BY <1>4, LiveTyped DEF OrchInv
  <2>2. "ready" \in OrchStatus
    BY DEF OrchStatus
  <2>3. [orchs[p] EXCEPT !.status = "ready"] \in OrchRecord
    BY <2>1, <2>2, RecordUpdated, Zenon
  <2> QED BY <1>4, <2>1, <2>3 DEF ConfirmWorkerRun
<1>5. ASSUME NEW p \in Orch, ~Live(p) PROVE orchs'[p] = orchs[p]
  BY <1>5 DEF ConfirmWorkerRun
<1>6. ASSUME NEW p \in Orch, Live(p)
      PROVE  /\ orchs'[p] \in OrchRecord
             /\ worker'[p] = "none" => orchs'[p].status = orchs[p].status
  <2>1. worker'[p] \in WorkerStatus /\ (worker'[p] = "none" => p # o)
    BY <1>1
  <2> QED BY <1>4, <1>6, <2>1, ProjectedTyped
<1>7. orchs' \in [Orch -> OrchRecord \cup {NoRecord, Removed}]
  <2>1. \A p \in Orch : orchs'[p] \in OrchRecord \cup {NoRecord, Removed}
    BY <1>5, <1>6 DEF Live
  <2>2. orchs' = [p \in Orch |-> orchs'[p]]
    BY DEF ConfirmWorkerRun
  <2> QED BY <2>1, <2>2
<1>8. \A p \in Orch : /\ worker'[p] # "none" => runner[p] = 0
                      /\ worker'[p] = "none" => worker[p] = "none"
  BY <1>1, <1>2 DEF OrchInv, RunnerFacts
<1>9. \A p \in Orch :
        /\ worker'[p] # "none" => runner[p] = 0
        /\ worker'[p] = "none" => worker[p] = "none"
        /\ Live(p) /\ worker'[p] = "none" =>
             orchs'[p] \in OrchRecord /\
             (orchs'[p].status = orchs[p].status \/
              (orchs[p].status = "done" /\ orchs'[p].status = "failed"))
        /\ ~Live(p) => orchs'[p] = orchs[p]
  <2> HIDE DEF before
  <2>1. \A p \in Orch : Live(p) => /\ orchs'[p] \in OrchRecord
                                   /\ worker'[p] = "none" => orchs'[p].status = orchs[p].status
    BY <1>6
  <2>2. \A p \in Orch : ~Live(p) => orchs'[p] = orchs[p]
    BY <1>5
  <2> QED BY <1>8, <2>1, <2>2, Zenon
<1> QED BY <1>1, <1>3, <1>7, <1>9, ProjectionKeeps

LEMMA ProjectedRecords ==
    ASSUME OrchTypeOK, NEW taken \in [Orch -> WorkerStatus]
    PROVE  /\ Projected(taken) \in [Orch -> OrchRecord \cup {NoRecord, Removed}]
           /\ \A p \in Orch :
                /\ ~Live(p) => Projected(taken)[p] = orchs[p]
                /\ Live(p) => /\ Projected(taken)[p] \in OrchRecord
                              /\ taken[p] = "none" => /\ Projected(taken)[p].status = orchs[p].status
                                                     /\ Projected(taken)[p].log = orchs[p].log
<1>1. ASSUME NEW p \in Orch
      PROVE  /\ ~Live(p) => Projected(taken)[p] = orchs[p]
             /\ Live(p) => /\ Projected(taken)[p] \in OrchRecord
                           /\ taken[p] = "none" => /\ Projected(taken)[p].status = orchs[p].status
                                                  /\ Projected(taken)[p].log = orchs[p].log
  BY LiveTyped, ProjectedTyped DEF Projected
<1>2. Projected(taken) = [p \in Orch |-> Projected(taken)[p]]
  BY DEF Projected
<1>3. \A p \in Orch : Projected(taken)[p] \in OrchRecord \cup {NoRecord, Removed}
  BY <1>1 DEF Live
<1> QED BY <1>1, <1>2, <1>3

LEMMA WorkerMovesKeeps ==
    ASSUME OrchInv, NEW o \in Orch, NEW to \in WorkerStatus, WorkerMoves(o, to)
    PROVE  OrchInv'
<1>1. worker' = [worker EXCEPT ![o] = to] /\ worker \in [Orch -> WorkerStatus]
      /\ worker' \in [Orch -> WorkerStatus] /\ worker[o] # "none" /\ to # "none"
  BY DEF WorkerMoves, OrchInv, OrchTypeOK
<1>2. /\ UNCHANGED <<flowIs, runner, returned>> /\ panelBusy' \in BOOLEAN /\ cancelling' \in BOOLEAN
      /\ orchFaults' \in 0 .. MaxOrchFaults /\ orchs' = Projected(worker')
  BY DEF WorkerMoves, OrchInv, OrchTypeOK
<1>3. \A p \in Orch : /\ worker'[p] # "none" => worker[p] # "none" /\ runner[p] = 0
                      /\ worker'[p] = "none" => worker[p] = "none"
  BY <1>1 DEF OrchInv, RunnerFacts
<1>4. /\ orchs' \in [Orch -> OrchRecord \cup {NoRecord, Removed}]
      /\ \A p \in Orch :
           /\ worker'[p] # "none" => runner[p] = 0
           /\ worker'[p] = "none" => worker[p] = "none"
           /\ Live(p) /\ worker'[p] = "none" =>
                orchs'[p] \in OrchRecord /\
                (orchs'[p].status = orchs[p].status \/
                 (orchs[p].status = "done" /\ orchs'[p].status = "failed"))
           /\ ~Live(p) => orchs'[p] = orchs[p]
  <2> DEFINE taken == worker'
  <2>1. OrchTypeOK /\ taken \in [Orch -> WorkerStatus]
    BY <1>1 DEF OrchInv
  <2>2. orchs' = Projected(taken)
    BY <1>2
  <2>3. \A p \in Orch : /\ taken[p] # "none" => runner[p] = 0
                        /\ taken[p] = "none" => worker[p] = "none"
    BY <1>3
  <2> HIDE DEF taken
  <2>4. /\ orchs' \in [Orch -> OrchRecord \cup {NoRecord, Removed}]
        /\ \A p \in Orch :
             /\ ~Live(p) => orchs'[p] = orchs[p]
             /\ Live(p) => /\ orchs'[p] \in OrchRecord
                           /\ taken[p] = "none" => orchs'[p].status = orchs[p].status
    BY <2>1, <2>2, ProjectedRecords
  <2> QED BY <2>3, <2>4, Zenon DEF taken
<1> QED BY <1>1, <1>2, <1>4, ProjectionKeeps

LEMMA SuppressedRecords ==
    ASSUME OrchTypeOK
    PROVE  /\ Suppressed \in [Orch -> OrchRecord \cup {NoRecord, Removed}]
           /\ \A p \in Orch :
                /\ ~Live(p) => Suppressed[p] = orchs[p]
                /\ Live(p) => /\ Suppressed[p] \in OrchRecord
                              /\ \/ Suppressed[p].status = orchs[p].status
                                 \/ orchs[p].status = "done" /\ Suppressed[p].status = "failed"
                              /\ \A s \in Stage : Suppressed[p].log[s] = "success" =>
                                                     orchs[p].log[s] = "success"
<1>1. ASSUME NEW p \in Orch, Live(p)
      PROVE  /\ Suppressed[p] \in OrchRecord
             /\ \/ Suppressed[p].status = orchs[p].status
                \/ orchs[p].status = "done" /\ Suppressed[p].status = "failed"
             /\ \A s \in Stage : Suppressed[p].log[s] = "success" => orchs[p].log[s] = "success"
  <2> DEFINE x == IF orchs[p].status = "done" THEN "failed" ELSE orchs[p].status
             l == [s \in Stage |-> IF orchs[p].log[s] = "success" THEN "pending" ELSE orchs[p].log[s]]
             r == [orchs[p] EXCEPT !.status = x, !.log = l]
  <2>1. orchs[p] \in OrchRecord /\ Suppressed[p] = r
    BY <1>1, LiveTyped DEF Suppressed
  <2>2. x \in OrchStatus /\ l \in [Stage -> LogStatus]
    BY <2>1 DEF OrchRecord, OrchStatus, LogStatus
  <2>3. \A s \in Stage : l[s] # "success"
    OBVIOUS
  <2>4. x = orchs[p].status \/ (orchs[p].status = "done" /\ x = "failed")
    OBVIOUS
  <2> HIDE DEF x, l
  <2>5. r \in OrchRecord
    BY <2>1, <2>2, RecordUpdated, Zenon
  <2>6. r.status = x /\ r.log = l
    BY <2>1 DEF OrchRecord
  <2> QED BY <2>1, <2>3, <2>4, <2>5, <2>6
<1>2. \A p \in Orch : ~Live(p) => Suppressed[p] = orchs[p]
  BY DEF Suppressed
<1>3. Suppressed = [p \in Orch |-> Suppressed[p]]
  BY DEF Suppressed
<1>4. \A p \in Orch : Suppressed[p] \in OrchRecord \cup {NoRecord, Removed}
  BY <1>1, <1>2 DEF Live
<1> QED BY <1>1, <1>2, <1>3, <1>4

LEMMA ReopenAndAuditKeeps ==
    ASSUME OrchInv, NEW b \in BOOLEAN, ReopenAndAudit(b)
    PROVE  OrchInv'
<1>1. /\ UNCHANGED <<flowIs, runner, worker, returned>> /\ panelBusy' \in BOOLEAN /\ cancelling' \in BOOLEAN
      /\ orchFaults' \in 0 .. MaxOrchFaults /\ worker \in [Orch -> WorkerStatus]
  <2>1. orchFaults \in 0 .. MaxOrchFaults /\ MaxOrchFaults \in Nat /\ worker \in [Orch -> WorkerStatus]
    BY OrchAssumption DEF OrchInv, OrchTypeOK
  <2>2. /\ UNCHANGED <<flowIs, runner, worker, returned>> /\ panelBusy' = FALSE /\ cancelling' = FALSE
        /\ orchFaults' = IF b THEN orchFaults ELSE orchFaults + 1
        /\ b \/ orchFaults < MaxOrchFaults
    BY DEF ReopenAndAudit
  <2>3. orchFaults' \in 0 .. MaxOrchFaults
    <3>1. CASE b
      BY <2>1, <2>2, <3>1
    <3>2. CASE ~b
      <4>1. orchFaults < MaxOrchFaults /\ orchFaults' = orchFaults + 1
        BY <2>2, <3>2, Zenon
      <4> QED BY <2>1, <4>1
    <3> QED BY <3>1, <3>2
  <2>4. panelBusy' \in BOOLEAN /\ cancelling' \in BOOLEAN
    BY <2>2
  <2> QED BY <2>1, <2>2, <2>3, <2>4
<1>2. \/ orchs' = Projected(worker)
      \/ orchs' = Suppressed
      \/ orchs' = orchs
  <2> DEFINE taken == \E o \in Orch : worker[o] # "none"
             everRan == \E o \in Orch : Live(o) /\ orchs[o].ran
  <2>1. orchs' = CASE b /\ taken -> Projected(worker)
                   [] ~b \/ everRan -> Suppressed
                   [] OTHER -> orchs
    BY DEF ReopenAndAudit
  <2> HIDE DEF taken, everRan
  <2>2. CASE b /\ taken
    BY <2>1, <2>2
  <2>3. CASE ~b
    BY <2>1, <2>3
  <2>4. CASE b /\ ~taken /\ everRan
    BY <2>1, <2>4
  <2>5. CASE b /\ ~taken /\ ~everRan
    BY <2>1, <2>5
  <2> QED BY <2>2, <2>3, <2>4, <2>5
<1>3. \A p \in Orch : worker[p] # "none" => runner[p] = 0
  BY DEF OrchInv, RunnerFacts
<1>4. CASE orchs' = Projected(worker)
  BY <1>1, <1>3, <1>4, ProjectedRecords, ProjectionKeeps DEF OrchInv
<1>5. CASE orchs' = Suppressed
  BY <1>1, <1>3, <1>5, SuppressedRecords, ProjectionKeeps DEF OrchInv
<1>6. CASE orchs' = orchs
  BY <1>1, <1>3, <1>6, LiveTyped, ProjectionKeeps DEF OrchInv, OrchTypeOK
<1> QED BY <1>2, <1>4, <1>5, <1>6

LEMMA OrchInvInit == OrchInit => OrchInv
<1> SUFFICES ASSUME OrchInit PROVE OrchInv
  OBVIOUS
<1>1. OrchTypeOK
  <2>1. orchFaults \in 0 .. MaxOrchFaults
    BY OrchAssumption DEF OrchInit
  <2>2. /\ orchs \in [Orch -> OrchRecord \cup {NoRecord, Removed}]
        /\ flowIs \in [OrchFlow -> {"absent", "empty", "filled", "removed"}]
        /\ runner \in [Orch -> Stage \cup {0}] /\ worker \in [Orch -> WorkerStatus]
    BY DEF OrchInit, WorkerStatus
  <2>3. returned \in [Orch -> [Stage -> {"nothing", "success", "error", "aborted"}]]
    BY DEF OrchInit
  <2>4. panelBusy \in BOOLEAN /\ cancelling \in BOOLEAN
    BY DEF OrchInit
  <2> QED BY <2>1, <2>2, <2>3, <2>4 DEF OrchTypeOK
<1>2. \A o \in Orch : RunnerFacts(o) /\ DoneFacts(o)
  BY DEF OrchInit, RunnerFacts, DoneFacts, Is, Live
<1> QED BY <1>1, <1>2 DEF OrchInv

LEMMA OrchUserKeeps == ASSUME OrchInv, OrchUserNext PROVE OrchInv'
BY GenerateKeeps, BindKeeps, PrepareKeeps, ConfirmDraftKeeps, RemoveRecordKeeps, RunKeeps, CancelKeeps,
   EditFlowKeeps, RemountKeeps, ReopenAndAuditKeeps DEF OrchUserNext

LEMMA OrchSystemKeeps == ASSUME OrchInv, OrchSystemNext PROVE OrchInv'
BY StageReturnsKeeps, StageThrowsKeeps, WorkerMovesKeeps DEF OrchSystemNext

LEMMA OrchInvNext == OrchInv /\ [OrchNext]_orchVars => OrchInv'
<1> SUFFICES ASSUME OrchInv, [OrchNext]_orchVars PROVE OrchInv'
  OBVIOUS
<1>1. CASE UNCHANGED orchVars
  BY <1>1, OthersKeep DEF orchVars, OrchInv, OrchTypeOK
<1> QED BY <1>1, OrchUserKeeps, OrchSystemKeeps, ConfirmWorkerRunKeeps DEF OrchNext

LEMMA OrchInvGives == OrchInv => OrchTypeOK /\ OneExecutor /\ DoneBacked
BY DEF OrchInv, RunnerFacts, DoneFacts, OneExecutor, DoneBacked

\* In every reachable state the variables of the orchestrations have their types.
THEOREM OrchestrationsTyped == OrchSpec => []OrchTypeOK
<1>1. OrchInit => OrchInv
  BY OrchInvInit
<1>2. OrchInv /\ [OrchNext]_orchVars => OrchInv'
  BY OrchInvNext
<1> QED BY <1>1, <1>2, OrchInvGives, PTL DEF OrchSpec

-----------------------------------------------------------------------------
(* The planning.                                                           *)

SessionState ==
  [status : SessionStatus, brief : Nat, arch : Nat, graph : Nat, orch : Orch \cup {NoOrch}]
ArchState == [brief : Nat, approval : Approval]
GraphState == [arch : Nat, approval : Approval \cup {"superseded"}]
IssueState == [PlanTask -> {"proposed", "approved", "queued"}]

ControlState ==
  [session : SessionState, briefs : Seq(Approval), archs : Seq(ArchState),
   graphs : Seq(GraphState), issues : Seq(IssueState)]

\* Every reference of the snapshot leads to what it names.
References(c) ==
  /\ c.session.brief \in 0 .. Len(c.briefs) /\ c.session.arch \in 0 .. Len(c.archs)
  /\ \A a \in DOMAIN c.archs : c.archs[a].brief \in 1 .. Len(c.briefs)
  /\ \A g \in DOMAIN c.graphs : c.graphs[g].arch \in 1 .. Len(c.archs)

\* The session's graph is the newest, and only the newest is not superseded.
NewestLives(c) ==
  /\ c.session.graph = Len(c.graphs) /\ Len(c.issues) = Len(c.graphs)
  /\ \A g \in DOMAIN c.graphs : c.graphs[g].approval # "superseded" => g = Len(c.graphs)
  /\ c.session.status = "ready" =>
       c.session.graph # 0 /\ c.graphs[c.session.graph].approval = "approved"

Tracked(c, g) == \A k \in PlanTask : c.issues[g][k] \in {"approved", "queued"}

ApprovedTracked(c) ==
  \A g \in DOMAIN c.graphs : c.graphs[g].approval = "approved" => Tracked(c, g)

Sound(c) == References(c) /\ NewestLives(c) /\ ApprovedTracked(c)

\* What the user decided in c still stands in d.
Stands(c, d) ==
  /\ \A b \in DOMAIN c.briefs :
       b \in DOMAIN d.briefs /\ (c.briefs[b] = "approved" => d.briefs[b] = "approved")
  /\ \A a \in DOMAIN c.archs :
       a \in DOMAIN d.archs /\ (c.archs[a].approval = "approved" => d.archs[a].approval = "approved")
  /\ \A g \in DOMAIN c.graphs :
       g \in DOMAIN d.graphs /\ (c.graphs[g].approval # "draft" => d.graphs[g].approval # "draft")

\* Issues are neither lost nor proposed anew.
IssuesStay(c, d) ==
  \A g \in DOMAIN c.issues : g \in DOMAIN d.issues /\ (Tracked(c, g) => Tracked(d, g))

Follows(c, d) == d \in ControlState /\ Sound(d) /\ Stands(c, d) /\ IssuesStay(c, d)

\* What Append does to the positions of a sequence.
LEMMA Appended ==
    ASSUME NEW S, NEW q \in Seq(S), NEW x \in S
    PROVE  /\ Append(q, x) \in Seq(S) /\ Len(Append(q, x)) = Len(q) + 1
           /\ DOMAIN q \subseteq DOMAIN Append(q, x)
           /\ \A n \in DOMAIN q : Append(q, x)[n] = q[n]
           /\ Append(q, x)[Len(q) + 1] = x
           /\ Len(q) + 1 \in DOMAIN Append(q, x)
           /\ \A n \in DOMAIN Append(q, x) : n \in DOMAIN q \/ n = Len(q) + 1
           /\ Len(q) \in Nat /\ Len(q) + 1 \notin DOMAIN q
OBVIOUS

LEMMA Replaced ==
    ASSUME NEW S, NEW q \in Seq(S), NEW n \in DOMAIN q, NEW x \in S
    PROVE  /\ [q EXCEPT ![n] = x] \in Seq(S) /\ Len([q EXCEPT ![n] = x]) = Len(q)
           /\ DOMAIN [q EXCEPT ![n] = x] = DOMAIN q
           /\ [q EXCEPT ![n] = x][n] = x
           /\ \A m \in DOMAIN q : m # n => [q EXCEPT ![n] = x][m] = q[m]
OBVIOUS

LEMMA Retyped ==
    ASSUME NEW S, NEW T, NEW q \in Seq(S), \A n \in 1 .. Len(q) : q[n] \in T
    PROVE  q \in Seq(T)
OBVIOUS

LEMMA ControlParts ==
    ASSUME NEW c \in ControlState
    PROVE  /\ c.session \in SessionState /\ c.briefs \in Seq(Approval)
           /\ c.archs \in Seq(ArchState) /\ c.graphs \in Seq(GraphState)
           /\ c.issues \in Seq(IssueState)
           /\ c = [session |-> c.session, briefs |-> c.briefs, archs |-> c.archs,
                   graphs |-> c.graphs, issues |-> c.issues]
BY DEF ControlState

LEMMA FollowsItself == ASSUME NEW c \in ControlState, Sound(c) PROVE Follows(c, c)
BY DEF Follows, Stands, IssuesStay

\* A step that only moves the session to a status other than ready.
LEMMA StatusFollows ==
    ASSUME NEW c \in ControlState, Sound(c), NEW x \in SessionStatus \ {"ready"}
    PROVE  Follows(c, [c EXCEPT !.session.status = x])
<1> DEFINE d == [c EXCEPT !.session.status = x]
<1>1. /\ d \in ControlState /\ d.briefs = c.briefs /\ d.archs = c.archs /\ d.graphs = c.graphs
      /\ d.issues = c.issues /\ d.session.brief = c.session.brief /\ d.session.arch = c.session.arch
      /\ d.session.graph = c.session.graph /\ d.session.status # "ready"
  BY DEF ControlState, SessionState
<1> HIDE DEF d
<1>2. Sound(d)
  BY <1>1 DEF Sound, References, NewestLives, ApprovedTracked, Tracked
<1>3. Stands(c, d) /\ IssuesStay(c, d)
  BY <1>1 DEF Stands, IssuesStay, Tracked
<1> QED BY <1>1, <1>2, <1>3 DEF Follows, d

LEMMA BriefedFollows == ASSUME NEW c \in ControlState, Sound(c) PROVE Follows(c, Briefed(c))
<1> DEFINE d == Briefed(c)
           q == Append(c.briefs, "draft")
<1>1. c.briefs \in Seq(Approval) /\ "draft" \in Approval
  BY DEF ControlState, Approval
<1>2. /\ q \in Seq(Approval) /\ Len(q) = Len(c.briefs) + 1 /\ DOMAIN c.briefs \subseteq DOMAIN q
      /\ \A n \in DOMAIN c.briefs : q[n] = c.briefs[n]
      /\ Len(c.briefs) \in Nat
  BY <1>1, Appended
<1>3. d = [c EXCEPT !.session.status = "brief-review", !.session.brief = Len(c.briefs) + 1,
                    !.briefs = q]
  BY DEF Briefed
<1> HIDE DEF q, d
<1> DEFINE n == Len(c.briefs) + 1
           s == [c.session EXCEPT !.status = "brief-review", !.brief = n]
<1>s. /\ s \in SessionState /\ s.brief = n /\ s.arch = c.session.arch
      /\ s.graph = c.session.graph /\ s.status = "brief-review"
  <2>1. n \in Nat /\ c.session \in SessionState /\ "brief-review" \in SessionStatus
    BY <1>2 DEF ControlState, SessionStatus
  <2> HIDE DEF n
  <2> QED BY <2>1 DEF SessionState
<1>d. d = [c EXCEPT !.session = s, !.briefs = q]
  BY <1>3 DEF ControlState
<1> HIDE DEF s
<1>4. /\ d \in ControlState /\ d.briefs = q /\ d.archs = c.archs /\ d.graphs = c.graphs
      /\ d.issues = c.issues /\ d.session.brief = Len(c.briefs) + 1
      /\ d.session.arch = c.session.arch
      /\ d.session.graph = c.session.graph /\ d.session.status = "brief-review"
  BY <1>2, <1>s, <1>d DEF ControlState
<1>5. References(d)
  BY <1>2, <1>4 DEF Sound, References
<1>6. NewestLives(d) /\ ApprovedTracked(d)
  BY <1>4 DEF Sound, NewestLives, ApprovedTracked, Tracked
<1>7. Stands(c, d) /\ IssuesStay(c, d)
  BY <1>2, <1>4 DEF Stands, IssuesStay, Tracked
<1> QED BY <1>4, <1>5, <1>6, <1>7 DEF Follows, Sound, d

LEMMA ArchitectedFollows ==
    ASSUME NEW c \in ControlState, Sound(c), c.session.brief # 0
    PROVE  Follows(c, Architected(c))
<1> DEFINE d == Architected(c)
           x == [brief |-> c.session.brief, approval |-> "draft"]
           q == Append(c.archs, x)
<1>1. c.archs \in Seq(ArchState) /\ x \in ArchState /\ x.brief = c.session.brief
      /\ c.session.brief \in 1 .. Len(c.briefs) /\ c.briefs \in Seq(Approval)
  BY DEF ControlState, Approval, ArchState, SessionState, Sound, References
<1> HIDE DEF x
<1>2. /\ q \in Seq(ArchState) /\ Len(q) = Len(c.archs) + 1 /\ DOMAIN c.archs \subseteq DOMAIN q
      /\ \A n \in DOMAIN c.archs : q[n] = c.archs[n]
      /\ \A n \in DOMAIN q : n \in DOMAIN c.archs \/ n = Len(c.archs) + 1
      /\ q[Len(c.archs) + 1] = x
      /\ Len(c.archs) \in Nat
  BY <1>1, Appended
<1>3. d = [c EXCEPT !.session.status = "architecture-review", !.session.arch = Len(c.archs) + 1,
                    !.archs = q]
  BY DEF Architected, x
<1> HIDE DEF q, d
<1> DEFINE n == Len(c.archs) + 1
           s == [c.session EXCEPT !.status = "architecture-review", !.arch = n]
<1>s. /\ s \in SessionState /\ s.brief = c.session.brief /\ s.arch = n
      /\ s.graph = c.session.graph /\ s.status = "architecture-review"
  <2>1. n \in Nat /\ c.session \in SessionState /\ "architecture-review" \in SessionStatus
    BY <1>2 DEF ControlState, SessionStatus
  <2> HIDE DEF n
  <2> QED BY <2>1 DEF SessionState
<1>d. d = [c EXCEPT !.session = s, !.archs = q]
  BY <1>3 DEF ControlState
<1> HIDE DEF s
<1>4. /\ d \in ControlState /\ d.briefs = c.briefs /\ d.archs = q /\ d.graphs = c.graphs
      /\ d.issues = c.issues /\ d.session.brief = c.session.brief
      /\ d.session.arch = Len(c.archs) + 1
      /\ d.session.graph = c.session.graph /\ d.session.status = "architecture-review"
  BY <1>2, <1>s, <1>d DEF ControlState
<1>5. References(d)
  <2>1. \A a \in DOMAIN q : q[a].brief \in 1 .. Len(c.briefs)
    BY <1>1, <1>2 DEF Sound, References
  <2>2. \A g \in DOMAIN c.graphs : c.graphs[g].arch \in 1 .. Len(q)
    BY <1>2 DEF Sound, References
  <2> QED BY <1>2, <1>4, <2>1, <2>2 DEF Sound, References
<1>6. NewestLives(d) /\ ApprovedTracked(d)
  BY <1>4 DEF Sound, NewestLives, ApprovedTracked, Tracked
<1>7. Stands(c, d) /\ IssuesStay(c, d)
  BY <1>2, <1>4 DEF Stands, IssuesStay, Tracked
<1> QED BY <1>4, <1>5, <1>6, <1>7 DEF Follows, Sound, d

LEMMA AppliedFollows ==
    ASSUME NEW c \in ControlState, Sound(c),
           NEW kind \in {"question", "brief", "architecture", "error"}
    PROVE  Follows(c, Applied(c, kind))
<1>1. Follows(c, Asked(c))
  BY StatusFollows DEF Asked, SessionStatus
<1>2. Follows(c, Briefed(c))
  BY BriefedFollows
<1>3. c.session.brief # 0 => Follows(c, Architected(c))
  BY ArchitectedFollows
<1>4. Follows(c, c)
  BY FollowsItself
<1> QED BY <1>1, <1>2, <1>3, <1>4 DEF Applied

\* A command that answers a draft of the brief or of the architecture.
LEMMA ApproveBriefFollows ==
    ASSUME NEW c \in ControlState, Sound(c), c.session.brief # 0,
           NEW x \in SessionStatus \ {"ready"}
    PROVE  Follows(c, [c EXCEPT !.briefs[c.session.brief] = "approved", !.session.status = x])
<1> DEFINE q == [c.briefs EXCEPT ![c.session.brief] = "approved"]
           d == [c EXCEPT !.briefs = q, !.session.status = x]
<1>1. c.briefs \in Seq(Approval) /\ c.session.brief \in DOMAIN c.briefs /\ "approved" \in Approval
  BY DEF ControlState, SessionState, Sound, References, Approval
<1>2. /\ q \in Seq(Approval) /\ Len(q) = Len(c.briefs) /\ DOMAIN q = DOMAIN c.briefs
      /\ \A n \in DOMAIN c.briefs : c.briefs[n] = "approved" => q[n] = "approved"
  BY <1>1, Replaced
<1>3. [c EXCEPT !.briefs[c.session.brief] = "approved", !.session.status = x] = d
  BY DEF ControlState
<1> HIDE DEF q
<1>4. /\ d \in ControlState /\ d.briefs = q /\ d.archs = c.archs /\ d.graphs = c.graphs
      /\ d.issues = c.issues /\ d.session.brief = c.session.brief
      /\ d.session.arch = c.session.arch
      /\ d.session.graph = c.session.graph /\ d.session.status # "ready"
  BY <1>2 DEF ControlState, SessionState
<1> HIDE DEF d
<1>5. References(d)
  BY <1>2, <1>4 DEF Sound, References
<1>6. NewestLives(d) /\ ApprovedTracked(d)
  BY <1>4 DEF Sound, NewestLives, ApprovedTracked, Tracked
<1>7. Stands(c, d) /\ IssuesStay(c, d)
  BY <1>2, <1>4 DEF Stands, IssuesStay, Tracked
<1> QED BY <1>3, <1>4, <1>5, <1>6, <1>7 DEF Follows, Sound

LEMMA ApproveArchitectureFollows ==
    ASSUME NEW c \in ControlState, Sound(c), c.session.arch # 0,
           NEW x \in SessionStatus \ {"ready"}
    PROVE  Follows(c, [c EXCEPT !.archs[c.session.arch].approval = "approved", !.session.status = x])
<1> DEFINE a == c.session.arch
           y == [c.archs[a] EXCEPT !.approval = "approved"]
           q == [c.archs EXCEPT ![a] = y]
           d == [c EXCEPT !.archs = q, !.session.status = x]
<1>1. c.archs \in Seq(ArchState) /\ a \in DOMAIN c.archs /\ c.archs[a] \in ArchState
  BY DEF ControlState, SessionState, Sound, References
<1>2. y \in ArchState /\ y.brief = c.archs[a].brief /\ y.approval = "approved"
  BY <1>1 DEF ArchState, Approval
<1>3. [c EXCEPT !.archs[c.session.arch].approval = "approved", !.session.status = x] = d
  BY <1>1 DEF ControlState
<1> HIDE DEF y
<1>4. /\ q \in Seq(ArchState) /\ Len(q) = Len(c.archs) /\ DOMAIN q = DOMAIN c.archs
      /\ q[a] = y /\ \A n \in DOMAIN c.archs : n # a => q[n] = c.archs[n]
  BY <1>1, <1>2, Replaced
<1> HIDE DEF q, a
<1>5. /\ d \in ControlState /\ d.briefs = c.briefs /\ d.archs = q /\ d.graphs = c.graphs
      /\ d.issues = c.issues /\ d.session.brief = c.session.brief
      /\ d.session.arch = c.session.arch
      /\ d.session.graph = c.session.graph /\ d.session.status # "ready"
  BY <1>4 DEF ControlState, SessionState
<1> HIDE DEF d
<1>6. \A n \in DOMAIN c.archs :
        /\ q[n].brief = c.archs[n].brief
        /\ c.archs[n].approval = "approved" => q[n].approval = "approved"
  BY <1>2, <1>4
<1>7. References(d)
  BY <1>4, <1>5, <1>6 DEF Sound, References
<1>8. NewestLives(d) /\ ApprovedTracked(d)
  BY <1>5 DEF Sound, NewestLives, ApprovedTracked, Tracked
<1>9. Stands(c, d) /\ IssuesStay(c, d)
  BY <1>4, <1>5, <1>6 DEF Stands, IssuesStay, Tracked
<1> QED BY <1>3, <1>5, <1>7, <1>8, <1>9 DEF Follows, Sound

\* A new newest graph in review, its predecessor superseded if there was one.
LEMMA GraphFollows ==
    ASSUME NEW c \in ControlState, Sound(c),
           NEW before \in Seq(GraphState), Len(before) = Len(c.graphs),
           \A g \in DOMAIN before : /\ before[g].approval = "superseded"
                                    /\ before[g].arch = c.graphs[g].arch,
           NEW a \in 1 .. Len(c.archs)
    PROVE  Follows(c, [c EXCEPT !.session.status = "plan-review",
                                !.session.graph = Len(c.graphs) + 1,
                                !.graphs = Append(before, [arch |-> a, approval |-> "draft"]),
                                !.issues = Append(c.issues, NewIssues)])
<1> DEFINE x == [arch |-> a, approval |-> "draft"]
           q == Append(before, x)
           i == Append(c.issues, NewIssues)
           n == Len(c.graphs) + 1
           d == [c EXCEPT !.session.status = "plan-review", !.session.graph = n,
                          !.graphs = q, !.issues = i]
<1>1. x \in GraphState /\ x.arch = a /\ x.approval = "draft" /\ NewIssues \in IssueState
      /\ c.issues \in Seq(IssueState) /\ c.archs \in Seq(ArchState) /\ c.graphs \in Seq(GraphState)
  BY DEF GraphState, Approval, NewIssues, IssueState, ControlState
<1> HIDE DEF x
<1>2. /\ q \in Seq(GraphState) /\ Len(q) = n /\ DOMAIN before \subseteq DOMAIN q
      /\ \A m \in DOMAIN before : q[m] = before[m]
      /\ \A m \in DOMAIN q : m \in DOMAIN before \/ m = n
      /\ q[n] = x /\ n \in DOMAIN q /\ n \in Nat /\ n # 0 /\ n \notin DOMAIN before
      /\ DOMAIN before = DOMAIN c.graphs
  BY <1>1, Appended
<1>3. /\ i \in Seq(IssueState) /\ Len(i) = n /\ DOMAIN c.issues \subseteq DOMAIN i
      /\ \A m \in DOMAIN c.issues : i[m] = c.issues[m]
  <2>1. Len(c.issues) = Len(c.graphs)
    BY DEF Sound, NewestLives
  <2> QED BY <1>1, <2>1, Appended
<1> HIDE DEF q, i, n
<1>4. /\ d \in ControlState /\ d.briefs = c.briefs /\ d.archs = c.archs /\ d.graphs = q
      /\ d.issues = i /\ d.session.brief = c.session.brief
      /\ d.session.arch = c.session.arch
      /\ d.session.graph = n /\ d.session.status = "plan-review"
  BY <1>2, <1>3 DEF ControlState, SessionState, SessionStatus
<1> HIDE DEF d
<1>5. \A m \in DOMAIN q : m # n => q[m].approval = "superseded"
  BY <1>2
<1>6. \A m \in DOMAIN q : q[m].arch \in 1 .. Len(c.archs)
  BY <1>1, <1>2 DEF Sound, References
<1>7. References(d)
  BY <1>4, <1>6 DEF Sound, References
<1>8. NewestLives(d)
  BY <1>2, <1>3, <1>4, <1>5 DEF NewestLives
<1>9. ApprovedTracked(d)
  BY <1>1, <1>2, <1>4, <1>5 DEF ApprovedTracked
<1>10. Stands(c, d)
  BY <1>2, <1>4 DEF Stands
<1>11. IssuesStay(c, d)
  BY <1>3, <1>4 DEF IssuesStay, Tracked
<1> QED BY <1>4, <1>7, <1>8, <1>9, <1>10, <1>11 DEF Follows, Sound, d, q, i, n, x

LEMMA ApproveGraphFollows ==
    ASSUME NEW c \in ControlState, Sound(c), c.session.graph # 0,
           c.graphs[c.session.graph].approval = "draft"
    PROVE  Follows(c, [c EXCEPT
             !.graphs[c.session.graph].approval = "approved",
             !.issues[c.session.graph] = [k \in PlanTask |-> IssueApproved(@[k])],
             !.session.status = "ready"])
<1> DEFINE g == c.session.graph
           y == [c.graphs[g] EXCEPT !.approval = "approved"]
           q == [c.graphs EXCEPT ![g] = y]
           w == [k \in PlanTask |-> IssueApproved(c.issues[g][k])]
           i == [c.issues EXCEPT ![g] = w]
           d == [c EXCEPT !.graphs = q, !.issues = i, !.session.status = "ready"]
<1>1. /\ c.graphs \in Seq(GraphState) /\ g \in DOMAIN c.graphs /\ c.graphs[g] \in GraphState
      /\ c.issues \in Seq(IssueState) /\ g \in DOMAIN c.issues /\ c.issues[g] \in IssueState
      /\ g = Len(c.graphs)
  BY DEF ControlState, SessionState, Sound, NewestLives
<1>2. y \in GraphState /\ y.arch = c.graphs[g].arch /\ y.approval = "approved"
  BY <1>1 DEF GraphState, Approval
<1>3. w \in IssueState /\ \A k \in PlanTask : w[k] \in {"approved", "queued"}
  BY <1>1 DEF IssueState, IssueApproved, ApprovableIssue
<1>4. [c EXCEPT !.graphs[c.session.graph].approval = "approved",
                !.issues[c.session.graph] = [k \in PlanTask |-> IssueApproved(@[k])],
                !.session.status = "ready"] = d
  BY <1>1 DEF ControlState
<1> HIDE DEF y, w
<1>5. /\ q \in Seq(GraphState) /\ Len(q) = Len(c.graphs) /\ DOMAIN q = DOMAIN c.graphs
      /\ q[g] = y /\ \A n \in DOMAIN c.graphs : n # g => q[n] = c.graphs[n]
  BY <1>1, <1>2, Replaced
<1>6. /\ i \in Seq(IssueState) /\ Len(i) = Len(c.issues) /\ DOMAIN i = DOMAIN c.issues
      /\ i[g] = w /\ \A n \in DOMAIN c.issues : n # g => i[n] = c.issues[n]
  BY <1>1, <1>3, Replaced
<1> HIDE DEF q, i
<1>7. /\ d \in ControlState /\ d.briefs = c.briefs /\ d.archs = c.archs /\ d.graphs = q
      /\ d.issues = i /\ d.session.brief = c.session.brief
      /\ d.session.arch = c.session.arch
      /\ d.session.graph = g /\ d.session.status = "ready"
  BY <1>5, <1>6 DEF ControlState, SessionState, SessionStatus
<1> HIDE DEF d
<1>8. References(d)
  BY <1>2, <1>5, <1>7 DEF Sound, References
<1>9. NewestLives(d)
  BY <1>1, <1>2, <1>5, <1>6, <1>7 DEF Sound, NewestLives
<1>10. ApprovedTracked(d)
  <2>1. Tracked(d, g)
    BY <1>3, <1>6, <1>7 DEF Tracked
  <2>2. ASSUME NEW n \in DOMAIN c.graphs, n # g, c.graphs[n].approval = "approved"
        PROVE  Tracked(d, n)
    <3>1. n \in DOMAIN c.issues /\ Tracked(c, n)
      BY <1>1, <2>2 DEF Sound, NewestLives, ApprovedTracked
    <3> QED BY <1>6, <1>7, <2>2, <3>1 DEF Tracked
  <2> QED BY <1>5, <1>7, <2>1, <2>2 DEF ApprovedTracked
<1>11. Stands(c, d)
  BY <1>2, <1>5, <1>7 DEF Stands
<1>12. IssuesStay(c, d)
  BY <1>3, <1>6, <1>7 DEF IssuesStay, Tracked
<1> QED BY <1>4, <1>7, <1>8, <1>9, <1>10, <1>11, <1>12 DEF Follows, Sound

LEMMA QueueIssueFollows ==
    ASSUME NEW c \in ControlState, Sound(c), NEW g \in DOMAIN c.issues, NEW k \in PlanTask,
           c.issues[g][k] = "approved"
    PROVE  Follows(c, [c EXCEPT !.issues[g][k] = "queued"])
<1> DEFINE w == [c.issues[g] EXCEPT ![k] = "queued"]
           i == [c.issues EXCEPT ![g] = w]
           d == [c EXCEPT !.issues = i]
<1>1. c.issues \in Seq(IssueState) /\ c.issues[g] \in IssueState
      /\ Len(c.issues) = Len(c.graphs) /\ c.graphs \in Seq(GraphState)
  BY DEF ControlState, Sound, NewestLives
<1>2. w \in IssueState /\ \A p \in PlanTask : w[p] = "queued" \/ w[p] = c.issues[g][p]
  BY <1>1 DEF IssueState
<1>3. [c EXCEPT !.issues[g][k] = "queued"] = d
  BY <1>1 DEF ControlState
<1> HIDE DEF w
<1>4. /\ i \in Seq(IssueState) /\ Len(i) = Len(c.issues) /\ DOMAIN i = DOMAIN c.issues
      /\ i[g] = w /\ \A n \in DOMAIN c.issues : n # g => i[n] = c.issues[n]
  BY <1>1, <1>2, Replaced
<1> HIDE DEF i
<1>5. /\ d \in ControlState /\ d.briefs = c.briefs /\ d.archs = c.archs /\ d.graphs = c.graphs
      /\ d.issues = i /\ d.session = c.session
  BY <1>4 DEF ControlState
<1> HIDE DEF d
<1>6. \A n \in DOMAIN c.issues : Tracked(c, n) => Tracked(d, n)
  BY <1>2, <1>4, <1>5 DEF Tracked
<1>7. References(d)
  BY <1>5 DEF Sound, References
<1>8. NewestLives(d)
  BY <1>4, <1>5 DEF Sound, NewestLives
<1>9. ApprovedTracked(d)
  BY <1>1, <1>5, <1>6 DEF Sound, ApprovedTracked
<1>10. Stands(c, d) /\ IssuesStay(c, d)
  BY <1>4, <1>5, <1>6 DEF Stands, IssuesStay
<1> QED BY <1>3, <1>5, <1>7, <1>8, <1>9, <1>10 DEF Follows, Sound

LEMMA LinkFollows ==
    ASSUME NEW c \in ControlState, Sound(c), NEW o \in Orch, c.session.graph # 0,
           c.graphs[c.session.graph].approval = "approved"
    PROVE  Follows(c, [c EXCEPT !.session.status = "ready", !.session.orch = o])
<1> DEFINE d == [c EXCEPT !.session.status = "ready", !.session.orch = o]
<1>1. /\ d \in ControlState /\ d.briefs = c.briefs /\ d.archs = c.archs /\ d.graphs = c.graphs
      /\ d.issues = c.issues /\ d.session.brief = c.session.brief /\ d.session.arch = c.session.arch
      /\ d.session.graph = c.session.graph
  BY DEF ControlState, SessionState, SessionStatus
<1> HIDE DEF d
<1>2. Sound(d)
  BY <1>1 DEF Sound, References, NewestLives, ApprovedTracked, Tracked
<1>3. Stands(c, d) /\ IssuesStay(c, d)
  BY <1>1 DEF Stands, IssuesStay, Tracked
<1> QED BY <1>1, <1>2, <1>3 DEF Follows, d

-----------------------------------------------------------------------------
(* The steps of the composition.                                           *)

\* A worker run that was queued keeps a graph whose tasks are tracked.
RunsTracked ==
  \A o \in Orch : runGraph[o] # 0 => runGraph[o] \in DOMAIN control.issues /\ Tracked(control, runGraph[o])

ControlInv ==
  /\ control \in ControlState /\ Sound(control)
  /\ turnsLeft \in 0 .. MaxTurns
  /\ runGraph \in [Orch -> Nat] /\ RunsTracked

PlanInv == OrchInv /\ ControlInv

\* Each step of the planning alone leads to a snapshot that follows the old one.
LEMMA ControlFollows ==
    ASSUME ControlInv, ControlNext
    PROVE  Follows(control, control') /\ turnsLeft' \in 0 .. MaxTurns /\ runGraph' = runGraph
<1>0. control \in ControlState /\ Sound(control) /\ turnsLeft \in 0 .. MaxTurns /\ MaxTurns \in Nat
      /\ Follows(control, control)
  BY FollowsItself, PlanAssumption DEF ControlInv
<1>1. ASSUME NEW t \in Turn, StartTurn(t)
      PROVE  Follows(control, control') /\ turnsLeft' \in 0 .. MaxTurns /\ runGraph' = runGraph
  <2>1. control' = control /\ runGraph' = runGraph /\ turnsLeft' = turnsLeft - 1 /\ turnsLeft > 0
    BY <1>1 DEF StartTurn
  <2>2. turnsLeft' \in 0 .. MaxTurns
    BY <1>0, <2>1
  <2> QED BY <1>0, <2>1, <2>2
<1>2. ASSUME NEW t \in Turn, NEW k \in {"question", "brief", "architecture", "error"},
             CompleteTurn(t, k)
      PROVE  Follows(control, control') /\ turnsLeft' \in 0 .. MaxTurns /\ runGraph' = runGraph
  <2>1. control' = control \/ control' = Applied(control, k)
    BY <1>2 DEF CompleteTurn, Latest
  <2>2. Follows(control, Applied(control, k))
    BY <1>0, AppliedFollows
  <2>3. turnsLeft' = turnsLeft /\ runGraph' = runGraph
    BY <1>2 DEF CompleteTurn
  <2> QED BY <1>0, <2>1, <2>2, <2>3
<1>3. ASSUME ApproveBrief
      PROVE  Follows(control, control') /\ turnsLeft' = turnsLeft /\ runGraph' = runGraph
  <2>1. /\ control.session.brief # 0
        /\ control' = [control EXCEPT !.briefs[control.session.brief] = "approved",
                                      !.session.status = "architecture-review"]
        /\ turnsLeft' = turnsLeft /\ runGraph' = runGraph
    BY <1>3 DEF ApproveBrief
  <2>2. "architecture-review" \in SessionStatus \ {"ready"}
    BY DEF SessionStatus
  <2> QED BY <1>0, <2>1, <2>2, ApproveBriefFollows
<1>4. ASSUME ApproveArchitecture
      PROVE  Follows(control, control') /\ turnsLeft' = turnsLeft /\ runGraph' = runGraph
  <2>1. /\ control.session.arch # 0
        /\ control' = [control EXCEPT !.archs[control.session.arch].approval = "approved",
                                      !.session.status = "plan-review"]
        /\ turnsLeft' = turnsLeft /\ runGraph' = runGraph
    BY <1>4 DEF ApproveArchitecture
  <2>2. "plan-review" \in SessionStatus \ {"ready"}
    BY DEF SessionStatus
  <2> QED BY <1>0, <2>1, <2>2, ApproveArchitectureFollows
<1>5. ASSUME GenerateTaskGraph
      PROVE  Follows(control, control') /\ turnsLeft' = turnsLeft /\ runGraph' = runGraph
  <2>1. /\ control.session.arch # 0 /\ control.session.graph = 0
        /\ control' = [control EXCEPT
             !.session.status = "plan-review",
             !.session.graph = Len(control.graphs) + 1,
             !.graphs = Append(control.graphs, [arch |-> control.session.arch, approval |-> "draft"]),
             !.issues = Append(control.issues, NewIssues)]
        /\ turnsLeft' = turnsLeft /\ runGraph' = runGraph
    BY <1>0, <1>5 DEF GenerateTaskGraph, ControlState
  <2>2. control.session.arch \in 1 .. Len(control.archs) /\ control.graphs \in Seq(GraphState)
        /\ Len(control.graphs) = 0
    BY <1>0, <2>1 DEF ControlState, SessionState, Sound, References, NewestLives
  <2>3. \A g \in DOMAIN control.graphs : /\ control.graphs[g].approval = "superseded"
                                         /\ control.graphs[g].arch = control.graphs[g].arch
    BY <2>2
  <2> QED BY <1>0, <2>1, <2>2, <2>3, GraphFollows
<1>6. ASSUME NEW g \in 1 .. MaxGraphs, ReviseTaskGraph(g)
      PROVE  Follows(control, control') /\ turnsLeft' = turnsLeft /\ runGraph' = runGraph
  <2> DEFINE y == [control.graphs[g] EXCEPT !.approval = "superseded"]
             before == [control.graphs EXCEPT ![g] = y]
  <2>1. control.graphs \in Seq(GraphState) /\ g \in DOMAIN control.graphs
        /\ control.graphs[g] \in GraphState /\ control.graphs[g].approval # "superseded"
    BY <1>0, <1>6 DEF ReviseTaskGraph, ControlState
  <2>3. /\ control' = [control EXCEPT
             !.session.status = "plan-review",
             !.session.graph = Len(control.graphs) + 1,
             !.graphs = Append(before, [arch |-> control.graphs[g].arch, approval |-> "draft"]),
             !.issues = Append(control.issues, NewIssues)]
        /\ turnsLeft' = turnsLeft /\ runGraph' = runGraph
    <3>1. WithSuperseded(control.graphs, g) = before
      BY <2>1 DEF WithSuperseded, Superseded
    <3>2. /\ control' = [control EXCEPT
               !.session.status = "plan-review",
               !.session.graph = Len(control.graphs) + 1,
               !.graphs = Append(WithSuperseded(control.graphs, g),
                                 [arch |-> control.graphs[g].arch, approval |-> "draft"]),
               !.issues = Append(control.issues, NewIssues)]
          /\ turnsLeft' = turnsLeft /\ runGraph' = runGraph
      BY <1>6 DEF ReviseTaskGraph, Reviewed
    <3> HIDE DEF before
    <3> QED BY <3>1, <3>2
  <2>4. y \in GraphState /\ y.approval = "superseded" /\ y.arch = control.graphs[g].arch
    BY <2>1 DEF GraphState, Approval
  <2> HIDE DEF y
  <2>5. /\ before \in Seq(GraphState) /\ Len(before) = Len(control.graphs)
        /\ DOMAIN before = DOMAIN control.graphs /\ before[g] = y
        /\ \A m \in DOMAIN control.graphs : m # g => before[m] = control.graphs[m]
    BY <2>1, <2>4, Replaced
  <2> HIDE DEF before
  <2>6. g = Len(control.graphs) /\ control.graphs[g].arch \in 1 .. Len(control.archs)
        /\ \A m \in DOMAIN control.graphs : m # g => control.graphs[m].approval = "superseded"
    BY <1>0, <2>1 DEF Sound, NewestLives, References
  <2>7. \A m \in DOMAIN before : /\ before[m].approval = "superseded"
                                 /\ before[m].arch = control.graphs[m].arch
    BY <2>4, <2>5, <2>6
  <2> QED BY <1>0, <2>3, <2>5, <2>6, <2>7, GraphFollows
<1>7. ASSUME ApproveTaskGraph
      PROVE  Follows(control, control') /\ turnsLeft' = turnsLeft /\ runGraph' = runGraph
  BY <1>0, <1>7, ApproveGraphFollows DEF ApproveTaskGraph
<1>8. ASSUME NEW g \in 1 .. MaxGraphs, NEW k \in PlanTask, QueueIssue(g, k)
      PROVE  Follows(control, control') /\ turnsLeft' = turnsLeft /\ runGraph' = runGraph
  BY <1>0, <1>8, QueueIssueFollows DEF QueueIssue
<1> QED BY <1>0, <1>1, <1>2, <1>3, <1>4, <1>5, <1>6, <1>7, <1>8 DEF ControlNext

\* A snapshot that follows the old one keeps what is known of the planning.
LEMMA FollowsKeeps ==
    ASSUME ControlInv, Follows(control, control'), turnsLeft' \in 0 .. MaxTurns, runGraph' = runGraph
    PROVE  ControlInv'
<1>1. RunsTracked'
  BY DEF ControlInv, RunsTracked, Follows, IssuesStay
<1> QED BY <1>1 DEF ControlInv, Follows

LEMMA CreateExecutionDraftFollows ==
    ASSUME ControlInv, NEW o \in Orch, CreateExecutionDraft(o)
    PROVE  Follows(control, control') /\ turnsLeft' = turnsLeft /\ runGraph' = runGraph
BY LinkFollows DEF CreateExecutionDraft, ControlInv

LEMMA CreateExecutionDraftKeeps ==
    ASSUME OrchInv, NEW o \in Orch, CreateExecutionDraft(o)
    PROVE  OrchInv'
<1>1. PICK fix \in [Stage -> {f \in OrchFlow : flowIs[f] = "absent"}] :
        /\ orchs' = [orchs EXCEPT ![o] = Draft(FALSE, fix)]
        /\ flowIs' = [f \in OrchFlow |-> IF \E i \in Stage : fix[i] = f THEN "filled" ELSE flowIs[f]]
  BY DEF CreateExecutionDraft
<1> DEFINE r == Draft(FALSE, fix)
<1>2. r \in OrchRecord /\ r.status = "awaiting-confirm"
  BY DEF Draft, OrchRecord, OrchStatus, LogStatus
<1>3. orchs[o] = NoRecord
      /\ UNCHANGED <<runner, worker, returned, panelBusy, cancelling, orchFaults>>
  BY DEF CreateExecutionDraft
<1> HIDE DEF r
<1>4. orchs' = [orchs EXCEPT ![o] = r]
  BY <1>1 DEF r
<1>5. flowIs' \in [OrchFlow -> {"absent", "empty", "filled", "removed"}]
  BY <1>1 DEF OrchInv, OrchTypeOK
<1>6. OrchTypeOK'
  BY <1>2, <1>3, <1>4, <1>5 DEF OrchInv, OrchTypeOK
<1>7. ASSUME NEW p \in Orch PROVE RunnerFacts(p)' /\ DoneFacts(p)'
  <2>1. CASE p = o
    <3>1. orchs'[p] = r
      BY <1>4, <2>1 DEF OrchInv, OrchTypeOK
    <3>2. runner[p] = 0
      BY <1>3, <2>1, RecordTyped DEF OrchInv, RunnerFacts, Is, Live
    <3> QED BY <1>2, <1>3, <3>1, <3>2 DEF RunnerFacts, DoneFacts, Is
  <2>2. CASE p # o
    BY <1>3, <1>4, <2>2, Untouched DEF OrchInv, OrchTypeOK
  <2> QED BY <2>1, <2>2
<1> QED BY <1>6, <1>7 DEF OrchInv

LEMMA ConfirmExecutionPlanKeeps == ASSUME PlanInv, ConfirmExecutionPlan PROVE PlanInv'
<1> DEFINE o == control.session.orch
           g == control.session.graph
<1>1. o \in Orch /\ g \in Nat /\ g \in DOMAIN control.graphs /\ g \in DOMAIN control.issues
      /\ control.graphs[g].approval = "approved"
  BY DEF ConfirmExecutionPlan, PlanInv, ControlInv, ControlState, SessionState, Sound, NewestLives
<1>2. ConfirmWorkerRun(o) /\ runGraph' = [runGraph EXCEPT ![o] = g]
      /\ UNCHANGED <<control, turns, turnsLeft>>
  BY DEF ConfirmExecutionPlan
<1>3. OrchInv'
  BY <1>1, <1>2, ConfirmWorkerRunKeeps DEF PlanInv
<1>4. Tracked(control, g)
  BY <1>1 DEF PlanInv, ControlInv, Sound, ApprovedTracked
<1> HIDE DEF o, g
<1>5. \A p \in Orch : runGraph'[p] = g \/ runGraph'[p] = runGraph[p]
  BY <1>2 DEF PlanInv, ControlInv
<1>6. RunsTracked'
  BY <1>1, <1>2, <1>4, <1>5 DEF PlanInv, ControlInv, RunsTracked, Tracked
<1> QED BY <1>1, <1>2, <1>3, <1>6 DEF PlanInv, ControlInv

LEMMA PlanInvInit == OrchInit /\ PlanInit => PlanInv
<1> SUFFICES ASSUME OrchInit, PlanInit PROVE PlanInv
  OBVIOUS
<1>1. control \in ControlState
  BY DEF PlanInit, ControlState, SessionState, NewSession, SessionStatus
<1>2. Sound(control)
  BY DEF PlanInit, NewSession, Sound, References, NewestLives, ApprovedTracked
<1>3. turnsLeft \in 0 .. MaxTurns /\ runGraph \in [Orch -> Nat] /\ RunsTracked
  BY PlanAssumption DEF PlanInit, RunsTracked
<1> QED BY <1>1, <1>2, <1>3, OrchInvInit DEF PlanInv, ControlInv

LEMMA ControlSame ==
    ASSUME ControlInv, UNCHANGED planVars
    PROVE  ControlInv' /\ Follows(control, control')
<1>1. control' = control /\ turnsLeft' = turnsLeft /\ runGraph' = runGraph
  BY DEF planVars
<1>2. Follows(control, control')
  BY <1>1, FollowsItself DEF ControlInv
<1> QED BY <1>1, <1>2, FollowsKeeps DEF ControlInv

\* Every step keeps the invariant, and its snapshot follows the one before.
LEMMA PlanInvNext ==
    ASSUME PlanInv, [PlanNext]_<<planVars, orchVars>>
    PROVE  PlanInv' /\ Follows(control, control')
<1>0. OrchInv /\ ControlInv
  BY DEF PlanInv
<1>1. CASE ControlNext
  <2>1. UNCHANGED orchVars
    BY <1>1 DEF ControlNext
  <2>2. OrchInv'
    BY <1>0, <2>1, OrchInvNext
  <2> QED BY <1>0, <1>1, <2>2, ControlFollows, FollowsKeeps DEF PlanInv
<1>2. ASSUME NEW o \in Orch, CreateExecutionDraft(o) PROVE PlanInv' /\ Follows(control, control')
  <2>1. turnsLeft \in 0 .. MaxTurns
    BY <1>0 DEF ControlInv
  <2> QED BY <1>0, <1>2, <2>1, CreateExecutionDraftFollows, CreateExecutionDraftKeeps, FollowsKeeps
          DEF PlanInv
<1>3. CASE ConfirmExecutionPlan
  <2>1. control' = control
    BY <1>3 DEF ConfirmExecutionPlan
  <2> QED BY <1>0, <1>3, <2>1, ConfirmExecutionPlanKeeps, FollowsItself DEF ControlInv
<1>4. CASE (OrchUserNext \/ OrchSystemNext) /\ UNCHANGED planVars
  BY <1>0, <1>4, OrchUserKeeps, OrchSystemKeeps, ControlSame DEF PlanInv
<1>5. CASE UNCHANGED <<planVars, orchVars>>
  <2>1. UNCHANGED planVars /\ UNCHANGED orchVars
    BY <1>5
  <2> QED BY <1>0, <2>1, OrchInvNext, ControlSame DEF PlanInv
<1> QED BY <1>1, <1>2, <1>3, <1>4, <1>5 DEF PlanNext

LEMMA PlanInvGives == PlanInv => PlanTypeOK /\ OrchTypeOK /\ OneExecutor /\ DoneBacked
                                 /\ SessionHoldsLiveGraph /\ ApprovedTasksTracked
<1> SUFFICES ASSUME PlanInv
             PROVE  PlanTypeOK /\ OrchTypeOK /\ OneExecutor /\ DoneBacked
                    /\ SessionHoldsLiveGraph /\ ApprovedTasksTracked
  OBVIOUS
<1>1. OrchTypeOK /\ OneExecutor /\ DoneBacked
  BY OrchInvGives DEF PlanInv
<1>2. SessionHoldsLiveGraph
  BY DEF PlanInv, ControlInv, Sound, NewestLives, SessionHoldsLiveGraph
<1>3. ApprovedTasksTracked
  BY DEF PlanInv, ControlInv, Sound, ApprovedTracked, RunsTracked, Tracked, ApprovedTasksTracked
<1>4. PlanTypeOK
  <2> DEFINE c == control
  <2>1. c \in ControlState /\ References(c) /\ NewestLives(c)
    BY DEF PlanInv, ControlInv, Sound
  <2>2. c.session \in [status : SessionStatus, brief : 0 .. Len(c.briefs),
                       arch : 0 .. Len(c.archs), graph : 0 .. Len(c.graphs),
                       orch : Orch \cup {NoOrch}]
    BY <2>1 DEF ControlState, SessionState, References, NewestLives
  <2>3. c.archs \in Seq([brief : 1 .. Len(c.briefs), approval : Approval])
    <3> DEFINE T == [brief : 1 .. Len(c.briefs), approval : Approval]
    <3>1. c.archs \in Seq(ArchState) /\ \A n \in DOMAIN c.archs : c.archs[n].brief \in 1 .. Len(c.briefs)
      BY <2>1 DEF ControlState, References
    <3>2. ASSUME NEW n \in 1 .. Len(c.archs) PROVE c.archs[n] \in T
      <4> DEFINE x == c.archs[n]
      <4>1. x \in ArchState /\ x.brief \in 1 .. Len(c.briefs)
        BY <3>1
      <4> HIDE DEF x
      <4>2. x \in T
        BY <4>1 DEF ArchState
      <4> QED BY <4>2 DEF x
    <3> HIDE DEF T
    <3>3. c.archs \in Seq(T)
      BY <3>1, <3>2, Retyped
    <3> QED BY <3>3 DEF T
  <2>4. c.graphs \in Seq([arch : 1 .. Len(c.archs), approval : Approval \cup {"superseded"}])
    <3> DEFINE T == [arch : 1 .. Len(c.archs), approval : Approval \cup {"superseded"}]
    <3>1. c.graphs \in Seq(GraphState) /\ \A n \in DOMAIN c.graphs : c.graphs[n].arch \in 1 .. Len(c.archs)
      BY <2>1 DEF ControlState, References
    <3>2. ASSUME NEW n \in 1 .. Len(c.graphs) PROVE c.graphs[n] \in T
      <4> DEFINE x == c.graphs[n]
      <4>1. x \in GraphState /\ x.arch \in 1 .. Len(c.archs)
        BY <3>1
      <4> HIDE DEF x
      <4>2. x \in T
        BY <4>1 DEF GraphState
      <4> QED BY <4>2 DEF x
    <3> HIDE DEF T
    <3>3. c.graphs \in Seq(T)
      BY <3>1, <3>2, Retyped
    <3> QED BY <3>3 DEF T
  <2>5. c.briefs \in Seq(Approval) /\ c.issues \in Seq([PlanTask -> {"proposed", "approved", "queued"}])
    BY <2>1 DEF ControlState, IssueState
  <2> QED BY <2>2, <2>3, <2>4, <2>5 DEF PlanTypeOK, PlanInv, ControlInv
<1> QED BY <1>1, <1>2, <1>3, <1>4

\* In every reachable state of the planning the snapshot has its type, and every
\* version it refers to exists.
THEOREM PlanTyped == PlanSpec => [](PlanTypeOK /\ OrchTypeOK)
<1>1. PlanInv /\ [PlanNext]_<<planVars, orchVars>> => PlanInv'
  BY PlanInvNext
<1> QED BY <1>1, PlanInvInit, PlanInvGives, PTL DEF PlanSpec

\* A record a worker run was queued for is never also run by the older runner:
\* canStartLegacyOrchestration and the guard of confirmation exclude each other
\* through every audit, projection, removal and remount.
THEOREM OneExecutorHolds == PlanSpec => []OneExecutor
<1>1. PlanInv /\ [PlanNext]_<<planVars, orchVars>> => PlanInv'
  BY PlanInvNext
<1> QED BY <1>1, PlanInvInit, PlanInvGives, PTL DEF PlanSpec

\* No false success: a record the older runner reports as done had every stage's
\* workflow return success in the run that made it so.
THEOREM DoneIsBacked == PlanSpec => []DoneBacked
<1>1. PlanInv /\ [PlanNext]_<<planVars, orchVars>> => PlanInv'
  BY PlanInvNext
<1> QED BY <1>1, PlanInvInit, PlanInvGives, PTL DEF PlanSpec

\* Only the session's graph is not superseded, and a session is ready only while
\* the user's approval of that graph stands.
THEOREM LiveGraphHeld == PlanSpec => []SessionHoldsLiveGraph
<1>1. PlanInv /\ [PlanNext]_<<planVars, orchVars>> => PlanInv'
  BY PlanInvNext
<1> QED BY <1>1, PlanInvInit, PlanInvGives, PTL DEF PlanSpec

\* Every task of an approved graph, and of a graph a worker run was queued for,
\* is tracked by an issue that was approved with it.
THEOREM ApprovedTasksAreTracked == PlanSpec => []ApprovedTasksTracked
<1>1. PlanInv /\ [PlanNext]_<<planVars, orchVars>> => PlanInv'
  BY PlanInvNext
<1> QED BY <1>1, PlanInvInit, PlanInvGives, PTL DEF PlanSpec

\* What the user approved or revised survives every turn of the master agent,
\* whichever snapshot the turn read before it awaited the model.
THEOREM DecisionsKept == PlanSpec => DecisionsStand
<1>1. PlanInv /\ [PlanNext]_<<planVars, orchVars>> => PlanInv'
  BY PlanInvNext
<1>2. PlanInv /\ [PlanNext]_<<planVars, orchVars>> =>
        [/\ \A b \in DOMAIN control.briefs :
              b \in DOMAIN control'.briefs
                /\ (control.briefs[b] = "approved" => control'.briefs[b] = "approved")
         /\ \A a \in DOMAIN control.archs :
              a \in DOMAIN control'.archs
                /\ (control.archs[a].approval = "approved" => control'.archs[a].approval = "approved")
         /\ \A g \in DOMAIN control.graphs :
              g \in DOMAIN control'.graphs
                /\ (control.graphs[g].approval # "draft" => control'.graphs[g].approval # "draft")]_control
  BY PlanInvNext DEF Follows, Stands
<1> QED BY <1>1, <1>2, PlanInvInit, PTL DEF PlanSpec, DecisionsStand

-----------------------------------------------------------------------------
(* Cancelling stands.                                                      *)

\* What CancelStands asks of record o in a step.
Kept(o) ==
  Is(o, {"cancelled"}) /\ worker[o] = "none" =>
    \/ orchs'[o] = Removed
    \/ /\ orchs'[o].status = "cancelled"
       /\ \A s \in Stage : orchs'[o].log[s] = "success" => orchs[o].log[s] = "success"

LEMMA SameIsKept == ASSUME NEW o, orchs'[o] = orchs[o] PROVE Kept(o)
BY DEF Kept, Is

\* A step that writes one record that is not cancelled.
LEMMA OtherIsKept ==
    ASSUME OrchTypeOK, NEW p \in Orch, ~Is(p, {"cancelled"}), NEW r, orchs' = [orchs EXCEPT ![p] = r]
    PROVE  \A o \in Orch : Kept(o)
<1> SUFFICES ASSUME NEW o \in Orch PROVE Kept(o)
  OBVIOUS
<1>1. CASE o = p
  BY <1>1 DEF Kept
<1>2. CASE o # p
  BY <1>2, SameIsKept DEF OrchTypeOK
<1> QED BY <1>1, <1>2

\* The projection of runs of which none is the record's.
LEMMA ProjectionIsKept ==
    ASSUME OrchTypeOK, NEW taken \in [Orch -> WorkerStatus], orchs' = Projected(taken),
           NEW o \in Orch, worker[o] = "none" => taken[o] = "none"
    PROVE  Kept(o)
<1>1. Is(o, {"cancelled"}) /\ worker[o] = "none" =>
        /\ orchs'[o].status = orchs[o].status /\ orchs'[o].log = orchs[o].log
  BY ProjectedRecords DEF Is
<1> QED BY <1>1 DEF Kept, Is

LEMMA UserKeepsCancelled == ASSUME OrchInv, OrchUserNext PROVE \A o \in Orch : Kept(o)
<1>0. OrchTypeOK
  BY DEF OrchInv
<1>1. ASSUME NEW p \in Orch, NEW b \in BOOLEAN, Generate(p, b) PROVE \A o \in Orch : Kept(o)
  BY <1>0, <1>1, OtherIsKept DEF Generate, Is, Live
<1>2. ASSUME NEW p \in Orch, NEW s \in Stage, NEW f \in OrchFlow \cup {NoFlowId}, Bind(p, s, f)
      PROVE  \A o \in Orch : Kept(o)
  <2>1. ~Is(p, {"cancelled"})
    BY <1>2 DEF Bind, Is
  <2>2. \A o \in Orch : o # p => orchs'[o] = orchs[o]
    BY <1>0, <1>2 DEF Bind, OrchTypeOK
  <2> QED BY <2>1, <2>2, SameIsKept DEF Kept
<1>3. ASSUME NEW p \in Orch, Prepare(p) PROVE \A o \in Orch : Kept(o)
  <2>1. ~Is(p, {"cancelled"})
    BY <1>3 DEF Prepare, Is
  <2>2. \A o \in Orch : o # p => orchs'[o] = orchs[o]
    BY <1>0, <1>3 DEF Prepare, OrchTypeOK
  <2> QED BY <2>1, <2>2, SameIsKept DEF Kept
<1>4. ASSUME NEW p \in Orch, ConfirmDraft(p) PROVE \A o \in Orch : Kept(o)
  <2>1. ~Is(p, {"cancelled"})
    BY <1>4 DEF ConfirmDraft, Is
  <2>2. \A o \in Orch : o # p => orchs'[o] = orchs[o]
    BY <1>0, <1>4 DEF ConfirmDraft, OrchTypeOK
  <2> QED BY <2>1, <2>2, SameIsKept DEF Kept
<1>5. ASSUME NEW p \in Orch, RemoveRecord(p) PROVE \A o \in Orch : Kept(o)
  <2>1. orchs'[p] = Removed /\ \A o \in Orch : o # p => orchs'[o] = orchs[o]
    BY <1>0, <1>5 DEF RemoveRecord, OrchTypeOK
  <2> QED BY <2>1, SameIsKept DEF Kept
<1>6. ASSUME NEW p \in Orch, Run(p) PROVE \A o \in Orch : Kept(o)
  <2>1. ~Is(p, {"cancelled"})
    BY <1>6 DEF Run, Is
  <2>2. \A o \in Orch : o # p => orchs'[o] = orchs[o]
    BY <1>0, <1>6 DEF Run, OrchTypeOK
  <2> QED BY <2>1, <2>2, SameIsKept DEF Kept
<1>7. ASSUME NEW p \in Orch, Cancel(p) PROVE \A o \in Orch : Kept(o)
  <2>1. ~Is(p, {"cancelled"})
    BY <1>7 DEF Cancel, Is
  <2>2. \A o \in Orch : o # p => orchs'[o] = orchs[o]
    BY <1>0, <1>7 DEF Cancel, OrchTypeOK
  <2> QED BY <2>1, <2>2, SameIsKept DEF Kept
<1>8. ASSUME NEW b \in BOOLEAN, ReopenAndAudit(b), NEW o \in Orch PROVE Kept(o)
  <2>1. \/ orchs' = Projected(worker)
        \/ orchs' = Suppressed
        \/ orchs' = orchs
    <3> DEFINE taken == \E p \in Orch : worker[p] # "none"
               everRan == \E p \in Orch : Live(p) /\ orchs[p].ran
    <3>1. orchs' = CASE b /\ taken -> Projected(worker)
                     [] ~b \/ everRan -> Suppressed
                     [] OTHER -> orchs
      BY <1>8 DEF ReopenAndAudit
    <3> HIDE DEF taken, everRan
    <3>2. CASE b /\ taken
      BY <3>1, <3>2
    <3>3. CASE ~b
      BY <3>1, <3>3
    <3>4. CASE b /\ ~taken /\ everRan
      BY <3>1, <3>4
    <3>5. CASE b /\ ~taken /\ ~everRan
      BY <3>1, <3>5
    <3> QED BY <3>2, <3>3, <3>4, <3>5
  <2>2. CASE orchs' = Projected(worker)
    BY <1>0, <2>2, ProjectionIsKept DEF OrchTypeOK
  <2>3. CASE orchs' = Suppressed
    <3>1. Is(o, {"cancelled"}) =>
            /\ orchs'[o].status = "cancelled"
            /\ \A s \in Stage : orchs'[o].log[s] = "success" => orchs[o].log[s] = "success"
      BY <1>0, <2>3, SuppressedRecords DEF Is
    <3> QED BY <3>1 DEF Kept
  <2>4. CASE orchs' = orchs
    BY <2>4, SameIsKept
  <2> QED BY <2>1, <2>2, <2>3, <2>4
<1>9. ASSUME NEW f \in OrchFlow, EditFlow(f) PROVE \A o \in Orch : Kept(o)
  BY <1>9, SameIsKept DEF EditFlow
<1>10. ASSUME Remount PROVE \A o \in Orch : Kept(o)
  BY <1>10, SameIsKept DEF Remount
<1> QED BY <1>1, <1>2, <1>3, <1>4, <1>5, <1>6, <1>7, <1>8, <1>9, <1>10 DEF OrchUserNext

LEMMA SystemKeepsCancelled == ASSUME OrchInv, OrchSystemNext PROVE \A o \in Orch : Kept(o)
<1>0. OrchTypeOK
  BY DEF OrchInv
<1>1. ASSUME NEW p \in Orch, NEW r \in {"success", "error", "aborted"}, StageReturns(p, r)
      PROVE  \A o \in Orch : Kept(o)
  <2>1. CASE Overtaken(p)
    <3>1. orchs' = orchs
      BY <1>1, <2>1 DEF StageReturns
    <3> QED BY <3>1, SameIsKept
  <2>2. CASE ~Overtaken(p)
    <3>1. ~Is(p, {"cancelled"})
      BY <2>2 DEF Overtaken, Is
    <3>2. orchs' = [orchs EXCEPT ![p] = AfterStage(orchs[p], runner[p], r)]
      BY <1>1, <2>2 DEF StageReturns
    <3> QED BY <1>0, <3>1, <3>2, OtherIsKept
  <2> QED BY <2>1, <2>2
<1>2. ASSUME NEW p \in Orch, StageThrows(p), NEW o \in Orch PROVE Kept(o)
  <2>1. CASE ~Live(p) \/ o # p
    <3>1. orchs'[o] = orchs[o]
      BY <1>0, <1>2, <2>1 DEF StageThrows, OrchTypeOK
    <3> QED BY <3>1, SameIsKept
  <2>2. CASE Live(p) /\ o = p /\ orchs[p].status = "cancelled"
    <3> DEFINE s == runner[p]
               x == IF canTransition(orchs[p].status, "failed") THEN "failed" ELSE orchs[p].status
               r == [orchs[p] EXCEPT !.log[s] = "failed", !.status = x]
    <3>1. orchs[p] \in OrchRecord /\ s \in Stage
      BY <1>0, <1>2, <2>2, LiveTyped DEF StageThrows, OrchTypeOK
    <3>2. orchs'[p] = r
      BY <1>0, <1>2, <2>2 DEF StageThrows, OrchTypeOK
    <3>3. x = "cancelled"
      BY <2>2 DEF canTransition, ALLOWED_TRANSITIONS, OrchStatus
    <3> HIDE DEF x, s
    <3>4. r.status = x /\ \A q \in Stage : r.log[q] = "success" => orchs[p].log[q] = "success"
      BY <3>1 DEF OrchRecord
    <3> QED BY <2>2, <3>2, <3>3, <3>4 DEF Kept
  <2>3. CASE Live(p) /\ o = p /\ orchs[p].status # "cancelled"
    BY <2>3 DEF Kept, Is
  <2> QED BY <2>1, <2>2, <2>3
<1>3. ASSUME NEW p \in Orch, NEW to \in WorkerStatus, WorkerMoves(p, to), NEW o \in Orch PROVE Kept(o)
  <2> DEFINE taken == [worker EXCEPT ![p] = to]
  <2>1. orchs' = Projected(taken) /\ taken \in [Orch -> WorkerStatus] /\ worker[p] # "none"
    BY <1>0, <1>3 DEF WorkerMoves, OrchTypeOK
  <2>2. worker[o] = "none" => taken[o] = "none"
    BY <1>0, <2>1 DEF OrchTypeOK
  <2> HIDE DEF taken
  <2> QED BY <1>0, <2>1, <2>2, ProjectionIsKept
<1> QED BY <1>1, <1>2, <1>3 DEF OrchSystemNext

LEMMA ConfirmKeepsCancelled ==
    ASSUME OrchInv, NEW p \in Orch, ConfirmWorkerRun(p), NEW o \in Orch
    PROVE  Kept(o)
<1>1. CASE o = p \/ ~Live(o)
  BY <1>1 DEF ConfirmWorkerRun, Kept, Is
<1>2. CASE o # p /\ Live(o) /\ worker[o] = "none"
  <2>1. orchs[o] \in OrchRecord /\ worker' = [worker EXCEPT ![p] = "queued"]
        /\ worker \in [Orch -> WorkerStatus]
    BY <1>2, LiveTyped DEF OrchInv, OrchTypeOK, ConfirmWorkerRun
  <2>2. orchs'[o] = projectRun(orchs[o], worker'[o]) /\ worker'[o] = "none"
    BY <1>2, <2>1 DEF ConfirmWorkerRun
  <2>3. "none" \in WorkerStatus
    BY DEF WorkerStatus
  <2>4. orchs'[o].status = orchs[o].status /\ orchs'[o].log = orchs[o].log
    BY <2>1, <2>2, <2>3, ProjectedTyped
  <2> QED BY <2>4 DEF Kept, Is
<1> QED BY <1>1, <1>2 DEF Kept

\* Cancelling stands: no answer of the workflow that was told to stop, no audit and
\* no projection revives a cancelled record that no worker run owns.
THEOREM CancellingStands == PlanSpec => CancelStands
<1>1. PlanInv /\ [PlanNext]_<<planVars, orchVars>> => PlanInv'
  BY PlanInvNext
<1>2. ASSUME PlanInv, [PlanNext]_<<planVars, orchVars>>
      PROVE  UNCHANGED orchVars \/ \A o \in Orch : Kept(o)
  <2>0. OrchInv
    BY <1>2 DEF PlanInv
  <2>1. CASE ControlNext
    BY <2>1 DEF ControlNext
  <2>2. ASSUME NEW p \in Orch, CreateExecutionDraft(p) PROVE \A o \in Orch : Kept(o)
    <3>1. PICK fix \in [Stage -> {f \in OrchFlow : flowIs[f] = "absent"}] :
            orchs' = [orchs EXCEPT ![p] = Draft(FALSE, fix)]
      BY <2>2 DEF CreateExecutionDraft
    <3>2. ~Is(p, {"cancelled"})
      BY <2>2 DEF CreateExecutionDraft, Is, Live
    <3> QED BY <2>0, <3>1, <3>2, OtherIsKept DEF OrchInv
  <2>3. CASE ConfirmExecutionPlan
    <3>1. control.session.orch \in Orch /\ ConfirmWorkerRun(control.session.orch)
      BY <1>2, <2>3 DEF ConfirmExecutionPlan, PlanInv, ControlInv, ControlState, SessionState
    <3> QED BY <2>0, <3>1, ConfirmKeepsCancelled
  <2>4. CASE OrchUserNext
    BY <2>0, <2>4, UserKeepsCancelled
  <2>5. CASE OrchSystemNext
    BY <2>0, <2>5, SystemKeepsCancelled
  <2> QED BY <1>2, <2>1, <2>2, <2>3, <2>4, <2>5 DEF PlanNext
<1>3. PlanInv /\ [PlanNext]_<<planVars, orchVars>> =>
        [\A o \in Orch :
           Is(o, {"cancelled"}) /\ worker[o] = "none" =>
             \/ orchs'[o] = Removed
             \/ /\ orchs'[o].status = "cancelled"
                /\ \A s \in Stage : orchs'[o].log[s] = "success" => orchs[o].log[s] = "success"]_orchVars
  BY <1>2 DEF Kept
<1> QED BY <1>1, <1>3, PlanInvInit, PTL DEF PlanSpec, CancelStands

-----------------------------------------------------------------------------
(***************************************************************************)
(* Canvas. Every part of what the canvas shows, keeps and remembers is     *)
(* whole on its own: the invariant names the shape of each, and every      *)
(* command puts together whole parts.                                      *)
(***************************************************************************)

\* Every edge joins two of the nodes: what is copied or defined has no edge to nothing.
Strict(g) == \A e \in g.edges : {e[1][1], e[2][1]} \subseteq g.nodes

IsGraph(g) == g = [nodes |-> g.nodes, edges |-> g.edges] /\ Anchored(g)
Apart(G) ==
  /\ \A g \in G : g = [members |-> g.members, sub |-> g.sub]
  /\ \A g, h \in G : g = h \/ g.members \cap h.members = {}
IsSheet(x) == x = [graph |-> x.graph, groups |-> x.groups] /\ IsGraph(x.graph) /\ Apart(x.groups)
AreSheets(f) == f = [w \in Sheet |-> f[w]] /\ \A w \in Sheet : IsSheet(f[w])
AreDefs(f) == f = [s \in Sub |-> f[s]] /\ \A s \in Sub : Strict(f[s])
Memory(p) == \E X : p \in Seq(X) /\ \A g \in X : IsGraph(g)

CanvasOf(graph, groups, active, sheets, open, past, future, clip, defs) ==
  [graph |-> graph, groups |-> groups, active |-> active, sheets |-> sheets, open |-> open,
   past |-> past, future |-> future, clip |-> clip, defs |-> defs]
IsCanvas(c) ==
  c = CanvasOf(c.graph, c.groups, c.active, c.sheets, c.open, c.past, c.future, c.clip, c.defs)

\* What holds of the canvas between its commands.
Whole(c) ==
  /\ IsCanvas(c)
  /\ IsGraph(c.graph) /\ Apart(c.groups) /\ AreSheets(c.sheets) /\ c.open \subseteq Sheet
  /\ Memory(c.past) /\ Memory(c.future) /\ Strict(c.clip) /\ AreDefs(c.defs)

IsEditor(x) == x = [sub |-> x.sub, nodes |-> x.nodes, edges |-> x.edges] /\ Strict(x)

CanvasInv == Whole(cv) /\ IsEditor(editor)

-----------------------------------------------------------------------------
LEMMA WholeOf ==
    ASSUME NEW g, NEW G, NEW a, NEW sh, NEW o, NEW p, NEW f, NEW k, NEW D,
           IsGraph(g), Apart(G), AreSheets(sh), o \subseteq Sheet, Memory(p), Memory(f),
           Strict(k), AreDefs(D)
    PROVE  Whole(CanvasOf(g, G, a, sh, o, p, f, k, D))
  <1> DEFINE c == CanvasOf(g, G, a, sh, o, p, f, k, D)
  <1>1. /\ c.graph = g /\ c.groups = G /\ c.active = a /\ c.sheets = sh /\ c.open = o
        /\ c.past = p /\ c.future = f /\ c.clip = k /\ c.defs = D
    BY DEF CanvasOf
  <1>2. IsCanvas(c) BY <1>1 DEF IsCanvas
  <1> HIDE DEF c
  <1>3. Whole(c) BY <1>1, <1>2 DEF Whole
  <1> QED BY <1>3 DEF c

LEMMA MemoryKeeps ==
    ASSUME NEW p, Memory(p), NEW g, IsGraph(g)
    PROVE  /\ Memory(Append(p, g)) /\ Memory(Tail(Append(p, g)))
           /\ p # <<>> => IsGraph(Last(p)) /\ Memory(Front(p))
  <1>1. PICK X : p \in Seq(X) /\ \A x \in X : IsGraph(x) BY DEF Memory
  <1> DEFINE Y == X \cup {g}
  <1>2. \A x \in Y : IsGraph(x) BY <1>1
  <1>3. p \in Seq(Y) /\ g \in Y BY <1>1
  <1> HIDE DEF Y
  <1>4. Append(p, g) \in Seq(Y) /\ Append(p, g) # <<>>
    <2>1. Append(p, g) \in Seq(Y) /\ Len(Append(p, g)) = Len(p) + 1 /\ Len(p) \in Nat BY <1>3
    <2>2. Len(<<>>) = 0 OBVIOUS
    <2> QED BY <2>1, <2>2
  <1>5. Tail(Append(p, g)) \in Seq(Y) BY <1>4
  <1>6. p # <<>> => Last(p) \in Y /\ Front(p) \in Seq(Y) BY <1>3 DEF Last, Front
  <1>7. \A q \in Seq(Y) : Memory(q) BY <1>2 DEF Memory
  <1> QED BY <1>2, <1>4, <1>5, <1>6, <1>7

LEMMA EmptyMemory == Memory(<<>>)
  <1>1. \A X : <<>> \in Seq(X) /\ (\A g \in X : IsGraph(g)) => Memory(<<>>) BY DEF Memory
  <1>2. <<>> \in Seq({}) /\ \A g \in {} : IsGraph(g) OBVIOUS
  <1> HIDE DEF IsGraph
  <1> QED BY <1>1, <1>2

LEMMA RememberedWhole ==
    ASSUME NEW c, Whole(c)
    PROVE  /\ Whole(Remembered(c)) /\ Remembered(c).graph = c.graph
           /\ Remembered(c).groups = c.groups /\ Remembered(c).active = c.active
           /\ Remembered(c).sheets = c.sheets /\ Remembered(c).open = c.open
           /\ Remembered(c).clip = c.clip /\ Remembered(c).defs = c.defs
  <1> DEFINE longer == Append(c.past, c.graph)
             p == IF Len(longer) > MaxPast THEN Tail(longer) ELSE longer
             r == CanvasOf(c.graph, c.groups, c.active, c.sheets, c.open, p, <<>>, c.clip, c.defs)
  <1>1. Memory(c.past) /\ IsGraph(c.graph) BY DEF Whole
  <1>2. Memory(longer) /\ Memory(Tail(longer)) BY <1>1, MemoryKeeps
  <1> HIDE DEF longer
  <1>3. Memory(p) BY <1>2
  <1>4. Remembered(c) = [c EXCEPT !.past = p, !.future = <<>>] BY DEF Remembered, longer
  <1> HIDE DEF p
  <1>5. Remembered(c) = r BY <1>4 DEF Whole, IsCanvas, CanvasOf
  <1>6. Whole(r) BY <1>3, EmptyMemory, WholeOf DEF Whole
  <1> QED BY <1>5, <1>6 DEF CanvasOf

\* The changes of one part.
LEMMA PartWhole ==
    ASSUME NEW c, Whole(c)
    PROVE  /\ \A g : IsGraph(g) => Whole([c EXCEPT !.graph = g])
           /\ \A G : Apart(G) => Whole([c EXCEPT !.groups = G])
           /\ \A a : Whole([c EXCEPT !.active = a])
           /\ \A sh : AreSheets(sh) => Whole([c EXCEPT !.sheets = sh])
           /\ \A o : o \subseteq Sheet => Whole([c EXCEPT !.open = o])
           /\ \A p : Memory(p) => Whole([c EXCEPT !.past = p])
           /\ \A p : Memory(p) => Whole([c EXCEPT !.future = p])
           /\ \A k : Strict(k) => Whole([c EXCEPT !.clip = k])
           /\ \A D : AreDefs(D) => Whole([c EXCEPT !.defs = D])
  <1> DEFINE Of(g, G, a, sh, o, p, f, k, D) == CanvasOf(g, G, a, sh, o, p, f, k, D)
  <1>1. c = CanvasOf(c.graph, c.groups, c.active, c.sheets, c.open, c.past, c.future, c.clip, c.defs)
    BY DEF Whole, IsCanvas
  <1>2. /\ IsGraph(c.graph) /\ Apart(c.groups) /\ AreSheets(c.sheets) /\ c.open \subseteq Sheet
        /\ Memory(c.past) /\ Memory(c.future) /\ Strict(c.clip) /\ AreDefs(c.defs)
    BY DEF Whole
  <1>3. ASSUME NEW g, IsGraph(g) PROVE Whole([c EXCEPT !.graph = g])
    <2>1. [c EXCEPT !.graph = g] = CanvasOf(g, c.groups, c.active, c.sheets, c.open, c.past, c.future, c.clip, c.defs)
      BY <1>1 DEF CanvasOf
    <2> QED BY <1>2, <1>3, <2>1, WholeOf
  <1>4. ASSUME NEW G, Apart(G) PROVE Whole([c EXCEPT !.groups = G])
    <2>1. [c EXCEPT !.groups = G] = CanvasOf(c.graph, G, c.active, c.sheets, c.open, c.past, c.future, c.clip, c.defs)
      BY <1>1 DEF CanvasOf
    <2> QED BY <1>2, <1>4, <2>1, WholeOf
  <1>5. ASSUME NEW a PROVE Whole([c EXCEPT !.active = a])
    <2>1. [c EXCEPT !.active = a] = CanvasOf(c.graph, c.groups, a, c.sheets, c.open, c.past, c.future, c.clip, c.defs)
      BY <1>1 DEF CanvasOf
    <2> QED BY <1>2, <2>1, WholeOf
  <1>6. ASSUME NEW sh, AreSheets(sh) PROVE Whole([c EXCEPT !.sheets = sh])
    <2>1. [c EXCEPT !.sheets = sh] = CanvasOf(c.graph, c.groups, c.active, sh, c.open, c.past, c.future, c.clip, c.defs)
      BY <1>1 DEF CanvasOf
    <2> QED BY <1>2, <1>6, <2>1, WholeOf
  <1>7. ASSUME NEW o, o \subseteq Sheet PROVE Whole([c EXCEPT !.open = o])
    <2>1. [c EXCEPT !.open = o] = CanvasOf(c.graph, c.groups, c.active, c.sheets, o, c.past, c.future, c.clip, c.defs)
      BY <1>1 DEF CanvasOf
    <2> QED BY <1>2, <1>7, <2>1, WholeOf
  <1>8. ASSUME NEW p, Memory(p) PROVE Whole([c EXCEPT !.past = p])
    <2>1. [c EXCEPT !.past = p] = CanvasOf(c.graph, c.groups, c.active, c.sheets, c.open, p, c.future, c.clip, c.defs)
      BY <1>1 DEF CanvasOf
    <2> QED BY <1>2, <1>8, <2>1, WholeOf
  <1>9. ASSUME NEW p, Memory(p) PROVE Whole([c EXCEPT !.future = p])
    <2>1. [c EXCEPT !.future = p] = CanvasOf(c.graph, c.groups, c.active, c.sheets, c.open, c.past, p, c.clip, c.defs)
      BY <1>1 DEF CanvasOf
    <2> QED BY <1>2, <1>9, <2>1, WholeOf
  <1>10. ASSUME NEW k, Strict(k) PROVE Whole([c EXCEPT !.clip = k])
    <2>1. [c EXCEPT !.clip = k] = CanvasOf(c.graph, c.groups, c.active, c.sheets, c.open, c.past, c.future, k, c.defs)
      BY <1>1 DEF CanvasOf
    <2> QED BY <1>2, <1>10, <2>1, WholeOf
  <1>11. ASSUME NEW D, AreDefs(D) PROVE Whole([c EXCEPT !.defs = D])
    <2>1. [c EXCEPT !.defs = D] = CanvasOf(c.graph, c.groups, c.active, c.sheets, c.open, c.past, c.future, c.clip, D)
      BY <1>1 DEF CanvasOf
    <2> QED BY <1>2, <1>11, <2>1, WholeOf
  <1> QED BY <1>3, <1>4, <1>5, <1>6, <1>7, <1>8, <1>9, <1>10, <1>11

-----------------------------------------------------------------------------
(* Graphs, groups, sheets and definitions                                  *)

LEMMA GraphsWhole ==
    ASSUME NEW g, IsGraph(g)
    PROVE  /\ \A N : IsGraph(Without(g, N))
           /\ \A M : IsGraph([g EXCEPT !.nodes = @ \cup M])
           /\ \A E : (\A e \in E : {e[1][1], e[2][1]} \subseteq g.nodes \cup {Lost}) =>
                     IsGraph([nodes |-> g.nodes, edges |-> E])
  <1>1. ASSUME NEW N PROVE IsGraph(Without(g, N)) BY DEF IsGraph, Without, Within, Anchored
  <1>2. ASSUME NEW M PROVE IsGraph([g EXCEPT !.nodes = @ \cup M])
    <2>1. [g EXCEPT !.nodes = @ \cup M] = [nodes |-> g.nodes \cup M, edges |-> g.edges]
      BY DEF IsGraph
    <2>2. IsGraph([nodes |-> g.nodes \cup M, edges |-> g.edges]) BY DEF IsGraph, Anchored
    <2> QED BY <2>1, <2>2
  <1>3. ASSUME NEW E, \A e \in E : {e[1][1], e[2][1]} \subseteq g.nodes \cup {Lost}
        PROVE  IsGraph([nodes |-> g.nodes, edges |-> E])
    BY <1>3 DEF IsGraph, Anchored
  <1> QED BY <1>1, <1>2, <1>3

LEMMA FreshGraphs == IsGraph(Blank) /\ \A M : IsGraph([Blank EXCEPT !.nodes = M])
  <1>1. ASSUME NEW M PROVE IsGraph([Blank EXCEPT !.nodes = M])
    <2>1. [Blank EXCEPT !.nodes = M] = [nodes |-> M, edges |-> {}] BY DEF Blank
    <2> QED BY <2>1 DEF IsGraph, Anchored
  <1> QED BY <1>1 DEF IsGraph, Anchored, Blank

LEMMA StrictWithin == \A E, N : Strict([nodes |-> N, edges |-> Within(E, N)])
  BY DEF Strict, Within

\* One sheet, or one definition, is replaced.
LEMMA SheetsWhole ==
    ASSUME NEW f, AreSheets(f), NEW w, NEW x, IsSheet(x) PROVE AreSheets([f EXCEPT ![w] = x])
  BY DEF AreSheets

LEMMA DefsWhole ==
    ASSUME NEW D, AreDefs(D), NEW s, NEW x, Strict(x) PROVE AreDefs([D EXCEPT ![s] = x])
  BY DEF AreDefs

LEMMA SheetGraphWhole ==
    ASSUME NEW f, AreSheets(f), NEW w \in Sheet, NEW g, IsGraph(g)
    PROVE  AreSheets([f EXCEPT ![w].graph = g])
  <1>1. IsSheet(f[w]) BY DEF AreSheets
  <1>2. IsSheet([f[w] EXCEPT !.graph = g])
    <2>1. [f[w] EXCEPT !.graph = g] = [graph |-> g, groups |-> f[w].groups] BY <1>1 DEF IsSheet
    <2> QED BY <1>1, <2>1 DEF IsSheet
  <1> QED BY <1>2, SheetsWhole

LEMMA GroupsWhole ==
    ASSUME NEW G, Apart(G), NEW N, NEW x,
           NEW left, left = {[g EXCEPT !.members = @ \ N] : g \in G}
    PROVE  /\ Apart({g \in left : g.members # {}})
           /\ Apart({g \in left : g.members # {}} \cup {[members |-> N, sub |-> x]})
  <1>1. \A g \in G : [g EXCEPT !.members = @ \ N] = [members |-> g.members \ N, sub |-> g.sub]
    BY DEF Apart
  <1>2. \A h \in left : \E g \in G : h = [members |-> g.members \ N, sub |-> g.sub]
    BY <1>1
  <1>3. ASSUME NEW h \in left, NEW k \in left PROVE h = k \/ h.members \cap k.members = {}
    <2>1. PICK g \in G : h = [members |-> g.members \ N, sub |-> g.sub] BY <1>2
    <2>2. PICK f \in G : k = [members |-> f.members \ N, sub |-> f.sub] BY <1>2
    <2>3. g = f \/ g.members \cap f.members = {} BY DEF Apart
    <2> QED BY <2>1, <2>2, <2>3
  <1>4. \A h \in left : h = [members |-> h.members, sub |-> h.sub] /\ h.members \cap N = {}
    BY <1>2
  <1> DEFINE new == [members |-> N, sub |-> x]
  <1>5. new = [members |-> new.members, sub |-> new.sub] /\ new.members = N OBVIOUS
  <1> HIDE DEF new
  <1>6. Apart({g \in left : g.members # {}}) BY <1>3, <1>4 DEF Apart
  <1>7. Apart({g \in left : g.members # {}} \cup {new}) BY <1>3, <1>4, <1>5 DEF Apart
  <1> QED BY <1>6, <1>7 DEF new

-----------------------------------------------------------------------------
(* The actions: nodes and edges                                            *)

LEMMA CommandKeeps ==
    ASSUME CanvasInv, NEW next, Whole(next), Commands(next) PROVE CanvasInv'
  BY DEF CanvasInv, Commands, IsEditor, Strict

LEMMA Now == CanvasInv => /\ Whole(cv) /\ Whole(Remembered(cv)) /\ Remembered(cv).graph = cv.graph
                          /\ Remembered(cv).groups = cv.groups
                          /\ Remembered(cv).sheets = cv.sheets
                          /\ Remembered(cv).defs = cv.defs
                          /\ IsGraph(cv.graph) /\ Apart(cv.groups) /\ AreSheets(cv.sheets)
                          /\ AreDefs(cv.defs) /\ Strict(cv.clip) /\ cv.open \subseteq Sheet
  <1>1. CanvasInv => Whole(cv) BY DEF CanvasInv
  <1> QED BY <1>1, RememberedWhole DEF Whole

LEMMA WithNodeWhole ==
    ASSUME NEW c, Whole(c)
    PROVE  /\ Whole(WithNode(c)) /\ WithNode(c).graph.nodes = c.graph.nodes \cup {Len(made) + 1}
  <1> DEFINE r == Remembered(c)
             g == [r.graph EXCEPT !.nodes = @ \cup {Len(made) + 1}]
  <1>1. Whole(r) /\ r.graph = c.graph BY RememberedWhole
  <1>2. WithNode(c) = [r EXCEPT !.graph = g] BY DEF WithNode
  <1> HIDE DEF r
  <1>3. IsGraph(r.graph) BY <1>1 DEF Whole
  <1>4. IsGraph(g) BY <1>3, GraphsWhole
  <1>7. g.nodes = r.graph.nodes \cup {Len(made) + 1} BY <1>3 DEF IsGraph
  <1> HIDE DEF g
  <1>5. Whole([r EXCEPT !.graph = g]) BY <1>1, <1>4, PartWhole
  <1>6. [r EXCEPT !.graph = g].graph = g BY <1>1 DEF Whole, IsCanvas, CanvasOf
  <1> QED BY <1>1, <1>2, <1>5, <1>6, <1>7

LEMMA LinkedWhole ==
    ASSUME NEW c, Whole(c), NEW e, {e[1][1], e[2][1]} \subseteq c.graph.nodes
    PROVE  Whole(Linked(c, e))
  <1> DEFINE r == Remembered(c)
             g == [r.graph EXCEPT !.edges = @ \cup {e}]
  <1>1. Whole(r) /\ r.graph = c.graph BY RememberedWhole
  <1>2. Linked(c, e) = [r EXCEPT !.graph = g] BY DEF Linked
  <1> HIDE DEF r
  <1>3. IsGraph(r.graph) BY <1>1 DEF Whole
  <1>4. g = [nodes |-> r.graph.nodes, edges |-> r.graph.edges \cup {e}] BY <1>3 DEF IsGraph
  <1>5. IsGraph(g)
    <2>1. \A x \in r.graph.edges \cup {e} : {x[1][1], x[2][1]} \subseteq r.graph.nodes \cup {Lost}
      BY <1>1, <1>3 DEF IsGraph, Anchored
    <2> QED BY <1>3, <1>4, <2>1, GraphsWhole
  <1> HIDE DEF g
  <1> QED BY <1>1, <1>2, <1>5, PartWhole

LEMMA DropNodeKeeps == ASSUME CanvasInv, DropNode PROVE CanvasInv'
  BY Now, WithNodeWhole, CommandKeeps DEF DropNode

\* The ends of a connection are the two nodes.
LEMMA ConnectionEnds ==
    ASSUME NEW a, NEW b, NEW E, NEW e \in Connections(a, b, E)
    PROVE  e[1][1] = a /\ e[2][1] = b
  <1>1. \E p \in Outputs(a), q \in Inputs(b) : e = <<<<a, p>>, <<b, q>>>> BY DEF Connections
  <1> QED BY <1>1

LEMMA LinkKeeps ==
    ASSUME CanvasInv, NEW a \in cv.graph.nodes, NEW b \in cv.graph.nodes, Link(a, b)
    PROVE  CanvasInv'
  <1>1. PICK e \in Connections(a, b, cv.graph.edges) : Commands(Linked(cv, e)) BY DEF Link
  <1>2. e[1][1] = a /\ e[2][1] = b BY ConnectionEnds
  <1>3. Whole(Linked(cv, e)) BY <1>2, LinkedWhole, Now
  <1> QED BY <1>1, <1>3, CommandKeeps

LEMMA PickNodeKeeps ==
    ASSUME CanvasInv, NEW a \in cv.graph.nodes, PickNode(a) PROVE CanvasInv'
  <1>1. PICK p \in Outputs(a) :
          Commands(Linked(WithNode(cv), <<<<a, p>>, <<Len(made) + 1, Sole>>>>))
    BY DEF PickNode
  <1> DEFINE e == <<<<a, p>>, <<Len(made) + 1, Sole>>>>
             c == WithNode(cv)
  <1>2. Whole(c) /\ c.graph.nodes = cv.graph.nodes \cup {Len(made) + 1} BY Now, WithNodeWhole
  <1>3. e[1][1] = a /\ e[2][1] = Len(made) + 1 OBVIOUS
  <1>4. Commands(Linked(c, e)) BY <1>1
  <1> HIDE DEF e, c
  <1>5. Whole(Linked(c, e)) BY <1>2, <1>3, LinkedWhole
  <1> QED BY <1>4, <1>5, CommandKeeps

LEMMA ArrangeKeeps == ASSUME CanvasInv, Arrange PROVE CanvasInv'
  BY Now, CommandKeeps DEF Arrange

LEMMA LoadGraphKeeps == ASSUME CanvasInv, LoadGraph PROVE CanvasInv'
  <1> DEFINE g == [Blank EXCEPT !.nodes = {Len(made) + 1}]
  <1>1. Commands([cv EXCEPT !.graph = g]) BY DEF LoadGraph
  <1>2. IsGraph(g) BY FreshGraphs
  <1> HIDE DEF g
  <1> QED BY <1>1, <1>2, Now, PartWhole, CommandKeeps

LEMMA RelinkKeeps ==
    ASSUME CanvasInv, NEW e \in cv.graph.edges, NEW b \in cv.graph.nodes, Relink(e, b)
    PROVE  CanvasInv'
  <1> DEFINE r == Remembered(cv)
  <1>1. PICK f \in Connections(e[1][1], b, cv.graph.edges \ {e}) :
          Commands([r EXCEPT !.graph.edges = (@ \ {e}) \cup {f}])
    BY DEF Relink
  <1>2. f[1][1] = e[1][1] /\ f[2][1] = b BY ConnectionEnds
  <1>3. e[1][1] \in cv.graph.nodes BY DEF Relink
  <1>4. Whole(r) /\ r.graph = cv.graph /\ IsGraph(cv.graph) BY Now
  <1> HIDE DEF r
  <1> DEFINE g == [nodes |-> cv.graph.nodes, edges |-> (cv.graph.edges \ {e}) \cup {f}]
  <1>5. IsGraph(g)
    <2>1. \A x \in (cv.graph.edges \ {e}) \cup {f} :
            {x[1][1], x[2][1]} \subseteq cv.graph.nodes \cup {Lost}
      BY <1>2, <1>3, <1>4 DEF IsGraph, Anchored
    <2> QED BY <1>4, <2>1, GraphsWhole
  <1>6. [r EXCEPT !.graph.edges = (@ \ {e}) \cup {f}] = [r EXCEPT !.graph = g]
    BY <1>4 DEF IsGraph
  <1> HIDE DEF g
  <1> QED BY <1>1, <1>4, <1>5, <1>6, PartWhole, CommandKeeps

\* Nodes are taken away from a graph, remembered or not.
LEMMA ErasedWhole ==
    ASSUME NEW c, Whole(c), NEW N PROVE Whole([c EXCEPT !.graph = Without(@, N)])
  <1> DEFINE g == Without(c.graph, N)
  <1>1. IsGraph(g) BY GraphsWhole DEF Whole
  <1> HIDE DEF g
  <1>2. Whole([c EXCEPT !.graph = g]) BY <1>1, PartWhole
  <1> QED BY <1>2 DEF g

LEMMA EraseKeeps ==
    ASSUME CanvasInv, NEW N, Erase(N) \/ DeleteSelected(N) PROVE CanvasInv'
  BY Now, ErasedWhole, CommandKeeps DEF Erase, DeleteSelected

LEMMA ClearGraphKeeps == ASSUME CanvasInv, ClearGraph PROVE CanvasInv'
  <1> DEFINE r == Remembered(cv)
             c == [r EXCEPT !.graph = Blank]
  <1>1. Commands([c EXCEPT !.groups = {}]) BY DEF ClearGraph
  <1>2. Whole(r) BY Now
  <1> HIDE DEF r
  <1>3. Whole(c) BY <1>2, FreshGraphs, PartWhole
  <1> HIDE DEF c
  <1>4. Apart({}) BY DEF Apart
  <1> QED BY <1>1, <1>3, <1>4, PartWhole, CommandKeeps

LEMMA PaneErasedWhole ==
    ASSUME NEW c, Whole(c), NEW w \in Sheet, NEW N
    PROVE  Whole([c EXCEPT !.sheets[w].graph = Without(@, N)])
  <1> DEFINE g == Without(c.sheets[w].graph, N)
             sh == [c.sheets EXCEPT ![w].graph = g]
  <1>1. AreSheets(c.sheets) BY DEF Whole
  <1>2. IsGraph(g) BY <1>1, GraphsWhole DEF AreSheets, IsSheet
  <1>3. [c EXCEPT !.sheets[w].graph = Without(@, N)] = [c EXCEPT !.sheets = sh]
    OBVIOUS
  <1>4. AreSheets(sh)
    <2> HIDE DEF g
    <2> QED BY <1>1, <1>2, SheetGraphWhole
  <1> HIDE DEF sh
  <1> QED BY <1>3, <1>4, PartWhole

LEMMA PaneKeeps ==
    ASSUME CanvasInv, NEW w \in cv.open, NEW N, DeleteInPane(w, N) \/ EraseInPane(w, N)
    PROVE  CanvasInv'
  <1>1. w \in Sheet BY Now
  <1> QED BY <1>1, Now, PaneErasedWhole, CommandKeeps DEF DeleteInPane, EraseInPane

-----------------------------------------------------------------------------
(* Copies, the history, groups                                             *)

\* What is copied with its edges goes in with the edges between the copies.
CopiedEdges(E, copy) ==
  {<<<<copy[e[1][1]], e[1][2]>>, <<copy[e[2][1]], e[2][2]>>>> : e \in E}

LEMMA CopiesTied ==
    ASSUME NEW k, Strict(k), NEW copy, NEW x \in CopiedEdges(k.edges, copy)
    PROVE  {x[1][1], x[2][1]} \subseteq {copy[n] : n \in k.nodes}
  <1>1. PICK e \in k.edges : x = <<<<copy[e[1][1]], e[1][2]>>, <<copy[e[2][1]], e[2][2]>>>>
    BY DEF CopiedEdges
  <1>2. {e[1][1], e[2][1]} \subseteq k.nodes BY DEF Strict
  <1> QED BY <1>1, <1>2

LEMMA PastedWhole ==
    ASSUME NEW c, Whole(c), NEW k, Strict(k) PROVE Whole(Pasted(c, k))
  <1> DEFINE r == Remembered(c)
             copy == Copies(k.nodes)
             M == {copy[n] : n \in k.nodes}
             E == CopiedEdges(k.edges, copy)
             g == [nodes |-> r.graph.nodes \cup M, edges |-> r.graph.edges \cup E]
  <1>1. Whole(r) /\ IsGraph(r.graph) BY RememberedWhole DEF Whole
  <1>2. Pasted(c, k) = [r EXCEPT !.graph.nodes = @ \cup M, !.graph.edges = @ \cup E]
    BY DEF Pasted, CopiedEdges
  <1>3. \A x \in E : {x[1][1], x[2][1]} \subseteq M BY CopiesTied
  <1> HIDE DEF r, M, E
  <1>4. Pasted(c, k) = [r EXCEPT !.graph = g] BY <1>1, <1>2 DEF IsGraph, Whole, IsCanvas, CanvasOf
  <1>5. IsGraph(g) BY <1>1, <1>3 DEF IsGraph, Anchored
  <1> HIDE DEF g
  <1> QED BY <1>1, <1>4, <1>5, PartWhole

LEMMA CopySelectionKeeps == ASSUME CanvasInv, NEW N, CopySelection(N) PROVE CanvasInv'
  BY Now, StrictWithin, PartWhole, CommandKeeps DEF CopySelection

LEMMA PasteClipboardKeeps == ASSUME CanvasInv, PasteClipboard PROVE CanvasInv'
  BY Now, PastedWhole, CommandKeeps DEF PasteClipboard

LEMMA DuplicateSelectionKeeps ==
    ASSUME CanvasInv, NEW N, DuplicateSelection(N) PROVE CanvasInv'
  <1> DEFINE k == [nodes |-> N, edges |-> Within(cv.graph.edges, N)]
  <1>1. Commands(Pasted([cv EXCEPT !.clip = k], k)) BY DEF DuplicateSelection
  <1>2. Strict(k) BY StrictWithin
  <1> HIDE DEF k
  <1>3. Whole([cv EXCEPT !.clip = k]) BY <1>2, Now, PartWhole
  <1> QED BY <1>1, <1>2, <1>3, PastedWhole, CommandKeeps

LEMMA UndoGraphKeeps == ASSUME CanvasInv, UndoGraph PROVE CanvasInv'
  <1> DEFINE c == [cv EXCEPT !.graph = Last(cv.past)]
             d == [c EXCEPT !.past = Front(cv.past)]
             f == Append(cv.future, cv.graph)
  <1>1. /\ cv.past # <<>>
        /\ Commands([cv EXCEPT !.graph = Last(cv.past), !.past = Front(@),
                               !.future = Append(@, cv.graph)])
    BY DEF UndoGraph
  <1>2. Memory(cv.past) /\ Memory(cv.future) /\ IsGraph(cv.graph) /\ Whole(cv) BY Now DEF Whole
  <1>3. IsGraph(Last(cv.past)) /\ Memory(Front(cv.past)) /\ Memory(f) BY <1>1, <1>2, MemoryKeeps
  <1>4. Commands([d EXCEPT !.future = f]) BY <1>1, <1>2 DEF Whole, IsCanvas, CanvasOf
  <1> HIDE DEF f
  <1>5. Whole(c) BY <1>2, <1>3, PartWhole
  <1> HIDE DEF c
  <1>6. Whole(d) BY <1>3, <1>5, PartWhole
  <1> HIDE DEF d
  <1>7. Whole([d EXCEPT !.future = f]) BY <1>3, <1>6, PartWhole
  <1> QED BY <1>4, <1>7, CommandKeeps

LEMMA RedoGraphKeeps == ASSUME CanvasInv, RedoGraph PROVE CanvasInv'
  <1> DEFINE c == [cv EXCEPT !.graph = Last(cv.future)]
             d == [c EXCEPT !.future = Front(cv.future)]
             f == Append(cv.past, cv.graph)
  <1>1. /\ cv.future # <<>>
        /\ Commands([cv EXCEPT !.graph = Last(cv.future), !.future = Front(@),
                               !.past = Append(@, cv.graph)])
    BY DEF RedoGraph
  <1>2. Memory(cv.past) /\ Memory(cv.future) /\ IsGraph(cv.graph) /\ Whole(cv) BY Now DEF Whole
  <1>3. IsGraph(Last(cv.future)) /\ Memory(Front(cv.future)) /\ Memory(f) BY <1>1, <1>2, MemoryKeeps
  <1>4. Commands([d EXCEPT !.past = f]) BY <1>1, <1>2 DEF Whole, IsCanvas, CanvasOf
  <1> HIDE DEF f
  <1>5. Whole(c) BY <1>2, <1>3, PartWhole
  <1> HIDE DEF c
  <1>6. Whole(d) BY <1>3, <1>5, PartWhole
  <1> HIDE DEF d
  <1>7. Whole([d EXCEPT !.past = f]) BY <1>3, <1>6, PartWhole
  <1> QED BY <1>4, <1>7, CommandKeeps

LEMMA CreateGroupKeeps ==
    ASSUME CanvasInv, NEW N, NEW s \in Sub, CreateGroup(N, s) PROVE CanvasInv'
  <1> DEFINE r == Remembered(cv)
             left == {[g EXCEPT !.members = @ \ N] : g \in cv.groups}
             G == {g \in left : g.members # {}} \cup {[members |-> N, sub |-> s]}
             x == [NoDef EXCEPT !.nodes = N, !.edges = Within(cv.graph.edges, N), !.there = TRUE]
             c == [r EXCEPT !.groups = G]
             D == [r.defs EXCEPT ![s] = x]
  <1>1. Commands([r EXCEPT !.groups = G, !.defs[s] = x]) BY DEF CreateGroup
  <1>2. Whole(r) /\ AreDefs(r.defs) /\ Apart(cv.groups) BY Now DEF Whole
  <1>3. Apart(G) BY <1>2, GroupsWhole
  <1>4. Strict(x) BY DEF NoDef, Strict, Within
  <1> HIDE DEF r, G, x
  <1>5. Commands([c EXCEPT !.defs = D]) BY <1>1, <1>2 DEF Whole, IsCanvas, CanvasOf
  <1>6. Whole(c) BY <1>2, <1>3, PartWhole
  <1>7. AreDefs(D) BY <1>2, <1>4, DefsWhole
  <1> HIDE DEF c, D
  <1> QED BY <1>5, <1>6, <1>7, PartWhole, CommandKeeps

LEMMA UngroupedWhole ==
    ASSUME NEW c, Whole(c), NEW g PROVE Whole(Ungrouped(c, g))
  <1> DEFINE r == Remembered(c)
             G == r.groups \ {g}
             d == [r EXCEPT !.groups = G]
             D == [r.defs EXCEPT ![g.sub] = NoDef]
  <1>1. Whole(r) /\ AreDefs(r.defs) /\ Apart(r.groups) BY RememberedWhole DEF Whole
  <1>2. Ungrouped(c, g) = [r EXCEPT !.groups = @ \ {g}, !.defs[g.sub] = NoDef] BY DEF Ungrouped
  <1> HIDE DEF r
  <1>3. Apart(G) BY <1>1 DEF Apart
  <1>4. Ungrouped(c, g) = [d EXCEPT !.defs = D] BY <1>1, <1>2 DEF Whole, IsCanvas, CanvasOf
  <1>5. Whole(d) BY <1>1, <1>3, PartWhole
  <1>6. Strict(NoDef) BY DEF Strict, NoDef
  <1>7. AreDefs(D) BY <1>1, <1>6, DefsWhole
  <1> HIDE DEF d, D
  <1> QED BY <1>4, <1>5, <1>7, PartWhole

LEMMA RemoveGroupKeeps == ASSUME CanvasInv, NEW g, RemoveGroup(g) PROVE CanvasInv'
  BY Now, UngroupedWhole, CommandKeeps DEF RemoveGroup

LEMMA PruneGroupKeeps == ASSUME CanvasInv, NEW g \in Stray(cv), PruneGroup(g) PROVE CanvasInv'
  <1> DEFINE kept == g.members \cap cv.graph.nodes
             h == [g EXCEPT !.members = kept]
             G == (cv.groups \ {g}) \cup {h}
  <1>1. UNCHANGED editor /\ \/ cv' = Ungrouped(cv, g)
                            \/ cv' = [cv EXCEPT !.groups = (@ \ {g}) \cup {h}]
    BY DEF PruneGroup
  <1>2. Whole(cv) /\ Apart(cv.groups) /\ g \in cv.groups BY Now DEF Stray
  <1>3. h = [members |-> kept, sub |-> g.sub]
    <2> HIDE DEF kept
    <2> QED BY <1>2 DEF Apart
  <1>4. Apart(G)
    <2>1. /\ \A k \in cv.groups \ {g} : k.members \cap g.members = {}
          /\ \A k \in cv.groups : k = [members |-> k.members, sub |-> k.sub]
          /\ \A k, l \in cv.groups : k = l \/ k.members \cap l.members = {}
      BY <1>2 DEF Apart
    <2>2. h.members = kept /\ h = [members |-> h.members, sub |-> h.sub] BY <1>3
    <2>3. \A k \in cv.groups \ {g} : k.members \cap h.members = {} BY <2>1, <2>2
    <2> HIDE DEF h
    <2> QED BY <2>1, <2>2, <2>3 DEF Apart
  <1>5. Whole(cv')
    <2>1. CASE cv' = Ungrouped(cv, g) BY <1>2, <2>1, UngroupedWhole
    <2>2. CASE cv' = [cv EXCEPT !.groups = (@ \ {g}) \cup {h}]
      <3>1. cv' = [cv EXCEPT !.groups = G] BY <2>2
      <3> HIDE DEF G
      <3> QED BY <1>2, <1>4, <3>1, PartWhole
    <2> QED BY <1>1, <2>1, <2>2
  <1> QED BY <1>1, <1>5 DEF CanvasInv, IsEditor, Strict

-----------------------------------------------------------------------------
(* Subgraphs and workflows                                                 *)

LEMMA PackKeeps == ASSUME CanvasInv, NEW N, NEW s \in Sub, Pack(N, s) PROVE CanvasInv'
  <1> DEFINE ref == Len(made) + 1
             inner == Within(cv.graph.edges, N)
             ins == FreeInputs(N, inner)
             outs == FreeOutputs(N, inner)
             left == {[g EXCEPT !.members = @ \ N] : g \in cv.groups}
             G == {g \in left : g.members # {}}
             r == Remembered(cv)
             x == [nodes |-> N, edges |-> inner, ins |-> ins, outs |-> outs, there |-> TRUE]
             E == UNION {PackedEnd(e[1], N, outs, ref) \X PackedEnd(e[2], N, ins, ref)
                           : e \in cv.graph.edges \ inner}
             g == [nodes |-> (cv.graph.nodes \ N) \cup {ref}, edges |-> E]
             D == [r.defs EXCEPT ![s] = x]
             c == [r EXCEPT !.defs = D]
             d == [c EXCEPT !.graph = g]
  <1>1. Commands([r EXCEPT !.defs[s] = x, !.graph = g, !.groups = G]) BY DEF Pack
  <1>2. Whole(r) /\ AreDefs(r.defs) /\ Apart(cv.groups) /\ IsGraph(cv.graph) BY Now DEF Whole
  <1>3. Apart(G)
    <2>1. Apart(G) /\ Apart(G \cup {[members |-> N, sub |-> s]}) BY <1>2, GroupsWhole
    <2> QED BY <2>1
  <1>4. Strict(x) BY DEF Strict, Within
  <1>5. IsGraph(g)
    <2> HIDE DEF inner, ins, outs, ref
    <2>1. ASSUME NEW y \in E PROVE {y[1][1], y[2][1]} \subseteq (cv.graph.nodes \ N) \cup {ref, Lost}
      <3>1. PICK e \in cv.graph.edges :
              y \in PackedEnd(e[1], N, outs, ref) \X PackedEnd(e[2], N, ins, ref)
        OBVIOUS
      <3>2. y[1] \in PackedEnd(e[1], N, outs, ref) /\ y[2] \in PackedEnd(e[2], N, ins, ref)
        BY <3>1
      <3>3. {e[1][1], e[2][1]} \subseteq cv.graph.nodes \cup {Lost} BY <1>2 DEF IsGraph, Anchored
      <3>4. y[1][1] \in (cv.graph.nodes \ N) \cup {ref, Lost} BY <3>2, <3>3 DEF PackedEnd
      <3>5. y[2][1] \in (cv.graph.nodes \ N) \cup {ref, Lost} BY <3>2, <3>3 DEF PackedEnd
      <3> QED BY <3>4, <3>5
    <2> HIDE DEF E
    <2>2. IsGraph(g) BY <2>1 DEF IsGraph, Anchored
    <2> QED BY <2>2
  <1> HIDE DEF r, G, x, g
  <1>6. Commands([d EXCEPT !.groups = G]) BY <1>1, <1>2 DEF Whole, IsCanvas, CanvasOf
  <1>7. AreDefs(D) BY <1>2, <1>4, DefsWhole
  <1> HIDE DEF D
  <1>8. Whole(c) BY <1>2, <1>7, PartWhole
  <1> HIDE DEF c
  <1>9. Whole(d) BY <1>5, <1>8, PartWhole
  <1> HIDE DEF d
  <1>10. Whole([d EXCEPT !.groups = G]) BY <1>3, <1>9, PartWhole
  <1> QED BY <1>6, <1>10, CommandKeeps

LEMMA UnpackKeeps == ASSUME CanvasInv, NEW n, Unpack(n) PROVE CanvasInv'
  <1> DEFINE r == Remembered(cv)
             k == cv.defs[made[n]]
             copy == Copies(k.nodes)
             M == {copy[m] : m \in k.nodes}
             I == CopiedEdges(k.edges, copy)
             E == UNION {UnpackedEnd(e[1], n, k.outs, copy) \X UnpackedEnd(e[2], n, k.ins, copy)
                           : e \in cv.graph.edges}
             g == [nodes |-> (cv.graph.nodes \ {n}) \cup M, edges |-> I \cup E]
  <1>1. Whole(r) /\ IsGraph(cv.graph) /\ r.graph = cv.graph BY Now
  <1>2. Commands([r EXCEPT !.graph = g]) BY <1>1 DEF Unpack, CopiedEdges
  <1>3. Strict(k) BY Now DEF AreDefs, Unpack, IsRef
  <1>4. DOMAIN copy = k.nodes BY DEF Copies
  <1> HIDE DEF r, k, copy
  <1>5. \A x \in I : {x[1][1], x[2][1]} \subseteq M BY <1>3, CopiesTied
  <1>6. ASSUME NEW y \in E
        PROVE  {y[1][1], y[2][1]} \subseteq (cv.graph.nodes \ {n}) \cup M \cup {Lost}
    <2>1. PICK e \in cv.graph.edges :
            y \in UnpackedEnd(e[1], n, k.outs, copy) \X UnpackedEnd(e[2], n, k.ins, copy)
      OBVIOUS
    <2>2. y[1] \in UnpackedEnd(e[1], n, k.outs, copy) /\ y[2] \in UnpackedEnd(e[2], n, k.ins, copy)
      BY <2>1
    <2>3. {e[1][1], e[2][1]} \subseteq cv.graph.nodes \cup {Lost} BY <1>1 DEF IsGraph, Anchored
    <2>4. y[1][1] \in (cv.graph.nodes \ {n}) \cup M \cup {Lost} BY <1>4, <2>2, <2>3 DEF UnpackedEnd
    <2>5. y[2][1] \in (cv.graph.nodes \ {n}) \cup M \cup {Lost} BY <1>4, <2>2, <2>3 DEF UnpackedEnd
    <2> QED BY <2>4, <2>5
  <1> HIDE DEF I, E, M
  <1>7. IsGraph(g) BY <1>5, <1>6 DEF IsGraph, Anchored
  <1> HIDE DEF g
  <1> QED BY <1>1, <1>2, <1>7, PartWhole, CommandKeeps

LEMMA AddReferenceKeeps == ASSUME CanvasInv, NEW s, AddReference(s) PROVE CanvasInv'
  BY Now, WithNodeWhole, CommandKeeps DEF AddReference

LEMMA RemoveSubgraphKeeps == ASSUME CanvasInv, NEW s, RemoveSubgraph(s) PROVE CanvasInv'
  <1> DEFINE D == [cv.defs EXCEPT ![s] = NoDef]
  <1>1. Commands([cv EXCEPT !.defs = D]) BY DEF RemoveSubgraph
  <1>2. Strict(NoDef) BY DEF Strict, NoDef
  <1>3. AreDefs(D) BY <1>2, Now, DefsWhole
  <1> HIDE DEF D
  <1> QED BY <1>1, <1>3, Now, PartWhole, CommandKeeps

LEMMA OpenEditorKeeps == ASSUME CanvasInv, NEW s \in Sub, OpenEditor(s) PROVE CanvasInv'
  <1>1. Strict(cv.defs[s]) BY Now DEF AreDefs
  <1> QED BY <1>1 DEF OpenEditor, CanvasInv, IsEditor, Strict

LEMMA EditInnerKeeps == ASSUME CanvasInv, EditInner PROVE CanvasInv'
  <1> DEFINE Of(M, E) == [sub |-> editor.sub, nodes |-> M, edges |-> E]
  <1>1. editor = Of(editor.nodes, editor.edges) /\ Strict(editor) /\ Whole(cv)
    BY DEF CanvasInv, IsEditor
  <1>2. ASSUME NEW M, NEW E, \A e \in E : {e[1][1], e[2][1]} \subseteq M, editor' = Of(M, E)
        PROVE  IsEditor(editor')
    BY <1>2 DEF IsEditor, Strict
  <1>3. ASSUME NEW n, editor' = [editor EXCEPT !.nodes = @ \ {n},
                                               !.edges = Within(@, editor.nodes \ {n})]
        PROVE  IsEditor(editor')
    <2>1. editor' = Of(editor.nodes \ {n}, Within(editor.edges, editor.nodes \ {n}))
      BY <1>1, <1>3
    <2> QED BY <1>2, <2>1 DEF Within
  <1>4. ASSUME editor' = [editor EXCEPT !.nodes = @ \cup {Len(made) + 1}]
        PROVE  IsEditor(editor')
    <2>1. editor' = Of(editor.nodes \cup {Len(made) + 1}, editor.edges) BY <1>1, <1>4
    <2> HIDE DEF Of
    <2> QED BY <1>1, <1>2, <2>1 DEF Strict
  <1>5. IsEditor(editor') /\ cv' = cv BY <1>3, <1>4 DEF EditInner
  <1> QED BY <1>1, <1>5 DEF CanvasInv, IsEditor, Strict

LEMMA CloseEditorKeeps == ASSUME CanvasInv, CloseEditor PROVE CanvasInv'
  <1> DEFINE s == editor.sub
             x == [nodes |-> editor.nodes, edges |-> editor.edges, there |-> TRUE,
                   ins |-> cv.defs[s].ins \cup FreeInputs(editor.nodes, editor.edges),
                   outs |-> cv.defs[s].outs \cup FreeOutputs(editor.nodes, editor.edges)]
             D == [cv.defs EXCEPT ![s] = x]
  <1>1. cv' = [cv EXCEPT !.defs = D] BY Now DEF CloseEditor, AreDefs
  <1>2. Strict(x) BY DEF CanvasInv, IsEditor, Strict
  <1> HIDE DEF x
  <1>3. AreDefs(D) BY <1>2, Now, DefsWhole
  <1> HIDE DEF D
  <1>4. Whole(cv') BY <1>1, <1>3, Now, PartWhole
  <1>5. editor' = [sub |-> NoSub, nodes |-> {}, edges |-> {}] BY DEF CloseEditor
  <1> QED BY <1>4, <1>5 DEF CanvasInv, IsEditor, Strict

\* The canvas shows a sheet and another one is active, or the same.
LEMMA ShownWhole ==
    ASSUME NEW c, Whole(c), NEW sh, AreSheets(sh), NEW a, NEW g, IsGraph(g), NEW G, Apart(G)
    PROVE  Whole([c EXCEPT !.sheets = sh, !.active = a, !.graph = g, !.groups = G])
  <1> DEFINE d == [c EXCEPT !.sheets = sh]
             e == [d EXCEPT !.active = a]
             f == [e EXCEPT !.graph = g]
  <1>1. [c EXCEPT !.sheets = sh, !.active = a, !.graph = g, !.groups = G]
          = [f EXCEPT !.groups = G]
    OBVIOUS
  <1>2. Whole(d) BY PartWhole
  <1> HIDE DEF d
  <1>3. Whole(e) BY <1>2, PartWhole
  <1> HIDE DEF e
  <1>4. Whole(f) BY <1>3, PartWhole
  <1> HIDE DEF f
  <1>5. Whole([f EXCEPT !.groups = G]) BY <1>4, PartWhole
  <1> QED BY <1>1, <1>5

LEMMA BlankSheet == IsSheet(NoSheet) /\ Apart({})
  BY FreshGraphs DEF IsSheet, NoSheet, Apart

LEMMA ShowSheetKeeps == ASSUME CanvasInv, NEW w \in Sheet, ShowSheet(w) PROVE CanvasInv'
  <1> DEFINE x == [graph |-> cv.graph, groups |-> cv.groups]
  <1>1. Commands([cv EXCEPT !.sheets = WrittenBack(cv), !.active = w,
                            !.graph = cv.sheets[w].graph, !.groups = cv.sheets[w].groups])
    BY DEF ShowSheet
  <1>2. IsSheet(cv.sheets[w]) BY Now DEF AreSheets
  <1>3. IsGraph(cv.sheets[w].graph) /\ Apart(cv.sheets[w].groups) BY <1>2 DEF IsSheet
  <1>4. IsSheet(x) BY Now DEF IsSheet
  <1>5. WrittenBack(cv) = [cv.sheets EXCEPT ![cv.active] = x] BY DEF WrittenBack
  <1> HIDE DEF x
  <1>6. AreSheets(WrittenBack(cv)) BY <1>4, <1>5, Now, SheetsWhole
  <1> QED BY <1>1, <1>3, <1>6, Now, ShownWhole, CommandKeeps

LEMMA NewSheetKeeps == ASSUME CanvasInv, NEW w \in Sheet, NewSheet(w) PROVE CanvasInv'
  <1> DEFINE sh == [cv.sheets EXCEPT ![w] = NoSheet]
             o == cv.open \cup {w}
             c == [cv EXCEPT !.open = o]
  <1>1. Commands([cv EXCEPT !.open = o, !.sheets[w] = NoSheet, !.active = w,
                            !.graph = Blank, !.groups = {}])
    BY DEF NewSheet
  <1>2. AreSheets(sh) BY Now, BlankSheet, SheetsWhole
  <1>3. o \subseteq Sheet BY Now
  <1> HIDE DEF o
  <1>4. Commands([c EXCEPT !.sheets = sh, !.active = w, !.graph = Blank, !.groups = {}])
    BY <1>1, Now DEF Whole, IsCanvas, CanvasOf
  <1>5. Whole(c) BY <1>3, Now, PartWhole
  <1> HIDE DEF c, sh
  <1> QED BY <1>2, <1>4, <1>5, FreshGraphs, BlankSheet, ShownWhole, CommandKeeps

LEMMA RemoveSheetKeeps == ASSUME CanvasInv, NEW w \in Sheet, RemoveSheet(w) PROVE CanvasInv'
  <1> DEFINE g(v) == IF w = cv.active THEN cv.sheets[v].graph ELSE cv.graph
             o == cv.open \ {w}
  <1>1. PICK v \in IF w = cv.active THEN cv.open \ {w} ELSE {cv.active} :
          Commands([cv EXCEPT !.open = o, !.active = v, !.graph = g(v)])
    BY DEF RemoveSheet
  <1> DEFINE c == [cv EXCEPT !.open = o]
             d == [c EXCEPT !.active = v]
  <1>2. IsGraph(g(v)) BY Now DEF AreSheets, IsSheet
  <1>3. o \subseteq Sheet BY Now
  <1> HIDE DEF o, g
  <1>4. Commands([d EXCEPT !.graph = g(v)]) BY <1>1, Now DEF Whole, IsCanvas, CanvasOf
  <1>5. Whole(c) BY <1>3, Now, PartWhole
  <1> HIDE DEF c
  <1>6. Whole(d) BY <1>5, PartWhole
  <1> HIDE DEF d
  <1> QED BY <1>2, <1>4, <1>6, PartWhole, CommandKeeps

LEMMA OpenOtherKeeps == ASSUME CanvasInv, OpenOther PROVE CanvasInv'
  <1> DEFINE g == [Blank EXCEPT !.nodes = {Len(made) + 1}]
             sh == [w \in Sheet |-> NoSheet]
             D == [s \in Sub |-> NoDef]
             o == [cv EXCEPT !.open = {HomeSheet}]
             d == [o EXCEPT !.sheets = sh, !.active = HomeSheet, !.graph = g, !.groups = {}]
  <1>1. IsGraph(g) BY FreshGraphs
  <1>2. AreSheets(sh) BY BlankSheet DEF AreSheets
  <1>3. Strict(NoDef) BY DEF Strict, NoDef
  <1>4. AreDefs(D) BY <1>3 DEF AreDefs
  <1>5. {HomeSheet} \subseteq Sheet BY CanvasAssumption
  <1>6. Commands([cv EXCEPT !.graph = g, !.groups = {}, !.sheets = sh, !.open = {HomeSheet},
                            !.active = HomeSheet, !.defs = D])
    BY DEF OpenOther
  <1> HIDE DEF g, sh, D
  <1>7. [d EXCEPT !.defs = D]
          = [cv EXCEPT !.graph = g, !.groups = {}, !.sheets = sh, !.open = {HomeSheet},
                       !.active = HomeSheet, !.defs = D]
    BY Now DEF Whole, IsCanvas, CanvasOf
  <1>8. Whole(o) BY <1>5, Now, PartWhole
  <1> HIDE DEF o
  <1>9. Whole(d) BY <1>1, <1>2, <1>8, BlankSheet, ShownWhole
  <1> HIDE DEF d
  <1>10. Whole([d EXCEPT !.defs = D]) BY <1>4, <1>9, PartWhole
  <1> QED BY <1>6, <1>7, <1>10, CommandKeeps

-----------------------------------------------------------------------------
LEMMA CanvasInvInit == ASSUME CanvasInit PROVE CanvasInv
  <1> DEFINE g == [nodes |-> {1, 2}, edges |-> {<<<<1, Sole>>, <<2, Sole>>>>}]
             x == [NoSheet EXCEPT !.graph.nodes = {3}]
             sh == [w \in Sheet |-> IF w = HomeSheet THEN NoSheet ELSE x]
             D == [s \in Sub |-> NoDef]
  <1>1. cv = CanvasOf(g, {}, HomeSheet, sh, Sheet, <<>>, <<>>, Blank, D)
    BY DEF CanvasInit, CanvasOf
  <1>2. IsGraph(g) BY DEF IsGraph, Anchored
  <1>3. x = [graph |-> [nodes |-> {3}, edges |-> {}], groups |-> {}] BY DEF NoSheet, Blank
  <1>4. IsGraph([nodes |-> {3}, edges |-> {}]) BY DEF IsGraph, Anchored
  <1>5. IsSheet(x) BY <1>3, <1>4, BlankSheet DEF IsSheet
  <1> HIDE DEF x, g
  <1>6. AreSheets(sh) BY <1>5, BlankSheet DEF AreSheets
  <1>7. Strict(NoDef) /\ Strict(Blank) BY DEF Strict, NoDef, Blank
  <1>8. AreDefs(D) BY <1>7 DEF AreDefs
  <1> HIDE DEF sh, D
  <1>9. Whole(cv) BY <1>1, <1>2, <1>6, <1>7, <1>8, BlankSheet, EmptyMemory, WholeOf
  <1>10. IsEditor(editor) BY DEF CanvasInit, IsEditor, Strict
  <1> QED BY <1>9, <1>10 DEF CanvasInv

LEMMA CanvasInvNext == CanvasInv /\ [CanvasNext]_canvasVars => CanvasInv'
  <1> SUFFICES ASSUME CanvasInv, [CanvasNext]_canvasVars PROVE CanvasInv' OBVIOUS
  <1>1. CASE UNCHANGED canvasVars
    BY <1>1 DEF canvasVars, CanvasInv, IsEditor, Strict
  <1>2. CASE UserSteps
    <2>1. CASE DropNode \/ Arrange \/ LoadGraph \/ ClearGraph \/ OpenOther \/ EditInner
      BY <2>1, DropNodeKeeps, ArrangeKeeps, LoadGraphKeeps, ClearGraphKeeps, OpenOtherKeeps,
         EditInnerKeeps
    <2>2. CASE PasteClipboard \/ UndoGraph \/ RedoGraph
      BY <2>2, PasteClipboardKeeps, UndoGraphKeeps, RedoGraphKeeps
    <2>3. CASE \E a \in cv.graph.nodes : PickNode(a) BY <2>3, PickNodeKeeps
    <2>4. CASE \E a, b \in cv.graph.nodes : Link(a, b) BY <2>4, LinkKeeps
    <2>5. CASE \E e \in cv.graph.edges, b \in cv.graph.nodes : Relink(e, b) BY <2>5, RelinkKeeps
    <2>6. CASE \E N \in Selections(cv.graph) :
                 \/ Erase(N) \/ DeleteSelected(N) \/ CopySelection(N) \/ DuplicateSelection(N)
                 \/ \E s \in Sub : CreateGroup(N, s) \/ Pack(N, s)
      BY <2>6, EraseKeeps, CopySelectionKeeps, DuplicateSelectionKeeps, CreateGroupKeeps, PackKeeps
    <2>7. CASE \E w \in cv.open : \E N \in Selections(cv.sheets[w].graph) :
                 DeleteInPane(w, N) \/ EraseInPane(w, N)
      BY <2>7, PaneKeeps
    <2>8. CASE \E g \in cv.groups : RemoveGroup(g) BY <2>8, RemoveGroupKeeps
    <2>9. CASE \E n \in cv.graph.nodes : Unpack(n) BY <2>9, UnpackKeeps
    <2>10. CASE \E s \in Sub : AddReference(s) \/ RemoveSubgraph(s) \/ OpenEditor(s)
      BY <2>10, AddReferenceKeeps, RemoveSubgraphKeeps, OpenEditorKeeps
    <2>11. CASE \E w \in Sheet : ShowSheet(w) \/ NewSheet(w) \/ RemoveSheet(w)
      BY <2>11, ShowSheetKeeps, NewSheetKeeps, RemoveSheetKeeps
    <2> QED
      BY <1>2, <2>1, <2>2, <2>3, <2>4, <2>5, <2>6, <2>7, <2>8, <2>9, <2>10, <2>11 DEF UserSteps
  <1>3. CASE \E g \in Stray(cv) : PruneGroup(g) BY <1>3, PruneGroupKeeps
  <1>4. CASE CloseEditor BY <1>4, CloseEditorKeeps
  <1> QED BY <1>1, <1>2, <1>3, <1>4 DEF CanvasNext

LEMMA MemoryAnchored == ASSUME NEW p, Memory(p) PROVE \A i \in DOMAIN p : Anchored(p[i])
  <1>1. PICK X : p \in Seq(X) /\ \A g \in X : IsGraph(g) BY DEF Memory
  <1>2. \A i \in DOMAIN p : p[i] \in X BY <1>1
  <1> QED BY <1>1, <1>2 DEF IsGraph

LEMMA WholeCanvas == CanvasInv => CanvasWhole
  <1> SUFFICES ASSUME CanvasInv PROVE CanvasWhole OBVIOUS
  <1>1. Whole(cv) /\ Strict(editor) BY DEF CanvasInv, IsEditor
  <1>2. Anchored(cv.graph) BY <1>1 DEF Whole, IsGraph
  <1>3. \A x : Strict(x) => Anchored(x) BY DEF Strict, Anchored
  <1>4. \A w \in Sheet : Anchored(cv.sheets[w].graph) BY <1>1 DEF Whole, AreSheets, IsSheet, IsGraph
  <1>5. Anchored(cv.clip) /\ Anchored(editor) /\ \A s \in Sub : Anchored(cv.defs[s])
    BY <1>1, <1>3 DEF Whole, AreDefs
  <1>6. /\ \A i \in DOMAIN cv.past : Anchored(cv.past[i])
        /\ \A i \in DOMAIN cv.future : Anchored(cv.future[i])
    BY <1>1, MemoryAnchored DEF Whole
  <1>7. \A g, h \in cv.groups : g = h \/ g.members \cap h.members = {} BY <1>1 DEF Whole, Apart
  <1> QED BY <1>2, <1>4, <1>5, <1>6, <1>7 DEF CanvasWhole

\* Whatever the user does at the canvas - deleting, pasting, undoing, grouping,
\* packing, editing a subgraph, changing the workflow or the project, in any order
\* - no edge is left tied to a node that is not there, save at a port whose inner
\* node the editor deleted, and no node is in two groups.
THEOREM CanvasStaysWhole == CanvasSpec => []CanvasWhole
  <1>1. CanvasInit => CanvasInv BY CanvasInvInit
  <1>2. CanvasInv /\ [CanvasNext]_canvasVars => CanvasInv' BY CanvasInvNext
  <1>3. CanvasInv => CanvasWhole BY WholeCanvas
  <1> QED BY <1>1, <1>2, <1>3, PTL DEF CanvasSpec

=============================================================================
