-------------------------- MODULE NodeCalls_proofs --------------------------
(***************************************************************************)
(* Proofs about what a node of a workflow calls: PluginSandbox, for any    *)
(* calls, projects and bounds on workers and heartbeats, and LlmCall, for  *)
(* any finite set of requests, any candidates and any number of permits.   *)
(***************************************************************************)
EXTENDS PluginSandbox, LlmCall, RecursionLemmas

-----------------------------------------------------------------------------
(***************************************************************************)
(* PluginSandbox. An execution is in one place of one worker: asked for,   *)
(* under way or answered; so an answer is taken for the execution it is    *)
(* of.                                                                     *)
(***************************************************************************)

CallId == PlCall \cup {NoCall}
Result == {"execute:result", "execute:error"}
Order == {"load-plugin", "execute", "abort", "ping"} \X CallId
Answer == ({"ready", "load-error", "crash", "heartbeat"} \cup Result) \X CallId

SandboxWorker ==
  [code : PlProject, alive : BOOLEAN, doing : CallId, stopping : BOOLEAN,
   inbox : Seq(Order), outbox : Seq(Answer)]
SandboxCall ==
  [stage : {"new", "waiting", "running", "done", "failed", "overdue"},
   worker : Nat, stopped : BOOLEAN, got : CallId]

SandboxTypeOK ==
  /\ openProject \in [project : PlProject, lane : Nat]
  /\ scans \subseteq PlProject \X Nat \X BOOLEAN /\ scanned \in Nat
  /\ boundPack \in PlProject \cup {NoPack}
  /\ workers \in Seq(SandboxWorker)
  /\ slot \in [worker : Nat, ready : BOOLEAN, current : CallId, missed : Nat]
  /\ calls \in [PlCall -> SandboxCall]

Orders(x) == {i \in DOMAIN x.inbox : x.inbox[i][1] = "execute"}
Results(x) == {i \in DOMAIN x.outbox : x.outbox[i][1] \in Result}

\* What the worker x has of executions is of the call e alone, and in one place:
\* asked for, under way or answered.
Serves(x, e) ==
  /\ \A i \in Orders(x) : e # NoCall /\ x.inbox[i][2] = e
  /\ \A i \in Results(x) : e # NoCall /\ x.outbox[i][2] = e
  /\ x.doing \in {NoCall, e}
  /\ \A i, j \in Orders(x) : i = j
  /\ \A i, j \in Results(x) : i = j
  /\ Orders(x) # {} => x.doing = NoCall /\ Results(x) = {}
  /\ x.doing # NoCall => Results(x) = {}

Hosted ==
  /\ slot.worker \in 0 .. Len(workers)
  /\ ~slot.ready => slot.current = NoCall
  /\ slot.worker = 0 => ~slot.ready /\ InStage("waiting") = {}
  /\ slot.worker # 0 => Serves(workers[slot.worker], slot.current)

SandboxInv == SandboxTypeOK /\ Hosted /\ SandboxSound

-----------------------------------------------------------------------------
LEMMA WorkerParts ==
    ASSUME NEW x \in SandboxWorker
    PROVE  /\ x.inbox \in Seq(Order) /\ x.outbox \in Seq(Answer) /\ x.doing \in CallId
           /\ x.code \in PlProject
           /\ \A i \in DOMAIN x.inbox : i \in 1 .. Len(x.inbox) /\ x.inbox[i] \in Order
           /\ \A i \in DOMAIN x.outbox : i \in 1 .. Len(x.outbox) /\ x.outbox[i] \in Answer
  BY DEF SandboxWorker

\* The first message is taken out of the worker's inbox.
LEMMA Taken ==
    ASSUME NEW x \in SandboxWorker, NEW e \in CallId, Serves(x, e), x.inbox # <<>>,
           NEW y, y = [x EXCEPT !.inbox = Tail(@)]
    PROVE  /\ y \in SandboxWorker
           /\ Head(x.inbox)[1] # "execute" => Serves(y, e)
           /\ Head(x.inbox)[1] = "execute" =>
                /\ e # NoCall /\ Head(x.inbox)[2] = e
                /\ Orders(y) = {} /\ x.doing = NoCall /\ Results(x) = {}
  <1>1. x.inbox \in Seq(Order) /\ x.outbox \in Seq(Answer) BY WorkerParts
  <1>2. /\ Tail(x.inbox) \in Seq(Order) /\ Len(Tail(x.inbox)) = Len(x.inbox) - 1
        /\ Len(x.inbox) > 0 /\ DOMAIN x.inbox = 1 .. Len(x.inbox)
        /\ DOMAIN Tail(x.inbox) = 1 .. Len(x.inbox) - 1
        /\ \A i \in DOMAIN Tail(x.inbox) : i + 1 \in DOMAIN x.inbox /\ Tail(x.inbox)[i] = x.inbox[i + 1]
        /\ Head(x.inbox) = x.inbox[1] /\ 1 \in DOMAIN x.inbox
    BY <1>1
  <1>3. /\ y \in SandboxWorker /\ y.inbox = Tail(x.inbox) /\ y.outbox = x.outbox
        /\ y.doing = x.doing
    BY <1>1, <1>2 DEF SandboxWorker
  <1>4. /\ Results(y) = Results(x)
        /\ \A i \in Orders(y) : i + 1 \in Orders(x) /\ y.inbox[i] = x.inbox[i + 1]
    BY <1>2, <1>3 DEF Orders, Results
  <1>5. \A i, j \in Orders(y) : i \in Nat /\ j \in Nat BY <1>2, <1>3 DEF Orders
  <1>8. \A i, j \in Orders(y) : i = j
    <2> TAKE i, j \in Orders(y)
    <2>1. i + 1 = j + 1 BY <1>4 DEF Serves
    <2>2. i \in Nat /\ j \in Nat BY <1>5
    <2> QED BY <2>1, <2>2
  <1>9. Orders(x) = {} => Orders(y) = {} BY <1>4
  <1>10. \A i \in Orders(y) : e # NoCall /\ y.inbox[i][2] = e BY <1>4 DEF Serves
  <1>11. \A i \in Results(y) : e # NoCall /\ y.outbox[i][2] = e BY <1>3, <1>4 DEF Serves
  <1>12. \A i, j \in Results(y) : i = j BY <1>4 DEF Serves
  <1>6. Serves(y, e) BY <1>3, <1>4, <1>8, <1>9, <1>10, <1>11, <1>12 DEF Serves
  <1>7. ASSUME Head(x.inbox)[1] = "execute"
        PROVE  /\ e # NoCall /\ Head(x.inbox)[2] = e
               /\ Orders(y) = {} /\ x.doing = NoCall /\ Results(x) = {}
    <2>1. 1 \in Orders(x) BY <1>2, <1>7 DEF Orders
    <2>2. \A i \in Orders(y) : i + 1 = 1 BY <1>4, <2>1 DEF Serves
    <2>3. \A i \in Orders(y) : i \in 1 .. Len(x.inbox) - 1 BY <1>2, <1>3 DEF Orders
    <2>4. ASSUME NEW i \in Orders(y) PROVE FALSE
      <3>1. i + 1 = 1 /\ i \in 1 .. Len(x.inbox) - 1 BY <2>2, <2>3
      <3> QED BY <1>1, <3>1
    <2>5. Orders(y) = {} BY <2>4
    <2> QED BY <1>2, <2>1, <2>5 DEF Serves
  <1> QED BY <1>3, <1>6, <1>7

\* The worker posts a message which is no result.
LEMMA Posted ==
    ASSUME NEW x \in SandboxWorker, NEW e \in CallId, Serves(x, e), NEW a \in Answer,
           a[1] \notin Result, NEW y, y = [x EXCEPT !.outbox = Append(@, a)]
    PROVE  y \in SandboxWorker /\ Serves(y, e)
  <1>1. x.inbox \in Seq(Order) /\ x.outbox \in Seq(Answer) BY WorkerParts
  <1>2. /\ Append(x.outbox, a) \in Seq(Answer)
        /\ DOMAIN Append(x.outbox, a) = 1 .. Len(x.outbox) + 1
        /\ DOMAIN x.outbox = 1 .. Len(x.outbox)
        /\ \A i \in DOMAIN x.outbox : Append(x.outbox, a)[i] = x.outbox[i]
        /\ Append(x.outbox, a)[Len(x.outbox) + 1] = a
    BY <1>1
  <1>3. /\ y \in SandboxWorker /\ y.inbox = x.inbox /\ y.outbox = Append(x.outbox, a)
        /\ y.doing = x.doing
    BY <1>1, <1>2 DEF SandboxWorker
  <1>4. /\ Orders(y) = Orders(x) /\ Results(y) = Results(x)
        /\ \A i \in Results(x) : y.outbox[i] = x.outbox[i]
    BY <1>2, <1>3 DEF Orders, Results
  <1> QED BY <1>3, <1>4 DEF Serves

\* The worker has done its execution and posts what came of it.
LEMMA Answered ==
    ASSUME NEW x \in SandboxWorker, NEW e \in CallId, Serves(x, e), x.doing # NoCall,
           NEW v \in Result,
           NEW y, y = [x EXCEPT !.outbox = Append(@, <<v, x.doing>>), !.doing = NoCall,
                                !.stopping = FALSE]
    PROVE  y \in SandboxWorker /\ Serves(y, e)
  <1>1. x.inbox \in Seq(Order) /\ x.outbox \in Seq(Answer) /\ x.doing \in CallId BY WorkerParts
  <1> DEFINE a == <<v, x.doing>>
  <1>0. a \in Answer /\ a[1] = v /\ a[2] = x.doing BY <1>1 DEF Answer
  <1> HIDE DEF a
  <1>2. /\ Append(x.outbox, a) \in Seq(Answer)
        /\ DOMAIN Append(x.outbox, a) = 1 .. Len(x.outbox) + 1
        /\ DOMAIN x.outbox = 1 .. Len(x.outbox)
        /\ \A i \in DOMAIN x.outbox : Append(x.outbox, a)[i] = x.outbox[i]
        /\ Append(x.outbox, a)[Len(x.outbox) + 1] = a
    BY <1>0, <1>1
  <1>3. y = [x EXCEPT !.outbox = Append(@, a), !.doing = NoCall, !.stopping = FALSE]
    BY DEF a
  <1>4. /\ y \in SandboxWorker /\ y.inbox = x.inbox /\ y.outbox = Append(x.outbox, a)
        /\ y.doing = NoCall
    BY <1>1, <1>2, <1>3 DEF SandboxWorker, CallId
  <1>5. Results(x) = {} /\ Orders(x) = {} /\ x.doing = e BY DEF Serves
  <1>6. Orders(y) = {} BY <1>4, <1>5 DEF Orders
  <1>7. \A i \in Results(y) : i = Len(x.outbox) + 1 /\ y.outbox[i] = a
    BY <1>2, <1>4, <1>5 DEF Results
  <1> QED BY <1>0, <1>4, <1>5, <1>6, <1>7 DEF Serves

\* The host takes the first message of the worker.
LEMMA Heard ==
    ASSUME NEW x \in SandboxWorker, NEW e \in CallId, Serves(x, e), x.outbox # <<>>,
           NEW y, y = [x EXCEPT !.outbox = Tail(@)]
    PROVE  /\ y \in SandboxWorker /\ Serves(y, e)
           /\ Head(x.outbox)[1] \in Result =>
                e # NoCall /\ Head(x.outbox)[2] = e /\ Serves(y, NoCall)
           /\ Head(x.outbox) \in Answer
  <1>1. x.inbox \in Seq(Order) /\ x.outbox \in Seq(Answer) BY WorkerParts
  <1>2. /\ Tail(x.outbox) \in Seq(Answer)
        /\ Len(x.outbox) > 0 /\ DOMAIN x.outbox = 1 .. Len(x.outbox)
        /\ DOMAIN Tail(x.outbox) = 1 .. Len(x.outbox) - 1
        /\ \A i \in DOMAIN Tail(x.outbox) : i + 1 \in DOMAIN x.outbox /\ Tail(x.outbox)[i] = x.outbox[i + 1]
        /\ Head(x.outbox) = x.outbox[1] /\ 1 \in DOMAIN x.outbox /\ x.outbox[1] \in Answer
    BY <1>1
  <1>3. /\ y \in SandboxWorker /\ y.outbox = Tail(x.outbox) /\ y.inbox = x.inbox
        /\ y.doing = x.doing
    BY <1>1, <1>2 DEF SandboxWorker
  <1>4. /\ Orders(y) = Orders(x)
        /\ \A i \in Results(y) : i + 1 \in Results(x) /\ y.outbox[i] = x.outbox[i + 1]
    BY <1>2, <1>3 DEF Orders, Results
  <1>5. \A i, j \in Results(y) : i \in Nat /\ j \in Nat BY <1>2, <1>3 DEF Results
  <1>6. Results(x) = {} => Results(y) = {} BY <1>4
  <1>9. \A i, j \in Results(y) : i = j
    <2> TAKE i, j \in Results(y)
    <2>1. i + 1 = j + 1 BY <1>4 DEF Serves
    <2>2. i \in Nat /\ j \in Nat BY <1>5
    <2> QED BY <2>1, <2>2
  <1>10. \A i \in Results(y) : e # NoCall /\ y.outbox[i][2] = e BY <1>4 DEF Serves
  <1>11. /\ \A i \in Orders(y) : e # NoCall /\ y.inbox[i][2] = e
         /\ \A i, j \in Orders(y) : i = j
    BY <1>3, <1>4 DEF Serves
  <1>7. Serves(y, e) BY <1>3, <1>4, <1>6, <1>9, <1>10, <1>11 DEF Serves
  <1>8. ASSUME Head(x.outbox)[1] \in Result
        PROVE  e # NoCall /\ Head(x.outbox)[2] = e /\ Serves(y, NoCall)
    <2>1. 1 \in Results(x) BY <1>2, <1>8 DEF Results
    <2>2. \A i \in Results(y) : i + 1 = 1 BY <1>4, <2>1 DEF Serves
    <2>3. \A i \in Results(y) : i \in 1 .. Len(x.outbox) - 1 BY <1>2, <1>3 DEF Results
    <2>7. ASSUME NEW i \in Results(y) PROVE FALSE
      <3>1. i + 1 = 1 /\ i \in 1 .. Len(x.outbox) - 1 BY <2>2, <2>3
      <3> QED BY <1>1, <3>1
    <2>4. Results(y) = {} BY <2>7
    <2>5. Orders(y) = {} /\ y.doing = NoCall BY <1>3, <1>4, <2>1 DEF Serves
    <2>6. Serves(y, NoCall) BY <2>4, <2>5 DEF Serves
    <2> QED BY <1>2, <2>1, <2>6 DEF Serves
  <1> QED BY <1>2, <1>3, <1>7, <1>8

\* The host sends the worker a message which asks for no execution.
LEMMA Reached ==
    ASSUME NEW x \in SandboxWorker, NEW e \in CallId, Serves(x, e), NEW o \in Order,
           o[1] # "execute", NEW y, y = [x EXCEPT !.inbox = @ \o <<o>>]
    PROVE  y \in SandboxWorker /\ Serves(y, e)
  <1>1. x.inbox \in Seq(Order) /\ x.outbox \in Seq(Answer) BY WorkerParts
  <1>2. /\ x.inbox \o <<o>> \in Seq(Order)
        /\ DOMAIN (x.inbox \o <<o>>) = 1 .. Len(x.inbox) + 1
        /\ DOMAIN x.inbox = 1 .. Len(x.inbox)
        /\ \A i \in DOMAIN x.inbox : (x.inbox \o <<o>>)[i] = x.inbox[i]
        /\ (x.inbox \o <<o>>)[Len(x.inbox) + 1] = o
    BY <1>1
  <1>3. /\ y \in SandboxWorker /\ y.outbox = x.outbox /\ y.inbox = x.inbox \o <<o>>
        /\ y.doing = x.doing
    BY <1>1, <1>2 DEF SandboxWorker
  <1>4. /\ Orders(y) = Orders(x) /\ Results(y) = Results(x)
        /\ \A i \in Orders(x) : y.inbox[i] = x.inbox[i]
    BY <1>2, <1>3 DEF Orders, Results
  <1> QED BY <1>3, <1>4 DEF Serves

\* The host asks a worker that serves no call for an execution.
LEMMA Asked ==
    ASSUME NEW x \in SandboxWorker, NEW e \in PlCall, Serves(x, NoCall),
           NEW y, y = [x EXCEPT !.inbox = @ \o <<<<"execute", e>>>>]
    PROVE  y \in SandboxWorker /\ Serves(y, e)
  <1>1. x.inbox \in Seq(Order) /\ x.outbox \in Seq(Answer) BY WorkerParts
  <1> DEFINE o == <<"execute", e>>
  <1>0. o \in Order /\ o[1] = "execute" /\ o[2] = e BY DEF Order, CallId
  <1> HIDE DEF o
  <1>2. /\ x.inbox \o <<o>> \in Seq(Order)
        /\ DOMAIN (x.inbox \o <<o>>) = 1 .. Len(x.inbox) + 1
        /\ DOMAIN x.inbox = 1 .. Len(x.inbox)
        /\ \A i \in DOMAIN x.inbox : (x.inbox \o <<o>>)[i] = x.inbox[i]
        /\ (x.inbox \o <<o>>)[Len(x.inbox) + 1] = o
    BY <1>0, <1>1
  <1>3. /\ y \in SandboxWorker /\ y.outbox = x.outbox /\ y.inbox = x.inbox \o <<o>>
        /\ y.doing = x.doing
    BY <1>1, <1>2 DEF SandboxWorker, o
  <1>4. Orders(x) = {} /\ Results(x) = {} /\ x.doing = NoCall BY DEF Serves
  <1>5. Results(y) = {} BY <1>3, <1>4 DEF Results
  <1>6. ASSUME NEW i \in Orders(y) PROVE i = Len(x.inbox) + 1 /\ y.inbox[i] = o
    <2>1. i \in 1 .. Len(x.inbox) + 1 /\ (x.inbox \o <<o>>)[i][1] = "execute"
      BY <1>2, <1>3 DEF Orders
    <2>2. CASE i \in DOMAIN x.inbox
      <3>1. i \in Orders(x) BY <1>2, <2>1, <2>2 DEF Orders
      <3> QED BY <1>4, <3>1
    <2> QED BY <1>1, <1>2, <1>3, <2>1, <2>2
  <1>7. e # NoCall BY SandboxAssumption
  <1> QED BY <1>0, <1>3, <1>4, <1>5, <1>6, <1>7 DEF Serves

-----------------------------------------------------------------------------
\* What the change of one worker leaves of the list.
LEMMA OneWorker ==
    ASSUME workers \in Seq(SandboxWorker), NEW w \in DOMAIN workers, NEW y \in SandboxWorker,
           workers' = [workers EXCEPT ![w] = y]
    PROVE  /\ workers' \in Seq(SandboxWorker) /\ Len(workers') = Len(workers)
           /\ DOMAIN workers' = DOMAIN workers /\ workers'[w] = y
           /\ \A v \in DOMAIN workers : v # w => workers'[v] = workers[v]
  OBVIOUS

LEMMA SlotsWorker ==
    ASSUME SandboxInv, slot.worker # 0
    PROVE  /\ slot.worker \in DOMAIN workers /\ workers[slot.worker] \in SandboxWorker
           /\ Serves(workers[slot.worker], slot.current) /\ slot.current \in CallId
  <1>1. workers \in Seq(SandboxWorker) BY DEF SandboxInv, SandboxTypeOK
  <1>2. slot.worker \in 1 .. Len(workers) BY <1>1 DEF SandboxInv, SandboxTypeOK, Hosted
  <1> QED BY <1>1, <1>2 DEF SandboxInv, SandboxTypeOK, Hosted

LEMMA NewTyped ==
    ASSUME NEW p \in PlProject
    PROVE  /\ NewWorker(p) \in SandboxWorker /\ Serves(NewWorker(p), NoCall)
           /\ [NewWorker(p) EXCEPT !.alive = FALSE, !.inbox = <<>>] \in SandboxWorker
           /\ [NewWorker(p) EXCEPT !.alive = FALSE, !.inbox = <<>>].code = p
           /\ NewWorker(p).code = p
  <1> DEFINE o == <<"load-plugin", NoCall>>
  <1>1. o \in Order /\ o[1] = "load-plugin" BY DEF Order, CallId
  <1> HIDE DEF o
  <1>2. <<o>> \in Seq(Order) /\ <<>> \in Seq(Order) /\ <<>> \in Seq(Answer) BY <1>1
  <1>3. NewWorker(p) = [code |-> p, alive |-> TRUE, doing |-> NoCall, stopping |-> FALSE,
                        inbox |-> <<o>>, outbox |-> <<>>]
    BY DEF NewWorker, o
  <1>4. NewWorker(p) \in SandboxWorker BY <1>2, <1>3 DEF SandboxWorker, CallId
  <1>5. /\ [NewWorker(p) EXCEPT !.alive = FALSE, !.inbox = <<>>] \in SandboxWorker
        /\ [NewWorker(p) EXCEPT !.alive = FALSE, !.inbox = <<>>].code = NewWorker(p).code
    <2> DEFINE x == NewWorker(p)
    <2> HIDE DEF x
    <2>1. x \in SandboxWorker BY <1>4 DEF x
    <2>2. /\ [x EXCEPT !.alive = FALSE, !.inbox = <<>>] \in SandboxWorker
          /\ [x EXCEPT !.alive = FALSE, !.inbox = <<>>].code = x.code
      BY <1>2, <2>1 DEF SandboxWorker
    <2> QED BY <2>2 DEF x
  <1>6. DOMAIN NewWorker(p).inbox = {1} /\ NewWorker(p).inbox[1] = o
    BY <1>3
  <1>7. Orders(NewWorker(p)) = {} BY <1>1, <1>6 DEF Orders
  <1>8. Results(NewWorker(p)) = {} BY <1>3 DEF Results
  <1>11. NewWorker(p).doing = NoCall BY <1>3
  <1>9. Serves(NewWorker(p), NoCall) BY <1>7, <1>8, <1>11 DEF Serves
  <1> QED BY <1>3, <1>4, <1>5, <1>9

\* The state of the host and of the calls after a worker was ended.
LEMMA DisposeKeeps ==
    ASSUME SandboxInv, NEW fate \in {"failed", "overdue"}, Dispose(fate),
           openProject' \in [project : PlProject, lane : Nat],
           scans' \subseteq PlProject \X Nat \X BOOLEAN, scanned' \in Nat,
           boundPack' \in {boundPack, NoPack},
           boundPack' # NoPack => openProject' = openProject
    PROVE  SandboxInv'
  <1>1. /\ workers \in Seq(SandboxWorker) /\ calls \in [PlCall -> SandboxCall]
        /\ boundPack \in PlProject \cup {NoPack}
    BY DEF SandboxInv, SandboxTypeOK
  <1>2. workers' \in Seq(SandboxWorker)
    <2> DEFINE y(w) == IF w = slot.worker
                       THEN [NewWorker(workers[w].code) EXCEPT !.alive = FALSE, !.inbox = <<>>]
                       ELSE workers[w]
    <2>4. DOMAIN workers = 1 .. Len(workers) BY <1>1
    <2>1. workers' = [w \in 1 .. Len(workers) |-> y(w)] BY <2>4 DEF Dispose
    <2>2. \A w \in 1 .. Len(workers) : y(w) \in SandboxWorker
      <3> TAKE w \in 1 .. Len(workers)
      <3>1. workers[w] \in SandboxWorker BY <1>1
      <3>2. workers[w].code \in PlProject BY <3>1, WorkerParts
      <3> QED BY <3>1, <3>2, NewTyped
    <2> HIDE DEF y
    <2>3. Len(workers) \in Nat BY <1>1
    <2> QED BY <2>1, <2>2, <2>3
  <1>3. slot' = NoSlot /\ NoSlot \in [worker : Nat, ready : BOOLEAN, current : CallId, missed : Nat]
    BY DEF Dispose, NoSlot, CallId
  <1> DEFINE over(e) == e = slot.current \/ (calls[e].stage = "waiting" /\ calls[e].worker = slot.worker)
  <1>4. calls' = [e \in PlCall |-> IF over(e) THEN [calls[e] EXCEPT !.stage = fate] ELSE calls[e]]
    BY DEF Dispose
  <1> HIDE DEF over
  <1>5. \A e \in PlCall : /\ calls'[e] \in SandboxCall
                          /\ calls'[e].got = calls[e].got
                          /\ calls'[e].stage \in {"waiting", "running"} => ~over(e) /\ calls'[e] = calls[e]
    <2> TAKE e \in PlCall
    <2>1. calls[e] \in SandboxCall BY <1>1
    <2>2. [calls[e] EXCEPT !.stage = fate] \in SandboxCall BY <2>1 DEF SandboxCall
    <2>3. /\ [calls[e] EXCEPT !.stage = fate].got = calls[e].got
          /\ [calls[e] EXCEPT !.stage = fate].stage = fate
      BY <2>1 DEF SandboxCall
    <2> QED BY <1>4, <2>1, <2>2, <2>3
  <1>6. \A e \in PlCall : calls'[e].stage \notin {"waiting", "running"}
    BY <1>5 DEF over, SandboxInv, SandboxSound
  <1>7. SandboxTypeOK' BY <1>1, <1>2, <1>3, <1>4, <1>5 DEF SandboxTypeOK
  <1>8. Hosted'
    <2>1. Len(workers') \in Nat BY <1>2
    <2> QED BY <1>3, <1>6, <2>1 DEF Hosted, NoSlot, InStage
  <1>9. SandboxSound'
    BY <1>3, <1>5, <1>6 DEF SandboxSound, SandboxInv, NoSlot
  <1> QED BY <1>7, <1>8, <1>9 DEF SandboxInv

\* A step that changes one worker, and nothing of the calls or of the slot.
LEMMA WorkerKeeps ==
    ASSUME SandboxInv, NEW w \in DOMAIN workers, NEW y \in SandboxWorker,
           workers' = [workers EXCEPT ![w] = y], y.code = workers[w].code,
           w = slot.worker => Serves(y, slot.current),
           UNCHANGED <<openProject, scans, scanned, boundPack, slot, calls>>
    PROVE  SandboxInv'
  <1>1. workers \in Seq(SandboxWorker) BY DEF SandboxInv, SandboxTypeOK
  <1>2. /\ workers' \in Seq(SandboxWorker) /\ Len(workers') = Len(workers)
        /\ DOMAIN workers' = DOMAIN workers /\ workers'[w] = y
        /\ \A v \in DOMAIN workers : v # w => workers'[v] = workers[v]
    BY <1>1, OneWorker
  <1>3. SandboxTypeOK' BY <1>2 DEF SandboxInv, SandboxTypeOK
  <1>4. slot.worker # 0 => slot.worker \in DOMAIN workers BY SlotsWorker
  <1>5. Hosted' BY <1>2, <1>4 DEF SandboxInv, Hosted, InStage
  <1>6. SandboxSound' BY <1>2, <1>4 DEF SandboxInv, SandboxSound
  <1> QED BY <1>3, <1>5, <1>6 DEF SandboxInv

LEMMA FinishKeeps ==
    ASSUME SandboxInv, NEW w \in DOMAIN workers, Finish(w) PROVE SandboxInv'
  <1>1. workers \in Seq(SandboxWorker) BY DEF SandboxInv, SandboxTypeOK
  <1>2. workers[w] \in SandboxWorker BY <1>1
  <1>3. PICK v \in Result :
          workers' = [workers EXCEPT ![w].outbox = Append(@, <<v, workers[w].doing>>),
                                     ![w].doing = NoCall, ![w].stopping = FALSE]
    BY DEF Finish, Result
  <1> DEFINE x == workers[w]
             y == [x EXCEPT !.outbox = Append(@, <<v, x.doing>>), !.doing = NoCall, !.stopping = FALSE]
  <1>4. workers' = [workers EXCEPT ![w] = y] BY <1>1, <1>2, <1>3
  <1>5. y.code = x.code BY <1>2 DEF SandboxWorker
  <1>6. y \in SandboxWorker
    <2>1. x.doing \in CallId /\ x.outbox \in Seq(Answer) BY <1>2, WorkerParts
    <2>2. <<v, x.doing>> \in Answer BY <2>1 DEF Answer
    <2>3. Append(x.outbox, <<v, x.doing>>) \in Seq(Answer) BY <2>1, <2>2
    <2> QED BY <1>2, <2>3 DEF SandboxWorker, CallId
  <1>7. ASSUME w = slot.worker PROVE Serves(y, slot.current)
    <2>1. Serves(x, slot.current) /\ slot.current \in CallId
      <3>1. DOMAIN workers = 1 .. Len(workers) BY <1>1
      <3> QED BY <1>7, <3>1, SlotsWorker
    <2>2. x.doing # NoCall BY DEF Finish
    <2> HIDE DEF x
    <2> QED BY <1>2, <2>1, <2>2, Answered DEF x
  <1> HIDE DEF y
  <1> QED BY <1>4, <1>5, <1>6, <1>7, WorkerKeeps DEF Finish, x

LEMMA CrashKeeps ==
    ASSUME SandboxInv, NEW w \in DOMAIN workers, Crash(w) PROVE SandboxInv'
  <1>1. workers \in Seq(SandboxWorker) BY DEF SandboxInv, SandboxTypeOK
  <1> DEFINE x == workers[w]
             a == <<"crash", NoCall>>
             y == [x EXCEPT !.outbox = Append(@, a)]
  <1>2. x \in SandboxWorker BY <1>1
  <1>3. a \in Answer /\ a[1] \notin Result BY DEF Answer, Result, CallId
  <1>4. workers' = [workers EXCEPT ![w] = y] BY <1>1 DEF Crash, Posts
  <1>5. y \in SandboxWorker /\ y.code = x.code
    <2>1. x.outbox \in Seq(Answer) BY <1>2, WorkerParts
    <2>2. Append(x.outbox, a) \in Seq(Answer) BY <1>3, <2>1
    <2> HIDE DEF a, x
    <2> QED BY <1>2, <2>2 DEF SandboxWorker
  <1>6. ASSUME w = slot.worker PROVE Serves(y, slot.current)
    <2>1. DOMAIN workers = 1 .. Len(workers) BY <1>1
    <2>2. Serves(x, slot.current) /\ slot.current \in CallId BY <1>6, <2>1, SlotsWorker
    <2> HIDE DEF x, a
    <2> QED BY <1>2, <1>3, <2>2, Posted
  <1> HIDE DEF y
  <1> QED BY <1>4, <1>5, <1>6, WorkerKeeps DEF Crash, x

LEMMA TakeMessageKeeps ==
    ASSUME SandboxInv, NEW w \in DOMAIN workers, TakeMessage(w) PROVE SandboxInv'
  <1>1. workers \in Seq(SandboxWorker) /\ DOMAIN workers = 1 .. Len(workers)
    BY DEF SandboxInv, SandboxTypeOK
  <1> DEFINE z == workers[w]
             m == Head(z.inbox)
             x == [z EXCEPT !.inbox = Tail(@)]
             Says(a) == [x EXCEPT !.outbox = Append(@, a)]
  <1>2. z \in SandboxWorker /\ z.inbox # <<>> BY <1>1 DEF TakeMessage
  <1>3. PICK y : /\ workers' = [workers EXCEPT ![w] = y]
                 /\ y \in CASE m[1] = "load-plugin" ->
                              {Says(<<"ready", NoCall>>), Says(<<"load-error", NoCall>>)}
                         [] m[1] = "ping" -> {Says(<<"heartbeat", m[2]>>)}
                         [] m[1] = "abort" -> {[x EXCEPT !.stopping = x.doing # NoCall]}
                         [] m[1] = "execute" ->
                              IF x.doing # NoCall THEN {Says(<<"execute:error", m[2]>>)}
                              ELSE {[x EXCEPT !.doing = m[2], !.stopping = FALSE]}
    BY DEF TakeMessage
  <1>4. m \in Order
    <2>1. z.inbox \in Seq(Order) BY <1>2, WorkerParts
    <2> QED BY <1>2, <2>1
  <1>5. m[1] \in {"load-plugin", "execute", "abort", "ping"} /\ m[2] \in CallId
    BY <1>4 DEF Order
  <1>6. x \in SandboxWorker /\ x.code = z.code /\ x.doing = z.doing /\ Results(x) = Results(z)
    <2>1. z.inbox \in Seq(Order) BY <1>2, WorkerParts
    <2>2. Tail(z.inbox) \in Seq(Order) BY <1>2, <2>1
    <2> HIDE DEF z
    <2> QED BY <1>2, <2>2 DEF SandboxWorker, Results
  <1>7. w = slot.worker => Serves(z, slot.current) /\ slot.current \in CallId
    BY <1>1, SlotsWorker
  <1>8. w = slot.worker =>
          /\ m[1] # "execute" => Serves(x, slot.current)
          /\ m[1] = "execute" => /\ slot.current # NoCall /\ m[2] = slot.current
                                 /\ Orders(x) = {} /\ x.doing = NoCall /\ Results(x) = {}
    <2> HIDE DEF z
    <2>1. SUFFICES ASSUME w = slot.worker
                   PROVE /\ m[1] # "execute" => Serves(x, slot.current)
                         /\ m[1] = "execute" => /\ slot.current # NoCall /\ m[2] = slot.current
                                                /\ Orders(x) = {} /\ x.doing = NoCall /\ Results(x) = {}
      OBVIOUS
    <2>2. Serves(z, slot.current) /\ slot.current \in CallId BY <1>7, <2>1
    <2>3. Results(z) = {} /\ z.doing = NoCall => Results(x) = {} /\ x.doing = NoCall BY <1>6
    <2> QED BY <1>2, <2>2, <2>3, Taken
  <1> HIDE DEF x, m
  \* a message posted that is no result
  <1>9. ASSUME NEW a \in Answer, y = Says(a), a[1] \notin Result, m[1] # "execute"
        PROVE  SandboxInv'
    <2>1. y \in SandboxWorker /\ y.code = x.code
      <3>1. x.outbox \in Seq(Answer) BY <1>6, WorkerParts
      <3>2. Append(x.outbox, a) \in Seq(Answer) BY <3>1
      <3> QED BY <1>6, <1>9, <3>2 DEF SandboxWorker
    <2>2. w = slot.worker => Serves(y, slot.current)
      BY <1>6, <1>7, <1>8, <1>9, Posted
    <2> QED BY <1>3, <1>6, <2>1, <2>2, WorkerKeeps DEF TakeMessage
  <1>10. CASE m[1] = "load-plugin"
    <2>1. y = Says(<<"ready", NoCall>>) \/ y = Says(<<"load-error", NoCall>>) BY <1>3, <1>10
    <2>2. <<"ready", NoCall>> \in Answer /\ <<"load-error", NoCall>> \in Answer
      BY DEF Answer, CallId
    <2>3. <<"ready", NoCall>>[1] \notin Result /\ <<"load-error", NoCall>>[1] \notin Result
      BY DEF Result
    <2> QED BY <1>9, <1>10, <2>1, <2>2, <2>3
  <1>11. CASE m[1] = "ping"
    <2>1. y = Says(<<"heartbeat", m[2]>>) BY <1>3, <1>11
    <2>2. <<"heartbeat", m[2]>> \in Answer /\ <<"heartbeat", m[2]>>[1] \notin Result
      BY <1>5 DEF Answer, Result
    <2> QED BY <1>9, <1>11, <2>1, <2>2
  <1>12. CASE m[1] = "abort"
    <2>1. y = [x EXCEPT !.stopping = x.doing # NoCall] BY <1>3, <1>12
    <2>2. /\ y \in SandboxWorker /\ y.code = x.code /\ y.inbox = x.inbox
          /\ y.outbox = x.outbox /\ y.doing = x.doing
      BY <1>6, <2>1 DEF SandboxWorker
    <2>3. Orders(y) = Orders(x) /\ Results(y) = Results(x) BY <2>2 DEF Orders, Results
    <2>4. w = slot.worker => Serves(y, slot.current)
      BY <1>8, <1>12, <2>2, <2>3 DEF Serves
    <2> QED BY <1>3, <1>6, <2>2, <2>4, WorkerKeeps DEF TakeMessage
  <1>13. CASE m[1] = "execute" /\ x.doing # NoCall
    <2>1. y = Says(<<"execute:error", m[2]>>) BY <1>3, <1>13
    <2>2. <<"execute:error", m[2]>> \in Answer BY <1>5 DEF Answer, Result
    <2>3. y \in SandboxWorker /\ y.code = x.code
      <3>1. x.outbox \in Seq(Answer) BY <1>6, WorkerParts
      <3>2. Append(x.outbox, <<"execute:error", m[2]>>) \in Seq(Answer) BY <2>2, <3>1
      <3> QED BY <1>6, <2>1, <3>2 DEF SandboxWorker
    <2>4. w # slot.worker BY <1>8, <1>13
    <2> QED BY <1>3, <1>6, <2>3, <2>4, WorkerKeeps DEF TakeMessage
  <1>14. CASE m[1] = "execute" /\ x.doing = NoCall
    <2>1. y = [x EXCEPT !.doing = m[2], !.stopping = FALSE] BY <1>3, <1>14
    <2>2. /\ y \in SandboxWorker /\ y.code = x.code /\ y.inbox = x.inbox
          /\ y.outbox = x.outbox /\ y.doing = m[2]
      BY <1>5, <1>6, <2>1 DEF SandboxWorker
    <2>3. Orders(y) = Orders(x) /\ Results(y) = Results(x) BY <2>2 DEF Orders, Results
    <2>4. w = slot.worker => Serves(y, slot.current)
      BY <1>8, <1>14, <2>2, <2>3 DEF Serves
    <2> QED BY <1>3, <1>6, <2>2, <2>4, WorkerKeeps DEF TakeMessage
  <1> QED BY <1>5, <1>10, <1>11, <1>12, <1>13, <1>14

-----------------------------------------------------------------------------
\* What the calls are, of a host with the worker w, ready or not, and its call.
CallsHeld(cs, w, ready, current) ==
  /\ cs \in [PlCall -> SandboxCall]
  /\ \A e \in PlCall :
       /\ cs[e].got \in {NoCall, e}
       /\ cs[e].stage = "waiting" => cs[e].worker = w /\ ~ready
       /\ cs[e].stage = "running" => cs[e].worker = w /\ current = e

LEMMA InvCalls == SandboxInv => CallsHeld(calls, slot.worker, slot.ready, slot.current)
  BY DEF SandboxInv, SandboxTypeOK, SandboxSound, CallsHeld

\* A step of the host with its worker.
LEMMA SlotKeeps ==
    ASSUME SandboxInv, slot.worker # 0, NEW y \in SandboxWorker,
           y.code = workers[slot.worker].code,
           workers' = [workers EXCEPT ![slot.worker] = y],
           slot' \in [worker : Nat, ready : BOOLEAN, current : CallId, missed : Nat],
           slot'.worker = slot.worker, Serves(y, slot'.current),
           ~slot'.ready => slot'.current = NoCall,
           CallsHeld(calls', slot.worker, slot'.ready, slot'.current),
           UNCHANGED <<openProject, scans, scanned, boundPack>>
    PROVE  SandboxInv'
  <1>1. workers \in Seq(SandboxWorker) /\ slot.worker \in DOMAIN workers
    BY SlotsWorker DEF SandboxInv, SandboxTypeOK
  <1>2. /\ workers' \in Seq(SandboxWorker) /\ Len(workers') = Len(workers)
        /\ workers'[slot.worker] = y
    BY <1>1, OneWorker
  <1>3. SandboxTypeOK' BY <1>2 DEF SandboxInv, SandboxTypeOK, CallsHeld
  <1>4. Hosted' BY <1>2 DEF SandboxInv, Hosted
  <1>5. SandboxSound' BY <1>2 DEF SandboxInv, SandboxSound, CallsHeld
  <1> QED BY <1>3, <1>4, <1>5 DEF SandboxInv

\* An execution is sent to the worker, behind the stop of it if there was one.
LEMMA ExecutionSent ==
    ASSUME NEW x \in SandboxWorker, NEW e \in PlCall, NEW s \in {<<<<"abort", e>>>>, <<>>},
           Serves(x, NoCall),
           NEW y, y = [x EXCEPT !.inbox = @ \o (s \o <<<<"execute", e>>>>)]
    PROVE  y \in SandboxWorker /\ Serves(y, e) /\ y.code = x.code
  <1> DEFINE a == <<"abort", e>>
             o == <<"execute", e>>
             t == [x EXCEPT !.inbox = @ \o <<a>>]
  <1>1. a \in Order /\ a[1] # "execute" /\ o \in Order /\ NoCall \in CallId
    BY DEF Order, CallId
  <1>2. x.inbox \in Seq(Order) BY WorkerParts
  <1>3. CASE s = <<<<"abort", e>>>>
    <2>1. t \in SandboxWorker /\ Serves(t, NoCall) BY <1>1, Reached
    <2> HIDE DEF a, o
    <2>2. x.inbox \o (<<a>> \o <<o>>) = (x.inbox \o <<a>>) \o <<o>>
          /\ x.inbox \o <<a>> \in Seq(Order) /\ (x.inbox \o <<a>>) \o <<o>> \in Seq(Order)
      BY <1>1, <1>2
    <2>3. y = [x EXCEPT !.inbox = @ \o (<<a>> \o <<o>>)] BY <1>3 DEF a, o
    <2>4. t.inbox = x.inbox \o <<a>> /\ t.code = x.code BY <1>1, <1>2, <2>2 DEF SandboxWorker
    <2>5. y = [t EXCEPT !.inbox = @ \o <<o>>] /\ y.code = x.code
      BY <1>2, <2>2, <2>3, <2>4 DEF SandboxWorker
    <2> HIDE DEF t
    <2> QED BY <2>1, <2>5, Asked DEF o
  <1>4. CASE s = <<>>
    <2> HIDE DEF a, o
    <2>1. <<>> \o <<o>> = <<o>> BY <1>1
    <2>2. y = [x EXCEPT !.inbox = @ \o <<o>>] BY <1>4, <2>1 DEF o
    <2>3. y.code = x.code BY <2>2 DEF SandboxWorker
    <2> QED BY <2>2, <2>3, Asked DEF o
  <1> QED BY <1>3, <1>4

LEMMA ExecuteKeeps ==
    ASSUME SandboxInv, NEW e \in PlCall, Execute(e) PROVE SandboxInv'
  <1>1. /\ workers \in Seq(SandboxWorker) /\ calls \in [PlCall -> SandboxCall]
        /\ boundPack \in PlProject
        /\ slot \in [worker : Nat, ready : BOOLEAN, current : CallId, missed : Nat]
        /\ calls[e] \in SandboxCall /\ calls[e].stage = "new"
    BY DEF SandboxInv, SandboxTypeOK, Execute
  <1>2. CallsHeld(calls, slot.worker, slot.ready, slot.current) BY InvCalls
  \* the calls after e waits for the worker w
  <1>3. ASSUME NEW w \in Nat, w = slot.worker \/ slot.worker = 0,
               calls' = [calls EXCEPT ![e].stage = "waiting", ![e].worker = w],
               ~slot.ready
        PROVE  /\ calls' \in [PlCall -> SandboxCall]
               /\ calls'[e].got \in {NoCall, e} /\ calls'[e].stage = "waiting" /\ calls'[e].worker = w
               /\ \A d \in PlCall : d # e => calls'[d] = calls[d]
    BY <1>1, <1>2, <1>3 DEF SandboxCall, CallsHeld
  <1>4. CASE slot.worker = 0
    <2>1. /\ workers' = Append(workers, NewWorker(boundPack))
          /\ slot' = [NoSlot EXCEPT !.worker = Len(workers) + 1]
          /\ calls' = [calls EXCEPT ![e].stage = "waiting", ![e].worker = Len(workers) + 1]
          /\ UNCHANGED <<openProject, scans, scanned, boundPack>>
      BY <1>4 DEF Execute
    <2>12. Len(workers) \in Nat BY <1>1
    <2>2. ~slot.ready /\ slot.current = NoCall BY <1>4 DEF SandboxInv, Hosted
    <2>3. NewWorker(boundPack) \in SandboxWorker /\ Serves(NewWorker(boundPack), NoCall)
          /\ NewWorker(boundPack).code = boundPack
      BY <1>1, NewTyped
    <2>4. /\ workers' \in Seq(SandboxWorker) /\ Len(workers') = Len(workers) + 1
          /\ Len(workers) \in Nat
          /\ workers'[Len(workers) + 1] = NewWorker(boundPack)
      <3> DEFINE x == NewWorker(boundPack)
      <3>1. x \in SandboxWorker /\ workers' = Append(workers, x) BY <2>1, <2>3
      <3> HIDE DEF x
      <3>2. workers' \in Seq(SandboxWorker) /\ Len(workers') = Len(workers) + 1
            /\ workers'[Len(workers) + 1] = x
        BY <1>1, <3>1
      <3> QED BY <2>12, <3>2 DEF x
    <2>5. /\ slot' \in [worker : Nat, ready : BOOLEAN, current : CallId, missed : Nat]
          /\ slot'.worker = Len(workers) + 1 /\ slot'.current = NoCall /\ ~slot'.ready
      <3>1. slot' = [worker |-> Len(workers) + 1, ready |-> FALSE, current |-> NoCall, missed |-> 0]
        BY <2>1 DEF NoSlot
      <3> QED BY <2>12, <3>1 DEF CallId
    <2>6. /\ calls' \in [PlCall -> SandboxCall]
          /\ calls'[e].got \in {NoCall, e} /\ calls'[e].stage = "waiting"
          /\ calls'[e].worker = Len(workers) + 1
          /\ \A d \in PlCall : d # e => calls'[d] = calls[d]
      <3> DEFINE n == Len(workers) + 1
      <3>1. n \in Nat /\ calls' = [calls EXCEPT ![e].stage = "waiting", ![e].worker = n]
        BY <2>1, <2>12
      <3> HIDE DEF n
      <3>2. /\ calls' \in [PlCall -> SandboxCall]
            /\ calls'[e].got \in {NoCall, e} /\ calls'[e].stage = "waiting" /\ calls'[e].worker = n
            /\ \A d \in PlCall : d # e => calls'[d] = calls[d]
        BY <1>3, <1>4, <2>2, <3>1
      <3> QED BY <3>2 DEF n
    <2>7. \A d \in PlCall : calls[d].stage \notin {"waiting", "running"}
      <3> TAKE d \in PlCall
      <3>1. calls[d].stage # "running" BY <1>2, <2>2, SandboxAssumption DEF CallsHeld
      <3>2. calls[d].stage # "waiting" BY <1>4 DEF SandboxInv, Hosted, InStage
      <3> QED BY <3>1, <3>2
    <2>8. SandboxTypeOK' BY <2>1, <2>4, <2>5, <2>6 DEF SandboxInv, SandboxTypeOK
    <2>9. Hosted' BY <2>3, <2>4, <2>5 DEF Hosted
    <2>10. boundPack = openProject.project
      BY <1>1, SandboxAssumption DEF SandboxInv, SandboxSound
    <2>11. SandboxSound'
      <3>1. \A d \in PlCall : calls'[d].got \in {NoCall, d} BY <1>2, <2>6 DEF CallsHeld
      <3>2. \A d \in PlCall : calls'[d].stage # "running" BY <2>6, <2>7
      <3>3. \A d \in PlCall : calls'[d].stage = "waiting" => d = e BY <2>6, <2>7
      <3> QED BY <2>1, <2>3, <2>4, <2>5, <2>6, <2>10, <3>1, <3>2, <3>3 DEF SandboxSound
    <2> QED BY <2>8, <2>9, <2>11 DEF SandboxInv
  <1>5. CASE slot.worker # 0 /\ ~slot.ready
    <2>1. /\ UNCHANGED <<workers, slot, openProject, scans, scanned, boundPack>>
          /\ calls' = [calls EXCEPT ![e].stage = "waiting", ![e].worker = slot.worker]
      BY <1>5 DEF Execute
    <2>2. /\ calls' \in [PlCall -> SandboxCall]
          /\ calls'[e].got \in {NoCall, e} /\ calls'[e].stage = "waiting"
          /\ calls'[e].worker = slot.worker
          /\ \A d \in PlCall : d # e => calls'[d] = calls[d]
      BY <1>1, <1>3, <1>5, <2>1
    <2>3. CallsHeld(calls', slot.worker, slot.ready, slot.current)
      BY <1>2, <1>5, <2>2 DEF CallsHeld
    <2>4. SandboxTypeOK' BY <2>1, <2>2 DEF SandboxInv, SandboxTypeOK
    <2>5. Hosted' BY <1>5, <2>1 DEF SandboxInv, Hosted
    <2>6. SandboxSound' BY <2>1, <2>3 DEF SandboxInv, SandboxSound, CallsHeld
    <2> QED BY <2>4, <2>5, <2>6 DEF SandboxInv
  <1>6. CASE slot.worker # 0 /\ slot.ready /\ slot.current # NoCall
    <2>1. /\ UNCHANGED <<workers, slot, openProject, scans, scanned, boundPack>>
          /\ calls' = [calls EXCEPT ![e].stage = "failed"]
      BY <1>6 DEF Execute, OnSlot
    <2>2. /\ calls' \in [PlCall -> SandboxCall]
          /\ calls'[e].got \in {NoCall, e} /\ calls'[e].stage = "failed"
          /\ \A d \in PlCall : d # e => calls'[d] = calls[d]
      BY <1>1, <1>2, <2>1 DEF SandboxCall, CallsHeld
    <2>3. CallsHeld(calls', slot.worker, slot.ready, slot.current)
      BY <1>2, <2>2 DEF CallsHeld
    <2>4. SandboxTypeOK' BY <2>1, <2>2 DEF SandboxInv, SandboxTypeOK
    <2>5. Hosted' BY <1>6, <2>1 DEF SandboxInv, Hosted
    <2>6. SandboxSound' BY <2>1, <2>3 DEF SandboxInv, SandboxSound, CallsHeld
    <2> QED BY <2>4, <2>5, <2>6 DEF SandboxInv
  <1>7. CASE slot.worker # 0 /\ slot.ready /\ slot.current = NoCall
    <2> DEFINE x == workers[slot.worker]
               b == IF calls[e].stopped THEN <<<<"abort", e>>>> ELSE <<>>
               s == b \o <<<<"execute", e>>>>
               y == [x EXCEPT !.inbox = @ \o s]
    <2>1. /\ calls' = [calls EXCEPT ![e].stage = "running", ![e].worker = slot.worker]
          /\ slot' = [slot EXCEPT !.current = e, !.missed = 0]
          /\ workers' = [workers EXCEPT ![slot.worker].inbox = @ \o s]
          /\ UNCHANGED <<openProject, scans, scanned, boundPack>>
      BY <1>7 DEF Execute, OnSlot, Sent
    <2>2. /\ slot.worker \in DOMAIN workers /\ x \in SandboxWorker /\ Serves(x, NoCall)
          /\ calls[e].stopped \in BOOLEAN
      BY <1>1, <1>7, SlotsWorker DEF SandboxCall
    <2>3. workers' = [workers EXCEPT ![slot.worker] = y] BY <2>1, <2>2
    <2>4. y \in SandboxWorker /\ Serves(y, e) /\ y.code = x.code
      <3>1. b \in {<<<<"abort", e>>>>, <<>>} OBVIOUS
      <3> HIDE DEF x, b
      <3> QED BY <2>2, <3>1, ExecutionSent
    <2>5. /\ slot' \in [worker : Nat, ready : BOOLEAN, current : CallId, missed : Nat]
          /\ slot'.worker = slot.worker /\ slot'.current = e /\ slot'.ready
      BY <1>1, <1>7, <2>1 DEF CallId
    <2>6. /\ calls' \in [PlCall -> SandboxCall]
          /\ calls'[e].got \in {NoCall, e} /\ calls'[e].stage = "running"
          /\ calls'[e].worker = slot.worker
          /\ \A d \in PlCall : d # e => calls'[d] = calls[d]
      BY <1>1, <1>2, <2>1 DEF SandboxCall, CallsHeld
    <2>7. \A d \in PlCall : calls[d].stage \notin {"waiting", "running"}
      BY <1>2, <1>7, SandboxAssumption DEF CallsHeld
    <2>8. CallsHeld(calls', slot.worker, slot'.ready, slot'.current)
      <3>1. \A d \in PlCall : calls'[d].got \in {NoCall, d} BY <1>2, <2>6 DEF CallsHeld
      <3>2. \A d \in PlCall : calls'[d].stage \in {"waiting", "running"} => d = e BY <2>6, <2>7
      <3> QED BY <2>5, <2>6, <3>1, <3>2 DEF CallsHeld
    <2> HIDE DEF y
    <2> QED BY <1>7, <2>1, <2>3, <2>4, <2>5, <2>8, SlotKeeps DEF x
  <1> QED BY <1>4, <1>5, <1>6, <1>7

\* A step of the calls alone.
LEMMA CallsKeep ==
    ASSUME SandboxInv, CallsHeld(calls', slot.worker, slot.ready, slot.current),
           \A e \in PlCall : calls'[e].stage = "waiting" => calls[e].stage = "waiting",
           UNCHANGED <<openProject, scans, scanned, boundPack, workers, slot>>
    PROVE  SandboxInv'
  <1>1. SandboxTypeOK' BY DEF SandboxInv, SandboxTypeOK, CallsHeld
  <1>2. Hosted' BY DEF SandboxInv, Hosted, InStage
  <1>3. SandboxSound' BY DEF SandboxInv, SandboxSound, CallsHeld
  <1> QED BY <1>1, <1>2, <1>3 DEF SandboxInv

LEMMA StopSignalKeeps ==
    ASSUME SandboxInv, NEW e \in PlCall, StopSignal(e) PROVE SandboxInv'
  <1>1. calls \in [PlCall -> SandboxCall] /\ calls[e] \in SandboxCall
    BY DEF SandboxInv, SandboxTypeOK
  <1>2. CallsHeld(calls, slot.worker, slot.ready, slot.current) BY InvCalls
  <1>3. /\ calls' \in [PlCall -> SandboxCall]
        /\ \A d \in PlCall : /\ calls'[d].stage = calls[d].stage /\ calls'[d].got = calls[d].got
                             /\ calls'[d].worker = calls[d].worker
    BY <1>1 DEF StopSignal, SandboxCall
  <1>4. CallsHeld(calls', slot.worker, slot.ready, slot.current)
    BY <1>2, <1>3 DEF CallsHeld
  <1>5. CASE calls[e].stage # "running"
    BY <1>3, <1>4, <1>5, CallsKeep DEF StopSignal
  <1>6. CASE calls[e].stage = "running"
    <2> DEFINE x == workers[slot.worker]
               o == <<"abort", e>>
               y == [x EXCEPT !.inbox = @ \o <<o>>]
    <2>1. slot.current = e /\ e # NoCall BY <1>2, <1>6, SandboxAssumption DEF CallsHeld
    <2>2. slot.worker # 0 /\ slot.ready BY <2>1 DEF SandboxInv, Hosted
    <2>3. /\ slot.worker \in DOMAIN workers /\ x \in SandboxWorker /\ Serves(x, slot.current)
          /\ slot.current \in CallId
      BY <2>2, SlotsWorker
    <2>4. workers' = [workers EXCEPT ![slot.worker] = y]
      BY <1>6, <2>3 DEF StopSignal, Sent
    <2>5. o \in Order /\ o[1] # "execute" BY DEF Order, CallId
    <2>6. y \in SandboxWorker /\ Serves(y, slot.current) /\ y.code = x.code
      <3> HIDE DEF x, o
      <3>1. y.code = x.code BY <2>3 DEF SandboxWorker
      <3> HIDE DEF y
      <3>2. y = [x EXCEPT !.inbox = @ \o <<o>>] BY DEF y
      <3> QED BY <2>3, <2>5, <3>1, <3>2, Reached
    <2>7. /\ slot' = slot /\ UNCHANGED <<openProject, scans, scanned, boundPack>>
          /\ slot \in [worker : Nat, ready : BOOLEAN, current : CallId, missed : Nat]
      BY DEF StopSignal, SandboxInv, SandboxTypeOK
    <2> HIDE DEF y
    <2> QED BY <1>4, <2>2, <2>4, <2>6, <2>7, SlotKeeps DEF x
  <1> QED BY <1>5, <1>6

LEMMA HeartbeatKeeps == ASSUME SandboxInv, Heartbeat PROVE SandboxInv'
  <1>1. /\ slot \in [worker : Nat, ready : BOOLEAN, current : CallId, missed : Nat]
        /\ openProject \in [project : PlProject, lane : Nat]
        /\ scans \subseteq PlProject \X Nat \X BOOLEAN /\ scanned \in Nat
    BY DEF SandboxInv, SandboxTypeOK
  <1>2. CASE slot.missed = MissThreshold
    <2>1. Dispose("overdue") /\ UNCHANGED <<openProject, scans, scanned, boundPack>>
      BY <1>2 DEF Heartbeat, Overdue
    <2> QED BY <1>1, <2>1, DisposeKeeps
  <1>3. CASE slot.missed # MissThreshold
    <2> DEFINE x == workers[slot.worker]
               o == <<"ping", slot.current>>
               y == [x EXCEPT !.inbox = @ \o <<o>>]
    <2>1. slot.worker # 0 /\ slot.ready BY DEF Heartbeat, SandboxInv, Hosted
    <2>2. /\ slot.worker \in DOMAIN workers /\ x \in SandboxWorker /\ Serves(x, slot.current)
          /\ slot.current \in CallId
      BY <2>1, SlotsWorker
    <2>3. workers' = [workers EXCEPT ![slot.worker] = y] BY <1>3, <2>2 DEF Heartbeat, Sent
    <2>4. o \in Order /\ o[1] # "execute" BY <2>2 DEF Order
    <2>5. y \in SandboxWorker /\ Serves(y, slot.current) /\ y.code = x.code
      <3> HIDE DEF x, o
      <3>1. y.code = x.code BY <2>2 DEF SandboxWorker
      <3> HIDE DEF y
      <3>2. y = [x EXCEPT !.inbox = @ \o <<o>>] BY DEF y
      <3> QED BY <2>2, <2>4, <3>1, <3>2, Reached
    <2>6. /\ slot' \in [worker : Nat, ready : BOOLEAN, current : CallId, missed : Nat]
          /\ slot'.worker = slot.worker /\ slot'.current = slot.current
          /\ slot'.ready = slot.ready
          /\ calls' = calls /\ UNCHANGED <<openProject, scans, scanned, boundPack>>
      BY <1>1, <1>3 DEF Heartbeat
    <2>7. CallsHeld(calls', slot.worker, slot'.ready, slot'.current) BY <2>6, InvCalls
    <2> HIDE DEF y
    <2> QED BY <2>1, <2>3, <2>5, <2>6, <2>7, SlotKeeps DEF x
  <1> QED BY <1>2, <1>3

LEMMA SlotReadyKeeps ==
    ASSUME SandboxInv, slot.worker # 0, workers[slot.worker].outbox # <<>>, SlotReady,
           UNCHANGED <<openProject, scans, scanned, boundPack>>
    PROVE  SandboxInv'
  <1> DEFINE all == {e \in InStage("waiting") : calls[e].worker = slot.worker}
             x == workers[slot.worker]
             t == [x EXCEPT !.outbox = Tail(@)]
  <1>1. PICK first \in all :
          /\ calls' = [e \in PlCall |->
               IF e = first THEN [calls[e] EXCEPT !.stage = "running"]
               ELSE IF e \in all THEN [calls[e] EXCEPT !.stage = "failed"] ELSE calls[e]]
          /\ slot' = [slot EXCEPT !.ready = TRUE, !.current = first]
          /\ workers' = Sent([workers EXCEPT ![slot.worker].outbox = Tail(@)], slot.worker,
                             (IF calls[first].stopped THEN <<<<"abort", first>>>> ELSE <<>>)
                               \o <<<<"execute", first>>>>)
    BY DEF SlotReady
  <1> DEFINE b == IF calls[first].stopped THEN <<<<"abort", first>>>> ELSE <<>>
             y == [t EXCEPT !.inbox = @ \o (b \o <<<<"execute", first>>>>)]
  <1>2. /\ first \in PlCall /\ calls[first].stage = "waiting"
        /\ calls \in [PlCall -> SandboxCall]
        /\ slot \in [worker : Nat, ready : BOOLEAN, current : CallId, missed : Nat]
    BY DEF InStage, SandboxInv, SandboxTypeOK
  <1>3. CallsHeld(calls, slot.worker, slot.ready, slot.current) BY InvCalls
  <1>4. slot.current = NoCall BY <1>2, <1>3 DEF CallsHeld, SandboxInv, Hosted
  <1>5. \A e \in PlCall : /\ calls[e].stage # "running"
                          /\ calls[e].stage = "waiting" => e \in all
    BY <1>3, <1>4, SandboxAssumption DEF CallsHeld, InStage
  <1>6. /\ slot.worker \in DOMAIN workers /\ x \in SandboxWorker /\ Serves(x, slot.current)
        /\ slot.current \in CallId
    BY SlotsWorker
  <1>7. t \in SandboxWorker /\ Serves(t, NoCall) /\ t.code = x.code
    <2> HIDE DEF x
    <2>1. t.code = x.code BY <1>6 DEF SandboxWorker
    <2>2. x.outbox # <<>> BY DEF x
    <2> HIDE DEF t
    <2>3. t = [x EXCEPT !.outbox = Tail(@)] BY DEF t
    <2> QED BY <1>4, <1>6, <2>1, <2>2, <2>3, Heard
  <1>8. workers' = [workers EXCEPT ![slot.worker] = y]
    <2>1. [workers EXCEPT ![slot.worker].outbox = Tail(@)] = [workers EXCEPT ![slot.worker] = t]
      BY <1>6
    <2> HIDE DEF t, b
    <2> DEFINE ws == [workers EXCEPT ![slot.worker] = t]
    <2>2. workers \in Seq(SandboxWorker) BY DEF SandboxInv, SandboxTypeOK
    <2>3. ws[slot.worker] = t BY <1>6, <2>2
    <2>4. workers' = [ws EXCEPT ![slot.worker].inbox = @ \o (b \o <<<<"execute", first>>>>)]
      BY <1>1, <2>1 DEF Sent, b
    <2>5. workers' = [ws EXCEPT ![slot.worker] = y] BY <2>3, <2>4
    <2> HIDE DEF y
    <2> QED BY <2>2, <2>5
  <1>9. y \in SandboxWorker /\ Serves(y, first) /\ y.code = x.code
    <2>1. b \in {<<<<"abort", first>>>>, <<>>} OBVIOUS
    <2> HIDE DEF t, b, x
    <2>2. y = [t EXCEPT !.inbox = @ \o (b \o <<<<"execute", first>>>>)] OBVIOUS
    <2> HIDE DEF y, all
    <2>3. y \in SandboxWorker /\ Serves(y, first) /\ y.code = t.code
      BY <1>2, <1>7, <2>1, <2>2, ExecutionSent
    <2> QED BY <1>7, <2>3
  <1>10. /\ slot' \in [worker : Nat, ready : BOOLEAN, current : CallId, missed : Nat]
         /\ slot'.worker = slot.worker /\ slot'.current = first /\ slot'.ready
    BY <1>1, <1>2 DEF CallId
  <1> HIDE DEF y, b, t
  <1>11. \A e \in PlCall :
           /\ calls'[e] \in SandboxCall /\ calls'[e].got = calls[e].got
           /\ e = first => calls'[e].stage = "running" /\ calls'[e].worker = slot.worker
           /\ e # first => calls'[e].stage \notin {"waiting", "running"}
    <2> TAKE e \in PlCall
    <2>1. calls[e] \in SandboxCall BY <1>2
    <2>2. first \in all OBVIOUS
    <2>3. calls[first].worker = slot.worker OBVIOUS
    <2> HIDE DEF all
    <2>4. CASE e = first BY <1>1, <2>1, <2>3, <2>4 DEF SandboxCall
    <2>5. CASE e # first /\ e \in all BY <1>1, <2>1, <2>5 DEF SandboxCall
    <2>6. CASE e # first /\ e \notin all BY <1>1, <1>5, <2>1, <2>6
    <2> QED BY <2>4, <2>5, <2>6
  <1>12. calls' \in [PlCall -> SandboxCall]
    <2>1. DOMAIN calls' = PlCall BY <1>1
    <2>2. calls' = [e \in PlCall |-> calls'[e]] BY <1>1
    <2> QED BY <1>11, <2>2
  <1>13. CallsHeld(calls', slot.worker, slot'.ready, slot'.current)
    BY <1>3, <1>10, <1>11, <1>12 DEF CallsHeld
  <1>14. ~slot'.ready => slot'.current = NoCall BY <1>10
  <1> QED BY <1>8, <1>9, <1>10, <1>13, <1>14, SlotKeeps DEF x

LEMMA HearKeeps == ASSUME SandboxInv, Hear PROVE SandboxInv'
  <1> DEFINE x == workers[slot.worker]
             m == Head(x.outbox)
             y == [x EXCEPT !.outbox = Tail(@)]
  <1>1. /\ slot.worker # 0 /\ x.outbox # <<>>
        /\ UNCHANGED <<openProject, scans, scanned, boundPack>>
    BY DEF Hear
  <1>2. /\ slot.worker \in DOMAIN workers /\ x \in SandboxWorker /\ Serves(x, slot.current)
        /\ slot.current \in CallId
    BY <1>1, SlotsWorker
  <1>3. /\ slot \in [worker : Nat, ready : BOOLEAN, current : CallId, missed : Nat]
        /\ openProject \in [project : PlProject, lane : Nat]
        /\ scans \subseteq PlProject \X Nat \X BOOLEAN /\ scanned \in Nat
        /\ calls \in [PlCall -> SandboxCall]
    BY DEF SandboxInv, SandboxTypeOK
  <1>4. /\ y \in SandboxWorker /\ Serves(y, slot.current) /\ y.code = x.code /\ m \in Answer
        /\ m[1] \in Result =>
             slot.current # NoCall /\ m[2] = slot.current /\ Serves(y, NoCall)
    <2> HIDE DEF x
    <2>1. y.code = x.code BY <1>2 DEF SandboxWorker
    <2>2. y = [x EXCEPT !.outbox = Tail(@)] OBVIOUS
    <2> HIDE DEF y
    <2> QED BY <1>1, <1>2, <2>1, <2>2, Heard
  <1>5. [workers EXCEPT ![slot.worker].outbox = Tail(@)] = [workers EXCEPT ![slot.worker] = y]
    BY <1>2
  <1>6. m[1] \in {"ready", "load-error", "crash", "heartbeat", "execute:result", "execute:error"}
    BY <1>4 DEF Answer, Result
  <1>7. CallsHeld(calls, slot.worker, slot.ready, slot.current) BY InvCalls
  <1>8. CASE m[1] = "ready"
    <2>1. SlotReady BY <1>8 DEF Hear
    <2> QED BY <1>1, <2>1, SlotReadyKeeps
  <1>9. CASE m[1] \in {"load-error", "crash"}
    <2>1. Dispose("failed") BY <1>9 DEF Hear
    <2> QED BY <1>1, <1>3, <2>1, DisposeKeeps
  <1>10. CASE m[1] = "heartbeat"
    <2>1. /\ slot' \in {[slot EXCEPT !.missed = 0], slot}
          /\ workers' = [workers EXCEPT ![slot.worker].outbox = Tail(@)] /\ calls' = calls
      BY <1>10 DEF Hear
    <2>2. /\ slot' \in [worker : Nat, ready : BOOLEAN, current : CallId, missed : Nat]
          /\ slot'.worker = slot.worker /\ slot'.current = slot.current
          /\ slot'.ready = slot.ready
      BY <1>3, <2>1
    <2>3. ~slot'.ready => slot'.current = NoCall BY <2>2 DEF SandboxInv, Hosted
    <2>4. CallsHeld(calls', slot.worker, slot'.ready, slot'.current) BY <1>7, <2>1, <2>2
    <2>5. Serves(y, slot'.current) BY <1>4, <2>2
    <2>6. workers' = [workers EXCEPT ![slot.worker] = y] BY <1>5, <2>1
    <2> HIDE DEF y
    <2> QED BY <1>1, <1>4, <2>2, <2>3, <2>4, <2>5, <2>6, SlotKeeps DEF x
  <1>11. CASE m[1] \in Result
    <2> DEFINE cur == slot.current
    <2>1. cur # NoCall /\ m[2] = cur /\ Serves(y, NoCall) /\ cur \in PlCall
      BY <1>2, <1>4, <1>11 DEF CallId
    <2>2. /\ workers' = [workers EXCEPT ![slot.worker].outbox = Tail(@)]
          /\ slot' = [slot EXCEPT !.current = NoCall]
          /\ calls' = [calls EXCEPT ![cur].stage = "done", ![cur].got = m[2]]
      BY <1>11, <2>1 DEF Hear, Result
    <2>3. /\ slot' \in [worker : Nat, ready : BOOLEAN, current : CallId, missed : Nat]
          /\ slot'.worker = slot.worker /\ slot'.current = NoCall /\ slot'.ready = slot.ready
      BY <1>3, <2>2 DEF CallId
    <2>4. m[2] \in CallId BY <2>1 DEF CallId
    <2> HIDE DEF cur, m
    <2>5. /\ calls' \in [PlCall -> SandboxCall]
          /\ calls'[cur].got = cur /\ calls'[cur].stage = "done"
          /\ \A d \in PlCall : d # cur => calls'[d] = calls[d]
      <3> DEFINE r == [calls[cur] EXCEPT !.stage = "done", !.got = m[2]]
      <3>1. calls[cur] \in SandboxCall BY <1>3, <2>1
      <3>2. r \in SandboxCall /\ r.got = cur /\ r.stage = "done" BY <2>1, <2>4, <3>1 DEF SandboxCall
      <3>3. calls' = [calls EXCEPT ![cur] = r] BY <1>3, <2>1, <2>2
      <3> HIDE DEF r
      <3> QED BY <1>3, <2>1, <3>2, <3>3
    <2>6. CallsHeld(calls', slot.worker, slot'.ready, slot'.current)
      <3>1. \A d \in PlCall : calls'[d].got \in {NoCall, d} BY <1>7, <2>5 DEF CallsHeld
      <3>2. \A d \in PlCall : calls'[d].stage # "running" BY <1>7, <2>5 DEF CallsHeld, cur
      <3>3. \A d \in PlCall : calls'[d].stage = "waiting" =>
              calls'[d].worker = slot.worker /\ ~slot.ready
        BY <1>7, <2>5 DEF CallsHeld
      <3> QED BY <2>3, <2>5, <3>1, <3>2, <3>3 DEF CallsHeld
    <2>7. workers' = [workers EXCEPT ![slot.worker] = y] BY <1>5, <2>2
    <2>8. Serves(y, slot'.current) BY <2>1, <2>3
    <2> HIDE DEF y
    <2> QED BY <1>1, <1>4, <2>3, <2>6, <2>7, <2>8, SlotKeeps DEF x
  <1> QED BY <1>6, <1>8, <1>9, <1>10, <1>11 DEF Result

-----------------------------------------------------------------------------
LEMMA ScanTyped ==
    ASSUME NEW p \in PlProject, NEW n \in Nat, NEW read \in BOOLEAN
    PROVE  <<p, n, read>> \in PlProject \X Nat \X BOOLEAN
  OBVIOUS

LEMMA ScansKeep ==
    ASSUME SandboxInv,
           \/ ScanAgain \/ UnregisterPack
           \/ \E s \in scans : ReadPack(s) \/ RegisterPack(s)
    PROVE  SandboxInv'
  <1>1. /\ scans' \subseteq PlProject \X Nat \X BOOLEAN /\ scanned' \in Nat
        /\ boundPack' \in PlProject \cup {NoPack}
        /\ boundPack' # NoPack => boundPack' = openProject.project
        /\ UNCHANGED <<openProject, workers, slot, calls>>
    <2>1. /\ scans \subseteq PlProject \X Nat \X BOOLEAN /\ scanned \in Nat
          /\ boundPack \in PlProject \cup {NoPack}
          /\ boundPack # NoPack => boundPack = openProject.project
          /\ openProject.project \in PlProject
      BY DEF SandboxInv, SandboxTypeOK, SandboxSound
    <2>2. CASE ScanAgain
      <3> DEFINE s == <<openProject.project, 0, FALSE>>
      <3>2. scans' = scans \cup {s} /\ scanned' = scanned + 1
            /\ UNCHANGED <<openProject, boundPack, workers, slot, calls>>
        BY <2>2 DEF ScanAgain
      <3>1. s \in PlProject \X Nat \X BOOLEAN BY <2>1, ScanTyped
      <3> HIDE DEF s
      <3> QED BY <2>1, <3>1, <3>2
    <2>3. CASE UnregisterPack BY <2>1, <2>3 DEF UnregisterPack
    <2>4. ASSUME NEW s \in scans, ReadPack(s)
          PROVE  /\ scans' \subseteq PlProject \X Nat \X BOOLEAN /\ scanned' \in Nat
                 /\ boundPack' = boundPack /\ UNCHANGED <<openProject, workers, slot, calls>>
      <3>1. <<s[1], s[2], TRUE>> \in PlProject \X Nat \X BOOLEAN BY <2>1
      <3> QED BY <2>1, <2>4, <3>1 DEF ReadPack
    <2>5. ASSUME NEW s \in scans, RegisterPack(s)
          PROVE  /\ scans' \subseteq PlProject \X Nat \X BOOLEAN /\ scanned' \in Nat
                 /\ boundPack' \in {boundPack, openProject.project}
                 /\ UNCHANGED <<openProject, workers, slot, calls>>
      BY <2>1, <2>5 DEF RegisterPack, CanRegister
    <2> QED BY <2>1, <2>2, <2>3, <2>4, <2>5
  <1>2. SandboxTypeOK' BY <1>1 DEF SandboxInv, SandboxTypeOK
  <1>3. Hosted' BY <1>1 DEF SandboxInv, Hosted, InStage
  <1>4. SandboxSound' BY <1>1 DEF SandboxInv, SandboxSound
  <1> QED BY <1>2, <1>3, <1>4 DEF SandboxInv

LEMMA OpenAnotherKeeps ==
    ASSUME SandboxInv, NEW p \in PlProject, OpenAnother(p) PROVE SandboxInv'
  <1>1. /\ openProject.lane \in Nat /\ scans \subseteq PlProject \X Nat \X BOOLEAN
        /\ scanned \in Nat
    BY DEF SandboxInv, SandboxTypeOK
  <1> DEFINE n == openProject.lane + 1
             s == <<p, n, FALSE>>
  <1>3. /\ openProject' = [project |-> p, lane |-> n] /\ scans' = scans \cup {s}
        /\ scanned' = scanned /\ boundPack' = NoPack /\ Dispose("failed")
    BY DEF OpenAnother
  <1>4. n \in Nat BY <1>1
  <1> HIDE DEF n
  <1>5. s \in PlProject \X Nat \X BOOLEAN BY <1>4, ScanTyped
  <1> HIDE DEF s
  <1>2. /\ openProject' \in [project : PlProject, lane : Nat]
        /\ scans' \subseteq PlProject \X Nat \X BOOLEAN /\ scanned' \in Nat
    BY <1>1, <1>3, <1>4, <1>5
  <1> QED BY <1>2, <1>3, DisposeKeeps

LEMMA SandboxInvInit == SandboxInit => SandboxInv
  <1> SUFFICES ASSUME SandboxInit PROVE SandboxInv OBVIOUS
  <1>1. SandboxTypeOK
    <2>1. NoSlot \in [worker : Nat, ready : BOOLEAN, current : CallId, missed : Nat]
      BY DEF NoSlot, CallId
    <2>2. workers \in Seq(SandboxWorker) BY DEF SandboxInit
    <2>3. calls \in [PlCall -> SandboxCall] BY DEF SandboxInit, SandboxCall, CallId
    <2> DEFINE s == <<FirstProject, 1, FALSE>>
    <2>4. scans = {s} BY DEF SandboxInit
    <2>5. s \in PlProject \X Nat \X BOOLEAN BY SandboxAssumption, ScanTyped
    <2> HIDE DEF s
    <2>6. scans \subseteq PlProject \X Nat \X BOOLEAN BY <2>4, <2>5
    <2>7. openProject \in [project : PlProject, lane : Nat]
      BY SandboxAssumption DEF SandboxInit
    <2>8. slot = NoSlot /\ boundPack = NoPack /\ scanned = 0 BY DEF SandboxInit
    <2> QED BY <2>1, <2>2, <2>3, <2>6, <2>7, <2>8 DEF SandboxTypeOK
  <1>2. Hosted
    <2>1. slot.worker = 0 /\ ~slot.ready /\ slot.current = NoCall BY DEF SandboxInit, NoSlot
    <2>2. Len(workers) = 0 BY DEF SandboxInit
    <2>3. InStage("waiting") = {} BY DEF SandboxInit, InStage
    <2> QED BY <2>1, <2>2, <2>3 DEF Hosted
  <1>3. SandboxSound BY DEF SandboxInit, SandboxSound, NoSlot
  <1> QED BY <1>1, <1>2, <1>3 DEF SandboxInv

LEMMA SandboxInvNext == SandboxInv /\ [SandboxNext]_sandboxVars => SandboxInv'
  <1> SUFFICES ASSUME SandboxInv, [SandboxNext]_sandboxVars PROVE SandboxInv' OBVIOUS
  <1>1. ASSUME NEW p \in PlProject, OpenAnother(p) PROVE SandboxInv'
    BY <1>1, OpenAnotherKeeps
  <1>2. CASE ScanAgain \/ UnregisterPack \/ \E s \in scans : ReadPack(s) \/ RegisterPack(s)
    BY <1>2, ScansKeep
  <1>3. ASSUME NEW e \in PlCall, Execute(e) PROVE SandboxInv' BY <1>3, ExecuteKeeps
  <1>4. ASSUME NEW e \in PlCall, StopSignal(e) PROVE SandboxInv' BY <1>4, StopSignalKeeps
  <1>5. ASSUME NEW e \in PlCall, CallTimesOut(e) PROVE SandboxInv'
    <2>1. Dispose("overdue") /\ UNCHANGED <<openProject, scans, scanned, boundPack>>
      BY <1>5 DEF CallTimesOut, Overdue
    <2> QED BY <2>1, DisposeKeeps DEF SandboxInv, SandboxTypeOK
  <1>6. CASE Heartbeat BY <1>6, HeartbeatKeeps
  <1>7. CASE Hear BY <1>7, HearKeeps
  <1>8. ASSUME NEW w \in DOMAIN workers, TakeMessage(w) PROVE SandboxInv'
    BY <1>8, TakeMessageKeeps
  <1>9. ASSUME NEW w \in DOMAIN workers, Finish(w) PROVE SandboxInv' BY <1>9, FinishKeeps
  <1>10. ASSUME NEW w \in DOMAIN workers, Crash(w) PROVE SandboxInv' BY <1>10, CrashKeeps
  <1>11. CASE UNCHANGED sandboxVars
    <2>1. CallsHeld(calls', slot.worker, slot.ready, slot.current)
      BY <1>11, InvCalls DEF sandboxVars
    <2> QED BY <1>11, <2>1, CallsKeep DEF sandboxVars
  <1> QED BY <1>1, <1>2, <1>3, <1>4, <1>5, <1>6, <1>7, <1>8, <1>9, <1>10, <1>11 DEF SandboxNext

\* The variables of the plugin and its worker have the types the code gives them.
THEOREM SandboxTyped == SandboxSpec => []SandboxTypeOK
  <1>1. SandboxInv => SandboxTypeOK BY DEF SandboxInv
  <1> QED BY <1>1, SandboxInvInit, SandboxInvNext, PTL DEF SandboxSpec

\* A plugin and its worker are those of the open project, a call gets its own
\* result, and one that is not over waits for a worker that is listened to.
THEOREM SandboxServesTheOpen == SandboxSpec => []SandboxSound
  <1>1. SandboxInv => SandboxSound BY DEF SandboxInv
  <1> QED BY <1>1, SandboxInvInit, SandboxInvNext, PTL DEF SandboxSpec

-----------------------------------------------------------------------------
(***************************************************************************)
(* LlmCall. Permits are free or held by a call that asks, runs tools or    *)
(* sleeps; a call waits in the queue only while there is none; and a call  *)
(* moves on from a candidate only after it has failed.                     *)
(***************************************************************************)

Holding == {"asking", "tools", "sleeping"}

LlmCalls ==
  [stage : {"new", "waiting", "ended"} \cup Holding, candidates : Decisions \cup {0},
   tools : BOOLEAN, at : Nat, tries : Nat, round : Nat, costs : Seq(BOOLEAN),
   outcome : {"none", "text", "failed", "stopped"}]
LlmStates ==
  [free : Nat, queue : Seq(LlmRequest), stopped : BOOLEAN, calls : [LlmRequest -> LlmCalls]]

LlmTypeOK == llm \in LlmStates

Fails(x) == {i \in DOMAIN x.costs : ~x.costs[i]}
Held(s) == {c \in LlmRequest : s.calls[c].stage \in Holding}

\* A call that has tried n candidates in vain.
InVain(x, n) == Len(x.costs) = n /\ Fails(x) = 1..n

CallSound(x, stopped) ==
  /\ x.stage = "new" => InVain(x, 0)
  /\ x.stage \in {"waiting"} \cup Holding =>
       x.at \in Nat \ {0} /\ x.at <= x.candidates /\ InVain(x, x.at - 1)
  /\ x.stage # "ended" => x.outcome = "none"
  /\ x.outcome = "text" => Len(x.costs) = x.at /\ Fails(x) = 1..(x.at - 1)
  /\ x.outcome = "failed" => Fails(x) = 1..x.candidates
  /\ x.outcome = "stopped" => stopped

\* The permits, the queue and the calls, but for those of X, which are on their way
\* from one stage to the next and have n permits.
Kept(s, X, n) ==
  /\ s \in LlmStates
  /\ s.free + n + Cardinality(Held(s) \ X) = Permits
  /\ s.queue # <<>> => s.free = 0 /\ ~s.stopped
  /\ \A c \in LlmRequest \ X :
       s.calls[c].stage = "waiting" <=> \E i \in DOMAIN s.queue : s.queue[i] = c
  /\ \A i \in DOMAIN s.queue : s.queue[i] \notin X
  /\ \A i, j \in DOMAIN s.queue : s.queue[i] = s.queue[j] => i = j
  /\ \A c \in LlmRequest \ X : CallSound(s.calls[c], s.stopped)

-----------------------------------------------------------------------------
\* A further cost on record.
LEMMA Costed ==
    ASSUME NEW cs \in Seq(BOOLEAN), NEW n \in Nat, Len(cs) = n,
           {i \in DOMAIN cs : ~cs[i]} = 1..n
    PROVE  /\ Append(cs, FALSE) \in Seq(BOOLEAN) /\ Len(Append(cs, FALSE)) = n + 1
           /\ {i \in DOMAIN Append(cs, FALSE) : ~Append(cs, FALSE)[i]} = 1..(n + 1)
           /\ Append(cs, TRUE) \in Seq(BOOLEAN) /\ Len(Append(cs, TRUE)) = n + 1
           /\ {i \in DOMAIN Append(cs, TRUE) : ~Append(cs, TRUE)[i]} = 1..n
  <1>1. DOMAIN cs = 1..n OBVIOUS
  <1>2. \A ok \in BOOLEAN :
          /\ Append(cs, ok) \in Seq(BOOLEAN) /\ Len(Append(cs, ok)) = n + 1
          /\ DOMAIN Append(cs, ok) = 1..(n + 1)
          /\ Append(cs, ok)[n + 1] = ok
          /\ \A i \in 1..n : Append(cs, ok)[i] = cs[i]
    OBVIOUS
  <1>3. \A i \in 1..n : ~cs[i] BY <1>1
  <1>4. \A i \in 1..(n + 1) : i \in 1..n \/ i = n + 1 OBVIOUS
  <1>5. \A i \in 1..(n + 1) : ~Append(cs, FALSE)[i] BY <1>2, <1>3, <1>4
  <1>6. \A i \in 1..n : ~Append(cs, TRUE)[i] BY <1>2, <1>3
  <1>7. Append(cs, TRUE)[n + 1] BY <1>2
  <1>8. 1..n \subseteq 1..(n + 1) OBVIOUS
  <1>9. {i \in DOMAIN Append(cs, TRUE) : ~Append(cs, TRUE)[i]} = 1..n
    BY <1>2, <1>4, <1>6, <1>7, <1>8
  <1>10. {i \in DOMAIN Append(cs, FALSE) : ~Append(cs, FALSE)[i]} = 1..(n + 1)
    BY <1>2, <1>5
  <1> QED BY <1>2, <1>9, <1>10

-----------------------------------------------------------------------------
(* The choice of the agents                                                *)

\* A list without repetitions and without what is not kept has only what is kept of it.
LEMMA WithoutKeeps ==
    ASSUME NEW list, Len(list) \in Nat, NEW keep
    PROVE  Without(list, keep) \in Seq({list[i] : i \in 1..Len(list)} \cap keep)
  <1> DEFINE n == Len(list)
             K == {list[i] : i \in 1..n} \cap keep
             X == Seq(K)
             Step(before, i) == IF (\E j \in DOMAIN before : before[j] = list[i]) \/ list[i] \notin keep
                                THEN before ELSE Append(before, list[i])
             Is(f) == f = [i \in 0..n |-> IF i = 0 THEN <<>> ELSE Step(f[i - 1], i)]
             G == [k \in 1..n |-> [x \in X |-> Step(x, k)]]
  <1>1. \A x \in X, k \in 1..n : Step(x, k) \in X
    <2> SUFFICES ASSUME NEW x \in X, NEW k \in 1..n, list[k] \in keep PROVE Append(x, list[k]) \in X
      OBVIOUS
    <2>1. list[k] \in K OBVIOUS
    <2> QED BY <2>1
  <1> HIDE DEF Step, X
  <1>2. G \in [1..n -> [X -> X]] BY <1>1
  <1>3. <<>> \in X BY DEF X
  <1>4. PICK h : Recursive(h, n, X, <<>>, G)
    <2>1. n \in Nat OBVIOUS
    <2> HIDE DEF G, n
    <2> QED BY <1>2, <1>3, <2>1, Recursion
  <1>5. ASSUME NEW k \in 1..n PROVE h[k] = Step(h[k - 1], k)
    <2>1. h[k - 1] \in X BY <1>4 DEF Recursive
    <2>2. G[k][h[k - 1]] = Step(h[k - 1], k) BY <2>1
    <2> QED BY <1>4, <2>2 DEF Recursive
  <1>6. Is(h) BY <1>4, <1>5 DEF Recursive
  <1> DEFINE f == CHOOSE g : Is(g)
  <1>7. Is(f) BY <1>6
  <1>8. Without(list, keep) = f[n] BY DEF Without, Step
  <1> HIDE DEF f, K, G
  <1> DEFINE S == {k \in 0..n : f[k] \in X}
  <1>9. 0 \in S BY <1>3, <1>7
  <1>10. ASSUME NEW k \in 1..n, k - 1 \in S PROVE k \in S BY <1>1, <1>7, <1>10
  <1>11. 0..n \subseteq S
    <2> HIDE DEF S
    <2> QED BY <1>9, <1>10, UpTo
  <1> QED BY <1>8, <1>11 DEF X, K

\* What a chain is made of: agents of one of those sequences.
LEMMA KeptAgents ==
    ASSUME NEW list, Len(list) \in Nat, NEW keep, NEW kept, kept = Without(list, keep)
    PROVE  /\ [i \in DOMAIN kept |-> kept[i][2]] \in
                  Seq({ref[2] : ref \in {list[i] : i \in 1..Len(list)} \cap keep})
           /\ DOMAIN [i \in DOMAIN kept |-> kept[i][2]] = DOMAIN kept
  <1> DEFINE K == {list[i] : i \in 1..Len(list)} \cap keep
  <1>1. kept \in Seq(K) BY WithoutKeeps
  <1> HIDE DEF K
  <1>2. DOMAIN kept = 1..Len(kept) /\ Len(kept) \in Nat /\ \A i \in DOMAIN kept : kept[i] \in K
    BY <1>1
  <1>3. [i \in DOMAIN kept |-> kept[i][2]] \in [1..Len(kept) -> {ref[2] : ref \in K}] BY <1>2
  <1>4. [i \in DOMAIN kept |-> kept[i][2]] \in Seq({ref[2] : ref \in K}) BY <1>2, <1>3
  <1> QED BY <1>4 DEF K

\* Whom a decision without the agent that is asked for may use.
OfRoute(e) ==
  IF HasRoute(e) THEN UNION {Found(e, e.route[i]) : i \in DOMAIN e.route} ELSE e.enabled

\* A route is empty, one reference, or one with a fallback.
LEMMA RouteForms ==
    ASSUME NEW e \in Env
    PROVE  \/ e.route = <<>>
           \/ \E r \in Ref \cup {NoRef} : e.route = <<r>>
           \/ \E r, t \in Ref \cup {NoRef} : e.route = <<r, t>>
  <1>1. e.route \in {<<>>} \cup {<<r>> : r \in Ref} \cup {<<NoRef, r>> : r \in Ref}
                      \cup {<<r, t>> : r \in Ref, t \in Ref}
    BY DEF Env
  <1>2. CASE e.route \in {<<r>> : r \in Ref} BY <1>2
  <1>3. CASE e.route \in {<<NoRef, r>> : r \in Ref} BY <1>3
  <1>4. CASE e.route \in {<<r, t>> : r \in Ref, t \in Ref} BY <1>4
  <1> QED BY <1>1, <1>2, <1>3, <1>4

LEMMA EnvParts ==
    ASSUME NEW e \in Env
    PROVE  /\ e.route = <<>> \/ (DOMAIN e.route = 1..Len(e.route) /\ Len(e.route) \in {1, 2})
           /\ HasRoute(e) => /\ Len(Tail(e.route)) = Len(e.route) - 1
                             /\ \A i \in 1..(Len(e.route) - 1) : Tail(e.route)[i] = e.route[i + 1]
           /\ ById \in Seq(Ref) /\ \A r : <<r>> \o ById \in Seq(Ref \cup {r})
           /\ \A ref \in Ref : ref # NoRef
  <1>1. \/ e.route = <<>>
        \/ \E r \in Ref \cup {NoRef} : e.route = <<r>>
        \/ \E r, t \in Ref \cup {NoRef} : e.route = <<r, t>>
    BY RouteForms
  <1>2. e.route = <<>> \/ (DOMAIN e.route = 1..Len(e.route) /\ Len(e.route) \in {1, 2})
    <2> DEFINE route == e.route
    <2>1. \/ route = <<>>
          \/ \E r \in Ref \cup {NoRef} : route = <<r>>
          \/ \E r, t \in Ref \cup {NoRef} : route = <<r, t>>
      BY <1>1
    <2> HIDE DEF route
    <2>2. ASSUME NEW r, route = <<r>> PROVE DOMAIN route = 1..Len(route) /\ Len(route) = 1
      BY <2>2
    <2>3. ASSUME NEW r, NEW t, route = <<r, t>> PROVE DOMAIN route = 1..Len(route) /\ Len(route) = 2
      BY <2>3
    <2>4. route = <<>> \/ (DOMAIN route = 1..Len(route) /\ Len(route) \in {1, 2})
      BY <2>1, <2>2, <2>3
    <2> QED BY <2>4 DEF route
  <1>3. HasRoute(e) => /\ Len(Tail(e.route)) = Len(e.route) - 1
                       /\ \A i \in 1..(Len(e.route) - 1) : Tail(e.route)[i] = e.route[i + 1]
    BY <1>1 DEF HasRoute
  <1>4. ById \in Seq(Ref)
    <2>1. /\ DOMAIN LlmAgent = 1..Len(LlmAgent) /\ Len(LlmAgent) \in Nat
          /\ \A i \in DOMAIN LlmAgent : <<"id", LlmAgent[i]>> \in Ref
      BY LlmAssumption DEF Ref, Listed
    <2>2. ById \in [1..Len(LlmAgent) -> Ref] BY <2>1 DEF ById
    <2> QED BY <2>1, <2>2
  <1>5. ASSUME NEW r PROVE <<r>> \o ById \in Seq(Ref \cup {r})
    <2>1. <<r>> \in Seq(Ref \cup {r}) OBVIOUS
    <2>2. ById \in Seq(Ref \cup {r}) BY <1>4
    <2> QED BY <2>1, <2>2
  <1>6. \A ref \in Ref : ref # NoRef
    <2>1. \A a \in Listed : a \in STRING BY LlmAssumption DEF Listed
    <2> QED BY <2>1, LlmAssumption DEF Ref
  <1> QED BY <1>2, <1>3, <1>4, <1>5, <1>6

\* The candidates to be scored are those of the category, when it has a route.
LEMMA PoolOfRoute == ASSUME NEW e \in Env PROVE Pool(e) \in Seq(OfRoute(e))
  <1> DEFINE list == PoolRefs(e)
             keep == {ref \in Ref : Found(e, ref) \cap e.callable # {}}
             kept == Without(list, keep)
             K == {list[i] : i \in 1..Len(list)} \cap keep
  <1>1. Len(list) \in Nat
    <2>1. <<e.default>> \o ById \in Seq(Ref \cup {e.default}) BY EnvParts
    <2>2. HasRoute(e) => Len(e.route) \in Nat BY EnvParts DEF HasRoute
    <2> QED BY <2>1, <2>2 DEF PoolRefs
  <1>2. ASSUME NEW ref \in K PROVE ref[2] \in OfRoute(e)
    <2>1. ref \in Ref /\ Found(e, ref) # {} OBVIOUS
    <2>2. ref[2] \in Found(e, ref) /\ ref[2] \in e.enabled BY <2>1 DEF Found
    <2>3. CASE HasRoute(e)
      <3>1. list = e.route BY <2>3 DEF PoolRefs
      <3>2. \E i \in DOMAIN e.route : ref = e.route[i] BY <2>3, <3>1, EnvParts DEF HasRoute
      <3> QED BY <2>2, <2>3, <3>2 DEF OfRoute
    <2> QED BY <2>2, <2>3 DEF OfRoute
  <1>3. Pool(e) = [i \in DOMAIN kept |-> kept[i][2]] BY DEF Pool
  <1> HIDE DEF list, keep, kept
  <1>4. Pool(e) \in Seq({ref[2] : ref \in K}) BY <1>1, <1>3, KeptAgents DEF kept
  <1> HIDE DEF K
  <1>5. {ref[2] : ref \in K} \subseteq OfRoute(e) BY <1>2
  <1> QED BY <1>4, <1>5

\* Behind the agent that was asked for come the fallbacks of the category, when it
\* has a route.
LEMMA ChainOfRoute ==
    ASSUME NEW e \in Env, NEW a \in Found(e, e.explicit)
    PROVE  ChainOf(a, e) \in Seq(MayUse(e))
  <1> DEFINE rest == IF HasRoute(e) THEN Fallbacks(e) ELSE <<e.default>> \o ById
             list == <<<<"id", a>>>> \o rest
             keep == {ref \in Ref : ref[1] = "id" /\ ref[2] \in e.enabled}
             kept == Without(list, keep)
             K == {list[i] : i \in 1..Len(list)} \cap keep
  <1>1. /\ Len(rest) \in Nat /\ Len(list) = 1 + Len(rest) /\ list[1] = <<"id", a>>
        /\ \A i \in 1..Len(rest) : list[i + 1] = rest[i]
    <2>1. \E S : rest \in Seq(S)
      <3>1. <<e.default>> \o ById \in Seq(Ref \cup {e.default}) BY EnvParts
      <3>2. HasRoute(e) => \E S : Tail(e.route) \in Seq(S)
        <4>1. HasRoute(e) => \/ \E r \in Ref \cup {NoRef} : e.route = <<r>>
                             \/ \E r, t \in Ref \cup {NoRef} : e.route = <<r, t>>
          BY RouteForms DEF HasRoute
        <4> DEFINE route == e.route
                   R == Ref \cup {NoRef}
        <4>2. HasRoute(e) => (\E r \in R : route = <<r>>) \/ (\E r, t \in R : route = <<r, t>>)
          BY <4>1
        <4> HIDE DEF route, R
        <4>3. ASSUME NEW r \in R, route = <<r>> PROVE route \in Seq(R) /\ route # <<>> BY <4>3
        <4>4. ASSUME NEW r \in R, NEW t \in R, route = <<r, t>>
              PROVE  route \in Seq(R) /\ route # <<>>
          BY <4>4
        <4>5. HasRoute(e) => route \in Seq(R) /\ route # <<>> BY <4>2, <4>3, <4>4
        <4>6. HasRoute(e) => Tail(route) \in Seq(R) BY <4>5
        <4> QED BY <4>6 DEF route
      <3> QED BY <3>1, <3>2 DEF Fallbacks
    <2> HIDE DEF rest
    <2>2. PICK S : rest \in Seq(S) BY <2>1
    <2> QED BY <2>2
  <1>2. ASSUME NEW ref \in K PROVE ref[2] \in MayUse(e)
    <2>1. ref \in Ref /\ ref # NoRef /\ ref[2] \in e.enabled BY EnvParts
    <2>2. ref[2] \in Found(e, ref) BY <2>1 DEF Found
    <2> HIDE DEF rest, list
    <2>3. PICK i \in 1..Len(list) : ref = list[i] OBVIOUS
    <2>4. CASE i = 1
      <3>1. ref[2] = a BY <1>1, <2>3, <2>4
      <3> QED BY <3>1 DEF MayUse
    <2>5. CASE i # 1 /\ HasRoute(e)
      <3>1. i - 1 \in 1..Len(rest) /\ ref = rest[i - 1] BY <1>1, <2>3, <2>5
      <3>2. rest = Tail(e.route) BY <2>5 DEF rest, Fallbacks
      <3>3. i \in DOMAIN e.route /\ ref = e.route[i]
        BY <2>5, <3>1, <3>2, EnvParts DEF HasRoute
      <3> QED BY <2>2, <2>5, <3>3 DEF MayUse
    <2>6. CASE ~HasRoute(e) BY <2>1, <2>6 DEF MayUse
    <2> QED BY <2>4, <2>5, <2>6
  <1>3. ChainOf(a, e) = [i \in DOMAIN kept |-> kept[i][2]] BY DEF ChainOf
  <1>4. Len(list) \in Nat
    <2> HIDE DEF list
    <2> QED BY <1>1
  <1> HIDE DEF rest, list, keep, kept
  <1>5. ChainOf(a, e) \in Seq({ref[2] : ref \in K}) BY <1>3, <1>4, KeptAgents DEF kept
  <1> HIDE DEF K
  <1>6. {ref[2] : ref \in K} \subseteq MayUse(e) BY <1>2
  <1> QED BY <1>5, <1>6

LEMMA ChainsKept == ASSUME NEW e \in Env, NEW s \in Chains(e) PROVE s \in Seq(MayUse(e))
  <1>1. CASE Found(e, e.explicit) # {}
    <2>1. PICK a \in Found(e, e.explicit) : s = ChainOf(a, e) BY <1>1 DEF Chains
    <2> QED BY <2>1, ChainOfRoute
  <1>2. CASE Found(e, e.explicit) = {}
    <2> DEFINE p == Pool(e)
    <2>1. p \in Seq(OfRoute(e)) BY PoolOfRoute
    <2>2. s \in Scored(p, e) BY <1>2 DEF Chains
    <2> HIDE DEF p
    <2>3. PICK b \in [DOMAIN p -> DOMAIN p] : s = [i \in DOMAIN p |-> p[b[i]]]
      BY <2>2 DEF Scored, Bijection, Injection, Surjection
    <2>4. DOMAIN p = 1..Len(p) /\ Len(p) \in Nat /\ \A i \in DOMAIN p : p[i] \in OfRoute(e)
      BY <2>1
    <2>5. s \in [1..Len(p) -> OfRoute(e)] BY <2>3, <2>4
    <2>6. OfRoute(e) \subseteq MayUse(e) BY DEF OfRoute, MayUse
    <2> QED BY <2>4, <2>5, <2>6
  <1> QED BY <1>1, <1>2

\* So the candidates of a call are counted, and all of them may be used.
LEMMA DecisionsNat == Decisions \subseteq Nat
  BY ChainsKept DEF Decisions

LEMMA StateParts ==
    ASSUME NEW s \in LlmStates
    PROVE  /\ s.free \in Nat /\ s.queue \in Seq(LlmRequest) /\ s.stopped \in BOOLEAN
           /\ s.calls \in [LlmRequest -> LlmCalls]
           /\ \A c \in LlmRequest : s.calls[c] \in LlmCalls
           /\ s = [free |-> s.free, queue |-> s.queue, stopped |-> s.stopped, calls |-> s.calls]
  BY DEF LlmStates

LEMMA CallParts ==
    ASSUME NEW x \in LlmCalls
    PROVE  /\ x.at \in Nat /\ x.costs \in Seq(BOOLEAN) /\ x.candidates \in Decisions \cup {0}
           /\ x.tools \in BOOLEAN /\ x.tries \in Nat /\ x.round \in Nat
           /\ x.outcome \in {"none", "text", "failed", "stopped"}
           /\ x.stage \in {"new", "waiting", "ended"} \cup Holding
           /\ x = [stage |-> x.stage, candidates |-> x.candidates, tools |-> x.tools, at |-> x.at,
                   tries |-> x.tries, round |-> x.round, costs |-> x.costs, outcome |-> x.outcome]
  BY DEF LlmCalls

\* The number of those that hold a permit, when one more or one less does.
LEMMA Counts ==
    ASSUME NEW S \in SUBSET LlmRequest, NEW c \in LlmRequest
    PROVE  /\ Cardinality(S) \in Nat
           /\ c \in S => Cardinality(S \ {c}) = Cardinality(S) - 1
           /\ c \notin S => Cardinality(S \cup {c}) = Cardinality(S) + 1
  <1>1. IsFiniteSet(S) BY FS_Subset, LlmAssumption
  <1> QED BY <1>1, FS_CardinalityType, FS_RemoveElement, FS_AddElement

\* What replacing the record of one call does.
WithCall(s, c, x) == [s EXCEPT !.calls[c] = x]

LEMMA OneCall ==
    ASSUME NEW s \in LlmStates, NEW c \in LlmRequest, NEW x \in LlmCalls,
           NEW t, t = WithCall(s, c, x)
    PROVE  /\ t \in LlmStates /\ t.free = s.free /\ t.queue = s.queue /\ t.stopped = s.stopped
           /\ t.calls[c] = x /\ \A d \in LlmRequest \ {c} : t.calls[d] = s.calls[d]
           /\ Held(t) \ {c} = Held(s) \ {c}
  <1>1. s.calls \in [LlmRequest -> LlmCalls] BY StateParts
  <1> DEFINE f == [s.calls EXCEPT ![c] = x]
  <1>4. f \in [LlmRequest -> LlmCalls] BY <1>1
  <1>5. t = [s EXCEPT !.calls = f] BY DEF WithCall
  <1> HIDE DEF f
  <1>6. /\ t \in LlmStates /\ t.free = s.free /\ t.queue = s.queue /\ t.stopped = s.stopped
        /\ t.calls = f
    BY <1>4, <1>5 DEF LlmStates
  <1>2. /\ t \in LlmStates /\ t.free = s.free /\ t.queue = s.queue /\ t.stopped = s.stopped
        /\ t.calls = [s.calls EXCEPT ![c] = x]
    BY <1>6 DEF f
  <1>3. t.calls[c] = x /\ \A d \in LlmRequest \ {c} : t.calls[d] = s.calls[d]
    BY <1>1, <1>2
  <1> QED BY <1>2, <1>3 DEF Held

\* The call c is replaced on its way.
LEMMA KeptOneCall ==
    ASSUME NEW s, NEW c \in LlmRequest, NEW n, Kept(s, {c}, n), NEW x \in LlmCalls,
           NEW t, t = WithCall(s, c, x)
    PROVE  Kept(t, {c}, n) /\ t.calls[c] = x /\ t.stopped = s.stopped
  <1>1. s \in LlmStates BY DEF Kept
  <1>2. /\ t \in LlmStates /\ t.free = s.free /\ t.queue = s.queue /\ t.stopped = s.stopped
        /\ t.calls[c] = x /\ \A d \in LlmRequest \ {c} : t.calls[d] = s.calls[d]
        /\ Held(t) \ {c} = Held(s) \ {c}
    BY <1>1, OneCall
  <1>3. t.free + n + Cardinality(Held(t) \ {c}) = Permits
    BY <1>2 DEF Kept
  <1>4. t.queue # <<>> => t.free = 0 /\ ~t.stopped
    BY <1>2 DEF Kept
  <1>5. \A d \in LlmRequest \ {c} :
          /\ t.calls[d].stage = "waiting" <=> \E i \in DOMAIN t.queue : t.queue[i] = d
          /\ CallSound(t.calls[d], t.stopped)
    BY <1>2 DEF Kept
  <1>6. /\ \A i \in DOMAIN t.queue : t.queue[i] \notin {c}
        /\ \A i, j \in DOMAIN t.queue : t.queue[i] = t.queue[j] => i = j
    BY <1>2 DEF Kept
  <1>7. Kept(t, {c}, n) BY <1>2, <1>3, <1>4, <1>5, <1>6 DEF Kept
  <1> QED BY <1>2, <1>7

\* The way of c ends in a stage without a permit.
LEMMA Arrives ==
    ASSUME NEW s, NEW c \in LlmRequest, Kept(s, {c}, 0), CallSound(s.calls[c], s.stopped),
           s.calls[c].stage \in {"new", "ended"}
    PROVE  Kept(s, {}, 0)
  <1>1. Held(s) \ {c} = Held(s) /\ Held(s) \ {} = Held(s) BY DEF Held, Holding
  <1>2. \A d \in LlmRequest :
          s.calls[d].stage = "waiting" <=> \E i \in DOMAIN s.queue : s.queue[i] = d
    BY DEF Kept
  <1>3. \A d \in LlmRequest : CallSound(s.calls[d], s.stopped) BY DEF Kept
  <1> QED BY <1>1, <1>2, <1>3 DEF Kept

\* A call that holds a permit sets out with it.
LEMMA SetsOut ==
    ASSUME NEW s, NEW c \in LlmRequest, Kept(s, {}, 0)
    PROVE  /\ c \in Held(s) => Kept(s, {c}, 1)
           /\ s.calls[c].stage = "new" => Kept(s, {c}, 0)
  <1> DEFINE q == s.queue
  <1>1. /\ Held(s) \subseteq LlmRequest /\ Held(s) \ {} = Held(s)
        /\ \A i \in DOMAIN q : q[i] \in LlmRequest
    <2>1. q \in Seq(LlmRequest) BY StateParts DEF Kept
    <2> QED BY <2>1 DEF Held
  <1>2. \A d \in LlmRequest : /\ s.calls[d].stage = "waiting" <=> \E i \in DOMAIN q : q[i] = d
                              /\ CallSound(s.calls[d], s.stopped)
    BY DEF Kept
  <1>3. s.calls[c].stage # "waiting" => \A i \in DOMAIN q : q[i] \notin {c} BY <1>1, <1>2
  <1>4. s.free \in Nat /\ s.free + 0 + Cardinality(Held(s)) = Permits BY <1>1, StateParts DEF Kept
  <1>5. ASSUME c \in Held(s) PROVE Kept(s, {c}, 1)
    <2>1. Cardinality(Held(s) \ {c}) = Cardinality(Held(s)) - 1 /\ Cardinality(Held(s)) \in Nat
      BY <1>1, <1>5, Counts
    <2>2. s.free + 1 + Cardinality(Held(s) \ {c}) = Permits BY <1>4, <2>1
    <2>3. s.calls[c].stage # "waiting" BY <1>5 DEF Held, Holding
    <2> QED BY <1>2, <1>3, <2>2, <2>3 DEF Kept
  <1>6. ASSUME s.calls[c].stage = "new" PROVE Kept(s, {c}, 0)
    <2>1. Held(s) \ {c} = Held(s) BY <1>6 DEF Held, Holding
    <2> QED BY <1>2, <1>3, <1>4, <1>6, <2>1 DEF Kept
  <1> QED BY <1>5, <1>6

-----------------------------------------------------------------------------
Asking(x) == [x EXCEPT !.stage = "asking", !.tries = 0, !.round = 1]
Ended(x, how) == [x EXCEPT !.stage = "ended", !.outcome = how]
Costing(x, ok) == [x EXCEPT !.costs = Append(@, ok)]

LEMMA AskingTyped ==
    ASSUME NEW x \in LlmCalls
    PROVE  /\ Asking(x) \in LlmCalls /\ Asking(x).stage = "asking"
           /\ Asking(x).at = x.at /\ Asking(x).costs = x.costs
           /\ Asking(x).candidates = x.candidates
           /\ Asking(x).outcome = x.outcome /\ Fails(Asking(x)) = Fails(x)
  BY DEF LlmCalls, Asking, Fails, Holding

LEMMA EndedTyped ==
    ASSUME NEW x \in LlmCalls, NEW how \in {"text", "failed", "stopped"}
    PROVE  /\ Ended(x, how) \in LlmCalls /\ Ended(x, how).stage = "ended"
           /\ Ended(x, how).at = x.at /\ Ended(x, how).costs = x.costs
           /\ Ended(x, how).candidates = x.candidates
           /\ Ended(x, how).outcome = how /\ Fails(Ended(x, how)) = Fails(x)
  BY DEF LlmCalls, Ended, Fails, Holding

LEMMA CostingTyped ==
    ASSUME NEW x \in LlmCalls, NEW n \in Nat, InVain(x, n)
    PROVE  /\ \A ok \in BOOLEAN :
                /\ Costing(x, ok) \in LlmCalls /\ Costing(x, ok).stage = x.stage
                /\ Costing(x, ok).at = x.at /\ Costing(x, ok).candidates = x.candidates
                /\ Costing(x, ok).outcome = x.outcome /\ Len(Costing(x, ok).costs) = n + 1
           /\ InVain(Costing(x, FALSE), n + 1)
           /\ Fails(Costing(x, TRUE)) = 1..n
  <1>1. x.costs \in Seq(BOOLEAN) BY CallParts
  <1>2. Len(x.costs) = n /\ {i \in DOMAIN x.costs : ~x.costs[i]} = 1..n BY DEF InVain, Fails
  <1>3. \A ok \in BOOLEAN : Append(x.costs, ok) \in Seq(BOOLEAN) /\ Len(Append(x.costs, ok)) = n + 1
    BY <1>1, <1>2
  <1>4. ASSUME NEW ok \in BOOLEAN
        PROVE  /\ Costing(x, ok) \in LlmCalls /\ Costing(x, ok).stage = x.stage
               /\ Costing(x, ok).at = x.at /\ Costing(x, ok).candidates = x.candidates
               /\ Costing(x, ok).outcome = x.outcome
               /\ Costing(x, ok).costs = Append(x.costs, ok)
    <2> DEFINE cs == Append(x.costs, ok)
    <2>1. cs \in Seq(BOOLEAN) BY <1>3
    <2>2. Costing(x, ok) = [x EXCEPT !.costs = cs] BY DEF Costing
    <2> HIDE DEF cs
    <2>3. /\ Costing(x, ok) \in LlmCalls /\ Costing(x, ok).stage = x.stage
          /\ Costing(x, ok).at = x.at /\ Costing(x, ok).candidates = x.candidates
          /\ Costing(x, ok).outcome = x.outcome /\ Costing(x, ok).costs = cs
      BY <2>1, <2>2 DEF LlmCalls
    <2> QED BY <2>3 DEF cs
  <1>5. Costing(x, FALSE).costs = Append(x.costs, FALSE) /\ Costing(x, TRUE).costs = Append(x.costs, TRUE)
    BY <1>4
  <1>6. /\ Len(Append(x.costs, FALSE)) = n + 1
        /\ {i \in DOMAIN Append(x.costs, FALSE) : ~Append(x.costs, FALSE)[i]} = 1..(n + 1)
        /\ {i \in DOMAIN Append(x.costs, TRUE) : ~Append(x.costs, TRUE)[i]} = 1..n
    BY <1>1, <1>2, Costed
  <1>7. InVain(Costing(x, FALSE), n + 1) BY <1>5, <1>6, ZenonT(20) DEF InVain, Fails
  <1>8. Fails(Costing(x, TRUE)) = 1..n BY <1>5, <1>6, ZenonT(20) DEF Fails
  <1> QED BY <1>3, <1>4, <1>7, <1>8

LEMMA AsWithCall ==
    ASSUME NEW s \in LlmStates, NEW c \in LlmRequest
    PROVE  /\ Asks(s, c) = WithCall(s, c, Asking(s.calls[c]))
           /\ \A how : Ends(s, c, how) = WithCall(s, c, Ended(s.calls[c], how))
           /\ \A ok : Cost(s, c, ok) = WithCall(s, c, Costing(s.calls[c], ok))
  <1>1. s.calls \in [LlmRequest -> LlmCalls] /\ s.calls[c] \in LlmCalls BY StateParts
  <1> USE DEF LlmStates, LlmCalls
  <1>2. Asks(s, c) = WithCall(s, c, Asking(s.calls[c])) BY <1>1 DEF Asks, WithCall, Asking
  <1>3. ASSUME NEW how PROVE Ends(s, c, how) = WithCall(s, c, Ended(s.calls[c], how))
    BY <1>1 DEF Ends, WithCall, Ended
  <1>4. ASSUME NEW ok PROVE Cost(s, c, ok) = WithCall(s, c, Costing(s.calls[c], ok))
    BY <1>1 DEF Cost, WithCall, Costing
  <1> QED BY <1>2, <1>3, <1>4

\* The call is about to ask its next candidate.
Ready(x) ==
  x.at \in Nat \ {0} /\ x.at <= x.candidates /\ InVain(x, x.at - 1) /\ x.outcome = "none"

LEMMA EndsKept ==
    ASSUME NEW s, NEW c \in LlmRequest, Kept(s, {c}, 0), NEW how \in {"text", "failed", "stopped"},
           CallSound(Ended(s.calls[c], how), s.stopped)
    PROVE  Kept(Ends(s, c, how), {}, 0)
  <1> DEFINE x == Ended(s.calls[c], how)
  <1>1. s \in LlmStates /\ s.calls[c] \in LlmCalls BY StateParts DEF Kept
  <1>2. x \in LlmCalls /\ x.stage = "ended" BY <1>1, EndedTyped
  <1>3. Ends(s, c, how) = WithCall(s, c, x) BY <1>1, AsWithCall
  <1>4. CallSound(x, s.stopped) OBVIOUS
  <1> HIDE DEF x
  <1>5. /\ Kept(Ends(s, c, how), {c}, 0) /\ Ends(s, c, how).calls[c] = x
        /\ Ends(s, c, how).stopped = s.stopped
    BY <1>2, <1>3, KeptOneCall
  <1> QED BY <1>2, <1>4, <1>5, Arrives

\* The call h is given the permit that is out of count.
LEMMA AsksKept ==
    ASSUME NEW s, NEW c \in LlmRequest, Kept(s, {c}, 1), Ready(s.calls[c])
    PROVE  Kept(Asks(s, c), {}, 0)
  <1> DEFINE x == Asking(s.calls[c])
             t == Asks(s, c)
  <1>1. s \in LlmStates /\ s.calls[c] \in LlmCalls BY StateParts DEF Kept
  <1>2. /\ x \in LlmCalls /\ x.stage = "asking" /\ x.at = s.calls[c].at
        /\ x.outcome = s.calls[c].outcome /\ x.candidates = s.calls[c].candidates
        /\ x.costs = s.calls[c].costs /\ Fails(x) = Fails(s.calls[c])
    BY <1>1, AskingTyped
  <1>3. t = WithCall(s, c, x) BY <1>1, AsWithCall
  <1> HIDE DEF x, t
  <1>13. x \in LlmCalls BY <1>2
  <1>4. Kept(t, {c}, 1) /\ t.calls[c] = x /\ t.stopped = s.stopped BY <1>3, <1>13, KeptOneCall
  <1>12. x.at \in Nat \ {0} /\ x.at <= x.candidates /\ InVain(x, x.at - 1) /\ x.outcome = "none"
    BY <1>2 DEF Ready, InVain
  <1>5. CallSound(x, t.stopped) BY <1>2, <1>12 DEF CallSound
  <1>6. Held(t) \ {} = (Held(t) \ {c}) \cup {c} /\ Held(t) \subseteq LlmRequest
    BY <1>2, <1>4 DEF Held, Holding
  <1>7. Cardinality(Held(t) \ {}) = Cardinality(Held(t) \ {c}) + 1 BY <1>6, Counts
  <1>8. t.free + 0 + Cardinality(Held(t) \ {}) = Permits
    <2>1. t.free \in Nat /\ Cardinality(Held(t) \ {c}) \in Nat
      BY <1>4, <1>6, Counts, StateParts DEF Kept
    <2>2. t.free + 1 + Cardinality(Held(t) \ {c}) = Permits BY <1>4 DEF Kept
    <2> QED BY <1>7, <2>1, <2>2
  <1>9. \A d \in LlmRequest : CallSound(t.calls[d], t.stopped) BY <1>4, <1>5 DEF Kept
  <1>10. \A d \in LlmRequest :
           t.calls[d].stage = "waiting" <=> \E i \in DOMAIN t.queue : t.queue[i] = d
    BY <1>2, <1>4 DEF Kept
  <1>11. Kept(t, {}, 0) BY <1>4, <1>8, <1>9, <1>10 DEF Kept
  <1> QED BY <1>11 DEF t

\* The number of free permits or the queue changes.
Freed(s, n) == [s EXCEPT !.free = n]
Queued(s, q) == [s EXCEPT !.queue = q]

LEMMA SameCalls ==
    ASSUME NEW s \in LlmStates
    PROVE  /\ \A n \in Nat : LET t == Freed(s, n) IN
                /\ t \in LlmStates /\ t.free = n /\ t.queue = s.queue /\ t.stopped = s.stopped
                /\ t.calls = s.calls /\ Held(t) = Held(s)
           /\ \A q \in Seq(LlmRequest) : LET t == Queued(s, q) IN
                /\ t \in LlmStates /\ t.free = s.free /\ t.queue = q /\ t.stopped = s.stopped
                /\ t.calls = s.calls /\ Held(t) = Held(s)
  BY DEF LlmStates, Held, Freed, Queued

LEMMA AcquireKept ==
    ASSUME NEW s, NEW c \in LlmRequest, Kept(s, {c}, 0), Ready(s.calls[c])
    PROVE  Kept(Acquire(s, c), {}, 0)
  <1>1. /\ s \in LlmStates /\ s.calls[c] \in LlmCalls /\ s.free \in Nat
        /\ s.queue \in Seq(LlmRequest) /\ s.calls \in [LlmRequest -> LlmCalls]
    BY StateParts DEF Kept
  <1>2. CASE s.stopped
    <2>1. CallSound(Ended(s.calls[c], "stopped"), s.stopped)
      BY <1>1, <1>2, EndedTyped DEF CallSound, Holding
    <2> QED BY <1>2, <2>1, EndsKept DEF Acquire
  <1>3. CASE ~s.stopped /\ s.free > 0
    <2> DEFINE t == [s EXCEPT !.free = @ - 1]
    <2>1. t = Freed(s, s.free - 1) /\ s.free - 1 \in Nat
      BY <1>1, <1>3 DEF Freed
    <2>2. Acquire(s, c) = Asks(t, c) BY <1>3 DEF Acquire
    <2> HIDE DEF t
    <2>3. /\ t \in LlmStates /\ t.free = s.free - 1 /\ t.queue = s.queue /\ t.stopped = s.stopped
          /\ t.calls = s.calls /\ Held(t) = Held(s)
      BY <1>1, <2>1, SameCalls
    <2>4. s.queue = <<>> BY <1>3 DEF Kept
    <2>5. t.free + 1 + Cardinality(Held(t) \ {c}) = Permits
      <3>1. Cardinality(Held(s) \ {c}) \in Nat BY Counts DEF Held
      <3>2. s.free + 0 + Cardinality(Held(s) \ {c}) = Permits BY DEF Kept
      <3> QED BY <1>1, <2>3, <3>1, <3>2
    <2>6. Kept(t, {c}, 1) BY <2>3, <2>4, <2>5 DEF Kept
    <2> QED BY <2>2, <2>3, <2>6, AsksKept
  <1>4. CASE ~s.stopped /\ ~(s.free > 0)
    <2> DEFINE x == [s.calls[c] EXCEPT !.stage = "waiting"]
               q == Append(s.queue, c)
               u == WithCall(s, c, x)
               t == Acquire(s, c)
    <2>1. t = [u EXCEPT !.queue = q]
      BY <1>1, <1>4 DEF Acquire, WithCall, LlmStates, LlmCalls
    <2>2. /\ x \in LlmCalls /\ x.stage = "waiting" /\ x.at = s.calls[c].at
          /\ x.candidates = s.calls[c].candidates /\ x.outcome = s.calls[c].outcome /\ x.costs = s.calls[c].costs
          /\ Fails(x) = Fails(s.calls[c])
      BY <1>1 DEF LlmCalls, Fails
    <2>3. /\ q \in Seq(LlmRequest) /\ DOMAIN q = 1..(Len(s.queue) + 1)
          /\ DOMAIN s.queue = 1..Len(s.queue) /\ Len(s.queue) \in Nat
          /\ q[Len(s.queue) + 1] = c /\ \A i \in 1..Len(s.queue) : q[i] = s.queue[i]
      BY <1>1
    <2> HIDE DEF x, t, q, u
    <2>4. Kept(u, {c}, 0) /\ u.calls[c] = x /\ u.stopped = s.stopped BY <2>2, KeptOneCall DEF u
    <2>5. u \in LlmStates /\ u.free = s.free /\ u.queue = s.queue
      BY <1>1, <2>2, OneCall DEF u
    <2>6. t = Queued(u, q) BY <2>1 DEF Queued
    <2>7. /\ t \in LlmStates /\ t.free = s.free /\ t.queue = q /\ t.stopped = s.stopped
          /\ t.calls = u.calls /\ Held(t) = Held(u)
      BY <1>1, <2>3, <2>4, <2>5, <2>6, SameCalls
    <2>8. s.free = 0 BY <1>1, <1>4
    <2>9. CallSound(x, t.stopped) BY <2>2 DEF CallSound, Ready, InVain
    <2>10. Held(t) \ {} = Held(u) \ {c} BY <2>2, <2>4, <2>7 DEF Held, Holding
    <2>11. t.free + 0 + Cardinality(Held(t) \ {}) = Permits
      BY <2>4, <2>5, <2>7, <2>10 DEF Kept
    <2>12. \A d \in LlmRequest : CallSound(t.calls[d], t.stopped)
      BY <2>4, <2>7, <2>9 DEF Kept
    <2>13. \A i \in 1..Len(s.queue) : s.queue[i] # c BY <2>3 DEF Kept
    <2>14. \A d \in LlmRequest :
             t.calls[d].stage = "waiting" <=> \E i \in DOMAIN t.queue : t.queue[i] = d
      <3> TAKE d \in LlmRequest
      <3>1. CASE d = c BY <2>2, <2>3, <2>4, <2>7, <3>1
      <3>2. CASE d # c
        <4>1. u.calls[d].stage = "waiting" <=> \E i \in 1..Len(s.queue) : s.queue[i] = d
          BY <2>3, <2>4, <2>5, <3>2 DEF Kept
        <4>2. (\E i \in 1..(Len(s.queue) + 1) : q[i] = d) <=> \E i \in 1..Len(s.queue) : s.queue[i] = d
          BY <2>3, <3>2
        <4> QED BY <2>3, <2>7, <4>1, <4>2
      <3> QED BY <3>1, <3>2
    <2>15. \A i, j \in DOMAIN t.queue : t.queue[i] = t.queue[j] => i = j
      <3> SUFFICES ASSUME NEW i \in 1..(Len(s.queue) + 1), NEW j \in 1..(Len(s.queue) + 1), q[i] = q[j]
                   PROVE  i = j
        BY <2>3, <2>7
      <3>1. CASE i \in 1..Len(s.queue) /\ j \in 1..Len(s.queue)
        BY <2>3, <3>1 DEF Kept
      <3> QED BY <2>3, <2>13, <3>1
    <2>16. Kept(t, {}, 0) BY <1>4, <2>7, <2>8, <2>11, <2>12, <2>14, <2>15 DEF Kept
    <2> QED BY <2>16 DEF t
  <1> QED BY <1>2, <1>3, <1>4

LEMMA ReleaseKept ==
    ASSUME NEW s, NEW c \in LlmRequest, Kept(s, {c}, 1)
    PROVE  /\ Kept(Release(s), {c}, 0) /\ Release(s).calls[c] = s.calls[c]
           /\ Release(s).stopped = s.stopped
  <1>1. /\ s \in LlmStates /\ s.free \in Nat /\ s.queue \in Seq(LlmRequest)
        /\ s.calls \in [LlmRequest -> LlmCalls]
    BY StateParts DEF Kept
  <1>2. CASE s.queue = <<>>
    <2> DEFINE t == Release(s)
    <2>1. t = Freed(s, s.free + 1) /\ s.free + 1 \in Nat
      BY <1>1, <1>2 DEF Release, Freed
    <2> HIDE DEF t
    <2>2. /\ t \in LlmStates /\ t.free = s.free + 1 /\ t.queue = s.queue /\ t.stopped = s.stopped
          /\ t.calls = s.calls /\ Held(t) = Held(s)
      BY <1>1, <2>1, SameCalls
    <2>3. t.free + 0 + Cardinality(Held(t) \ {c}) = Permits
      <3>1. Cardinality(Held(s) \ {c}) \in Nat BY Counts DEF Held
      <3>2. s.free + 1 + Cardinality(Held(s) \ {c}) = Permits BY DEF Kept
      <3> QED BY <1>1, <2>2, <3>1, <3>2
    <2>4. Kept(t, {c}, 0) BY <1>2, <2>2, <2>3 DEF Kept
    <2> QED BY <2>2, <2>4 DEF t
  <1>3. CASE s.queue # <<>>
    <2> DEFINE h == Head(s.queue)
               q == Tail(s.queue)
               u == [s EXCEPT !.queue = Tail(@)]
               t == Release(s)
               x == Asking(s.calls[h])
    <2>1. t = Asks(u, h) BY <1>3 DEF Release
    <2>2. /\ q \in Seq(LlmRequest) /\ Len(s.queue) \in Nat \ {0}
          /\ DOMAIN q = 1..(Len(s.queue) - 1)
          /\ DOMAIN s.queue = 1..Len(s.queue) /\ h = s.queue[1] /\ h \in LlmRequest
          /\ \A i \in 1..(Len(s.queue) - 1) : q[i] = s.queue[i + 1]
      BY <1>1, <1>3
    <2>3. u = Queued(s, q) BY DEF Queued
    <2> HIDE DEF q, h, u, t, x
    <2>4. /\ u \in LlmStates /\ u.free = s.free /\ u.queue = q /\ u.stopped = s.stopped
          /\ u.calls = s.calls /\ Held(u) = Held(s)
      BY <1>1, <2>2, <2>3, SameCalls
    <2>5. h # c /\ s.calls[h].stage = "waiting" /\ s.calls[h] \in LlmCalls
          /\ CallSound(s.calls[h], s.stopped) /\ s.free = 0 /\ ~s.stopped
      <3>1. 1 \in DOMAIN s.queue BY <2>2
      <3>2. h # c BY <2>2, <3>1 DEF Kept
      <3>3. s.calls[h].stage = "waiting" BY <2>2, <3>1, <3>2 DEF Kept
      <3> QED BY <1>1, <1>3, <2>2, <3>2, <3>3 DEF Kept
    <2>6. /\ x \in LlmCalls /\ x.stage = "asking" /\ x.at = s.calls[h].at
          /\ x.outcome = s.calls[h].outcome /\ x.candidates = s.calls[h].candidates
          /\ x.costs = s.calls[h].costs /\ Fails(x) = Fails(s.calls[h])
      BY <2>5, AskingTyped DEF x
    <2>7. CallSound(x, s.stopped) BY <2>5, <2>6 DEF CallSound, InVain, Holding
    <2>8. t = WithCall(u, h, x) BY <2>1, <2>2, <2>4, AsWithCall DEF x
    <2>9. /\ t \in LlmStates /\ t.free = u.free /\ t.queue = u.queue /\ t.stopped = u.stopped
          /\ t.calls[h] = x /\ \A d \in LlmRequest \ {h} : t.calls[d] = u.calls[d]
          /\ Held(t) \ {h} = Held(u) \ {h}
      BY <2>2, <2>4, <2>6, <2>8, OneCall
    <2>10. t.free + 0 + Cardinality(Held(t) \ {c}) = Permits
      <3>1. h \notin Held(s) /\ h \in Held(t)
        BY <2>2, <2>5, <2>6, <2>9 DEF Held, Holding
      <3>2. Held(t) \ {c} = (Held(s) \ {c}) \cup {h} BY <2>4, <2>5, <2>9, <3>1
      <3>3. Cardinality(Held(t) \ {c}) = Cardinality(Held(s) \ {c}) + 1
            /\ Cardinality(Held(s) \ {c}) \in Nat
        <4> DEFINE S == Held(s) \ {c}
        <4>1. S \in SUBSET LlmRequest /\ h \notin S BY <3>1 DEF Held
        <4>2. Held(t) \ {c} = S \cup {h} BY <3>2
        <4> HIDE DEF S
        <4>3. Cardinality(S \cup {h}) = Cardinality(S) + 1 /\ Cardinality(S) \in Nat
          BY <2>2, <4>1, Counts
        <4> QED BY <4>2, <4>3 DEF S
      <3>4. s.free + 1 + Cardinality(Held(s) \ {c}) = Permits BY DEF Kept
      <3>5. t.free = s.free /\ s.free \in Nat BY <1>1, <2>4, <2>9
      <3> QED BY <3>3, <3>4, <3>5
    <2>11. \A d \in LlmRequest \ {c} : CallSound(t.calls[d], t.stopped)
      BY <2>4, <2>7, <2>9 DEF Kept
    <2>12. \A i \in DOMAIN q : i + 1 \in DOMAIN s.queue /\ q[i] = s.queue[i + 1] /\ i \in Nat
      BY <2>2
    <2>13. /\ \A i \in DOMAIN t.queue : t.queue[i] \notin {c}
           /\ \A i, j \in DOMAIN t.queue : t.queue[i] = t.queue[j] => i = j
      <3>1. \A i \in DOMAIN q : q[i] \notin {c} BY <2>12 DEF Kept
      <3>2. ASSUME NEW i \in DOMAIN q, NEW j \in DOMAIN q, q[i] = q[j] PROVE i = j
        <4>1. i + 1 = j + 1 BY <2>12, <3>2 DEF Kept
        <4>2. i \in Nat /\ j \in Nat BY <2>12
        <4> QED BY <4>1, <4>2
      <3> QED BY <2>4, <2>9, <3>1, <3>2
    <2>14. \A d \in LlmRequest \ {c} :
             t.calls[d].stage = "waiting" <=> \E i \in DOMAIN t.queue : t.queue[i] = d
      <3> TAKE d \in LlmRequest \ {c}
      <3>1. s.calls[d].stage = "waiting" <=> \E i \in DOMAIN s.queue : s.queue[i] = d
        BY DEF Kept
      <3>2. CASE d = h
        <4>1. \A i \in DOMAIN q : q[i] # h
          <5> TAKE i \in DOMAIN q
          <5>1. i + 1 # 1 /\ i + 1 \in DOMAIN s.queue /\ 1 \in DOMAIN s.queue BY <2>2, <2>12
          <5>2. s.queue[i + 1] # s.queue[1] BY <5>1 DEF Kept
          <5> QED BY <2>2, <2>12, <5>2
        <4>2. t.calls[d].stage # "waiting" BY <2>6, <2>9, <3>2
        <4> QED BY <2>4, <2>9, <3>2, <4>1, <4>2
      <3>3. CASE d # h
        <4>1. \A i \in DOMAIN s.queue : s.queue[i] = d =>
                i - 1 \in DOMAIN q /\ q[i - 1] = d
          BY <2>2, <3>3
        <4>2. (\E i \in DOMAIN q : q[i] = d) <=> \E i \in DOMAIN s.queue : s.queue[i] = d
          BY <2>12, <4>1
        <4>3. t.calls[d] = s.calls[d] BY <2>4, <2>9, <3>3
        <4> QED BY <2>4, <2>9, <3>1, <4>2, <4>3
      <3> QED BY <3>2, <3>3
    <2>15. Kept(t, {c}, 0) BY <2>4, <2>5, <2>9, <2>10, <2>11, <2>13, <2>14 DEF Kept
    <2>16. t.calls[c] = s.calls[c] /\ t.stopped = s.stopped BY <2>4, <2>5, <2>9
    <2> QED BY <2>15, <2>16 DEF t
  <1> QED BY <1>2, <1>3

-----------------------------------------------------------------------------
\* A call under way has asked those before the candidate it is at in vain.
LEMMA UnderWay ==
    ASSUME Kept(llm, {}, 0), NEW c \in LlmRequest, Stage(c) \in Holding
    PROVE  /\ llm \in LlmStates /\ llm.calls[c] \in LlmCalls /\ c \in Held(llm)
           /\ llm.calls[c].at \in Nat \ {0} /\ InVain(llm.calls[c], llm.calls[c].at - 1)
           /\ llm.calls[c].outcome = "none" /\ llm.calls[c].stage = Stage(c)
           /\ llm.calls[c].at <= llm.calls[c].candidates
           /\ CallSound(llm.calls[c], llm.stopped)
  <1>1. llm \in LlmStates /\ llm.calls[c] \in LlmCalls BY StateParts DEF Kept
  <1>2. CallSound(llm.calls[c], llm.stopped) BY DEF Kept
  <1>3. llm.calls[c].stage \in Holding /\ llm.calls[c].stage = Stage(c) BY DEF Stage
  <1> QED BY <1>1, <1>2, <1>3 DEF CallSound, Held, Holding

\* A further cost, and the permit given back.
LEMMA CostReleased ==
    ASSUME Kept(llm, {}, 0), NEW c \in LlmRequest, Stage(c) \in Holding, NEW ok \in BOOLEAN
    PROVE  /\ Kept(Release(Cost(llm, c, ok)), {c}, 0)
           /\ Release(Cost(llm, c, ok)).calls[c] = Costing(llm.calls[c], ok)
           /\ Release(Cost(llm, c, ok)).stopped = llm.stopped
           /\ Costing(llm.calls[c], ok) \in LlmCalls
           /\ Costing(llm.calls[c], ok).at = llm.calls[c].at
           /\ Costing(llm.calls[c], ok).candidates = llm.calls[c].candidates
           /\ Costing(llm.calls[c], ok).outcome = "none"
           /\ Len(Costing(llm.calls[c], ok).costs) = llm.calls[c].at
           /\ ok = FALSE => InVain(Costing(llm.calls[c], ok), llm.calls[c].at)
           /\ ok = TRUE => Fails(Costing(llm.calls[c], ok)) = 1..(llm.calls[c].at - 1)
  <1> DEFINE x == llm.calls[c]
             y == Costing(x, ok)
             s == Cost(llm, c, ok)
  <1>1. /\ llm \in LlmStates /\ x \in LlmCalls /\ c \in Held(llm)
        /\ x.at \in Nat \ {0} /\ InVain(x, x.at - 1) /\ x.outcome = "none"
    BY UnderWay
  <1>2. s = WithCall(llm, c, y) BY <1>1, AsWithCall
  <1>3. /\ y \in LlmCalls /\ y.at = x.at /\ y.candidates = x.candidates /\ y.outcome = "none"
        /\ Len(y.costs) = x.at
        /\ ok = FALSE => InVain(y, x.at)
        /\ ok = TRUE => Fails(y) = 1..(x.at - 1)
    <2> HIDE DEF x
    <2>1. x.at - 1 \in Nat /\ x.at - 1 + 1 = x.at BY <1>1
    <2>2. /\ \A o \in BOOLEAN :
                /\ Costing(x, o) \in LlmCalls
                /\ Costing(x, o).at = x.at /\ Costing(x, o).candidates = x.candidates
                /\ Costing(x, o).outcome = x.outcome /\ Len(Costing(x, o).costs) = x.at
           /\ InVain(Costing(x, FALSE), x.at)
           /\ Fails(Costing(x, TRUE)) = 1..(x.at - 1)
      BY <1>1, <2>1, CostingTyped
    <2> QED BY <1>1, <2>2
  <1>4. Kept(llm, {c}, 1) BY <1>1, SetsOut
  <1> HIDE DEF y, s
  <1>5. Kept(s, {c}, 1) /\ s.calls[c] = y /\ s.stopped = llm.stopped
    BY <1>2, <1>3, <1>4, KeptOneCall
  <1>6. Kept(Release(s), {c}, 0) /\ Release(s).calls[c] = y /\ Release(s).stopped = llm.stopped
    BY <1>5, ReleaseKept
  <1> QED BY <1>3, <1>6 DEF y, s

LEMMA ReturnsKept ==
    ASSUME Kept(llm, {}, 0), NEW c \in LlmRequest, Stage(c) \in Holding, Returns(c)
    PROVE  Kept(llm', {}, 0)
  <1> DEFINE s == Release(Cost(llm, c, TRUE))
             y == Costing(llm.calls[c], TRUE)
  <1>1. /\ Kept(s, {c}, 0) /\ s.calls[c] = y /\ y \in LlmCalls
        /\ Len(y.costs) = y.at /\ Fails(y) = 1..(y.at - 1)
    BY CostReleased
  <1>2. llm' = Ends(s, c, "text") BY DEF Returns
  <1> HIDE DEF s, y
  <1>3. CallSound(Ended(y, "text"), s.stopped)
    <2>1. /\ Ended(y, "text").stage = "ended" /\ Ended(y, "text").at = y.at
          /\ Ended(y, "text").costs = y.costs /\ Ended(y, "text").outcome = "text"
          /\ Fails(Ended(y, "text")) = Fails(y)
      BY <1>1, EndedTyped
    <2> QED BY <1>1, <2>1 DEF CallSound, Holding
  <1> QED BY <1>1, <1>2, <1>3, EndsKept

LEMMA FailedKept ==
    ASSUME Kept(llm, {}, 0), NEW c \in LlmRequest, Stage(c) \in Holding
    PROVE  Kept(Failed(llm, c), {}, 0)
  <1> DEFINE s == Release(Cost(llm, c, FALSE))
             x == llm.calls[c]
             y == Costing(x, FALSE)
  <1>1. /\ Kept(s, {c}, 0) /\ s.calls[c] = y /\ y \in LlmCalls /\ s.stopped = llm.stopped
        /\ y.at = x.at /\ y.candidates = x.candidates /\ y.outcome = "none"
        /\ InVain(y, y.at) /\ y.at \in Nat \ {0} /\ x.at <= x.candidates
    BY CostReleased, UnderWay
  <1>2. Failed(llm, c) = IF llm.stopped THEN Ends(s, c, "stopped")
                         ELSE IF x.at = x.candidates THEN Ends(s, c, "failed")
                         ELSE Acquire([s EXCEPT !.calls[c].at = @ + 1], c)
    BY DEF Failed
  <1> HIDE DEF s, x, y
  <1>3. /\ Ended(y, "stopped").stage = "ended" /\ Ended(y, "stopped").outcome = "stopped"
        /\ Ended(y, "failed").stage = "ended" /\ Ended(y, "failed").outcome = "failed"
        /\ Ended(y, "failed").candidates = y.candidates
        /\ Fails(Ended(y, "failed")) = Fails(y)
    BY <1>1, EndedTyped
  <1>4. CASE llm.stopped
    <2>1. CallSound(Ended(y, "stopped"), s.stopped) BY <1>1, <1>3, <1>4 DEF CallSound, Holding
    <2> QED BY <1>1, <1>2, <1>4, <2>1, EndsKept
  <1>5. CASE ~llm.stopped /\ x.at = x.candidates
    <2>1. CallSound(Ended(y, "failed"), s.stopped)
      BY <1>1, <1>3, <1>5 DEF CallSound, Holding, InVain
    <2> QED BY <1>1, <1>2, <1>5, <2>1, EndsKept
  <1>6. CASE ~llm.stopped /\ x.at # x.candidates
    <2> DEFINE z == [y EXCEPT !.at = @ + 1]
               t == [s EXCEPT !.calls[c].at = @ + 1]
    <2>1. /\ z \in LlmCalls /\ z.at = y.at + 1 /\ z.outcome = y.outcome /\ z.costs = y.costs
          /\ Fails(z) = Fails(y) /\ z.candidates = y.candidates
      BY <1>1 DEF LlmCalls, Fails
    <2>2. t = WithCall(s, c, z)
      <3>1. s \in LlmStates /\ s.calls \in [LlmRequest -> LlmCalls] BY <1>1, StateParts DEF Kept
      <3> QED BY <1>1, <3>1 DEF WithCall, LlmStates, LlmCalls
    <2>3. Failed(llm, c) = Acquire(t, c) BY <1>2, <1>6
    <2> HIDE DEF z, t
    <2>4. Kept(t, {c}, 0) /\ t.calls[c] = z BY <1>1, <2>1, <2>2, KeptOneCall
    <2>5. Ready(z)
      <3>1. y.candidates \in Nat BY <1>1, CallParts, DecisionsNat
      <3>2. z.at <= z.candidates BY <1>1, <1>6, <2>1, <3>1
      <3> QED BY <1>1, <2>1, <3>2 DEF Ready, InVain
    <2> QED BY <2>3, <2>4, <2>5, AcquireKept
  <1> QED BY <1>4, <1>5, <1>6

LEMMA DecideKept ==
    ASSUME Kept(llm, {}, 0), NEW c \in LlmRequest, Decide(c) PROVE Kept(llm', {}, 0)
  <1>1. PICK n \in Decisions, t \in BOOLEAN :
          LET s == [llm EXCEPT !.calls[c].candidates = n, !.calls[c].tools = t, !.calls[c].at = 1]
          IN  llm' = IF n = 0 THEN Ends(s, c, "failed") ELSE Acquire(s, c)
    BY DEF Decide
  <1> DEFINE s == [llm EXCEPT !.calls[c].candidates = n, !.calls[c].tools = t, !.calls[c].at = 1]
             x == llm.calls[c]
             y == [x EXCEPT !.candidates = n, !.tools = t, !.at = 1]
  <1>2. llm' = IF n = 0 THEN Ends(s, c, "failed") ELSE Acquire(s, c) BY <1>1
  <1>3. llm \in LlmStates /\ llm.calls \in [LlmRequest -> LlmCalls] /\ x \in LlmCalls
    BY StateParts DEF Kept
  <1>4. x.stage = "new" /\ x.outcome = "none" /\ InVain(x, 0)
    BY DEF Decide, Stage, Kept, CallSound
  <1>5. /\ y \in LlmCalls /\ y.at = 1 /\ y.outcome = "none" /\ y.costs = x.costs
        /\ Fails(y) = Fails(x) /\ y.candidates = n
    <2> HIDE DEF x
    <2> QED BY <1>3, <1>4 DEF LlmCalls, Fails
  <1>6. s = WithCall(llm, c, y) BY <1>3 DEF WithCall, LlmStates, LlmCalls
  <1>7. Kept(llm, {c}, 0) BY <1>4, SetsOut
  <1> HIDE DEF s, x, y
  <1>11. y \in LlmCalls BY <1>5
  <1>8. Kept(s, {c}, 0) /\ s.calls[c] = y BY <1>6, <1>7, <1>11, KeptOneCall
  <1>9. CASE n = 0
    <2>1. /\ Ended(y, "failed").stage = "ended" /\ Ended(y, "failed").outcome = "failed"
          /\ Ended(y, "failed").candidates = 0
          /\ Fails(Ended(y, "failed")) = Fails(y)
      BY <1>5, <1>9, EndedTyped
    <2>2. CallSound(Ended(y, "failed"), s.stopped)
      BY <1>4, <1>5, <2>1 DEF CallSound, Holding, InVain
    <2> QED BY <1>2, <1>8, <1>9, <2>2, EndsKept
  <1>10. CASE n # 0
    <2>1. n \in Nat BY DecisionsNat
    <2>2. y.at <= y.candidates BY <1>5, <1>10, <2>1
    <2>3. Ready(y) BY <1>4, <1>5, <2>2 DEF Ready, InVain
    <2> QED BY <1>2, <1>8, <1>10, <2>3, AcquireKept
  <1> QED BY <1>9, <1>10

\* The call goes on with its permit.
LEMMA GoesOn ==
    ASSUME Kept(llm, {}, 0), NEW c \in LlmRequest, Stage(c) \in Holding, NEW x \in LlmCalls,
           x.stage \in Holding, x.at = llm.calls[c].at, x.costs = llm.calls[c].costs,
           x.outcome = llm.calls[c].outcome, x.candidates = llm.calls[c].candidates,
           llm' = WithCall(llm, c, x)
    PROVE  Kept(llm', {}, 0)
  <1>1. /\ llm \in LlmStates /\ llm.calls[c] \in LlmCalls /\ c \in Held(llm)
        /\ CallSound(llm.calls[c], llm.stopped) /\ llm.calls[c].stage \in Holding
    BY UnderWay
  <1>2. /\ llm' \in LlmStates /\ llm'.free = llm.free /\ llm'.queue = llm.queue
        /\ llm'.stopped = llm.stopped
        /\ llm'.calls[c] = x /\ \A d \in LlmRequest \ {c} : llm'.calls[d] = llm.calls[d]
    <2> DEFINE t == llm'
    <2>1. t = WithCall(llm, c, x) OBVIOUS
    <2> HIDE DEF t
    <2>2. /\ t \in LlmStates /\ t.free = llm.free /\ t.queue = llm.queue
          /\ t.stopped = llm.stopped
          /\ t.calls[c] = x /\ \A d \in LlmRequest \ {c} : t.calls[d] = llm.calls[d]
      BY <1>1, <2>1, OneCall
    <2> QED BY <2>2 DEF t
  <1>3. Held(llm') = Held(llm) BY <1>1, <1>2 DEF Held
  <1>4. CallSound(x, llm.stopped) BY <1>1 DEF CallSound, Holding, InVain, Fails
  <1>5. \A d \in LlmRequest : CallSound(llm'.calls[d], llm'.stopped) BY <1>2, <1>4 DEF Kept
  <1>6. \A d \in LlmRequest : (llm'.calls[d].stage = "waiting") <=> (llm.calls[d].stage = "waiting")
    BY <1>1, <1>2 DEF Holding
  <1> QED BY <1>2, <1>3, <1>5, <1>6 DEF Kept

LEMMA CallsToolsKept ==
    ASSUME Kept(llm, {}, 0), NEW c \in LlmRequest, CallsTools(c) PROVE Kept(llm', {}, 0)
  <1> DEFINE x == llm.calls[c]
             y == [x EXCEPT !.stage = "tools"]
  <1>1. Stage(c) \in Holding BY DEF CallsTools, Holding
  <1>2. llm \in LlmStates /\ x \in LlmCalls BY <1>1, UnderWay
  <1>3. llm' = WithCall(llm, c, y)
    BY <1>2, StateParts DEF CallsTools, WithCall, LlmStates, LlmCalls
  <1>4. /\ y \in LlmCalls /\ y.stage \in Holding /\ y.at = x.at /\ y.costs = x.costs
        /\ y.outcome = x.outcome /\ y.candidates = x.candidates
    <2> HIDE DEF x
    <2> QED BY <1>2 DEF LlmCalls, Holding
  <1> HIDE DEF y
  <1> QED BY <1>1, <1>3, <1>4, GoesOn

LEMMA NextRoundKept ==
    ASSUME Kept(llm, {}, 0), NEW c \in LlmRequest, NextRound(c) PROVE Kept(llm', {}, 0)
  <1>1. Stage(c) \in Holding BY DEF NextRound, Holding
  <1>2. CASE llm.calls[c].round = MaxRounds
    <2>1. Returns(c) BY <1>2 DEF NextRound
    <2> QED BY <1>1, <2>1, ReturnsKept
  <1>3. CASE llm.calls[c].round # MaxRounds /\ llm.stopped
    <2>1. llm' = Failed(llm, c) BY <1>3 DEF NextRound
    <2> QED BY <1>1, <2>1, FailedKept
  <1>4. CASE llm.calls[c].round # MaxRounds /\ ~llm.stopped
    <2> DEFINE x == llm.calls[c]
               n == x.round + 1
               y == [x EXCEPT !.stage = "asking", !.round = n, !.tries = 0]
    <2>1. /\ llm \in LlmStates /\ x \in LlmCalls /\ llm.calls \in [LlmRequest -> LlmCalls]
          /\ n \in Nat
      BY <1>1, UnderWay, StateParts, CallParts
    <2>2. llm' = WithCall(llm, c, y)
      <3>1. llm' = [llm EXCEPT !.calls[c].stage = "asking", !.calls[c].round = n,
                               !.calls[c].tries = 0]
        BY <1>4 DEF NextRound
      <3> HIDE DEF n
      <3> QED BY <2>1, <3>1 DEF WithCall, LlmStates, LlmCalls
    <2>3. /\ y \in LlmCalls /\ y.stage \in Holding /\ y.at = x.at /\ y.costs = x.costs
          /\ y.outcome = x.outcome /\ y.candidates = x.candidates
      <3> HIDE DEF x, n
      <3> QED BY <2>1 DEF LlmCalls, Holding
    <2> HIDE DEF y
    <2> QED BY <1>1, <2>2, <2>3, GoesOn
  <1> QED BY <1>2, <1>3, <1>4

LEMMA ErrsKept ==
    ASSUME Kept(llm, {}, 0), NEW c \in LlmRequest, NEW fault, Errs(c, fault) PROVE Kept(llm', {}, 0)
  <1>1. Stage(c) \in Holding BY DEF Errs, Holding
  <1>2. CASE ~Again(c, fault)
    <2>1. llm' = Failed(llm, c) BY <1>2 DEF Errs
    <2> QED BY <1>1, <2>1, FailedKept
  <1>3. CASE Again(c, fault)
    <2> DEFINE x == llm.calls[c]
               n == x.tries + 1
               y == [x EXCEPT !.stage = "sleeping", !.tries = n]
    <2>1. /\ llm \in LlmStates /\ x \in LlmCalls /\ llm.calls \in [LlmRequest -> LlmCalls]
          /\ n \in Nat
      BY <1>1, UnderWay, StateParts, CallParts
    <2>2. llm' = WithCall(llm, c, y)
      BY <1>3, <2>1 DEF Errs, WithCall, LlmStates, LlmCalls
    <2>3. /\ y \in LlmCalls /\ y.stage \in Holding /\ y.at = x.at /\ y.costs = x.costs
          /\ y.outcome = x.outcome /\ y.candidates = x.candidates
      <3> HIDE DEF x, n
      <3> QED BY <2>1 DEF LlmCalls, Holding
    <2> HIDE DEF y
    <2> QED BY <1>1, <2>2, <2>3, GoesOn
  <1> QED BY <1>2, <1>3

LEMMA WakesKept ==
    ASSUME Kept(llm, {}, 0), NEW c \in LlmRequest, Wakes(c) PROVE Kept(llm', {}, 0)
  <1> DEFINE x == llm.calls[c]
             y == [x EXCEPT !.stage = "asking"]
  <1>1. Stage(c) \in Holding BY DEF Wakes, Holding
  <1>2. llm \in LlmStates /\ x \in LlmCalls BY <1>1, UnderWay
  <1>3. llm' = WithCall(llm, c, y)
    BY <1>2, StateParts DEF Wakes, WithCall, LlmStates, LlmCalls
  <1>4. /\ y \in LlmCalls /\ y.stage \in Holding /\ y.at = x.at /\ y.costs = x.costs
        /\ y.outcome = x.outcome /\ y.candidates = x.candidates
    <2> HIDE DEF x
    <2> QED BY <1>2 DEF LlmCalls, Holding
  <1> HIDE DEF y
  <1> QED BY <1>1, <1>3, <1>4, GoesOn

\* What the stop makes of one call.
LEMMA HaltedSound ==
    ASSUME NEW x \in LlmCalls, NEW stopped, CallSound(x, stopped)
    PROVE  /\ Halted(x) \in LlmCalls /\ CallSound(Halted(x), TRUE)
           /\ Halted(x).stage # "waiting"
           /\ Halted(x).stage \in Holding <=> x.stage \in Holding /\ ~Sleeper(x)
  <1>1. ASSUME NEW y \in LlmCalls
        PROVE  /\ Stopped(y) \in LlmCalls /\ CallSound(Stopped(y), TRUE)
               /\ Stopped(y).stage = "ended"
    <2>1. /\ Stopped(y) \in LlmCalls /\ Stopped(y).stage = "ended"
          /\ Stopped(y).outcome = "stopped"
      BY DEF LlmCalls, Stopped
    <2> QED BY <2>1 DEF CallSound, Holding
  <1>2. CASE x.stage = "waiting"
    <2>1. Halted(x) = Stopped(x) BY <1>2 DEF Halted
    <2> QED BY <1>1, <1>2, <2>1 DEF Holding
  <1>3. CASE x.stage # "waiting" /\ Sleeper(x)
    <2>1. Halted(x) = Stopped(Costing(x, FALSE)) BY <1>3 DEF Halted, Costing
    <2>2. Costing(x, FALSE) \in LlmCalls
      <3>1. x.costs \in Seq(BOOLEAN) BY CallParts
      <3>2. Append(x.costs, FALSE) \in Seq(BOOLEAN) BY <3>1
      <3> QED BY <3>2 DEF LlmCalls, Costing
    <2> QED BY <1>1, <1>3, <2>1, <2>2 DEF Holding
  <1>4. CASE x.stage # "waiting" /\ ~Sleeper(x)
    <2>1. Halted(x) = x BY <1>4 DEF Halted
    <2>2. CallSound(x, TRUE) BY DEF CallSound
    <2> QED BY <1>4, <2>1, <2>2
  <1> QED BY <1>2, <1>3, <1>4

LEMMA StopRunKept == ASSUME Kept(llm, {}, 0), StopRun PROVE Kept(llm', {}, 0)
  <1> DEFINE asleep == {c \in LlmRequest : Sleeper(llm.calls[c])}
             cs == [c \in LlmRequest |-> Halted(llm.calls[c])]
             n == llm.free + Cardinality(asleep)
  <1>1. llm \in LlmStates /\ llm.free \in Nat /\ llm.stopped \in BOOLEAN
        /\ \A c \in LlmRequest : llm.calls[c] \in LlmCalls
    BY StateParts DEF Kept
  <1>2. \A c \in LlmRequest :
          /\ cs[c] \in LlmCalls /\ CallSound(cs[c], TRUE) /\ cs[c].stage # "waiting"
          /\ cs[c].stage \in Holding <=> llm.calls[c].stage \in Holding /\ c \notin asleep
    <2> TAKE c \in LlmRequest
    <2>1. CallSound(llm.calls[c], llm.stopped) BY DEF Kept
    <2> DEFINE x == llm.calls[c]
    <2>2. x \in LlmCalls /\ cs[c] = Halted(x) /\ (c \in asleep <=> Sleeper(x)) BY <1>1
    <2>3. CallSound(x, llm.stopped) BY <2>1
    <2> HIDE DEF x, cs, asleep
    <2>4. /\ Halted(x) \in LlmCalls /\ CallSound(Halted(x), TRUE)
          /\ Halted(x).stage # "waiting"
          /\ Halted(x).stage \in Holding <=> x.stage \in Holding /\ ~Sleeper(x)
      BY <2>2, <2>3, HaltedSound
    <2> QED BY <2>2, <2>4 DEF x
  <1>3. asleep \in SUBSET LlmRequest /\ asleep \subseteq Held(llm)
    BY DEF Sleeper, Held, Holding
  <1>4. llm' = [stopped |-> TRUE, queue |-> <<>>, free |-> n, calls |-> cs] BY DEF StopRun
  <1>5. IsFiniteSet(Held(llm)) /\ IsFiniteSet(asleep)
    <2>1. Held(llm) \in SUBSET LlmRequest BY DEF Held
    <2> QED BY <1>3, <2>1, FS_Subset, LlmAssumption
  <1>6. cs \in [LlmRequest -> LlmCalls] BY <1>2
  <1>7. n \in Nat BY <1>1, <1>5, FS_CardinalityType
  <1> HIDE DEF cs, n, asleep
  <1>8. /\ llm' \in LlmStates /\ llm'.free = n /\ llm'.queue = <<>> /\ llm'.calls = cs
        /\ llm'.stopped
    <2> DEFINE t == [stopped |-> TRUE, queue |-> <<>>, free |-> n, calls |-> cs]
    <2>1. <<>> \in Seq(LlmRequest) OBVIOUS
    <2>2. t \in LlmStates BY <1>6, <1>7, <2>1 DEF LlmStates
    <2>3. t.free = n /\ t.queue = <<>> /\ t.calls = cs /\ t.stopped OBVIOUS
    <2> QED BY <1>4, <2>2, <2>3
  <1>9. Held(llm') = Held(llm) \ asleep BY <1>2, <1>8 DEF Held
  <1>10. Cardinality(Held(llm) \ asleep) = Cardinality(Held(llm)) - Cardinality(asleep)
    <2>1. Held(llm) \cap asleep = asleep BY <1>3
    <2>2. Cardinality(Held(llm) \ asleep) = Cardinality(Held(llm)) - Cardinality(Held(llm) \cap asleep)
      BY <1>5, FS_Difference
    <2> QED BY <2>1, <2>2
  <1>11. llm'.free + 0 + Cardinality(Held(llm') \ {}) = Permits
    <2>1. Held(llm') \ {} = Held(llm) \ asleep /\ Held(llm) \ {} = Held(llm) BY <1>9
    <2>2. llm.free + 0 + Cardinality(Held(llm)) = Permits BY <2>1 DEF Kept
    <2>3. Cardinality(Held(llm)) \in Nat /\ Cardinality(asleep) \in Nat
      BY <1>5, FS_CardinalityType
    <2>4. llm'.free = llm.free + Cardinality(asleep) BY <1>8 DEF n
    <2>5. llm.free \in Nat BY <1>1
    <2>6. Cardinality(Held(llm') \ {}) = Cardinality(Held(llm)) - Cardinality(asleep)
      BY <1>10, <2>1
    <2> QED BY <2>2, <2>3, <2>4, <2>5, <2>6
  <1>12. \A c \in LlmRequest : CallSound(llm'.calls[c], llm'.stopped) /\ llm'.calls[c].stage # "waiting"
    BY <1>2, <1>8 DEF CallSound
  <1>13. DOMAIN llm'.queue = {} BY <1>8
  <1> QED BY <1>8, <1>11, <1>12, <1>13 DEF Kept

LEMMA KeptInit == LlmInit => Kept(llm, {}, 0)
  <1> SUFFICES ASSUME LlmInit PROVE Kept(llm, {}, 0) OBVIOUS
  <1>1. NewCall \in LlmCalls /\ NewCall.stage = "new" /\ CallSound(NewCall, FALSE)
    <2>1. <<>> \in Seq(BOOLEAN) /\ Len(<<>>) = 0 OBVIOUS
    <2>2. NewCall \in LlmCalls BY <2>1 DEF NewCall, LlmCalls
    <2>3. /\ NewCall.stage = "new" /\ NewCall.outcome = "none" /\ NewCall.costs = <<>>
      BY DEF NewCall
    <2>4. InVain(NewCall, 0) BY <2>1, <2>3 DEF InVain, Fails
    <2> QED BY <2>2, <2>3, <2>4 DEF CallSound, Holding
  <1>2. /\ llm = [free |-> Permits, queue |-> <<>>, stopped |-> FALSE,
                  calls |-> [c \in LlmRequest |-> NewCall]]
        /\ Permits \in Nat
    BY LlmAssumption DEF LlmInit
  <1>3. llm \in LlmStates /\ llm.free = Permits /\ llm.queue = <<>> /\ ~llm.stopped
        /\ \A c \in LlmRequest : llm.calls[c] = NewCall
    <2> DEFINE cs == [c \in LlmRequest |-> NewCall]
    <2>1. cs \in [LlmRequest -> LlmCalls] BY <1>1
    <2>2. <<>> \in Seq(LlmRequest) OBVIOUS
    <2>3. llm.calls = cs /\ llm.free = Permits /\ llm.queue = <<>> /\ ~llm.stopped BY <1>2
    <2>4. \A c \in LlmRequest : llm.calls[c] = NewCall BY <2>3
    <2> HIDE DEF cs
    <2>5. llm \in LlmStates BY <1>2, <2>1, <2>2, <2>3 DEF LlmStates, cs
    <2> QED BY <2>3, <2>4, <2>5
  <1>4. Held(llm) \ {} = {} BY <1>1, <1>3 DEF Held, Holding
  <1>5. Cardinality(Held(llm) \ {}) = 0 BY <1>4, FS_EmptySet
  <1>6. \A c \in LlmRequest : CallSound(llm.calls[c], llm.stopped) /\ llm.calls[c].stage # "waiting"
    BY <1>1, <1>3 DEF CallSound
  <1>7. DOMAIN llm.queue = {} BY <1>3
  <1>8. llm.free + 0 + Cardinality(Held(llm) \ {}) = Permits BY <1>2, <1>3, <1>5
  <1> QED BY <1>3, <1>6, <1>7, <1>8 DEF Kept

LEMMA KeptNext == Kept(llm, {}, 0) /\ [LlmNext]_llm => Kept(llm, {}, 0)'
  <1> SUFFICES ASSUME Kept(llm, {}, 0), [LlmNext]_llm PROVE Kept(llm', {}, 0) OBVIOUS
  <1>1. ASSUME NEW c \in LlmRequest, Decide(c) PROVE Kept(llm', {}, 0) BY <1>1, DecideKept
  <1>2. ASSUME NEW c \in LlmRequest, Answers(c) PROVE Kept(llm', {}, 0)
    BY <1>2, ReturnsKept DEF Answers, Holding
  <1>3. ASSUME NEW c \in LlmRequest, CallsTools(c) PROVE Kept(llm', {}, 0) BY <1>3, CallsToolsKept
  <1>4. ASSUME NEW c \in LlmRequest, NextRound(c) PROVE Kept(llm', {}, 0) BY <1>4, NextRoundKept
  <1>5. ASSUME NEW c \in LlmRequest, Wakes(c) PROVE Kept(llm', {}, 0) BY <1>5, WakesKept
  <1>6. ASSUME NEW c \in LlmRequest, NEW fault, Errs(c, fault) PROVE Kept(llm', {}, 0)
    BY <1>6, ErrsKept
  <1>7. CASE StopRun BY <1>7, StopRunKept
  <1>8. CASE UNCHANGED llm BY <1>8
  <1> QED BY <1>1, <1>2, <1>3, <1>4, <1>5, <1>6, <1>7, <1>8 DEF LlmNext

\* The semaphore and the calls of a run have the types the code gives them.
THEOREM LlmTyped == LlmSpec => []LlmTypeOK
  <1>1. Kept(llm, {}, 0) => LlmTypeOK BY DEF Kept, LlmTypeOK
  <1> QED BY <1>1, KeptInit, KeptNext, PTL DEF LlmSpec

\* Every permit is free or with a call, nobody waits for a free one, and a call ends
\* by its first success, by the failure of all its candidates or by the stop.
THEOREM PermitsKept == LlmSpec => []LlmSound
  <1>1. ASSUME Kept(llm, {}, 0) PROVE LlmSound
    <2>1. Held(llm) \ {} = Holders BY DEF Held, Holding, Holders, Stage
    <2>2. llm \in LlmStates /\ \A c \in LlmRequest : llm.calls[c] \in LlmCalls
      BY <1>1, StateParts DEF Kept
    <2>3. llm.free + Cardinality(Holders) = Permits
      <3>1. llm.free \in Nat BY <2>2, StateParts
      <3>2. llm.free + 0 + Cardinality(Holders) = Permits BY <1>1, <2>1 DEF Kept
      <3>3. Cardinality(Holders) \in Nat
        <4>1. Holders \in SUBSET LlmRequest BY DEF Holders
        <4> QED BY <4>1, FS_Subset, FS_CardinalityType, LlmAssumption
      <3> QED BY <3>1, <3>2, <3>3
    <2>4. llm.queue # <<>> => llm.free = 0 /\ ~llm.stopped BY <1>1 DEF Kept
    <2>5. \A c \in LlmRequest : Stage(c) = "waiting" <=> \E i \in DOMAIN llm.queue : llm.queue[i] = c
      BY <1>1 DEF Kept, Stage
    <2>6. \A c \in LlmRequest : CallSound(llm.calls[c], llm.stopped) BY <1>1 DEF Kept
    <2> QED BY <2>3, <2>4, <2>5, <2>6 DEF LlmSound, CallSound, InVain, Fails, Holding
  <1> QED BY <1>1, KeptInit, KeptNext, PTL DEF LlmSpec

\* A node is only ever given agents that it, or the route of its category, names (any
\* enabled one when there is no route), whatever is enabled, callable and configured;
\* and a call under way is at one of its candidates.
THEOREM CandidatesStay == LlmSpec => []CandidatesKept
  <1>1. RoutesKept BY ChainsKept DEF RoutesKept
  <1>2. ASSUME Kept(llm, {}, 0) PROVE CandidatesKept
    <2>1. ASSUME NEW c \in LlmRequest, Stage(c) \in {"waiting", "asking", "tools", "sleeping"}
          PROVE  llm.calls[c].at \in 1..llm.calls[c].candidates
      <3>1. llm.calls[c] \in LlmCalls /\ CallSound(llm.calls[c], llm.stopped)
        BY <1>2, StateParts DEF Kept
      <3>2. llm.calls[c].at \in Nat \ {0} /\ llm.calls[c].at <= llm.calls[c].candidates
        BY <2>1, <3>1 DEF CallSound, Holding, Stage
      <3>3. llm.calls[c].candidates \in Nat BY <3>1, CallParts, DecisionsNat
      <3> QED BY <3>2, <3>3
    <2> QED BY <1>1, <2>1 DEF CandidatesKept
  <1> QED BY <1>2, KeptInit, KeptNext, PTL DEF LlmSpec

=============================================================================
