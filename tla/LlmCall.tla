------------------------------ MODULE LlmCall ------------------------------
(***************************************************************************)
(* The calls of models by the nodes of one run (src/src/engine and         *)
(* src/src/agents): the choice of the agents to try (AgentRouter), the     *)
(* semaphore that limits how many calls are under way, the loop over the   *)
(* candidates with retries and tool rounds, and the stop of the run.       *)
(* Prompts, prices and the transport of a provider are left out: a request *)
(* is answered, fails, or hangs.                                           *)
(***************************************************************************)
EXTENDS Naturals, Sequences, FiniteSets, Functions

CONSTANTS
  LlmAgent,     \* agents in the order of the project's list
  NoRef,
  LlmRequest,   \* calls by the nodes of the run
  Permits,      \* maxConcurrency of the run
  PlainRetries, \* maxRetries of the run, for calls without tools
  ToolRetries,  \* retries of the harness
  MaxRounds     \* rounds of the harness

ASSUME LlmAssumption ==
  /\ LlmAgent \in Seq(STRING) /\ NoRef \notin {"id", "name"} \X STRING
  /\ IsFiniteSet(LlmRequest)
  /\ Permits \in Nat \ {0} /\ MaxRounds \in Nat \ {0}
  /\ PlainRetries \in Nat /\ ToolRetries \in Nat

VARIABLE llm  \* the semaphore, its queue, the stop signal and the calls

-----------------------------------------------------------------------------
(* The choice of the agents *)

Listed == {LlmAgent[i] : i \in DOMAIN LlmAgent}

\* A node, the routes and the default name an agent by its id or by its name.
Ref == {<<by, a>> : by \in {"id", "name"}, a \in Listed}

\* What a decision is made from: the enabled agents, those with an endpoint, a
\* model and a key, those of the light tier, whether the task is heavy, the agent
\* the node asks for, the route of its category and the default.
Env == [enabled : SUBSET Listed, callable : SUBSET Listed, light : SUBSET Listed,
        heavy : BOOLEAN, explicit : Ref \cup {NoRef}, default : Ref \cup {NoRef},
        route : {<<>>} \cup {<<r>> : r \in Ref} \cup {<<NoRef, r>> : r \in Ref}
                  \cup {<<r, t>> : r \in Ref, t \in Ref}]

\* A route is its agent, or NoRef, followed by its fallbacks; byId of resolveAgentScored.
Found(e, ref) == {a \in e.enabled : ref # NoRef /\ ref[2] = a}
HasRoute(e) == e.route # <<>>
Fallbacks(e) == IF HasRoute(e) THEN Tail(e.route) ELSE <<>>

\* A list without what was there before and without what is not in keep.
Without(list, keep) ==
  LET f[i \in 0..Len(list)] ==
        IF i = 0 THEN <<>>
        ELSE LET before == f[i - 1]
                 seen == \E j \in DOMAIN before : before[j] = list[i]
             IN  IF seen \/ list[i] \notin keep THEN before ELSE Append(before, list[i])
  IN  f[Len(list)]

ById == [i \in DOMAIN LlmAgent |-> <<"id", LlmAgent[i]>>]

\* candidateChain, which looks for the fallbacks and the default by id only.
ChainOf(agent, e) ==
  LET refs == <<<<"id", agent>>>> \o
                (IF HasRoute(e) THEN Fallbacks(e) ELSE <<e.default>> \o ById)
      kept == Without(refs, {ref \in Ref : ref[1] = "id" /\ ref[2] \in e.enabled})
  IN  [i \in DOMAIN kept |-> kept[i][2]]

\* Mutant: the other agents are added to those of the category.
PoolAnywhere(e) == e.route \o <<e.default>> \o ById
\* The candidates: those of the category alone when it has a route.
PoolRefs(e) == IF HasRoute(e) THEN e.route ELSE <<e.default>> \o ById

\* A reference, not an agent, is what is taken once; isAgentCallable.
Pool(e) ==
  LET kept == Without(PoolRefs(e), {ref \in Ref : Found(e, ref) \cap e.callable # {}})
  IN  [i \in DOMAIN kept |-> kept[i][2]]

\* scoreCandidates: by cost, success and tier, which may give any order, but that
\* the light models come last for a heavy task.
Scored(p, e) ==
  {s \in {[i \in DOMAIN p |-> p[b[i]]] : b \in Bijection(DOMAIN p, DOMAIN p)} :
     e.heavy => \A i, j \in DOMAIN s : i < j /\ s[i] \in e.light => s[j] \in e.light}

\* decideAgentCall; none is left when there is no candidate.
Chains(e) ==
  IF Found(e, e.explicit) # {} THEN {ChainOf(a, e) : a \in Found(e, e.explicit)}
  ELSE Scored(Pool(e), e)

\* The agents a decision may use: the one that was asked for, and of the others
\* those of the category when it has a route.
MayUse(e) ==
  Found(e, e.explicit) \cup
    (IF HasRoute(e) THEN UNION {Found(e, e.route[i]) : i \in DOMAIN e.route} ELSE e.enabled)

\* The loop over the candidates needs to know only how many they are.
Decisions == UNION {{Len(s) : s \in Chains(e)} : e \in Env}

-----------------------------------------------------------------------------
(* The semaphore *)

NewCall == [stage |-> "new", candidates |-> 0, tools |-> FALSE, at |-> 0,
            tries |-> 0, round |-> 0, costs |-> <<>>, outcome |-> "none"]

LlmInit == llm = [free |-> Permits, queue |-> <<>>, stopped |-> FALSE,
                  calls |-> [c \in LlmRequest |-> NewCall]]

Stage(c) == llm.calls[c].stage
Holders == {c \in LlmRequest : Stage(c) \in {"asking", "tools", "sleeping"}}

Asks(s, c) == [s EXCEPT !.calls[c].stage = "asking", !.calls[c].tries = 0, !.calls[c].round = 1]
Ends(s, c, how) == [s EXCEPT !.calls[c].stage = "ended", !.calls[c].outcome = how]

\* acquire, whose AbortError is not caught by the loop over the candidates.
Acquire(s, c) ==
  IF s.stopped THEN Ends(s, c, "stopped")
  ELSE IF s.free > 0 THEN Asks([s EXCEPT !.free = @ - 1], c)
  ELSE [s EXCEPT !.queue = Append(@, c), !.calls[c].stage = "waiting"]

\* Mutant: the permit is given back, and who waits for it is not woken.
ReleaseUnheard(s) == [s EXCEPT !.free = @ + 1]
\* release: the first that waits takes the permit at once.
Release(s) ==
  IF s.queue = <<>> THEN [s EXCEPT !.free = @ + 1]
  ELSE Asks([s EXCEPT !.queue = Tail(@)], Head(s.queue))

Cost(s, c, ok) == [s EXCEPT !.calls[c].costs = Append(@, ok)]

\* The catch clause of runLlmWithFallback: the next candidate queues behind the
\* others, unless the run was stopped.
Failed(s, c) ==
  LET after == Release(Cost(s, c, FALSE))
      x == s.calls[c]
  IN  IF s.stopped THEN Ends(after, c, "stopped")
      ELSE IF x.at = x.candidates THEN Ends(after, c, "failed")
      ELSE Acquire([after EXCEPT !.calls[c].at = @ + 1], c)

-----------------------------------------------------------------------------
(* A call *)

Decide(c) ==
  /\ Stage(c) = "new"
  /\ \E n \in Decisions, t \in BOOLEAN :
       LET s == [llm EXCEPT !.calls[c].candidates = n, !.calls[c].tools = t, !.calls[c].at = 1]
       IN  llm' = IF n = 0 THEN Ends(s, c, "failed") ELSE Acquire(s, c)

Returns(c) == llm' = Ends(Release(Cost(llm, c, TRUE)), c, "text")

\* The provider answers; a request that was aborted may have been answered before.
Answers(c) == Stage(c) = "asking" /\ Returns(c)

\* The harness executes the tools the model asks for, and goes on to the next round
\* or ends with the text it has.
CallsTools(c) ==
  /\ Stage(c) = "asking" /\ llm.calls[c].tools
  /\ llm' = [llm EXCEPT !.calls[c].stage = "tools"]

NextRound(c) ==
  /\ Stage(c) = "tools"
  /\ IF llm.calls[c].round = MaxRounds THEN Returns(c)
     ELSE IF llm.stopped THEN llm' = Failed(llm, c)
     ELSE llm' = [llm EXCEPT !.calls[c].stage = "asking", !.calls[c].round = @ + 1,
                             !.calls[c].tries = 0]

\* withRetry tries again what was refused for its rate, the harness what looks
\* transient to classifyError, an abort included.
Again(c, fault) ==
  LET x == llm.calls[c]
  IN  IF x.tools THEN fault # "final" /\ x.tries < ToolRetries
      ELSE fault = "limited" /\ ~llm.stopped /\ x.tries < PlainRetries

Errs(c, fault) ==
  /\ Stage(c) = "asking" /\ (fault = "aborted" => llm.stopped)
  /\ llm' = IF Again(c, fault)
            THEN [llm EXCEPT !.calls[c].stage = "sleeping", !.calls[c].tries = @ + 1]
            ELSE Failed(llm, c)

\* The backoff is over; of the harness it is a timer the stop does not end.
Wakes(c) ==
  /\ Stage(c) = "sleeping"
  /\ llm' = [llm EXCEPT !.calls[c].stage = "asking"]

\* What the stop makes of a call: it ends what waits for a permit and, with a
\* failure on record, what sleeps in withRetry.
Sleeper(x) == x.stage = "sleeping" /\ ~x.tools
Stopped(x) == [x EXCEPT !.stage = "ended", !.outcome = "stopped"]
Halted(x) ==
  IF x.stage = "waiting" THEN Stopped(x)
  ELSE IF Sleeper(x) THEN Stopped([x EXCEPT !.costs = Append(@, FALSE)])
  ELSE x

\* The run is stopped or replaced: the listeners of the signal empty the queue, and
\* then who slept gives its permit back to nobody.
StopRun ==
  /\ ~llm.stopped
  /\ llm' = [stopped |-> TRUE, queue |-> <<>>,
             free |-> llm.free + Cardinality({c \in LlmRequest : Sleeper(llm.calls[c])}),
             calls |-> [c \in LlmRequest |-> Halted(llm.calls[c])]]

LlmNext ==
  \/ \E c \in LlmRequest :
       \/ Decide(c) \/ Answers(c) \/ CallsTools(c) \/ NextRound(c) \/ Wakes(c)
       \/ \E fault \in {"limited", "transient", "final", "aborted"} : Errs(c, fault)
  \/ StopRun

\* Requests that are aborted are rejected, timers fire and tools come to an end.
LlmFairness ==
  \A c \in LlmRequest :
    WF_llm(Errs(c, "aborted")) /\ WF_llm(Wakes(c)) /\ WF_llm(NextRound(c))

LlmSpec == LlmInit /\ [][LlmNext]_llm /\ LlmFairness

-----------------------------------------------------------------------------
RoutesKept == \A e \in Env : \A s \in Chains(e) : \A i \in DOMAIN s : s[i] \in MayUse(e)

\* The candidates of a call are among the agents its node or its category names,
\* and a call under way is at one of them.
CandidatesKept ==
  /\ RoutesKept
  /\ \A c \in LlmRequest :
       Stage(c) \in {"waiting", "asking", "tools", "sleeping"} =>
         llm.calls[c].at \in 1..llm.calls[c].candidates

\* No permit is lost and nobody waits for a free one; and a call tries its
\* candidates in their order, each recorded once, up to the first that succeeds,
\* and gives up only when all have failed or the run is stopped.
LlmSound ==
  /\ llm.free + Cardinality(Holders) = Permits
  /\ llm.queue # <<>> => llm.free = 0 /\ ~llm.stopped
  /\ \A c \in LlmRequest : Stage(c) = "waiting" <=> \E i \in DOMAIN llm.queue : llm.queue[i] = c
  /\ \A c \in LlmRequest :
       LET x == llm.calls[c]
           fails == {i \in DOMAIN x.costs : ~x.costs[i]}
       IN  /\ x.stage \in {"waiting", "asking", "tools", "sleeping"} =>
                Len(x.costs) = x.at - 1 /\ fails = 1..(x.at - 1)
           /\ x.outcome = "text" => Len(x.costs) = x.at /\ fails = 1..(x.at - 1)
           /\ x.outcome = "failed" => fails = 1..x.candidates
           /\ x.outcome = "stopped" => llm.stopped
=============================================================================
