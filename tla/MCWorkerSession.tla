---------------------------- MODULE MCWorkerSession --------------------------
EXTENDS MCWorkerRun

\* Whether the behaviour begins with a crash in the middle of a run.
VARIABLE crashed

\* A state of the first session after its crash, one lease at a time: t1 has
\* succeeded, t2 is leased and claimed, and may have been executed.
RunningTask == [NewTask EXCEPT !.status = "running", !.attempt = 1, !.current = 1]
CrashedRun ==
  [status |-> "running",
   tasks |-> [t \in Task |-> IF t = "t1" THEN [RunningTask EXCEPT !.status = "succeeded"]
                                         ELSE RunningTask]]
RunEvents ==
  <<QueueEvent("run", Strict("RunStarted", 0), 1, 1),
    QueueEvent("t1", Strict("TaskStarted", 1), 1, 2),
    QueueEvent("t1", Strict("TaskSucceeded", 1), 1, 3),
    QueueEvent("t2", Strict("TaskStarted", 1), 1, 4)>>

Crashed ==
  /\ file = CrashedRun /\ app = CrashedRun
  /\ stream = Flushed(NoStream, CreatedEvents \o RunEvents).stream /\ pending = <<>>
  /\ journal = [t \in Task |-> [a \in Attempts |->
                  CASE a # 1 -> "none" [] t = "t1" -> "succeeded" [] OTHER -> "started"]]
  /\ \E n \in {0, 1} : executed = [t \in Task |-> [a \in Attempts |->
                  CASE a # 1 -> 0 [] t = "t1" -> 1 [] OTHER -> n]]
  /\ session = 1 /\ open = FALSE /\ refusal = "none" /\ saver = "none" /\ sweep = FALSE
  /\ decisions = 0 /\ faults = MaxFaults
  /\ driver = [s \in Sessions |-> NoDriver]

\* The first session with all that may happen in it, or the one after a crash.
SessionInit == (crashed = FALSE /\ RunInit) \/ (crashed = TRUE /\ Crashed)
SessionNext == RunNext /\ UNCHANGED crashed /\ (session' = session \/ crashed)
SessionSpec == SessionInit /\ [][SessionNext]_<<runVars, crashed>> /\ RunFairness

=============================================================================
