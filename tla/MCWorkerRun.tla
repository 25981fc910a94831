---------------------------- MODULE MCWorkerRun ----------------------------
EXTENDS WorkerRun

\* Two tasks at once, or one.
Two == <<"t1", "t2">>
One == <<"t1">>
Apart == [t \in {"t1", "t2"} |-> {}]
Alone == [t \in {"t1"} |-> {}]

=============================================================================
