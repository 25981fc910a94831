--------------------------- MODULE MCEventStore ----------------------------
(* EventStore on small instances. *)
EXTENDS EventStore

CONSTANTS e1, e2, e3, b1, b2, p1, p2

\* e2 with the contents b1 stands for an event whose lifecycle needs an earlier
\* e1, as TaskSucceeded needs TaskStarted; every other event replays anywhere.
MCReplays(S) ==
    \A x \in S : x.id = e2 /\ x.body = b1 =>
        \E y \in S : y.id = e1 /\ y.seq < x.seq

=============================================================================
