----------------------------- MODULE EventLog ------------------------------
(***************************************************************************)
(* What the project's durable event stream promises its readers: it only   *)
(* grows, at its end, by whole batches of new events.  There are no        *)
(* writers, locks, files or crashes at this level.                         *)
(***************************************************************************)
EXTENDS StreamOps

CONSTANTS EventId, Body

VARIABLE log

StoredEvent == [id : EventId, body : Body, seq : Nat]

Init == log = {}

AppendBatch(B) ==
    /\ B # {}
    /\ B \subseteq StoredEvent
    /\ Appendable(log, B)
    /\ log' = log \cup B

\* The batch of a step is whatever the step added.
Next == \E B \in {log' \ log} : AppendBatch(B)

Spec == Init /\ [][Next]_log

=============================================================================
