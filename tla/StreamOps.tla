----------------------------- MODULE StreamOps -----------------------------
(***************************************************************************)
(* Event streams as sets of records with fields id, body and seq.  The     *)
(* code keeps an array ordered by sequence; because sequence numbers are   *)
(* contiguous from 1, the set of numbered events says the same.            *)
(* aggregateVersion is contiguous per aggregate for the same reason and by *)
(* the same check as seq, and is left out.                                 *)
(***************************************************************************)
EXTENDS Integers, FiniteSets

Ids(S) == {e.id : e \in S}

Seqs(S) == {e.seq : e \in S}

\* Mutant: sequence numbers start from 0.
LastSequenceFromZero(S) ==
    IF S = {} THEN -1
    ELSE CHOOSE n \in Seqs(S) : \A m \in Seqs(S) : m <= n

\* events.at(-1)?.sequence ?? 0
LastSequence(S) ==
    IF S = {} THEN 0
    ELSE CHOOSE n \in Seqs(S) : \A m \in Seqs(S) : m <= n

OnePerId(S) == \A x, y \in S : x.id = y.id => x = y

OnePerSeq(S) == \A x, y \in S : x.seq = y.seq => x = y

\* What parseEventStream accepts without reporting needs-repair.
WellFormed(S) ==
    /\ OnePerId(S)
    /\ OnePerSeq(S)
    /\ S # {} => \E last \in Seqs(S) : Seqs(S) = 1..last

\* Appending the events B one after the other, as appendDomainEvent does, does
\* not throw: new ids, and sequence numbers that continue those of S.
Appendable(S, B) ==
    /\ Ids(S) \cap Ids(B) = {}
    /\ OnePerId(B)
    /\ OnePerSeq(B)
    /\ B # {} => \E last \in Seqs(B) : Seqs(B) = (LastSequence(S) + 1)..last

\* The events of B that S does not hold yet, by event id.
Fresh(S, B) == {x \in B : x.id \notin Ids(S)}

\* The events F renumbered to follow S in their own order.
Renumbered(S, F) ==
    {[x EXCEPT !.seq =
        LastSequence(S) + Cardinality({y \in F : y.seq <= x.seq})] : x \in F}

=============================================================================
