--------------------------- MODULE AttemptEffects ---------------------------
(***************************************************************************)
(* What the side-effect journal promises of the attempts of a run: an      *)
(* attempt is handed to the executor at most once and only after its claim *)
(* is in the journal, a receipt follows the execution, and a receipt or an *)
(* unknown outcome is final.                                               *)
(***************************************************************************)
EXTENDS Naturals

CONSTANTS Tasks, Numbers   \* attempts are numbered for each task

VARIABLES journal, executed

Claim(t, a) ==
    /\ journal[t][a] = "none"
    /\ journal' = [journal EXCEPT ![t][a] = "started"]
    /\ UNCHANGED executed

Execute(t, a) ==
    /\ journal[t][a] \in {"started", "unknown"} /\ executed[t][a] = 0
    /\ executed' = [executed EXCEPT ![t][a] = 1]
    /\ UNCHANGED journal

Receipt(t, a, result) ==
    /\ journal[t][a] = "started" /\ executed[t][a] = 1
    /\ journal' = [journal EXCEPT ![t][a] = result]
    /\ UNCHANGED executed

\* Attempts whose outcome nobody can tell any more.
Lose(lost) ==
    /\ journal' = [t \in Tasks |-> [a \in Numbers |->
                     IF journal[t][a] = "started" /\ <<t, a>> \in lost
                     THEN "unknown" ELSE journal[t][a]]]
    /\ UNCHANGED executed

Init ==
    /\ journal = [t \in Tasks |-> [a \in Numbers |-> "none"]]
    /\ executed = [t \in Tasks |-> [a \in Numbers |-> 0]]

Next ==
    \/ \E t \in Tasks, a \in Numbers :
         \/ Claim(t, a) \/ Execute(t, a)
         \/ \E result \in {"succeeded", "failed"} : Receipt(t, a, result)
    \/ \E lost \in SUBSET (Tasks \X Numbers) : Lose(lost)

Spec == Init /\ [][Next]_<<journal, executed>>

=============================================================================
