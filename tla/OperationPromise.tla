-------------------------- MODULE OperationPromise --------------------------
(***************************************************************************)
(* What the host promises of an operation that may be cancelled: it has at *)
(* most one process; once its caller has been told that it is cancelled    *)
(* its process is dead, none is started, and it does not return a success; *)
(* it returns at most once.                                                *)
(***************************************************************************)

CONSTANT Operation

VARIABLES process,  \* of each operation: none yet, running, exited
          told,     \* the operations whose cancellation was confirmed
          returned  \* what each operation returned, "none" before it does

Start(o) ==
  /\ process[o] = "none" /\ returned[o] = "none" /\ o \notin told
  /\ process' = [process EXCEPT ![o] = "running"]
  /\ UNCHANGED <<told, returned>>

Exit(o) ==
  /\ process[o] = "running"
  /\ process' = [process EXCEPT ![o] = "exited"]
  /\ UNCHANGED <<told, returned>>

Confirm(o) ==
  /\ told' = told \cup {o}
  /\ process' = [process EXCEPT ![o] = IF @ = "running" THEN "exited" ELSE @]
  /\ UNCHANGED returned

Return(o, r) ==
  /\ returned[o] = "none"
  /\ r = "success" => o \notin told /\ process[o] = "exited"
  /\ returned' = [returned EXCEPT ![o] = r]
  /\ UNCHANGED <<process, told>>

Init ==
  /\ process = [o \in Operation |-> "none"]
  /\ told = {}
  /\ returned = [o \in Operation |-> "none"]

Next ==
  \E o \in Operation :
    \/ Start(o) \/ Exit(o) \/ Confirm(o)
    \/ \E r \in {"success", "error"} : Return(o, r)

Spec == Init /\ [][Next]_<<process, told, returned>>

=============================================================================
