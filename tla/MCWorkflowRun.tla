--------------------------- MODULE MCWorkflowRun ---------------------------
EXTENDS RunPlan, WorkflowRun

Edge(from, handle, to, kind, scope) ==
  [from |-> from, handle |-> handle, to |-> to, kind |-> kind, scope |-> scope]

\* A branch with two arms that touch a common resource.
Fork == [nodes |-> <<"a", "b", "c">>, gates |-> {},
         edges |-> <<Edge("a", "pass", "b", "data", {"file"}),
                     Edge("a", "stop", "c", "data", {"file"})>>]
\* A loop gate with a body of one node, and of two.
Loop == [nodes |-> <<"a", "b">>, gates |-> {"a"},
         edges |-> <<Edge("a", "pass", "b", "control", {})>>]
LongLoop == [nodes |-> <<"a", "b", "c">>, gates |-> {"a"},
             edges |-> <<Edge("a", "pass", "b", "control", {}),
                         Edge("b", "out", "c", "data", {})>>]
\* A graph that is refused.
Ring == [nodes |-> <<"a", "b", "c">>, gates |-> {},
         edges |-> <<Edge("a", "pass", "b", "data", {}),
                     Edge("b", "out", "a", "data", {}),
                     Edge("b", "out", "c", "data", {})>>]
MCPlans == {Compile(Fork), Compile(Loop), Compile(Ring)}
ForkPlans == {Compile(Fork)}
LongLoopPlans == {Compile(LongLoop)}

MCHandles == [a |-> {"pass", "stop"}, b |-> {"out"}, c |-> {"out"}]

Option(force, rerun, worktree, failFast, skip) ==
  [force |-> force, forceRerun |-> rerun, worktree |-> worktree,
   failFast |-> failFast, skipFailed |-> skip]
\* The run button, and a rerun in a sandbox.
MCOptions == {Option(FALSE, FALSE, FALSE, TRUE, FALSE),
              Option(TRUE, TRUE, TRUE, FALSE, TRUE)}
RunButton == {Option(FALSE, FALSE, FALSE, FALSE, FALSE)}
Rerun == {Option(FALSE, FALSE, FALSE, FALSE, FALSE), Option(TRUE, TRUE, FALSE, FALSE, FALSE)}
=============================================================================
