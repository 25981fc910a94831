-------------------------- MODULE MCCodexOperation --------------------------
(* CodexOperation on small instances. *)
EXTENDS CodexOperation

CONSTANTS o1, o2, c1, c2

\* Three threads at once: two operations beside a call, or one operation beside
\* two calls, of which one can find what the other left. Nobody owes another
\* prepare or invocation (neither is fair), so the bound hides no liveness.
ThreeThreads == pc[o2] = "new" \/ pc[c2] = "new"

=============================================================================
