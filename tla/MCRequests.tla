----------------------------- MODULE MCRequests -----------------------------
(* The finite instances of MCEngine for requests that keep apart or overlap.  *)
EXTENDS MCEngine, EngineRefinement

\* The bound on overlapping requests: once any have overlapped, two downs at once are followed
\* over one instance only, and over two they are not followed any further.
OverlapBound ==
  \/ apart
  \/ \E c \in Callers : cpc[c] # "down"
  \/ \E i \in Insts : FreeInst(i)

=============================================================================
