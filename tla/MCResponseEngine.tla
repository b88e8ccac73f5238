-------------------------- MODULE MCResponseEngine --------------------------
(***************************************************************************)
(* Small instances of ResponseEngine.  With one PID all correlations are   *)
(* generations of it, the case in which identities can be confused.        *)
(***************************************************************************)
EXTENDS ResponseEngine, TLC

MCPidOf == CHOOSE f \in [Cids -> Pids] : Pids = {f[c] : c \in Cids}

\* Threads and images are interchangeable, and correlations when there is one
\* PID: the runs with two PIDs use no symmetry.
Symmetry == Permutations(Cids) \cup Permutations(Threads) \cup Permutations(Images)
=============================================================================
