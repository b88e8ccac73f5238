--------------------------- MODULE MCCorrelation ---------------------------
(***************************************************************************)
(* Small instances of Correlation.  The policy keeps the shape of          *)
(* config/runtime_correlation.default.json (thresholds 40, 70 and 90) with *)
(* occurrence caps low enough that a few keys reach and exceed them.       *)
(***************************************************************************)
EXTENDS Correlation, TLC

MCWeight ==
  [r \in Rules |-> CASE r = "DISTINCT_FILE_WRITE" -> 30
                     [] r = "FILE_RENAME" -> 25
                     [] r = "OUTBOUND_CONNECTION" -> 15
                     [] r = "CHILD_PROCESS_EXEC" -> 10
                     [] OTHER -> 20]

MCMaxOccurrences == [r \in Rules |-> IF r = "OUTBOUND_CONNECTION" THEN 2 ELSE 1]

\* PIDs are interchangeable, and so are keys: every action and property treats all
\* of them alike.
Symmetry == Permutations(Pids) \cup Permutations(Keys)
=============================================================================
