---------------------------- MODULE MCQuarantine ----------------------------
(***************************************************************************)
(* Small instances of Quarantine.                                          *)
(***************************************************************************)
EXTENDS Quarantine, TLC

\* Threads, paths and ids are interchangeable.
Symmetry == Permutations(Threads) \cup Permutations(Paths) \cup Permutations(Ids)
=============================================================================
