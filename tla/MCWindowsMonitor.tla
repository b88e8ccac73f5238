------------------------- MODULE MCWindowsMonitor -------------------------
(* A small instance of WindowsMonitor: one root with two names, one worker  *)
(* and one place for pending analyses.                                      *)
EXTENDS WindowsMonitor

MCRootOf == [n \in Names |-> CHOOSE r \in Roots : TRUE]
=============================================================================
