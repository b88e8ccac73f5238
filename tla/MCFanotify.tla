----------------------------- MODULE MCFanotify -----------------------------
(***************************************************************************)
(* Small instances of Fanotify.                                            *)
(***************************************************************************)
EXTENDS Fanotify, TLC

\* A file allowed without analysis, one to deny, one whose scan is incomplete, and
\* one that cannot be read on a path that fails closed.
HardFiles == {[kind |-> "skipped", closed |-> FALSE], [kind |-> "malicious", closed |-> FALSE],
              [kind |-> "partial", closed |-> FALSE], [kind |-> "unreadable", closed |-> TRUE]}

=============================================================================
