-------------------------- MODULE AdmissionControl --------------------------
(***************************************************************************)
(* What a counted admission gate promises, independently of how it is      *)
(* built: at most Limit jobs are inside at once, a job is turned away only *)
(* when Limit jobs really are inside, and a job that was let in leaves.    *)
(*                                                                         *)
(* Two parts of the system are shown to implement it: the client slots of  *)
(* service/ipc_server.py (module Ipc) and the pending-analysis semaphore   *)
(* of monitor/windows/controller.py (module WindowsMonitor).               *)
(***************************************************************************)
EXTENDS Naturals, FiniteSets

CONSTANTS Jobs, Limit

VARIABLE status    \* status[j]: "new", "inside", "refused" or "left"

Inside == {j \in Jobs : status[j] = "inside"}

Init == status = [j \in Jobs |-> "new"]

Admit(j) ==
    /\ status[j] = "new" /\ Cardinality(Inside) < Limit
    /\ status' = [status EXCEPT ![j] = "inside"]

Refuse(j) ==
    /\ status[j] = "new" /\ Cardinality(Inside) = Limit
    /\ status' = [status EXCEPT ![j] = "refused"]

Leave(j) ==
    /\ status[j] = "inside"
    /\ status' = [status EXCEPT ![j] = "left"]

\* The requester comes back with another job.
Return(j) ==
    /\ status[j] \in {"refused", "left"}
    /\ status' = [status EXCEPT ![j] = "new"]

Next == \E j \in Jobs : Admit(j) \/ Refuse(j) \/ Leave(j) \/ Return(j)

Spec == Init /\ [][Next]_status /\ \A j \in Jobs : WF_status(Leave(j))
=============================================================================
