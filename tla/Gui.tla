-------------------------------- MODULE Gui --------------------------------
(***************************************************************************)
(* The unprivileged desktop client on top of the IPC service: the          *)
(* controller (gui/controller.py), the model that turns calls into IPC     *)
(* requests (gui/model.py) and the state the dashboard shows               *)
(* (gui/presentation.py).  Composes with Ipc: each operation of the GUI is *)
(* one of its clients.                                                     *)
(*                                                                         *)
(* The UI thread submits operations to a pool and runs the callbacks the   *)
(* pool posts back; the periodic refresh, the user and close() interleave. *)
(***************************************************************************)
EXTENDS Ipc

CONSTANTS Refresh,       \* the client of the dashboard refresh
          UserOps,       \* the clients of scans and restorations
          Sections,      \* the calls one refresh makes, in order
          OpRequest,     \* what the user asks for: client -> request
          GuiUser,       \* the privileges the GUI runs with
          Degraded,      \* the daemon reports degraded components
          Workers,       \* threads of the pool
          OtherPrograms, \* which clients may be programs other than the GUI
          MaxRefreshes   \* bound of the instance

ASSUME ClientsAssumption ==
    /\ {Refresh} \cup UserOps \subseteq Clients /\ Refresh \notin UserOps
    /\ OtherPrograms \subseteq SUBSET Clients

ASSUME OperationsAssumption == \A o \in UserOps : OpRequest[o].defects \subseteq Defects

VARIABLES
    closed, inFlight, busy,   \* _closed, _refresh_in_flight, the view's busy state
    task,       \* per operation: "idle", "queued", "working", "posted"
    section,    \* the call of the refresh that is under way
    snapshot,   \* sections of this refresh that were answered
    result,     \* per operation: what its future holds
    shown,      \* the service state on the dashboard
    refreshes,  \* refreshes started so far
    others      \* the clients that are other local programs, not the GUI

ops == {Refresh} \cup UserOps
guiVars == <<closed, inFlight, busy, task, section, snapshot, result, shown,
             refreshes, others>>
vars == <<ipcVars, guiVars>>

Init ==
    /\ IpcInit
    /\ closed = FALSE /\ inFlight = FALSE /\ busy = FALSE
    /\ task = [o \in ops |-> "idle"] /\ result = [o \in ops |-> None]
    /\ section = 1 /\ snapshot = {} /\ shown = "none" /\ refreshes = 0
    /\ others \in OtherPrograms

\* refresh_dashboard: one refresh at a time, whoever asks for it.
MayRefresh == /\ ~closed /\ ~inFlight /\ refreshes < MaxRefreshes
              /\ Refresh \notin others /\ task[Refresh] = "idle"

BeginRefresh ==
    /\ inFlight' = TRUE /\ refreshes' = refreshes + 1
    /\ section' = 1 /\ snapshot' = {}

NoRefresh == UNCHANGED <<inFlight, refreshes, section, snapshot>>

\* The refresh button, the start of the GUI and the timer.
RefreshDashboard ==
    /\ MayRefresh /\ BeginRefresh
    /\ task' = [task EXCEPT ![Refresh] = "queued"]
    /\ busy' = TRUE
    /\ UNCHANGED <<others, closed, result, shown, ipcVars>>

\* scan_file and restore_file; the buttons are disabled while the GUI is busy.
Click(o) ==
    /\ ~closed /\ ~busy /\ o \notin others
    /\ task[o] = "idle" /\ result[o] = None
    /\ task' = [task EXCEPT ![o] = "queued"]
    /\ busy' = TRUE
    /\ NoRefresh
    /\ UNCHANGED <<others, closed, result, shown, ipcVars>>

PoolStart(o) ==
    /\ task[o] = "queued"
    /\ Cardinality({x \in ops : task[x] = "working"}) < Workers
    /\ task' = [task EXCEPT ![o] = "working"]
    /\ UNCHANGED <<closed, inFlight, busy, section, snapshot, result, shown,
                   refreshes, others, ipcVars>>

GuiRequest(o) ==
    IF o = Refresh
    THEN [action |-> Sections[section], who |-> GuiUser, defects |-> {},
          framing |-> "line", target |-> None]
    ELSE OpRequest[o]

Ask(o) ==
    /\ task[o] = "working" /\ client[o] = "idle"
    /\ Connect(o, GuiRequest(o))
    /\ UNCHANGED guiVars

\* The done callback: nothing is posted to a closed view.
Completed == IF closed THEN "idle" ELSE "posted"

\* _send_request returned: fetch_dashboard keeps a section that was answered
\* and goes on with the next; any other operation is finished.
Collect(o) ==
    /\ task[o] = "working"
    /\ Reopen(o)
    /\ IF o = Refresh
       THEN /\ snapshot' = IF outcome[o] = "ok" THEN snapshot \cup {Sections[section]}
                           ELSE snapshot
            /\ IF section < Len(Sections)
               THEN section' = section + 1 /\ UNCHANGED task
               ELSE section' = section /\ task' = [task EXCEPT ![o] = Completed]
            /\ UNCHANGED result
       ELSE /\ task' = [task EXCEPT ![o] = Completed]
            /\ result' = [result EXCEPT ![o] = outcome[o]]
            /\ UNCHANGED <<section, snapshot>>
    /\ UNCHANGED <<others, closed, inFlight, busy, shown, refreshes>>

\* The operation raises instead of returning; its future holds the exception.
Raise(o) ==
    /\ task[o] = "working" /\ client[o] = "idle"
    /\ task' = [task EXCEPT ![o] = Completed]
    /\ result' = [result EXCEPT ![o] = "EXCEPTION"]
    /\ UNCHANGED <<closed, inFlight, busy, section, snapshot, shown, refreshes,
                   others, ipcVars>>

ServiceState ==
    IF "get_status" \notin snapshot THEN "DISCONNECTED"
    ELSE IF Degraded THEN "DEGRADED" ELSE "CONNECTED"

\* A plausible defect: the in-flight flag is reset on success only.
DeliverRefreshOnSuccess ==
    /\ task[Refresh] = "posted" /\ ~closed
    /\ task' = [task EXCEPT ![Refresh] = "idle"]
    /\ result' = [result EXCEPT ![Refresh] = None]
    /\ shown' = IF result[Refresh] = "EXCEPTION" THEN shown ELSE ServiceState
    /\ inFlight' = (result[Refresh] = "EXCEPTION") /\ busy' = FALSE
    /\ UNCHANGED <<others, closed, section, snapshot, refreshes, ipcVars>>

\* The posted callback of a refresh: render or show the error, and in any case
\* clear the busy state and the in-flight flag.
DeliverRefresh ==
    /\ task[Refresh] = "posted" /\ ~closed
    /\ task' = [task EXCEPT ![Refresh] = "idle"]
    /\ result' = [result EXCEPT ![Refresh] = None]
    /\ shown' = IF result[Refresh] = "EXCEPTION" THEN shown ELSE ServiceState
    /\ inFlight' = FALSE /\ busy' = FALSE
    /\ UNCHANGED <<others, closed, section, snapshot, refreshes, ipcVars>>

\* A successful restoration refreshes the dashboard before the busy state is
\* cleared: the buttons are live again although that refresh has begun.
DeliverOp(o) ==
    /\ task[o] = "posted" /\ ~closed
    /\ IF OpRequest[o].action = "restore_file" /\ result[o] = "ok" /\ MayRefresh
       THEN /\ BeginRefresh
            /\ task' = [task EXCEPT ![o] = "idle", ![Refresh] = "queued"]
       ELSE /\ NoRefresh
            /\ task' = [task EXCEPT ![o] = "idle"]
    /\ busy' = FALSE
    /\ UNCHANGED <<others, closed, result, shown, ipcVars>>

\* close(): queued operations are cancelled, running ones go on unheard.
Close ==
    /\ ~closed
    /\ closed' = TRUE
    /\ task' = [o \in ops |-> IF task[o] \in {"queued", "posted"} THEN "idle"
                            ELSE task[o]]
    /\ UNCHANGED <<inFlight, busy, section, snapshot, result, shown, refreshes,
                   others, ipcVars>>

-----------------------------------------------------------------------------
PoolStep(o) == PoolStart(o) \/ Ask(o) \/ Collect(o)
UiStep      == DeliverRefresh \/ \E o \in UserOps : DeliverOp(o)

Next ==
    \/ ServerNext /\ UNCHANGED guiVars
    \/ \E c \in others, r \in Requests : Connect(c, r) /\ UNCHANGED guiVars
    \/ \E c \in Clients : (ReadReply(c) \/ GiveUp(c)) /\ UNCHANGED guiVars
    \/ \E o \in ops : PoolStep(o) \/ Raise(o)
    \/ RefreshDashboard \/ UiStep \/ Close
    \/ \E o \in UserOps : Click(o)

\* The threads of the server, of the pool and of the UI keep running.
Fairness ==
    /\ WF_vars(AcceptStep /\ UNCHANGED guiVars)
    /\ WF_vars(StopStep /\ UNCHANGED guiVars)
    /\ \A c \in Clients : /\ WF_vars(Serve(c) /\ UNCHANGED guiVars)
                          /\ WF_vars((ReadReply(c) \/ GiveUp(c)) /\ UNCHANGED guiVars)
    /\ \A o \in ops : WF_vars(PoolStep(o))
    /\ WF_vars(UiStep)

Spec == Init /\ [][Next]_vars /\ Fairness

\* The dashboard cannot get stuck: a refresh that was begun ends, whatever the
\* daemon does meanwhile (stops, refuses, times out) and even when the operation
\* raises, or the window is closed (controller.py, _refresh_in_flight).
RefreshesEnd == inFlight ~> (~inFlight \/ closed)
=============================================================================
