-------------------------------- MODULE Ipc --------------------------------
(***************************************************************************)
(* The Unix-socket service of the daemon: the accept loop, the client      *)
(* slots, the worker threads and stop() of service/ipc_server.py, the      *)
(* request checks of ipc_protocol.py, the authorization of                 *)
(* authorization.py, the dispatch of daemon._handle_ipc_action, and the    *)
(* one-request-per-connection client of ipc_client.py.                     *)
(*                                                                         *)
(* A connection is named by its client.  Actors: the clients, the accept   *)
(* thread, one worker per admitted connection, and the main thread that    *)
(* runs stop().  A client waits for a bounded time, so it may give up      *)
(* while the daemon is still executing its request.                        *)
(***************************************************************************)
EXTENDS Integers, Sequences, FiniteSets

CONSTANTS Clients,
          Requests,     \* what clients send: [action, who, defects, framing, target]
          MaxClients,   \* maximum_clients, the number of slots
          None

ASSUME SlotsAssumption == MaxClients \in Nat \ {0} /\ IsFiniteSet(Clients)

ASSUME NoneAssumption == None # "ok"

VARIABLES
    client,     \* per client: "idle", "waiting", "done"
    request,    \* per client: the request it sent, or None
    reply,      \* per client: the response in its socket, or None
    outcome,    \* per client: what request() returned or raised, or None
    conn,       \* per client: its connection, as the server sees it
    slots,      \* free client slots
    threads,    \* _client_threads
    acceptor,   \* the accept thread: "off", "accept", "register", "start", "ended"
    current,    \* the connection the accept thread is admitting
    server,     \* _server: "new", "listening", "closed", "failed"
    path,       \* the socket path: "absent", "stale", "foreign", "bound"
    stopping,   \* _stop
    stopper,    \* stop(): "none", "flagged", "closed", "joining", "done", "aborted"
    joining,    \* the threads stop() saw
    toJoin,     \* those it has still to join
    mode, item, \* the policy mode; the fate of the one quarantined item
    effects     \* history: the clients whose request changed the daemon

clientVars == <<client, request, outcome>>
acceptVars == <<acceptor, current>>
stopVars   == <<server, path, stopping, stopper, joining, toJoin>>
daemonVars == <<mode, item, effects>>
ipcVars == <<clientVars, reply, conn, slots, threads, acceptVars, stopVars, daemonVars>>

IpcInit ==
    /\ client = [c \in Clients |-> "idle"]
    /\ request = [c \in Clients |-> None]
    /\ reply = [c \in Clients |-> None]
    /\ outcome = [c \in Clients |-> None]
    /\ conn = [c \in Clients |-> "none"]
    /\ slots = MaxClients /\ threads = {}
    /\ acceptor = "off" /\ current = None
    /\ server = "new" /\ path \in {"absent", "stale", "foreign"}
    /\ stopping = FALSE /\ stopper = "none" /\ joining = {} /\ toJoin = {}
    /\ mode = "MONITOR_ONLY" /\ item = "quarantined" /\ effects = {}

-----------------------------------------------------------------------------
(***************************************************************************)
(* The protocol checks, in the order decode_request_line and               *)
(* validate_request_object make them: the defect, the code it is answered  *)
(* with, and whether the answer carries the request's identifier.          *)
(***************************************************************************)
Checks == <<
    <<"empty",         "EMPTY_MESSAGE",       FALSE>>,
    <<"long",          "MESSAGE_TOO_LARGE",   FALSE>>,
    <<"encoding",      "INVALID_UTF8",        FALSE>>,
    <<"syntax",        "INVALID_JSON",        FALSE>>,
    <<"fields",        "INVALID_SCHEMA",      FALSE>>,
    <<"id",            "INVALID_REQUEST_ID",  FALSE>>,
    <<"version",       "UNSUPPORTED_VERSION", TRUE>>,
    <<"actionType",    "INVALID_SCHEMA",      TRUE>>,
    <<"paramsType",    "INVALID_SCHEMA",      FALSE>>,
    <<"unknownAction", "UNKNOWN_ACTION",      TRUE>>,
    <<"params",        "INVALID_PARAMETERS",  TRUE>> >>

Defects == {Checks[i][1] : i \in 1..Len(Checks)}

ASSUME RequestsAssumption == \A r \in Requests : r.defects \subseteq Defects

Response(code, echo) == [code |-> code, echo |-> echo]

\* The first check that fails answers.
DecodeError(r) ==
    LET failed == {i \in 1..Len(Checks) : Checks[i][1] \in r.defects}
        first  == CHOOSE i \in failed : \A j \in failed : i <= j
    IN Response(Checks[first][2], Checks[first][3])

SensitiveActions == {"restore_file", "delete_permanently", "update_enforcement_policy"}

Privileged(r) == r.who \in {"root", "admin"}

\* authorize(): sensitive actions need root or the administrators' group.
Authorized(r) == r.action \in SensitiveActions => Privileged(r)

\* authorize_manual_scan_path over the kinds of target a path may name.
ScanAllowed(r) ==
    \/ r.target = "own"
    \/ r.target \in {"foreign", "outside"} /\ Privileged(r)

-----------------------------------------------------------------------------
(***************************************************************************)
(* The client.                                                             *)
(***************************************************************************)

\* connect() and sendall(); without a listener the call fails at once.
Connect(c, r) ==
    /\ client[c] = "idle"
    /\ request' = [request EXCEPT ![c] = r]
    /\ IF server = "listening"
       THEN /\ client' = [client EXCEPT ![c] = "waiting"]
            /\ conn' = [conn EXCEPT ![c] = "backlog"]
            /\ UNCHANGED outcome
       ELSE /\ client' = [client EXCEPT ![c] = "done"]
            /\ outcome' = [outcome EXCEPT ![c] = "IPC_UNAVAILABLE"]
            /\ UNCHANGED conn
    /\ UNCHANGED <<reply, slots, threads, acceptVars, stopVars, daemonVars>>

Conclude(c, result) ==
    /\ client' = [client EXCEPT ![c] = "done"]
    /\ outcome' = [outcome EXCEPT ![c] = result]
    /\ UNCHANGED <<request, slots, threads, acceptVars, stopVars, daemonVars>>

\* A response without the request's identifier is a transport failure.
ReadReply(c) ==
    /\ client[c] = "waiting" /\ reply[c] # None
    /\ Conclude(c, IF reply[c].echo THEN reply[c].code ELSE "IPC_UNAVAILABLE")
    /\ reply' = [reply EXCEPT ![c] = None]
    /\ UNCHANGED conn

\* The socket timeout, or the server closed the connection without a response.
\* A connection that was never accepted goes with its client.
GiveUp(c) ==
    /\ client[c] = "waiting" /\ reply[c] = None
    /\ Conclude(c, "IPC_UNAVAILABLE")
    /\ conn' = [conn EXCEPT ![c] = IF @ = "backlog" THEN "none" ELSE @]
    /\ UNCHANGED reply

\* The same client issues its next request on a new connection.
Reopen(c) ==
    /\ client[c] = "done" /\ conn[c] \in {"none", "closed", "refused"}
    /\ client' = [client EXCEPT ![c] = "idle"]
    /\ outcome' = [outcome EXCEPT ![c] = None]
    /\ conn' = [conn EXCEPT ![c] = "none"]
    /\ request' = [request EXCEPT ![c] = None]
    /\ effects' = effects \ {c}
    /\ UNCHANGED <<reply, slots, threads, acceptVars, stopVars, mode, item>>

-----------------------------------------------------------------------------
(***************************************************************************)
(* The accept thread.                                                      *)
(***************************************************************************)

\* Only an own socket that was left behind is removed.
Replaceable == path # "foreign"

\* start(): refuses a path it may not replace, removes a stale socket, binds.
StartServer ==
    /\ server = "new"
    /\ \/ /\ Replaceable
          /\ server' = "listening" /\ path' = "bound" /\ acceptor' = "accept"
       \/ /\ server' = "failed"
          /\ path' = IF path = "stale" THEN "absent" ELSE path
          /\ UNCHANGED acceptor
    /\ UNCHANGED <<clientVars, reply, conn, slots, threads, current, stopping,
                   stopper, joining, toJoin, daemonVars>>

\* A response reaches the client only while it still waits.
Send(c, r) == reply' = IF client[c] = "waiting" THEN [reply EXCEPT ![c] = r] ELSE reply

\* The loop condition of run_forever, read again after each connection.
LoopAgain == IF stopping THEN "ended" ELSE "accept"

\* accept() and the non-blocking acquire; without a slot the client is told
\* that the server is busy and the connection is closed.
Accept(c) ==
    /\ acceptor = "accept" /\ server = "listening" /\ conn[c] = "backlog"
    /\ IF slots > 0
       THEN /\ slots' = slots - 1
            /\ conn' = [conn EXCEPT ![c] = "accepted"]
            /\ acceptor' = "register" /\ current' = c
            /\ UNCHANGED reply
       ELSE /\ Send(c, Response("SERVER_BUSY", FALSE))
            /\ conn' = [conn EXCEPT ![c] = "refused"]
            /\ acceptor' = LoopAgain
            /\ UNCHANGED <<slots, current>>
    /\ UNCHANGED <<clientVars, threads, stopVars, daemonVars>>

\* The thread is put into _client_threads before it is started.
Register ==
    /\ acceptor = "register"
    /\ threads' = threads \cup {current}
    /\ acceptor' = "start"
    /\ UNCHANGED <<clientVars, reply, conn, slots, current, stopVars, daemonVars>>

StartThread ==
    /\ acceptor = "start"
    /\ conn' = [conn EXCEPT ![current] = "running"]
    /\ acceptor' = LoopAgain /\ current' = None
    /\ UNCHANGED <<clientVars, reply, slots, threads, stopVars, daemonVars>>

\* The loop ends when stop() is seen, when accept() is called on the closed
\* socket, or when accept() fails for lack of descriptors.
AcceptorEnds ==
    /\ acceptor = "accept"
    /\ acceptor' = "ended"
    /\ UNCHANGED <<clientVars, reply, conn, slots, threads, current, stopVars,
                   daemonVars>>

-----------------------------------------------------------------------------
(***************************************************************************)
(* A worker: _client_worker and _handle_client.                            *)
(***************************************************************************)

WorkerStep(c, from, to) ==
    /\ conn[c] = from
    /\ conn' = [conn EXCEPT ![c] = to]
    /\ UNCHANGED <<clientVars, slots, threads, acceptVars, stopVars>>

\* A plausible defect: the loop does not look at the flag.
IdentifyUnchecked(c) ==
    \/ WorkerStep(c, "running", "recv") /\ UNCHANGED <<reply, daemonVars>>
    \/ /\ WorkerStep(c, "running", "closing")
       /\ Send(c, Response("PEER_CREDENTIALS_UNAVAILABLE", FALSE))
       /\ UNCHANGED daemonVars

\* The peer's credentials, which may be unavailable; then the flag is tested
\* at the top of the loop, before recv() blocks.
Identify(c) ==
    \/ /\ WorkerStep(c, "running", IF stopping THEN "closing" ELSE "recv")
       /\ UNCHANGED <<reply, daemonVars>>
    \/ /\ WorkerStep(c, "running", "closing")
       /\ Send(c, Response("PEER_CREDENTIALS_UNAVAILABLE", FALSE))
       /\ UNCHANGED daemonVars

FramingError == [partial  |-> "INCOMPLETE_MESSAGE", oversize |-> "MESSAGE_TOO_LARGE",
                 silent   |-> "REQUEST_TIMEOUT"]

\* recv() returns nothing useful: the peer has gone, sent no whole line in
\* time, or sent too much.
ReceiveFails(c) ==
    /\ WorkerStep(c, "recv", "closing")
    /\ client[c] = "done" \/ request[c].framing # "line"
    /\ IF request[c].framing # "line"
       THEN Send(c, Response(FramingError[request[c].framing], FALSE))
       ELSE UNCHANGED reply
    /\ UNCHANGED daemonVars

\* _process_line up to the handler: decode, then authorize.
ProcessLine(c) ==
    /\ conn[c] = "recv" /\ request[c].framing = "line"
    /\ IF request[c].defects # {} \/ ~Authorized(request[c])
       THEN /\ WorkerStep(c, "recv", "answered")
            /\ Send(c, IF request[c].defects # {} THEN DecodeError(request[c])
                       ELSE Response("AUTHORIZATION_DENIED", TRUE))
       ELSE WorkerStep(c, "recv", "executing") /\ UNCHANGED reply
    /\ UNCHANGED daemonVars

Answer(c, code) ==
    /\ WorkerStep(c, "executing", "answered")
    /\ Send(c, Response(code, TRUE))

\* Read-only actions and scans; a listing may exceed the response limit.
HandleQuery(c) ==
    /\ conn[c] = "executing" /\ request[c].action \notin SensitiveActions
    /\ \/ request[c].action = "scan_file" /\ ~ScanAllowed(request[c])
          /\ Answer(c, "AUTHORIZATION_DENIED")
       \/ (request[c].action = "scan_file" => ScanAllowed(request[c]))
          /\ \E code \in {"ok", "RESPONSE_TOO_LARGE", "OPERATION_FAILED"} : Answer(c, code)
    /\ UNCHANGED daemonVars

\* The change an action makes, if it is still to be made.
Pending(r) ==
    \/ r.action = "restore_file" /\ item = "quarantined"
    \/ r.action = "delete_permanently" /\ item # "deleted"
    \/ r.action = "update_enforcement_policy"

\* Deleting what is deleted succeeds; restoring it again fails.
AlreadyDone(r) == IF r.action = "delete_permanently" THEN "ok" ELSE "OPERATION_FAILED"

Change(c) ==
    LET r == request[c]
    IN /\ item' = CASE r.action = "restore_file"       -> "restored"
                    [] r.action = "delete_permanently" -> "deleted"
                    [] OTHER -> item
       /\ mode' = IF r.action = "update_enforcement_policy" THEN r.target ELSE mode
       /\ effects' = effects \cup {c}

\* A plausible defect: the failed audit is answered as a parameter error.
HandleSensitiveMiscoded(c) ==
    /\ conn[c] = "executing" /\ request[c].action \in SensitiveActions
    /\ \/ /\ Pending(request[c]) /\ Change(c)
          /\ \E code \in {"ok", "INVALID_PARAMETERS"} : Answer(c, code)
       \/ /\ ~Pending(request[c]) /\ Answer(c, AlreadyDone(request[c]))
          /\ UNCHANGED daemonVars

\* Restore, delete and the mode switch: the change first, then its audit
\* record, which may fail although the change stays.
HandleSensitive(c) ==
    /\ conn[c] = "executing" /\ request[c].action \in SensitiveActions
    /\ \/ /\ Pending(request[c]) /\ Change(c)
          /\ \E code \in {"ok", "OPERATION_FAILED"} : Answer(c, code)
       \/ /\ ~Pending(request[c]) /\ Answer(c, AlreadyDone(request[c]))
          /\ UNCHANGED daemonVars
       \/ /\ request[c].action # "update_enforcement_policy"
          /\ Answer(c, "OPERATION_FAILED")
          /\ UNCHANGED daemonVars

\* After a response the loop goes on; the client closes its end when it has
\* its answer or gave up.
Answered(c) ==
    /\ client[c] = "done" \/ stopping
    /\ WorkerStep(c, "answered", "closing")
    /\ UNCHANGED <<reply, daemonVars>>

\* A plausible defect: a connection that ends early keeps its slot.
FinishKeepingSlot(c) ==
    /\ conn[c] = "closing"
    /\ conn' = [conn EXCEPT ![c] = "closed"]
    /\ slots' = IF outcome[c] = "IPC_UNAVAILABLE" THEN slots ELSE slots + 1
    /\ threads' = threads \ {c}
    /\ UNCHANGED <<clientVars, reply, acceptVars, stopVars, daemonVars>>

\* The finally block: close, release the slot, leave the set of threads.
Finish(c) ==
    /\ conn[c] = "closing"
    /\ conn' = [conn EXCEPT ![c] = "closed"]
    /\ slots' = slots + 1
    /\ threads' = threads \ {c}
    /\ UNCHANGED <<clientVars, reply, acceptVars, stopVars, daemonVars>>

-----------------------------------------------------------------------------
(***************************************************************************)
(* stop(), on the main thread.                                             *)
(***************************************************************************)

StopFlag ==
    /\ stopper = "none" /\ server = "listening"
    /\ stopping' = TRUE /\ stopper' = "flagged"
    /\ UNCHANGED <<clientVars, reply, conn, slots, threads, acceptVars, server,
                   path, joining, toJoin, daemonVars>>

\* The socket closes; connections nobody accepted are reset.
StopClose ==
    /\ stopper = "flagged"
    /\ server' = "closed" /\ stopper' = "closed"
    /\ conn' = [c \in Clients |-> IF conn[c] = "backlog" THEN "none" ELSE conn[c]]
    /\ UNCHANGED <<clientVars, reply, slots, threads, acceptVars, path, stopping,
                   joining, toJoin, daemonVars>>

StopSnapshot ==
    /\ stopper = "closed"
    /\ joining' = threads /\ toJoin' = threads /\ stopper' = "joining"
    /\ UNCHANGED <<clientVars, reply, conn, slots, threads, acceptVars, server,
                   path, stopping, daemonVars>>

\* join(timeout): the thread ended or a second passed.  A thread that was
\* registered and not yet started cannot be joined: stop() raises.
StopJoin(c) ==
    /\ stopper = "joining" /\ c \in toJoin
    /\ toJoin' = toJoin \ {c}
    /\ stopper' = IF conn[c] = "accepted" THEN "aborted" ELSE stopper
    /\ UNCHANGED <<clientVars, reply, conn, slots, threads, acceptVars, server,
                   path, stopping, joining, daemonVars>>

StopUnlink ==
    /\ stopper = "joining" /\ toJoin = {}
    /\ path' = "absent" /\ stopper' = "done"
    /\ UNCHANGED <<clientVars, reply, conn, slots, threads, acceptVars, server,
                   stopping, joining, toJoin, daemonVars>>

-----------------------------------------------------------------------------
AcceptStep == Register \/ StartThread
StopStep   == StopClose \/ StopSnapshot \/ StopUnlink \/ \E c \in Clients : StopJoin(c)
Serve(c)   == \/ Identify(c) \/ ReceiveFails(c) \/ ProcessLine(c)
              \/ HandleQuery(c) \/ HandleSensitive(c) \/ Answered(c) \/ Finish(c)

ServerNext == \/ StartServer \/ AcceptStep \/ AcceptorEnds \/ StopFlag \/ StopStep
              \/ \E c \in Clients : Accept(c) \/ Serve(c)

-----------------------------------------------------------------------------
(***************************************************************************)
(* Properties.                                                             *)
(***************************************************************************)

Held == {"accepted", "running", "recv", "executing", "answered", "closing"}

\* What the gate sees of a connection.
Seen(state) == CASE state \in Held    -> "inside"
                 [] state = "refused" -> "refused"
                 [] state = "closed"  -> "left"
                 [] OTHER             -> "new"

AdmissionStatus == [c \in Clients |-> Seen(conn[c])]

Admission == INSTANCE AdmissionControl WITH
    Jobs <- Clients, Limit <- MaxClients, status <- AdmissionStatus

\* The client slots of ipc_server.py (run_forever, _client_worker) implement an
\* admission gate: a client hears SERVER_BUSY only when every slot is really
\* held by another connection, and every admitted connection gives its slot
\* back, whether it timed out, failed to identify itself, was denied or served.
SlotsImplementAdmission == Admission!Spec

\* What the client is told is true of the daemon, also after a retry or a race
\* with another client: a rejection means this request changed nothing and never
\* will, and a success means the change was made.  And what changed was asked for
\* by a well-formed request of root or an administrator (_process_line).
OutcomeTruthful ==
    \A c \in Clients :
        LET o == outcome[c]
        IN /\ o \notin {None, "ok", "OPERATION_FAILED", "IPC_UNAVAILABLE"}
                 => c \notin effects
           /\ o = "ok" /\ request[c].action \in SensitiveActions =>
                 IF request[c].action = "delete_permanently" THEN item = "deleted"
                 ELSE c \in effects
           /\ c \in effects => Privileged(request[c]) /\ request[c].defects = {}

\* When stop() has returned, the socket is gone and a connection that is still
\* being served is one stop() saw and waited for: no worker that stop() did not
\* see reads or executes a request any more.
StopLeavesNoStranger ==
    stopper = "done" =>
        /\ path = "absent" /\ server = "closed"
        /\ \A c \in Clients : conn[c] \in {"recv", "executing"} => c \in joining
=============================================================================
