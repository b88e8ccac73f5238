----------------------------- MODULE IpcProofs -----------------------------
(***************************************************************************)
(* The client slots of the IPC server implement an admission gate, for any *)
(* number of clients and slots: every step of the composed system Gui maps *)
(* to a step of AdmissionControl or leaves its state alone.                *)
(***************************************************************************)
EXTENDS Gui, FiniteSetTheorems, TLAPS

Conns == Held \cup {"none", "backlog", "refused", "closed"}

Inside == {c \in Clients : conn[c] \in Held}

\* What the refinement rests on: free slots and held connections add up, the
\* connection the accept thread works on is still the one it accepted, and a
\* client that has not connected has no connection.
SlotInv ==
    /\ conn \in [Clients -> Conns]
    /\ slots \in Nat /\ slots + Cardinality(Inside) = MaxClients
    /\ acceptor \in {"register", "start"} => current \in Clients /\ conn[current] = "accepted"
    /\ others \subseteq Clients
    /\ client \in [Clients -> {"idle", "waiting", "done"}]
    /\ \A c \in Clients : client[c] = "idle" => conn[c] = "none"

\* The four kinds of states a connection is seen in.
LEMMA SeenStates ==
  /\ \A x \in Held : Seen(x) = "inside"
  /\ \A x \in {"none", "backlog"} : Seen(x) = "new" /\ x \notin Held
  /\ Seen("refused") = "refused" /\ "refused" \notin Held
  /\ Seen("closed") = "left" /\ "closed" \notin Held
<1>1. \A x \in Held : Seen(x) = "inside"
  <2> SUFFICES ASSUME NEW x \in Held PROVE Seen(x) = "inside"
    OBVIOUS
  <2>1. x # "refused" /\ x # "closed"
    BY DEF Held
  <2> QED BY <2>1, Zenon DEF Seen
<1>2. \A x \in {"none", "backlog"} : Seen(x) = "new" /\ x \notin Held
  BY DEF Seen, Held
<1>3. Seen("refused") = "refused" /\ "refused" \notin Held
  BY DEF Seen, Held
<1>4. Seen("closed") = "left" /\ "closed" \notin Held
  BY DEF Seen, Held
<1> QED BY <1>1, <1>2, <1>3, <1>4

\* The gate counts as this module does.
LEMMA SameCount == \A S : Admission!Cardinality(S) = Cardinality(S)
  BY DEF Admission!Cardinality, Cardinality

\* The gate sees exactly the held connections.
LEMMA InsideIsHeld ==
  ASSUME conn \in [Clients -> Conns]
  PROVE  Admission!Inside = Inside
  BY SeenStates DEF Admission!Inside, Inside, AdmissionStatus, Conns

\* A connection gets a slot: one more is inside.
LEMMA Entering ==
  ASSUME conn \in [Clients -> Conns], NEW c \in Clients, conn[c] \notin Held,
         NEW to \in Held, conn' = [conn EXCEPT ![c] = to]
  PROVE  /\ conn' \in [Clients -> Conns]
         /\ Cardinality(Inside) \in Nat
         /\ Cardinality(Inside') = Cardinality(Inside) + 1
<1>1. Inside' = Inside \cup {c} /\ c \notin Inside
  BY DEF Inside
<1>2. IsFiniteSet(Inside)
  BY SlotsAssumption, FS_Subset DEF Inside
<1>3. conn' \in [Clients -> Conns]
  BY DEF Conns
<1> QED BY ONLY <1>1, <1>2, <1>3, FS_AddElement, FS_CardinalityType

\* A connection gives its slot back: one less is inside.
LEMMA Leaving ==
  ASSUME conn \in [Clients -> Conns], NEW c \in Clients, conn[c] \in Held,
         NEW to \in Conns \ Held, conn' = [conn EXCEPT ![c] = to]
  PROVE  /\ conn' \in [Clients -> Conns]
         /\ Cardinality(Inside) \in Nat
         /\ Cardinality(Inside') = Cardinality(Inside) - 1
<1>1. Inside' = Inside \ {c} /\ c \in Inside
  BY DEF Inside
<1>2. IsFiniteSet(Inside)
  BY SlotsAssumption, FS_Subset DEF Inside
<1>3. conn' \in [Clients -> Conns]
  OBVIOUS
<1> QED BY ONLY <1>1, <1>2, <1>3, FS_RemoveElement, FS_CardinalityType

\* Any step of a connection that neither takes nor returns a slot.
LEMMA Moving ==
  ASSUME conn \in [Clients -> Conns], conn' \in [Clients -> Conns],
         \A c \in Clients : conn'[c] \in Held <=> conn[c] \in Held
  PROVE  Inside' = Inside
  BY DEF Inside
-----------------------------------------------------------------------------
(* What a step of one connection is to the gate.                           *)

\* The gate's state after one connection went from one kind of state to another.
LEMMA StatusAfter ==
  ASSUME conn \in [Clients -> Conns], NEW c \in Clients, NEW to \in Conns,
         conn' = [conn EXCEPT ![c] = to]
  PROVE  AdmissionStatus' = [AdmissionStatus EXCEPT ![c] = Seen(to)]
  BY DEF AdmissionStatus

\* Connections that stay inside, or stay outside, do not move the gate.
LEMMA QuietStep ==
  ASSUME SlotInv, slots' = slots, conn' \in [Clients -> Conns],
         \A c \in Clients : \/ conn'[c] = conn[c]
                            \/ conn[c] \in Held /\ conn'[c] \in Held
                            \/ conn[c] \in {"none", "backlog"} /\ conn'[c] \in {"none", "backlog"}
  PROVE  /\ AdmissionStatus' = AdmissionStatus
         /\ slots' \in Nat /\ slots' + Cardinality(Inside') = MaxClients
<1>1. \A c \in Clients : conn'[c] \in Held <=> conn[c] \in Held
  BY DEF Held
<1>2. Inside' = Inside
  BY <1>1 DEF Inside
<1>3. \A c \in Clients : Seen(conn'[c]) = Seen(conn[c])
  BY SeenStates
<1>4. AdmissionStatus' = AdmissionStatus
  BY <1>3 DEF AdmissionStatus
<1> QED BY <1>2, <1>4 DEF SlotInv

\* A slot is taken: the gate admits.
LEMMA AdmitStep ==
  ASSUME SlotInv, NEW c \in Clients, conn[c] = "backlog", slots > 0,
         conn' = [conn EXCEPT ![c] = "accepted"], slots' = slots - 1
  PROVE  /\ Admission!Next
         /\ conn' \in [Clients -> Conns]
         /\ slots' \in Nat /\ slots' + Cardinality(Inside') = MaxClients
<1>1. conn \in [Clients -> Conns] /\ slots \in Nat /\ slots + Cardinality(Inside) = MaxClients
  BY DEF SlotInv
<1>2. conn[c] \notin Held /\ "accepted" \in Held /\ "accepted" \in Conns
  BY DEF Held, Conns
<1>3. /\ conn' \in [Clients -> Conns] /\ Cardinality(Inside) \in Nat
      /\ Cardinality(Inside') = Cardinality(Inside) + 1
  BY <1>1, <1>2, Entering
<1>4. AdmissionStatus[c] = "new" /\ Admission!Inside = Inside
  BY <1>1, InsideIsHeld, SeenStates DEF AdmissionStatus
<1>6. AdmissionStatus' = [AdmissionStatus EXCEPT ![c] = "inside"]
  BY <1>1, <1>2, StatusAfter, SeenStates
<1>7. Cardinality(Inside) < MaxClients
  BY ONLY <1>1, <1>3, slots > 0, slots \in Nat
<1>8. Admission!Admit(c)
  BY <1>4, <1>6, <1>7, SameCount DEF Admission!Admit
<1>9. slots' \in Nat /\ slots' + Cardinality(Inside') = MaxClients
  BY ONLY <1>1, <1>3, slots > 0, slots' = slots - 1
<1> QED BY <1>3, <1>8, <1>9 DEF Admission!Next

\* No slot is free: the gate refuses, and it is full.
LEMMA RefuseStep ==
  ASSUME SlotInv, NEW c \in Clients, conn[c] = "backlog", ~(slots > 0),
         conn' = [conn EXCEPT ![c] = "refused"], slots' = slots
  PROVE  /\ Admission!Next
         /\ conn' \in [Clients -> Conns]
         /\ slots' \in Nat /\ slots' + Cardinality(Inside') = MaxClients
<1>1. conn \in [Clients -> Conns] /\ slots \in Nat /\ slots + Cardinality(Inside) = MaxClients
  BY DEF SlotInv
<1>2. conn[c] \notin Held /\ "refused" \notin Held /\ "refused" \in Conns
  BY DEF Held, Conns
<1>3. conn' \in [Clients -> Conns]
  BY <1>1, <1>2
<1>4. Inside' = Inside
  BY <1>1, <1>2, <1>3, Moving
<1>5. AdmissionStatus[c] = "new" /\ Admission!Inside = Inside
  BY <1>1, InsideIsHeld, SeenStates DEF AdmissionStatus
<1>6. AdmissionStatus' = [AdmissionStatus EXCEPT ![c] = "refused"]
  BY <1>1, <1>2, StatusAfter, SeenStates
<1>7. IsFiniteSet(Inside)
  BY SlotsAssumption, FS_Subset DEF Inside
<1>8. Cardinality(Inside) \in Nat
  BY ONLY <1>7, FS_CardinalityType
<1>9. Cardinality(Inside) = MaxClients
  BY ONLY <1>1, <1>8, ~(slots > 0)
<1>10. Admission!Refuse(c)
  BY <1>5, <1>6, <1>9, SameCount DEF Admission!Refuse
<1> QED BY <1>1, <1>3, <1>4, <1>10 DEF Admission!Next

\* The slot is given back: the gate's job leaves.
LEMMA LeaveStep ==
  ASSUME SlotInv, NEW c \in Clients, conn[c] = "closing",
         conn' = [conn EXCEPT ![c] = "closed"], slots' = slots + 1
  PROVE  /\ Admission!Next
         /\ conn' \in [Clients -> Conns]
         /\ slots' \in Nat /\ slots' + Cardinality(Inside') = MaxClients
<1>1. conn \in [Clients -> Conns] /\ slots \in Nat /\ slots + Cardinality(Inside) = MaxClients
  BY DEF SlotInv
<1>2. conn[c] \in Held /\ "closed" \in Conns \ Held
  BY DEF Held, Conns
<1>3. /\ conn' \in [Clients -> Conns] /\ Cardinality(Inside) \in Nat
      /\ Cardinality(Inside') = Cardinality(Inside) - 1
  BY <1>1, <1>2, Leaving
<1>4. AdmissionStatus[c] = "inside"
  BY <1>1, <1>2, SeenStates DEF AdmissionStatus
<1>6. AdmissionStatus' = [AdmissionStatus EXCEPT ![c] = "left"]
  BY <1>1, <1>2, StatusAfter, SeenStates
<1>7. Admission!Leave(c)
  BY <1>4, <1>6 DEF Admission!Leave
<1>8. slots' \in Nat /\ slots' + Cardinality(Inside') = MaxClients
  BY ONLY <1>1, <1>3, slots' = slots + 1
<1> QED BY <1>3, <1>7, <1>8 DEF Admission!Next

\* A client that was served or refused comes back.
LEMMA ReturnStep ==
  ASSUME SlotInv, NEW c \in Clients, conn[c] \in {"closed", "refused"},
         conn' = [conn EXCEPT ![c] = "none"], slots' = slots
  PROVE  /\ Admission!Next
         /\ conn' \in [Clients -> Conns]
         /\ slots' \in Nat /\ slots' + Cardinality(Inside') = MaxClients
<1>1. conn \in [Clients -> Conns] /\ slots \in Nat /\ slots + Cardinality(Inside) = MaxClients
  BY DEF SlotInv
<1>2. conn[c] \notin Held /\ "none" \notin Held /\ "none" \in Conns
  BY DEF Held, Conns
<1>3. conn' \in [Clients -> Conns]
  BY <1>1, <1>2
<1>4. Inside' = Inside
  BY <1>1, <1>2, <1>3, Moving
<1>5. AdmissionStatus[c] \in {"refused", "left"}
  BY <1>1, SeenStates DEF AdmissionStatus
<1>7. AdmissionStatus' = [AdmissionStatus EXCEPT ![c] = "new"]
  BY <1>1, <1>2, StatusAfter, SeenStates
<1>8. Admission!Return(c)
  BY <1>5, <1>7 DEF Admission!Return
<1> QED BY <1>1, <1>3, <1>4, <1>8 DEF Admission!Next
-----------------------------------------------------------------------------
(* The steps of the system, one lemma for each kind.                       *)

Admitting == acceptor \in {"register", "start"}

SlotStep == Admission!Next \/ AdmissionStatus' = AdmissionStatus

\* Steps that leave the connections and the slots alone.
LEMMA ApartStep ==
  ASSUME SlotInv, conn' = conn, slots' = slots, others' = others,
         client' = client \/ \E c \in Clients : client' = [client EXCEPT ![c] = "done"],
         Admitting' => Admitting /\ current' = current
  PROVE  SlotInv' /\ SlotStep
<1>1. AdmissionStatus' = AdmissionStatus /\ Inside' = Inside
  BY DEF AdmissionStatus, Inside
<1>2. /\ client' \in [Clients -> {"idle", "waiting", "done"}]
      /\ \A c \in Clients : client'[c] = "idle" => client[c] = "idle"
  BY DEF SlotInv
<1>3. SlotInv'
  BY <1>1, <1>2 DEF SlotInv, Admitting
<1> QED BY <1>1, <1>3 DEF SlotStep

\* Steps of a worker that keeps its slot.
LEMMA WorkStep ==
  ASSUME SlotInv, NEW c \in Clients, NEW to \in Held,
         NEW from \in Held \ {"accepted"}, WorkerStep(c, from, to), others' = others
  PROVE  SlotInv' /\ SlotStep
<1>1. /\ conn[c] = from /\ conn' = [conn EXCEPT ![c] = to]
      /\ client' = client /\ slots' = slots /\ acceptor' = acceptor /\ current' = current
  BY DEF WorkerStep, clientVars, acceptVars
<1>2. conn \in [Clients -> Conns] /\ conn' \in [Clients -> Conns]
  BY <1>1 DEF SlotInv, Conns
<1>3. AdmissionStatus' = AdmissionStatus /\ slots' \in Nat /\ slots' + Cardinality(Inside') = MaxClients
  BY <1>1, <1>2, QuietStep
<1>4. acceptor' \in {"register", "start"} => current' \in Clients /\ conn'[current'] = "accepted"
  BY <1>1, <1>2 DEF SlotInv
<1>5. \A d \in Clients : client'[d] = "idle" => conn'[d] = "none"
  BY <1>1, <1>2 DEF SlotInv, Held
<1> QED BY <1>1, <1>2, <1>3, <1>4, <1>5 DEF SlotInv, SlotStep

\* Everything a worker does before it releases its slot.
LEMMA ServeStep ==
  ASSUME SlotInv, NEW c \in Clients, others' = others,
         \/ Identify(c) \/ ReceiveFails(c) \/ ProcessLine(c)
         \/ HandleQuery(c) \/ HandleSensitive(c) \/ Answered(c)
  PROVE  SlotInv' /\ SlotStep
<1> DEFINE Work == \E from \in Held \ {"accepted"}, to \in Held : WorkerStep(c, from, to)
<1>0. /\ "running" \in Held \ {"accepted"} /\ "recv" \in Held \ {"accepted"}
      /\ "executing" \in Held \ {"accepted"} /\ "answered" \in Held \ {"accepted"}
      /\ "closing" \in Held
  BY DEF Held
<1> SUFFICES Work
  BY WorkStep
<1>1. CASE Identify(c)
  BY <1>0, <1>1 DEF Identify
<1>2. CASE ReceiveFails(c)
  BY <1>0, <1>2 DEF ReceiveFails
<1>3. CASE ProcessLine(c)
  BY <1>0, <1>3 DEF ProcessLine
<1>4. CASE HandleQuery(c)
  <2>1. WorkerStep(c, "executing", "answered")
    BY <1>4 DEF HandleQuery, Answer
  <2> QED BY <2>1, <1>0
<1>5. CASE HandleSensitive(c)
  <2>1. WorkerStep(c, "executing", "answered")
    BY <1>5 DEF HandleSensitive, Answer
  <2> QED BY <2>1, <1>0
<1>6. CASE Answered(c)
  BY <1>0, <1>6 DEF Answered
<1> QED BY <1>1, <1>2, <1>3, <1>4, <1>5, <1>6

\* The finally block gives the slot back.
LEMMA FinishStep ==
  ASSUME SlotInv, NEW c \in Clients, Finish(c), others' = others
  PROVE  SlotInv' /\ SlotStep
<1>1. /\ conn[c] = "closing" /\ conn' = [conn EXCEPT ![c] = "closed"] /\ slots' = slots + 1
      /\ client' = client /\ acceptor' = acceptor /\ current' = current
  BY DEF Finish, clientVars, acceptVars
<1>2. /\ Admission!Next /\ conn' \in [Clients -> Conns]
      /\ slots' \in Nat /\ slots' + Cardinality(Inside') = MaxClients
  BY <1>1, LeaveStep
<1>3. acceptor' \in {"register", "start"} => current' \in Clients /\ conn'[current'] = "accepted"
  BY <1>1 DEF SlotInv
<1>4. \A d \in Clients : client'[d] = "idle" => conn'[d] = "none"
  BY <1>1 DEF SlotInv
<1> QED BY <1>1, <1>2, <1>3, <1>4 DEF SlotInv, SlotStep

\* accept(): a slot is taken, or the client is refused.
LEMMA AcceptingStep ==
  ASSUME SlotInv, NEW c \in Clients, Accept(c), others' = others
  PROVE  SlotInv' /\ SlotStep
<1>1. conn[c] = "backlog" /\ client' = client /\ ~Admitting
  BY DEF Accept, clientVars, Admitting
<1>2. conn \in [Clients -> Conns]
  BY DEF SlotInv
<1>3. CASE slots > 0
  <2>1. /\ conn' = [conn EXCEPT ![c] = "accepted"] /\ slots' = slots - 1
        /\ current' = c
    BY <1>3 DEF Accept
  <2>2. /\ Admission!Next /\ conn' \in [Clients -> Conns]
        /\ slots' \in Nat /\ slots' + Cardinality(Inside') = MaxClients
    BY <1>1, <1>3, <2>1, AdmitStep
  <2>3. current' \in Clients /\ conn'[current'] = "accepted"
    BY <1>2, <2>1
  <2>4. \A d \in Clients : client'[d] = "idle" => conn'[d] = "none"
    BY <1>1, <2>1 DEF SlotInv
  <2> QED BY <1>1, <2>2, <2>3, <2>4 DEF SlotInv, SlotStep
<1>4. CASE ~(slots > 0)
  <2>1. /\ conn' = [conn EXCEPT ![c] = "refused"] /\ slots' = slots
        /\ acceptor' \notin {"register", "start"}
    BY <1>4 DEF Accept, LoopAgain
  <2>2. /\ Admission!Next /\ conn' \in [Clients -> Conns]
        /\ slots' \in Nat /\ slots' + Cardinality(Inside') = MaxClients
    BY <1>1, <1>4, <2>1, RefuseStep
  <2>4. \A d \in Clients : client'[d] = "idle" => conn'[d] = "none"
    BY <1>1, <2>1 DEF SlotInv
  <2> QED BY <1>1, <2>1, <2>2, <2>4 DEF SlotInv, SlotStep
<1> QED BY <1>3, <1>4

\* The thread of the admitted connection starts.
LEMMA ThreadStep ==
  ASSUME SlotInv, StartThread, others' = others
  PROVE  SlotInv' /\ SlotStep
<1>1. /\ current \in Clients /\ conn[current] = "accepted"
      /\ conn' = [conn EXCEPT ![current] = "running"] /\ slots' = slots /\ client' = client
      /\ acceptor' \notin {"register", "start"}
  BY DEF StartThread, LoopAgain, SlotInv, clientVars
<1>2. "running" \in Held /\ "accepted" \in Held
  BY DEF Held
<1>3. conn \in [Clients -> Conns] /\ conn' \in [Clients -> Conns]
  BY <1>1, <1>2 DEF SlotInv, Conns
<1>4. AdmissionStatus' = AdmissionStatus /\ slots' \in Nat /\ slots' + Cardinality(Inside') = MaxClients
  BY <1>1, <1>2, <1>3, QuietStep
<1>5. \A d \in Clients : client'[d] = "idle" => conn'[d] = "none"
  BY <1>1, <1>3 DEF SlotInv
<1> QED BY <1>1, <1>3, <1>4, <1>5 DEF SlotInv, SlotStep

\* A connection that was not accepted yet appears or goes away.
LEMMA OutsideStep ==
  ASSUME SlotInv, conn' \in [Clients -> Conns], slots' = slots, others' = others,
         acceptor' = acceptor, current' = current,
         \A c \in Clients : \/ conn'[c] = conn[c]
                            \/ conn[c] \in {"none", "backlog"} /\ conn'[c] \in {"none", "backlog"},
         client' \in [Clients -> {"idle", "waiting", "done"}],
         \A c \in Clients : client'[c] = "idle" => conn'[c] = "none"
  PROVE  SlotInv' /\ SlotStep
<1>1. AdmissionStatus' = AdmissionStatus /\ slots' \in Nat /\ slots' + Cardinality(Inside') = MaxClients
  BY QuietStep
<1>2. acceptor' \in {"register", "start"} => current' \in Clients /\ conn'[current'] = "accepted"
  BY DEF SlotInv
<1> QED BY <1>1, <1>2 DEF SlotInv, SlotStep

\* connect(), with or without a listener.
LEMMA ConnectStep ==
  ASSUME SlotInv, NEW c \in Clients, NEW r, Connect(c, r), others' = others
  PROVE  SlotInv' /\ SlotStep
<1>1. conn \in [Clients -> Conns] /\ conn[c] = "none"
  BY DEF SlotInv, Connect
<1>2. /\ slots' = slots /\ acceptor' = acceptor /\ current' = current
      /\ conn' = conn \/ conn' = [conn EXCEPT ![c] = "backlog"]
      /\ \E to \in {"waiting", "done"} : client' = [client EXCEPT ![c] = to]
  BY DEF Connect, acceptVars
<1>3. conn' \in [Clients -> Conns]
  BY <1>1, <1>2 DEF Conns
<1>4. \A d \in Clients : \/ conn'[d] = conn[d]
                         \/ conn[d] \in {"none", "backlog"} /\ conn'[d] \in {"none", "backlog"}
  BY <1>1, <1>2
<1>5. /\ client' \in [Clients -> {"idle", "waiting", "done"}]
      /\ \A d \in Clients : client'[d] = "idle" => conn'[d] = "none"
  BY <1>1, <1>2 DEF SlotInv
<1> QED BY <1>2, <1>3, <1>4, <1>5, OutsideStep

\* The client's time is up.
LEMMA GiveUpStep ==
  ASSUME SlotInv, NEW c \in Clients, GiveUp(c), others' = others
  PROVE  SlotInv' /\ SlotStep
<1>1. /\ slots' = slots /\ acceptor' = acceptor /\ current' = current
      /\ client' = [client EXCEPT ![c] = "done"]
      /\ conn' = [conn EXCEPT ![c] = IF conn[c] = "backlog" THEN "none" ELSE conn[c]]
  BY DEF GiveUp, Conclude, acceptVars
<1>2. conn \in [Clients -> Conns] /\ conn' \in [Clients -> Conns]
  BY <1>1 DEF SlotInv, Conns
<1>3. \A d \in Clients : \/ conn'[d] = conn[d]
                         \/ conn[d] \in {"none", "backlog"} /\ conn'[d] \in {"none", "backlog"}
  BY <1>1, <1>2
<1>4. /\ client' \in [Clients -> {"idle", "waiting", "done"}]
      /\ \A d \in Clients : client'[d] = "idle" => conn'[d] = "none"
  BY <1>1, <1>2 DEF SlotInv
<1> QED BY <1>1, <1>2, <1>3, <1>4, OutsideStep

\* stop() closes the socket: connections nobody accepted are reset.
LEMMA CloseSocketStep ==
  ASSUME SlotInv, StopClose, others' = others
  PROVE  SlotInv' /\ SlotStep
<1>1. /\ slots' = slots /\ acceptor' = acceptor /\ current' = current /\ client' = client
      /\ conn' = [c \in Clients |-> IF conn[c] = "backlog" THEN "none" ELSE conn[c]]
  BY DEF StopClose, acceptVars, clientVars
<1>2. conn \in [Clients -> Conns] /\ conn' \in [Clients -> Conns]
  BY <1>1 DEF SlotInv, Conns
<1>3. \A d \in Clients : \/ conn'[d] = conn[d]
                         \/ conn[d] \in {"none", "backlog"} /\ conn'[d] \in {"none", "backlog"}
  BY <1>1, <1>2
<1>4. /\ client' \in [Clients -> {"idle", "waiting", "done"}]
      /\ \A d \in Clients : client'[d] = "idle" => conn'[d] = "none"
  BY <1>1, <1>2 DEF SlotInv
<1> QED BY <1>1, <1>2, <1>3, <1>4, OutsideStep

\* The client's next request comes on a new connection.
LEMMA ReopenStep ==
  ASSUME SlotInv, NEW c \in Clients, Reopen(c), others' = others
  PROVE  SlotInv' /\ SlotStep
<1>1. /\ slots' = slots /\ acceptor' = acceptor /\ current' = current
      /\ client' = [client EXCEPT ![c] = "idle"]
      /\ conn' = [conn EXCEPT ![c] = "none"] /\ conn[c] \in {"none", "closed", "refused"}
  BY DEF Reopen, acceptVars
<1>2. conn \in [Clients -> Conns] /\ conn' \in [Clients -> Conns]
  BY <1>1 DEF SlotInv, Conns
<1>3. /\ client' \in [Clients -> {"idle", "waiting", "done"}]
      /\ \A d \in Clients : client'[d] = "idle" => conn'[d] = "none"
  BY <1>1, <1>2 DEF SlotInv
<1>4. CASE conn[c] = "none"
  <2>1. \A d \in Clients : conn'[d] = conn[d]
    BY <1>1, <1>2, <1>4
  <2> QED BY <1>1, <1>2, <1>3, <2>1, OutsideStep
<1>5. CASE conn[c] \in {"closed", "refused"}
  <2>1. /\ Admission!Next /\ slots' \in Nat /\ slots' + Cardinality(Inside') = MaxClients
    BY <1>1, <1>5, ReturnStep
  <2>2. acceptor' \in {"register", "start"} => current' \in Clients /\ conn'[current'] = "accepted"
    BY <1>1, <1>2 DEF SlotInv
  <2> QED BY <1>1, <1>2, <1>3, <2>1, <2>2 DEF SlotInv, SlotStep
<1> QED BY <1>1, <1>4, <1>5

-----------------------------------------------------------------------------
\* Steps of the server, of the threads and of stop().
LEMMA ServerStep ==
  ASSUME SlotInv, ServerNext, others' = others
  PROVE  SlotInv' /\ SlotStep
<1>1. CASE StartServer
  BY <1>1, ApartStep DEF StartServer, clientVars, Admitting
<1>2. CASE Register
  BY <1>2, ApartStep DEF Register, clientVars, Admitting
<1>3. CASE StartThread
  BY <1>3, ThreadStep
<1>4. CASE AcceptorEnds
  BY <1>4, ApartStep DEF AcceptorEnds, clientVars, Admitting
<1>5. CASE StopFlag
  BY <1>5, ApartStep DEF StopFlag, clientVars, acceptVars, Admitting
<1>6. CASE StopClose
  BY <1>6, CloseSocketStep
<1>7. CASE StopSnapshot
  BY <1>7, ApartStep DEF StopSnapshot, clientVars, acceptVars, Admitting
<1>8. CASE StopUnlink
  BY <1>8, ApartStep DEF StopUnlink, clientVars, acceptVars, Admitting
<1>9. ASSUME NEW c \in Clients, StopJoin(c) PROVE SlotInv' /\ SlotStep
  BY <1>9, ApartStep DEF StopJoin, clientVars, acceptVars, Admitting
<1>10. ASSUME NEW c \in Clients, Accept(c) PROVE SlotInv' /\ SlotStep
  BY <1>10, AcceptingStep
<1>11. ASSUME NEW c \in Clients, Serve(c) PROVE SlotInv' /\ SlotStep
  <2>1. CASE Finish(c)
    BY <2>1, FinishStep
  <2>2. CASE ~Finish(c)
    BY <1>11, <2>2, ServeStep DEF Serve
  <2> QED BY <2>1, <2>2
<1> QED BY <1>1, <1>2, <1>3, <1>4, <1>5, <1>6, <1>7, <1>8, <1>9, <1>10, <1>11
        DEF ServerNext, AcceptStep, StopStep

\* Steps of the desktop application that leave the connection alone.
LEMMA IdleStep ==
  ASSUME SlotInv, ipcVars' = ipcVars, others' = others
  PROVE  SlotInv' /\ SlotStep
  BY ApartStep DEF ipcVars, clientVars, acceptVars, Admitting

\* Every step of the composed system maps to a step of the gate or to none.
LEMMA NextStep ==
  ASSUME SlotInv, [Next]_vars
  PROVE  SlotInv' /\ SlotStep
<1>1. CASE ServerNext /\ UNCHANGED guiVars
  BY <1>1, ServerStep DEF guiVars
<1>2. ASSUME NEW c \in others, NEW r \in Requests, Connect(c, r), UNCHANGED guiVars
      PROVE  SlotInv' /\ SlotStep
  BY <1>2, ConnectStep DEF guiVars, SlotInv
<1>3. ASSUME NEW c \in Clients, ReadReply(c), UNCHANGED guiVars
      PROVE  SlotInv' /\ SlotStep
  BY <1>3, ApartStep DEF ReadReply, Conclude, acceptVars, guiVars, Admitting
<1>4. ASSUME NEW c \in Clients, GiveUp(c), UNCHANGED guiVars
      PROVE  SlotInv' /\ SlotStep
  BY <1>4, GiveUpStep DEF guiVars
<1>5. ASSUME NEW o \in ops, PoolStart(o) \/ Raise(o)
      PROVE  SlotInv' /\ SlotStep
  BY <1>5, IdleStep DEF PoolStart, Raise
<1>6. ASSUME NEW o \in ops, Ask(o) PROVE SlotInv' /\ SlotStep
  BY <1>6, ConnectStep, ClientsAssumption DEF Ask, guiVars, ops
<1>7. ASSUME NEW o \in ops, Collect(o) PROVE SlotInv' /\ SlotStep
  BY <1>7, ReopenStep, ClientsAssumption DEF Collect, ops
<1>8. CASE RefreshDashboard \/ Close \/ DeliverRefresh
  BY <1>8, IdleStep DEF RefreshDashboard, Close, DeliverRefresh
<1>9. ASSUME NEW o \in UserOps, Click(o) \/ DeliverOp(o) PROVE SlotInv' /\ SlotStep
  BY <1>9, IdleStep DEF Click, DeliverOp
<1>10. CASE UNCHANGED vars
  BY <1>10, IdleStep DEF vars, guiVars
<1> QED BY <1>1, <1>2, <1>3, <1>4, <1>5, <1>6, <1>7, <1>8, <1>9, <1>10
        DEF Next, PoolStep, UiStep

\* Initially every slot is free and nobody is inside.
LEMMA InitialGate ==
  ASSUME Init
  PROVE  SlotInv /\ Admission!Init
<1>1. /\ conn = [c \in Clients |-> "none"] /\ slots = MaxClients /\ acceptor = "off"
      /\ client = [c \in Clients |-> "idle"] /\ others \subseteq Clients
  BY ClientsAssumption DEF Init, IpcInit
<1>2. conn \in [Clients -> Conns] /\ Inside = {}
  BY <1>1 DEF Conns, Held, Inside
<1>3. slots \in Nat /\ slots + Cardinality(Inside) = MaxClients
  BY <1>1, <1>2, SlotsAssumption, FS_EmptySet
<1>4. AdmissionStatus = [c \in Clients |-> "new"]
  BY <1>1, SeenStates DEF AdmissionStatus
<1> QED BY <1>1, <1>2, <1>3, <1>4 DEF SlotInv, Admission!Init

\* The client slots of ipc_server.py are a counted gate, whatever the number of
\* clients and slots and however clients, workers, stop() and the desktop
\* application interleave: never more connections inside than slots, and a
\* refusal only while all slots are taken.  The safety part of
\* SlotsImplementAdmission.
THEOREM SlotsAreAGate ==
  Spec => Admission!Init /\ [][Admission!Next]_AdmissionStatus
<1>1. Init => SlotInv /\ Admission!Init
  BY InitialGate
<1>2. SlotInv /\ [Next]_vars => SlotInv' /\ [Admission!Next]_AdmissionStatus
  BY NextStep DEF SlotStep
<1> QED BY <1>1, <1>2, PTL DEF Spec

\* Slots never run negative and are never leaked: the free ones and the ones
\* held by connections always add up to maximum_clients.
THEOREM SlotsAddUp == Spec => [](slots \in Nat /\ slots + Cardinality(Inside) = MaxClients)
<1>1. Init => SlotInv
  BY InitialGate
<1>2. SlotInv /\ [Next]_vars => SlotInv'
  BY NextStep
<1>3. SlotInv => slots \in Nat /\ slots + Cardinality(Inside) = MaxClients
  BY DEF SlotInv
<1> QED BY <1>1, <1>2, <1>3, PTL DEF Spec
-----------------------------------------------------------------------------
(***************************************************************************)
(* What stop() leaves behind.                                              *)
(***************************************************************************)
Threaded == {"running", "recv", "executing", "answered", "closing"}
Serving  == {"recv", "executing"}

\* A connection that has a thread is in _client_threads, from before the thread
\* starts; after the snapshot no connection begins to be read.
StopInv ==
    /\ SlotInv
    /\ \A c \in Clients : conn[c] \in Threaded => c \in threads
    /\ acceptor = "start" => current \in threads
    /\ stopper \in {"flagged", "closed", "joining", "done", "aborted"} => stopping
    /\ stopper \in {"closed", "joining", "done", "aborted"} => server = "closed"
    /\ stopper = "done" => path = "absent"
    /\ stopper \in {"joining", "done", "aborted"} =>
          \A c \in Clients : conn[c] \in Serving => c \in joining

\* One connection changes, with stop() where it was.
LEMMA StopFrame ==
  ASSUME StopInv, SlotInv', stopVars' = stopVars,
         \A c \in Clients : conn'[c] \in Threaded => c \in threads',
         acceptor' = "start" => current' \in threads',
         stopping => \A c \in Clients : conn'[c] \in Serving => conn[c] \in Serving
  PROVE  StopInv'
  BY DEF StopInv, stopVars

\* Steps of one connection after its thread started.
LEMMA StopWork ==
  ASSUME StopInv, SlotInv', NEW c \in Clients, NEW from, NEW to, WorkerStep(c, from, to),
         from \in Threaded, stopping /\ to \in Serving => from \in Serving
  PROVE  StopInv'
<1>1. /\ conn[c] = from /\ conn' = [conn EXCEPT ![c] = to] /\ threads' = threads
      /\ acceptor' = acceptor /\ current' = current /\ stopVars' = stopVars
  BY DEF WorkerStep, acceptVars
<1>2. conn \in [Clients -> Conns]
  BY DEF StopInv, SlotInv
<1>3. \A d \in Clients : conn'[d] \in Threaded => d \in threads'
  BY <1>1, <1>2 DEF StopInv
<1>4. stopping => \A d \in Clients : conn'[d] \in Serving => conn[d] \in Serving
  BY <1>1, <1>2
<1>5. acceptor' = "start" => current' \in threads'
  BY <1>1 DEF StopInv
<1> QED BY <1>1, <1>3, <1>4, <1>5, StopFrame

\* Steps that leave the connections, the threads and stop() alone.
LEMMA StopApart ==
  ASSUME StopInv, SlotInv', conn' = conn, threads' = threads, acceptor' = acceptor,
         current' = current, stopVars' = stopVars
  PROVE  StopInv'
  BY DEF StopInv, stopVars

\* The steps of a worker.
LEMMA StopServe ==
  ASSUME StopInv, SlotInv', NEW c \in Clients, Serve(c)
  PROVE  StopInv'
<1>0. /\ "running" \in Threaded /\ "recv" \in Threaded /\ "executing" \in Threaded
      /\ "answered" \in Threaded /\ "closing" \notin Serving /\ "answered" \notin Serving
      /\ "recv" \in Serving
  BY DEF Threaded, Serving
<1>1. CASE Identify(c)
  <2>1. \/ WorkerStep(c, "running", IF stopping THEN "closing" ELSE "recv")
        \/ WorkerStep(c, "running", "closing")
    BY <1>1 DEF Identify
  <2>2. CASE WorkerStep(c, "running", IF stopping THEN "closing" ELSE "recv")
    <3>1. CASE stopping
      <4>1. WorkerStep(c, "running", "closing")
        BY <2>2, <3>1
      <4> QED BY ONLY <1>0, <4>1, StopWork, StopInv, SlotInv', c \in Clients
    <3>2. CASE ~stopping
      <4>1. WorkerStep(c, "running", "recv")
        BY <2>2, <3>2
      <4> QED BY ONLY <1>0, <3>2, <4>1, StopWork, StopInv, SlotInv', c \in Clients
    <3> QED BY <3>1, <3>2
  <2>3. CASE WorkerStep(c, "running", "closing")
    BY ONLY <1>0, <2>3, StopWork, StopInv, SlotInv', c \in Clients
  <2> QED BY <2>1, <2>2, <2>3
<1>2. CASE ReceiveFails(c)
  <2>1. WorkerStep(c, "recv", "closing")
    BY <1>2 DEF ReceiveFails
  <2> QED BY ONLY <1>0, <2>1, StopWork, StopInv, SlotInv', c \in Clients
<1>3. CASE ProcessLine(c)
  <2>1. WorkerStep(c, "recv", "answered") \/ WorkerStep(c, "recv", "executing")
    BY <1>3 DEF ProcessLine
  <2> QED BY ONLY <1>0, <2>1, StopWork, StopInv, SlotInv', c \in Clients
<1>4. CASE HandleQuery(c) \/ HandleSensitive(c)
  <2>1. WorkerStep(c, "executing", "answered")
    BY <1>4 DEF HandleQuery, HandleSensitive, Answer
  <2> QED BY ONLY <1>0, <2>1, StopWork, StopInv, SlotInv', c \in Clients
<1>5. CASE Answered(c)
  <2>1. WorkerStep(c, "answered", "closing")
    BY <1>5 DEF Answered
  <2> QED BY ONLY <1>0, <2>1, StopWork, StopInv, SlotInv', c \in Clients
<1>6. CASE Finish(c)
  <2>1. /\ conn[c] = "closing" /\ conn' = [conn EXCEPT ![c] = "closed"] /\ threads' = threads \ {c}
        /\ acceptor' = acceptor /\ current' = current /\ stopVars' = stopVars
    BY <1>6 DEF Finish, acceptVars
  <2>2. conn \in [Clients -> Conns] /\ (acceptor = "start" => conn[current] = "accepted")
    BY DEF StopInv, SlotInv
  <2>3. \A d \in Clients : conn'[d] \in Threaded => d \in threads'
    BY <2>1, <2>2 DEF StopInv, Threaded
  <2>4. \A d \in Clients : conn'[d] \in Serving => conn[d] \in Serving
    BY <2>1, <2>2 DEF Serving
  <2>5. acceptor' = "start" => current' \in threads'
    BY <2>1, <2>2 DEF StopInv
  <2> QED BY <2>1, <2>3, <2>4, <2>5, StopFrame
<1> QED BY <1>1, <1>2, <1>3, <1>4, <1>5, <1>6 DEF Serve

\* The steps of the accept thread.
LEMMA StopAccept ==
  ASSUME StopInv, SlotInv',
         StartServer \/ Register \/ StartThread \/ AcceptorEnds \/ \E c \in Clients : Accept(c)
  PROVE  StopInv'
<1>0. conn \in [Clients -> Conns] /\ (acceptor \in {"register", "start"} => current \in Clients /\ conn[current] = "accepted")
  BY DEF StopInv, SlotInv
<1>1. CASE StartServer
  BY <1>1 DEF StartServer, StopInv
<1>2. CASE Register
  <2>1. stopVars' = stopVars /\ conn' = conn /\ threads' = threads \cup {current} /\ current' = current
    BY <1>2 DEF Register
  <2> QED BY <2>1, StopFrame DEF StopInv
<1>3. CASE StartThread
  <2>1. /\ stopVars' = stopVars /\ conn' = [conn EXCEPT ![current] = "running"] /\ threads' = threads
        /\ acceptor = "start" /\ acceptor' # "start"
    BY <1>3 DEF StartThread, LoopAgain
  <2>2. \A d \in Clients : conn'[d] \in Threaded => d \in threads'
    BY <1>0, <2>1 DEF StopInv
  <2>3. \A d \in Clients : conn'[d] \in Serving => conn[d] \in Serving
    BY <1>0, <2>1 DEF Serving
  <2> QED BY <2>1, <2>2, <2>3, StopFrame
<1>4. CASE AcceptorEnds
  <2>1. stopVars' = stopVars /\ conn' = conn /\ threads' = threads /\ acceptor' # "start"
    BY <1>4 DEF AcceptorEnds
  <2> QED BY <2>1, StopFrame DEF StopInv
<1>5. ASSUME NEW c \in Clients, Accept(c) PROVE StopInv'
  <2>1. /\ stopVars' = stopVars /\ threads' = threads /\ acceptor' # "start"
        /\ \E to \in {"accepted", "refused"} : conn' = [conn EXCEPT ![c] = to]
    BY <1>5 DEF Accept, LoopAgain
  <2>2. \A d \in Clients : conn'[d] \in Threaded => conn[d] \in Threaded
    BY <1>0, <2>1 DEF Threaded
  <2>3. \A d \in Clients : conn'[d] \in Serving => conn[d] \in Serving
    BY <1>0, <2>1 DEF Serving
  <2> QED BY <2>1, <2>2, <2>3, StopFrame DEF StopInv
<1> QED BY <1>1, <1>2, <1>3, <1>4, <1>5

\* The steps of stop().
LEMMA StopStops ==
  ASSUME StopInv, SlotInv', StopFlag \/ StopStep
  PROVE  StopInv'
<1>1. CASE StopFlag
  BY <1>1 DEF StopFlag, StopInv, acceptVars
<1>2. CASE StopClose
  <2>1. \A c \in Clients : conn'[c] \in Threaded => conn[c] \in Threaded
    BY <1>2 DEF StopClose, Threaded
  <2> QED BY <1>2, <2>1 DEF StopClose, StopInv, acceptVars
<1>3. CASE StopSnapshot
  <2>1. \A c \in Clients : conn[c] \in Serving => conn[c] \in Threaded
    BY DEF Serving, Threaded
  <2> QED BY <1>3, <2>1 DEF StopSnapshot, StopInv, acceptVars
<1>4. ASSUME NEW c \in Clients, StopJoin(c) PROVE StopInv'
  BY <1>4 DEF StopJoin, StopInv, acceptVars
<1>5. CASE StopUnlink
  BY <1>5 DEF StopUnlink, StopInv, acceptVars
<1> QED BY <1>1, <1>2, <1>3, <1>4, <1>5 DEF StopStep

\* A client outside the server: connections without a thread.
LEMMA StopClient ==
  ASSUME StopInv, SlotInv', NEW c \in Clients,
         \/ \E r : Connect(c, r)
         \/ ReadReply(c) \/ GiveUp(c) \/ Reopen(c)
  PROVE  StopInv'
<1>1. /\ stopVars' = stopVars /\ threads' = threads /\ acceptor' = acceptor /\ current' = current
      /\ \/ conn' = conn \/ conn' = [conn EXCEPT ![c] = conn[c]]
         \/ \E to \in {"none", "backlog"} : conn' = [conn EXCEPT ![c] = to]
  BY DEF Connect, ReadReply, GiveUp, Conclude, Reopen, acceptVars
<1>2. conn \in [Clients -> Conns]
  BY DEF StopInv, SlotInv
<1>3. \A d \in Clients : conn'[d] \in Threaded => conn[d] \in Threaded
  BY <1>1, <1>2 DEF Threaded
<1>4. \A d \in Clients : conn'[d] \in Serving => conn[d] \in Serving
  BY <1>1, <1>2 DEF Serving
<1> QED BY <1>1, <1>3, <1>4, StopFrame DEF StopInv

AcceptorStep == StartServer \/ Register \/ StartThread \/ AcceptorEnds \/ \E c \in Clients : Accept(c)

ClientStep(c) == \/ \E r : r.defects \subseteq Defects /\ Connect(c, r)
                 \/ ReadReply(c) \/ GiveUp(c) \/ Reopen(c)

\* The requests of the desktop application have known defects only.
LEMMA GuiRequests ==
  ASSUME NEW o \in ops
  PROVE  GuiRequest(o).defects \subseteq Defects
<1>1. CASE o = Refresh
  BY <1>1 DEF GuiRequest
<1>2. CASE o # Refresh
  BY <1>2, OperationsAssumption DEF GuiRequest, ops
<1> QED BY <1>1, <1>2

\* Who takes a step: a worker, the accept thread, stop(), a client, or nobody
\* the service knows of.
LEMMA NextKinds ==
  ASSUME [Next]_vars, others \subseteq Clients
  PROVE  \/ \E c \in Clients : Serve(c) \/ ClientStep(c)
         \/ AcceptorStep \/ StopFlag \/ StopStep
         \/ ipcVars' = ipcVars
<1>1. CASE ServerNext
  BY <1>1 DEF ServerNext, AcceptStep, AcceptorStep
<1>2. ASSUME NEW c \in others, NEW r \in Requests, Connect(c, r) PROVE \E d \in Clients : ClientStep(d)
  BY <1>2, RequestsAssumption DEF ClientStep
<1>3. ASSUME NEW c \in Clients, ReadReply(c) \/ GiveUp(c) PROVE ClientStep(c)
  BY <1>3 DEF ClientStep
<1>4. ASSUME NEW o \in ops, PoolStart(o) \/ Raise(o) PROVE ipcVars' = ipcVars
  BY <1>4 DEF PoolStart, Raise
<1>5. ASSUME NEW o \in ops, Ask(o) PROVE o \in Clients /\ ClientStep(o)
  BY <1>5, GuiRequests, ClientsAssumption DEF Ask, ClientStep, ops
<1>6. ASSUME NEW o \in ops, Collect(o) PROVE o \in Clients /\ ClientStep(o)
  BY <1>6, ClientsAssumption DEF Collect, ClientStep, ops
<1>7. CASE RefreshDashboard \/ Close \/ DeliverRefresh
  BY <1>7 DEF RefreshDashboard, Close, DeliverRefresh
<1>8. ASSUME NEW o \in UserOps, Click(o) \/ DeliverOp(o) PROVE ipcVars' = ipcVars
  BY <1>8 DEF Click, DeliverOp
<1>9. CASE UNCHANGED vars
  BY <1>9 DEF vars
<1> QED BY <1>1, <1>2, <1>3, <1>4, <1>5, <1>6, <1>7, <1>8, <1>9 DEF Next, PoolStep, UiStep

\* Every step keeps what stop() relies on.
LEMMA StopNext ==
  ASSUME StopInv, [Next]_vars
  PROVE  StopInv'
<1>1. SlotInv /\ SlotInv' /\ others \subseteq Clients
  BY NextStep DEF StopInv, SlotInv
<1>2. ASSUME NEW c \in Clients, Serve(c) PROVE StopInv'
  BY <1>1, <1>2, StopServe
<1>3. ASSUME NEW c \in Clients, ClientStep(c) PROVE StopInv'
  BY <1>1, <1>3, StopClient DEF ClientStep
<1>4. CASE AcceptorStep
  BY <1>1, <1>4, StopAccept DEF AcceptorStep
<1>5. CASE StopFlag \/ StopStep
  BY <1>1, <1>5, StopStops
<1>6. CASE ipcVars' = ipcVars
  BY <1>1, <1>6, StopApart DEF ipcVars, acceptVars
<1> QED BY <1>1, <1>2, <1>3, <1>4, <1>5, <1>6, NextKinds

\* When stop() has returned, the socket is gone, and every connection that is still
\* read or executed is one stop() saw and waited for (StopLeavesNoStranger), for
\* any number of clients, slots and workers.
THEOREM StopIsClean == Spec => []StopLeavesNoStranger
<1>1. Init => StopInv
  <2>1. ASSUME Init PROVE SlotInv
    BY <2>1, InitialGate
  <2> QED BY <2>1 DEF Init, IpcInit, StopInv, Threaded, Serving
<1>2. StopInv /\ [Next]_vars => StopInv'
  BY StopNext
<1>3. StopInv => StopLeavesNoStranger
  BY DEF StopInv, StopLeavesNoStranger, Serving
<1> QED BY <1>1, <1>2, <1>3, PTL DEF Spec
-----------------------------------------------------------------------------
(***************************************************************************)
(* What the client is told.                                                *)
(***************************************************************************)
Past == {"answered", "closing", "closed"}
Over == Past \cup {"refused"}

\* A code is true of what the request did.
Told(c, code) ==
    /\ code \notin {"ok", "OPERATION_FAILED"} => c \notin effects
    /\ code = "ok" /\ request[c].action \in SensitiveActions =>
          IF request[c].action = "delete_permanently" THEN item = "deleted" ELSE c \in effects

\* A request changes the daemon only between its authorization and its answer, and
\* the connection of a client that has its answer, or has given up, does not come
\* back to that point; so what a reply says stays true until the client reads it.
Truth(c) ==
    /\ client[c] = "idle" => reply[c] = None /\ outcome[c] = None
    /\ client[c] # "idle" => request[c].defects \subseteq Defects
    /\ c \in effects =>
          conn[c] \in Past /\ Privileged(request[c]) /\ request[c].defects = {}
    /\ conn[c] = "executing" => request[c].defects = {} /\ Authorized(request[c])
    /\ reply[c] # None =>
          client[c] = "waiting" /\ conn[c] \in Over /\ (reply[c].echo => Told(c, reply[c].code))
    /\ outcome[c] # None =>
          /\ client[c] = "done"
          /\ outcome[c] # "IPC_UNAVAILABLE" => conn[c] \in Over /\ Told(c, outcome[c])

TruthInv ==
    /\ SlotInv
    /\ request = [c \in Clients |-> request[c]]
    /\ reply = [c \in Clients |-> reply[c]]
    /\ outcome = [c \in Clients |-> outcome[c]]
    /\ \A c \in Clients : Truth(c)

\* A step of one client leaves the others' truths alone.
LEMMA OtherClients ==
  ASSUME NEW d \in Clients, Truth(d),
         client'[d] = client[d], request'[d] = request[d], reply'[d] = reply[d],
         outcome'[d] = outcome[d], conn'[d] = conn[d],
         d \in effects' <=> d \in effects,
         item = "deleted" => item' = "deleted"
  PROVE  Truth(d)'
  BY DEF Truth, Told, Privileged, Authorized

\* The same for a connection that only moves in the queue of the listener.
LEMMA QueuedClients ==
  ASSUME NEW d \in Clients, Truth(d),
         client'[d] = client[d], request'[d] = request[d], reply'[d] = reply[d],
         outcome'[d] = outcome[d], effects' = effects, item' = item,
         conn'[d] \notin Over \cup {"executing"}, conn[d] \notin Over
  PROVE  Truth(d)'
  BY DEF Truth, Told, Privileged, Authorized, Over

\* A protocol error is never reported as success.
LEMMA ErrorsAreErrors ==
  ASSUME NEW r, r.defects \subseteq Defects, r.defects # {}
  PROVE  DecodeError(r).code \notin {"ok", "OPERATION_FAILED"}
<1> DEFINE failed == {i \in 1..Len(Checks) : Checks[i][1] \in r.defects}
           first  == CHOOSE i \in failed : \A j \in failed : i <= j
           Ok(x)  == x \notin {"ok", "OPERATION_FAILED"}
<1>1. Len(Checks) = 11
  BY DEF Checks
<1>2. failed # {} /\ failed \subseteq 1..11
  BY <1>1 DEF Defects
<1>3. \A i \in 1..11 : i \in {1, 2, 3, 4, 5, 6, 7, 8, 9, 10, 11}
  OBVIOUS
<1>4. /\ Ok(Checks[1][2]) /\ Ok(Checks[2][2]) /\ Ok(Checks[3][2]) /\ Ok(Checks[4][2])
      /\ Ok(Checks[5][2]) /\ Ok(Checks[6][2]) /\ Ok(Checks[7][2]) /\ Ok(Checks[8][2])
      /\ Ok(Checks[9][2]) /\ Ok(Checks[10][2]) /\ Ok(Checks[11][2])
  BY DEF Checks
<1>5. DecodeError(r).code = Checks[first][2]
  BY DEF DecodeError, Response
<1> HIDE DEF failed
<1>6. \E i \in failed : \A j \in failed : i <= j
  <2> SUFFICES ASSUME \A i \in failed : \E j \in failed : ~(i <= j) PROVE FALSE
    OBVIOUS
  <2>1. 1 \notin failed
    BY <1>2
  <2>2. 2 \notin failed
    BY <1>2, <2>1
  <2>3. 3 \notin failed
    BY <1>2, <2>1, <2>2
  <2>4. 4 \notin failed
    BY <1>2, <2>1, <2>2, <2>3
  <2>5. 5 \notin failed
    BY <1>2, <2>1, <2>2, <2>3, <2>4
  <2>6. 6 \notin failed
    BY <1>2, <2>1, <2>2, <2>3, <2>4, <2>5
  <2>7. 7 \notin failed
    BY <1>2, <2>1, <2>2, <2>3, <2>4, <2>5, <2>6
  <2>8. 8 \notin failed
    BY <1>2, <2>1, <2>2, <2>3, <2>4, <2>5, <2>6, <2>7
  <2>9. 9 \notin failed
    BY <1>2, <2>1, <2>2, <2>3, <2>4, <2>5, <2>6, <2>7, <2>8
  <2>10. 10 \notin failed
    BY <1>2, <2>1, <2>2, <2>3, <2>4, <2>5, <2>6, <2>7, <2>8, <2>9
  <2>11. 11 \notin failed
    BY <1>2, <2>1, <2>2, <2>3, <2>4, <2>5, <2>6, <2>7, <2>8, <2>9, <2>10
  <2>12. \A i \in 1..11 : i \notin failed
    BY ONLY <1>3, <2>1, <2>2, <2>3, <2>4, <2>5, <2>6, <2>7, <2>8, <2>9, <2>10, <2>11
  <2> QED BY ONLY <1>2, <2>12
<1>7. first \in failed
  BY <1>6
<1> HIDE DEF first, Ok
<1>8. Ok(Checks[first][2])
  BY ONLY <1>2, <1>3, <1>4, <1>7
<1> QED BY <1>5, <1>8 DEF Ok

\* The answer reaches a client that still waits.
LEMMA SendsOne ==
  ASSUME TruthInv, NEW c \in Clients, NEW r, Send(c, r)
  PROVE  /\ reply' = [d \in Clients |-> reply'[d]]
         /\ \A d \in Clients \ {c} : reply'[d] = reply[d]
         /\ reply'[c] = IF client[c] = "waiting" THEN r ELSE reply[c]
  BY DEF TruthInv, Send

\* A step of a worker: only its own client's truth is at stake.
LEMMA WorkerTruth ==
  ASSUME TruthInv, SlotInv', NEW c \in Clients, NEW from, NEW to, WorkerStep(c, from, to),
         reply' = [d \in Clients |-> reply'[d]],
         \A d \in Clients \ {c} : reply'[d] = reply[d] /\ (d \in effects' <=> d \in effects),
         item = "deleted" => item' = "deleted",
         Truth(c)'
  PROVE  TruthInv'
<1>1. /\ client' = client /\ request' = request /\ outcome' = outcome
      /\ conn' = [conn EXCEPT ![c] = to] /\ conn \in [Clients -> Conns]
  BY DEF WorkerStep, clientVars, TruthInv, SlotInv
<1>2. ASSUME NEW d \in Clients \ {c} PROVE Truth(d)'
  <2>1. Truth(d)
    BY DEF TruthInv
  <2> QED BY <1>1, <2>1, OtherClients
<1> QED BY <1>1, <1>2 DEF TruthInv

\* A worker that changes nothing in the daemon and answers nothing.
LEMMA SilentWorker ==
  ASSUME TruthInv, SlotInv', NEW c \in Clients, NEW from, NEW to, WorkerStep(c, from, to),
         UNCHANGED <<reply, daemonVars>>, from \in Over => to \in Past, from \in Past \/ from \notin Over,
         to = "executing" => request[c].defects = {} /\ Authorized(request[c])
  PROVE  TruthInv'
<1>1. /\ client' = client /\ request' = request /\ outcome' = outcome /\ effects' = effects /\ item' = item
      /\ conn[c] = from /\ conn'[c] = to /\ reply' = reply
      /\ reply' = [d \in Clients |-> reply'[d]]
  BY DEF WorkerStep, clientVars, daemonVars, TruthInv, SlotInv
<1>2. Truth(c) /\ Past \subseteq Over
  BY DEF TruthInv, Over
<1>3. Truth(c)'
  BY <1>1, <1>2 DEF Truth, Told, Privileged, Authorized
<1> QED BY <1>1, <1>3, WorkerTruth

\* A worker that answers with a code that means the request changed nothing.
LEMMA RefusingWorker ==
  ASSUME TruthInv, SlotInv', NEW c \in Clients, NEW from, NEW to \in Past, WorkerStep(c, from, to),
         from \notin Over, NEW r, Send(c, r), UNCHANGED daemonVars,
         r.echo => (r.code # "ok" \/ request[c].action \notin SensitiveActions)
  PROVE  TruthInv'
<1>1. /\ client' = client /\ request' = request /\ outcome' = outcome /\ effects' = effects /\ item' = item
      /\ conn[c] = from /\ conn'[c] = to
  BY DEF WorkerStep, clientVars, daemonVars, TruthInv, SlotInv
<1>2. Truth(c) /\ Past \subseteq Over /\ "executing" \notin Past
  BY DEF TruthInv, Over, Past
<1>3. /\ reply' = [d \in Clients |-> reply'[d]]
      /\ \A d \in Clients \ {c} : reply'[d] = reply[d]
      /\ reply'[c] = IF client[c] = "waiting" THEN r ELSE reply[c]
  BY SendsOne
<1>4. c \notin effects /\ reply[c] = None
  BY <1>1, <1>2 DEF Truth
<1>5. reply'[c] # None => reply'[c] = r /\ client'[c] = "waiting"
  BY <1>1, <1>3, <1>4
<1>6. r.echo => Told(c, r.code)'
  BY <1>1, <1>4 DEF Told
<1>7. Truth(c)'
  <2>1. client'[c] = "idle" => reply'[c] = None /\ outcome'[c] = None
    BY <1>1, <1>2, <1>5 DEF Truth
  <2>2. outcome'[c] # None =>
          /\ client'[c] = "done"
          /\ outcome'[c] # "IPC_UNAVAILABLE" => conn'[c] \in Over /\ Told(c, outcome[c])'
    BY <1>1, <1>2 DEF Truth, Told
  <2>3. reply'[c] # None /\ reply'[c].echo => Told(c, reply[c].code)'
    BY <1>5, <1>6 DEF Told
  <2> QED BY <1>1, <1>2, <1>4, <1>5, <2>1, <2>2, <2>3 DEF Truth
<1> QED BY <1>1, <1>3, <1>7, WorkerTruth

\* The deletion of the item is final.
LEMMA DeletedStays ==
  ASSUME NEW c \in Clients, Pending(request[c]), Change(c), item = "deleted"
  PROVE  item' = "deleted"
<1>1. request[c].action # "restore_file" /\ request[c].action # "delete_permanently"
  BY DEF Pending
<1>2. item' = item
  <2>1. item' = CASE request[c].action = "restore_file" -> "restored"
                  [] request[c].action = "delete_permanently" -> "deleted"
                  [] OTHER -> item
    BY Zenon DEF Change
  <2> HIDE DEF Change
  <2> QED BY <1>1, <2>1, Zenon
<1> QED BY <1>2

\* A deletion deletes.
LEMMA DeleteDeletes ==
  ASSUME NEW c \in Clients, Change(c), request[c].action = "delete_permanently"
  PROVE  item' = "deleted"
<1>1. item' = CASE request[c].action = "restore_file" -> "restored"
                [] request[c].action = "delete_permanently" -> "deleted"
                [] OTHER -> item
  BY Zenon DEF Change
<1>2. request[c].action # "restore_file"
  OBVIOUS
<1> QED BY ONLY <1>1, <1>2, request[c].action = "delete_permanently", Zenon

\* A worker that changed the daemon for an authorized request and answers that it did.
LEMMA ChangingWorker ==
  ASSUME TruthInv, SlotInv', NEW c \in Clients, request[c].action \in SensitiveActions,
         Pending(request[c]), Change(c), NEW code \in {"ok", "OPERATION_FAILED"}, Answer(c, code)
  PROVE  TruthInv'
<1> DEFINE r == Response(code, TRUE)
<1>0. WorkerStep(c, "executing", "answered") /\ Send(c, r)
  BY DEF Answer
<1>1. /\ client' = client /\ request' = request /\ outcome' = outcome /\ effects' = effects \cup {c}
      /\ conn[c] = "executing" /\ conn'[c] = "answered"
  <2>1. effects' = effects \cup {c}
    BY Zenon DEF Change
  <2> QED BY <1>0, <2>1 DEF WorkerStep, clientVars, TruthInv, SlotInv
<1>2. /\ Truth(c) /\ "answered" \in Past /\ "answered" \in Over /\ "executing" \notin Past
      /\ "executing" \notin Over
  BY DEF TruthInv, Over, Past
<1>3. /\ reply' = [d \in Clients |-> reply'[d]]
      /\ \A d \in Clients \ {c} : reply'[d] = reply[d]
      /\ reply'[c] = IF client[c] = "waiting" THEN r ELSE reply[c]
  BY <1>0, SendsOne
<1>4. reply[c] = None /\ request[c].defects = {} /\ Authorized(request[c])
  BY <1>1, <1>2 DEF Truth
<1>5. r.code = code
  BY DEF Response
<1>6. request[c].action = "delete_permanently" => item' = "deleted"
  BY DeleteDeletes
<1>7. Told(c, code)'
  BY <1>1, <1>6 DEF Told
<1> HIDE DEF r
<1>8. reply'[c] # None => reply'[c] = r /\ client'[c] = "waiting"
  BY <1>1, <1>3, <1>4
<1>9. item = "deleted" => item' = "deleted"
  BY DeletedStays
<1>10. Truth(c)'
  <2>1. client'[c] = "idle" => reply'[c] = None /\ outcome'[c] = None
    BY <1>1, <1>2, <1>8 DEF Truth
  <2>2. outcome'[c] # None => client'[c] = "done" /\ outcome'[c] = "IPC_UNAVAILABLE"
    BY <1>1, <1>2 DEF Truth
  <2>3. reply'[c] # None /\ reply'[c].echo => Told(c, reply[c].code)'
    BY <1>5, <1>7, <1>8 DEF Told
  <2>4. Privileged(request[c])'
    BY <1>1, <1>4 DEF Authorized, Privileged
  <2>5. client'[c] # "idle" => request'[c].defects \subseteq Defects
    BY <1>1, <1>4
  <2> QED BY <1>1, <1>2, <1>4, <1>8, <2>1, <2>2, <2>3, <2>4, <2>5 DEF Truth
<1> QED BY <1>0, <1>1, <1>3, <1>9, <1>10, WorkerTruth

\* Deleting what is deleted is answered truthfully.
LEMMA RepeatingWorker ==
  ASSUME TruthInv, SlotInv', NEW c \in Clients, request[c].action \in SensitiveActions,
         ~Pending(request[c]), Answer(c, AlreadyDone(request[c])), UNCHANGED daemonVars
  PROVE  TruthInv'
<1>1. CASE request[c].action # "delete_permanently"
  <2>1. AlreadyDone(request[c]) = "OPERATION_FAILED"
    BY <1>1 DEF AlreadyDone
  <2>2. WorkerStep(c, "executing", "answered") /\ Send(c, Response("OPERATION_FAILED", TRUE))
    BY <2>1 DEF Answer
  <2>3. "answered" \in Past /\ "executing" \notin Over
    BY DEF Past, Over
  <2>4. Response("OPERATION_FAILED", TRUE).code # "ok"
    BY DEF Response
  <2> HIDE DEF Response
  <2> QED BY <2>2, <2>3, <2>4, RefusingWorker
<1>2. CASE request[c].action = "delete_permanently"
  <2> DEFINE r == Response("ok", TRUE)
  <2>1. /\ WorkerStep(c, "executing", "answered") /\ Send(c, r)
        /\ item = "deleted" /\ r.code = "ok"
    BY <1>2 DEF Answer, AlreadyDone, Pending, Response
  <2> HIDE DEF r
  <2>2. /\ client' = client /\ request' = request /\ outcome' = outcome /\ effects' = effects
        /\ item' = item /\ conn[c] = "executing" /\ conn'[c] = "answered"
    BY <2>1 DEF WorkerStep, clientVars, daemonVars, TruthInv, SlotInv
  <2>3. /\ Truth(c) /\ "answered" \in Past /\ "answered" \in Over /\ "executing" \notin Past
        /\ "executing" \notin Over
    BY DEF TruthInv, Over, Past
  <2>4. /\ reply' = [d \in Clients |-> reply'[d]]
        /\ \A d \in Clients \ {c} : reply'[d] = reply[d]
        /\ reply'[c] = IF client[c] = "waiting" THEN r ELSE reply[c]
    BY <2>1, SendsOne
  <2>5. reply[c] = None /\ c \notin effects
    BY <2>2, <2>3 DEF Truth
  <2>6. reply'[c] # None => reply'[c] = r /\ client'[c] = "waiting"
    BY <2>2, <2>4, <2>5
  <2>7. Told(c, "ok")'
    BY <1>2, <2>1, <2>2 DEF Told
  <2>8. Truth(c)'
    <3>1. client'[c] = "idle" => reply'[c] = None /\ outcome'[c] = None
      BY <2>2, <2>3, <2>6 DEF Truth
    <3>2. outcome'[c] # None => client'[c] = "done" /\ outcome'[c] = "IPC_UNAVAILABLE"
      BY <2>2, <2>3 DEF Truth
    <3>3. reply'[c] # None /\ reply'[c].echo => Told(c, reply[c].code)'
      BY <2>1, <2>6, <2>7 DEF Told
    <3> QED BY <2>2, <2>3, <2>5, <2>6, <3>1, <3>2, <3>3 DEF Truth
  <2> QED BY <2>1, <2>2, <2>4, <2>8, WorkerTruth
<1> QED BY <1>1, <1>2

\* The steps of a worker keep what clients are told true.
LEMMA TruthServe ==
  ASSUME TruthInv, SlotInv', NEW c \in Clients, Serve(c)
  PROVE  TruthInv'
<1>0. /\ "closing" \in Past /\ "answered" \in Past /\ "running" \notin Over /\ "recv" \notin Over
      /\ "executing" \notin Over /\ "closed" \in Past
  BY DEF Past, Over
<1>1. CASE Identify(c)
  <2>1. CASE WorkerStep(c, "running", IF stopping THEN "closing" ELSE "recv") /\ UNCHANGED <<reply, daemonVars>>
    BY <1>0, <2>1, SilentWorker
  <2>2. CASE /\ WorkerStep(c, "running", "closing") /\ UNCHANGED daemonVars
             /\ Send(c, Response("PEER_CREDENTIALS_UNAVAILABLE", FALSE))
    <3>1. ~Response("PEER_CREDENTIALS_UNAVAILABLE", FALSE).echo
      BY DEF Response
    <3> QED BY <1>0, <2>2, <3>1, RefusingWorker
  <2> QED BY <1>1, <2>1, <2>2 DEF Identify
<1>2. CASE ReceiveFails(c)
  <2>1. CASE UNCHANGED <<reply, daemonVars>>
    <3>1. WorkerStep(c, "recv", "closing")
      BY <1>2 DEF ReceiveFails
    <3> QED BY <1>0, <2>1, <3>1, SilentWorker
  <2>2. ASSUME NEW r, ~r.echo, Send(c, r), WorkerStep(c, "recv", "closing"), UNCHANGED daemonVars PROVE TruthInv'
    BY <1>0, <2>2, RefusingWorker
  <2>3. \A code : ~Response(code, FALSE).echo
    BY DEF Response
  <2> QED BY <1>2, <2>1, <2>2, <2>3 DEF ReceiveFails
<1>3. CASE ProcessLine(c)
  <2>1. CASE request[c].defects = {} /\ Authorized(request[c])
    <3>1. WorkerStep(c, "recv", "executing") /\ UNCHANGED <<reply, daemonVars>>
      BY <1>3, <2>1 DEF ProcessLine
    <3> QED BY <1>0, <2>1, <3>1, SilentWorker
  <2>2. CASE request[c].defects # {}
    <3>1. WorkerStep(c, "recv", "answered") /\ UNCHANGED daemonVars /\ Send(c, DecodeError(request[c]))
      BY <1>3, <2>2 DEF ProcessLine
    <3>2. client[c] # "idle"
      BY <3>1 DEF TruthInv, SlotInv, WorkerStep
    <3>3. request[c].defects \subseteq Defects
      BY <3>2 DEF TruthInv, Truth
    <3>4. DecodeError(request[c]).code # "ok"
      BY <2>2, <3>3, ErrorsAreErrors
    <3> QED BY <1>0, <3>1, <3>4, RefusingWorker
  <2>3. CASE request[c].defects = {} /\ ~Authorized(request[c])
    <3>1. WorkerStep(c, "recv", "answered") /\ UNCHANGED daemonVars /\ Send(c, Response("AUTHORIZATION_DENIED", TRUE))
      BY <1>3, <2>3 DEF ProcessLine
    <3>2. Response("AUTHORIZATION_DENIED", TRUE).code # "ok"
      BY DEF Response
    <3> QED BY <1>0, <3>1, <3>2, RefusingWorker
  <2> QED BY <2>1, <2>2, <2>3
<1>4. CASE HandleQuery(c)
  <2>1. PICK code : Answer(c, code)
    BY <1>4 DEF HandleQuery
  <2>2. WorkerStep(c, "executing", "answered") /\ Send(c, Response(code, TRUE))
    BY <2>1 DEF Answer
  <2>3. UNCHANGED daemonVars /\ request[c].action \notin SensitiveActions
    BY <1>4 DEF HandleQuery
  <2> QED BY <1>0, <2>2, <2>3, RefusingWorker
<1>5. CASE HandleSensitive(c)
  <2>1. request[c].action \in SensitiveActions
    BY <1>5 DEF HandleSensitive
  <2>2. ASSUME Pending(request[c]), Change(c), NEW code \in {"ok", "OPERATION_FAILED"}, Answer(c, code)
        PROVE  TruthInv'
    BY <2>1, <2>2, ChangingWorker
  <2>3. CASE ~Pending(request[c]) /\ Answer(c, AlreadyDone(request[c])) /\ UNCHANGED daemonVars
    BY <2>1, <2>3, RepeatingWorker
  <2>4. CASE Answer(c, "OPERATION_FAILED") /\ UNCHANGED daemonVars
    <3>1. WorkerStep(c, "executing", "answered") /\ Send(c, Response("OPERATION_FAILED", TRUE))
      BY <2>4 DEF Answer
    <3>2. Response("OPERATION_FAILED", TRUE).code # "ok"
      BY DEF Response
    <3> QED BY <1>0, <2>4, <3>1, <3>2, RefusingWorker
  <2> QED BY <1>5, <2>2, <2>3, <2>4 DEF HandleSensitive
<1>6. CASE Answered(c)
  <2>1. WorkerStep(c, "answered", "closing") /\ UNCHANGED <<reply, daemonVars>>
    BY <1>6 DEF Answered
  <2> QED BY <1>0, <2>1, SilentWorker
<1>7. CASE Finish(c)
  <2>1. /\ conn[c] = "closing" /\ conn' = [conn EXCEPT ![c] = "closed"] /\ conn \in [Clients -> Conns]
        /\ client' = client /\ request' = request /\ outcome' = outcome /\ reply' = reply
        /\ effects' = effects /\ item' = item
    BY <1>7 DEF Finish, clientVars, daemonVars, TruthInv, SlotInv
  <2>2. \A d \in Clients : Truth(d) /\ conn'[d] = IF d = c THEN "closed" ELSE conn[d]
    BY <2>1 DEF TruthInv
  <2>3. ASSUME NEW d \in Clients \ {c} PROVE Truth(d)'
    BY <2>1, <2>2, OtherClients
  <2>4. Truth(c)'
    BY <1>0, <2>1, <2>2 DEF Truth, Told, Privileged, Authorized, Over
  <2> QED BY <2>1, <2>3, <2>4 DEF TruthInv
<1> QED BY <1>1, <1>2, <1>3, <1>4, <1>5, <1>6, <1>7 DEF Serve

\* The steps of the accept thread keep what clients are told true.
LEMMA TruthAccept ==
  ASSUME TruthInv, SlotInv', AcceptorStep
  PROVE  TruthInv'
<1>0. /\ conn \in [Clients -> Conns] /\ \A d \in Clients : Truth(d)
      /\ acceptor \in {"register", "start"} => current \in Clients /\ conn[current] = "accepted"
  BY DEF TruthInv, SlotInv
<1>1. CASE conn' = conn /\ reply' = reply /\ clientVars' = clientVars /\ daemonVars' = daemonVars
  BY <1>0, <1>1, OtherClients DEF TruthInv, clientVars, daemonVars
<1>2. CASE StartThread
  <2>1. /\ current \in Clients /\ conn[current] = "accepted" /\ conn' = [conn EXCEPT ![current] = "running"]
        /\ client' = client /\ request' = request /\ outcome' = outcome /\ reply' = reply
        /\ effects' = effects /\ item' = item
    BY <1>0, <1>2 DEF StartThread, clientVars, daemonVars
  <2>2. \A d \in Clients : conn'[d] = IF d = current THEN "running" ELSE conn[d]
    BY <1>0, <2>1
  <2>3. ASSUME NEW d \in Clients, d # current PROVE Truth(d)'
    BY <1>0, <2>1, <2>2, <2>3, OtherClients
  <2>4. ASSUME NEW d \in Clients, d = current PROVE Truth(d)'
    BY <1>0, <2>1, <2>2, <2>4, QueuedClients DEF Over, Past
  <2> QED BY <2>1, <2>3, <2>4 DEF TruthInv
<1>3. ASSUME NEW c \in Clients, Accept(c) PROVE TruthInv'
  <2>1. /\ client' = client /\ request' = request /\ outcome' = outcome
        /\ effects' = effects /\ item' = item /\ conn[c] = "backlog"
    BY <1>3 DEF Accept, clientVars, daemonVars
  <2>2. "backlog" \notin Over /\ "accepted" \notin Over /\ "refused" \in Over
    BY DEF Over, Past
  <2>3. CASE slots > 0
    <3>1. reply' = reply /\ \A d \in Clients : conn'[d] = IF d = c THEN "accepted" ELSE conn[d]
      BY <1>0, <1>3, <2>3 DEF Accept
    <3>2. ASSUME NEW d \in Clients, d # c PROVE Truth(d)'
      BY <1>0, <2>1, <3>1, <3>2, OtherClients
    <3>3. Truth(c)'
      BY <1>0, <2>1, <2>2, <3>1, QueuedClients
    <3> QED BY <2>1, <3>1, <3>2, <3>3 DEF TruthInv
  <2>4. CASE ~(slots > 0)
    <3> DEFINE r == Response("SERVER_BUSY", FALSE)
    <3>1. Send(c, r) /\ ~r.echo /\ \A d \in Clients : conn'[d] = IF d = c THEN "refused" ELSE conn[d]
      BY <1>0, <1>3, <2>4 DEF Accept, Response
    <3> HIDE DEF r
    <3>2. /\ reply' = [d \in Clients |-> reply'[d]]
          /\ \A d \in Clients \ {c} : reply'[d] = reply[d]
          /\ reply'[c] = IF client[c] = "waiting" THEN r ELSE reply[c]
      BY <3>1, SendsOne
    <3>3. ASSUME NEW d \in Clients, d # c PROVE Truth(d)'
      BY <1>0, <2>1, <3>1, <3>2, <3>3, OtherClients
    <3>4. reply[c] = None /\ c \notin effects /\ (outcome[c] # None => outcome[c] = "IPC_UNAVAILABLE")
      BY <1>0, <2>1, <2>2 DEF Truth, Over
    <3>5. Truth(c)'
      BY <1>0, <2>1, <2>2, <3>1, <3>2, <3>4 DEF Truth
    <3> QED BY <2>1, <3>2, <3>3, <3>5 DEF TruthInv
  <2> QED BY <2>3, <2>4
<1>4. CASE StartServer \/ Register \/ AcceptorEnds
  BY <1>1, <1>4 DEF StartServer, Register, AcceptorEnds
<1> QED BY <1>2, <1>3, <1>4 DEF AcceptorStep

\* So do the steps of stop(): a connection that is reset was never served.
LEMMA TruthStop ==
  ASSUME TruthInv, SlotInv', StopFlag \/ StopStep
  PROVE  TruthInv'
<1>0. conn \in [Clients -> Conns] /\ \A d \in Clients : Truth(d)
  BY DEF TruthInv, SlotInv
<1>1. /\ client' = client /\ request' = request /\ outcome' = outcome /\ reply' = reply
      /\ effects' = effects /\ item' = item
  BY DEF StopFlag, StopStep, StopClose, StopSnapshot, StopUnlink, StopJoin, clientVars, daemonVars
<1>2. \A d \in Clients : conn'[d] = conn[d] \/ (conn[d] = "backlog" /\ conn'[d] = "none")
  BY DEF StopFlag, StopStep, StopClose, StopSnapshot, StopUnlink, StopJoin
<1>3. ASSUME NEW d \in Clients, conn'[d] = conn[d] PROVE Truth(d)'
  BY <1>0, <1>1, <1>3, OtherClients
<1>4. ASSUME NEW d \in Clients, conn[d] = "backlog", conn'[d] = "none" PROVE Truth(d)'
  <2>1. "backlog" \notin Over /\ "none" \notin Over \cup {"executing"}
    BY DEF Over, Past
  <2> QED BY <1>0, <1>1, <1>4, <2>1, QueuedClients
<1> QED BY <1>1, <1>2, <1>3, <1>4 DEF TruthInv

\* And the steps of the clients.
LEMMA TruthClient ==
  ASSUME TruthInv, SlotInv', NEW c \in Clients, ClientStep(c)
  PROVE  TruthInv'
<1>0. /\ conn \in [Clients -> Conns] /\ \A d \in Clients : Truth(d)
      /\ client \in [Clients -> {"idle", "waiting", "done"}]
      /\ client[c] = "idle" => conn[c] = "none"
      /\ request = [d \in Clients |-> request[d]] /\ reply = [d \in Clients |-> reply[d]]
      /\ outcome = [d \in Clients |-> outcome[d]]
  BY DEF TruthInv, SlotInv
<1>1. "none" \notin Over /\ "none" \notin Past /\ Past \subseteq Over
  BY DEF Over, Past
<1>2. SUFFICES /\ Truth(c)'
               /\ request' = [d \in Clients |-> request'[d]] /\ reply' = [d \in Clients |-> reply'[d]]
               /\ outcome' = [d \in Clients |-> outcome'[d]]
               /\ item' = item
               /\ \A d \in Clients \ {c} :
                     /\ client'[d] = client[d] /\ request'[d] = request[d] /\ reply'[d] = reply[d]
                     /\ outcome'[d] = outcome[d] /\ conn'[d] = conn[d] /\ (d \in effects' <=> d \in effects)
  BY <1>0, OtherClients DEF TruthInv
<1>3. ASSUME NEW r, r.defects \subseteq Defects, Connect(c, r) PROVE <1>2!1
  <2>1. /\ client[c] = "idle" /\ reply' = reply /\ effects' = effects /\ item' = item
        /\ request' = [request EXCEPT ![c] = r]
        /\ \/ /\ client' = [client EXCEPT ![c] = "waiting"]
              /\ conn' = [conn EXCEPT ![c] = "backlog"] /\ outcome' = outcome
           \/ /\ client' = [client EXCEPT ![c] = "done"]
              /\ outcome' = [outcome EXCEPT ![c] = "IPC_UNAVAILABLE"] /\ conn' = conn
    BY <1>3 DEF Connect, daemonVars
  <2>2. reply[c] = None /\ outcome[c] = None /\ c \notin effects /\ conn[c] = "none"
    BY <1>0, <1>1, <2>1 DEF Truth
  <2>3. Truth(c)'
    BY <1>0, <1>1, <1>3, <2>1, <2>2 DEF Truth, Past
  <2> QED BY <1>0, <2>1, <2>3
<1>4. CASE ReadReply(c)
  <2> DEFINE o == IF reply[c].echo THEN reply[c].code ELSE "IPC_UNAVAILABLE"
  <2>1. /\ client[c] = "waiting" /\ reply[c] # None /\ effects' = effects /\ item' = item
        /\ client' = [client EXCEPT ![c] = "done"] /\ outcome' = [outcome EXCEPT ![c] = o]
        /\ reply' = [reply EXCEPT ![c] = None] /\ conn' = conn /\ request' = request
    BY <1>4 DEF ReadReply, Conclude, daemonVars
  <2>2. o # "IPC_UNAVAILABLE" => Told(c, o)
    BY <1>0, <2>1 DEF Truth
  <2>3. conn[c] \in Over /\ Truth(c)
    BY <1>0, <2>1 DEF Truth
  <2> HIDE DEF o
  <2>4. client'[c] = "done" /\ outcome'[c] = o /\ reply'[c] = None
    BY <1>0, <2>1
  <2>5. outcome'[c] # "IPC_UNAVAILABLE" => Told(c, outcome[c])'
    BY <2>1, <2>2, <2>4 DEF Told
  <2>6. Truth(c)'
    BY <2>1, <2>3, <2>4, <2>5 DEF Truth, Privileged, Authorized
  <2> QED BY <1>0, <2>1, <2>6
<1>5. CASE GiveUp(c)
  <2>1. /\ client[c] = "waiting" /\ reply[c] = None /\ effects' = effects /\ item' = item
        /\ client' = [client EXCEPT ![c] = "done"] /\ outcome' = [outcome EXCEPT ![c] = "IPC_UNAVAILABLE"]
        /\ reply' = reply /\ request' = request
        /\ conn' = [conn EXCEPT ![c] = IF @ = "backlog" THEN "none" ELSE @]
    BY <1>5 DEF GiveUp, Conclude, daemonVars
  <2>2. Truth(c) /\ "backlog" \notin Past
    BY <1>0 DEF Past
  <2>3. conn'[c] = conn[c] \/ (conn[c] = "backlog" /\ conn'[c] = "none")
    BY <1>0, <2>1
  <2>4. client'[c] = "done" /\ outcome'[c] = "IPC_UNAVAILABLE"
    BY <1>0, <2>1
  <2>5. Truth(c)'
    BY <2>1, <2>2, <2>3, <2>4 DEF Truth, Privileged, Authorized
  <2> QED BY <1>0, <2>1, <2>5
<1>6. CASE Reopen(c)
  <2>1. /\ client[c] = "done" /\ effects' = effects \ {c} /\ item' = item
        /\ client' = [client EXCEPT ![c] = "idle"] /\ outcome' = [outcome EXCEPT ![c] = None]
        /\ reply' = reply /\ request' = [request EXCEPT ![c] = None]
        /\ conn' = [conn EXCEPT ![c] = "none"]
    BY <1>6 DEF Reopen
  <2>2. reply[c] = None
    BY <1>0, <2>1 DEF Truth
  <2>3. Truth(c)'
    BY <1>0, <2>1, <2>2 DEF Truth
  <2> QED BY <1>0, <2>1, <2>3
<1> QED BY <1>3, <1>4, <1>5, <1>6 DEF ClientStep

\* Every step keeps what clients are told true.
LEMMA TruthNext ==
  ASSUME TruthInv, [Next]_vars
  PROVE  TruthInv'
<1>1. SlotInv /\ SlotInv' /\ others \subseteq Clients
  BY NextStep DEF TruthInv, SlotInv
<1>2. ASSUME NEW c \in Clients, Serve(c) PROVE TruthInv'
  BY <1>1, <1>2, TruthServe
<1>3. ASSUME NEW c \in Clients, ClientStep(c) PROVE TruthInv'
  BY <1>1, <1>3, TruthClient
<1>4. CASE AcceptorStep
  BY <1>1, <1>4, TruthAccept
<1>5. CASE StopFlag \/ StopStep
  BY <1>1, <1>5, TruthStop
<1>6. CASE ipcVars' = ipcVars
  BY <1>1, <1>6, OtherClients DEF TruthInv, ipcVars, clientVars, daemonVars
<1> QED BY <1>1, <1>2, <1>3, <1>4, <1>5, <1>6, NextKinds

\* What a client is told is true of the daemon, whatever other clients, retries,
\* timeouts and stop() do meanwhile: an error code other than the two ambiguous ones
\* means that this request changed nothing, a success that the change was made, and
\* whatever changed was asked for by a well-formed request of a privileged user
\* (OutcomeTruthful).
THEOREM OutcomesTrue == Spec => []OutcomeTruthful
<1>1. Init => TruthInv
  <2>1. ASSUME Init PROVE SlotInv
    BY <2>1, InitialGate
  <2> QED BY <2>1 DEF Init, IpcInit, TruthInv, Truth
<1>2. TruthInv /\ [Next]_vars => TruthInv'
  BY TruthNext
<1>3. TruthInv => OutcomeTruthful
  BY NoneAssumption DEF TruthInv, Truth, Told, OutcomeTruthful
<1> QED BY <1>1, <1>2, <1>3, PTL DEF Spec

-----------------------------------------------------------------------------
(* The in-flight flag of the dashboard.                                    *)

\* The flag is up exactly while a refresh is queued, at work or about to be delivered.
RefreshTracked == ~closed => (inFlight <=> task[Refresh] # "idle")

RefreshInv ==
  /\ task \in [ops -> {"idle", "queued", "working", "posted"}]
  /\ closed \in BOOLEAN /\ inFlight \in BOOLEAN
  /\ RefreshTracked

\* Every step of the UI thread, the pool and the callbacks keeps it.
LEMMA RefreshStep ==
  ASSUME RefreshInv, [Next]_vars
  PROVE  RefreshInv'
<1>0. Refresh \in ops /\ UserOps \subseteq ops /\ Refresh \notin UserOps
  BY ClientsAssumption DEF ops
<1>1. CASE UNCHANGED guiVars
  BY <1>1 DEF RefreshInv, RefreshTracked, guiVars
<1>2. ASSUME NEW o \in ops, PoolStart(o) PROVE RefreshInv'
  BY <1>0, <1>2 DEF PoolStart, RefreshInv, RefreshTracked
<1>3. ASSUME NEW o \in ops, Ask(o) PROVE RefreshInv'
  BY <1>1, <1>3 DEF Ask
<1>4. ASSUME NEW o \in ops, Collect(o) PROVE RefreshInv'
  <2>1. /\ task[o] = "working" /\ UNCHANGED <<closed, inFlight>>
        /\ task' = task \/ task' = [task EXCEPT ![o] = Completed]
    BY <1>4 DEF Collect
  <2> QED BY <1>0, <2>1 DEF RefreshInv, RefreshTracked, Completed
<1>5. ASSUME NEW o \in ops, Raise(o) PROVE RefreshInv'
  BY <1>0, <1>5 DEF Raise, RefreshInv, RefreshTracked, Completed
<1>6. CASE RefreshDashboard
  BY <1>0, <1>6 DEF RefreshDashboard, BeginRefresh, RefreshInv, RefreshTracked
<1>7. CASE DeliverRefresh
  BY <1>0, <1>7 DEF DeliverRefresh, RefreshInv, RefreshTracked
<1>8. ASSUME NEW o \in UserOps, DeliverOp(o) PROVE RefreshInv'
  <2>1. o # Refresh /\ o \in ops
    BY <1>0
  <2>2. \/ /\ inFlight' = TRUE /\ task' = [task EXCEPT ![o] = "idle", ![Refresh] = "queued"]
        \/ /\ inFlight' = inFlight /\ task' = [task EXCEPT ![o] = "idle"]
    BY <1>8 DEF DeliverOp, BeginRefresh, NoRefresh
  <2>3. closed' = closed
    BY <1>8 DEF DeliverOp
  <2>4. task' \in [ops -> {"idle", "queued", "working", "posted"}]
    BY <1>0, <2>1, <2>2 DEF RefreshInv
  <2>5. CASE inFlight' = TRUE /\ task' = [task EXCEPT ![o] = "idle", ![Refresh] = "queued"]
    <3>1. task'[Refresh] = "queued"
      BY <1>0, <2>1, <2>5 DEF RefreshInv
    <3> QED BY <2>3, <2>4, <2>5, <3>1 DEF RefreshInv, RefreshTracked
  <2>6. CASE inFlight' = inFlight /\ task' = [task EXCEPT ![o] = "idle"]
    <3>1. task'[Refresh] = task[Refresh]
      BY <1>0, <2>1, <2>6 DEF RefreshInv
    <3> QED BY <2>3, <2>4, <2>6, <3>1 DEF RefreshInv, RefreshTracked
  <2> QED BY <2>2, <2>5, <2>6
<1>9. CASE Close
  BY <1>9 DEF Close, RefreshInv, RefreshTracked
<1>10. ASSUME NEW o \in UserOps, Click(o) PROVE RefreshInv'
  BY <1>0, <1>10 DEF Click, NoRefresh, RefreshInv, RefreshTracked
<1> QED BY <1>1, <1>2, <1>3, <1>4, <1>5, <1>6, <1>7, <1>8, <1>9, <1>10
        DEF Next, PoolStep, UiStep, vars

\* Until the window is closed, _refresh_in_flight (controller.py) is set exactly while a
\* refresh is queued, running or about to be delivered, whatever the daemon answers and
\* even when an operation raises: the flag is never left behind by a refresh that is
\* gone, and never cleared under one, so that two refreshes never overlap.
THEOREM RefreshFlagSound == Spec => []RefreshTracked
<1>1. Init => RefreshInv
  BY ClientsAssumption DEF Init, ops, RefreshInv, RefreshTracked
<1>2. RefreshInv /\ [Next]_vars => RefreshInv'
  BY RefreshStep
<1>3. RefreshInv => RefreshTracked
  BY DEF RefreshInv
<1> QED BY <1>1, <1>2, <1>3, PTL DEF Spec
=============================================================================
