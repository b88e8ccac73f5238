--------------------------- MODULE FanotifyProofs ---------------------------
(***************************************************************************)
(* Theorems about Fanotify for any number of executions, descriptor        *)
(* numbers, workers, analysis threads and pending slots.                   *)
(*                                                                         *)
(* An answer is addressed by a descriptor number, and numbers are reused.  *)
(* What makes it reach the right process is that an event keeps its number *)
(* until its own close, which follows its own write (Custody), and that    *)
(* whoever else once had that number is past its write (AnswerSound).      *)
(***************************************************************************)
EXTENDS Fanotify, FiniteSetTheorems, NaturalsInduction, WellFoundedInduction, TLAPS

\* Events that were read and not yet answered by respond()'s write.
Unwritten == {"batch", "queued", "evaluate", "analyze", "decide", "write"}

\* Events with a final action.
Settled == {"write", "close", "emit"}

\* Nothing has happened before start().
PhaseSound ==
  /\ phase = "new" => reader = "new" /\ saturated = {} /\ \A e \in Events : stage[e] = "none"
  /\ reader = "new" => phase = "new"

\* A descriptor number and the event it was opened for refer to each other exactly
\* while the controller holds the event.
Custody ==
  /\ \A e \in Events : stage[e] \in Held => efd[e] \in Fds /\ owner[efd[e]] = e
  /\ \A n \in Fds : owner[n] # None => stage[owner[n]] \in Held /\ efd[owner[n]] = n
  /\ \A e \in Events : stage[e] \in {"none", "kernel"} => efd[e] = None

\* Who has an answer, in terms of how far its event has come.
AnswerSound ==
  /\ \A e \in Events : stage[e] = "none" => answer[e] = None
  /\ \A e \in Events : Open /\ stage[e] \in Unwritten \cup {"kernel"} => answer[e] = None
  /\ \A e \in Events : stage[e] \in {"close", "emit", "done"} => answer[e] # None
  /\ \A e \in Events : ~Open /\ stage[e] # "none" => answer[e] # None
  /\ \A e \in Events : answer[e] \in {"ALLOW", "DENY"} => stage[e] \notin Unwritten

\* The kernel's queue holds each waiting event once.
QueueSound ==
  /\ \A i \in 1..Len(kq) : kq[i] # Overflow => stage[kq[i]] = "kernel"
  /\ \A i, j \in 1..Len(kq) : kq[i] = kq[j] /\ i # j => kq[i] = Overflow
  /\ ~Open => kq = <<>>

\* The reader works on the head of a nonempty batch.
ReaderSound ==
  /\ reader = "handling" => batch # <<>>
  /\ \A e \in saturated : stage[e] \in Settled \cup {"done"}
  /\ \A e \in saturated : stage[e] \in Settled => reader = "handling" /\ Head(batch) = e

\* Every DENY, requested or final, is justified.
Justified(e) ==
  \/ file[e].kind = "malicious"
  \/ file[e].closed /\ file[e].kind # "skipped"

DecisionSound ==
  /\ \A e \in Events : stage[e] # "none" => file[e] \in Files
  /\ \A e \in Events : stage[e] \in {"none", "kernel"} => decision[e] = None
  /\ \A e \in Events : stage[e] = "analyze" => file[e].kind # "skipped"
  /\ \A e \in Events : decision[e] = "DENY" => Justified(e)
  /\ \A e \in Events : stage[e] = "decide" => decision[e] # None
  /\ \A e \in Events : stage[e] \in Settled => decision[e] \in {"ALLOW", "DENY"}
  /\ \A e \in Events : stage[e] \in Settled \cup {"done"} /\ decision[e] = "DENY" => e \in exposed
  /\ mode = "ENFORCEMENT" => UnderWay \subseteq exposed

\* An analysis whose result is still awaited has read its own event's file.
JobSound ==
  \A e \in Events : /\ job[e] = "ended" => scan[e] = e
                    /\ job[e] \in {"queued", "ended"} => stage[e] = "analyze"
                    /\ job[e] = "running" => stage[e] \notin {"none", "kernel"}

\* What was written, and what was recorded, is the final action.
RecordSound ==
  /\ \A e \in Events : answer[e] \in {"ALLOW", "DENY"} => answer[e] = decision[e]
  /\ \A e \in Events : outcome[e] = "sent" => answer[e] \in {"ALLOW", "DENY"}
  /\ \A e \in Events : emitted[e] # None /\ emitted[e].ok => answer[e] = emitted[e].action

\* Slots are taken by exactly the submitted events, until the reader dies.
SlotsSound ==
  /\ slots + Cardinality(Submitted) <= MaxPending
  /\ reader # "dead" => slots + Cardinality(Submitted) = MaxPending

FanotifyInv ==
  /\ TypeOK /\ PhaseSound /\ Custody /\ AnswerSound /\ QueueSound /\ ReaderSound /\ DecisionSound
  /\ JobSound /\ RecordSound /\ SlotsSound
-----------------------------------------------------------------------------
(* Lemmas on the operators of the model.                                   *)

\* A nonempty set of descriptor numbers has a least one.
LEMMA LeastNumber ==
  ASSUME NEW T, T \subseteq Nat, T # {}
  PROVE  \E x \in T : \A y \in T : x <= y
<1> DEFINE R == OpToRel(<, Nat)
<1>1. IsWellFoundedOn(R, Nat)
  BY NatLessThanWellFounded
<1>2. \A a, b \in Nat : a < b => <<a, b>> \in R
  BY DEF OpToRel
<1> HIDE DEF R
<1>3. PICK x \in T : \A y \in T : ~(<<y, x>> \in R)
  BY <1>1, WFMin
<1>4. \A y \in T : x <= y
  <2> TAKE y \in T
  <2>1. x \in Nat /\ y \in Nat
    OBVIOUS
  <2>2. ~(y < x)
    BY <1>2, <1>3, <2>1
  <2> QED
    BY <2>1, <2>2
<1> QED
  BY <1>4

\* The number the kernel hands out is one of the free ones.
LEMMA LowestIsFree ==
  ASSUME NEW T, T \subseteq Nat, T # {}
  PROVE  Lowest(T) \in T
<1>1. \E x \in T : \A y \in T : x <= y
  BY LeastNumber
<1> QED
  BY ONLY <1>1 DEF Lowest

\* The submitted events can be counted.
LEMMA SubmittedFinite ==
  IsFiniteSet(Submitted) /\ Cardinality(Submitted) \in Nat
<1>1. Submitted \subseteq Events
  BY DEF Submitted, Handling
<1>2. IsFiniteSet(Submitted)
  BY <1>1, FS_Subset, FanotifyAssumption
<1> QED
  BY <1>2, FS_CardinalityType

\* A handler that goes from one of its stages to another stays submitted.
LEMMA SubmittedSame ==
  ASSUME NEW e \in Events, saturated' = saturated,
         \A x \in Events : x # e => stage'[x] = stage[x],
         \/ e \in saturated /\ stage[e] # "queued" /\ stage'[e] # "queued"
         \/ stage[e] \in {"queued"} \cup Handled /\ stage'[e] \in {"queued"} \cup Handled
            /\ e \notin saturated
         \/ stage[e] \notin {"queued"} \cup Handled /\ stage'[e] \notin {"queued"} \cup Handled
  PROVE  Submitted' = Submitted
<1>1. \A x \in Events : x \in Submitted' <=> x \in Submitted
  BY DEF Submitted, Handling, Handled, At
<1> QED
  BY <1>1 DEF Submitted, Handling

\* Where neither the slots nor the submitted events change, the count holds.
LEMMA SlotsSame ==
  ASSUME SlotsSound, Submitted' = Submitted, slots' = slots, reader' # "dead" => reader # "dead"
  PROVE  SlotsSound'
BY DEF SlotsSound

\* The reader moves on to the next event of its batch, or reads again.
LEMMA AdvanceSound ==
  ASSUME batch \in Seq(Events \cup {Overflow}), batch # <<>>, Advance
  PROVE  /\ batch' \in Seq(Events \cup {Overflow})
         /\ reader' \in {"reading", "handling"}
         /\ reader' = "handling" => batch' # <<>>
<1>1. Len(batch) \in Nat /\ Len(batch) # 0
  OBVIOUS
<1>2. Tail(batch) \in Seq(Events \cup {Overflow}) /\ Len(Tail(batch)) = Len(batch) - 1
  BY <1>1
<1>3. Len(batch) # 1 => Tail(batch) # <<>>
  <2>1. Len(<<>>) = 0
    OBVIOUS
  <2>2. Tail(batch) = <<>> => Len(batch) - 1 = 0
    BY <1>2, <2>1
  <2> QED
    BY ONLY <1>1, <2>2
<1> QED
  BY <1>2, <1>3 DEF Advance

\* A held event is the only one that waits for an answer under its number.
LEMMA AloneWaiting ==
  ASSUME TypeOK, Custody, AnswerSound, Open, NEW e \in Events, stage[e] \in Unwritten
  PROVE  Waiting(efd[e]) = {e}
<1>1. efd[e] \in Fds /\ owner[efd[e]] = e /\ answer[e] = None
  BY DEF Custody, AnswerSound, Held, Unwritten
<1>2. ASSUME NEW x \in Events, answer[x] = None, efd[x] = efd[e] PROVE x = e
  <2>1. stage[x] \in Stages /\ efd[x] # None
    BY <1>1, <1>2, FanotifyAssumption DEF TypeOK
  <2>2. stage[x] \notin {"none", "kernel"}
    BY <2>1 DEF Custody
  <2>3. stage[x] \notin {"close", "emit", "done"}
    BY <1>2 DEF AnswerSound
  <2>4. stage[x] \in Held
    BY <2>1, <2>2, <2>3 DEF Stages, Held
  <2>5. owner[efd[x]] = x
    BY <2>4 DEF Custody
  <2> QED
    BY <1>1, <1>2, <2>5
<1> QED
  BY <1>1, <1>2 DEF Waiting
-----------------------------------------------------------------------------
(* Every action preserves the invariant.                                   *)

\* start() finds every event untouched.
LEMMA StartStep ==
  ASSUME FanotifyInv, Start
  PROVE  FanotifyInv'
<1>1. TypeOK'
  BY DEF Start, FanotifyInv, TypeOK, kernel, policy, analysis
<1>2. PhaseSound'
  BY DEF Start, FanotifyInv, PhaseSound
<1>3. Custody'
  BY DEF Start, FanotifyInv, Custody
<1>4. AnswerSound'
  BY DEF Start, FanotifyInv, AnswerSound, kernel, PhaseSound
<1>5. QueueSound'
  BY DEF Start, FanotifyInv, QueueSound, Open, kernel
<1>6. ReaderSound'
  BY DEF Start, FanotifyInv, ReaderSound, PhaseSound
<1>7. DecisionSound'
  BY DEF Start, FanotifyInv, DecisionSound, Justified, UnderWay, policy
<1>8. JobSound'
  BY DEF Start, FanotifyInv, JobSound, analysis
<1>9. RecordSound'
  BY DEF Start, FanotifyInv, RecordSound, kernel
<1>10. SlotsSound'
  BY DEF Start, FanotifyInv, SlotsSound, Submitted, Handling, At, PhaseSound
<1> QED
  BY <1>1, <1>2, <1>3, <1>4, <1>5, <1>6, <1>7, <1>8, <1>9, <1>10 DEF FanotifyInv

\* stop() releases what the kernel still holds and takes nothing from the handlers.
LEMMA StopStep ==
  ASSUME FanotifyInv, Stop
  PROVE  FanotifyInv'
<1>1. TypeOK'
  BY DEF Stop, FanotifyInv, TypeOK, Stages, policy, analysis
<1>2. PhaseSound'
  BY DEF Stop, Open, FanotifyInv, PhaseSound
<1>3. Custody'
  BY DEF Stop, FanotifyInv, Custody, At, Held, TypeOK
<1>4. AnswerSound'
  BY FanotifyAssumption DEF Stop, Open, FanotifyInv, AnswerSound, At
<1>5. QueueSound'
  BY DEF Stop, FanotifyInv, QueueSound
<1>6. ReaderSound'
  BY DEF Stop, FanotifyInv, ReaderSound, TypeOK
<1>7. DecisionSound'
  BY FanotifyAssumption DEF Stop, FanotifyInv, DecisionSound, Justified, UnderWay, At, Settled,
       policy
<1>8. JobSound'
  BY DEF Stop, FanotifyInv, JobSound, At, analysis
<1>9. RecordSound'
  BY FanotifyAssumption DEF Stop, FanotifyInv, RecordSound, TypeOK
<1>10. SlotsSound'
  BY DEF Stop, FanotifyInv, SlotsSound, Submitted, Handling, At, Handled
<1> QED
  BY <1>1, <1>2, <1>3, <1>4, <1>5, <1>6, <1>7, <1>8, <1>9, <1>10 DEF FanotifyInv

\* The shutdown of the executor leaves the events alone.
LEMMA ShutdownStep ==
  ASSUME FanotifyInv, Shutdown
  PROVE  FanotifyInv'
<1>1. TypeOK'
  BY DEF Shutdown, FanotifyInv, TypeOK, kernel, policy, analysis
<1>2. PhaseSound'
  BY DEF Shutdown, FanotifyInv, PhaseSound
<1>3. Custody'
  BY DEF Shutdown, FanotifyInv, Custody
<1>4. AnswerSound'
  BY DEF Shutdown, FanotifyInv, AnswerSound, Open, kernel
<1>5. QueueSound'
  BY DEF Shutdown, FanotifyInv, QueueSound, Open, kernel
<1>6. ReaderSound'
  BY DEF Shutdown, FanotifyInv, ReaderSound
<1>7. DecisionSound'
  BY DEF Shutdown, FanotifyInv, DecisionSound, Justified, UnderWay, policy
<1>8. JobSound'
  BY DEF Shutdown, FanotifyInv, JobSound, analysis
<1>9. RecordSound'
  BY DEF Shutdown, FanotifyInv, RecordSound, kernel
<1>10. SlotsSound'
  BY DEF Shutdown, FanotifyInv, SlotsSound, Submitted, Handling, At
<1> QED
  BY <1>1, <1>2, <1>3, <1>4, <1>5, <1>6, <1>7, <1>8, <1>9, <1>10 DEF FanotifyInv

\* A new mode changes no decision already taken.
LEMMA SetModeStep ==
  ASSUME FanotifyInv, NEW m \in Modes, SetMode(m)
  PROVE  FanotifyInv'
<1>1. TypeOK'
  <2>1. changes' \in 0..MaxModeChanges
    BY FanotifyAssumption DEF SetMode, FanotifyInv, TypeOK
  <2>2. exposed' \subseteq Events
    BY DEF SetMode, FanotifyInv, TypeOK, UnderWay
  <2> QED
    BY <2>1, <2>2 DEF SetMode, FanotifyInv, TypeOK, kernel, analysis
<1>2. PhaseSound'
  BY DEF SetMode, FanotifyInv, PhaseSound
<1>3. Custody'
  BY DEF SetMode, FanotifyInv, Custody
<1>4. AnswerSound'
  BY DEF SetMode, FanotifyInv, AnswerSound, Open, kernel
<1>5. QueueSound'
  BY DEF SetMode, FanotifyInv, QueueSound, Open, kernel
<1>6. ReaderSound'
  BY DEF SetMode, FanotifyInv, ReaderSound
<1>7. DecisionSound'
  BY DEF SetMode, FanotifyInv, DecisionSound, Justified, UnderWay
<1>8. JobSound'
  BY DEF SetMode, FanotifyInv, JobSound, analysis
<1>9. RecordSound'
  BY DEF SetMode, FanotifyInv, RecordSound, kernel
<1>10. SlotsSound'
  BY DEF SetMode, FanotifyInv, SlotsSound, Submitted, Handling, At
<1> QED
  BY <1>1, <1>2, <1>3, <1>4, <1>5, <1>6, <1>7, <1>8, <1>9, <1>10 DEF FanotifyInv

\* An execution either waits in the kernel or passes a full queue.
LEMMA ExecStep ==
  ASSUME FanotifyInv, NEW e \in Events, Exec(e)
  PROVE  FanotifyInv'
<1>1. PICK f \in Files : file' = [file EXCEPT ![e] = f]
  BY DEF Exec
<1>2. /\ stage[e] = "none" /\ phase = "up"
      /\ UNCHANGED <<phase, mode, changes, exposed, reader, batch, efd, owner, slots, decision, outcome,
                     job, scan, emitted, saturated>>
  BY DEF Exec, At, Open, policy, analysis
<1>3. /\ stage' = [stage EXCEPT ![e] = stage'[e]] /\ stage'[e] \in {"kernel", "done"}
      /\ stage' \in [Events -> Stages]
  BY DEF Exec, Goto, FanotifyInv, TypeOK, Stages
<1>4. /\ \A x \in Events : x # e => stage'[x] = stage[x] /\ answer'[x] = answer[x] /\ file'[x] = file[x]
      /\ stage'[e] = "kernel" => answer'[e] = None
      /\ stage'[e] = "done" => answer'[e] = "released"
      /\ answer' \in [Events -> {"ALLOW", "DENY", "released", None}]
  <2>1. answer[e] = None
    BY <1>2 DEF FanotifyInv, AnswerSound
  <2> QED
    BY <1>1, <2>1 DEF Exec, Goto, FanotifyInv, TypeOK
<1>5. /\ kq' \in Seq(Events \cup {Overflow})
      /\ \/ kq' = kq
         \/ kq' = Append(kq, e) /\ stage'[e] = "kernel"
         \/ kq' = Append(kq, Overflow)
  <2>1. \/ kq' = kq
        \/ kq' = Append(kq, e) /\ stage' = [stage EXCEPT ![e] = "kernel"]
        \/ kq' = Append(kq, Overflow)
    BY DEF Exec, Goto
  <2>2. kq \in Seq(Events \cup {Overflow}) /\ stage \in [Events -> Stages]
    BY DEF FanotifyInv, TypeOK
  <2> QED
    BY ONLY <2>1, <2>2, e \in Events
<1>6. TypeOK'
  <2>1. file' \in [Events -> Files \cup {None}]
    BY <1>1 DEF FanotifyInv, TypeOK
  <2> QED
    BY <1>2, <1>3, <1>4, <1>5, <2>1 DEF FanotifyInv, TypeOK
<1>7. PhaseSound'
  BY <1>2 DEF FanotifyInv, PhaseSound
<1>8. Custody'
  <2>1. efd[e] = None /\ \A n \in Fds : owner[n] # e
    BY <1>2, FanotifyAssumption DEF FanotifyInv, TypeOK, Custody, Held
  <2> QED
    BY <1>2, <1>3, <1>4, <2>1 DEF FanotifyInv, TypeOK, Custody, Held
<1>9. AnswerSound'
  BY <1>2, <1>3, <1>4, FanotifyAssumption DEF FanotifyInv, AnswerSound, Open, Unwritten
<1>10. QueueSound'
  <2>1. \A i \in 1..Len(kq) : kq[i] # Overflow => kq[i] \in Events /\ kq[i] # e /\ stage'[kq[i]] = "kernel"
    BY <1>2, <1>4 DEF FanotifyInv, TypeOK, QueueSound
  <2>2. kq \in Seq(Events \cup {Overflow}) /\ Len(kq) \in Nat
    BY DEF FanotifyInv, TypeOK
  <2>3. \A i, j \in 1..Len(kq) : kq[i] = kq[j] /\ i # j => kq[i] = Overflow
    BY DEF FanotifyInv, QueueSound
  <2>4. CASE kq' = kq
    BY <1>2, <2>1, <2>3, <2>4 DEF QueueSound, Open
  <2>5. CASE kq' = Append(kq, e) /\ stage'[e] = "kernel"
    <3>1. /\ Len(kq') = Len(kq) + 1 /\ kq'[Len(kq) + 1] = e
          /\ \A i \in 1..Len(kq) : kq'[i] = kq[i]
      BY <2>2, <2>5
    <3>2. \A i \in 1..Len(kq') : kq'[i] # Overflow => stage'[kq'[i]] = "kernel"
      BY <2>1, <2>2, <2>5, <3>1
    <3>3. \A i, j \in 1..Len(kq') : kq'[i] = kq'[j] /\ i # j => kq'[i] = Overflow
      BY <2>1, <2>2, <2>3, <3>1, FanotifyAssumption
    <3> QED
      BY <1>2, <3>2, <3>3 DEF QueueSound, Open
  <2>6. CASE kq' = Append(kq, Overflow)
    <3>1. /\ Len(kq') = Len(kq) + 1 /\ kq'[Len(kq) + 1] = Overflow
          /\ \A i \in 1..Len(kq) : kq'[i] = kq[i]
      BY <2>2, <2>6
    <3>2. \A i \in 1..Len(kq') : kq'[i] # Overflow => stage'[kq'[i]] = "kernel"
      BY <2>1, <2>2, <3>1
    <3>3. \A i, j \in 1..Len(kq') : kq'[i] = kq'[j] /\ i # j => kq'[i] = Overflow
      BY <2>2, <2>3, <3>1
    <3> QED
      BY <1>2, <3>2, <3>3 DEF QueueSound, Open
  <2> QED
    BY <1>5, <2>4, <2>5, <2>6
<1>11. ReaderSound'
  BY <1>2, <1>4 DEF FanotifyInv, TypeOK, ReaderSound, Settled
<1>12. DecisionSound'
  <2>1. decision[e] = None
    BY <1>2 DEF FanotifyInv, DecisionSound
  <2>2. UnderWay' = UnderWay
    BY <1>2, <1>3, <1>4 DEF UnderWay
  <2>3. \A x \in Events : decision'[x] = "DENY" => Justified(x)'
    BY <1>2, <1>4, <2>1, FanotifyAssumption DEF FanotifyInv, DecisionSound, Justified
  <2>4. file'[e] = f
    BY <1>1 DEF FanotifyInv, TypeOK
  <2> QED
    BY <1>2, <1>3, <1>4, <2>1, <2>2, <2>3, <2>4, FanotifyAssumption DEF FanotifyInv,
         DecisionSound, Settled
<1>13. JobSound'
  BY <1>2, <1>3, <1>4 DEF FanotifyInv, JobSound
<1>14. RecordSound'
  <2>1. ~(emitted[e] # None /\ emitted[e].ok) /\ outcome[e] # "sent"
    <3>1. answer[e] = None
      BY <1>2 DEF FanotifyInv, AnswerSound
    <3>2. emitted[e] # None => emitted[e].action \in {"ALLOW", "DENY"}
      BY DEF FanotifyInv, TypeOK
    <3> QED
      BY <3>1, <3>2, FanotifyAssumption DEF FanotifyInv, RecordSound
  <2>2. answer'[e] \notin {"ALLOW", "DENY"}
    BY <1>3, <1>4, FanotifyAssumption
  <2> QED
    BY <1>2, <1>4, <2>1, <2>2 DEF FanotifyInv, RecordSound
<1>15. SlotsSound'
  <2>1. Submitted' = Submitted
    BY <1>2, <1>3, <1>4, SubmittedSame DEF Handled
  <2> QED
    BY <1>2, <2>1, SlotsSame DEF FanotifyInv
<1> QED
  BY <1>6, <1>7, <1>8, <1>9, <1>10, <1>11, <1>12, <1>13, <1>14, <1>15 DEF FanotifyInv


\* An event that is read gets a number nothing else refers to.
LEMMA ReadEventStep ==
  ASSUME FanotifyInv, ReadEvent
  PROVE  FanotifyInv'
<1> DEFINE free == {n \in Fds : owner[n] = None}
           n == Lowest(free)
<1>1. /\ reader = "reading" /\ phase = "up" /\ kq # <<>> /\ kq' = Tail(kq)
      /\ batch' = Append(batch, Head(kq))
      /\ UNCHANGED <<phase, mode, changes, reader, file, slots, decision, outcome, job, scan, answer,
                     emitted, saturated>>
  BY DEF ReadEvent, Open, analysis
<1>2. kq \in Seq(Events \cup {Overflow}) /\ Len(kq) \in Nat /\ Len(kq) # 0
  BY <1>1 DEF FanotifyInv, TypeOK
<1>3. /\ kq' \in Seq(Events \cup {Overflow}) /\ Len(kq') = Len(kq) - 1 /\ Head(kq) = kq[1]
      /\ \A i \in 1..Len(kq') : i + 1 \in 1..Len(kq) /\ kq'[i] = kq[i + 1]
      /\ Head(kq) \in Events \cup {Overflow}
  BY <1>1, <1>2
<1>4. batch' \in Seq(Events \cup {Overflow})
  BY <1>1, <1>3 DEF FanotifyInv, TypeOK
<1>5. /\ \A i \in 1..Len(kq') : kq'[i] # Overflow => stage[kq'[i]] = "kernel" /\ kq'[i] # Head(kq)
      /\ \A i, j \in 1..Len(kq') : kq'[i] = kq'[j] /\ i # j => kq'[i] = Overflow
  <2>1. \A i, j \in 1..Len(kq) : kq[i] = kq[j] /\ i # j => kq[i] = Overflow
    BY DEF FanotifyInv, QueueSound
  <2>2. \A i \in 1..Len(kq) : kq[i] # Overflow => stage[kq[i]] = "kernel"
    BY DEF FanotifyInv, QueueSound
  <2>3. \A i \in 1..Len(kq') : i + 1 # 1 /\ i \in Int /\ 1 \in 1..Len(kq)
    BY <1>2, <1>3
  <2>4. ASSUME NEW i \in 1..Len(kq'), kq'[i] # Overflow
        PROVE  stage[kq'[i]] = "kernel" /\ kq'[i] # Head(kq)
    BY <1>3, <2>1, <2>2, <2>3, <2>4
  <2>5. ASSUME NEW i \in 1..Len(kq'), NEW j \in 1..Len(kq'), kq'[i] = kq'[j], i # j
        PROVE  kq'[i] = Overflow
    <3>1. i + 1 # j + 1
      BY <2>3, <2>5
    <3> QED
      BY <1>3, <2>1, <2>5, <3>1
  <2> QED
    BY <2>4, <2>5
<1>6. CASE Head(kq) = Overflow /\ UNCHANGED <<stage, efd, owner, exposed>>
  <2>1. TypeOK'
    BY <1>1, <1>3, <1>4, <1>6 DEF FanotifyInv, TypeOK
  <2>2. QueueSound'
    BY <1>1, <1>5, <1>6 DEF FanotifyInv, QueueSound, Open
  <2>3. PhaseSound' /\ Custody' /\ JobSound' /\ RecordSound'
    BY <1>1, <1>6 DEF FanotifyInv, PhaseSound, Custody, JobSound, RecordSound
  <2>4. AnswerSound'
    BY <1>1, <1>6 DEF FanotifyInv, AnswerSound, Open
  <2>5. ReaderSound'
    BY <1>1, <1>6 DEF FanotifyInv, ReaderSound
  <2>6. DecisionSound'
    BY <1>1, <1>6 DEF FanotifyInv, DecisionSound, Justified, UnderWay
  <2>7. Submitted' = Submitted
    BY <1>1, <1>6 DEF Submitted, Handling, At
  <2>8. SlotsSound'
    BY <1>1, <2>7, SlotsSame DEF FanotifyInv
  <2> QED
    BY <2>1, <2>2, <2>3, <2>4, <2>5, <2>6, <2>8 DEF FanotifyInv
<1>7. ASSUME NEW e \in Events, Head(kq) = e, free # {},
             Goto(e, "batch"),
             efd' = [efd EXCEPT ![e] = n], owner' = [owner EXCEPT ![n] = e],
             exposed' = IF mode = "ENFORCEMENT" THEN exposed \cup {e} ELSE exposed
      PROVE  FanotifyInv'
  <2>1. n \in Fds /\ owner[n] = None
    <3>1. free \subseteq Nat
      BY FanotifyAssumption
    <3>2. n \in free
      BY <1>7, <3>1, LowestIsFree
    <3> QED
      BY <3>2
  <2> HIDE DEF n, free
  <2>2. stage[e] = "kernel"
    BY <1>2, <1>3, <1>7, FanotifyAssumption DEF FanotifyInv, QueueSound
  <2>3. /\ stage'[e] = "batch" /\ efd'[e] = n
        /\ \A x \in Events : x # e => stage'[x] = stage[x] /\ efd'[x] = efd[x]
        /\ owner'[n] = e
        /\ \A m \in Fds : m # n => owner'[m] = owner[m]
    BY <1>7, <2>1 DEF Goto, FanotifyInv, TypeOK
  <2>4. TypeOK'
    <3>1. stage' \in [Events -> Stages]
      BY <1>7 DEF Goto, FanotifyInv, TypeOK, Stages
    <3>2. efd' \in [Events -> Fds \cup {None}] /\ owner' \in [Fds -> Events \cup {None}]
      BY <1>7, <2>1 DEF FanotifyInv, TypeOK
    <3>3. exposed' \subseteq Events
      BY <1>7 DEF FanotifyInv, TypeOK
    <3> QED
      BY <1>1, <1>3, <1>4, <3>1, <3>2, <3>3 DEF FanotifyInv, TypeOK
  <2>5. PhaseSound'
    BY <1>1 DEF FanotifyInv, PhaseSound
  <2>6. Custody'
    <3>1. \A x \in Events : stage[x] \in Held => efd[x] # n
      BY <2>1, FanotifyAssumption DEF FanotifyInv, Custody
    <3>2. \A m \in Fds : owner[m] # e
      BY <2>2, FanotifyAssumption DEF FanotifyInv, Custody, Held
    <3>3. \A x \in Events : stage'[x] \in Held => efd'[x] \in Fds /\ owner'[efd'[x]] = x
      BY <2>1, <2>3, <3>1 DEF FanotifyInv, Custody
    <3>4. \A m \in Fds : owner'[m] # None => stage'[owner'[m]] \in Held /\ efd'[owner'[m]] = m
      <4> TAKE m \in Fds
      <4>1. CASE m = n
        BY <2>3, <4>1 DEF Held
      <4>2. CASE m # n
        BY <2>3, <3>2, <4>2 DEF FanotifyInv, TypeOK, Custody
      <4> QED
        BY <4>1, <4>2
    <3>5. \A x \in Events : stage'[x] \in {"none", "kernel"} => efd'[x] = None
      BY <2>3 DEF FanotifyInv, Custody
    <3> QED
      BY <3>3, <3>4, <3>5 DEF Custody
  <2>7. AnswerSound'
    BY <1>1, <2>2, <2>3, FanotifyAssumption DEF FanotifyInv, AnswerSound, Open, Unwritten
  <2>8. QueueSound'
    BY <1>1, <1>3, <1>5, <1>7, <2>3 DEF FanotifyInv, QueueSound, Open
  <2>9. ReaderSound'
    BY <1>1, <2>2, <2>3 DEF FanotifyInv, TypeOK, ReaderSound, Settled
  <2>10. DecisionSound'
    <3>1. \A x \in Events : decision'[x] = "DENY" => Justified(x)'
      BY <1>1 DEF FanotifyInv, DecisionSound, Justified
    <3>2. mode = "ENFORCEMENT" => UnderWay' \subseteq exposed'
      BY <1>7, <2>3 DEF FanotifyInv, DecisionSound, UnderWay
    <3>3. exposed \subseteq exposed'
      BY <1>7
    <3> QED
      BY <1>1, <2>2, <2>3, <3>1, <3>2, <3>3 DEF FanotifyInv, DecisionSound, Settled
  <2>11. JobSound'
    BY <1>1, <2>2, <2>3 DEF FanotifyInv, JobSound
  <2>12. RecordSound'
    BY <1>1 DEF FanotifyInv, RecordSound
  <2>13. Submitted' = Submitted
    BY <1>1, <2>2, <2>3, SubmittedSame DEF Handled
  <2>14. SlotsSound'
    BY <1>1, <2>13, SlotsSame DEF FanotifyInv
  <2> QED
    BY <2>4, <2>5, <2>6, <2>7, <2>8, <2>9, <2>10, <2>11, <2>12, <2>14 DEF FanotifyInv
<1> QED
  BY <1>6, <1>7 DEF ReadEvent


\* The reader turns to its batch.
LEMMA ReadDoneStep ==
  ASSUME FanotifyInv, ReadDone
  PROVE  FanotifyInv'
<1>1. TypeOK'
  BY DEF ReadDone, FanotifyInv, TypeOK, kernel, policy, analysis
<1>2. PhaseSound'
  BY DEF ReadDone, FanotifyInv, PhaseSound
<1>3. Custody'
  BY DEF ReadDone, FanotifyInv, Custody
<1>4. AnswerSound'
  BY DEF ReadDone, Open, FanotifyInv, AnswerSound, kernel
<1>5. QueueSound'
  BY DEF ReadDone, Open, FanotifyInv, QueueSound, kernel
<1>6. ReaderSound'
  BY DEF ReadDone, FanotifyInv, ReaderSound
<1>7. DecisionSound'
  BY DEF ReadDone, FanotifyInv, DecisionSound, Justified, UnderWay, policy
<1>8. JobSound'
  BY DEF ReadDone, FanotifyInv, JobSound, analysis
<1>9. RecordSound'
  BY DEF ReadDone, FanotifyInv, RecordSound, kernel
<1>10. SlotsSound'
  BY DEF ReadDone, FanotifyInv, SlotsSound, Submitted, Handling, At
<1> QED
  BY <1>1, <1>2, <1>3, <1>4, <1>5, <1>6, <1>7, <1>8, <1>9, <1>10 DEF FanotifyInv

\* An overflow event changes the reader only.
LEMMA HandleOverflowStep ==
  ASSUME FanotifyInv, HandleOverflow
  PROVE  FanotifyInv'
<1>1. TypeOK'
  <2>1. reader' \in {"reading", "handling", "dead"} /\ batch' \in Seq(Events \cup {Overflow})
    BY AdvanceSound DEF HandleOverflow, Die, FanotifyInv, TypeOK, ReaderSound
  <2> QED
    BY <2>1 DEF HandleOverflow, FanotifyInv, TypeOK, kernel, policy, analysis
<1>2. PhaseSound'
  BY DEF HandleOverflow, Advance, Die, FanotifyInv, PhaseSound
<1>3. Custody'
  BY DEF HandleOverflow, Advance, Die, FanotifyInv, Custody
<1>4. AnswerSound'
  BY DEF HandleOverflow, Advance, Die, FanotifyInv, AnswerSound, Open, kernel
<1>5. QueueSound'
  BY DEF HandleOverflow, Advance, Die, FanotifyInv, QueueSound, Open, kernel
<1>6. ReaderSound'
  <2>1. reader' = "handling" => batch' # <<>>
    BY AdvanceSound DEF HandleOverflow, Die, FanotifyInv, TypeOK, ReaderSound
  <2>2. \A x \in saturated : stage[x] \notin Settled
    BY FanotifyAssumption DEF HandleOverflow, FanotifyInv, TypeOK, ReaderSound
  <2> QED
    BY <2>1, <2>2 DEF HandleOverflow, FanotifyInv, ReaderSound
<1>7. DecisionSound'
  BY DEF HandleOverflow, Advance, Die, FanotifyInv, DecisionSound, Justified, UnderWay, policy
<1>8. JobSound'
  BY DEF HandleOverflow, Advance, Die, FanotifyInv, JobSound, analysis
<1>9. RecordSound'
  BY DEF HandleOverflow, Advance, Die, FanotifyInv, RecordSound, kernel
<1>10. SlotsSound'
  BY DEF HandleOverflow, Advance, Die, FanotifyInv, SlotsSound, Submitted, Handling, At
<1> QED
  BY <1>1, <1>2, <1>3, <1>4, <1>5, <1>6, <1>7, <1>8, <1>9, <1>10 DEF FanotifyInv

\* A slot is taken for the event that is submitted, or the reader dies with it.
LEMMA DispatchStep ==
  ASSUME FanotifyInv, NEW e \in Events, Dispatch(e)
  PROVE  FanotifyInv'
<1>1. TypeOK'
  <2>1. reader' \in {"reading", "handling", "dead"} /\ batch' \in Seq(Events \cup {Overflow})
    BY AdvanceSound DEF Dispatch, Die, FanotifyInv, TypeOK, ReaderSound
  <2>2. stage' \in [Events -> Stages]
    BY DEF Dispatch, Goto, FanotifyInv, TypeOK, Stages
  <2>3. slots' \in 0..MaxPending
    BY FanotifyAssumption DEF Dispatch, FanotifyInv, TypeOK
  <2> QED
    BY <2>1, <2>2, <2>3 DEF Dispatch, FanotifyInv, TypeOK, kernel, policy, analysis
<1>2. PhaseSound'
  BY DEF Dispatch, Advance, Die, FanotifyInv, PhaseSound
<1>3. Custody'
  BY FanotifyAssumption DEF Dispatch, Advance, Die, FanotifyInv, Custody, Goto, At, Held,
       Stages, analysis, TypeOK
<1>4. AnswerSound'
  BY DEF Dispatch, Advance, Die, FanotifyInv, AnswerSound, Open, Goto, At, Unwritten, kernel,
       TypeOK
<1>5. QueueSound'
  BY DEF Dispatch, Advance, Die, FanotifyInv, QueueSound, Open, Goto, At, kernel, TypeOK
<1>6. ReaderSound'
  <2>1. reader' = "handling" => batch' # <<>>
    BY AdvanceSound DEF Dispatch, Die, FanotifyInv, TypeOK, ReaderSound
  <2>2. \A x \in saturated : stage[x] \notin Settled /\ x # e
    BY DEF Dispatch, FanotifyInv, ReaderSound, At, Settled
  <2>3. \A x \in Events : x # e => stage'[x] = stage[x]
    BY DEF Dispatch, Goto, FanotifyInv, TypeOK
  <2> QED
    BY <2>1, <2>2, <2>3 DEF Dispatch, FanotifyInv, TypeOK, ReaderSound
<1>7. DecisionSound'
  BY FanotifyAssumption DEF Dispatch, Advance, Die, FanotifyInv, DecisionSound, Justified,
       UnderWay, Goto, At, Settled, Stages, policy, TypeOK
<1>8. JobSound'
  BY DEF Dispatch, Advance, Die, FanotifyInv, JobSound, Goto, At, analysis, TypeOK
<1>9. RecordSound'
  BY DEF Dispatch, Advance, Die, FanotifyInv, RecordSound, kernel
<1>10. SlotsSound'
  <2>1. slots \in Nat /\ slots' = slots - 1 /\ MaxPending \in Nat
    BY FanotifyAssumption DEF Dispatch, FanotifyInv, TypeOK
  <2>2. slots + Cardinality(Submitted) = MaxPending
    BY DEF Dispatch, FanotifyInv, SlotsSound
  <2>3. CASE phase # "shut"
    <3>1. e \notin Submitted
      BY DEF Dispatch, At, Submitted, Handling, Handled
    <3>2. e \notin saturated
      BY DEF Dispatch, At, FanotifyInv, ReaderSound, Settled
    <3>3. \A x \in Events : x \in Submitted' <=> x \in Submitted \cup {e}
      BY <2>3, <3>2 DEF Dispatch, FanotifyInv, TypeOK, Goto, At, Submitted, Handling, Handled
    <3>4. Submitted' = Submitted \cup {e}
      BY <3>3 DEF Submitted, Handling
    <3>5. Cardinality(Submitted') = Cardinality(Submitted) + 1
      BY <3>1, <3>4, SubmittedFinite, FS_AddElement
    <3> QED
      BY <2>1, <2>2, <3>5, SubmittedFinite DEF SlotsSound
  <2>4. CASE phase = "shut"
    <3>1. Submitted' = Submitted /\ reader' = "dead"
      BY <2>4 DEF Dispatch, Die, Submitted, Handling, At
    <3> QED
      BY <2>1, <2>2, <3>1, SubmittedFinite DEF SlotsSound
  <2> QED
    BY <2>3, <2>4
<1> QED
  BY <1>1, <1>2, <1>3, <1>4, <1>5, <1>6, <1>7, <1>8, <1>9, <1>10 DEF FanotifyInv

\* An event without a slot gets its final action at once.
LEMMA SaturateStep ==
  ASSUME FanotifyInv, NEW e \in Events, Saturate(e)
  PROVE  FanotifyInv'
<1>1. TypeOK'
  BY DEF Saturate, RespondOrder, FanotifyInv, TypeOK, Goto, Stages, kernel, policy, analysis
<1>2. PhaseSound'
  BY DEF Saturate, RespondOrder, FanotifyInv, PhaseSound
<1>3. Custody'
  BY DEF Saturate, RespondOrder, FanotifyInv, Custody, Goto, At, Held
<1>4. AnswerSound'
  BY DEF Saturate, RespondOrder, FanotifyInv, AnswerSound, Open, Goto, At, Unwritten, kernel
<1>5. QueueSound'
  BY DEF Saturate, RespondOrder, FanotifyInv, QueueSound, Open, Goto, At, kernel
<1>6. ReaderSound'
  BY DEF Saturate, RespondOrder, FanotifyInv, ReaderSound, Goto, Settled, TypeOK
<1>7. DecisionSound'
  BY DEF Saturate, RespondOrder, FanotifyInv, DecisionSound, Justified, UnderWay, Goto, At,
       policy, TypeOK
<1>8. JobSound'
  BY DEF Saturate, RespondOrder, FanotifyInv, JobSound, Goto, At, analysis
<1>9. RecordSound'
  <2>1. answer[e] \notin {"ALLOW", "DENY"}
    BY DEF Saturate, At, FanotifyInv, AnswerSound, Unwritten
  <2>2. \A x \in Events : x # e => decision'[x] = decision[x]
    BY DEF Saturate, FanotifyInv, TypeOK
  <2>3. UNCHANGED <<answer, outcome, emitted>>
    BY DEF Saturate, kernel
  <2> QED
    BY <2>1, <2>2, <2>3 DEF FanotifyInv, RecordSound
<1>10. SlotsSound'
  BY DEF Saturate, RespondOrder, FanotifyInv, SlotsSound, Submitted, Handling, Goto, At, Handled
<1> QED
  BY <1>1, <1>2, <1>3, <1>4, <1>5, <1>6, <1>7, <1>8, <1>9, <1>10 DEF FanotifyInv

\* A worker takes a submitted event.
LEMMA BeginStep ==
  ASSUME FanotifyInv, NEW e \in Events, Begin(e)
  PROVE  FanotifyInv'
<1>1. TypeOK'
  BY DEF Begin, FanotifyInv, TypeOK, Goto, Stages, kernel, policy, analysis
<1>2. PhaseSound'
  BY DEF Begin, At, FanotifyInv, PhaseSound
<1>3. Custody'
  BY DEF Begin, FanotifyInv, Custody, Goto, At, Held
<1>4. AnswerSound'
  BY DEF Begin, FanotifyInv, AnswerSound, Open, Goto, At, Unwritten, kernel
<1>5. QueueSound'
  BY DEF Begin, FanotifyInv, QueueSound, Open, Goto, At, kernel
<1>6. ReaderSound'
  BY DEF Begin, FanotifyInv, ReaderSound, Goto, At, Settled
<1>7. DecisionSound'
  BY DEF Begin, FanotifyInv, DecisionSound, Justified, UnderWay, Goto, At, Settled, policy
<1>8. JobSound'
  BY DEF Begin, FanotifyInv, JobSound, Goto, At, analysis
<1>9. RecordSound'
  BY DEF Begin, FanotifyInv, RecordSound, kernel
<1>10. SlotsSound'
  <2>1. Submitted' = Submitted
    BY SubmittedSame DEF Begin, FanotifyInv, TypeOK, ReaderSound, Goto, At, Handled, Settled
  <2>2. slots' = slots /\ reader' = reader
    BY DEF Begin
  <2> QED
    BY <2>1, <2>2, SlotsSame DEF FanotifyInv
<1> QED
  BY <1>1, <1>2, <1>3, <1>4, <1>5, <1>6, <1>7, <1>8, <1>9, <1>10 DEF FanotifyInv

\* What is skipped is allowed, what is not waits for its analysis or fails.
LEMMA EvaluateStep ==
  ASSUME FanotifyInv, NEW e \in Events, Evaluate(e)
  PROVE  FanotifyInv'
<1>1. TypeOK'
  BY DEF Evaluate, RespondOrder, Request, FailureDecision, FanotifyInv, TypeOK, Goto, Stages,
       kernel, policy
<1>2. PhaseSound'
  BY DEF Evaluate, RespondOrder, Request, FailureDecision, FanotifyInv, PhaseSound, At
<1>3. Custody'
  <2>1. /\ stage[e] \in Held /\ stage'[e] \in Held /\ stage'[e] \notin {"none", "kernel"}
        /\ \A x \in Events : x # e => stage'[x] = stage[x]
    BY DEF Evaluate, RespondOrder, Request, Goto, At, FanotifyInv, TypeOK, Held
  <2>2. efd' = efd /\ owner' = owner
    BY DEF Evaluate
  <2> QED
    BY <2>1, <2>2 DEF FanotifyInv, TypeOK, Custody
<1>4. AnswerSound'
  BY DEF Evaluate, RespondOrder, Request, FailureDecision, FanotifyInv, AnswerSound, Open, Goto,
       At, Unwritten, kernel, TypeOK
<1>5. QueueSound'
  BY DEF Evaluate, RespondOrder, Request, FailureDecision, FanotifyInv, QueueSound, Open, Goto,
       At, kernel, TypeOK
<1>6. ReaderSound'
  BY DEF Evaluate, RespondOrder, Request, FailureDecision, FanotifyInv, ReaderSound, Goto, At,
       Settled, TypeOK
<1>7. DecisionSound'
  <2>1. UNCHANGED <<file, mode, exposed>>
    BY DEF Evaluate, policy
  <2>2. \A x \in Events : x # e => stage'[x] = stage[x] /\ decision'[x] = decision[x]
    BY DEF Evaluate, RespondOrder, Request, Goto, FanotifyInv, TypeOK
  <2>3. /\ stage[e] = "evaluate" /\ stage'[e] \in {"decide", "analyze", "write"}
        /\ stage'[e] = "decide" => decision'[e] \in {"ALLOW", "ALLOW_MONITOR", "DENY"}
        /\ stage'[e] = "analyze" => file[e].kind # "skipped" /\ decision'[e] = decision[e]
        /\ stage'[e] = "write" => decision'[e] = "ALLOW"
    BY DEF Evaluate, RespondOrder, Request, FailureDecision, Goto, At, FanotifyInv, TypeOK
  <2>4. decision'[e] = "DENY" => Justified(e)
    BY DEF Evaluate, Request, FailureDecision, FanotifyInv, TypeOK, DecisionSound, Justified
  <2>5. file[e] \in Files
    BY <2>3 DEF FanotifyInv, DecisionSound
  <2>6. \A x \in Events : decision'[x] = "DENY" => Justified(x)'
    BY <2>1, <2>2, <2>3, <2>4 DEF FanotifyInv, DecisionSound, Justified
  <2>7. UnderWay' = UnderWay
    BY <2>2, <2>3 DEF UnderWay
  <2> QED
    BY <2>1, <2>2, <2>3, <2>4, <2>5, <2>6, <2>7, FanotifyAssumption DEF FanotifyInv,
         DecisionSound, Settled
<1>8. JobSound'
  BY DEF Evaluate, RespondOrder, Request, FailureDecision, FanotifyInv, JobSound, Goto, At,
       TypeOK
<1>9. RecordSound'
  BY DEF Evaluate, RespondOrder, Request, FailureDecision, FanotifyInv, RecordSound, At,
       Unwritten, kernel, TypeOK, AnswerSound
<1>10. SlotsSound'
  <2>1. Submitted' = Submitted
    BY SubmittedSame DEF Evaluate, RespondOrder, Request, FanotifyInv, TypeOK, ReaderSound,
         Goto, At, Handled, Settled
  <2>2. slots' = slots /\ reader' = reader
    BY DEF Evaluate
  <2> QED
    BY <2>1, <2>2, SlotsSame DEF FanotifyInv
<1> QED
  BY <1>1, <1>2, <1>3, <1>4, <1>5, <1>6, <1>7, <1>8, <1>9, <1>10 DEF FanotifyInv

\* The result that is used is the one for the event's own file.
LEMMA CollectStep ==
  ASSUME FanotifyInv, NEW e \in Events, Collect(e)
  PROVE  FanotifyInv'
<1>1. TypeOK'
  <2>1. stage' \in [Events -> Stages]
    BY DEF Collect, Request, Goto, FanotifyInv, TypeOK, Stages
  <2>2. decision'[e] \in {"ALLOW", "ALLOW_MONITOR", "DENY"}
    BY DEF Collect, Request, Scored, FailureDecision, FanotifyInv, TypeOK
  <2>3. decision' \in [Events -> {"ALLOW", "ALLOW_MONITOR", "DENY", None}]
    BY <2>2 DEF Collect, Request, FanotifyInv, TypeOK
  <2>4. job' \in [Events -> {"queued", "running", "ended", None}] /\ scan' \in [Events -> Events \cup {None}]
    BY DEF Collect, FanotifyInv, TypeOK
  <2> QED
    BY <2>1, <2>3, <2>4 DEF Collect, FanotifyInv, TypeOK, kernel, policy
<1>2. PhaseSound'
  BY DEF Collect, Request, FailureDecision, Scored, FanotifyInv, PhaseSound, At
<1>3. Custody'
  BY DEF Collect, Request, FailureDecision, Scored, FanotifyInv, Custody, Goto, At, Held,
       policy, TypeOK
<1>4. AnswerSound'
  BY DEF Collect, Request, FailureDecision, Scored, FanotifyInv, AnswerSound, Open, Goto, At,
       Unwritten, kernel, TypeOK
<1>5. QueueSound'
  BY DEF Collect, Request, FailureDecision, Scored, FanotifyInv, QueueSound, Open, Goto, At,
       kernel, TypeOK
<1>6. ReaderSound'
  BY DEF Collect, Request, FailureDecision, Scored, FanotifyInv, ReaderSound, Goto, At, Settled,
       TypeOK
<1>7. DecisionSound'
  <2>1. UNCHANGED <<file, mode, exposed>>
    BY DEF Collect, policy
  <2>2. \A x \in Events : x # e => stage'[x] = stage[x] /\ decision'[x] = decision[x]
    BY DEF Collect, Request, Goto, FanotifyInv, TypeOK
  <2>3. stage[e] = "analyze" /\ stage'[e] = "decide" /\ scan[e] = e /\ e # None
    BY FanotifyAssumption DEF Collect, Request, Goto, At, FanotifyInv, TypeOK, JobSound
  <2>4. /\ decision'[e] \in {"ALLOW", "ALLOW_MONITOR", "DENY"}
        /\ decision'[e] = "DENY" => Justified(e)
    <3>1. file[e].kind # "skipped"
      BY <2>3 DEF FanotifyInv, DecisionSound
    <3>2. decision'[e] \in {FailureDecision(e), Scored(file[e])} /\ decision'[e] # "error"
      BY <2>3 DEF Collect, Request, FanotifyInv, TypeOK, FailureDecision
    <3>3. Scored(file[e]) \in {"ALLOW", "ALLOW_MONITOR", "DENY", "error"}
      BY DEF Scored
    <3>4. Scored(file[e]) = "DENY" => file[e].kind = "malicious"
      BY DEF Scored
    <3> QED
      BY <3>1, <3>2, <3>3, <3>4 DEF FailureDecision, Justified
  <2>5. file[e] \in Files
    BY <2>3 DEF FanotifyInv, DecisionSound
  <2>6. \A x \in Events : decision'[x] = "DENY" => Justified(x)'
    BY <2>1, <2>2, <2>3, <2>4 DEF FanotifyInv, DecisionSound, Justified
  <2>7. UnderWay' = UnderWay
    BY <2>2, <2>3 DEF UnderWay
  <2> QED
    BY <2>1, <2>2, <2>3, <2>4, <2>5, <2>6, <2>7, FanotifyAssumption DEF FanotifyInv,
         DecisionSound, Settled
<1>8. JobSound'
  BY FanotifyAssumption DEF Collect, Request, FailureDecision, Scored, FanotifyInv, JobSound,
       Goto, TypeOK
<1>9. RecordSound'
  BY DEF Collect, Request, FailureDecision, Scored, FanotifyInv, RecordSound, At, Unwritten,
       kernel, TypeOK, AnswerSound
<1>10. SlotsSound'
  <2>1. Submitted' = Submitted
    BY SubmittedSame DEF Collect, Request, FanotifyInv, TypeOK, ReaderSound, Goto, At, Handled,
         Settled
  <2>2. slots' = slots /\ reader' = reader
    BY DEF Collect
  <2> QED
    BY <2>1, <2>2, SlotsSame DEF FanotifyInv
<1> QED
  BY <1>1, <1>2, <1>3, <1>4, <1>5, <1>6, <1>7, <1>8, <1>9, <1>10 DEF FanotifyInv

\* A timeout asks for the failure decision and leaves a running analysis behind.
LEMMA TimeOutStep ==
  ASSUME FanotifyInv, NEW e \in Events, TimeOut(e)
  PROVE  FanotifyInv'
<1>1. TypeOK'
  BY DEF TimeOut, Request, FailureDecision, FanotifyInv, TypeOK, Goto, Stages, kernel, policy
<1>2. PhaseSound'
  BY DEF TimeOut, Request, FailureDecision, FanotifyInv, PhaseSound, At
<1>3. Custody'
  BY DEF TimeOut, Request, FailureDecision, FanotifyInv, Custody, Goto, At, Held
<1>4. AnswerSound'
  BY DEF TimeOut, Request, FailureDecision, FanotifyInv, AnswerSound, Open, Goto, At, Unwritten,
       kernel
<1>5. QueueSound'
  BY DEF TimeOut, Request, FailureDecision, FanotifyInv, QueueSound, Open, Goto, At, kernel
<1>6. ReaderSound'
  BY DEF TimeOut, Request, FailureDecision, FanotifyInv, ReaderSound, Goto, At, Settled
<1>7. DecisionSound'
  BY FanotifyAssumption DEF TimeOut, Request, FailureDecision, FanotifyInv, DecisionSound,
       Justified, UnderWay, Goto, At, Settled, policy, TypeOK
<1>8. JobSound'
  BY FanotifyAssumption DEF TimeOut, Request, FailureDecision, FanotifyInv, JobSound, Goto,
       TypeOK
<1>9. RecordSound'
  BY DEF TimeOut, Request, FailureDecision, FanotifyInv, RecordSound, At, Unwritten, kernel,
       AnswerSound
<1>10. SlotsSound'
  <2>1. Submitted' = Submitted
    BY SubmittedSame DEF TimeOut, Request, FanotifyInv, TypeOK, ReaderSound, Goto, At, Handled,
         Settled
  <2>2. slots' = slots /\ reader' = reader
    BY DEF TimeOut
  <2> QED
    BY <2>1, <2>2, SlotsSame DEF FanotifyInv
<1> QED
  BY <1>1, <1>2, <1>3, <1>4, <1>5, <1>6, <1>7, <1>8, <1>9, <1>10 DEF FanotifyInv

\* The final action denies only what was requested to be denied, in enforcement.
LEMMA DecideStep ==
  ASSUME FanotifyInv, NEW e \in Events, Decide(e)
  PROVE  FanotifyInv'
<1>1. TypeOK'
  BY DEF Decide, RespondOrder, FinalAction, FanotifyInv, TypeOK, Goto, Stages, kernel, policy,
       analysis
<1>2. PhaseSound'
  BY DEF Decide, RespondOrder, FinalAction, FanotifyInv, PhaseSound, At
<1>3. Custody'
  BY DEF Decide, RespondOrder, FinalAction, FanotifyInv, Custody, Goto, At, Held
<1>4. AnswerSound'
  BY DEF Decide, RespondOrder, FinalAction, FanotifyInv, AnswerSound, Open, Goto, At, Unwritten,
       kernel
<1>5. QueueSound'
  BY DEF Decide, RespondOrder, FinalAction, FanotifyInv, QueueSound, Open, Goto, At, kernel
<1>6. ReaderSound'
  BY DEF Decide, RespondOrder, FinalAction, FanotifyInv, ReaderSound, Goto, At, Settled
<1>7. DecisionSound'
  <2>1. UNCHANGED <<file, mode, exposed>>
    BY DEF Decide, policy
  <2>2. \A x \in Events : x # e => stage'[x] = stage[x] /\ decision'[x] = decision[x]
    BY DEF Decide, RespondOrder, Goto, FanotifyInv, TypeOK
  <2>3. stage[e] = "decide" /\ stage'[e] = "write"
    BY DEF Decide, RespondOrder, Goto, At, FanotifyInv, TypeOK
  <2>4. /\ decision'[e] \in {"ALLOW", "DENY"}
        /\ decision'[e] = "DENY" => decision[e] = "DENY" /\ mode = "ENFORCEMENT"
    BY DEF Decide, FinalAction, FanotifyInv, TypeOK, Modes
  <2>5. mode = "ENFORCEMENT" => e \in exposed
    BY <2>3 DEF FanotifyInv, DecisionSound, UnderWay
  <2>6. \A x \in Events : decision'[x] = "DENY" => Justified(x)'
    BY <2>1, <2>2, <2>3, <2>4 DEF FanotifyInv, DecisionSound, Justified
  <2>7. UnderWay' = UnderWay
    BY <2>2, <2>3 DEF UnderWay
  <2> QED
    BY <2>1, <2>2, <2>3, <2>4, <2>5, <2>6, <2>7, FanotifyAssumption DEF FanotifyInv,
         DecisionSound, Settled
<1>8. JobSound'
  BY DEF Decide, RespondOrder, FinalAction, FanotifyInv, JobSound, Goto, At, analysis
<1>9. RecordSound'
  BY DEF Decide, RespondOrder, FinalAction, FanotifyInv, RecordSound, At, Unwritten, kernel,
       AnswerSound
<1>10. SlotsSound'
  <2>1. Submitted' = Submitted
    BY SubmittedSame DEF Decide, RespondOrder, FanotifyInv, TypeOK, ReaderSound, Goto, At,
         Handled, Settled
  <2>2. slots' = slots /\ reader' = reader
    BY DEF Decide
  <2> QED
    BY <2>1, <2>2, SlotsSame DEF FanotifyInv
<1> QED
  BY <1>1, <1>2, <1>3, <1>4, <1>5, <1>6, <1>7, <1>8, <1>9, <1>10 DEF FanotifyInv

\* The answer reaches the event's own process.
LEMMA RespondWriteStep ==
  ASSUME FanotifyInv, NEW e \in Events, RespondWrite(e)
  PROVE  FanotifyInv'
<1>1. stage[e] = "write" /\ stage' = [stage EXCEPT ![e] = "close"]
  BY DEF RespondWrite, At, Goto, AfterResponding, RespondOrder
<1>2. decision[e] \in {"ALLOW", "DENY"}
  BY <1>1 DEF FanotifyInv, DecisionSound, Settled
<1>3. \/ Open /\ answer' = [answer EXCEPT ![e] = decision[e]] /\ outcome' = [outcome EXCEPT ![e] = "sent"]
      \/ /\ ~Open /\ answer' = answer
         /\ \E o \in {"unsent", "raised"} : outcome' = [outcome EXCEPT ![e] = o]
  <2>1. Open => Waiting(efd[e]) = {e}
    BY <1>1, AloneWaiting DEF FanotifyInv, Unwritten
  <2> QED
    BY <2>1 DEF RespondWrite
<1>4. TypeOK'
  <2>1. stage' \in [Events -> Stages]
    BY <1>1 DEF FanotifyInv, TypeOK, Stages
  <2>2. answer' \in [Events -> {"ALLOW", "DENY", "released", None}]
    BY <1>2, <1>3 DEF FanotifyInv, TypeOK
  <2>3. outcome' \in [Events -> {"sent", "unsent", "raised", None}]
    BY <1>3 DEF FanotifyInv, TypeOK
  <2> QED
    BY <2>1, <2>2, <2>3 DEF RespondWrite, FanotifyInv, TypeOK, policy, analysis
<1>5. PhaseSound'
  BY DEF RespondWrite, RespondOrder, AfterResponding, Waiting, FanotifyInv, PhaseSound, At
<1>6. Custody'
  BY DEF RespondWrite, RespondOrder, AfterResponding, Waiting, FanotifyInv, Custody, Goto, At,
       Held
<1>7. AnswerSound'
  <2>1. CASE Open
    <3>1. Open' /\ answer' = [answer EXCEPT ![e] = decision[e]]
      BY <1>3, <2>1 DEF RespondWrite, Open
    <3> QED
      BY <1>1, <1>2, <2>1, <3>1, FanotifyAssumption DEF FanotifyInv, TypeOK, AnswerSound,
           Unwritten
  <2>2. CASE ~Open
    <3>1. ~Open' /\ answer' = answer
      BY <1>3, <2>2 DEF RespondWrite, Open
    <3> QED
      BY <1>1, <2>2, <3>1 DEF FanotifyInv, TypeOK, AnswerSound, Unwritten
  <2> QED
    BY <2>1, <2>2
<1>8. QueueSound'
  BY DEF RespondWrite, RespondOrder, AfterResponding, Waiting, Open, FanotifyInv, QueueSound,
       Goto, At
<1>9. ReaderSound'
  BY DEF RespondWrite, RespondOrder, AfterResponding, Waiting, FanotifyInv, ReaderSound, Goto,
       At, Settled
<1>10. DecisionSound'
  BY DEF RespondWrite, RespondOrder, AfterResponding, Waiting, FanotifyInv, DecisionSound,
       Justified, UnderWay, Goto, At, Settled, policy
<1>11. JobSound'
  BY DEF RespondWrite, RespondOrder, AfterResponding, Waiting, FanotifyInv, JobSound, Goto, At,
       analysis
<1>12. RecordSound'
  <2>1. UNCHANGED <<decision, emitted>>
    BY DEF RespondWrite
  <2>2. answer[e] \notin {"ALLOW", "DENY"}
    BY <1>1 DEF FanotifyInv, AnswerSound, Unwritten
  <2>3. ~(emitted[e] # None /\ emitted[e].ok)
    <3> SUFFICES ASSUME emitted[e] # None, emitted[e].ok PROVE FALSE
      OBVIOUS
    <3>1. emitted[e].action \in {"ALLOW", "DENY"}
      BY DEF FanotifyInv, TypeOK
    <3> QED
      BY <2>2, <3>1 DEF FanotifyInv, RecordSound
  <2>4. CASE Open
    BY <1>2, <1>3, <2>1, <2>3, <2>4 DEF FanotifyInv, TypeOK, RecordSound
  <2>5. CASE ~Open
    <3>1. answer' = answer /\ \A x \in Events : outcome'[x] = "sent" => outcome[x] = "sent"
      BY <1>3, <2>5 DEF FanotifyInv, TypeOK
    <3> QED
      BY <2>1, <3>1 DEF FanotifyInv, RecordSound
  <2> QED
    BY <2>4, <2>5
<1>13. SlotsSound'
  <2>1. Submitted' = Submitted
    BY SubmittedSame DEF RespondWrite, RespondOrder, AfterResponding, FanotifyInv, TypeOK,
         ReaderSound, Goto, At, Handled, Settled
  <2>2. slots' = slots /\ reader' = reader
    BY DEF RespondWrite
  <2> QED
    BY <2>1, <2>2, SlotsSame DEF FanotifyInv
<1> QED
  BY <1>4, <1>5, <1>6, <1>7, <1>8, <1>9, <1>10, <1>11, <1>12, <1>13 DEF FanotifyInv

\* The event's own number is closed.
LEMMA RespondCloseStep ==
  ASSUME FanotifyInv, NEW e \in Events, RespondClose(e)
  PROVE  FanotifyInv'
<1>1. TypeOK'
  BY DEF RespondClose, RespondOrder, AfterResponding, FanotifyInv, TypeOK, Goto, Stages, kernel,
       policy, analysis
<1>2. PhaseSound'
  BY DEF RespondClose, RespondOrder, AfterResponding, FanotifyInv, PhaseSound, At
<1>3. Custody'
  BY DEF RespondClose, RespondOrder, AfterResponding, FanotifyInv, Custody, Goto, At, Held,
       TypeOK
<1>4. AnswerSound'
  BY DEF RespondClose, RespondOrder, AfterResponding, FanotifyInv, AnswerSound, Open, Goto, At,
       Unwritten, kernel
<1>5. QueueSound'
  BY DEF RespondClose, RespondOrder, AfterResponding, FanotifyInv, QueueSound, Open, Goto, At,
       kernel, analysis
<1>6. ReaderSound'
  BY DEF RespondClose, RespondOrder, AfterResponding, FanotifyInv, ReaderSound, Goto, At,
       Settled
<1>7. DecisionSound'
  BY DEF RespondClose, RespondOrder, AfterResponding, FanotifyInv, DecisionSound, Justified,
       UnderWay, Goto, At, Settled, policy
<1>8. JobSound'
  BY DEF RespondClose, RespondOrder, AfterResponding, FanotifyInv, JobSound, Goto, At, analysis
<1>9. RecordSound'
  BY DEF RespondClose, RespondOrder, AfterResponding, FanotifyInv, RecordSound, kernel
<1>10. SlotsSound'
  <2>1. Submitted' = Submitted
    BY SubmittedSame DEF RespondClose, RespondOrder, AfterResponding, FanotifyInv, TypeOK,
         ReaderSound, Goto, At, Handled, Settled
  <2>2. slots' = slots /\ reader' = reader
    BY DEF RespondClose
  <2> QED
    BY <2>1, <2>2, SlotsSame DEF FanotifyInv
<1> QED
  BY <1>1, <1>2, <1>3, <1>4, <1>5, <1>6, <1>7, <1>8, <1>9, <1>10 DEF FanotifyInv

\* The record tells what was written; the slot comes back.
LEMMA EmitStep ==
  ASSUME FanotifyInv, NEW e \in Events, Emit(e)
  PROVE  FanotifyInv'
<1>1. SlotsSound'
  <2>1. stage[e] = "emit" /\ stage' = [stage EXCEPT ![e] = "done"] /\ saturated' = saturated
    BY DEF Emit, At, Goto
  <2>2. CASE e \in saturated
    <3>1. Submitted' = Submitted
      BY <2>1, <2>2, SubmittedSame DEF FanotifyInv, TypeOK
    <3>2. slots' = slots /\ reader = "handling"
      BY <2>1, <2>2 DEF Emit, FanotifyInv, ReaderSound, Settled
    <3> QED
      BY <3>1, <3>2, SlotsSame DEF FanotifyInv
  <2>3. CASE e \notin saturated
    <3>1. slots' = slots + 1 /\ reader' = reader
      BY <2>3 DEF Emit, SlotsAfter
    <3>2. e \in Submitted
      BY <2>1, <2>3 DEF Submitted, Handling, Handled
    <3>3. \A x \in Events : x \in Submitted' <=> x \in Submitted \ {e}
      BY <2>1 DEF FanotifyInv, TypeOK, At, Submitted, Handling, Handled
    <3>4. Submitted' = Submitted \ {e}
      BY <3>3 DEF Submitted, Handling
    <3>5. Cardinality(Submitted') = Cardinality(Submitted) - 1
      BY <3>2, <3>4, SubmittedFinite, FS_RemoveElement
    <3>6. slots \in Nat /\ MaxPending \in Nat
      BY FanotifyAssumption DEF FanotifyInv, TypeOK
    <3> QED
      BY <3>1, <3>5, <3>6, SubmittedFinite DEF FanotifyInv, SlotsSound
  <2> QED
    BY <2>2, <2>3
<1>2. TypeOK'
  <2>1. stage' \in [Events -> Stages] /\ outcome' \in [Events -> {"sent", "unsent", "raised", None}]
    BY DEF Emit, Goto, FanotifyInv, TypeOK, Stages
  <2>2. reader' \in {"new", "reading", "handling", "ended", "dead"} /\ batch' \in Seq(Events \cup {Overflow})
    <3>1. CASE e \in saturated
      <4>1. reader = "handling"
        BY <3>1 DEF Emit, At, FanotifyInv, ReaderSound, Settled
      <4>2. Advance \/ Die
        BY <3>1 DEF Emit
      <4> QED
        BY <4>1, <4>2, AdvanceSound DEF Die, FanotifyInv, TypeOK, ReaderSound
    <3>2. CASE e \notin saturated
      BY <3>2 DEF Emit, FanotifyInv, TypeOK
    <3> QED
      BY <3>1, <3>2
  <2>3. slots' \in 0..MaxPending
    <3>1. slots' \in Nat /\ MaxPending \in Nat
      BY FanotifyAssumption DEF Emit, SlotsAfter, FanotifyInv, TypeOK
    <3>2. Cardinality(Submitted') \in Nat
      <4>1. Submitted' \subseteq Events
        BY DEF Submitted, Handling
      <4> QED
        BY <4>1, FS_Subset, FS_CardinalityType, FanotifyAssumption
    <3> QED
      BY <1>1, <3>1, <3>2 DEF SlotsSound
  <2>4. emitted' \in [Events -> [action : {"ALLOW", "DENY"}, ok : BOOLEAN] \cup {None}]
    <3>1. decision[e] \in {"ALLOW", "DENY"}
      BY DEF Emit, At, FanotifyInv, DecisionSound, Settled
    <3>2. RecordOf(e) \in [action : {"ALLOW", "DENY"}, ok : BOOLEAN]
      BY <3>1 DEF RecordOf
    <3>3. emitted' = emitted \/ emitted' = [emitted EXCEPT ![e] = RecordOf(e)]
      BY DEF Emit
    <3>4. emitted \in [Events -> [action : {"ALLOW", "DENY"}, ok : BOOLEAN] \cup {None}]
      BY DEF FanotifyInv, TypeOK
    <3> HIDE DEF RecordOf
    <3> QED
      BY ONLY <3>2, <3>3, <3>4
  <2> QED
    BY <2>1, <2>2, <2>3, <2>4 DEF Emit, FanotifyInv, TypeOK, kernel, policy, analysis
<1>3. PhaseSound'
  BY DEF Emit, SlotsAfter, RecordOf, Advance, Die, FanotifyInv, PhaseSound, At
<1>4. Custody'
  BY DEF Emit, SlotsAfter, RecordOf, Advance, Die, FanotifyInv, Custody, Goto, At, Held
<1>5. AnswerSound'
  BY DEF Emit, SlotsAfter, RecordOf, Advance, Die, FanotifyInv, AnswerSound, Open, Goto, At,
       Unwritten, kernel
<1>6. QueueSound'
  BY DEF Emit, SlotsAfter, RecordOf, Advance, Die, FanotifyInv, QueueSound, Open, Goto, At,
       kernel
<1>7. ReaderSound'
  <2>1. stage[e] = "emit" /\ stage' = [stage EXCEPT ![e] = "done"] /\ saturated' = saturated
    BY DEF Emit, At, Goto
  <2>2. CASE e \notin saturated
    <3>1. reader' = reader /\ batch' = batch
      BY <2>2 DEF Emit
    <3> QED
      BY <2>1, <2>2, <3>1 DEF FanotifyInv, TypeOK, ReaderSound
  <2>3. CASE e \in saturated
    <3>1. reader = "handling" /\ Head(batch) = e
      BY <2>1, <2>3 DEF FanotifyInv, ReaderSound, Settled
    <3>2. \A x \in saturated : stage'[x] = "done"
      BY <2>1, <3>1 DEF FanotifyInv, TypeOK, ReaderSound
    <3>3. Advance \/ Die
      BY <2>3 DEF Emit
    <3>4. reader' = "handling" => batch' # <<>>
      BY <3>1, <3>3, AdvanceSound DEF Die, FanotifyInv, TypeOK, ReaderSound
    <3> QED
      BY <2>1, <3>2, <3>4 DEF ReaderSound, Settled
  <2> QED
    BY <2>2, <2>3
<1>8. DecisionSound'
  BY DEF Emit, SlotsAfter, RecordOf, Advance, Die, FanotifyInv, DecisionSound, Justified,
       UnderWay, Goto, At, Settled, policy
<1>9. JobSound'
  BY DEF Emit, SlotsAfter, RecordOf, Advance, Die, FanotifyInv, JobSound, Goto, At, analysis
<1>10. RecordSound'
  BY FanotifyAssumption DEF Emit, SlotsAfter, RecordOf, Advance, Die, FanotifyInv, RecordSound,
       kernel
<1> QED
  BY <1>1, <1>2, <1>3, <1>4, <1>5, <1>6, <1>7, <1>8, <1>9, <1>10 DEF FanotifyInv

\* An analysis starts.
LEMMA StartJobStep ==
  ASSUME FanotifyInv, NEW e \in Events, StartJob(e)
  PROVE  FanotifyInv'
<1>1. TypeOK'
  BY DEF StartJob, FanotifyInv, TypeOK, kernel, policy
<1>2. PhaseSound'
  BY DEF StartJob, FanotifyInv, PhaseSound
<1>3. Custody'
  BY DEF StartJob, FanotifyInv, Custody
<1>4. AnswerSound'
  BY DEF StartJob, FanotifyInv, AnswerSound, Open, kernel
<1>5. QueueSound'
  BY DEF StartJob, FanotifyInv, QueueSound, Open, kernel
<1>6. ReaderSound'
  BY DEF StartJob, FanotifyInv, ReaderSound
<1>7. DecisionSound'
  BY DEF StartJob, FanotifyInv, DecisionSound, Justified, UnderWay, policy
<1>8. JobSound'
  BY DEF StartJob, FanotifyInv, JobSound
<1>9. RecordSound'
  BY DEF StartJob, FanotifyInv, RecordSound, kernel
<1>10. SlotsSound'
  BY DEF StartJob, FanotifyInv, SlotsSound, Submitted, Handling, At
<1> QED
  BY <1>1, <1>2, <1>3, <1>4, <1>5, <1>6, <1>7, <1>8, <1>9, <1>10 DEF FanotifyInv

\* An awaited analysis has read its own event's file.
LEMMA EndJobStep ==
  ASSUME FanotifyInv, NEW e \in Events, EndJob(e)
  PROVE  FanotifyInv'
<1>1. TypeOK'
  <2>1. job' \in [Events -> {"queued", "running", "ended", None}]
    BY DEF EndJob, FanotifyInv, TypeOK
  <2>2. scan' \in [Events -> Events \cup {None}]
    <3>1. CASE stage[e] = "analyze"
      <4>1. owner[efd[e]] = e /\ scan' = [scan EXCEPT ![e] = owner[efd[e]]]
        BY <3>1 DEF EndJob, At, FanotifyInv, Custody, Held
      <4> QED
        BY <4>1 DEF FanotifyInv, TypeOK
    <3>2. CASE stage[e] # "analyze"
      BY <3>2 DEF EndJob, At, FanotifyInv, TypeOK
    <3> QED
      BY <3>1, <3>2
  <2> QED
    BY <2>1, <2>2 DEF EndJob, OwnerAfterScan, FanotifyInv, TypeOK, kernel, policy
<1>2. PhaseSound'
  BY DEF EndJob, OwnerAfterScan, FanotifyInv, PhaseSound
<1>3. Custody'
  BY DEF EndJob, OwnerAfterScan, FanotifyInv, Custody
<1>4. AnswerSound'
  BY DEF EndJob, OwnerAfterScan, FanotifyInv, AnswerSound, Open, kernel
<1>5. QueueSound'
  BY DEF EndJob, OwnerAfterScan, FanotifyInv, QueueSound, Open, At, kernel
<1>6. ReaderSound'
  BY DEF EndJob, OwnerAfterScan, FanotifyInv, ReaderSound
<1>7. DecisionSound'
  BY DEF EndJob, OwnerAfterScan, FanotifyInv, DecisionSound, Justified, UnderWay, policy
<1>8. JobSound'
  BY FanotifyAssumption DEF EndJob, OwnerAfterScan, FanotifyInv, JobSound, At, Held, TypeOK,
       Custody
<1>9. RecordSound'
  BY DEF EndJob, OwnerAfterScan, FanotifyInv, RecordSound, kernel
<1>10. SlotsSound'
  BY DEF EndJob, OwnerAfterScan, FanotifyInv, SlotsSound, Submitted, Handling, At
<1> QED
  BY <1>1, <1>2, <1>3, <1>4, <1>5, <1>6, <1>7, <1>8, <1>9, <1>10 DEF FanotifyInv

\* The invariant holds when the controller is made.
LEMMA InitSound == Init => FanotifyInv
<1> SUFFICES ASSUME Init PROVE FanotifyInv
  OBVIOUS
<1>1. TypeOK
  BY FanotifyAssumption DEF Init, TypeOK, Stages
<1>2. PhaseSound /\ Custody /\ JobSound
  BY FanotifyAssumption DEF Init, PhaseSound, Custody, JobSound, Held
<1>3. AnswerSound /\ RecordSound
  BY FanotifyAssumption DEF Init, AnswerSound, RecordSound, Unwritten
<1>4. QueueSound /\ ReaderSound
  BY DEF Init, QueueSound, ReaderSound
<1>5. DecisionSound
  BY FanotifyAssumption DEF Init, DecisionSound, UnderWay, Settled
<1>6. SlotsSound
  <2>1. Submitted = {}
    BY DEF Init, Submitted, Handling, Handled, At
  <2>2. Cardinality({}) = 0
    BY FS_EmptySet
  <2> QED
    BY <2>1, <2>2, FanotifyAssumption DEF Init, SlotsSound
<1> QED
  BY <1>1, <1>2, <1>3, <1>4, <1>5, <1>6 DEF FanotifyInv

\* Every step keeps it, and so does stuttering.
LEMMA NextSound == FanotifyInv /\ [Next]_vars => FanotifyInv'
<1> SUFFICES ASSUME FanotifyInv, [Next]_vars PROVE FanotifyInv'
  OBVIOUS
<1>1. CASE UNCHANGED vars
  <2>1. Submitted' = Submitted
    BY <1>1 DEF vars, Submitted, Handling, At
  <2>2. SlotsSound'
    BY <1>1, <2>1, SlotsSame DEF vars, FanotifyInv
  <2>3. TypeOK' /\ PhaseSound' /\ Custody' /\ JobSound' /\ RecordSound'
    BY <1>1 DEF vars, FanotifyInv, TypeOK, PhaseSound, Custody, JobSound, RecordSound
  <2>4. AnswerSound' /\ QueueSound' /\ ReaderSound'
    BY <1>1 DEF vars, FanotifyInv, AnswerSound, QueueSound, ReaderSound, Open
  <2>5. DecisionSound'
    BY <1>1 DEF vars, FanotifyInv, DecisionSound, Justified, UnderWay
  <2> QED
    BY <2>2, <2>3, <2>4, <2>5 DEF FanotifyInv
<1>2. CASE Start \/ Stop \/ Shutdown \/ \E m \in Modes : SetMode(m)
  BY <1>2, StartStep, StopStep, ShutdownStep, SetModeStep
<1>3. CASE Read
  BY <1>3, ReadEventStep, ReadDoneStep, HandleOverflowStep, DispatchStep, SaturateStep DEF Read
<1>4. CASE \E e \in Events : Exec(e) \/ StartJob(e) \/ EndJob(e)
  BY <1>4, ExecStep, StartJobStep, EndJobStep
<1>5. CASE \E e \in Events : Handle(e)
  BY <1>5, BeginStep, EvaluateStep, CollectStep, TimeOutStep, DecideStep, RespondWriteStep,
     RespondCloseStep, EmitStep DEF Handle
<1> QED
  BY <1>1, <1>2, <1>3, <1>4, <1>5 DEF Next

\* The invariant of the controller: custody of descriptors, answers, decisions,
\* records and slots as stated above hold in every state.
THEOREM FanotifyInvariant == Spec => []FanotifyInv
BY InitSound, NextSound, PTL DEF Spec
-----------------------------------------------------------------------------
(* What follows from it.                                                   *)

\* Type correctness of the controller's state.
THEOREM FanotifyTypeCorrect == Spec => []TypeOK
<1>1. FanotifyInv => TypeOK
  BY DEF FanotifyInv
<1> QED
  BY <1>1, FanotifyInvariant, PTL

\* respond() answers by a reused descriptor number, and still each process gets the
\* final action decided for its own event.
THEOREM AnswersCorrect == Spec => []AnswersMatch
<1>1. FanotifyInv => AnswersMatch
  <2> SUFFICES ASSUME FanotifyInv, NEW e \in Events, answer[e] \in {"ALLOW", "DENY"}
               PROVE  stage[e] \in {"close", "emit", "done"} /\ decision[e] = answer[e]
    BY DEF AnswersMatch
  <2>1. stage[e] \notin Unwritten /\ stage[e] # "none" /\ stage[e] \in Stages
    BY FanotifyAssumption DEF FanotifyInv, AnswerSound, TypeOK
  <2>2. decision[e] = answer[e]
    BY DEF FanotifyInv, RecordSound
  <2>3. stage[e] # "kernel"
    BY <2>2, FanotifyAssumption DEF FanotifyInv, DecisionSound
  <2> QED
    BY <2>1, <2>2, <2>3 DEF Stages, Unwritten
<1> QED
  BY <1>1, FanotifyInvariant, PTL

\* From the read of an event until its own close the number refers to its file and
\* to no other event's: no handler and no late analysis closes what is not its own.
THEOREM DescriptorsCorrect == Spec => []DescriptorsHeld
<1>1. FanotifyInv => DescriptorsHeld
  BY FanotifyAssumption DEF FanotifyInv, Custody, DescriptorsHeld, Held
<1> QED
  BY <1>1, FanotifyInvariant, PTL

\* A process is denied only in an enforcement period of its own event, and only for
\* a file found malicious or a path that fails closed.
THEOREM DenialsCorrect == Spec => []DenyJustified
<1>1. FanotifyInv => DenyJustified
  <2> SUFFICES ASSUME FanotifyInv, NEW e \in Events, answer[e] = "DENY"
               PROVE  e \in exposed /\ Justified(e)
    BY DEF DenyJustified, Justified
  <2>1. decision[e] = "DENY"
    BY DEF FanotifyInv, RecordSound
  <2>2. stage[e] \in Settled \cup {"done"}
    <3>1. stage[e] \notin Unwritten /\ stage[e] \notin {"none", "kernel"} /\ stage[e] \in Stages
      BY <2>1, FanotifyAssumption DEF FanotifyInv, AnswerSound, DecisionSound, TypeOK
    <3> QED
      BY <3>1 DEF Settled, Unwritten, Stages
  <2> QED
    BY <2>1, <2>2 DEF FanotifyInv, DecisionSound
<1> QED
  BY <1>1, FanotifyInvariant, PTL

\* A record that says the response was written names the answer the kernel gave.
THEOREM RecordsCorrect == Spec => []RecordsTruthful
<1>1. FanotifyInv => RecordsTruthful
  BY DEF FanotifyInv, RecordSound, RecordsTruthful
<1> QED
  BY <1>1, FanotifyInvariant, PTL

\* The reader lets a file run without analysis only when as many events are pending
\* as max_pending_events allows: no path through a handler loses a slot.
THEOREM SaturationCorrect == Spec => SaturationReal
<1>1. FanotifyInv /\ [Next]_vars => [saturated' # saturated => Cardinality(Submitted) = MaxPending]_vars
  <2> SUFFICES ASSUME FanotifyInv, Next, saturated' # saturated
               PROVE  Cardinality(Submitted) = MaxPending
    BY DEF vars
  <2>1. PICK e \in Events : Saturate(e)
    BY DEF Next, Start, Stop, Shutdown, SetMode, Read, ReadEvent, ReadDone, HandleOverflow,
         Dispatch,
       Exec, StartJob, EndJob, Handle, Begin, Evaluate, Collect, TimeOut, Decide, RespondWrite,
       RespondClose, Emit
  <2>2. slots = 0 /\ reader = "handling"
    BY <2>1 DEF Saturate
  <2> QED
    BY <2>2, SubmittedFinite, FanotifyAssumption DEF FanotifyInv, SlotsSound
<1> QED
  BY <1>1, FanotifyInvariant, PTL DEF Spec, SaturationReal
=============================================================================
