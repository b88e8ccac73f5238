------------------------------ MODULE Fanotify ------------------------------
(***************************************************************************)
(* The pre-execution controller (src/elyra/monitor/fanotify/controller.py, *)
(* policy.py, syscalls.py and src/elyra/analyzer/pre_execution.py).        *)
(*                                                                         *)
(* A process that executes a file under a mark blocks in the kernel until  *)
(* the controller writes an answer for the event's descriptor number.  One *)
(* thread reads the events, a pool of workers handles them, a second pool  *)
(* analyses the files.  Descriptor numbers are reused: the lowest free     *)
(* number is given to the next event read.  Time is left out: whatever may *)
(* time out may do so at any moment.                                       *)
(*                                                                         *)
(* A definition just before another of nearly the same name is a plausible *)
(* defect, used only to test that the properties notice it.                *)
(***************************************************************************)
EXTENDS Integers, Sequences, FiniteSets

CONSTANTS
  Events,           \* executions, one permission event each
  Files,            \* the files executed, a set of File
  Fds,              \* descriptor numbers
  QueueLimit,       \* the kernel's queue of the fanotify group
  MaxPending,       \* max_pending_events
  Workers,          \* event_workers
  AnalysisWorkers,  \* max_w
  MaxModeChanges,   \* bound on the calls of set_mode
  Overflow,         \* the FAN_Q_OVERFLOW event
  None

Kinds == {"skipped", "benign", "malicious", "partial", "unreadable"}

\* skipped: an ELYRA process, an excluded or unmonitored path, not a regular file,
\* or a file over max_preexec_file_bytes, all allowed without analysis; closed: the path's fail policy is FAIL_CLOSED.
File == [kind : Kinds, closed : BOOLEAN]

Modes == {"MONITOR_ONLY", "ENFORCEMENT"}

ASSUME FanotifyAssumption ==
  /\ Files \subseteq File
  /\ IsFiniteSet(Events) /\ IsFiniteSet(Fds) /\ Fds \subseteq Nat
  /\ {QueueLimit, MaxPending, Workers, AnalysisWorkers} \subseteq Nat \ {0}
  /\ MaxModeChanges \in Nat
  /\ None \notin Events \cup Fds /\ Overflow \notin Events \cup {None}
  /\ None \notin {"ALLOW", "DENY", "ALLOW_MONITOR", "released", "queued", "running", "ended", "sent"}

VARIABLES
  phase,      \* of the controller: new, up, closing (the group is closed), shut
  mode,       \* policy.mode
  changes,    \* count of the calls of set_mode
  kq,         \* the kernel's queue: events and Overflow
  reader,     \* the reader thread: new, reading, handling, ended or dead
  batch,      \* what read_events returned and the reader has not finished
  stage,      \* what is being done with each event
  file,       \* the file each event is about
  efd,        \* the descriptor number the kernel gave each event
  owner,      \* what each descriptor number refers to: an event's file or None
  slots,      \* _pending_slots
  decision,   \* the requested decision, and later the final action
  outcome,    \* what respond() did for each event
  job,        \* the analysis submitted for each event
  scan,       \* the event whose file that analysis read, or None
  answer,     \* what the kernel told the process: None, ALLOW, DENY or released
  emitted,    \* the record of each event in event_queue, or None
  saturated,  \* the events answered by _respond_saturated
  exposed     \* history: events under way while the mode was ENFORCEMENT

kernel == <<kq, answer>>
policy == <<mode, changes, exposed>>
analysis == <<job, scan>>
vars == <<phase, mode, changes, kq, reader, batch, stage, file, efd, owner, slots, decision,
          outcome, job, scan, answer, emitted, saturated, exposed>>

At(e, s) == stage[e] = s
Goto(e, s) == stage' = [stage EXCEPT ![e] = s]
Open == phase = "up"

Stages == {"none", "kernel", "batch", "queued", "evaluate", "analyze", "decide", "write", "close",
           "emit", "done"}

\* Events whose descriptor is in the controller's hands.
Held == {"batch", "queued", "evaluate", "analyze", "decide", "write", "close"}

\* Events a worker is handling.
Handled == {"evaluate", "analyze", "decide", "write", "close", "emit"}

Handling == {e \in Events \ saturated : stage[e] \in Handled}
Submitted == {e \in Events : At(e, "queued")} \cup Handling
UnderWay == {e \in Events : stage[e] \notin {"none", "kernel", "done"}}
-----------------------------------------------------------------------------
(* The kernel.                                                             *)

\* A process executes a file under a mark.  A full queue lets it pass, and
\* leaves one overflow event.
Exec(e) ==
  /\ At(e, "none") /\ Open
  /\ \E f \in Files : file' = [file EXCEPT ![e] = f]
  /\ \/ Len(kq) < QueueLimit /\ kq' = Append(kq, e) /\ Goto(e, "kernel") /\ UNCHANGED answer
     \/ /\ Len(kq) >= QueueLimit
        /\ kq' = IF \E i \in 1..Len(kq) : kq[i] = Overflow THEN kq ELSE Append(kq, Overflow)
        /\ Goto(e, "done") /\ answer' = [answer EXCEPT ![e] = "released"]
  /\ UNCHANGED <<phase, policy, reader, batch, efd, owner, slots, decision, outcome, analysis,
                 emitted, saturated>>

\* The unanswered events that were read with this descriptor number.
Waiting(n) == {e \in Events : answer[e] = None /\ efd[e] = n}
-----------------------------------------------------------------------------
(* start(), stop() and set_mode().                                         *)

\* A failure to initialise or to mark anything leaves the group closed.
Start ==
  /\ phase = "new"
  /\ \/ phase' = "up" /\ reader' = "reading"
     \/ UNCHANGED <<phase, reader>>
  /\ UNCHANGED <<policy, kernel, batch, stage, file, efd, owner, slots, decision, outcome, analysis,
                 emitted, saturated>>

\* stop(): closing the group's descriptor makes the kernel let every waiting
\* process pass.
Stop ==
  /\ Open /\ phase' = "closing"
  /\ kq' = <<>>
  /\ answer' = [e \in Events |-> IF answer[e] = None /\ ~At(e, "none") THEN "released" ELSE answer[e]]
  /\ stage' = [e \in Events |-> IF At(e, "kernel") THEN "done" ELSE stage[e]]
  /\ UNCHANGED <<policy, reader, batch, file, efd, owner, slots, decision, outcome, analysis, emitted,
                 saturated>>

\* The join of the reader may time out before the executor is shut down.
Shutdown ==
  /\ phase = "closing" /\ phase' = "shut"
  /\ UNCHANGED <<policy, kernel, reader, batch, stage, file, efd, owner, slots, decision, outcome,
                 analysis, emitted, saturated>>

SetMode(m) ==
  /\ changes < MaxModeChanges /\ changes' = changes + 1
  /\ mode' = m
  /\ exposed' = IF m = "ENFORCEMENT" THEN exposed \cup UnderWay ELSE exposed
  /\ UNCHANGED <<phase, kernel, reader, batch, stage, file, efd, owner, slots, decision, outcome,
                 analysis, emitted, saturated>>
-----------------------------------------------------------------------------
(* The reader thread: _event_loop.                                         *)

Lowest(S) == CHOOSE n \in S : \A m \in S : n <= m

\* read_events: the kernel opens a descriptor for each event it returns.
ReadEvent ==
  LET free == {n \in Fds : owner[n] = None} IN
  /\ reader = "reading" /\ Open /\ kq # <<>> /\ kq' = Tail(kq)
  /\ batch' = Append(batch, Head(kq))
  /\ \/ Head(kq) = Overflow /\ UNCHANGED <<stage, efd, owner, exposed>>
     \/ \E e \in Events :
          /\ Head(kq) = e /\ free # {}
          /\ Goto(e, "batch")
          /\ efd' = [efd EXCEPT ![e] = Lowest(free)]
          /\ owner' = [owner EXCEPT ![Lowest(free)] = e]
          /\ exposed' = IF mode = "ENFORCEMENT" THEN exposed \cup {e} ELSE exposed
  /\ UNCHANGED <<phase, mode, changes, reader, file, slots, decision, outcome, analysis, answer, emitted,
                 saturated>>

ReadDone ==
  /\ reader = "reading" /\ (batch # <<>> \/ ~Open)
  /\ reader' = IF batch = <<>> THEN "ended" ELSE "handling"
  /\ UNCHANGED <<phase, policy, kernel, batch, stage, file, efd, owner, slots, decision, outcome,
                 analysis, emitted, saturated>>

\* The reader is done with the head of the batch.
Advance ==
  /\ batch' = Tail(batch)
  /\ reader' = IF Len(batch) = 1 THEN "reading" ELSE "handling"

Die == reader' = "dead" /\ UNCHANGED batch

\* _record_overflow; an AuditIntegrityError of record() is not caught.
HandleOverflow ==
  /\ reader = "handling" /\ Head(batch) = Overflow
  /\ Advance \/ Die
  /\ UNCHANGED <<phase, policy, kernel, stage, file, efd, owner, slots, decision, outcome, analysis,
                 emitted, saturated>>

\* The slot is taken and the event submitted.  After the executor's shutdown
\* submit() raises RuntimeError.
Dispatch(e) ==
  /\ reader = "handling" /\ Head(batch) = e /\ At(e, "batch") /\ slots > 0
  /\ slots' = slots - 1
  /\ \/ phase # "shut" /\ Goto(e, "queued") /\ Advance
     \/ phase = "shut" /\ Die /\ UNCHANGED stage
  /\ UNCHANGED <<phase, policy, kernel, file, efd, owner, decision, outcome, analysis, emitted, saturated>>

\* respond() closes the descriptor and then writes.
RespondOrderReversed == <<"close", "write">>

\* respond() writes, and closes the descriptor in its finally clause.
RespondOrder == <<"write", "close">>

\* No slot is free: _respond_saturated answers ALLOW from the reader thread.
Saturate(e) ==
  /\ reader = "handling" /\ Head(batch) = e /\ At(e, "batch") /\ slots = 0
  /\ saturated' = saturated \cup {e}
  /\ decision' = [decision EXCEPT ![e] = "ALLOW"]
  /\ Goto(e, RespondOrder[1])
  /\ UNCHANGED <<phase, policy, kernel, reader, batch, file, efd, owner, slots, outcome, analysis, emitted>>
-----------------------------------------------------------------------------
(* The workers: _handle_event and _evaluate_event.                         *)

Begin(e) ==
  /\ At(e, "queued") /\ Cardinality(Handling) < Workers
  /\ Goto(e, "evaluate")
  /\ UNCHANGED <<phase, policy, kernel, reader, batch, file, efd, owner, slots, decision, outcome,
                 analysis, emitted, saturated>>

\* _failure_decision.
FailureDecision(e) == IF file[e].closed /\ mode = "ENFORCEMENT" THEN "DENY" ELSE "ALLOW_MONITOR"

Request(e, d) == decision' = [decision EXCEPT ![e] = d] /\ Goto(e, "decide")

\* _evaluate_event up to the analysis.  Everything not skipped may miss its
\* deadline before that, and an exception that is caught ends in the final guard.
Evaluate(e) ==
  /\ At(e, "evaluate")
  /\ \/ file[e].kind = "skipped" /\ Request(e, "ALLOW") /\ UNCHANGED job
     \/ file[e].kind # "skipped" /\ Request(e, FailureDecision(e)) /\ UNCHANGED job
     \/ /\ file[e].kind # "skipped"
        /\ Goto(e, "analyze") /\ job' = [job EXCEPT ![e] = "queued"] /\ UNCHANGED decision
     \/ /\ decision' = [decision EXCEPT ![e] = "ALLOW"] /\ Goto(e, RespondOrder[1])
        /\ UNCHANGED job
  /\ UNCHANGED <<phase, policy, kernel, reader, batch, file, efd, owner, slots, outcome, scan, emitted,
                 saturated>>

\* The decision on a file: an incomplete scan counts as a finding.
ScoredStrict(f) == CASE f.kind \in {"malicious", "partial"} -> "DENY"
                     [] f.kind = "unreadable" -> "error"
                     [] OTHER -> "ALLOW"

\* _score_scan: an incomplete scan never denies, a failed one is an error.
Scored(f) == CASE f.kind = "malicious" -> "DENY"
               [] f.kind = "partial" -> "ALLOW_MONITOR"
               [] f.kind = "unreadable" -> "error"
               [] OTHER -> "ALLOW"

\* The analysis that was submitted has ended: its result, unless it is late.
Collect(e) ==
  /\ At(e, "analyze") /\ job[e] = "ended"
  /\ LET result == IF scan[e] = None THEN "error" ELSE Scored(file[scan[e]]) IN
     \/ Request(e, IF result = "error" THEN FailureDecision(e) ELSE result)
     \/ Request(e, FailureDecision(e))
  /\ job' = [job EXCEPT ![e] = None] /\ scan' = [scan EXCEPT ![e] = None]
  /\ UNCHANGED <<phase, policy, kernel, reader, batch, file, efd, owner, slots, outcome, emitted,
                 saturated>>

\* Without a timeout once the analysis runs.
TimeOutQueued(e) ==
  /\ At(e, "analyze") /\ job[e] = "queued"
  /\ Request(e, FailureDecision(e))
  /\ job' = [job EXCEPT ![e] = None]
  /\ UNCHANGED <<phase, policy, kernel, reader, batch, file, efd, owner, slots, outcome, scan, emitted,
                 saturated>>

\* _wait times out: an analysis that has not begun is cancelled, one that runs
\* goes on, and its result is not used.
TimeOut(e) ==
  /\ At(e, "analyze") /\ job[e] # "ended"
  /\ Request(e, FailureDecision(e))
  /\ job' = [job EXCEPT ![e] = IF @ = "queued" THEN None ELSE @]
  /\ UNCHANGED <<phase, policy, kernel, reader, batch, file, efd, owner, slots, outcome, scan, emitted,
                 saturated>>

\* get_final_action reads the mode again.
FinalAction(d) == IF mode # "MONITOR_ONLY" /\ d = "DENY" THEN "DENY" ELSE "ALLOW"

Decide(e) ==
  /\ At(e, "decide")
  /\ decision' = [decision EXCEPT ![e] = FinalAction(@)]
  /\ Goto(e, RespondOrder[1])
  /\ UNCHANGED <<phase, policy, kernel, reader, batch, file, efd, owner, slots, outcome, analysis, emitted,
                 saturated>>

AfterResponding(s) == IF s = RespondOrder[1] THEN RespondOrder[2] ELSE "emit"

\* The write of respond().  On a closed group it is not tried (self.fd < 0), or
\* it raises when the group is closed in between.
RespondWrite(e) ==
  /\ At(e, "write") /\ Goto(e, AfterResponding("write"))
  /\ \/ /\ Open
        /\ \E x \in Waiting(efd[e]) : answer' = [answer EXCEPT ![x] = decision[e]]
        /\ outcome' = [outcome EXCEPT ![e] = "sent"]
     \/ /\ ~Open \/ Waiting(efd[e]) = {}
        /\ \E o \in {"unsent", "raised"} : outcome' = [outcome EXCEPT ![e] = o]
        /\ UNCHANGED answer
  /\ UNCHANGED <<phase, policy, kq, reader, batch, file, efd, owner, slots, decision, analysis, emitted,
                 saturated>>

\* The close in respond()'s finally clause.
RespondClose(e) ==
  /\ At(e, "close") /\ Goto(e, AfterResponding("close"))
  /\ owner' = [owner EXCEPT ![efd[e]] = None]
  /\ UNCHANGED <<phase, policy, kernel, reader, batch, file, efd, slots, decision, outcome, analysis,
                 emitted, saturated>>

\* A record that takes the response for granted.
RecordOfAttempt(e) == [action |-> decision[e], ok |-> TRUE]

\* The record as _handle_event fills it in: an exception of respond() is recorded
\* as the fail-open action.
RecordOf(e) == [action |-> IF outcome[e] = "raised" THEN "ALLOW" ELSE decision[e],
                ok |-> outcome[e] = "sent"]

\* The slot is released only when the handler returned.
SlotsAfterReturned(raised) == IF raised THEN slots ELSE slots + 1

\* add_done_callback: the slot is released whether or not the handler raised.
SlotsAfter(raised) == slots + 1

\* _emit_record: an audit error that is not caught also keeps the record from the
\* event queue.  It ends the worker's task or the reader thread.
Emit(e) ==
  /\ At(e, "emit") /\ Goto(e, "done")
  /\ \E raised \in BOOLEAN :
       /\ emitted' = IF raised THEN emitted ELSE [emitted EXCEPT ![e] = RecordOf(e)]
       /\ \/ e \notin saturated /\ slots' = SlotsAfter(raised) /\ UNCHANGED <<reader, batch>>
          \/ /\ e \in saturated /\ UNCHANGED slots
             /\ \/ (raised \/ outcome[e] = "raised") /\ Die
                \/ ~raised /\ outcome[e] # "raised" /\ Advance
  /\ outcome' = [outcome EXCEPT ![e] = None]
  /\ UNCHANGED <<phase, policy, kernel, file, efd, owner, decision, analysis, saturated>>
-----------------------------------------------------------------------------
(* The analysis pool.                                                      *)

StartJob(e) ==
  /\ job[e] = "queued" /\ Cardinality({x \in Events : job[x] = "running"}) < AnalysisWorkers
  /\ job' = [job EXCEPT ![e] = "running"]
  /\ UNCHANGED <<phase, policy, kernel, reader, batch, stage, file, efd, owner, slots, decision, outcome,
                 scan, emitted, saturated>>

\* A scan that closes the descriptor it was given.
OwnerAfterScanClosed(e) == [owner EXCEPT ![efd[e]] = None]

\* scan_open_fd reads through /proc/self/fd and leaves the descriptor open.
OwnerAfterScan(e) == owner

\* The scan reads whatever the number refers to by now.  Nobody awaits the result
\* of an analysis that has timed out.
EndJob(e) ==
  /\ job[e] = "running"
  /\ \/ /\ At(e, "analyze")
        /\ job' = [job EXCEPT ![e] = "ended"]
        /\ scan' = [scan EXCEPT ![e] = owner[efd[e]]]
     \/ ~At(e, "analyze") /\ job' = [job EXCEPT ![e] = None] /\ UNCHANGED scan
  /\ owner' = OwnerAfterScan(e)
  /\ UNCHANGED <<phase, policy, kernel, reader, batch, stage, file, efd, slots, decision, outcome, emitted,
                 saturated>>
-----------------------------------------------------------------------------
Init ==
  /\ phase = "new" /\ mode \in Modes /\ changes = 0
  /\ kq = <<>> /\ reader = "new" /\ batch = <<>>
  /\ stage = [e \in Events |-> "none"]
  /\ file = [e \in Events |-> None] /\ efd = [e \in Events |-> None]
  /\ owner = [n \in Fds |-> None]
  /\ slots = MaxPending
  /\ decision = [e \in Events |-> None] /\ outcome = [e \in Events |-> None]
  /\ job = [e \in Events |-> None] /\ scan = [e \in Events |-> None]
  /\ answer = [e \in Events |-> None] /\ emitted = [e \in Events |-> None]
  /\ saturated = {} /\ exposed = {}

Read == ReadEvent \/ ReadDone \/ HandleOverflow \/ \E e \in Events : Dispatch(e) \/ Saturate(e)

Handle(e) ==
  \/ Begin(e) \/ Evaluate(e) \/ Collect(e) \/ TimeOut(e) \/ Decide(e) \/ RespondWrite(e)
  \/ RespondClose(e) \/ Emit(e)

Next ==
  \/ Start \/ Stop \/ Shutdown
  \/ \E m \in Modes : SetMode(m)
  \/ Read
  \/ \E e \in Events : Exec(e) \/ Handle(e) \/ StartJob(e) \/ EndJob(e)

\* The threads run; nothing is assumed of an analysis, which may never end.
Fairness == WF_vars(Read) /\ \A e \in Events : WF_vars(Handle(e))

Spec == Init /\ [][Next]_vars /\ Fairness
-----------------------------------------------------------------------------
(* Properties.                                                             *)

\* Type correctness.
TypeOK ==
  /\ phase \in {"new", "up", "closing", "shut"} /\ mode \in Modes /\ changes \in 0..MaxModeChanges
  /\ kq \in Seq(Events \cup {Overflow}) /\ batch \in Seq(Events \cup {Overflow})
  /\ reader \in {"new", "reading", "handling", "ended", "dead"}
  /\ stage \in [Events -> Stages]
  /\ file \in [Events -> Files \cup {None}] /\ efd \in [Events -> Fds \cup {None}]
  /\ owner \in [Fds -> Events \cup {None}]
  /\ slots \in 0..MaxPending
  /\ decision \in [Events -> {"ALLOW", "ALLOW_MONITOR", "DENY", None}]
  /\ outcome \in [Events -> {"sent", "unsent", "raised", None}]
  /\ job \in [Events -> {"queued", "running", "ended", None}]
  /\ scan \in [Events -> Events \cup {None}]
  /\ answer \in [Events -> {"ALLOW", "DENY", "released", None}]
  /\ emitted \in [Events -> [action : {"ALLOW", "DENY"}, ok : BOOLEAN] \cup {None}]
  /\ saturated \subseteq Events /\ exposed \subseteq Events

\* respond() answers by descriptor number, and numbers are reused.  An answer is
\* always the final action decided for the very event whose process receives it.
AnswersMatch ==
  \A e \in Events : answer[e] \in {"ALLOW", "DENY"} =>
    stage[e] \in {"close", "emit", "done"} /\ decision[e] = answer[e]

\* From the moment an event is read until its own respond(), and no longer than
\* that, the number refers to the event's file: no other handler, and no analysis
\* that outlives its timeout, closes it.
DescriptorsHeld ==
  \A e \in Events :
    /\ stage[e] \in Held \ {"write", "close"} => owner[efd[e]] = e
    /\ \A n \in Fds : owner[n] = e => stage[e] \in Held /\ efd[e] = n

\* docs/stage8_fanotify.md: enforcement sends FAN_DENY only for a valid DENY result,
\* and MONITOR_ONLY never does.  A process is denied only if enforcement was on at
\* some time while its event was under way, and either its own file was scanned to
\* the end and found malicious or its path fails closed.
DenyJustified ==
  \A e \in Events : answer[e] = "DENY" =>
    /\ e \in exposed
    /\ \/ file[e].kind = "malicious"
       \/ file[e].closed /\ file[e].kind # "skipped"

\* A record that says a response was written tells which one the kernel delivered.
RecordsTruthful ==
  \A e \in Events : emitted[e] # None /\ emitted[e].ok => answer[e] = emitted[e].action

\* _respond_saturated lets a file run without analysis only while max_pending_events
\* events are really pending: no path through a handler loses a slot.
SaturationReal ==
  [][saturated' # saturated => Cardinality(Submitted) = MaxPending]_vars

\* Every event is answered, although an analysis may hang and any audit record
\* may fail, unless an audit error has ended the reader thread.
EventsAnswered ==
  \A e \in Events : At(e, "kernel") ~> (answer[e] # None \/ reader = "dead")

=============================================================================
