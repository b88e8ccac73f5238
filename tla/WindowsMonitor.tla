--------------------------- MODULE WindowsMonitor ---------------------------
(***************************************************************************)
(* The local Windows monitor: the directory watchers of                    *)
(* monitor/windows/backends.py, the bounded hand-over to an executor of    *)
(* controller.py, and the retrying analysis of analysis.py, against a file *)
(* system that keeps changing.                                             *)
(*                                                                         *)
(* Actors: the file system and its notification queues (external), one     *)
(* watcher thread per root, which runs handle_event itself, the executor's *)
(* workers, and the thread that calls start() and stop().  A file version  *)
(* is the number of the operation that wrote or renamed it, and stands for *)
(* the identity (device, inode, size, mtime, ctime) that analyze compares. *)
(***************************************************************************)
EXTENDS Integers, Sequences, FiniteSets

CONSTANTS Roots, Names,
          RootOf,       \* the watched root a name lies under
          Present,      \* names of the files there are at first
          Excluded,     \* names under an excluded path of the policy
          Workers,      \* the executor's threads, analysis_workers
          MaxPending,   \* max_pending_events
          RetryAttempts,
          MaxOps,       \* bound: operations on the file system
          MaxFaults,    \* bound: overflows, failed reads, sharing violations
          None

ASSUME PendingAssumption == MaxPending \in Nat \ {0} /\ RetryAttempts \in Nat

\* What the kernel reports: op is the operation on the file system.
Notification == [action : {"ADDED", "MODIFIED", "REMOVED", "RENAMED_OLD", "RENAMED_NEW"},
                 name : Names, op : Nat]

\* How an analysis ends.
Verdicts == {"ANALYZED", "PARTIAL", "ERROR", "SKIPPED_NOT_FOUND",
             "SKIPPED_UNSUPPORTED_FILE_TYPE"}

\* An analysis on a worker: the event it is for, and what it has seen of the file.
Job == [ev : Nat, path : Names, attempt : Nat,
        pc : {"open", "read1", "read2", "check", "release", "append"},
        before : Nat, seen : SUBSET Nat, status : Verdicts \cup {None}]

ASSUME WatchAssumption == RootOf \in [Names -> Roots]

\* What handle_event records without asking for a place.
NotAdmitted == {"RECOVERY_REQUIRED", "IGNORED_OUT_OF_SCOPE", "OBSERVED"}

ASSUME NoneAssumption ==
    None \notin Notification /\ None \notin Job /\ None \notin NotAdmitted

VARIABLES
    files,      \* per name: its version, 0 when absent
    ops, faults,
    notes,      \* per root: the notifications the kernel holds
    flooded,    \* per root: the kernel dropped them, the next read is empty
    watcher,    \* per root: the watcher thread
    running,    \* the backend's _running event
    callback,   \* whether the backend's _callback is set
    active,     \* the controller's _running
    events,     \* every event handed to the controller, with its fate
    pending,    \* free places of the _pending semaphore
    queue, pool,\* the executor's queue; "open" or "shut"
    job,        \* per worker: the analysis it runs, or None
    guarded,    \* the operating system holds the path while it is read (nt)
    caller,     \* who starts and stops: "new", "up", ... "stopped", "degraded"
    taken       \* history: the notifications the watchers interpreted

fsVars   == <<files, ops, notes>>
execVars == <<queue, pool, job>>
ctlVars  == <<running, callback, active, caller>>
vars == <<fsVars, faults, flooded, watcher, events, pending, execVars, ctlVars,
          guarded, taken>>

Idle == [pc |-> "off", buffer |-> <<>>, old |-> None, out |-> <<>>]

Init ==
    /\ files = [n \in Names |-> IF n \in Present THEN 1 ELSE 0] /\ ops = 1 /\ faults = 0
    /\ notes = [r \in Roots |-> <<>>] /\ flooded = [r \in Roots |-> FALSE]
    /\ watcher = [r \in Roots |-> Idle]
    /\ running = FALSE /\ callback = FALSE /\ active = FALSE
    /\ events = <<>> /\ pending = MaxPending
    /\ queue = <<>> /\ pool = "open" /\ job = [w \in Workers |-> None]
    /\ guarded \in BOOLEAN /\ caller = "new" /\ taken = {}

-----------------------------------------------------------------------------
(***************************************************************************)
(* The file system (external).  The notifications of one rename are        *)
(* adjacent; a read may still end between them.                            *)
(***************************************************************************)
Note(action, name) == [action |-> action, name |-> name, op |-> ops + 1]

\* A guarded analysis denies writes, deletion and renaming of its file.
Locked(n) == guarded /\ \E w \in Workers : job[w] # None /\ job[w].path = n
                                           /\ job[w].pc \in {"read1", "read2", "check"}

\* Bound: changes before start() are initial states, those after stop() are
\* nobody's concern.
Changing == ops < MaxOps /\ caller \notin {"new", "degraded", "stopped"}

Notify(r, new) ==
    notes' = [notes EXCEPT ![r] = IF running /\ ~flooded[r] THEN @ \o new ELSE @]

Write(n) ==
    /\ Changing /\ ~Locked(n)
    /\ ops' = ops + 1
    /\ files' = [files EXCEPT ![n] = ops + 1]
    /\ Notify(RootOf[n], <<Note(IF files[n] = 0 THEN "ADDED" ELSE "MODIFIED", n)>>)
    /\ UNCHANGED <<faults, flooded, watcher, events, pending, execVars, ctlVars,
                   guarded, taken>>

Remove(n) ==
    /\ Changing /\ files[n] # 0 /\ ~Locked(n)
    /\ ops' = ops + 1
    /\ files' = [files EXCEPT ![n] = 0]
    /\ Notify(RootOf[n], <<Note("REMOVED", n)>>)
    /\ UNCHANGED <<faults, flooded, watcher, events, pending, execVars, ctlVars,
                   guarded, taken>>

Rename(n, m) ==
    /\ Changing /\ n # m /\ RootOf[n] = RootOf[m]
    /\ files[n] # 0 /\ files[m] = 0 /\ ~Locked(n)
    /\ ops' = ops + 1
    /\ files' = [files EXCEPT ![n] = 0, ![m] = ops + 1]
    /\ Notify(RootOf[n], <<Note("RENAMED_OLD", n), Note("RENAMED_NEW", m)>>)
    /\ UNCHANGED <<faults, flooded, watcher, events, pending, execVars, ctlVars,
                   guarded, taken>>

\* The kernel's buffer is full: what it held is gone, and the next read says so.
Flood(r) ==
    /\ faults < MaxFaults /\ notes[r] # <<>>
    /\ faults' = faults + 1
    /\ notes' = [notes EXCEPT ![r] = <<>>]
    /\ flooded' = [flooded EXCEPT ![r] = TRUE]
    /\ UNCHANGED <<files, ops, watcher, events, pending, execVars, ctlVars, guarded, taken>>

-----------------------------------------------------------------------------
(***************************************************************************)
(* start() of the service, the controller and the backends: no ETW session *)
(* is configured, so the directory backend opens the roots or fails.       *)
(***************************************************************************)
Start ==
    /\ caller = "new"
    /\ \E opened \in BOOLEAN :
          /\ running' = opened /\ callback' = opened /\ active' = opened
          /\ caller' = IF opened THEN "up" ELSE "degraded"
          /\ watcher' = [r \in Roots |-> [Idle EXCEPT !.pc = IF opened THEN "work" ELSE "off"]]
    /\ UNCHANGED <<fsVars, faults, flooded, events, pending, execVars, guarded, taken>>

-----------------------------------------------------------------------------
(***************************************************************************)
(* _watch_root.                                                            *)
(***************************************************************************)
Event(type, path, op, old) == [type |-> type, path |-> path, op |-> op, old |-> old]

Overflow(r) == Event("OVERFLOW", r, 0, None)

Deleted(note) == Event("FILE_DELETED", note.name, note.op, None)

EventType == [ADDED |-> "FILE_CREATED", REMOVED |-> "FILE_DELETED",
              MODIFIED |-> "FILE_MODIFIED"]

Step(r, w) == watcher' = [watcher EXCEPT ![r] = w]

\* The loop condition: block in the read, or leave and emit as a deletion an
\* old name that was never paired.
Loop(r) ==
    LET w == watcher[r]
    IN /\ w.pc = "work" /\ w.out = <<>> /\ w.buffer = <<>>
       /\ Step(r, IF running THEN [w EXCEPT !.pc = "reading"]
                  ELSE IF w.old = None THEN [w EXCEPT !.pc = "ended"]
                  ELSE [w EXCEPT !.pc = "last", !.old = None, !.out = <<Deleted(w.old)>>])
       /\ UNCHANGED <<fsVars, faults, flooded, events, pending, execVars, ctlVars,
                      guarded, taken>>

\* What a read returns is dropped, the pending old name with it, if stop() came.
Resume(r, w) == Step(r, IF running THEN [w EXCEPT !.pc = "work"]
                        ELSE [Idle EXCEPT !.pc = "ended"])

\* _read_changes: some of the notifications, in order.
ReadChanges(r) ==
    /\ watcher[r].pc = "reading" /\ ~flooded[r]
    /\ \E k \in 1..Len(notes[r]) :
          /\ Resume(r, [watcher[r] EXCEPT !.buffer = SubSeq(notes[r], 1, k)])
          /\ notes' = [notes EXCEPT ![r] = SubSeq(@, k + 1, Len(@))]
    /\ UNCHANGED <<files, ops, faults, flooded, events, pending, execVars, ctlVars,
                   guarded, taken>>

\* An empty answer: the kernel's buffer overflowed.
ReadEmpty(r) ==
    /\ watcher[r].pc = "reading" /\ flooded[r]
    /\ Resume(r, [watcher[r] EXCEPT !.out = <<Overflow(r)>>])
    /\ flooded' = [flooded EXCEPT ![r] = FALSE]
    /\ UNCHANGED <<fsVars, faults, events, pending, execVars, ctlVars, guarded, taken>>

\* The read failed, the handle was closed, or the records could not be parsed;
\* what the read had taken from the kernel is lost.
ReadFails(r) ==
    /\ watcher[r].pc = "reading"
    /\ running => faults < MaxFaults
    /\ faults' = IF running THEN faults + 1 ELSE faults
    /\ Resume(r, [watcher[r] EXCEPT !.out = <<Overflow(r)>>])
    /\ \E k \in 0..Len(notes[r]) :
          notes' = [notes EXCEPT ![r] = SubSeq(@, k + 1, Len(@))]
    /\ UNCHANGED <<files, ops, flooded, events, pending, execVars, ctlVars, guarded, taken>>

\* A plausible defect: the first of two old names is kept for the pairing.
InterpretedKeepingFirst(w, note) ==
    LET stale == IF w.old = None THEN <<>> ELSE <<Deleted(w.old)>>
    IN IF note.action = "RENAMED_OLD"
       THEN IF w.old = None THEN [w EXCEPT !.old = note]
            ELSE [w EXCEPT !.out = <<Deleted(note)>>]
       ELSE IF note.action = "RENAMED_NEW"
       THEN [w EXCEPT !.out = <<Event("FILE_RENAMED", note.name, note.op, w.old)>>,
                      !.old = None]
       ELSE [w EXCEPT !.out = Append(stale, Event(EventType[note.action], note.name,
                                                  note.op, None)),
                      !.old = None]

\* One notification: an old name waits for its new name; anything else in
\* between reports the old name as deleted.
Interpreted(w, note) ==
    LET stale == IF w.old = None THEN <<>> ELSE <<Deleted(w.old)>>
    IN IF note.action = "RENAMED_OLD" THEN [w EXCEPT !.out = stale, !.old = note]
       ELSE IF note.action = "RENAMED_NEW"
       THEN [w EXCEPT !.out = <<Event("FILE_RENAMED", note.name, note.op, w.old)>>,
                      !.old = None]
       ELSE [w EXCEPT !.out = Append(stale, Event(EventType[note.action], note.name,
                                                  note.op, None)),
                      !.old = None]

Interpret(r) ==
    LET w == watcher[r]
    IN /\ w.pc = "work" /\ w.out = <<>> /\ w.buffer # <<>>
       /\ Step(r, [Interpreted(w, Head(w.buffer)) EXCEPT !.buffer = Tail(w.buffer)])
       /\ taken' = taken \cup {Head(w.buffer)}
       /\ UNCHANGED <<fsVars, faults, flooded, events, pending, execVars, ctlVars, guarded>>

\* The provider named a path outside the root.
InterpretInvalid(r) ==
    LET w == watcher[r]
    IN /\ w.pc = "work" /\ w.out = <<>> /\ w.buffer # <<>> /\ faults < MaxFaults
       /\ Step(r, [w EXCEPT !.out = <<Overflow(r)>>, !.buffer = Tail(w.buffer)])
       /\ faults' = faults + 1
       /\ UNCHANGED <<fsVars, flooded, events, pending, execVars, ctlVars, guarded, taken>>

-----------------------------------------------------------------------------
(***************************************************************************)
(* _emit and _emit_overflow call handle_event on the watcher's thread.     *)
(***************************************************************************)
Emitting(r) == watcher[r].pc \in {"work", "last"} /\ watcher[r].out # <<>>

Sent(w) == [w EXCEPT !.out = Tail(@), !.pc = IF @ = "last" THEN "ended" ELSE @]

\* The callback is gone: the event is counted and dropped.
EmitNobody(r) ==
    /\ Emitting(r) /\ ~callback
    /\ Step(r, Sent(watcher[r]))
    /\ UNCHANGED <<fsVars, faults, flooded, events, pending, execVars, ctlVars,
                   guarded, taken>>

Eligible == {"FILE_CREATED", "FILE_MODIFIED", "FILE_RENAMED"}

ShouldMonitor(path) == path \notin Excluded

\* What handle_event records at once, before the semaphore is asked.
Immediate(e) == IF e.type = "OVERFLOW" THEN "RECOVERY_REQUIRED"
                ELSE IF ~ShouldMonitor(e.path) THEN "IGNORED_OUT_OF_SCOPE"
                ELSE IF e.type \notin Eligible THEN "OBSERVED" ELSE None

Recorded(e, status) ==
    [type |-> e.type, path |-> e.path, op |-> e.op, old |-> e.old,
     status |-> status, seen |-> {}]

\* The record is appended on the watcher's thread: no analysis, or no place.
HandleAtOnce(r) ==
    /\ Emitting(r) /\ callback
    /\ LET e == Head(watcher[r].out)
       IN /\ Immediate(e) # None \/ pending = 0
          /\ events' = Append(events, Recorded(e, IF Immediate(e) # None THEN Immediate(e)
                                                  ELSE "DROPPED_BACKPRESSURE"))
    /\ Step(r, Sent(watcher[r]))
    /\ UNCHANGED <<fsVars, faults, flooded, pending, execVars, ctlVars, guarded, taken>>

\* A place is taken before the job is created.
Acquire(r) ==
    /\ Emitting(r) /\ callback
    /\ LET e == Head(watcher[r].out)
       IN /\ Immediate(e) = None /\ pending > 0
          /\ events' = Append(events, Recorded(e, "acquired"))
    /\ pending' = pending - 1
    /\ Step(r, [Sent(watcher[r]) EXCEPT !.pc = "submit"])
    /\ UNCHANGED <<fsVars, faults, flooded, execVars, ctlVars, guarded, taken>>

\* The event this watcher acquired a place for.
Mine(r) == CHOOSE i \in DOMAIN events :
               events[i].status = "acquired" /\ RootOf[events[i].path] = r

SubmitAccepted(r) ==
    /\ watcher[r].pc = "submit" /\ pool = "open"
    /\ queue' = Append(queue, Mine(r))
    /\ events' = [events EXCEPT ![Mine(r)].status = "queued"]
    /\ Step(r, [watcher[r] EXCEPT !.pc = "work"])
    /\ UNCHANGED <<fsVars, faults, flooded, pending, pool, job, ctlVars, guarded, taken>>

\* The executor was shut down in between: the place is given back.
SubmitRefused(r) ==
    /\ watcher[r].pc = "submit" /\ pool = "shut"
    /\ pending' = pending + 1
    /\ events' = [events EXCEPT ![Mine(r)].status = "ERROR"]
    /\ Step(r, [watcher[r] EXCEPT !.pc = "work"])
    /\ UNCHANGED <<fsVars, faults, flooded, execVars, ctlVars, guarded, taken>>

Watch(r) == \/ Loop(r) \/ ReadChanges(r) \/ ReadEmpty(r) \/ Interpret(r)
            \/ EmitNobody(r) \/ HandleAtOnce(r) \/ Acquire(r)
            \/ SubmitAccepted(r) \/ SubmitRefused(r)

-----------------------------------------------------------------------------
(***************************************************************************)
(* _analyze_event and analyze, on the executor's threads.                  *)
(***************************************************************************)
Work(w, j) ==
    /\ job' = [job EXCEPT ![w] = j]
    /\ UNCHANGED <<fsVars, flooded, watcher, pool, ctlVars, guarded, taken>>

Take(w) ==
    /\ job[w] = None /\ queue # <<>>
    /\ Work(w, [ev |-> Head(queue), path |-> events[Head(queue)].path, attempt |-> 1,
                pc |-> "open", before |-> 0, seen |-> {}, status |-> None])
    /\ queue' = Tail(queue)
    /\ UNCHANGED <<faults, events, pending>>

Concluded(j, status) == [j EXCEPT !.pc = "release", !.status = status]

\* An access error is retried retry_attempts times.
Retried(j) == IF j.attempt <= RetryAttempts
              THEN [j EXCEPT !.attempt = @ + 1, !.pc = "open"]
              ELSE Concluded(j, "ERROR")

\* The path guard, the component checks and the first lstat.
Open(w) ==
    /\ job[w] # None /\ job[w].pc = "open"
    /\ LET j == job[w]
       IN \E suitable \in BOOLEAN :    \* a regular file within the size limit
             Work(w, IF files[j.path] = 0 THEN Concluded(j, "SKIPPED_NOT_FOUND")
                     ELSE IF ~suitable THEN Concluded(j, "SKIPPED_UNSUPPORTED_FILE_TYPE")
                     ELSE [j EXCEPT !.pc = "read1", !.before = files[j.path], !.seen = {}])
    /\ UNCHANGED <<faults, events, pending, queue>>

\* Another program has the file open for writing, or it may not be read.
OpenFails(w) ==
    /\ job[w] # None /\ job[w].pc = "open" /\ faults < MaxFaults
    /\ faults' = faults + 1
    /\ Work(w, Retried(job[w]))
    /\ UNCHANGED <<events, pending, queue>>

\* scanner.scan: the file's content is read in parts, by path.
Read(w) ==
    /\ job[w] # None /\ job[w].pc \in {"read1", "read2"}
    /\ Work(w, [job[w] EXCEPT !.seen = @ \cup {files[job[w].path]},
                              !.pc = IF @ = "read1" THEN "read2" ELSE "check"])
    /\ UNCHANGED <<faults, events, pending, queue>>

\* Any other exception in the scan or the scoring ends the analysis.
ReadRaises(w) ==
    /\ job[w] # None /\ job[w].pc \in {"read1", "read2"} /\ faults < MaxFaults
    /\ faults' = faults + 1
    /\ Work(w, Concluded(job[w], "ERROR"))
    /\ UNCHANGED <<events, pending, queue>>

\* A plausible defect: the two identities are not compared.
ChangedNever(j) == FALSE

Changed(j) == files[j.path] # j.before

\* The second lstat, the comparison, the scan's own read errors, the verdict.
Check(w) ==
    /\ job[w] # None /\ job[w].pc = "check"
    /\ LET j == job[w]
       IN \E complete \in BOOLEAN :
             Work(w, IF files[j.path] = 0 THEN Concluded(j, "SKIPPED_NOT_FOUND")
                     ELSE IF Changed(j) \/ 0 \in j.seen THEN Retried(j)
                     ELSE Concluded(j, IF complete THEN "ANALYZED" ELSE "PARTIAL"))
    /\ UNCHANGED <<faults, events, pending, queue>>

\* A plausible defect: a failed analysis keeps its place.
ReleaseOfSuccess(w) ==
    /\ job[w] # None /\ job[w].pc = "release"
    /\ pending' = IF job[w].status = "ERROR" THEN pending ELSE pending + 1
    /\ events' = [events EXCEPT ![job[w].ev].status = "released"]
    /\ Work(w, [job[w] EXCEPT !.pc = "append"])
    /\ UNCHANGED <<faults, queue>>

\* finally: the place is given back, then the record is appended.
Release(w) ==
    /\ job[w] # None /\ job[w].pc = "release"
    /\ pending' = pending + 1
    /\ events' = [events EXCEPT ![job[w].ev].status = "released"]
    /\ Work(w, [job[w] EXCEPT !.pc = "append"])
    /\ UNCHANGED <<faults, queue>>

\* A plausible defect: a failed analysis leaves no record.
AppendRecordOfSuccess(w) ==
    /\ job[w] # None /\ job[w].pc = "append"
    /\ events' = IF job[w].status = "ERROR" THEN events
                 ELSE [events EXCEPT ![job[w].ev].status = job[w].status,
                                     ![job[w].ev].seen = job[w].seen]
    /\ Work(w, None)
    /\ UNCHANGED <<faults, pending, queue>>

AppendRecord(w) ==
    /\ job[w] # None /\ job[w].pc = "append"
    /\ events' = [events EXCEPT ![job[w].ev].status = job[w].status,
                                ![job[w].ev].seen = job[w].seen]
    /\ Work(w, None)
    /\ UNCHANGED <<faults, pending, queue>>

Analyze(w) == Take(w) \/ Open(w) \/ Read(w) \/ Check(w) \/ Release(w) \/ AppendRecord(w)

-----------------------------------------------------------------------------
(***************************************************************************)
(* stop(): the flags, the watchers, which are waited for two seconds each, *)
(* then the executor, which is waited for without a limit.                 *)
(***************************************************************************)
StopFlag ==
    /\ caller \in {"up", "degraded"}
    /\ active' = FALSE /\ running' = FALSE /\ caller' = "joining"
    /\ UNCHANGED <<fsVars, faults, flooded, watcher, callback, events, pending,
                   execVars, guarded, taken>>

StopBackend ==
    /\ caller = "joining"
    /\ callback' = FALSE /\ caller' = "joined"
    /\ UNCHANGED <<fsVars, faults, flooded, watcher, running, active, events, pending,
                   execVars, guarded, taken>>

StopExecutor ==
    /\ caller = "joined"
    /\ pool' = "shut" /\ caller' = "draining"
    /\ UNCHANGED <<fsVars, faults, flooded, watcher, running, callback, active, events,
                   pending, queue, job, guarded, taken>>

Stopped ==
    /\ caller = "draining" /\ queue = <<>> /\ \A w \in Workers : job[w] = None
    /\ caller' = "stopped"
    /\ UNCHANGED <<fsVars, faults, flooded, watcher, running, callback, active, events,
                   pending, execVars, guarded, taken>>

Stop == StopBackend \/ StopExecutor \/ Stopped

Next == \/ Start \/ StopFlag \/ Stop
        \/ \E n \in Names : Write(n) \/ Remove(n) \/ \E m \in Names : Rename(n, m)
        \/ \E r \in Roots : Flood(r) \/ Watch(r) \/ ReadFails(r) \/ InterpretInvalid(r)
        \/ \E w \in Workers : Analyze(w) \/ OpenFails(w) \/ ReadRaises(w)

\* Threads that can run do run; nobody has to change files, fail or stop.
Fairness ==
    /\ WF_vars(Stop)
    /\ \A r \in Roots : WF_vars(Watch(r))
    /\ \A w \in Workers : WF_vars(Analyze(w))

Spec == Init /\ [][Next]_vars /\ Fairness

-----------------------------------------------------------------------------
(***************************************************************************)
(* Properties.                                                             *)
(***************************************************************************)

Types == {"OVERFLOW", "FILE_CREATED", "FILE_DELETED", "FILE_MODIFIED", "FILE_RENAMED"}

\* What the watchers send, and what the controller keeps of it.
Sendable == [type : Types, path : Names \cup Roots, op : Nat, old : Notification \cup {None}]

Statuses == Verdicts \cup {"RECOVERY_REQUIRED", "IGNORED_OUT_OF_SCOPE", "OBSERVED",
                           "DROPPED_BACKPRESSURE", "acquired", "queued", "released"}

Kept == [type : Types, path : Names \cup Roots, op : Nat, old : Notification \cup {None},
         status : Statuses, seen : SUBSET Nat]

Watcher == [pc : {"off", "work", "reading", "submit", "last", "ended"},
            buffer : Seq(Notification), old : Notification \cup {None}, out : Seq(Sendable)]

\* The types of the state.
TypeOK ==
    /\ files \in [Names -> Nat] /\ ops \in Nat
    /\ notes \in [Roots -> Seq(Notification)] /\ flooded \in [Roots -> BOOLEAN]
    /\ watcher \in [Roots -> Watcher]
    /\ {running, callback, active, guarded} \subseteq BOOLEAN
    /\ events \in Seq(Kept) /\ pending \in Nat
    /\ queue \in Seq(Nat) /\ pool \in {"open", "shut"}
    /\ job \in [Workers -> Job \cup {None}]
    /\ caller \in {"new", "up", "degraded", "joining", "joined", "draining", "stopped"}
    /\ taken \subseteq Notification

\* At most one event for each notification and each reported loss.
JobIds == 1..(2 * (MaxOps - 1) + MaxFaults)

Held == {"acquired", "queued"}

\* Where an event with this status stands at the gate.
Admitted(status) == IF status \in NotAdmitted THEN "new"
                    ELSE IF status \in Held THEN "inside"
                    ELSE IF status = "DROPPED_BACKPRESSURE" THEN "refused" ELSE "left"

Admission == INSTANCE AdmissionControl WITH
    Jobs <- JobIds, Limit <- MaxPending,
    status <- [i \in JobIds |-> IF i \in DOMAIN events THEN Admitted(events[i].status) ELSE "new"]

\* The _pending semaphore of controller.py (handle_event, _analyze_event)
\* implements an admission gate: an event is dropped for backpressure only when
\* that many analyses are really outstanding, and each place comes back, when
\* the analysis fails and when the executor was shut down in between too.
PendingImplementsAdmission == Admission!Spec

InFlight == Held \cup {"released"}

\* "Every retained record says whether it was merely observed, analysed,
\* skipped, or dropped": every event handed to handle_event gets its record,
\* also when stop() runs meanwhile.
EventsRecorded ==
    \A i \in JobIds :
        i \in DOMAIN events ~> i \in DOMAIN events /\ events[i].status \notin InFlight

\* A rename whose two notifications were both understood is reported with its
\* own old name, whatever was lost before, between or after them (_watch_root).
RenamesPaired ==
    \A i \in DOMAIN events :
        events[i].type = "FILE_RENAMED" =>
            \A note \in taken :
                note.action = "RENAMED_OLD" /\ note.op = events[i].op => events[i].old = note

\* How often a notification is mentioned: by an event, by one about to be sent,
\* or as the old name that waits for its new name.
Mentions(e, note) ==
    \/ e.old = note
    \/ e.op = note.op /\ e.path = note.name

Told(note) ==
    Cardinality({i \in DOMAIN events : Mentions(events[i], note)})
    + Cardinality({x \in Roots \X (1..2) : /\ x[2] \in DOMAIN watcher[x[1]].out
                                           /\ Mentions(watcher[x[1]].out[x[2]], note)})
    + Cardinality({r \in Roots : watcher[r].old = note})

\* Until stop() takes the callback away, every change the kernel reported is
\* told exactly once: no old name is forgotten by the pairing, and none is
\* reported both as renamed and as deleted.
NotesToldOnce ==
    caller \in {"new", "up"} => \A note \in taken : Told(note) = 1

\* What backends.py makes of the notifications (_watch_root): a rename keeps its
\* own two names, and every change is told once.
ChangesReported == RenamesPaired /\ NotesToldOnce

\* An ANALYZED record describes one version of the file: nothing was written,
\* replaced or removed between the first and the last read of the attempt that
\* produced it, retries included (analyze: before, scan, after).
VerdictOfOneVersion ==
    \A i \in DOMAIN events :
        events[i].status = "ANALYZED" => Cardinality(events[i].seen) = 1 /\ 0 \notin events[i].seen
=============================================================================
