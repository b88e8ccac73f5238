--------------------------- MODULE ResponseEngine ---------------------------
(***************************************************************************)
(* The response engine of src/elyra/response/engine.py, driven by the      *)
(* daemon's consumer threads (src/elyra/service/daemon.py).  Each thread   *)
(* takes one correlated state at a time, may bind the live process and     *)
(* file to its correlation id, and executes the recommendation:            *)
(* acknowledge, terminate through a pidfd, or terminate and quarantine.    *)
(*                                                                         *)
(* The kernel is the environment: a PID is held by one incarnation after   *)
(* another (its start time), an incarnation may exec another image, exit   *)
(* and be reaped at any moment.  A pidfd names an incarnation, not a PID.  *)
(* What the engine holds its lock for is one step; every other read of the *)
(* kernel is a step of its own.  quarantine_file is an outcome here; its   *)
(* own module is Quarantine.                                               *)
(*                                                                         *)
(* A definition just before another of nearly the same name is a plausible *)
(* defect, used only to test that the properties notice it.                *)
(***************************************************************************)
EXTENDS Integers, Sequences, FiniteSets

CONSTANTS
  Threads,           \* the fanotify and the eBPF consumer threads
  Pids,
  Cids,              \* correlation ids
  PidOf,             \* Cids -> Pids
  Images,            \* executable images (device, inode)
  Recommendations,   \* what the correlation engine may recommend
  ProtectedPids,     \* policy.protected_pids and the daemon's own PID
  ProtectedImages,   \* the images under policy.protected_path_prefixes
  AutomaticActions,  \* policy.automatic_runtime_actions
  EscalateToSigkill, \* policy.escalate_to_sigkill
  AuditMayFail,      \* whether audit_logger.record may raise
  MaxBindings,       \* the cap on _bindings (1024)
  MaxStart,          \* bound on the incarnations of one PID
  MaxJobs,           \* bound on the states handled
  None

ActionMap == [CONTINUE_MONITORING |-> "ALLOW_MONITOR", ALERT |-> "WARN",
              TERMINATE |-> "TERMINATE", QUARANTINE |-> "QUARANTINE",
              DENY |-> "DENY", ALLOW |-> "ALLOW", ALLOW_MONITOR |-> "ALLOW_MONITOR",
              WARN |-> "WARN"]

ActionRank == [ALLOW |-> 0, ALLOW_MONITOR |-> 1, WARN |-> 2, DENY |-> 3,
               TERMINATE |-> 4, QUARANTINE |-> 5]

Identity == [start : Nat, image : Images]

Job == [cid : Cids, recommendation : Recommendations, denied : BOOLEAN, bind : BOOLEAN]

Binding == [process : Identity \cup {None}, fd : Nat, at : Nat]

ASSUME ConfigAssumption ==
  /\ PidOf \in [Cids -> Pids]
  /\ ProtectedPids \subseteq Pids /\ ProtectedImages \subseteq Images
  /\ {AutomaticActions, EscalateToSigkill, AuditMayFail} \subseteq BOOLEAN
  /\ {MaxBindings, MaxStart, MaxJobs} \subseteq Nat /\ MaxBindings > 0
  /\ None \notin Identity /\ None \notin Job /\ None \notin Binding

VARIABLES
  proc,       \* PID -> the incarnation holding it and whether it is alive
  bindings,   \* _bindings: cid -> [process, fd, at], or None
  highest,    \* _highest_executed_rank, -1 when absent
  openFds,    \* file descriptors the engine has open
  th,         \* the local state of each thread
  bound,      \* count of BoundTargets made: the order of bound_at_monotonic
  jobs,       \* count of states handled
  signals,    \* history: [cid, expected, hit], one per signal delivered
  succeeded   \* history: cid -> ranks executed, in order of completion

vars == <<proc, bindings, highest, openFds, th, bound, jobs, signals, succeeded>>

PCs == {"idle", "bindStat", "bindImage", "bindFile", "bindInsert", "check", "act",
        "lookup", "pidfdOpen", "captureStat", "captureImage", "sigterm", "awaitTerm",
        "sigkill", "awaitKill", "quarantine", "result", "release", "commit", "dead"}

StatusesOfResult == {"NONE", "SUCCEEDED", "REFUSED", "DUPLICATE_SUPPRESSED",
                     "SKIPPED_POLICY_DISABLED"}

\* start, process: the identity being or last captured.  expected: the bound
\* identity a termination works on.  fd: a file opened and not yet bound.
\* target: the `at` of the binding a destructive response works on.  pidfd: the
\* incarnation an open pidfd names, 0 when none is open.
Thread == [pc : PCs, job : Job \cup {None}, start : Nat, process : Identity \cup {None},
           fd : Nat, expected : Identity \cup {None}, target : Nat, pidfd : Nat,
           previous : Nat \cup {-1}, status : StatusesOfResult]

IdleThread == [pc |-> "idle", job |-> None, start |-> 0, process |-> None, fd |-> 0,
               expected |-> None, target |-> 0, pidfd |-> 0, previous |-> -1, status |-> "NONE"]

Known(t)  == th[t].job.recommendation \in DOMAIN ActionMap
Action(t) == IF Known(t) THEN ActionMap[th[t].job.recommendation] ELSE "NONE"
Cid(t)    == th[t].job.cid
Pid(t)    == PidOf[Cid(t)]

At(t, pc) == th[t].pc = pc
Goto(t, pc) == th' = [th EXCEPT ![t].pc = pc]
Conclude(t, status) == th' = [th EXCEPT ![t].pc = "result", ![t].status = status,
                                        ![t].pidfd = 0]
\* An exception nobody catches ends the consumer thread; finally clauses have
\* closed its pidfd and the file it was hashing.
Die(t) == th' = [th EXCEPT ![t].pc = "dead", ![t].pidfd = 0]
-----------------------------------------------------------------------------
(* The kernel.                                                             *)

Spawn(p) ==
  /\ ~proc[p].alive
  /\ proc[p].start < MaxStart
  /\ \E image \in Images :
       proc' = [proc EXCEPT ![p] = [start |-> @.start + 1, image |-> image, alive |-> TRUE]]
  /\ UNCHANGED <<bindings, highest, openFds, th, bound, jobs, signals, succeeded>>

Exec(p) ==
  /\ proc[p].alive
  /\ \E image \in Images \ {proc[p].image} : proc' = [proc EXCEPT ![p].image = image]
  /\ UNCHANGED <<bindings, highest, openFds, th, bound, jobs, signals, succeeded>>

\* The process exits and is reaped.
Exit(p) ==
  /\ proc[p].alive
  /\ proc' = [proc EXCEPT ![p] = [start |-> @.start, image |-> @.image, alive |-> FALSE]]
  /\ UNCHANGED <<bindings, highest, openFds, th, bound, jobs, signals, succeeded>>

\* Descriptor numbers are reused: open() returns the lowest free one.
FreeFds == {n \in 1..(Cardinality(openFds) + 1) :
              /\ n \notin openFds
              /\ \A m \in 1..(n - 1) : m \in openFds}

Running(p, start) == proc[p].alive /\ proc[p].start = start
-----------------------------------------------------------------------------
(* The consumer threads: taking a state and binding it.                    *)

\* A snapshot returned by the correlation engine, which recommends DENY for
\* every state that fanotify denied.
Begin(t) ==
  /\ At(t, "idle")
  /\ jobs < MaxJobs
  /\ \E job \in Job :
       /\ job.denied => job.recommendation = "DENY"
       /\ th' = [th EXCEPT ![t] = [IdleThread EXCEPT
                 !.job = job, !.pc = IF job.bind THEN "bindStat" ELSE "check"]]
  /\ jobs' = jobs + 1
  /\ UNCHANGED <<proc, bindings, highest, openFds, bound, signals, succeeded>>

\* bind_state captures /proc/PID/stat, then /proc/PID/exe; the PID may change
\* hands in between.  A process that is gone leaves process = None.
BindStat(t) ==
  /\ At(t, "bindStat")
  /\ IF proc[Pid(t)].alive
     THEN th' = [th EXCEPT ![t].start = proc[Pid(t)].start, ![t].pc = "bindImage"]
     ELSE Goto(t, "bindFile")
  /\ UNCHANGED <<proc, bindings, highest, openFds, bound, jobs, signals, succeeded>>

BindImage(t) ==
  /\ At(t, "bindImage")
  /\ th' = [th EXCEPT ![t].pc = "bindFile",
       ![t].process = IF proc[Pid(t)].alive
                      THEN [start |-> th[t].start, image |-> proc[Pid(t)].image]
                      ELSE None]
  /\ UNCHANGED <<proc, bindings, highest, openFds, bound, jobs, signals, succeeded>>

\* _open_file_identity opens and hashes the executable, or refuses (no path, a
\* link, a changed file), or an OSError escapes (the file was unlinked before
\* resolve(strict=True)).
BindFile(t) ==
  /\ At(t, "bindFile")
  /\ \/ \E fd \in FreeFds :
          /\ openFds' = openFds \cup {fd}
          /\ th' = [th EXCEPT ![t].fd = fd, ![t].pc = "bindInsert"]
     \/ Goto(t, "bindInsert") /\ UNCHANGED openFds
     \/ Die(t) /\ UNCHANGED openFds
  /\ UNCHANGED <<proc, bindings, highest, bound, jobs, signals, succeeded>>

BoundCids(b) == {c \in Cids : b[c] # None}

\* Under the lock: drop the previous binding of the cid, then the oldest ones
\* until there is room.  One binding is added at a time, so one is enough.
DroppedBy(cid) ==
  LET others == BoundCids(bindings) \ {cid} IN
  (BoundCids(bindings) \cap {cid})
    \cup (IF Cardinality(others) < MaxBindings THEN {}
          ELSE {c \in others : \A d \in others : bindings[c].at <= bindings[d].at})

\* Without closing the descriptor of the binding that is replaced.
ClosedByLeaky(cid) == {bindings[c].fd : c \in DroppedBy(cid) \ {cid}} \ {0}

ClosedBy(cid) == {bindings[c].fd : c \in DroppedBy(cid)} \ {0}

BindInsert(t) ==
  /\ At(t, "bindInsert")
  /\ IF th[t].process = None /\ th[t].fd = 0
     THEN UNCHANGED <<bindings, openFds, bound>>
     ELSE /\ bindings' = [c \in Cids |->
               IF c = Cid(t)
               THEN [process |-> th[t].process, fd |-> th[t].fd, at |-> bound + 1]
               ELSE IF c \in DroppedBy(Cid(t)) THEN None ELSE bindings[c]]
          /\ openFds' = openFds \ ClosedBy(Cid(t))
          /\ bound' = bound + 1
  /\ th' = [th EXCEPT ![t] = [IdleThread EXCEPT !.job = th[t].job, !.pc = "check"]]
  /\ UNCHANGED <<proc, highest, jobs, signals, succeeded>>
-----------------------------------------------------------------------------
(* execute_recommendation.                                                 *)

\* The duplicate check, under the lock; `previous` is used again in Commit.
CheckWeakerOnly(t) ==
  /\ At(t, "check")
  /\ IF ~Known(t)
     THEN Conclude(t, "REFUSED")
     ELSE IF ActionRank[Action(t)] < highest[Cid(t)]
     THEN Conclude(t, "DUPLICATE_SUPPRESSED")
     ELSE th' = [th EXCEPT ![t].previous = highest[Cid(t)], ![t].pc = "act"]
  /\ UNCHANGED <<proc, bindings, highest, openFds, bound, jobs, signals, succeeded>>

Check(t) ==
  /\ At(t, "check")
  /\ IF ~Known(t)
     THEN Conclude(t, "REFUSED")
     ELSE IF ActionRank[Action(t)] <= highest[Cid(t)]
     THEN Conclude(t, "DUPLICATE_SUPPRESSED")
     ELSE th' = [th EXCEPT ![t].previous = highest[Cid(t)], ![t].pc = "act"]
  /\ UNCHANGED <<proc, bindings, highest, openFds, bound, jobs, signals, succeeded>>

Act(t) ==
  /\ At(t, "act")
  /\ \/ Action(t) \in {"ALLOW", "ALLOW_MONITOR", "WARN"} /\ Conclude(t, "SUCCEEDED")
     \/ Action(t) = "DENY" /\ Conclude(t, IF th[t].job.denied THEN "SUCCEEDED" ELSE "REFUSED")
     \/ /\ Action(t) \in {"TERMINATE", "QUARANTINE"}
        /\ IF AutomaticActions THEN Goto(t, "lookup") ELSE Conclude(t, "SKIPPED_POLICY_DISABLED")
  /\ UNCHANGED <<proc, bindings, highest, openFds, bound, jobs, signals, succeeded>>

\* terminate() refuses protected PIDs and protected executables, before a
\* pidfd is opened.
Protected(pid, process) == pid \in ProtectedPids \/ process.image \in ProtectedImages

\* _binding, and what each destructive response requires of it.  A quarantine
\* is also refused when the bound file lies under a protected path.
Lookup(t) ==
  LET b == bindings[Cid(t)] IN
  /\ At(t, "lookup")
  /\ \/ b = None /\ Conclude(t, "REFUSED")
     \/ b # None /\ Action(t) = "TERMINATE" /\ b.process = None /\ Conclude(t, "REFUSED")
     \/ b # None /\ Action(t) = "QUARANTINE" /\ Conclude(t, "REFUSED")
     \/ /\ b # None /\ Action(t) = "QUARANTINE" /\ b.fd # 0 /\ b.process = None
        /\ th' = [th EXCEPT ![t].target = b.at, ![t].pc = "quarantine"]
     \/ /\ b # None /\ b.process # None
        /\ Action(t) = "QUARANTINE" => b.fd # 0
        /\ IF Protected(Pid(t), b.process)
           THEN Conclude(t, "REFUSED")
           ELSE th' = [th EXCEPT ![t].expected = b.process, ![t].target = b.at,
                                 ![t].pc = "pidfdOpen"]
  /\ UNCHANGED <<proc, bindings, highest, openFds, bound, jobs, signals, succeeded>>

\* Where terminate() returns to: the result, or the rest of the quarantine.
Terminated(t) ==
  IF Action(t) = "TERMINATE"
  THEN Conclude(t, "SUCCEEDED")
  ELSE th' = [th EXCEPT ![t].pc = "quarantine", ![t].pidfd = 0]

\* PidfdProcessController.terminate: the pidfd is opened first (or cannot be) ...
PidfdOpen(t) ==
  /\ At(t, "pidfdOpen")
  /\ \/ /\ proc[Pid(t)].alive
        /\ th' = [th EXCEPT ![t].pidfd = proc[Pid(t)].start, ![t].pc = "captureStat"]
     \/ ~proc[Pid(t)].alive /\ Terminated(t)
     \/ Conclude(t, "REFUSED")
  /\ UNCHANGED <<proc, bindings, highest, openFds, bound, jobs, signals, succeeded>>

\* ... and the PID's identity is captured and compared after that.
CaptureStat(t) ==
  /\ At(t, "captureStat")
  /\ IF proc[Pid(t)].alive
     THEN th' = [th EXCEPT ![t].start = proc[Pid(t)].start, ![t].pc = "captureImage"]
     ELSE Conclude(t, "REFUSED")
  /\ UNCHANGED <<proc, bindings, highest, openFds, bound, jobs, signals, succeeded>>

\* Comparing the executable but not the start time.
SameIdentityByImage(expected, current) == expected.image = current.image

SameIdentity(expected, current) ==
  expected.start = current.start /\ expected.image = current.image

CaptureImage(t) ==
  /\ At(t, "captureImage")
  /\ IF proc[Pid(t)].alive
        /\ SameIdentity(th[t].expected, [start |-> th[t].start, image |-> proc[Pid(t)].image])
     THEN Goto(t, "sigterm")
     ELSE Conclude(t, "REFUSED")
  /\ UNCHANGED <<proc, bindings, highest, openFds, bound, jobs, signals, succeeded>>

\* pidfd_send_signal raises ProcessLookupError, which terminate() does not
\* catch, if the incarnation is gone.
Send(t, next) ==
  /\ IF Running(Pid(t), th[t].pidfd)
     THEN /\ signals' = signals \cup
               {[cid |-> Cid(t), expected |-> th[t].expected.start, hit |-> th[t].pidfd]}
          /\ Goto(t, next)
     ELSE Die(t) /\ UNCHANGED signals
  /\ UNCHANGED <<proc, bindings, highest, openFds, bound, jobs, succeeded>>

SendTerm(t) == At(t, "sigterm") /\ Send(t, "awaitTerm")

\* Polling the pidfd until the process exits, without the grace period.
AwaitTermForever(t) ==
  /\ At(t, "awaitTerm")
  /\ ~Running(Pid(t), th[t].pidfd) /\ Terminated(t)
  /\ UNCHANGED <<proc, bindings, highest, openFds, bound, jobs, signals, succeeded>>

\* _wait_pidfd reports the exit, or the grace period ends first.
AwaitTerm(t) ==
  /\ At(t, "awaitTerm")
  /\ \/ ~Running(Pid(t), th[t].pidfd) /\ Terminated(t)
     \/ /\ Running(Pid(t), th[t].pidfd)
        /\ IF EscalateToSigkill THEN Goto(t, "sigkill") ELSE Conclude(t, "REFUSED")
  /\ UNCHANGED <<proc, bindings, highest, openFds, bound, jobs, signals, succeeded>>

SendKill(t) == At(t, "sigkill") /\ Send(t, "awaitKill")

AwaitKill(t) ==
  /\ At(t, "awaitKill")
  /\ \/ ~Running(Pid(t), th[t].pidfd) /\ Terminated(t)
     \/ Running(Pid(t), th[t].pidfd) /\ Conclude(t, "REFUSED")
  /\ UNCHANGED <<proc, bindings, highest, openFds, bound, jobs, signals, succeeded>>

\* quarantine_file moves the bound file or raises QuarantineError.
QuarantineFile(t) ==
  /\ At(t, "quarantine")
  /\ \E status \in {"SUCCEEDED", "REFUSED"} : Conclude(t, status)
  /\ UNCHANGED <<proc, bindings, highest, openFds, bound, jobs, signals, succeeded>>

\* _result writes the audit record; an audit failure is not caught.  A
\* quarantine that was attempted gives its binding up, whatever its outcome.
Result(t) ==
  /\ At(t, "result")
  /\ \/ Goto(t, IF Action(t) = "QUARANTINE"
                   /\ th[t].status \in {"SUCCEEDED", "REFUSED"}
                THEN "release" ELSE "commit")
     \/ AuditMayFail /\ Die(t)
  /\ UNCHANGED <<proc, bindings, highest, openFds, bound, jobs, signals, succeeded>>

\* release_binding: the binding is popped under the lock, so one caller closes.
Drop(cids) ==
  /\ bindings' = [c \in Cids |-> IF c \in cids THEN None ELSE bindings[c]]
  /\ openFds' = openFds \ {bindings[c].fd : c \in BoundCids(bindings) \cap cids}

Release(t) ==
  /\ At(t, "release")
  /\ Drop({Cid(t)})
  /\ Goto(t, "commit")
  /\ UNCHANGED <<proc, highest, bound, jobs, signals, succeeded>>

\* The rank is recorded from the `previous` read in Check.
Larger(a, b) == IF a >= b THEN a ELSE b

Commit(t) ==
  /\ At(t, "commit")
  /\ th' = [th EXCEPT ![t] = IdleThread]
  /\ IF th[t].status = "SUCCEEDED"
     THEN /\ highest' = [highest EXCEPT ![Cid(t)] =
                           Larger(th[t].previous, ActionRank[Action(t)])]
          /\ succeeded' = [succeeded EXCEPT ![Cid(t)] = Append(@, ActionRank[Action(t)])]
     ELSE UNCHANGED <<highest, succeeded>>
  /\ UNCHANGED <<proc, bindings, openFds, bound, jobs, signals>>

\* close(), called by the daemon's stop() while the threads still run, releases
\* the bindings one by one.
Close(cid) ==
  /\ bindings[cid] # None
  /\ Drop({cid})
  /\ UNCHANGED <<proc, highest, th, bound, jobs, signals, succeeded>>
-----------------------------------------------------------------------------
Init ==
  /\ proc \in [Pids -> [start : {1}, image : Images, alive : {TRUE}]]
  /\ bindings = [c \in Cids |-> None]
  /\ highest = [c \in Cids |-> -1]
  /\ openFds = {}
  /\ th = [t \in Threads |-> IdleThread]
  /\ bound = 0
  /\ jobs = 0
  /\ signals = {}
  /\ succeeded = [c \in Cids |-> <<>>]

Bind(t) == BindStat(t) \/ BindImage(t) \/ BindFile(t) \/ BindInsert(t)

Terminate(t) ==
  \/ PidfdOpen(t) \/ CaptureStat(t) \/ CaptureImage(t)
  \/ SendTerm(t) \/ AwaitTerm(t) \/ SendKill(t) \/ AwaitKill(t)

\* The steps of a response under way.
Respond(t) ==
  \/ Bind(t) \/ Check(t) \/ Act(t) \/ Lookup(t) \/ Terminate(t)
  \/ QuarantineFile(t) \/ Result(t) \/ Release(t) \/ Commit(t)

Next ==
  \/ \E p \in Pids : Spawn(p) \/ Exec(p) \/ Exit(p)
  \/ \E t \in Threads : Begin(t) \/ Respond(t)
  \/ \E c \in Cids : Close(c)

\* A thread that can run is scheduled; nothing is assumed of the processes.
Fairness == \A t \in Threads : WF_vars(Respond(t))

Spec == Init /\ [][Next]_vars /\ Fairness
-----------------------------------------------------------------------------
(* Properties.                                                             *)

\* Type correctness.
TypeOK ==
  /\ proc \in [Pids -> [start : Nat, image : Images, alive : BOOLEAN]]
  /\ bindings \in [Cids -> Binding \cup {None}]
  /\ highest \in [Cids -> Nat \cup {-1}]
  /\ openFds \subseteq Nat \ {0}
  /\ th \in [Threads -> Thread]
  /\ bound \in Nat /\ jobs \in Nat
  /\ signals \subseteq [cid : Cids, expected : Nat, hit : Nat]
  /\ succeeded \in [Cids -> Seq(Nat)]

\* No signal ever reaches a process other than the one that was bound to the
\* correlation, however PIDs are reused between binding, pidfd_open, identity
\* capture and signalling, and even if the identity was captured half from one
\* incarnation and half from the next (PidfdProcessController.terminate); and
\* no signal reaches a protected PID.
SignalsReachBoundProcess ==
  \A s \in signals : s.hit = s.expected /\ PidOf[s.cid] \notin ProtectedPids

\* Every open descriptor is owned by exactly one binding or one thread that is
\* about to bind it, and every owned descriptor is open: rebinding, eviction,
\* release and close() neither leak a descriptor nor close one twice.
FdOwners == [kind : {"binding"}, of : {c \in BoundCids(bindings) : bindings[c].fd # 0}]
              \cup [kind : {"thread"}, of : {t \in Threads : th[t].fd # 0}]

OwnedFd(o) == IF o.kind = "binding" THEN bindings[o.of].fd ELSE th[o.of].fd

FdsOwnedOnce ==
  /\ openFds = {OwnedFd(o) : o \in FdOwners}
  /\ \A o, q \in FdOwners : OwnedFd(o) = OwnedFd(q) => o = q

\* The table of bindings never outgrows its cap (bind_state's eviction loop).
BindingsBounded == Cardinality(BoundCids(bindings)) <= MaxBindings

\* docs/stage11_response_engine.md: equal or weaker duplicate responses are
\* suppressed.  The responses executed for one correlation grow in rank.
DuplicatesSuppressed ==
  \A c \in Cids : \A i \in 1..(Len(succeeded[c]) - 1) : succeeded[c][i] < succeeded[c][i + 1]

\* Every response under way comes to an end: no wait of terminate() is
\* unbounded, whatever the process does with the signals.
ResponsesComplete ==
  \A t \in Threads : ~At(t, "idle") ~> (At(t, "idle") \/ At(t, "dead"))

=============================================================================
