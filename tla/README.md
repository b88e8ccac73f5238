# ELYRA: a TLA+ verification project

ELYRA is an endpoint protection system (`elyra-engine/src/elyra`). On Linux a
privileged daemon intercepts executions with fanotify, watches processes with
eBPF, correlates both, responds (alert, terminate, quarantine), keeps a
hash-chained audit log and serves an unprivileged GUI over a Unix socket; on
Windows a local monitor watches directories. This directory models the parts that
carry its core logic, checks them with TLC on small instances and proves the most
important results with TLAPS for every value of the constants. `PROJECT.json` maps
every definition to the lines it models.

## 1. Inventory

| Component (source under `elyra-engine/src/elyra`) | State it keeps | Operations | Module |
|---|---|---|---|
| Execution correlation engine (`correlation/engine.py`) | live states by PID, generation counters, bounded history | `register_pre_execution`, `ingest_runtime_event`, `record_action_result`, `expire` | `Correlation`, `CorrelationProofs` |
| Response engine (`response/engine.py`) | bindings with open descriptors, highest executed rank by correlation | `bind_state`, `execute_recommendation`, `release_binding`, `close` | `ResponseEngine`, `ResponseEngineProofs` |
| Quarantine manager (`response/quarantine_manager.py`) | payloads, pending names and metadata on disk | `quarantine_file`, `restore_file`, `delete_permanently` | `Quarantine`, `QuarantineProofs` |
| Audit log (`audit/audit_logger.py`) | active file, rotated segments, corrupt directory, flock | `__init__`, `record`, `rotate` | `AuditLog`, `AuditLogProofs` |
| fanotify controller (`monitor/fanotify/*`, `analyzer/pre_execution.py`) | mode, pending slots, two thread pools, event descriptors | `start`, `stop`, `set_mode`, the reader loop, `_handle_event` | `Fanotify`, `FanotifyProofs` |
| Static analyzer, entropy, PE (`analyzer/static_analyzer.py`, `entropy.py`, `pe.py`) | none that outlives a scan | `scan`, `scan_open_fd` | `StaticAnalysis`, `EvidenceProofs` |
| Scoring engine (`scoring/engine.py`) | a policy | `score` | `Scoring`, `EvidenceProofs` |
| eBPF probes, loader, collector (`monitor/ebpf/*`) | perf buffers, rename table, ancestry, bounded queue, counters | load, attach, poll, `publish_event`, `stop` | `Telemetry`, `EvidenceProofs` |
| Telemetry aggregator (`monitor/ebpf/aggregator.py`) | summary per process | `ingest`, `expire` | `Telemetry`, `EvidenceProofs` |
| IPC server, client, protocol, authorization (`service/ipc_*.py`, `authorization.py`) | client slots, worker threads, the socket path | `start`, accept loop, `_client_worker`, `_process_line`, `stop`, `request` | `Ipc`, `IpcProofs` |
| GUI (`gui/controller.py`, `model.py`, `presentation.py`) | in-flight and busy flags, pool, shown state | refresh, scan, restore, `close` | `Gui`, `IpcProofs` |
| Windows monitor (`monitor/windows/*`) | watchers, pending semaphore, executor, event records | `start`, `stop`, `_watch_root`, `handle_event`, `analyze` | `WindowsMonitor`, `WindowsProofs` |
| Daemon (`service/daemon.py`) | threads, component status, event queues | `start`, `stop`, two consumers, IPC actions | its consumers are the callers in `ResponseEngine` and `Telemetry`, its IPC actions are in `Ipc` |
| AI, signatures, release and measurement tools, host checks, scripts | | | not modelled |

How they interact. The fanotify workers put one record per execution on a queue
and the eBPF collector one event per system call on another; two daemon threads
consume them, call the correlation engine under its lock, and pass the resulting
state to the response engine *without* a lock. The response engine terminates
through pidfds and calls the quarantine manager. Every component writes to the
audit log, also from other processes, under a flock. IPC threads call the
quarantine manager through the response engine and change the fanotify mode. The
GUI sends one request per connection from a thread pool of its own.

What is hard here:

- *ordering*: the two queues deliver the halves of one execution in either order;
  the perf buffers of two CPUs are drained in any order; the two notifications of a
  rename may be separated by a lost buffer;
- *identity over time*: PIDs, inodes and descriptor numbers are reused between a
  decision and its execution; a file is read several times by one scan;
- *partial failure*: every quarantine is a dozen system calls with a rollback that
  may fail as well; appends stop part way; a request times out while it executes;
- *crashes* between the steps of a rotation, a recovery, a quarantine;
- *bounded resources*: slots, queues and tables at their limit, with an error path
  that must give the place back;
- *liveness*: an execution waits in the kernel until it is answered; a process
  that ignores SIGTERM; a lock whose holder dies; a dashboard whose daemon stops.

The hazards, each with its line and the properties that watch it, are listed in
`PROJECT.json`. What makes each component correct, in one sentence: correlation
attributes evidence, verdicts and results to the right execution, counts evidence
once and never weakens a verdict; the response engine signals only the process it
was told about and never leaks or double-closes a descriptor; the quarantine
manager never loses a file; the audit log never loses or forks an acknowledged
record; the fanotify controller gives each waiting process its own answer; a scan
describes one file and a denial is earned; telemetry counts what it loses; the IPC
service tells the client the truth and gives its slots back; the Windows monitor
tells each change once and records every event.

## 2. Conventions

Each component module has one action per operation or, where threads interleave
or calls fail, one action per step between which something else can happen.
Variables marked *history* exist only for properties. A definition just before
one of nearly the same name (`SlotsAfterReturned` before `SlotsAfter`) is a
plausible defect; it is used in no specification, only to confirm that a property
notices it. `MC*` modules hold the constants and symmetry sets of the instances.
`Gui` extends `Ipc` and `StaticAnalysis` extends `Scoring`: each pair is one composed
system. `AdmissionControl` is the abstract specification `Ipc` and `WindowsMonitor`
implement.

## 3. The models

### Correlation

`states[p]` is the live `ExecutionState` of PID `p` or `NoState`; `generation[p]`
is the counter from which correlation ids are made; `archived` collects what
`_archive` receives. `RegisterPreExecution` covers `_register_pre_execution` (a
new state that supersedes the live one, or the late binding of a runtime-only
state), `IngestRuntimeEvent` the four kinds of runtime events including second
execs, parent linking and creation of runtime-only states, `RecordActionResult`
the attachment of a response, `ExpireStates` the sweep; every call runs `_expire`
first, as in the code, and `Tick` is the clock. Scores are recomputed by
`Recalculate`, exactly as `_recalculate` does: category sums, the cap at 100 and
the latching of the strongest recommendation. All methods run under the engine's
lock, so each is one step. Evidence keys, paths and PIDs are small sets.

### ResponseEngine

Threads run `bind_state` and `execute_recommendation` step by step: the two reads
of `/proc` (`BindStat`, `BindImage`), opening the file, inserting the binding under
the lock, the duplicate check, `pidfd_open`, the second capture, SIGTERM, the wait,
SIGKILL, the result. Meanwhile processes spawn, exec another image, exit, and
their PIDs are reused. A binding is the record of the identity and of the
descriptor held; `close()` and `release_binding` may come at any time. An
exception nobody catches ends the thread (`Die`).

### Quarantine

Inodes with a version of bytes, user paths, holding, temporary, payload and pending
names, one metadata record per id. Each system call that changes the name space is
a step that may fail (constant `Faults`), the rollbacks included; programs create,
write, remove and rename (`EnvOps`), storage corrupts a payload, the daemon
crashes. `SameSource` compares device, inode, size and mtime as `_assert_*` do.

### AuditLog

The log is one sequence of lines, each with its segment number; a hash is a number
no two entries share. Loggers take the flock, re-read the tail, rotate if the active
file is full, append (entirely, in part, or not at all), sync. Start-up repairs a
partial last line of the active file, verifies, and refuses, continues, or moves
the segments to the corrupt directory one at a time. Any process crashes at any
step; the kernel then drops its lock.

### Fanotify

An event goes from the kernel queue to the reader's batch with the lowest free
descriptor number, to a worker or (saturated) to an immediate answer by the reader,
through evaluation, analysis in the second pool, decision, the write and the close
of `respond()`, and its record. Time is left out: a deadline or a timeout may pass
at any moment, and an analysis that timed out goes on and reads whatever the number
then refers to. `Die` is an exception in the reader thread. Non-permission events
cannot occur, because only FAN_OPEN_EXEC_PERM is marked, and are left out.

### Scoring and StaticAnalysis

`Scoring` is the pure function from the status of a scan and the rules its evidence
triggers to a score, a decision and a status, for every policy
`ScoringPolicy.validate` accepts, one that lacks rules the engine asks for included.
`StaticAnalysis` is one scan: six reads of the file, each through its own open of the
path or of `/proc/self/fd/N`, with the classification of contents (`Content`: what
the analyses tell apart), the bounds checks of `pe.py` in their order, the
block-by-block entropy stream with reads of any length, and the score of the result.
Between any two reads a program may put another file at the path or rewrite it.
The sorted list of raw ranges in `pe.py` is the order `SortsBefore` on the section
numbers; neighbours in the list are two sections with none between them
(`AdjacentOverlap`). The initial state and steps are `ScanInit`, `ScanNext` and
`ScanSpec`, so that `EvidenceProofs` can extend both this module and `Telemetry`.

### Telemetry

What processes do is filtered in the kernel (`Sample`, `ConfigureMaps`), submitted to
the buffer of its CPU, lost with a notice when the buffer is full, received by the
polling thread in any order of CPUs, decoded, deduplicated (renames), filtered by the
ancestry table and queued; the daemon's consumer feeds the aggregator. Loading may
fail at every stage and leaves the degraded state the code sets; a failed poll ends
the polling thread. The two ordered dictionaries are sequences, oldest entry first;
`Pop` takes an entry out by its position.

### Ipc, Gui and AdmissionControl

A connection goes through the backlog, the slot, the thread registration, the
identification of the peer, one request with its framing, the checks of
`ipc_protocol.py` in their order (`Checks`), `authorize`, the handler, the answer and
the close. The client waits for a bounded time and may give up while its request
executes. `stop()` has a step for each thing it does: flag, close, snapshot of the
threads, join (which raises for a thread registered but not started), unlink. `Gui`
adds the controller's pool, its flags and callbacks, a refresh that makes its calls
in order, and `close()`. `AdmissionControl` says what a counted gate promises: at most
`Limit` inside, refusal only when it is full, and everybody let in leaves.

### WindowsMonitor

Files have versions; operations put notifications on the queue of their root, which
may overflow. A watcher reads a buffer (a rename's two notifications may fall into
two reads), pairs names as `_watch_root` does, and runs `handle_event` itself:
scope, semaphore, submission to the executor, or the drop. A worker opens, reads and
compares the file's identity before and after, retries on a change, gives the place
back and appends the record. `guarded` distinguishes a system that locks the file
while it is read from one that does not. `stop()` clears the flags, gives the
watchers two seconds (so one may outlive it), shuts the executor down and drains it.

## 4. Runs

| Run | Instance | Shows |
|---|---|---|
| `correlation` | 2 PIDs, 1 table slot, 2 generations, clock to 2 | verdicts current and never weakened, each generation live or archived exactly once, parent links and results attached to the right execution |
| `correlation_evidence` | 1 PID, 3 keys, caps 1 and 2 | each key counts once, up to its cap |
| `response_concurrent` | 2 threads, 1 PID, 2 correlations, cap 1 | signals only to the bound process; descriptors owned once |
| `response_serial` | 1 thread, 2 PIDs, a protected one, all recommendations | growing ranks, every response ends |
| `quarantine_custody` | 2 callers, 2 paths, all faults, crashes | no file lost; success isolates; a failed call leaves nothing |
| `quarantine_lifecycle` | 1 caller, all operations and faults, corruption | restored bytes are the ones taken; status agrees with the payload |
| `audit` | 2 processes, 1 backup, 3 records, tampering, crashes | chain intact, acknowledged records kept and coverage truthful, calls end |
| `fanotify` | 2 executions, pools of one thread, all kinds of file | each answer to its own process, justified denials, truthful records, real saturation, every event answered |
| `analysis` | 2 files, one change at any moment, about 370 PE headers and layouts | evidence of one file, blocks counted, PE report exact, verdict justified |
| `telemetry` | 2 CPUs, buffers of 1, queue of 1, 3 records, clock to 3 | losses counted exactly, renames deduplicated, summaries equal their definition over the history |
| `service` | 2 connections, 1 slot, GUI and another program, start and stop | answers true of the daemon, authorized effects, `stop()` leaves no unseen worker, **slots refine `AdmissionControl`**, refreshes end |
| `windows` | 1 root, 2 names, 1 worker, 1 place, 1 fault | changes told once and renames paired, verdict of one version, **the semaphore refines `AdmissionControl`**, every event recorded |

Why the bounds are enough to be interesting. Two generations of a PID and one table
slot make supersession, late binding, expiry and eviction compete for one entry; one
PID with two incarnations and two images is the smallest case in which identities
can be confused; two descriptor numbers are enough for reuse while an old analysis
still runs; one slot makes the second event, client or analysis saturate; three
records over one backup reach rotation, retention and the removal of the chain's
beginning. In `telemetry` three records on two CPUs are the least that reach
`publish_event` out of timestamp order with the window expiring between them, and a
queue of one makes both kinds of loss happen together. In `analysis` header fields
take values below, at and above each limit, and two or three sections and a
certificate lie at every relative position around the ends of headers and file; the
denial threshold is lowered so that entropy and location together reach it, which
with the shipped 70 they cannot. In `windows` two operations and one fault are enough
for a rename whose halves are separated by an overflow or a failed read. The policy
weights of `MCCorrelation` keep the shipped thresholds (40, 70, 90) with caps a few
keys exceed. Correlation events carry no key in `correlation` (only execs, exits and
child links) to keep it small; keyed evidence has its own run and a proof. Symmetry
is used over values that all actions and properties treat alike, never in a run
with a liveness property.

Fairness. A thread inside a call goes on (weak fairness of its steps; the interpreter
schedules every runnable thread): in `ResponseEngine`, `Fanotify` and `AuditLog` the
threads inside a call, in `Gui` the server's threads, the pool and the UI thread, in
`WindowsMonitor` the watchers, the executor and the caller of `stop()`. A client's wait
is bounded by its socket timeout, so `ReadReply \/ GiveUp` is fair. `AuditLog` also
assumes that the kernel does not pass over a process blocked in flock for ever (strong
fairness of `Acquire`). Nothing is assumed of processes (they may ignore SIGTERM), of
analyses in `Fanotify` (they may hang), of users, of other programs, of faults, of
crashes or of anybody calling `stop()`.

## 5. Proofs

`CorrelationProofs`, `ResponseEngineProofs`, `QuarantineProofs`, `AuditLogProofs`,
`FanotifyProofs`, `EvidenceProofs`, `IpcProofs` and `WindowsProofs` hold for every finite set of
PIDs, events, descriptor numbers and clients, for all keys, threads, processes, paths, files,
images, watched roots and workers, every policy allowed by the named assumptions and every bound. Where a theorem has a
hypothesis, the property is false without it, and the text says which behaviour of the code
makes it so.

*Correlation.* `CorrelationInv` is the conjunction of the type invariant and of what
the engine's consistency rests on: the stored verdict is the one `Recalculate` would
give (`VerdictExplained`), evidence sets within their caps, live PIDs finite and at
most `MaxStates`, generations of live and archived states disjoint and together
`1..generation[p]`, parent links to earlier generations. The invariants alone are not
inductive: `VerdictIsCurrent` needs the evidence bounds, accounting needs that a live
generation is the current one. Each operation is shown to preserve it through a lemma
on the state it builds (`NewState`, `LateBound`, `ExecObserved`, ...). The two action
properties `VerdictNeverWeakens` and `PreExecutionBoundOnce` follow from it.

*Response engine.* `ResponseInv` adds to the type invariant what a thread knows at each
program counter: a captured identity is one the PID had, and from `pidfd_open` on the
pidfd refers to an incarnation fixed until the signal. `SignalsCorrect` is the main
result: a signal reaches only the bound process, never a protected PID.
`BindingsCorrect` bounds the table. `DescriptorsOwnedOnce` needs more than the property
says: a thread holds a descriptor of its own only between the open and the insertion, so
that the eviction loop, a rebind, `release_binding` and `close()` find each number in one
binding and nowhere else (`FdInv`). `DuplicatesNeverRun` is stated for one consumer thread:
`RankInv` ties the rank a thread is about to execute to the highest one recorded, and a
second thread may pass the check between the two critical sections.

*Quarantine.* A quarantine has a dozen steps, each of which may fail, be followed by a
crash, or meet another caller, so the proofs share one invariant, `Base`: no two paths or
holding names lead to one inode, nor do two names of the vault, and no name of the vault
leads to a user's file; an id belongs to one quarantine, and an unused one has left no
trace; each caller's local variables
agree with the names its program counter says it made; and all hashes recorded for one id
(opened, copied, in the record, delivered) are of one file (`AgreeInv`). From `Base` alone follow
`QuarantineTyped`, `QuarantineIsolates` and `RestoreDelivers`. Three properties need more:
`NothingIsLost` adds where the bytes are while a quarantine is under way (`CustodyInv`: the
temporary copy is complete before the original's name goes) and holds while nobody restores,
because the rollback of a failed restoration checks the target and then unlinks it, so that
a file the user put there in between is removed. `FailedQuarantineLeavesNothing` holds while
only quarantines run: a restoration or deletion that fails keeps the item and must.
`StatusIsTruthful` follows payload and record of an item through each phase (`PhaseOK`) and,
between calls, says the item can be restored, is gone, or was reported incomplete
(`Settled`); it is stated for one caller and no crash, since a crash or a second caller in the
middle of a deletion leaves the two apart (see 6).

*Audit log.* `ChainInv` says of the whole log, retained and active, that each line is
chained to the one before, that only the last line of all may be incomplete, that an entry
is built only by the holder of the flock, and that until it is written it continues the log
as it stands. `ChainContinues` follows for any number of
processes and any policy, unless an append may be cut exactly before its newline.
`AcknowledgedKept` adds `WindowInv`: once retention has removed a record, the first line
retained is not a genesis line, so verification reports a retained window; this needs
`backup_count > 0` (see 6).

*Fanotify.* The properties speak of answers, but an answer is addressed by a descriptor
number. `FanotifyInv` therefore adds: while the controller holds an event, its number and
the event refer to each other, and to nothing else (`Custody`); an event has an answer
exactly when its handler is past the write or the group is closed (`AnswerSound`), so at
the write the event is the only one waiting under its number (lemma `AloneWaiting`); a
requested or final `DENY` is justified, and while the mode is `ENFORCEMENT` every event
under way counts as exposed (`DecisionSound`); an analysis still awaited has read its own
event's file (`JobSound`); slots and submitted events add up to `max_pending_events`
while the reader lives (`SlotsSound`). `AnswersCorrect`, `DescriptorsCorrect`,
`DenialsCorrect`, `RecordsCorrect` and `SaturationCorrect` follow.

*Scoring and static analysis.* For every policy `validate` accepts: the score lies in 0..100
and grows with the evidence (`ScoreInRange`); although the gate turns some high scores into
warnings, more evidence never leads to a weaker decision (`DecisionMonotone`); and every
verdict of a scan is justified (`VerdictsCorrect`), by the invariant that a finished scan's
result is `ScoreScan` of its status and indicators. That a denial rests on static evidence
(`DenialNeedsStaticEvidence`) needs `GateMeaningful`: `validate` accepts a policy whose
gate is 0 or that puts an entropy rule into the static category, and under such a policy
entropy alone denies. `EvidenceIsOfOneFile` holds because every read of a trusted scan goes
through the descriptor of the event (`OneFileInv`). `BlocksCorrect` is about arithmetic the
run can only sample: for every file size, block size and chunk size, `CountInv` says that
bytes read are whole blocks plus the carry, and that the blocks reported so far are the ones
the sampling rule selects among those counted. `InspectExact` is about the 18 checks of
`pe.py`: `_inspect` reports COMPLETE exactly for the images that are `WellFormed`, a definition
that knows neither their order nor the sort. Its core is that comparing neighbours of the
sorted ranges is enough: of two sections that overlap, the earlier one also runs into its
successor in the order, whose existence is a least element (lemma `Least`).
`PeReportsCorrect` carries this to the report of a scan, by an invariant on what a trusted
scan has read.

*Telemetry.* `DataTyped` types the variables and bounds the containers
(`TelemetryWithinLimits`: a record enters a buffer that holds fewer than `RingSize`, a process
takes the place of the victim `Victims` chose). `RenamesCorrect` needs `RenameInv`: each table
entry is a rename that passed, and for each rename that passed, either the table remembers
its fingerprint with that time or a later pass, or a rename more than a window after it was
processed since. A rename that is not late cannot then meet a forgotten twin, although the
table drops entries in processing order. `LossesCorrect` needs to know where every record is: `Placed`
says a record is once in one buffer, or among those queued, ingested or discarded, never
twice, so that a refused record becomes missing at the moment it is counted; `Balanced` is the
account itself, in which a loss is a pair of its CPU and a number, so that the sum over CPUs
is a cardinality. That what a buffer announces changes by one notice at a time is proved of the
recursive `Announced` (`TotalsExist`, `TotalsShift`). `SummariesCorrect` needs `Tracks`: besides the
property, `last_seen` is at least the time of every event of the process, and each covered
event is followed by, or is, one at exactly that time. This ties `expire`, which looks at `last_seen`, to
`Covered`, which looks for a gap in the history; lemma `AccountsAdd` shows that counters and
the capped set of files then follow one event at a time.

*IPC.* The run `service` checks that the client slots refine `AdmissionControl` with
one slot; `SlotsAreAGate` proves the safety part for any number of clients and slots: the
initial state maps to the gate's, and every step of server, workers, clients, `stop()` and
GUI to `Admit`, `Refuse`, `Leave`, `Return` or to nothing. A step of the code counts
semaphore permits, a step of the gate counts connections; `SlotInv` ties them together
(free slots plus held connections make `MaxClients`) and adds what keeps the sum right:
the connection the accept thread is about to start is still the accepted one, and an idle
client has no connection. `SlotsAddUp` states the sum itself: no slot is leaked or released
twice. `StopIsClean` adds that a served connection has a registered thread and that, once
`stop()` has taken its snapshot, every such thread is in it (`StopInv`). `OutcomesTrue`
follows a request from the check that fails first, through authorization and the handler, to
the answer read by its own client (`TruthInv`); what other clients do in between can only
delete the item, never undo a change. `RefreshFlagSound` is the safety half of
`RefreshesEnd`: until the window is closed, the in-flight flag of the dashboard is up exactly
while a refresh is queued, at work or about to be delivered, so no refresh leaves it behind.

*Windows monitor.* `Base` says that a watcher deals with names of its own root and that
every event with a place is in exactly one hand: its watcher's, the queue's or one worker's.
`PendingIsAGate` is the safety part of `PendingImplementsAdmission` without a bound on the
number of events: `PlaceInv` ties the semaphore's permits to the events that hold a place
(`PlacesAddUp`). `VerdictsOfOneVersion` rests on `Steady`: no version comes back, so if the file
is what it was at the first lstat, all that was read since is of that version; this holds
with and without the lock of the path. `ChangesAreReported` needs four invariants.
`PhaseInv` says how far the monitor was started and that a watcher has at most two messages
to send. `FlowInv` is about the notifications of a root, in the watcher's buffer and then in
the kernel: none was taken before, none comes twice, an operation is reported to one root, and
the old name of a rename stands just before its new name or, once taken, waits as the first
thing the new name will meet; losses cut this flow at its front or empty it, and so keep it.
`SourceInv` says that each message and each record comes from a notification taken, and that
a rename has its own old name if that was taken. `TellInv` says that a notification taken is
told by one record, or by one message about to be sent, or as the old name that waits; each
step of a watcher leaves it where it is or moves it on. After `stop()` has cleared the flags
the last is false, as an old name may be dropped (see 6).

Every invariant and action property the runs check is a theorem. Not proved, only
model-checked: the liveness properties `ResponsesComplete`, `CallsComplete`, `EventsAnswered`,
`EventsRecorded` and `RefreshesEnd`, and the fairness of the two refinements (both out of the
prover's reach). The library's induction theorems take a predicate, which the installed
provers cannot instantiate; where a proof is by induction on numbers it uses the lemma
`Induction`, in which the predicate is a set, derived from `WFMin`.
The type invariants and the bounds on the two tables (`TableBounded`, `BindingsBounded`)
of the proved modules are theorems and are not repeated in the runs.

## 6. Where code and documents differ

Met while modelling; the models contain the steps, and no property claims what does
not hold:

- a process that exits between the identity check and the signal makes
  `pidfd_send_signal` raise `ProcessLookupError` (`response/engine.py:252`), which nothing
  catches: the action has no result, and the consumer thread ends
  (`docs/stage11_response_engine.md:16`: every action produces a structured audit result);
  the same end comes when the file is unlinked while `_open_file_identity` resolves it
  again (`response/engine.py:398`);
- with two consumer threads a duplicate response is executed
  (`docs/stage11_response_engine.md:37`), and a binding may be closed under a pending
  quarantine (line 34);
- an `AuditIntegrityError` raised while the fanotify reader records a saturated or
  overflow event is not caught (`monitor/fanotify/controller.py:359`): the reader ends with
  the group open, and later executions wait for ever (`docs/architecture.md:21`: every
  event receives a response); `daemon.py:223` has the same gap for the consumers;
- corrupt audit segments are moved one by one (`audit/audit_logger.py:554`); a crash in
  between leaves newer segments that verify as a retained window, so the untrusted chain is
  continued without a recovery record (`docs/stage12_audit_logging.md:26-27`);
- a record cut just before its newline is joined with the next one; `rotate()` after a
  failed append puts the partial line out of the repair's reach (lines 29-31); with
  `backup_count=0` a rotated chain claims genesis coverage (lines 36-37);
- a denied execution becomes ACTIVE again on a later exec event
  (`docs/stage10_runtime_correlation.md:36-37`);
- a deletion whose last fsync fails reports "failed safely" with the payload gone, and a
  crash during one leaves the payload at its pending name for good;
  a restoration and a deletion of one item may end with the record of the one and
  the payload of the other (`docs/stage5_quarantine.md:72-73`);
- when the old name of a rename is lost in an overflow while an earlier old name waits, the
  new name is paired with that one (`monitor/windows/events.py:39-41` promises a pair only
  when it is reliable); an old name that waits when `stop()` comes is not reported;
- after a failed poll the daemon goes on reporting `ebpf_active`
  (`monitor/ebpf/collector.py:320`);
- `stop()` of the IPC server raises when a thread is registered and not yet started
  (`service/ipc_server.py:123`), and the socket file stays;
- a refresh clears the GUI's busy state while a restoration runs (`gui/controller.py:117`).

## 7. Not modelled

Byte-level formats (JSON, ELF beyond what pyelftools answers), path normalisation,
hashing (numbers that never collide), clocks other than those of the correlation engine
and of telemetry, widgets and texts of the GUI, AI, signatures, release and measurement
tools, host checks and kernel-header unpacking, installation scripts. Of modelled parts:
a second request on one IPC connection (the repository's client sends none), the exit of
the process after `stop()`, the collector's `self_test`, an injected ETW session, the
entropy-only Windows analyzer nothing constructs by default, a second `start()` of the
Windows monitor after `stop()` (its executor is shut down for good, so every analysis would
end in ERROR). Of the audit chain, an append that fails exactly before its newline is a
step of the model that the run leaves out (see 6). `respond()` on a group that is being
closed may fail in the model; that its number may by then belong to another file
(`monitor/fanotify/syscalls.py:321`) is not modelled. Reads that change nothing
(`get_state`, `list`, `summary`, status snapshots) are left out everywhere.

## 8. Plan

1. `Daemon`: the two queues, the two consumers, correlation and response composed; an
   abstract specification of "one execution, one verdict, at most one response of each
   rank", and the refinement from the composition to it.
2. Two requests on one IPC connection, and a larger instance with two slots.
