------------------------------ MODULE Telemetry ------------------------------
(***************************************************************************)
(* The run-time telemetry path of the Linux sensor: the kernel probes      *)
(* (monitor/ebpf/probes.c), the per-CPU perf buffers, the collector that   *)
(* decodes, deduplicates and filters (monitor/ebpf/collector.py), its      *)
(* loader (loader.py), the bounded queue, and the daemon thread that       *)
(* drains it into the aggregator (aggregator.py, service/daemon.py).       *)
(*                                                                         *)
(* Actors: the monitored processes (Emit), the daemon's main thread        *)
(* (Load, AttachProbes, Start, Stop, StopDaemon), the polling thread       *)
(* (Receive, ReportLoss, PollExit, PollFail) and the consumer (Consume,    *)
(* ConsumerExit).  A perf buffer keeps the order of its CPU; nothing       *)
(* orders two CPUs, so records reach publish_event out of timestamp order. *)
(***************************************************************************)
EXTENDS Integers, Sequences, FiniteSets

CONSTANTS Cpus,               \* one perf buffer each
          Activity,           \* what processes do: [kind, tgid, pid, ppid, uid, name]
          IgnoredTgids, MonitoredUids, MonitoredTgids,
          IncludeDescendants,
          MaxTracked,         \* max_tracked_processes
          QueueSize,          \* the collector's queue
          RingSize,           \* records one perf buffer holds
          Window,             \* _rename_dedup_window_ns
          Ttl, MaxStates, MaxFiles,   \* the aggregator's limits
          MaxEvents, MaxClock,        \* bounds of the instance
          Null

Kinds == {"PROCESS_EXEC", "PROCESS_EXIT", "FILE_WRITE", "FILE_RENAME",
          "NETWORK_CONNECT"}

(***************************************************************************)
(* The limits are those a configuration may have; the window is positive.  *)
(***************************************************************************)
ASSUME LimitsAssumption ==
    /\ {MaxTracked, QueueSize, RingSize, MaxStates, MaxFiles} \subseteq Nat \ {0}
    /\ {Window, Ttl, MaxEvents} \subseteq Nat /\ MaxClock \in Nat \ {0}
    /\ \A a \in Activity : a.kind \in Kinds /\ a.tgid \in Nat \ {0}
    /\ Null \notin Nat

VARIABLES
    clock,       \* the monotonic clock (bpf_ktime_get_ns, time.monotonic)
    emitted,     \* number of records submitted to an open buffer
    rings,       \* per CPU: the records and loss notices in its buffer
    overrun,     \* per CPU: records lost and not yet announced in the buffer
    bpf,         \* "none", "loaded", "attached", "open"
    maps,        \* the kernel maps hold the filter configuration
    degraded,    \* collector.degraded_reason
    stopping,    \* collector.stop_event
    poll,        \* the polling thread
    recent,      \* _recent_rename_events, oldest entry first
    ancestry,    \* _ancestry, oldest entry first
    queue,       \* event_queue
    dropped,     \* _dropped_events
    active,      \* daemon state: ebpf_active
    halted,      \* daemon._stop
    consumer,    \* the elyra-ebpf-events thread
    states,      \* aggregator.states: tgid -> summary of the process
    \* history variables
    renames,     \* rename records in processing order, with the verdict
    discarded,   \* records filtered out or suppressed on purpose
    ingested     \* what the aggregator was fed, with evictions

kernel    == <<clock, emitted, rings, overrun>>
lifecycle == <<bpf, maps, degraded, stopping, active, halted>>
filters   == <<recent, ancestry, queue, dropped, renames, discarded>>
sink      == <<states, ingested>>
vars == <<kernel, lifecycle, poll, consumer, filters, sink>>

Init ==
    /\ clock = 1 /\ emitted = 0
    /\ rings = [c \in Cpus |-> <<>>] /\ overrun = [c \in Cpus |-> 0]
    /\ bpf = "none" /\ maps = FALSE /\ degraded = Null /\ stopping = FALSE
    /\ poll = "none" /\ consumer = "none" /\ active = FALSE /\ halted = FALSE
    /\ recent = <<>> /\ ancestry = <<>> /\ queue = <<>> /\ dropped = 0
    /\ states = << >>
    /\ renames = <<>> /\ discarded = {} /\ ingested = <<>>

-----------------------------------------------------------------------------
(***************************************************************************)
(* The kernel side.                                                        *)
(***************************************************************************)

\* The in-kernel filter; without its maps every lookup misses.
ShouldEmit(a) ==
    maps => /\ a.tgid \notin IgnoredTgids
            /\ MonitoredUids = {} \/ a.uid \in MonitoredUids

IsNotice(x) == x.kind = "LOST"

\* The records among what a buffer or the queue holds.
Ids(s) == {s[i].id : i \in {j \in 1..Len(s) : ~IsNotice(s[j])}}

\* perf_submit on CPU c: a full buffer only counts the record; the count is
\* announced just before the next record that fits.  A notice is small beside a
\* record, so records alone count against the size.
Submit(c, e) ==
    LET notice == [kind |-> "LOST", count |-> overrun[c]]
        noted  == IF overrun[c] > 0 THEN Append(rings[c], notice) ELSE rings[c]
    IN IF Cardinality(Ids(rings[c])) >= RingSize
       THEN /\ overrun' = [overrun EXCEPT ![c] = @ + 1]
            /\ rings' = rings
       ELSE /\ rings' = [rings EXCEPT ![c] = Append(noted, e)]
            /\ overrun' = [overrun EXCEPT ![c] = 0]

\* fill_common: who did it, and when.
Sample(a) == [kind |-> a.kind, tgid |-> a.tgid, pid |-> a.pid, ppid |-> a.ppid,
              uid |-> a.uid, name |-> a.name, ts |-> clock, id |-> emitted + 1]

\* A process does a; the probe runs on the CPU it happens to be on.
Emit(c, a) ==
    /\ bpf = "open" /\ emitted < MaxEvents
    /\ ShouldEmit(a)
    /\ emitted' = emitted + 1
    /\ Submit(c, Sample(a))
    /\ UNCHANGED <<clock, lifecycle, poll, consumer, filters, sink>>

Tick ==
    /\ clock < MaxClock
    /\ clock' = clock + 1
    /\ UNCHANGED <<emitted, rings, overrun, lifecycle, poll, consumer,
                   filters, sink>>

-----------------------------------------------------------------------------
(***************************************************************************)
(* EBPFLoader.initialize, run by ElyraDaemon.start.  A failed stage leaves *)
(* its reason in degraded_reason, stops the collector and marks the        *)
(* component inactive.                                                     *)
(***************************************************************************)

\* The kernel has no usable exec or rename tracepoint.
TracepointFailures == {"TRACEPOINT_FORMAT_UNSUPPORTED"}

LoadFailures == TracepointFailures \cup
    {"BCC_PYTHON_BINDINGS_UNAVAILABLE", "KERNEL_HEADERS", "PROBE_SOURCE_MISSING",
     "BCC_LOAD_FAILED"}

\* _configure_maps swallows every error: the program may run unfiltered.
ConfigureMaps == maps' \in BOOLEAN

Load ==
    /\ bpf = "none" /\ degraded = Null /\ ~stopping
    /\ \/ /\ bpf' = "loaded" /\ ConfigureMaps
          /\ UNCHANGED degraded
       \/ /\ degraded' \in LoadFailures
          /\ UNCHANGED <<bpf, maps>>
    /\ UNCHANGED <<kernel, stopping, active, halted, poll, consumer,
                   filters, sink>>

\* A failure in attach_probes or start stops the collector again.
AttachProbes ==
    /\ bpf = "loaded" /\ degraded = Null /\ ~stopping
    /\ \/ bpf' = "attached" /\ UNCHANGED <<degraded, stopping>>
       \/ /\ degraded' = "PROBE_ATTACH_FAILED" /\ stopping' = TRUE
          /\ UNCHANGED bpf
    /\ UNCHANGED <<kernel, maps, active, halted, poll, consumer, filters, sink>>

\* open_perf_buffer, the polling thread, then the daemon's own consumer.
Start ==
    /\ bpf = "attached" /\ degraded = Null /\ ~stopping
    /\ \/ /\ bpf' = "open" /\ poll' = "polling"
          /\ active' = TRUE /\ consumer' = "running"
          /\ UNCHANGED <<degraded, stopping>>
       \/ /\ degraded' = "PERF_BUFFER_OPEN_FAILED" /\ stopping' = TRUE
          /\ UNCHANGED <<bpf, poll, active, consumer>>
    /\ UNCHANGED <<kernel, maps, halted, filters, sink>>

\* ebpf_loader.shutdown(), called by daemon.stop; the join may time out.
Stop ==
    /\ bpf = "open" /\ ~stopping
    /\ stopping' = TRUE
    /\ UNCHANGED <<kernel, bpf, maps, degraded, active, halted, poll, consumer,
                   filters, sink>>

\* The last statement of daemon.stop.
StopDaemon ==
    /\ stopping /\ active /\ ~halted
    /\ halted' = TRUE
    /\ UNCHANGED <<kernel, bpf, maps, degraded, stopping, active, poll,
                   consumer, filters, sink>>

-----------------------------------------------------------------------------
(***************************************************************************)
(* The polling thread.                                                     *)
(***************************************************************************)

\* _poll_loop: the flag is read between two polls only, so records may still
\* arrive after stop() set it.
PollExit ==
    /\ poll = "polling" /\ stopping
    /\ poll' = "exited"
    /\ UNCHANGED <<kernel, lifecycle, consumer, filters, sink>>

PollFail ==
    /\ poll = "polling"
    /\ poll' = "exited"
    /\ degraded' = IF stopping THEN degraded ELSE "PERF_POLL_FAILED"
    /\ UNCHANGED <<kernel, bpf, maps, stopping, active, halted, consumer,
                   filters, sink>>

\* _on_lost_events with a valid count.
ReportLoss(c) ==
    /\ poll = "polling" /\ rings[c] # <<>> /\ IsNotice(Head(rings[c]))
    /\ dropped' = dropped + Head(rings[c]).count
    /\ rings' = [rings EXCEPT ![c] = Tail(@)]
    /\ UNCHANGED <<clock, emitted, overrun, lifecycle, poll, consumer, recent,
                   ancestry, queue, renames, discarded, sink>>

-----------------------------------------------------------------------------
(***************************************************************************)
(* publish_event, in three parts: rename deduplication, ancestry and the   *)
(* filter.                                                                 *)
(***************************************************************************)

Fingerprint(e) == <<e.tgid, e.uid, e.name>>

\* An equivalent rename is remembered that is not older than the window;
\* a record older than the remembered one counts as equivalent too.
Duplicate(e) ==
    \E i \in 1..Len(recent) : /\ recent[i].fp = Fingerprint(e)
                              /\ e.ts - recent[i].ts <= Window

\* A plausible defect: the entries are not refreshed when a rename passes.
RememberFirstOnly(e) ==
    IF \E i \in 1..Len(recent) : recent[i].fp = Fingerprint(e) THEN recent
    ELSE Append(recent, [fp |-> Fingerprint(e), ts |-> e.ts])

\* An ordered dictionary without the entry at the one position in hits, if any.
Pop(entries, hits) ==
    LET i == CHOOSE x \in hits : TRUE
    IN IF hits = {} THEN entries
       ELSE SubSeq(entries, 1, i - 1) \o SubSeq(entries, i + 1, Len(entries))

\* The entry moves to the end, then entries before the cutoff leave the front.
Remember(e) ==
    LET others == Pop(recent, {i \in 1..Len(recent) : recent[i].fp = Fingerprint(e)})
        all    == Append(others, [fp |-> Fingerprint(e), ts |-> e.ts])
        kept   == {i \in 1..Len(all) : all[i].ts >= e.ts - Window}
        first  == CHOOSE i \in kept : \A j \in kept : i <= j
    IN SubSeq(all, first, Len(all))

\* The ancestry table without process p.
Untrack(known, p) == Pop(known, {i \in 1..Len(known) : known[i].tgid = p})

\* An exec records its parent as the newest entry; the oldest one may go.
Track(e) ==
    LET all == Append(Untrack(ancestry, e.tgid), [tgid |-> e.tgid, ppid |-> e.ppid])
    IN IF Len(all) > MaxTracked THEN Tail(all) ELSE all

Parent(known, p) ==
    LET hits == {i \in 1..Len(known) : known[i].tgid = p}
    IN IF hits = {} THEN 0 ELSE known[CHOOSE i \in hits : TRUE].ppid

\* The walk up the remembered parents: the processes it passes, 0 at the end.
Ancestors(known, p) ==
    LET up[n \in 0..Len(known)] == IF n = 0 THEN p ELSE Parent(known, up[n - 1])
    IN {up[n] : n \in 0..Len(known)} \ {0}

\* EbpfFilterConfig.accepts
Accepts(e, known) ==
    /\ {e.tgid, e.pid} \cap IgnoredTgids = {}
    /\ MonitoredUids = {} \/ e.uid \in MonitoredUids
    /\ \/ MonitoredTgids = {}
       \/ {e.tgid, e.pid} \cap MonitoredTgids # {}
       \/ IncludeDescendants /\ Ancestors(known, e.ppid) \cap MonitoredTgids # {}

\* The rename probes fill in neither device nor inode.
RenameKey == "0:0"

\* Only writes and renames carry a file key.
FileKey(e) == CASE e.kind = "FILE_WRITE"  -> e.name
                [] e.kind = "FILE_RENAME" -> RenameKey
                [] OTHER -> Null

\* A plausible defect: a record the full queue refuses is not counted.
EnqueueUncounted(e) ==
    /\ queue' = IF Len(queue) < QueueSize THEN Append(queue, e) ELSE queue
    /\ dropped' = dropped

\* put_nowait, or one more dropped event when the queue is full.
Enqueue(e) ==
    IF Len(queue) < QueueSize
    THEN queue' = Append(queue, e) /\ UNCHANGED dropped
    ELSE dropped' = dropped + 1 /\ UNCHANGED queue

Suppress(e) ==
    /\ renames' = Append(renames, [e |-> e, passed |-> FALSE])
    /\ discarded' = discarded \cup {e.id}
    /\ UNCHANGED <<recent, ancestry, queue, dropped>>

Publish(e) ==
    LET rename == e.kind = "FILE_RENAME"
        known  == IF e.kind = "PROCESS_EXEC" THEN Track(e) ELSE ancestry
    IN /\ recent' = IF rename THEN Remember(e) ELSE recent
       /\ renames' = IF rename THEN Append(renames, [e |-> e, passed |-> TRUE])
                     ELSE renames
       /\ ancestry' = IF e.kind = "PROCESS_EXIT"
                      THEN Untrack(known, e.tgid)
                      ELSE known
       /\ IF Accepts(e, known)
          THEN Enqueue(e) /\ UNCHANGED discarded
          ELSE discarded' = discarded \cup {e.id} /\ UNCHANGED <<queue, dropped>>

\* _on_raw_event: one record of one buffer, decoded and published.
Receive(c) ==
    /\ poll = "polling" /\ rings[c] # <<>> /\ ~IsNotice(Head(rings[c]))
    /\ rings' = [rings EXCEPT ![c] = Tail(@)]
    /\ LET e == Head(rings[c])
       IN IF e.kind = "FILE_RENAME" /\ Duplicate(e) THEN Suppress(e) ELSE Publish(e)
    /\ UNCHANGED <<clock, emitted, overrun, lifecycle, poll, consumer, sink>>

-----------------------------------------------------------------------------
(***************************************************************************)
(* The consumer thread and RuntimeTelemetryAggregator.                     *)
(***************************************************************************)

\* A plausible defect: a state whose age equals the limit goes already.
FreshStrict(known) == [t \in {x \in DOMAIN known : clock - known[x].seen < Ttl} |-> known[t]]

\* expire(): states unseen for more than the limit go.
Fresh(known) == [t \in {x \in DOMAIN known : clock - known[x].seen <= Ttl} |-> known[t]]

Forget(known, gone) == [t \in DOMAIN known \ gone |-> known[t]]

\* The state that makes room for a new process: one least recently seen.
Victims(known, t) ==
    IF t \in DOMAIN known \/ Cardinality(DOMAIN known) < MaxStates THEN {Null}
    ELSE {x \in DOMAIN known : \A y \in DOMAIN known : known[x].seen <= known[y].seen}

\* ingest(): the summary of the process after one more event.
Summary(old, e) ==
    [seen  |-> clock,
     count |-> old.count + 1,
     files |-> IF FileKey(e) # Null /\ Cardinality(old.files) < MaxFiles
               THEN old.files \cup {FileKey(e)} ELSE old.files,
     conns |-> old.conns + (IF e.kind = "NETWORK_CONNECT" THEN 1 ELSE 0)]

Ingest(e, victim) ==
    LET room == Forget(Fresh(states), {victim})
        old  == IF e.tgid \in DOMAIN room THEN room[e.tgid]
                ELSE [seen |-> clock, count |-> 0, files |-> {}, conns |-> 0]
    IN IF e.kind = "PROCESS_EXIT" THEN Forget(room, {e.tgid})
       ELSE [t \in DOMAIN room \cup {e.tgid} |->
                IF t = e.tgid THEN Summary(old, e) ELSE room[t]]

\* _consume_ebpf_events takes one event.  A damaged audit chain raises
\* AuditIntegrityError, which nothing catches: the thread ends.
Consume ==
    /\ consumer = "running" /\ ~halted /\ queue # <<>>
    /\ LET e == Head(queue)
       IN \E v \in Victims(Fresh(states), e.tgid) :
             /\ states' = Ingest(e, v)
             /\ ingested' = Append(ingested, [e |-> e, at |-> clock, evicted |-> v])
    /\ queue' = Tail(queue)
    /\ consumer' \in {"running", "dead"}
    /\ UNCHANGED <<kernel, lifecycle, poll, recent, ancestry, dropped, renames,
                   discarded>>

ConsumerExit ==
    /\ consumer = "running" /\ halted
    /\ consumer' = "exited"
    /\ UNCHANGED <<kernel, lifecycle, poll, filters, sink>>

-----------------------------------------------------------------------------
Next ==
    \/ \E c \in Cpus, a \in Activity : Emit(c, a)
    \/ \E c \in Cpus : Receive(c) \/ ReportLoss(c)
    \/ Tick \/ Load \/ AttachProbes \/ Start \/ Stop \/ StopDaemon
    \/ PollExit \/ PollFail \/ Consume \/ ConsumerExit

Spec == Init /\ [][Next]_vars

-----------------------------------------------------------------------------
(***************************************************************************)
(* Properties.                                                             *)
(***************************************************************************)

\* The losses that the notices in a buffer announce.
Announced(s) ==
    LET total[i \in 0..Len(s)] ==
            IF i = 0 THEN 0
            ELSE total[i - 1] + (IF IsNotice(s[i]) THEN s[i].count ELSE 0)
    IN total[Len(s)]

Records == [kind : Kinds, tgid : {a.tgid : a \in Activity},
            pid : {a.pid : a \in Activity}, ppid : {a.ppid : a \in Activity},
            uid : {a.uid : a \in Activity}, name : {a.name : a \in Activity},
            ts : 1..MaxClock, id : 1..MaxEvents]

\* Every variable holds a value of its kind, and the three bounded containers
\* of collector.py and aggregator.py stay within their limits.
TypeOK ==
    /\ clock \in 1..MaxClock /\ emitted \in 0..MaxEvents
    /\ \A c \in Cpus : /\ Cardinality(Ids(rings[c])) <= RingSize /\ overrun[c] \in Nat
                       /\ \A i \in 1..Len(rings[c]) :
                             IsNotice(rings[c][i]) \/ rings[c][i] \in Records
    /\ bpf \in {"none", "loaded", "attached", "open"} /\ maps \in BOOLEAN
    /\ degraded \in LoadFailures \cup {Null, "PROBE_ATTACH_FAILED",
                       "PERF_BUFFER_OPEN_FAILED", "PERF_POLL_FAILED"}
    /\ {stopping, active, halted} \subseteq BOOLEAN
    /\ poll \in {"none", "polling", "exited"}
    /\ consumer \in {"none", "running", "exited", "dead"}
    /\ Len(ancestry) <= MaxTracked /\ Len(queue) <= QueueSize
    /\ \A i \in 1..Len(queue) : queue[i] \in Records
    /\ dropped \in Nat
    /\ Cardinality(DOMAIN states) <= MaxStates

\* No telemetry record disappears without being counted (collector.py,
\* _on_lost_events and the queue.Full branch): the records that are neither
\* in flight, nor ingested, nor discarded on purpose are exactly as many as
\* dropped_events says, together with the losses the buffers still announce.
LossAccounted ==
    LET inFlight == (UNION {Ids(rings[c]) : c \in Cpus}) \cup Ids(queue)
        seen     == {ingested[i].e.id : i \in 1..Len(ingested)}
        missing  == (1..emitted) \ (inFlight \cup seen \cup discarded)
        pending  == UNION {{c} \X (1..(Announced(rings[c]) + overrun[c])) : c \in Cpus}
    IN Cardinality(missing) = dropped + Cardinality(pending)

\* Rename deduplication (publish_event): a rename that is not late (no rename
\* processed before it carries a later timestamp) is suppressed exactly when an
\* equivalent rename was let through at most one window before it, although
\* entries leave the table in processing order and not in timestamp order.
RenamesDeduplicated ==
    \A i \in 1..Len(renames) :
        LET r == renames[i]
            late == \E j \in 1..(i - 1) : renames[j].e.ts > r.e.ts
            twin == \E j \in 1..(i - 1) :
                        /\ renames[j].passed
                        /\ Fingerprint(renames[j].e) = Fingerprint(r.e)
                        /\ r.e.ts - renames[j].e.ts <= Window
        IN ~late => (r.passed <=> ~twin)

\* The events of process t that its summary should still cover: none of its
\* exits, no eviction and no silence longer than the limit came after them.
Covered(t) ==
    {i \in 1..Len(ingested) :
        /\ ingested[i].e.tgid = t
        /\ \A j \in i..Len(ingested) :
              /\ ~(ingested[j].e.tgid = t /\ ingested[j].e.kind = "PROCESS_EXIT")
              /\ ingested[j].evicted # t
              /\ j > i => \E k \in i..(j - 1) :
                             /\ ingested[k].e.tgid = t
                             /\ ingested[j].at - ingested[k].at <= Ttl}

\* The aggregator's incremental summaries (ingest, expire) agree with their
\* definition over the whole history: a process has a summary exactly when some
\* of its events are still covered, and it counts just those events.
SummariesMatchHistory ==
    \A t \in {a.tgid : a \in Activity} :
        LET cov  == Covered(t)
            keys == {FileKey(ingested[i].e) : i \in cov} \ {Null}
        IN /\ (t \in DOMAIN states) <=> (cov # {})
           /\ t \in DOMAIN states =>
                /\ states[t].count = Cardinality(cov)
                /\ states[t].conns = Cardinality({i \in cov :
                                        ingested[i].e.kind = "NETWORK_CONNECT"})
                /\ states[t].files \subseteq keys
                /\ Cardinality(states[t].files) = IF Cardinality(keys) < MaxFiles
                                                  THEN Cardinality(keys) ELSE MaxFiles
=============================================================================
