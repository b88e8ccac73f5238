------------------------------ MODULE AuditLog ------------------------------
(***************************************************************************)
(* The audit log (src/elyra/audit/audit_logger.py): a chain of records     *)
(* over an active file and its rotated segments, appended to by several    *)
(* processes under one flock, any of which may crash or see a write fail   *)
(* part way.                                                               *)
(*                                                                         *)
(* The log is the sequence of the retained lines, oldest first; each line  *)
(* carries the number of its segment, and the lines of segment `cur` are   *)
(* the active file.  A hash is a number that no two entries share, 0 is    *)
(* ZERO_HASH.  The kinds of a line:                                        *)
(*   ok      a complete record                                             *)
(*   nonl    a complete record without its newline                         *)
(*   frag    a record cut short, without a newline                         *)
(*   joined  a record written after a nonl line: one line, not JSON        *)
(*   bad     a record changed on disk by somebody else, still JSON         *)
(*                                                                         *)
(* A definition just before another of nearly the same name is a plausible *)
(* defect, used only to test that the properties notice it.                *)
(***************************************************************************)
EXTENDS Integers, Sequences, FiniteSets

CONSTANTS
  Loggers,      \* processes with an AuditLogger on the same directory
  BackupCount,  \* backup_count: rotated segments retained
  MaxLines,     \* max_bytes, in lines
  Policies,     \* the corruption_policy values loggers are made with
  Partial,      \* how an append may be cut short: a subset of {"frag", "nonl"}
  Tampering,    \* whether somebody changes a line on disk
  MaxRecords,   \* bound on the entries built, recovery records apart
  None

Kinds == {"ok", "nonl", "frag", "joined", "bad"}

Line == [seg : Nat, hash : Nat, prev : Nat, sequence : Nat, kind : Kinds]

Entry == [hash : Nat, prev : Nat, sequence : Nat]

ASSUME ConfigAssumption ==
  /\ BackupCount \in Nat /\ MaxLines \in Nat \ {0} /\ MaxRecords \in Nat
  /\ Policies \subseteq {"raise", "quarantine"}
  /\ Partial \subseteq {"frag", "nonl"}
  /\ Tampering \in BOOLEAN
  /\ None \notin Entry /\ None \notin Loggers

VARIABLES
  log,       \* the retained lines
  cur,       \* the segment number of the active file
  lock,      \* the logger holding the flock, or None
  pc,        \* what each logger is doing
  starting,  \* the loggers whose __init__ has not returned
  mem,       \* _last_hash and _last_sequence of each logger
  entry,     \* the entry each logger is appending, or None
  made,      \* count of the entries built
  acked,     \* history: hashes returned by record()
  dropped,   \* history: hashes removed by retention
  corrupt,   \* hashes of the lines moved to the corrupt directory
  windowed,  \* history: retention removed a record of the current chain
  tampered   \* history: the hashes of the lines changed on disk

vars == <<log, cur, lock, pc, starting, mem, entry, made, acked, dropped, corrupt, windowed, tampered>>

PCs == {"stopped", "ready", "wait", "tail", "rotate", "retain", "append", "sync", "quarantine"}

At(l, p) == pc[l] = p
Goto(l, p) == pc' = [pc EXCEPT ![l] = p]
Holds(l) == lock = l

\* A locked section ends; an exception in __init__ leaves no logger behind.
Succeed(l) == Goto(l, "ready") /\ lock' = None /\ starting' = starting \ {l}

\* With LOCK_UN missed by an exception.
FailLocked(l) ==
  /\ Goto(l, IF l \in starting THEN "stopped" ELSE "ready")
  /\ lock' = lock /\ starting' = starting \ {l}

Fail(l) ==
  /\ Goto(l, IF l \in starting THEN "stopped" ELSE "ready")
  /\ lock' = None /\ starting' = starting \ {l}

Last(s) == s[Len(s)]
Active(i) == log[i].seg = cur
Hashes(s) == {s[i].hash : i \in 1..Len(s)}
-----------------------------------------------------------------------------
(* verify_audit_directory.                                                 *)

LineOK(s, i) ==
  /\ s[i].kind = "ok"
  /\ i > 1 => s[i].prev = s[i - 1].hash /\ s[i].sequence > s[i - 1].sequence

Verified(s) == \A i \in 1..Len(s) : LineOK(s, i)

Coverage(s) == IF s = <<>> \/ s[1].prev = 0 THEN "FULL_FROM_GENESIS" ELSE "RETAINED_WINDOW"
-----------------------------------------------------------------------------
(* Startup.                                                                *)

Unterminated(line) == line.kind \in {"nonl", "frag"}

\* Truncating the file at the start of its last line, terminated or not.
RepairedAlways(s) ==
  IF s # <<>> /\ Last(s).seg = cur THEN SubSeq(s, 1, Len(s) - 1) ELSE s

\* _repair_active_trailing_partial_locked: only the active file is repaired.
Repaired(s) ==
  IF s # <<>> /\ Last(s).seg = cur /\ Unterminated(Last(s)) THEN SubSeq(s, 1, Len(s) - 1) ELSE s

\* __init__: repair, verify, and either continue the chain, refuse to start, or
\* move the segments away and begin a new chain.
Start(l) ==
  LET s == Repaired(log)
      tail == IF s = <<>> THEN [hash |-> 0, sequence |-> 0]
              ELSE [hash |-> Last(s).hash, sequence |-> Last(s).sequence] IN
  /\ At(l, "stopped") /\ lock = None
  /\ log' = s
  /\ \/ /\ Verified(s)
        /\ Goto(l, "ready") /\ mem' = [mem EXCEPT ![l] = tail] /\ UNCHANGED <<lock, starting>>
     \/ ~Verified(s) /\ "raise" \in Policies /\ UNCHANGED <<pc, mem, lock, starting>>
     \/ /\ ~Verified(s) /\ "quarantine" \in Policies /\ made <= MaxRecords
        /\ Goto(l, "quarantine") /\ lock' = l /\ starting' = starting \cup {l}
        /\ mem' = [mem EXCEPT ![l] = [hash |-> 0, sequence |-> 0]]
  /\ UNCHANGED <<cur, entry, made, acked, dropped, corrupt, windowed, tampered>>

\* The lines of the oldest segment are the first k of the log.
Oldest(k) ==
  /\ \A i \in 1..k : log[i].seg = log[1].seg
  /\ \A i \in (k + 1)..Len(log) : log[i].seg # log[1].seg

\* _quarantine_corrupt_segments_locked moves one segment at a time, then the
\* recovery record is appended.
QuarantineSegment(l) ==
  /\ At(l, "quarantine") /\ Holds(l)
  /\ \/ log = <<>> /\ Goto(l, "tail") /\ UNCHANGED <<log, corrupt, tampered, windowed>>
     \/ \E k \in 1..Len(log) :
          /\ Oldest(k)
          /\ corrupt' = corrupt \cup Hashes(SubSeq(log, 1, k))
          /\ tampered' = tampered \ Hashes(SubSeq(log, 1, k))
          /\ log' = SubSeq(log, k + 1, Len(log))
          /\ windowed' = (windowed /\ log' # <<>>)
          /\ UNCHANGED pc
  /\ UNCHANGED <<cur, lock, starting, mem, entry, made, acked, dropped>>
-----------------------------------------------------------------------------
(* record() and rotate().                                                  *)

Record(l) ==
  /\ At(l, "ready") /\ made < MaxRecords
  /\ Goto(l, "wait")
  /\ UNCHANGED <<log, cur, lock, starting, mem, entry, made, acked, dropped, corrupt, windowed, tampered>>

Acquire(l) ==
  /\ At(l, "wait") /\ lock = None
  /\ lock' = l /\ Goto(l, "tail")
  /\ UNCHANGED <<log, cur, starting, mem, entry, made, acked, dropped, corrupt, windowed, tampered>>

\* The values of the last record this logger knows of, however old.
TailOfMemory(l) == mem[l]

\* _tail_state_locked reads the last line of the newest nonempty segment.
TailOf(l) == IF log = <<>> THEN [hash |-> 0, sequence |-> 0]
             ELSE [hash |-> Last(log).hash, sequence |-> Last(log).sequence]

ActiveLength == LET active == {i \in 1..Len(log) : Active(i)}
                IN  IF active = {} THEN 0
                    ELSE Len(log) + 1 - (CHOOSE i \in active : \A j \in active : i <= j)

\* A tail that does not parse raises AuditIntegrityError.
TailUnreadable == log # <<>> /\ Last(log).kind \in {"frag", "joined"}

\* _append_record_locked up to the append: the tail is read again, so that the
\* entries of other processes are chained to.  An unreadable tail and a record
\* over max_record_bytes raise.
ReadTail(l) ==
  /\ At(l, "tail") /\ Holds(l)
  /\ \/ TailUnreadable /\ Fail(l) /\ UNCHANGED <<mem, entry, made>>
     \/ /\ ~TailUnreadable
        /\ mem' = [mem EXCEPT ![l] = TailOf(l)]
        /\ \/ Fail(l) /\ UNCHANGED <<entry, made>>
           \/ /\ made' = made + 1
              /\ entry' = [entry EXCEPT ![l] = [hash |-> made + 1, prev |-> TailOf(l).hash,
                                                sequence |-> TailOf(l).sequence + 1]]
              /\ Goto(l, IF ActiveLength >= MaxLines THEN "rotate" ELSE "append")
              /\ UNCHANGED <<lock, starting>>
  /\ UNCHANGED <<log, cur, acked, dropped, corrupt, windowed, tampered>>

\* rotate(), called by an operator; an empty active file is not rotated.
RotateCall(l) ==
  /\ At(l, "ready") /\ lock = None
  /\ ActiveLength > 0
  /\ lock' = l /\ Goto(l, "rotate")
  /\ UNCHANGED <<log, cur, starting, mem, entry, made, acked, dropped, corrupt, windowed, tampered>>

\* os.replace gives the active file the next segment's name.
RotateRename(l) ==
  /\ At(l, "rotate") /\ Holds(l)
  /\ cur' = cur + 1
  /\ Goto(l, "retain")
  /\ UNCHANGED <<log, lock, starting, mem, entry, made, acked, dropped, corrupt, windowed, tampered>>

Rotated == {log[i].seg : i \in 1..Len(log)} \ {cur}

OverRetention == Cardinality(Rotated) > BackupCount

\* The loop of _rotate_locked unlinks the oldest segment while there are too many.
Retain(l) ==
  /\ At(l, "retain") /\ Holds(l) /\ OverRetention
  /\ \E k \in 1..Len(log) :
       /\ Oldest(k)
       /\ dropped' = dropped \cup Hashes(SubSeq(log, 1, k))
       /\ tampered' = tampered \ Hashes(SubSeq(log, 1, k))
       /\ log' = SubSeq(log, k + 1, Len(log))
  /\ windowed' = TRUE
  /\ UNCHANGED <<cur, lock, pc, starting, mem, entry, made, acked, corrupt>>

\* _rotate_locked returns, to rotate() or to the append it made room for.
RotateEnd(l) ==
  /\ At(l, "retain") /\ Holds(l) /\ ~OverRetention
  /\ \/ entry[l] = None /\ Succeed(l)
     \/ entry[l] # None /\ Goto(l, "append") /\ UNCHANGED <<lock, starting>>
  /\ UNCHANGED <<log, cur, mem, entry, made, acked, dropped, corrupt, windowed, tampered>>

\* Bytes are added at the end of the active file: after a line without a
\* newline they continue that line.
Appended(e, kind) ==
  IF log # <<>> /\ Last(log).seg = cur /\ Last(log).kind = "nonl"
  THEN [log EXCEPT ![Len(log)].kind = IF kind = "ok" THEN "joined" ELSE "frag"]
  ELSE Append(log, [seg |-> cur, hash |-> e.hash, prev |-> e.prev, sequence |-> e.sequence,
                    kind |-> kind])

\* _append_bytes_locked: the whole line, or a part of it and an OSError, or
\* nothing and an OSError.
AppendBytes(l) ==
  /\ At(l, "append") /\ Holds(l)
  /\ \/ log' = Appended(entry[l], "ok") /\ Goto(l, "sync") /\ UNCHANGED <<lock, starting, entry>>
     \/ /\ \/ \E kind \in Partial : log' = Appended(entry[l], kind)
           \/ UNCHANGED log
        /\ Fail(l) /\ entry' = [entry EXCEPT ![l] = None]
  /\ UNCHANGED <<cur, mem, made, acked, dropped, corrupt, windowed, tampered>>

\* The file's or the directory's fsync fails, or the hash is returned.
Sync(l) ==
  /\ At(l, "sync") /\ Holds(l)
  /\ entry' = [entry EXCEPT ![l] = None]
  /\ \/ /\ Succeed(l)
        /\ acked' = acked \cup {entry[l].hash}
        /\ mem' = [mem EXCEPT ![l] = [hash |-> entry[l].hash, sequence |-> entry[l].sequence]]
     \/ Fail(l) /\ UNCHANGED <<acked, mem>>
  /\ UNCHANGED <<log, cur, made, dropped, corrupt, windowed, tampered>>

\* The kernel drops a dead process's flock.
UnlockedBy(l) == IF Holds(l) THEN None ELSE lock

Crash(l) ==
  /\ ~At(l, "stopped")
  /\ Goto(l, "stopped")
  /\ lock' = UnlockedBy(l)
  /\ starting' = starting \ {l}
  /\ entry' = [entry EXCEPT ![l] = None]
  /\ mem' = [mem EXCEPT ![l] = [hash |-> 0, sequence |-> 0]]
  /\ UNCHANGED <<log, cur, made, acked, dropped, corrupt, windowed, tampered>>

\* Somebody changes a record on disk, once.
Tamper(i) ==
  /\ Tampering /\ tampered = {} /\ corrupt = {}
  /\ log[i].kind = "ok"
  /\ log' = [log EXCEPT ![i].kind = "bad"]
  /\ tampered' = {log[i].hash}
  /\ UNCHANGED <<cur, lock, pc, starting, mem, entry, made, acked, dropped, corrupt, windowed>>
-----------------------------------------------------------------------------
Init ==
  /\ log = <<>> /\ cur = 1 /\ lock = None
  /\ pc = [l \in Loggers |-> "stopped"] /\ starting = {}
  /\ mem = [l \in Loggers |-> [hash |-> 0, sequence |-> 0]]
  /\ entry = [l \in Loggers |-> None]
  /\ made = 0
  /\ acked = {} /\ dropped = {} /\ corrupt = {} /\ tampered = {}
  /\ windowed = FALSE

\* The steps of a call under way.
Proceed(l) ==
  \/ QuarantineSegment(l) \/ Acquire(l) \/ ReadTail(l) \/ RotateRename(l) \/ Retain(l)
  \/ RotateEnd(l) \/ AppendBytes(l) \/ Sync(l)

Next ==
  \/ \E l \in Loggers : Start(l) \/ Record(l) \/ RotateCall(l) \/ Proceed(l) \/ Crash(l)
  \/ \E i \in 1..Len(log) : Tamper(i)

\* A logger inside a call goes on, unless it crashes, and the kernel does not pass
\* over a process blocked in flock for ever.
Fairness == \A l \in Loggers : WF_vars(Proceed(l)) /\ SF_vars(Acquire(l))

Spec == Init /\ [][Next]_vars /\ Fairness
-----------------------------------------------------------------------------
(* Properties.                                                             *)

\* Type correctness.
TypeOK ==
  /\ log \in Seq(Line) /\ cur \in Nat
  /\ lock \in Loggers \cup {None}
  /\ pc \in [Loggers -> PCs] /\ starting \subseteq Loggers
  /\ mem \in [Loggers -> [hash : Nat, sequence : Nat]]
  /\ entry \in [Loggers -> Entry \cup {None}]
  /\ made \in Nat
  /\ {acked, dropped, corrupt, tampered} \subseteq SUBSET Nat
  /\ windowed \in BOOLEAN

\* docs/stage12_audit_logging.md: the hash chain continues across rotated files.
\* As long as nobody else changes the files, each retained line is chained to the
\* one before with the next sequence number, whichever process wrote it and
\* whatever failed or crashed, and only the last line may be incomplete.
ChainIntact ==
  tampered = {} =>
    \A i \in 1..Len(log) :
      /\ log[i].kind = "ok" \/ (i = Len(log) /\ Unterminated(log[i]))
      /\ i > 1 => /\ log[i].prev = log[i - 1].hash
                  /\ log[i].sequence = log[i - 1].sequence + 1

\* A record whose hash record() returned is still in the log, was moved to the
\* corrupt directory, or was removed by retention, and then verification says
\* RETAINED_WINDOW (docs/stage12_audit_logging.md): no repair, rotation, crash or
\* concurrent writer loses a record, and no missing one is passed over.
AckedAccounted ==
  /\ acked \subseteq Hashes(log) \cup dropped \cup corrupt
  /\ windowed => Coverage(log) = "RETAINED_WINDOW"

\* A call of record() that waits for the lock comes to an end, even if the
\* process that holds the lock dies (_exclusive_process_lock).
CallsComplete == \A l \in Loggers : At(l, "wait") ~> (At(l, "ready") \/ At(l, "stopped"))
=============================================================================
