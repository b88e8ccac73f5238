----------------------------- MODULE Quarantine -----------------------------
(***************************************************************************)
(* QuarantineManager (src/elyra/response/quarantine_manager.py): the       *)
(* quarantine, restore and permanent-delete transactions over a file       *)
(* system shared with the user's programs.  The manager has no lock: the   *)
(* IPC threads and the response engine call it concurrently, so every      *)
(* system call that changes or reads the name space is a step.             *)
(*                                                                         *)
(* A file is an inode with its bytes, a number; equal hashes are equal     *)
(* numbers and every write gives new bytes (and a new mtime).  A name      *)
(* holds an inode or 0.  A crash stops the daemon between two steps and    *)
(* keeps the name space.                                                   *)
(*                                                                         *)
(* A definition just before another of nearly the same name is a plausible *)
(* defect, used only to test that the properties notice it.                *)
(***************************************************************************)
EXTENDS Integers, FiniteSets

CONSTANTS
  Threads,    \* callers of the manager
  Paths,      \* the user's paths
  Ids,        \* quarantine ids, each given out once
  Ops,        \* which operations are called
  EnvOps,     \* what the user's programs do to the file system
  Faults,     \* the steps at which a system call may fail
  MayCrash,   \* whether the daemon may crash
  MaxInode,   \* bound on the inodes created
  MaxBytes,   \* bound on the versions of bytes written
  None

Statuses == {"quarantined", "restored", "deleted"}

Record == [status : Statuses, hash : Nat, path : Paths]

ASSUME ConfigAssumption ==
  /\ Ops \subseteq {"quarantine", "restore", "delete"}
  /\ EnvOps \subseteq {"create", "write", "remove", "rename", "corrupt"}
  /\ Faults \subseteq {"move", "copy", "publish", "metadata", "unlink", "restore", "deleteSync", "rollback"}
  /\ MayCrash \in BOOLEAN /\ MaxInode \in Nat \ {0} /\ MaxBytes \in Nat
  /\ None \notin Record /\ 0 \notin Paths /\ None \notin Ids /\ None \notin Paths
  /\ None \notin [ino : 1..MaxInode, hash : Nat]

VARIABLES
  at,         \* user path -> inode
  holding,    \* id -> inode at .elyra-<id>.pending, in the source's directory
  tmp,        \* id -> inode of the unpublished payload
  payload,    \* id -> inode of the payload
  pending,    \* id -> inode at .<id>.delete-pending
  meta,       \* id -> metadata record, or None
  data,       \* inode -> bytes
  inodes,     \* count of the inodes created
  bytes,      \* count of the versions of bytes written
  th,         \* local state of the callers
  used,       \* ids given out
  user,       \* history: inodes the user's programs created and did not remove
  taken,      \* history: id -> [ino, hash] of a committed quarantine, or None
  deleting,   \* history: ids a permanent deletion was begun for
  corrupted,  \* history: ids whose payload the environment changed
  outcome,    \* history: id -> how its last operation ended
  delivered   \* history: [q, bytes] of every successful restoration

names == <<at, holding, tmp, payload, pending>>
store == <<data, inodes, bytes>>
history == <<user, taken, deleting, corrupted, outcome, delivered>>
vars == <<names, meta, store, th, used, history>>

PCs == {"idle",
        "qMove", "qVerify", "qCopy", "qCheck", "qPublish", "qMetadata", "qUnlink",
        "qRollback", "qClean",
        "rOpen", "rCreate", "rCopy", "rMetadata", "rSync", "rCheck", "rUnlink", "rUndo",
        "dMove", "dMetadata", "dUnlink", "dSync", "dBack", "dUndo"}

Outcomes == {"none", "succeeded", "failedSafely", "incomplete", "refused"}

\* ino, seen: the opened source or payload and its bytes when they were hashed.
\* target: the restored file.  rec: the record that was loaded; changed: in memory.
\* left: the rollback could not remove the restored file (rollback_error).
Thread == [pc : PCs, q : Ids \cup {None}, path : Paths \cup {None}, ino : Nat, seen : Nat,
           target : Nat, rec : Record \cup {None}, changed : BOOLEAN, left : BOOLEAN]

IdleThread == [pc |-> "idle", q |-> None, path |-> None, ino |-> 0, seen |-> 0,
               target |-> 0, rec |-> None, changed |-> FALSE, left |-> FALSE]

At(t, pc) == th[t].pc = pc
Goto(t, pc) == th' = [th EXCEPT ![t].pc = pc]
Q(t) == th[t].q
P(t) == th[t].path

Return(t, result) ==
  /\ th' = [th EXCEPT ![t] = IdleThread]
  /\ outcome' = [outcome EXCEPT ![Q(t)] = result]

\* A step whose system call fails instead, and where the caller then goes.
Fails(t, fault, pc) ==
  /\ fault \in Faults
  /\ Goto(t, pc)

\* A new inode with the given bytes.
NewInode(b) ==
  /\ inodes < MaxInode
  /\ inodes' = inodes + 1
  /\ data' = [data EXCEPT ![inodes + 1] = b]

Free(name) == name = 0
-----------------------------------------------------------------------------
(* quarantine_file.                                                        *)

\* The source is opened without following links, checked against what the
\* caller expects, hashed, and found unchanged.
QuarantineOpen(t, p) ==
  /\ At(t, "idle") /\ "quarantine" \in Ops
  /\ ~Free(at[p])
  /\ \E q \in Ids \ used :
       /\ used' = used \cup {q}
       /\ th' = [th EXCEPT ![t] = [IdleThread EXCEPT !.pc = "qMove", !.q = q, !.path = p,
                                     !.ino = at[p], !.seen = data[at[p]]]]
  /\ UNCHANGED <<names, meta, store, history>>

\* The holding move takes whatever the path names by now.
QuarantineMove(t) ==
  /\ At(t, "qMove")
  /\ \/ /\ ~Free(at[P(t)])
        /\ holding' = [holding EXCEPT ![Q(t)] = at[P(t)]]
        /\ at' = [at EXCEPT ![P(t)] = 0]
        /\ Goto(t, "qVerify")
     \/ /\ Free(at[P(t)]) /\ Goto(t, "qRollback") /\ UNCHANGED <<at, holding>>
     \/ /\ Fails(t, "move", "qRollback") /\ UNCHANGED <<at, holding>>
  /\ UNCHANGED <<tmp, payload, pending, meta, store, used, history>>

\* Comparing the mtime but not the identity.
SameSourceByTime(t) == data[th[t].ino] = th[t].seen

\* _assert_path_matches_fd and the comparison of size and mtime.
SameSource(t) == holding[Q(t)] = th[t].ino /\ data[th[t].ino] = th[t].seen

QuarantineVerify(t) ==
  /\ At(t, "qVerify")
  /\ Goto(t, IF SameSource(t) THEN "qCopy" ELSE "qRollback")
  /\ UNCHANGED <<names, meta, store, used, history>>

\* The copy is made from the descriptor.  A failed copy leaves a partial file.
QuarantineCopy(t) ==
  /\ At(t, "qCopy")
  /\ \/ NewInode(data[th[t].ino]) /\ Goto(t, "qCheck")
     \/ NewInode(0) /\ Fails(t, "copy", "qRollback")
  /\ tmp' = [tmp EXCEPT ![Q(t)] = inodes']
  /\ UNCHANGED <<at, holding, payload, pending, meta, bytes, used, history>>

\* The hash of the copy, and the source unchanged while it was copied.
CopyVerified(t) == data[tmp[Q(t)]] = th[t].seen /\ data[th[t].ino] = th[t].seen

QuarantineCheck(t) ==
  /\ At(t, "qCheck")
  /\ Goto(t, IF CopyVerified(t) THEN "qPublish" ELSE "qRollback")
  /\ UNCHANGED <<names, meta, store, used, history>>

\* The payload gets its name; the chmod or the directory's fsync may fail.
QuarantinePublish(t) ==
  /\ At(t, "qPublish")
  /\ payload' = [payload EXCEPT ![Q(t)] = tmp[Q(t)]]
  /\ tmp' = [tmp EXCEPT ![Q(t)] = 0]
  /\ Goto(t, "qMetadata") \/ Fails(t, "publish", "qRollback")
  /\ UNCHANGED <<at, holding, pending, meta, store, used, history>>

\* _write_metadata_atomic replaces the record, and then the directory's fsync
\* may fail; or it fails before replacing it.
WriteMetadata(t, record, next, failed) ==
  \/ /\ meta' = [meta EXCEPT ![Q(t)] = record]
     /\ Goto(t, next) \/ Fails(t, "metadata", failed)
  \/ Fails(t, "metadata", failed) /\ UNCHANGED meta

NewRecord(t) == [status |-> "quarantined", hash |-> th[t].seen, path |-> P(t)]

QuarantineMetadata(t) ==
  /\ At(t, "qMetadata")
  /\ WriteMetadata(t, NewRecord(t), "qUnlink", "qRollback")
  /\ UNCHANGED <<names, store, used, history>>

\* Reporting success with the source still at its holding name.
QuarantineUnlinkForgotten(t) ==
  /\ At(t, "qUnlink")
  /\ taken' = [taken EXCEPT ![Q(t)] = [ino |-> th[t].ino, hash |-> th[t].seen]]
  /\ Return(t, "succeeded")
  /\ UNCHANGED <<names, meta, store, used, user, deleting, corrupted, delivered>>

\* The commit point.  A failing fsync of the source directory is only logged.
QuarantineUnlink(t) ==
  /\ At(t, "qUnlink")
  /\ \/ /\ holding' = [holding EXCEPT ![Q(t)] = 0]
        /\ taken' = [taken EXCEPT ![Q(t)] = [ino |-> th[t].ino, hash |-> th[t].seen]]
        /\ Return(t, "succeeded")
     \/ Fails(t, "unlink", "qRollback") /\ UNCHANGED <<holding, taken, outcome>>
  /\ UNCHANGED <<at, tmp, payload, pending, meta, store, used, user, deleting, corrupted, delivered>>

\* _rollback_quarantine moves the holding file back only to a free path.
RollbackPossible(t) == Free(at[P(t)])

QuarantineRollback(t) ==
  /\ At(t, "qRollback")
  /\ \/ Free(holding[Q(t)]) /\ Goto(t, "qClean") /\ UNCHANGED <<at, holding, outcome>>
     \/ /\ ~Free(holding[Q(t)]) /\ RollbackPossible(t)
        /\ at' = [at EXCEPT ![P(t)] = holding[Q(t)]]
        /\ holding' = [holding EXCEPT ![Q(t)] = 0]
        /\ \/ Goto(t, "qClean") /\ UNCHANGED outcome
           \/ "rollback" \in Faults /\ Return(t, "incomplete")
     \/ /\ ~Free(holding[Q(t)])
        /\ ~RollbackPossible(t) \/ "rollback" \in Faults
        /\ Return(t, "incomplete")
        /\ UNCHANGED <<at, holding>>
  /\ UNCHANGED <<tmp, payload, pending, meta, store, used, user, taken, deleting, corrupted, delivered>>

\* Without unlinking the metadata.
RollbackCleanKeepsMetadata(t) ==
  /\ At(t, "qClean")
  /\ tmp' = [tmp EXCEPT ![Q(t)] = 0]
  /\ payload' = [payload EXCEPT ![Q(t)] = 0]
  /\ Return(t, "failedSafely")
  /\ UNCHANGED <<at, holding, pending, meta, store, used, user, taken, deleting, corrupted, delivered>>

\* The temporary file, the metadata and the payload are unlinked in this order;
\* a failing unlink leaves the rest, and the directories' fsync may fail too.
RollbackClean(t) ==
  /\ At(t, "qClean")
  /\ \E n \in 0..3 :
       /\ tmp' = IF n > 0 THEN [tmp EXCEPT ![Q(t)] = 0] ELSE tmp
       /\ meta' = IF n > 1 THEN [meta EXCEPT ![Q(t)] = None] ELSE meta
       /\ payload' = IF n > 2 THEN [payload EXCEPT ![Q(t)] = 0] ELSE payload
       /\ \/ n = 3 /\ Return(t, "failedSafely")
          \/ "rollback" \in Faults /\ Return(t, "incomplete")
  /\ UNCHANGED <<at, holding, pending, store, used, user, taken, deleting, corrupted, delivered>>
-----------------------------------------------------------------------------
(* restore_file.                                                           *)

\* The record is loaded; a deleted item and a missing payload are refused.
RestoreLoad(t, q, p) ==
  /\ At(t, "idle") /\ "restore" \in Ops
  /\ meta[q] # None /\ meta[q].status # "deleted" /\ ~Free(payload[q])
  /\ th' = [th EXCEPT ![t] = [IdleThread EXCEPT !.pc = "rOpen", !.q = q, !.path = p,
                                !.rec = meta[q]]]
  /\ UNCHANGED <<names, meta, store, used, history>>

\* The payload is opened, hashed and compared with the record.
RestoreOpen(t) ==
  LET i == payload[Q(t)] IN
  /\ At(t, "rOpen")
  /\ IF Free(i) \/ data[i] # th[t].rec.hash
     THEN Return(t, "refused")
     ELSE th' = [th EXCEPT ![t].ino = i, ![t].pc = "rCreate"] /\ UNCHANGED outcome
  /\ UNCHANGED <<names, meta, store, used, user, taken, deleting, corrupted, delivered>>

TargetFree(t) == Free(at[P(t)])

\* The target is created exclusively, empty.
RestoreCreate(t) ==
  /\ At(t, "rCreate")
  /\ \/ /\ TargetFree(t)
        /\ NewInode(0)
        /\ at' = [at EXCEPT ![P(t)] = inodes']
        /\ th' = [th EXCEPT ![t].target = inodes', ![t].pc = "rCopy"]
        /\ UNCHANGED outcome
     \/ ~TargetFree(t) /\ Return(t, "refused") /\ UNCHANGED <<at, data, inodes>>
  /\ UNCHANGED <<holding, tmp, payload, pending, meta, bytes, used, user, taken, deleting,
                 corrupted, delivered>>

\* Trusting the check made before the target was created.
RestoredMatchesUnchecked(t) == TRUE

RestoredMatches(t) == data[th[t].ino] = th[t].rec.hash

\* Copying, verifying what was copied, and the metadata of the file.
RestoreCopy(t) ==
  /\ At(t, "rCopy")
  /\ \/ /\ data' = [data EXCEPT ![th[t].target] = data[th[t].ino]]
        /\ IF RestoredMatches(t) THEN Goto(t, "rMetadata") ELSE Goto(t, "rCheck")
     \/ Fails(t, "restore", "rCheck") /\ UNCHANGED data
  /\ UNCHANGED <<names, meta, inodes, bytes, used, history>>

\* The record is changed in memory, so that a failure writes the old one back.
RestoreMetadata(t) ==
  /\ At(t, "rMetadata")
  /\ \/ /\ meta' = [meta EXCEPT ![Q(t)] = [th[t].rec EXCEPT !.status = "restored"]]
        /\ \/ th' = [th EXCEPT ![t].pc = "rSync", ![t].changed = TRUE]
           \/ "metadata" \in Faults /\ th' = [th EXCEPT ![t].pc = "rCheck", ![t].changed = TRUE]
     \/ /\ "metadata" \in Faults
        /\ th' = [th EXCEPT ![t].pc = "rCheck", ![t].changed = TRUE]
        /\ UNCHANGED meta
  /\ UNCHANGED <<names, store, used, history>>

RestoreSync(t) ==
  /\ At(t, "rSync")
  /\ \/ /\ delivered' = delivered \cup {[q |-> Q(t), bytes |-> data[th[t].target]]}
        /\ Return(t, "succeeded")
     \/ Fails(t, "restore", "rCheck") /\ UNCHANGED <<delivered, outcome>>
  /\ UNCHANGED <<names, meta, store, used, user, taken, deleting, corrupted>>

\* _unlink_if_identity_matches: a replacement is not removed ...
RestoreCheck(t) ==
  /\ At(t, "rCheck")
  /\ IF at[P(t)] = th[t].target
     THEN Goto(t, "rUnlink")
     ELSE th' = [th EXCEPT ![t].left = ~Free(at[P(t)]), ![t].pc = "rUndo"]
  /\ UNCHANGED <<names, meta, store, used, history>>

\* ... if it was there when the path was examined.
RestoreUnlink(t) ==
  /\ At(t, "rUnlink")
  /\ \/ ~Free(at[P(t)]) /\ at' = [at EXCEPT ![P(t)] = 0] /\ Goto(t, "rUndo")
     \/ /\ "rollback" \in Faults \/ Free(at[P(t)])
        /\ th' = [th EXCEPT ![t].left = TRUE, ![t].pc = "rUndo"]
        /\ UNCHANGED at
  /\ UNCHANGED <<holding, tmp, payload, pending, meta, store, used, history>>

\* The previous record is written back over whatever is there now.
UndoMetadata(t, changed) ==
  \/ /\ meta' = IF changed THEN [meta EXCEPT ![Q(t)] = th[t].rec] ELSE meta
     /\ Return(t, IF th[t].left THEN "incomplete" ELSE "failedSafely")
  \/ "rollback" \in Faults /\ Return(t, "incomplete") /\ UNCHANGED meta

RestoreUndo(t) ==
  /\ At(t, "rUndo")
  /\ UndoMetadata(t, th[t].changed)
  /\ UNCHANGED <<names, store, used, user, taken, deleting, corrupted, delivered>>
-----------------------------------------------------------------------------
(* delete_permanently.                                                     *)

DeleteLoad(t, q) ==
  /\ At(t, "idle") /\ "delete" \in Ops
  /\ meta[q] # None /\ meta[q].status # "deleted" /\ ~Free(payload[q])
  /\ th' = [th EXCEPT ![t] = [IdleThread EXCEPT !.pc = "dMove", !.q = q, !.rec = meta[q]]]
  /\ deleting' = deleting \cup {q}
  /\ UNCHANGED <<names, meta, store, used, user, taken, corrupted, outcome, delivered>>

\* The pending rename does not replace; its failure escapes.
DeleteMove(t) ==
  /\ At(t, "dMove")
  /\ IF Free(pending[Q(t)]) /\ ~Free(payload[Q(t)])
     THEN /\ pending' = [pending EXCEPT ![Q(t)] = payload[Q(t)]]
          /\ payload' = [payload EXCEPT ![Q(t)] = 0]
          /\ Goto(t, "dMetadata") /\ UNCHANGED outcome
     ELSE Return(t, "refused") /\ UNCHANGED <<pending, payload>>
  /\ UNCHANGED <<at, holding, tmp, meta, store, used, user, taken, deleting, corrupted, delivered>>

DeleteMetadata(t) ==
  /\ At(t, "dMetadata")
  /\ WriteMetadata(t, [th[t].rec EXCEPT !.status = "deleted"], "dUnlink", "dBack")
  /\ UNCHANGED <<names, store, used, history>>

DeleteUnlink(t) ==
  /\ At(t, "dUnlink")
  /\ \/ pending' = [pending EXCEPT ![Q(t)] = 0] /\ Goto(t, "dSync")
     \/ Fails(t, "unlink", "dBack") /\ UNCHANGED pending
  /\ UNCHANGED <<at, holding, tmp, payload, meta, store, used, history>>

DeleteSync(t) ==
  /\ At(t, "dSync")
  /\ \/ Return(t, "succeeded")
     \/ Fails(t, "deleteSync", "dBack") /\ UNCHANGED outcome
  /\ UNCHANGED <<names, meta, store, used, user, taken, deleting, corrupted, delivered>>

\* Rolling back the record but not the payload.
DeleteBackForgotten(t) ==
  /\ At(t, "dBack")
  /\ Goto(t, "dUndo")
  /\ UNCHANGED <<names, meta, store, used, history>>

DeleteBack(t) ==
  /\ At(t, "dBack")
  /\ IF ~Free(pending[Q(t)]) /\ Free(payload[Q(t)])
     THEN /\ payload' = [payload EXCEPT ![Q(t)] = pending[Q(t)]]
          /\ pending' = [pending EXCEPT ![Q(t)] = 0]
     ELSE UNCHANGED <<payload, pending>>
  /\ Goto(t, "dUndo")
  /\ UNCHANGED <<at, holding, tmp, meta, store, used, history>>

DeleteUndo(t) ==
  /\ At(t, "dUndo")
  /\ UndoMetadata(t, TRUE)
  /\ UNCHANGED <<names, store, used, user, taken, deleting, corrupted, delivered>>
-----------------------------------------------------------------------------
(* The environment: the user's programs, bad storage and crashes.          *)

UserCreate(p) ==
  /\ "create" \in EnvOps /\ Free(at[p]) /\ bytes < MaxBytes
  /\ NewInode(bytes + 1)
  /\ bytes' = bytes + 1
  /\ at' = [at EXCEPT ![p] = inodes']
  /\ user' = user \cup {inodes'}
  /\ UNCHANGED <<holding, tmp, payload, pending, meta, th, used, taken, deleting, corrupted,
                 outcome, delivered>>

\* A program may have the file open, so that its name does not matter.
UserWrite(i) ==
  /\ "write" \in EnvOps /\ bytes < MaxBytes
  /\ bytes' = bytes + 1
  /\ data' = [data EXCEPT ![i] = bytes + 1]
  /\ UNCHANGED <<names, meta, inodes, th, used, history>>

UserRemove(p) ==
  /\ "remove" \in EnvOps /\ ~Free(at[p])
  /\ at' = [at EXCEPT ![p] = 0]
  /\ user' = user \ {at[p]}
  /\ UNCHANGED <<holding, tmp, payload, pending, meta, store, th, used, taken, deleting,
                 corrupted, outcome, delivered>>

UserRename(p, r) ==
  /\ "rename" \in EnvOps /\ ~Free(at[p]) /\ p # r
  /\ at' = [at EXCEPT ![r] = at[p], ![p] = 0]
  /\ user' = user \ {at[r]}
  /\ UNCHANGED <<holding, tmp, payload, pending, meta, store, th, used, taken, deleting,
                 corrupted, outcome, delivered>>

CorruptPayload(q) ==
  /\ "corrupt" \in EnvOps /\ ~Free(payload[q]) /\ bytes < MaxBytes
  /\ bytes' = bytes + 1
  /\ data' = [data EXCEPT ![payload[q]] = bytes + 1]
  /\ corrupted' = corrupted \cup {q}
  /\ UNCHANGED <<names, meta, inodes, th, used, user, taken, deleting, outcome, delivered>>

\* Nothing is recovered at the next start.
Crash ==
  /\ MayCrash
  /\ th' = [t \in Threads |-> IdleThread]
  /\ UNCHANGED <<names, meta, store, used, history>>
-----------------------------------------------------------------------------
Init ==
  /\ \E p \in Paths : at = [r \in Paths |-> IF r = p THEN 1 ELSE 0]
  /\ holding = [q \in Ids |-> 0] /\ tmp = [q \in Ids |-> 0]
  /\ payload = [q \in Ids |-> 0] /\ pending = [q \in Ids |-> 0]
  /\ meta = [q \in Ids |-> None]
  /\ data = [i \in 1..MaxInode |-> IF i = 1 THEN 1 ELSE 0]
  /\ inodes = 1 /\ bytes = 1
  /\ th = [t \in Threads |-> IdleThread]
  /\ used = {} /\ user = {1}
  /\ taken = [q \in Ids |-> None]
  /\ deleting = {} /\ corrupted = {} /\ delivered = {}
  /\ outcome = [q \in Ids |-> "none"]

QuarantineStep(t) ==
  \/ \E p \in Paths : QuarantineOpen(t, p)
  \/ QuarantineMove(t) \/ QuarantineVerify(t) \/ QuarantineCopy(t) \/ QuarantineCheck(t)
  \/ QuarantinePublish(t) \/ QuarantineMetadata(t) \/ QuarantineUnlink(t)
  \/ QuarantineRollback(t) \/ RollbackClean(t)

RestoreStep(t) ==
  \/ \E q \in Ids, p \in Paths : RestoreLoad(t, q, p)
  \/ RestoreOpen(t) \/ RestoreCreate(t) \/ RestoreCopy(t) \/ RestoreMetadata(t)
  \/ RestoreSync(t) \/ RestoreCheck(t) \/ RestoreUnlink(t) \/ RestoreUndo(t)

DeleteStep(t) ==
  \/ \E q \in Ids : DeleteLoad(t, q)
  \/ DeleteMove(t) \/ DeleteMetadata(t) \/ DeleteUnlink(t) \/ DeleteSync(t)
  \/ DeleteBack(t) \/ DeleteUndo(t)

Environment ==
  \/ \E p \in Paths : UserCreate(p) \/ UserRemove(p) \/ \E r \in Paths : UserRename(p, r)
  \/ \E i \in user : UserWrite(i)
  \/ \E q \in Ids : CorruptPayload(q)
  \/ Crash

Next == (\E t \in Threads : QuarantineStep(t) \/ RestoreStep(t) \/ DeleteStep(t)) \/ Environment

Spec == Init /\ [][Next]_vars
-----------------------------------------------------------------------------
(* Properties.                                                             *)

\* Type correctness.
TypeOK ==
  /\ at \in [Paths -> 0..MaxInode]
  /\ {holding, tmp, payload, pending} \subseteq [Ids -> 0..MaxInode]
  /\ meta \in [Ids -> Record \cup {None}]
  /\ data \in [1..MaxInode -> Nat]
  /\ inodes \in 0..MaxInode /\ bytes \in Nat
  /\ th \in [Threads -> Thread]
  /\ used \subseteq Ids /\ deleting \subseteq Ids /\ corrupted \subseteq Ids
  /\ user \subseteq 1..MaxInode
  /\ taken \in [Ids -> [ino : 1..MaxInode, hash : Nat] \cup {None}]
  /\ outcome \in [Ids -> Outcomes]
  /\ delivered \subseteq [q : Ids, bytes : Nat]

\* A user's file is never lost by the manager, whatever fails or crashes and
\* whatever the user's programs do to the path meanwhile: it is still at a user
\* path, or at a holding name, or it was quarantined and the payload still has
\* the verified bytes (unless it was corrupted, or its deletion was asked for).
KeptBy(q, i) ==
  /\ taken[q] # None /\ taken[q].ino = i
  /\ \/ ~Free(payload[q]) /\ data[payload[q]] = taken[q].hash
     \/ q \in corrupted \cup deleting

NoFileLost ==
  \A i \in user :
    \/ \E p \in Paths : at[p] = i
    \/ \E q \in Ids : holding[q] = i \/ KeptBy(q, i)

\* A quarantine that succeeded has isolated the file it opened: no user path and
\* no holding name leads to it any more.
SuccessIsolates ==
  \A q \in Ids : taken[q] # None =>
    /\ \A p \in Paths : at[p] # taken[q].ino
    /\ \A r \in Ids : holding[r] # taken[q].ino

\* docs/stage5_quarantine.md: a quarantine that fails before its commit removes
\* its partial payload and metadata.  Nothing of it is left.
FailureLeavesNothing ==
  \A q \in Ids : taken[q] = None /\ outcome[q] = "failedSafely" =>
    holding[q] = 0 /\ tmp[q] = 0 /\ payload[q] = 0 /\ meta[q] = None

\* What a restoration delivers is what the quarantine took, even if the payload
\* was corrupted before or while it was copied (restore_file verifies twice).
RestoreFaithful ==
  \A d \in delivered : taken[d.q] # None => d.bytes = taken[d.q].hash

\* Between operations the record tells the truth about the payload: it is there
\* exactly if the item is not deleted (delete_permanently's rollback).  The one
\* exception is a deletion whose last fsync failed: its record is rolled back, the
\* unlinked payload is not.
StatusTruthful ==
  \A q \in Ids :
    /\ \A t \in Threads : Q(t) # q
    /\ taken[q] # None /\ outcome[q] # "incomplete"
    => /\ meta[q] # None
       /\ meta[q].status = "deleted" => Free(payload[q])
       /\ Free(payload[q]) => \/ meta[q].status = "deleted"
                              \/ /\ "deleteSync" \in Faults /\ outcome[q] = "failedSafely"
                                 /\ q \in deleting /\ Free(pending[q])
=============================================================================
