-------------------------- MODULE QuarantineProofs --------------------------
(***************************************************************************)
(* Proofs about Quarantine, for every set of callers, paths and ids, every *)
(* fault and every behaviour of the user's programs.                       *)
(*                                                                         *)
(* The common invariant says that an inode has at most one name, that an   *)
(* id belongs to one quarantine, and that everything said about the bytes  *)
(* of an id (its record, the records loaded by callers, what was taken and *)
(* what was delivered) agrees.                                             *)
(***************************************************************************)
EXTENDS Quarantine, TLAPS

\* The phases of the three transactions.
QHeld == {"qCopy", "qCheck", "qPublish", "qMetadata", "qUnlink"}

QPhase == QHeld \cup {"qMove", "qVerify", "qRollback", "qClean"}

RTarget == {"rCopy", "rMetadata", "rSync", "rCheck", "rUnlink", "rUndo"}

RPhase == RTarget \cup {"rOpen", "rCreate"}

DPhase == {"dMove", "dMetadata", "dUnlink", "dSync", "dBack", "dUndo"}

\* A user path or a holding name leads to an inode that no other one leads to, and
\* that no quarantine has taken.
SourceInv ==
  /\ \A p \in Paths : at[p] <= inodes
  /\ \A q \in Ids : holding[q] <= inodes
  /\ \A p, r \in Paths : p # r /\ at[p] # 0 => at[p] # at[r]
  /\ \A p \in Paths, q \in Ids : at[p] # 0 => at[p] # holding[q]
  /\ \A q, r \in Ids : q # r /\ holding[q] # 0 => holding[q] # holding[r]
  /\ \A q \in Ids : taken[q] # None =>
       /\ taken[q].ino \in 1..inodes
       /\ \A p \in Paths : at[p] # taken[q].ino
       /\ \A r \in Ids : holding[r] # taken[q].ino

\* The inodes in the vault: a new one under one name, never one of the user's.
Vaulted(i) == \E q \in Ids : i \in {tmp[q], payload[q], pending[q]}

VaultInv ==
  /\ \A q \in Ids : tmp[q] <= inodes /\ payload[q] <= inodes /\ pending[q] <= inodes
  /\ \A q, r \in Ids : payload[q] # 0 =>
       /\ payload[q] # tmp[r] /\ payload[q] # pending[r]
       /\ q # r => payload[q] # payload[r]
  /\ \A q, r \in Ids : tmp[q] # 0 => /\ tmp[q] # pending[r]
                                     /\ q # r => tmp[q] # tmp[r]
  /\ \A q, r \in Ids : q # r /\ pending[q] # 0 => pending[q] # pending[r]
  /\ \A i \in user : i \in 1..inodes /\ ~Vaulted(i)

\* An id that was not given out has left no trace.
UnusedInv ==
  \A q \in Ids \ used :
    /\ holding[q] = 0 /\ meta[q] = None /\ taken[q] = None
    /\ outcome[q] = "none"
    /\ \A d \in delivered : d.q # q

\* What each caller relies on.
CallInv ==
  \A t \in Threads :
    /\ th[t].pc # "idle" => th[t].q \in used
    /\ th[t].pc \in QPhase =>
         taken[th[t].q] = None /\ th[t].path \in Paths /\ th[t].ino \in 1..inodes
    /\ th[t].pc \in QHeld => holding[th[t].q] = th[t].ino
    /\ th[t].pc \in {"qMove", "qClean"} => holding[th[t].q] = 0
    /\ th[t].pc \in RPhase => th[t].path \in Paths /\ th[t].rec \in Record
    /\ th[t].pc \in DPhase => th[t].rec \in Record
    /\ th[t].pc \in RPhase \ {"rOpen"} => th[t].ino \in 1..inodes
    /\ th[t].pc \in RTarget =>
         th[t].target \in 1..inodes /\ th[t].target \notin user /\ ~Vaulted(th[t].target)
    /\ th[t].pc \in {"rMetadata", "rSync"} => data[th[t].target] = th[t].rec.hash

\* Two callers never quarantine under one id nor restore into one file.
PairInv ==
  \A t, u \in Threads : t # u =>
    /\ th[t].pc \in QPhase /\ th[u].pc \in QPhase => th[t].q # th[u].q
    /\ th[t].pc \in RTarget /\ th[u].pc \in RTarget => th[t].target # th[u].target

\* h is the hash that everybody gives for each id.
Agreed(h) ==
  /\ \A q \in Ids : /\ meta[q] # None => meta[q].hash = h[q]
                    /\ taken[q] # None => taken[q].hash = h[q]
  /\ \A t \in Threads : /\ th[t].pc \in QPhase => th[t].seen = h[th[t].q]
                        /\ th[t].pc \in RPhase \cup DPhase => th[t].rec.hash = h[th[t].q]
  /\ \A d \in delivered : d.bytes = h[d.q]

AgreeInv == \E h \in [Ids -> Nat] : Agreed(h)

\* The common invariant.
Base == TypeOK /\ SourceInv /\ VaultInv /\ UnusedInv /\ CallInv /\ PairInv /\ AgreeInv

\* Where the bytes of a quarantine under way and of one that was committed are.
Custody(t) ==
  /\ th[t].pc \notin RPhase
  /\ th[t].pc \in DPhase => th[t].q \in deleting
  /\ th[t].pc = "qCheck" => tmp[th[t].q] # 0
  /\ th[t].pc = "qPublish" => tmp[th[t].q] # 0 /\ data[tmp[th[t].q]] = th[t].seen
  /\ th[t].pc \in {"qMetadata", "qUnlink"} =>
       \/ payload[th[t].q] # 0 /\ data[payload[th[t].q]] = th[t].seen
       \/ th[t].q \in corrupted \cup deleting

CustodyInv == (\A t \in Threads : Custody(t)) /\ NoFileLost

\* A quarantine that failed is over.
FailedInv ==
  /\ \A t \in Threads : th[t].pc \notin RPhase \cup DPhase
  /\ \A q \in Ids : outcome[q] = "failedSafely" =>
       /\ holding[q] = 0 /\ tmp[q] = 0 /\ payload[q] = 0 /\ meta[q] = None
       /\ \A t \in Threads : th[t].pc # "idle" => th[t].q # q

\* The record and the payload of an item that can be restored or deleted.
Good(q) == meta[q] # None /\ meta[q].status # "deleted" /\ payload[q] # 0

\* ... and of one whose deletion ended, with or without its last fsync.
Gone(q) ==
  /\ meta[q] # None /\ payload[q] = 0
  /\ \/ meta[q].status = "deleted"
     \/ /\ "deleteSync" \in Faults /\ outcome[q] = "failedSafely"
        /\ q \in deleting /\ pending[q] = 0

\* What the call under way has made of the two.
PhaseOK(t) ==
  LET q == th[t].q IN
  /\ th[t].pc = "idle" => q = None
  /\ th[t].pc \in {"qCheck", "qPublish"} => tmp[q] # 0
  /\ th[t].pc = "qMetadata" => payload[q] # 0
  /\ th[t].pc \in {"qUnlink"} \cup RPhase \cup {"dMove"} => Good(q)
  /\ th[t].pc \in RPhase \cup DPhase => th[t].rec.status # "deleted"
  /\ th[t].pc \in DPhase => q \in deleting /\ meta[q] # None /\ ~th[t].left
  /\ th[t].pc = "dMetadata" => payload[q] = 0 /\ pending[q] # 0
  /\ th[t].pc = "dUnlink" => payload[q] = 0 /\ pending[q] # 0 /\ meta[q].status = "deleted"
  /\ th[t].pc = "dSync" => payload[q] = 0 /\ pending[q] = 0 /\ meta[q].status = "deleted"
  /\ th[t].pc = "dBack" => payload[q] = 0 /\ (pending[q] = 0 => "deleteSync" \in Faults)
  /\ th[t].pc = "dUndo" => payload[q] # 0 \/ (pending[q] = 0 /\ "deleteSync" \in Faults)

Settled(q) == taken[q] # None => Good(q) \/ Gone(q) \/ outcome[q] = "incomplete"

StatusInv ==
  /\ \A q \in Ids : (\A t \in Threads : th[t].q # q) => Settled(q)
  /\ \A t \in Threads : PhaseOK(t)

-----------------------------------------------------------------------------
(* Steps of a caller and what they leave alone.                            *)

\* The conjunct of CallInv for one caller.
ThreadOK(t) ==
  /\ th[t].pc # "idle" => th[t].q \in used
  /\ th[t].pc \in QPhase =>
       taken[th[t].q] = None /\ th[t].path \in Paths /\ th[t].ino \in 1..inodes
  /\ th[t].pc \in QHeld => holding[th[t].q] = th[t].ino
  /\ th[t].pc \in {"qMove", "qClean"} => holding[th[t].q] = 0
  /\ th[t].pc \in RPhase => th[t].path \in Paths /\ th[t].rec \in Record
  /\ th[t].pc \in DPhase => th[t].rec \in Record
  /\ th[t].pc \in RPhase \ {"rOpen"} => th[t].ino \in 1..inodes
  /\ th[t].pc \in RTarget =>
       th[t].target \in 1..inodes /\ th[t].target \notin user /\ ~Vaulted(th[t].target)
  /\ th[t].pc \in {"rMetadata", "rSync"} => data[th[t].target] = th[t].rec.hash

\* A step of t alone, which goes on with the same id and claims, or ends its call.
Kept(t) ==
  /\ th' \in [Threads -> Thread]
  /\ \A u \in Threads : u # t => th'[u] = th[u]
  /\ \/ th'[t] = IdleThread
     \/ /\ th'[t].q = th[t].q /\ th'[t].seen = th[t].seen /\ th'[t].rec = th[t].rec
        /\ th'[t].pc \in QPhase => th[t].pc \in QPhase
        /\ th'[t].pc \in RPhase \cup DPhase => th[t].pc \in RPhase \cup DPhase

\* Membership of the typed variables, one by one.
LEMMA Types ==
  ASSUME TypeOK
  PROVE  /\ at \in [Paths -> 0..MaxInode]
         /\ holding \in [Ids -> 0..MaxInode] /\ tmp \in [Ids -> 0..MaxInode]
         /\ payload \in [Ids -> 0..MaxInode] /\ pending \in [Ids -> 0..MaxInode]
         /\ meta \in [Ids -> Record \cup {None}]
         /\ data \in [1..MaxInode -> Nat] /\ MaxInode \in Nat
         /\ inodes \in 0..MaxInode /\ inodes \in Nat /\ bytes \in Nat
         /\ th \in [Threads -> Thread]
         /\ used \subseteq Ids /\ user \subseteq 1..MaxInode
         /\ taken \in [Ids -> [ino : 1..MaxInode, hash : Nat] \cup {None}]
         /\ outcome \in [Ids -> Outcomes]
         /\ delivered \subseteq [q : Ids, bytes : Nat]
BY ConfigAssumption DEF TypeOK

\* The fields of a caller.
LEMMA ThreadFields ==
  ASSUME NEW r \in Thread
  PROVE  /\ r.pc \in PCs /\ r.q \in Ids \cup {None} /\ r.path \in Paths \cup {None}
         /\ r.ino \in Nat /\ r.seen \in Nat /\ r.target \in Nat /\ r.rec \in Record \cup {None}
         /\ r.changed \in BOOLEAN /\ r.left \in BOOLEAN
BY DEF Thread

\* The idle caller.
LEMMA IdleFacts ==
  /\ IdleThread \in Thread
  /\ IdleThread.pc = "idle" /\ IdleThread.q = None /\ IdleThread.rec = None
  /\ "idle" \notin QPhase /\ "idle" \notin RPhase /\ "idle" \notin DPhase
BY DEF IdleThread, Thread, PCs, QPhase, QHeld, RPhase, RTarget, DPhase

\* Goto changes the phase and nothing else.
LEMMA GotoFacts ==
  ASSUME TypeOK, NEW t \in Threads, NEW p \in PCs, Goto(t, p)
  PROVE  /\ th' \in [Threads -> Thread]
         /\ \A u \in Threads : u # t => th'[u] = th[u]
         /\ th'[t].pc = p /\ th'[t].q = th[t].q /\ th'[t].path = th[t].path
         /\ th'[t].ino = th[t].ino /\ th'[t].seen = th[t].seen
         /\ th'[t].target = th[t].target /\ th'[t].rec = th[t].rec
         /\ th'[t].changed = th[t].changed /\ th'[t].left = th[t].left
<1>1. th \in [Threads -> Thread] /\ th[t] \in Thread
  BY Types
<1>2. [th[t] EXCEPT !.pc = p] \in Thread
  BY <1>1 DEF Thread
<1>3. th' = [th EXCEPT ![t] = [th[t] EXCEPT !.pc = p]]
  BY DEF Goto
<1> QED BY <1>1, <1>2, <1>3 DEF Thread

\* Return makes the caller idle and records how the call ended.
LEMMA ReturnFacts ==
  ASSUME TypeOK, NEW t \in Threads, NEW r \in Outcomes, Return(t, r)
  PROVE  /\ th' \in [Threads -> Thread] /\ th'[t] = IdleThread
         /\ \A u \in Threads : u # t => th'[u] = th[u]
         /\ outcome' \in [Ids -> Outcomes]
         /\ \A q \in Ids : q # th[t].q => outcome'[q] = outcome[q]
         /\ th[t].q \in Ids => outcome'[th[t].q] = r
<1>1. th \in [Threads -> Thread] /\ outcome \in [Ids -> Outcomes]
  BY Types
<1>2. IdleThread \in Thread
  BY IdleFacts
<1> QED BY <1>1, <1>2 DEF Return, Q

\* A caller that returned relies on nothing.
LEMMA IdleOK ==
  ASSUME NEW t \in Threads, th'[t] = IdleThread
  PROVE  ThreadOK(t)'
BY IdleFacts DEF ThreadOK, QHeld, QPhase, RPhase, RTarget, DPhase

\* What a caller relies on, when nobody disturbs it.
LEMMA OtherOK ==
  ASSUME Base, NEW u \in Threads, th'[u] = th[u],
         used \subseteq used', inodes' \in Nat, inodes <= inodes',
         \A i \in 1..inodes : i \notin user => i \notin user',
         \A i \in 1..inodes : ~Vaulted(i) => ~Vaulted(i)',
         th[u].pc \in QPhase =>
           holding'[th[u].q] = holding[th[u].q] /\ taken'[th[u].q] = taken[th[u].q],
         th[u].pc \in RTarget => data'[th[u].target] = data[th[u].target]
  PROVE  ThreadOK(u)'
<1>1. ThreadOK(u)
  BY DEF Base, CallInv, ThreadOK
<1>2. th'[u] = th[u] /\ inodes \in Nat
  BY Types DEF Base
<1>3. \A i \in 1..inodes : i \in 1..inodes'
  BY <1>2
<1>4. th[u].pc \in QHeld \/ th[u].pc \in {"qMove", "qClean"} => th[u].pc \in QPhase
  BY DEF QPhase
<1>5. th[u].pc \in {"rMetadata", "rSync"} => th[u].pc \in RTarget
  BY DEF RTarget
<1> DEFINE x == th[u]
<1>6. th'[u] = x
  BY <1>2
<1>7. /\ x.pc # "idle" => x.q \in used'
      /\ x.pc \in QPhase => taken'[x.q] = None /\ x.path \in Paths /\ x.ino \in 1..inodes'
      /\ x.pc \in QHeld => holding'[x.q] = x.ino
      /\ x.pc \in {"qMove", "qClean"} => holding'[x.q] = 0
  BY <1>1, <1>3, <1>4 DEF ThreadOK
<1>8. /\ x.pc \in RPhase => x.path \in Paths /\ x.rec \in Record
      /\ x.pc \in DPhase => x.rec \in Record
      /\ x.pc \in RPhase \ {"rOpen"} => x.ino \in 1..inodes'
  BY <1>1, <1>3 DEF ThreadOK
<1>9. /\ x.pc \in RTarget => x.target \in 1..inodes' /\ x.target \notin user'
      /\ x.pc \in {"rMetadata", "rSync"} => data'[x.target] = x.rec.hash
  BY <1>1, <1>3, <1>5 DEF ThreadOK
<1>10. \A i \in 1..inodes : ~Vaulted(i) => \A q \in Ids : i \notin {tmp'[q], payload'[q], pending'[q]}
  BY DEF Vaulted
<1>11. x.pc \in RTarget => \A q \in Ids : x.target \notin {tmp'[q], payload'[q], pending'[q]}
  BY <1>1, <1>10 DEF ThreadOK
<1> HIDE DEF x
<1> QED BY <1>6, <1>7, <1>8, <1>9, <1>11 DEF ThreadOK, Vaulted

\* CallInv, when the other callers are not disturbed.
LEMMA CallFrame ==
  ASSUME Base, NEW t \in Threads, ThreadOK(t)',
         \A u \in Threads : u # t => th'[u] = th[u],
         used \subseteq used', inodes' \in Nat, inodes <= inodes',
         \A i \in 1..inodes : i \notin user => i \notin user',
         \A i \in 1..inodes : ~Vaulted(i) => ~Vaulted(i)',
         \A u \in Threads : u # t /\ th[u].pc \in QPhase =>
           holding'[th[u].q] = holding[th[u].q] /\ taken'[th[u].q] = taken[th[u].q],
         \A u \in Threads : u # t /\ th[u].pc \in RTarget =>
           data'[th[u].target] = data[th[u].target]
  PROVE  CallInv'
<1>1. \A u \in Threads : u # t => ThreadOK(u)'
  BY OtherOK
<1>2. \A u \in Threads : ThreadOK(u)'
  BY <1>1
<1> QED BY <1>2 DEF CallInv, ThreadOK

\* Everything about the callers, when a step is not theirs.
LEMMA CallersFrame ==
  ASSUME Base, UNCHANGED <<th, used, meta, taken, delivered, holding>>,
         inodes' \in Nat, inodes <= inodes',
         \A i \in 1..inodes : i \notin user => i \notin user',
         \A i \in 1..inodes : ~Vaulted(i) => ~Vaulted(i)',
         \A u \in Threads : th[u].pc \in RTarget => data'[th[u].target] = data[th[u].target]
  PROVE  CallInv' /\ PairInv' /\ AgreeInv'
<1>1. \A u \in Threads : ThreadOK(u)'
  BY OtherOK
<1>2. CallInv'
  BY <1>1 DEF CallInv, ThreadOK
<1>3. PairInv'
  BY DEF Base, PairInv
<1>4. AgreeInv'
  <2>1. PICK h \in [Ids -> Nat] : Agreed(h)
    BY DEF Base, AgreeInv
  <2>2. Agreed(h)'
    BY <2>1 DEF Agreed
  <2> QED BY <2>1, <2>2 DEF AgreeInv
<1> QED BY <1>2, <1>3, <1>4

\* PairInv, when t goes on with its id and its restored file, or ends its call.
LEMMA PairFrame ==
  ASSUME Base, NEW t \in Threads, Kept(t),
         th'[t].pc \in RTarget => th[t].pc \in RTarget /\ th'[t].target = th[t].target
  PROVE  PairInv'
BY IdleFacts DEF Base, PairInv, Kept

\* Agreed, when t says nothing new.
LEMMA AgreedFrame ==
  ASSUME Base, NEW h, Agreed(h), NEW t \in Threads, Kept(t),
         \A q \in Ids : meta'[q] # None => meta'[q].hash = h[q],
         \A q \in Ids : taken'[q] # None => taken'[q].hash = h[q],
         \A d \in delivered' : d.bytes = h[d.q]
  PROVE  Agreed(h)'
<1>1. ASSUME NEW u \in Threads
      PROVE  /\ th'[u].pc \in QPhase => th'[u].seen = h[th'[u].q]
             /\ th'[u].pc \in RPhase \cup DPhase => th'[u].rec.hash = h[th'[u].q]
  <2>1. CASE u # t
    BY <2>1 DEF Kept, Agreed
  <2>2. CASE u = t
    BY <2>2, IdleFacts DEF Kept, Agreed
  <2> QED BY <2>1, <2>2
<1> QED BY <1>1 DEF Agreed

\* The other parts, when a step leaves alone what they are about.
LEMMA SourceFrame ==
  ASSUME Base, UNCHANGED <<at, holding, taken>>, inodes' \in Nat, inodes <= inodes'
  PROVE  SourceInv'
<1>1. /\ at \in [Paths -> 0..MaxInode] /\ holding \in [Ids -> 0..MaxInode]
      /\ inodes \in Nat /\ MaxInode \in Nat
      /\ taken \in [Ids -> [ino : 1..MaxInode, hash : Nat] \cup {None}]
  BY Types DEF Base
<1>2. (\A p \in Paths : at[p] <= inodes') /\ (\A q \in Ids : holding[q] <= inodes')
  BY <1>1 DEF Base, SourceInv
<1>3. \A q \in Ids : taken[q] # None => taken[q].ino \in 1..inodes'
  BY <1>1 DEF Base, SourceInv
<1> QED BY <1>2, <1>3 DEF Base, SourceInv

\* The same for the vault: names may go, and the user's files may.
LEMMA VaultFrame ==
  ASSUME Base, inodes' \in Nat, inodes <= inodes', user' \subseteq user,
         \A q \in Ids : /\ tmp'[q] \in {tmp[q], 0} /\ payload'[q] \in {payload[q], 0}
                        /\ pending'[q] \in {pending[q], 0}
  PROVE  VaultInv' /\ \A i \in 1..inodes : ~Vaulted(i) => ~Vaulted(i)'
<1>1. /\ tmp \in [Ids -> 0..MaxInode] /\ payload \in [Ids -> 0..MaxInode]
      /\ pending \in [Ids -> 0..MaxInode] /\ inodes \in Nat /\ MaxInode \in Nat
  BY Types DEF Base
<1>2. \A q \in Ids : tmp'[q] <= inodes' /\ payload'[q] <= inodes' /\ pending'[q] <= inodes'
  <2> SUFFICES ASSUME NEW q \in Ids
               PROVE  tmp'[q] <= inodes' /\ payload'[q] <= inodes' /\ pending'[q] <= inodes'
    OBVIOUS
  <2>1. /\ tmp[q] <= inodes /\ payload[q] <= inodes /\ pending[q] <= inodes
        /\ tmp[q] \in Nat /\ payload[q] \in Nat /\ pending[q] \in Nat
    BY <1>1 DEF Base, VaultInv
  <2> QED BY <1>1, <2>1
<1>3. /\ \A q, r \in Ids : payload'[q] # 0 =>
           /\ payload'[q] # tmp'[r] /\ payload'[q] # pending'[r]
           /\ q # r => payload'[q] # payload'[r]
      /\ \A q, r \in Ids : tmp'[q] # 0 => tmp'[q] # pending'[r] /\ (q # r => tmp'[q] # tmp'[r])
      /\ \A q, r \in Ids : q # r /\ pending'[q] # 0 => pending'[q] # pending'[r]
  BY DEF Base, VaultInv
<1>4. \A i \in 1..inodes : ~Vaulted(i) => ~Vaulted(i)'
  BY DEF Vaulted
<1>5. \A i \in user' : i \in 1..inodes' /\ ~Vaulted(i)'
  <2> SUFFICES ASSUME NEW i \in user
               PROVE  i \in 1..inodes' /\ ~Vaulted(i)'
    OBVIOUS
  <2>1. i \in 1..inodes /\ ~Vaulted(i)
    BY DEF Base, VaultInv
  <2> QED BY <1>1, <1>4, <2>1
<1> QED BY <1>2, <1>3, <1>4, <1>5 DEF VaultInv

\* The same for the ids that were not given out.
LEMMA UnusedFrame ==
  ASSUME Base, used \subseteq used', NEW q0 \in used', delivered' \subseteq delivered \cup {d \in delivered' : d.q = q0},
         \A q \in Ids : q # q0 => /\ holding'[q] = holding[q] /\ meta'[q] = meta[q]
                                  /\ taken'[q] = taken[q] /\ outcome'[q] = outcome[q]
  PROVE  UnusedInv'
BY DEF Base, UnusedInv

\* A step of a caller that moves no user file and keeps the vault in order.
LEMMA VaultStep ==
  ASSUME Base, NEW t \in Threads, th[t].pc # "idle", Kept(t), ThreadOK(t)',
         th'[t].pc \in RTarget => th[t].pc \in RTarget /\ th'[t].target = th[t].target,
         UNCHANGED <<at, holding, bytes, used, user, taken, deleting, corrupted>>,
         inodes' \in 0..MaxInode, inodes <= inodes',
         outcome' \in [Ids -> Outcomes],
         \A q \in Ids : q # th[t].q => outcome'[q] = outcome[q] /\ meta'[q] = meta[q],
         meta' \in [Ids -> Record \cup {None}],
         \/ meta'[th[t].q] \in {meta[th[t].q], None}
         \/ th[t].pc \in QPhase /\ meta'[th[t].q].hash = th[t].seen
         \/ th[t].pc \in RPhase \cup DPhase /\ meta'[th[t].q].hash = th[t].rec.hash,
         {tmp', payload', pending'} \subseteq [Ids -> 0..MaxInode],
         VaultInv', \A i \in 1..inodes : ~Vaulted(i) => ~Vaulted(i)',
         data' \in [1..MaxInode -> Nat],
         \A u \in Threads : u # t /\ th[u].pc \in RTarget =>
           data'[th[u].target] = data[th[u].target],
         \/ delivered' = delivered
         \/ /\ delivered' = delivered \cup {[q |-> th[t].q, bytes |-> th[t].rec.hash]}
            /\ th[t].pc \in RPhase /\ th[t].rec \in Record
  PROVE  Base'
<1>1. /\ inodes \in Nat /\ inodes' \in Nat /\ used \subseteq used' /\ th[t].q \in used /\ used \subseteq Ids /\ th[t].q \in Ids
      /\ delivered \subseteq [q : Ids, bytes : Nat]
  BY Types DEF Base, CallInv
<1>2. delivered' \subseteq [q : Ids, bytes : Nat]
  BY <1>1 DEF Record
<1>3. TypeOK'
  <2>1. th' \in [Threads -> Thread]
    BY DEF Kept
  <2> QED BY <1>2, <2>1 DEF Base, TypeOK
<1>4. SourceInv'
  BY <1>1, SourceFrame
<1>6. UnusedInv'
  <2>1. delivered' \subseteq delivered \cup {d \in delivered' : d.q = th[t].q}
    OBVIOUS
  <2> QED BY <1>1, <2>1, UnusedFrame
<1>7. CallInv'
  BY <1>1, CallFrame DEF Kept
<1>8. PairInv'
  BY PairFrame
<1>9. AgreeInv'
  <2>1. PICK h \in [Ids -> Nat] : Agreed(h)
    BY DEF Base, AgreeInv
  <2>2. \A q \in Ids : meta'[q] # None => meta'[q].hash = h[q]
    <3> SUFFICES ASSUME NEW q \in Ids, meta'[q] # None
                 PROVE  meta'[q].hash = h[q]
      OBVIOUS
    <3>1. CASE q # th[t].q
      BY <2>1, <3>1 DEF Agreed
    <3>2. CASE q = th[t].q
      BY <2>1, <3>2 DEF Agreed
    <3> QED BY <3>1, <3>2
  <2>3. \A q \in Ids : taken'[q] # None => taken'[q].hash = h[q]
    BY <2>1 DEF Agreed
  <2>4. \A d \in delivered' : d.bytes = h[d.q]
    BY <2>1 DEF Agreed
  <2>5. Agreed(h)'
    BY <2>1, <2>2, <2>3, <2>4, AgreedFrame
  <2> QED BY <2>1, <2>5 DEF AgreeInv
<1> QED BY <1>3, <1>4, <1>6, <1>7, <1>8, <1>9 DEF Base

\* A step of a caller that moves no user file and adds no name to the vault.
LEMMA CallerStep ==
  ASSUME Base, NEW t \in Threads, th[t].pc # "idle", Kept(t), ThreadOK(t)',
         th'[t].pc \in RTarget => th[t].pc \in RTarget /\ th'[t].target = th[t].target,
         UNCHANGED <<at, holding, inodes, bytes, used, user, taken, deleting, corrupted>>,
         outcome' \in [Ids -> Outcomes],
         \A q \in Ids : q # th[t].q => outcome'[q] = outcome[q] /\ meta'[q] = meta[q],
         meta' \in [Ids -> Record \cup {None}],
         \/ meta'[th[t].q] \in {meta[th[t].q], None}
         \/ th[t].pc \in QPhase /\ meta'[th[t].q].hash = th[t].seen
         \/ th[t].pc \in RPhase \cup DPhase /\ meta'[th[t].q].hash = th[t].rec.hash,
         {tmp', payload', pending'} \subseteq [Ids -> 0..MaxInode],
         \A q \in Ids : /\ tmp'[q] \in {tmp[q], 0} /\ payload'[q] \in {payload[q], 0}
                        /\ pending'[q] \in {pending[q], 0},
         data' \in [1..MaxInode -> Nat],
         \A u \in Threads : u # t /\ th[u].pc \in RTarget =>
           data'[th[u].target] = data[th[u].target],
         \/ delivered' = delivered
         \/ /\ delivered' = delivered \cup {[q |-> th[t].q, bytes |-> th[t].rec.hash]}
            /\ th[t].pc \in RPhase /\ th[t].rec \in Record
  PROVE  Base'
<1>1. inodes \in Nat /\ inodes' \in Nat /\ inodes <= inodes' /\ inodes' \in 0..MaxInode /\ user' \subseteq user
  BY Types DEF Base
<1>2. VaultInv' /\ \A i \in 1..inodes : ~Vaulted(i) => ~Vaulted(i)'
  BY <1>1, VaultFrame
<1> QED BY <1>1, <1>2, VaultStep

\* The phases, spelled out.
LEMMA Phases ==
  /\ QPhase = {"qMove", "qVerify", "qCopy", "qCheck", "qPublish", "qMetadata", "qUnlink",
               "qRollback", "qClean"}
  /\ QHeld = {"qCopy", "qCheck", "qPublish", "qMetadata", "qUnlink"}
  /\ RPhase = {"rOpen", "rCreate", "rCopy", "rMetadata", "rSync", "rCheck", "rUnlink", "rUndo"}
  /\ RTarget = {"rCopy", "rMetadata", "rSync", "rCheck", "rUnlink", "rUndo"}
  /\ DPhase = {"dMove", "dMetadata", "dUnlink", "dSync", "dBack", "dUndo"}
  /\ QPhase \cup RPhase \cup DPhase \cup {"idle"} = PCs
BY DEF QPhase, QHeld, RPhase, RTarget, DPhase, PCs

\* QuarantineVerify, QuarantineCheck and QuarantineMetadata.
LEMMA CheckingKeeps ==
  ASSUME Base, NEW t \in Threads,
         QuarantineVerify(t) \/ QuarantineCheck(t) \/ QuarantineMetadata(t)
  PROVE  Base'
<1>1. UNCHANGED <<names, store, used, history>>
  BY DEF QuarantineVerify, QuarantineCheck, QuarantineMetadata
<1>2. /\ th \in [Threads -> Thread] /\ TypeOK /\ ThreadOK(t)
      /\ meta \in [Ids -> Record \cup {None}] /\ outcome \in [Ids -> Outcomes]
      /\ data \in [1..MaxInode -> Nat]
      /\ {tmp, payload, pending} \subseteq [Ids -> 0..MaxInode]
  BY Types DEF Base, CallInv, ThreadOK
<1>3. PICK p \in {"qCopy", "qRollback", "qPublish", "qUnlink"} : Goto(t, p)
  BY DEF QuarantineVerify, QuarantineCheck, QuarantineMetadata, WriteMetadata, Fails
<1>4. /\ th[t].pc \in {"qVerify", "qCheck", "qMetadata"}
      /\ p = "qCopy" => th[t].pc = "qVerify" /\ SameSource(t)
      /\ p = "qPublish" => th[t].pc = "qCheck"
      /\ p = "qUnlink" => th[t].pc = "qMetadata"
  <2>1. p \in PCs
    BY DEF PCs
  <2>2. th'[t].pc = p
    BY <1>2, <1>3, <2>1, GotoFacts
  <2>3. CASE QuarantineVerify(t)
    <3>1. \E r \in {"qCopy", "qRollback"} : Goto(t, r) /\ (r = "qCopy" => SameSource(t)) /\ At(t, "qVerify")
      BY <2>3 DEF QuarantineVerify
    <3>2. PICK r \in {"qCopy", "qRollback"} : Goto(t, r) /\ (r = "qCopy" => SameSource(t)) /\ At(t, "qVerify")
      BY <3>1
    <3>3. th'[t].pc = r
      BY <1>2, <3>2, GotoFacts DEF PCs
    <3> QED BY <2>2, <3>2, <3>3 DEF At
  <2>4. CASE QuarantineCheck(t)
    <3>1. PICK r \in {"qPublish", "qRollback"} : Goto(t, r) /\ At(t, "qCheck")
      BY <2>4 DEF QuarantineCheck
    <3>2. th'[t].pc = r
      BY <1>2, <3>1, GotoFacts DEF PCs
    <3> QED BY <2>2, <3>1, <3>2 DEF At
  <2>5. CASE QuarantineMetadata(t)
    <3>1. PICK r \in {"qUnlink", "qRollback"} : Goto(t, r) /\ At(t, "qMetadata")
      BY <2>5 DEF QuarantineMetadata, WriteMetadata, Fails
    <3>2. th'[t].pc = r
      BY <1>2, <3>1, GotoFacts DEF PCs
    <3> QED BY <2>2, <3>1, <3>2 DEF At
  <2> QED BY <2>3, <2>4, <2>5
<1>5. /\ th' \in [Threads -> Thread]
      /\ \A u \in Threads : u # t => th'[u] = th[u]
      /\ th'[t].pc = p /\ th'[t].q = th[t].q /\ th'[t].path = th[t].path
      /\ th'[t].ino = th[t].ino /\ th'[t].seen = th[t].seen /\ th'[t].rec = th[t].rec
  BY <1>2, <1>3, GotoFacts DEF PCs
<1>6. Kept(t) /\ th'[t].pc \notin RTarget /\ th[t].pc \in QPhase /\ th[t].pc # "idle"
  BY <1>4, <1>5, Phases DEF Kept
<1>7. ThreadOK(t)'
  <2>1. /\ p \in QPhase /\ p # "idle" /\ p \notin RPhase /\ p \notin DPhase /\ p \notin RTarget
        /\ p \notin {"qMove", "qClean"} /\ p \notin {"rMetadata", "rSync"}
    BY Phases
  <2>2. th[t].q \in used /\ taken[th[t].q] = None /\ th[t].path \in Paths /\ th[t].ino \in 1..inodes
    BY <1>2, <1>6 DEF ThreadOK
  <2>3. p \in QHeld => holding[th[t].q] = th[t].ino
    BY <1>2, <1>4, Phases DEF ThreadOK, SameSource, Q
  <2> QED BY <1>1, <1>5, <2>1, <2>2, <2>3 DEF ThreadOK, names, store, history
<1>8. /\ meta' \in [Ids -> Record \cup {None}]
      /\ \A q \in Ids : q # th[t].q => meta'[q] = meta[q]
      /\ meta'[th[t].q] = meta[th[t].q] \/ meta'[th[t].q].hash = th[t].seen
  <2>1. CASE UNCHANGED meta
    BY <1>2, <2>1
  <2>2. CASE meta' = [meta EXCEPT ![th[t].q] = NewRecord(t)] /\ At(t, "qMetadata")
    <3>1. th[t].path \in Paths /\ th[t].q \in Ids /\ th[t].seen \in Nat
      BY <1>2, <1>6, Types, ThreadFields DEF ThreadOK
    <3>2. NewRecord(t) \in Record /\ NewRecord(t).hash = th[t].seen
      BY <3>1 DEF NewRecord, Record, Statuses, P
    <3> QED BY <1>2, <2>2, <3>1, <3>2
  <2> QED BY <2>1, <2>2 DEF QuarantineVerify, QuarantineCheck, QuarantineMetadata, WriteMetadata, Q
<1> QED BY <1>1, <1>2, <1>6, <1>7, <1>8, CallerStep DEF names, store, history

\* The end of a call that moves no user file and adds no name to the vault.
LEMMA ReturnStep ==
  ASSUME Base, NEW t \in Threads, th[t].pc # "idle", NEW r \in Outcomes, Return(t, r),
         UNCHANGED <<at, holding, store, used, user, taken, deleting, corrupted>>,
         meta' \in [Ids -> Record \cup {None}],
         \A q \in Ids : q # th[t].q => meta'[q] = meta[q],
         \/ meta'[th[t].q] \in {meta[th[t].q], None}
         \/ th[t].pc \in RPhase \cup DPhase /\ meta'[th[t].q].hash = th[t].rec.hash,
         {tmp', payload', pending'} \subseteq [Ids -> 0..MaxInode],
         \A q \in Ids : /\ tmp'[q] \in {tmp[q], 0} /\ payload'[q] \in {payload[q], 0}
                        /\ pending'[q] \in {pending[q], 0},
         \/ delivered' = delivered
         \/ /\ delivered' = delivered \cup {[q |-> th[t].q, bytes |-> th[t].rec.hash]}
            /\ th[t].pc \in RPhase /\ th[t].rec \in Record
  PROVE  Base'
<1>1. TypeOK /\ data \in [1..MaxInode -> Nat]
  BY Types DEF Base
<1>2. /\ th' \in [Threads -> Thread] /\ th'[t] = IdleThread
      /\ \A u \in Threads : u # t => th'[u] = th[u]
      /\ outcome' \in [Ids -> Outcomes]
      /\ \A q \in Ids : q # th[t].q => outcome'[q] = outcome[q]
  BY <1>1, ReturnFacts
<1>3. Kept(t) /\ ThreadOK(t)' /\ th'[t].pc \notin RTarget
  BY <1>2, IdleOK, IdleFacts DEF Kept, RPhase
<1> QED BY <1>1, <1>2, <1>3, CallerStep DEF store

\* A step inside a restoration or a deletion that leaves the names alone.
LEMMA InsideStep ==
  ASSUME Base, NEW t \in Threads, th[t].pc \in RPhase \cup DPhase,
         th' \in [Threads -> Thread], \A u \in Threads : u # t => th'[u] = th[u],
         th'[t].pc \in RPhase \cup DPhase,
         th'[t].q = th[t].q, th'[t].seen = th[t].seen, th'[t].rec = th[t].rec,
         th'[t].pc \in RTarget => th[t].pc \in RTarget /\ th'[t].target = th[t].target,
         ThreadOK(t)',
         UNCHANGED <<names, inodes, bytes, used, history>>,
         meta' \in [Ids -> Record \cup {None}],
         \A q \in Ids : q # th[t].q => meta'[q] = meta[q],
         meta'[th[t].q] = meta[th[t].q] \/ meta'[th[t].q].hash = th[t].rec.hash,
         data' \in [1..MaxInode -> Nat],
         \A u \in Threads : u # t /\ th[u].pc \in RTarget =>
           data'[th[u].target] = data[th[u].target]
  PROVE  Base'
<1>1. /\ {tmp, payload, pending} \subseteq [Ids -> 0..MaxInode] /\ outcome \in [Ids -> Outcomes]
  BY Types DEF Base
<1>2. th[t].pc # "idle" /\ th'[t].pc \notin QPhase
  BY Phases
<1>3. Kept(t)
  BY <1>2 DEF Kept
<1> QED BY <1>1, <1>2, <1>3, CallerStep DEF names, history

\* The record a restoration or a deletion writes: the loaded one with a status.
LEMMA StatusRecord ==
  ASSUME Base, NEW t \in Threads, th[t].pc \in RPhase \cup DPhase, NEW s \in Statuses
  PROVE  /\ [th[t].rec EXCEPT !.status = s] \in Record
         /\ [th[t].rec EXCEPT !.status = s].hash = th[t].rec.hash
         /\ [th[t].rec EXCEPT !.status = s].status = s
         /\ th[t].rec \in Record /\ th[t].q \in Ids /\ th[t].q \in used
<1>1. th[t].rec \in Record
  BY DEF Base, CallInv
<1>2. th[t].q \in used /\ used \subseteq Ids
  BY Phases, Types DEF Base, CallInv
<1> QED BY <1>1, <1>2 DEF Record

\* RollbackClean.
LEMMA CleanKeeps ==
  ASSUME Base, NEW t \in Threads, RollbackClean(t)
  PROVE  Base'
<1>1. /\ meta \in [Ids -> Record \cup {None}] /\ None \in Record \cup {None}
      /\ tmp \in [Ids -> 0..MaxInode] /\ payload \in [Ids -> 0..MaxInode]
      /\ pending \in [Ids -> 0..MaxInode] /\ 0 \in 0..MaxInode
  BY Types DEF Base
<1>2. th[t].pc # "idle" /\ {"failedSafely", "incomplete"} \subseteq Outcomes
  BY DEF RollbackClean, At, Outcomes
<1>3. PICK r \in {"failedSafely", "incomplete"} : Return(t, r)
  BY DEF RollbackClean
<1>4. /\ tmp' \in {tmp, [tmp EXCEPT ![th[t].q] = 0]}
      /\ meta' \in {meta, [meta EXCEPT ![th[t].q] = None]}
      /\ payload' \in {payload, [payload EXCEPT ![th[t].q] = 0]}
      /\ UNCHANGED <<at, holding, pending, store, used, user, taken, deleting, corrupted, delivered>>
  BY DEF RollbackClean, Q
<1>5. tmp' \in [Ids -> 0..MaxInode] /\ \A q \in Ids : tmp'[q] \in {tmp[q], 0}
  BY <1>1, <1>4
<1>6. payload' \in [Ids -> 0..MaxInode] /\ \A q \in Ids : payload'[q] \in {payload[q], 0}
  BY <1>1, <1>4
<1>7. /\ meta' \in [Ids -> Record \cup {None}]
      /\ \A q \in Ids : q # th[t].q => meta'[q] = meta[q]
      /\ meta'[th[t].q] \in {meta[th[t].q], None}
  <2>1. th[t].q \in Ids
    BY <1>2, Types DEF Base, CallInv
  <2> QED BY <1>1, <1>4, <2>1
<1> QED BY <1>1, <1>2, <1>3, <1>4, <1>5, <1>6, <1>7, ReturnStep

\* What a step of a call finds.
LEMMA CallFacts ==
  ASSUME Base, NEW t \in Threads
  PROVE  /\ TypeOK /\ th \in [Threads -> Thread] /\ ThreadOK(t) /\ th[t] \in Thread
         /\ meta \in [Ids -> Record \cup {None}] /\ outcome \in [Ids -> Outcomes]
         /\ data \in [1..MaxInode -> Nat] /\ inodes \in Nat /\ inodes <= MaxInode
         /\ {tmp, payload, pending} \subseteq [Ids -> 0..MaxInode]
         /\ th[t].pc # "idle" => th[t].q \in Ids /\ th[t].q \in used
<1>1. TypeOK /\ ThreadOK(t)
  BY DEF Base, CallInv, ThreadOK
<1> QED BY <1>1, Types DEF ThreadOK

\* RestoreOpen.
LEMMA RestoreOpenKeeps ==
  ASSUME Base, NEW t \in Threads, RestoreOpen(t)
  PROVE  Base'
<1>1. /\ th[t].pc = "rOpen"
      /\ UNCHANGED <<names, meta, store, used, user, taken, deleting, corrupted, delivered>>
  BY DEF RestoreOpen, At
<1>2. /\ TypeOK /\ th \in [Threads -> Thread] /\ ThreadOK(t) /\ th[t] \in Thread
      /\ meta \in [Ids -> Record \cup {None}] /\ outcome \in [Ids -> Outcomes]
      /\ data \in [1..MaxInode -> Nat] /\ inodes \in Nat /\ inodes <= MaxInode
      /\ {tmp, payload, pending} \subseteq [Ids -> 0..MaxInode]
      /\ th[t].q \in Ids /\ th[t].q \in used
  BY <1>1, CallFacts
<1>3. CASE Return(t, "refused")
  BY <1>1, <1>2, <1>3, ReturnStep DEF names, Outcomes
<1>4. CASE /\ payload[th[t].q] # 0
           /\ th' = [th EXCEPT ![t].ino = payload[th[t].q], ![t].pc = "rCreate"]
           /\ UNCHANGED outcome
  <2>1. payload[th[t].q] \in 1..inodes
    <3>1. payload[th[t].q] \in 0..MaxInode /\ payload[th[t].q] <= inodes
      BY <1>2 DEF Base, VaultInv
    <3> QED BY <1>2, <1>4, <3>1
  <2> DEFINE i == payload[th[t].q]
             new == [th[t] EXCEPT !.ino = i, !.pc = "rCreate"]
  <2>3. th' = [th EXCEPT ![t] = new]
    BY <1>2, <1>4
  <2>7. i \in Nat /\ i \in 1..inodes
    BY <1>2, <2>1
  <2> HIDE DEF i
  <2>2. /\ new \in Thread /\ new.pc = "rCreate" /\ new.q = th[t].q /\ new.seen = th[t].seen
        /\ new.rec = th[t].rec /\ new.path = th[t].path /\ new.ino = i
    BY <1>2, <2>7 DEF Thread, PCs
  <2> HIDE DEF new
  <2>4. th' \in [Threads -> Thread] /\ th'[t] = new /\ \A u \in Threads : u # t => th'[u] = th[u]
    BY <1>2, <2>2, <2>3
  <2>5. ThreadOK(t)'
    <3>1. th[t].path \in Paths /\ th[t].rec \in Record
      BY <1>1, <1>2, Phases DEF ThreadOK
    <3>2. "rCreate" \notin QPhase /\ "rCreate" \notin QHeld /\ "rCreate" \notin DPhase /\ "rCreate" \notin RTarget
      BY Phases
    <3> QED BY <1>1, <1>2, <2>2, <2>4, <2>7, <3>1, <3>2 DEF ThreadOK, store
  <2>6. th[t].pc \in RPhase \cup DPhase /\ th'[t].pc \in RPhase \cup DPhase /\ th'[t].pc \notin RTarget
    BY <1>1, <2>2, <2>4, Phases
  <2> QED BY <1>1, <1>2, <1>4, <2>2, <2>4, <2>5, <2>6, InsideStep DEF store, history
<1> QED BY <1>3, <1>4 DEF RestoreOpen, Q, Free

\* A step that also remembers a failed rollback or a changed record.
LEMMA FieldFacts ==
  ASSUME TypeOK, NEW t \in Threads, NEW p \in PCs, NEW b \in BOOLEAN,
         \/ th' = [th EXCEPT ![t].left = b, ![t].pc = p]
         \/ th' = [th EXCEPT ![t].pc = p, ![t].changed = b]
  PROVE  /\ th' \in [Threads -> Thread]
         /\ \A u \in Threads : u # t => th'[u] = th[u]
         /\ th'[t].pc = p /\ th'[t].q = th[t].q /\ th'[t].path = th[t].path
         /\ th'[t].ino = th[t].ino /\ th'[t].seen = th[t].seen
         /\ th'[t].target = th[t].target /\ th'[t].rec = th[t].rec
<1>1. th \in [Threads -> Thread] /\ th[t] \in Thread
  BY Types
<1> DEFINE r1 == [th[t] EXCEPT !.left = b, !.pc = p]  r2 == [th[t] EXCEPT !.pc = p, !.changed = b]
<1>2. th' = [th EXCEPT ![t] = r1] \/ th' = [th EXCEPT ![t] = r2]
  BY <1>1
<1>3. /\ r1 \in Thread /\ r1.pc = p /\ r1.q = th[t].q /\ r1.path = th[t].path /\ r1.ino = th[t].ino
      /\ r1.seen = th[t].seen /\ r1.target = th[t].target /\ r1.rec = th[t].rec
  BY <1>1 DEF Thread
<1>4. /\ r2 \in Thread /\ r2.pc = p /\ r2.q = th[t].q /\ r2.path = th[t].path /\ r2.ino = th[t].ino
      /\ r2.seen = th[t].seen /\ r2.target = th[t].target /\ r2.rec = th[t].rec
  BY <1>1 DEF Thread
<1> HIDE DEF r1, r2
<1> QED BY <1>1, <1>2, <1>3, <1>4

\* A restoration with its target goes on.
LEMMA TargetStays ==
  ASSUME NEW t \in Threads, ThreadOK(t), th[t].pc \in RTarget, th'[t].pc \in RTarget,
         th'[t].q = th[t].q, th'[t].path = th[t].path, th'[t].ino = th[t].ino,
         th'[t].target = th[t].target, th'[t].rec = th[t].rec,
         UNCHANGED <<tmp, payload, pending, inodes, used, user>>,
         th'[t].pc \in {"rMetadata", "rSync"} => data'[th[t].target] = th[t].rec.hash
  PROVE  ThreadOK(t)'
<1>1. /\ th'[t].pc # "idle" /\ th'[t].pc \notin QPhase /\ th'[t].pc \notin QHeld
      /\ th'[t].pc \notin {"qMove", "qClean"} /\ th'[t].pc \notin DPhase
      /\ th[t].pc # "idle" /\ th[t].pc \in RPhase /\ th[t].pc # "rOpen"
  BY Phases
<1>2. /\ th[t].q \in used /\ th[t].path \in Paths /\ th[t].rec \in Record /\ th[t].ino \in 1..inodes
      /\ th[t].target \in 1..inodes /\ th[t].target \notin user
      /\ \A q \in Ids : th[t].target \notin {tmp[q], payload[q], pending[q]}
  BY <1>1 DEF ThreadOK, Vaulted
<1> QED BY <1>1, <1>2 DEF ThreadOK, Vaulted

\* RestoreCopy: the bytes go to the caller's own file.
LEMMA RestoreCopyKeeps ==
  ASSUME Base, NEW t \in Threads, RestoreCopy(t)
  PROVE  Base'
<1>1. th[t].pc = "rCopy" /\ UNCHANGED <<names, meta, inodes, bytes, used, history>>
  BY DEF RestoreCopy, At
<1>2. /\ TypeOK /\ th \in [Threads -> Thread] /\ ThreadOK(t) /\ th[t] \in Thread
      /\ meta \in [Ids -> Record \cup {None}] /\ data \in [1..MaxInode -> Nat]
      /\ inodes \in Nat /\ inodes <= MaxInode /\ MaxInode \in Nat
  BY CallFacts, Types
<1>3. th[t].pc \in RTarget /\ th[t].pc \in RPhase \cup DPhase /\ th[t].pc \in RPhase \ {"rOpen"}
  BY <1>1, Phases
<1>4. th[t].target \in 1..inodes /\ th[t].ino \in 1..inodes
  BY <1>2, <1>3 DEF ThreadOK
<1>5. th[t].target \in 1..MaxInode /\ th[t].ino \in 1..MaxInode
  BY <1>2, <1>4
<1>6. PICK p \in {"rMetadata", "rCheck"} :
        /\ Goto(t, p)
        /\ \/ data' = [data EXCEPT ![th[t].target] = data[th[t].ino]]
           \/ p = "rCheck" /\ UNCHANGED data
        /\ p = "rMetadata" => data[th[t].ino] = th[t].rec.hash
  BY DEF RestoreCopy, Fails, RestoredMatches
<1>7. /\ th' \in [Threads -> Thread]
      /\ \A u \in Threads : u # t => th'[u] = th[u]
      /\ th'[t].pc = p /\ th'[t].q = th[t].q /\ th'[t].path = th[t].path
      /\ th'[t].ino = th[t].ino /\ th'[t].seen = th[t].seen
      /\ th'[t].target = th[t].target /\ th'[t].rec = th[t].rec
  BY <1>2, <1>6, GotoFacts DEF PCs
<1>8. /\ data' \in [1..MaxInode -> Nat]
      /\ \A i \in 1..MaxInode : i # th[t].target => data'[i] = data[i]
      /\ p = "rMetadata" => data'[th[t].target] = th[t].rec.hash
  BY <1>2, <1>5, <1>6
<1>9. \A u \in Threads : u # t /\ th[u].pc \in RTarget => data'[th[u].target] = data[th[u].target]
  <2> SUFFICES ASSUME NEW u \in Threads, u # t, th[u].pc \in RTarget
               PROVE  data'[th[u].target] = data[th[u].target]
    OBVIOUS
  <2>1. th[u].target # th[t].target
    BY <1>3 DEF Base, PairInv
  <2>2. th[u].target \in 1..inodes
    BY DEF Base, CallInv
  <2>3. th[u].target \in 1..MaxInode
    BY <1>2, <2>2
  <2> QED BY <1>8, <2>1, <2>3
<1>10. p \in RTarget /\ p \in RPhase \cup DPhase /\ p # "rSync"
  BY Phases
<1>11. ThreadOK(t)'
  BY <1>1, <1>2, <1>3, <1>7, <1>8, <1>10, TargetStays DEF names, history
<1> QED BY <1>1, <1>2, <1>3, <1>7, <1>8, <1>9, <1>10, <1>11, InsideStep

\* RestoreMetadata.
LEMMA RestoreMetadataKeeps ==
  ASSUME Base, NEW t \in Threads, RestoreMetadata(t)
  PROVE  Base'
<1>1. th[t].pc = "rMetadata" /\ UNCHANGED <<names, store, used, history>>
  BY DEF RestoreMetadata, At
<1>2. /\ TypeOK /\ th \in [Threads -> Thread] /\ ThreadOK(t) /\ th[t] \in Thread
      /\ meta \in [Ids -> Record \cup {None}] /\ data \in [1..MaxInode -> Nat]
  BY CallFacts
<1>3. th[t].pc \in RTarget /\ th[t].pc \in RPhase \cup DPhase
  BY <1>1, Phases
<1> DEFINE new == [th[t].rec EXCEPT !.status = "restored"]
<1>4. PICK p \in {"rSync", "rCheck"} :
        /\ th' = [th EXCEPT ![t].pc = p, ![t].changed = TRUE]
        /\ meta' = [meta EXCEPT ![th[t].q] = new] \/ UNCHANGED meta
  BY DEF RestoreMetadata, Q
<1>5. new \in Record /\ new.hash = th[t].rec.hash /\ th[t].q \in Ids
  BY <1>3, StatusRecord DEF Statuses
<1> HIDE DEF new
<1>6. /\ meta' \in [Ids -> Record \cup {None}]
      /\ \A q \in Ids : q # th[t].q => meta'[q] = meta[q]
      /\ meta'[th[t].q] = meta[th[t].q] \/ meta'[th[t].q].hash = th[t].rec.hash
  BY <1>2, <1>4, <1>5
<1>7. /\ th' \in [Threads -> Thread]
      /\ \A u \in Threads : u # t => th'[u] = th[u]
      /\ th'[t].pc = p /\ th'[t].q = th[t].q /\ th'[t].path = th[t].path
      /\ th'[t].ino = th[t].ino /\ th'[t].seen = th[t].seen
      /\ th'[t].target = th[t].target /\ th'[t].rec = th[t].rec
  BY <1>2, <1>4, FieldFacts DEF PCs
<1>8. p \in RTarget /\ p \in RPhase \cup DPhase
  BY Phases
<1>9. data[th[t].target] = th[t].rec.hash
  BY <1>1, <1>2 DEF ThreadOK
<1>10. ThreadOK(t)'
  BY <1>1, <1>2, <1>3, <1>7, <1>8, <1>9, TargetStays DEF names, store, history
<1> QED BY <1>1, <1>2, <1>3, <1>6, <1>7, <1>8, <1>10, InsideStep DEF store

\* RestoreSync.
LEMMA RestoreSyncKeeps ==
  ASSUME Base, NEW t \in Threads, RestoreSync(t)
  PROVE  Base'
<1>1. th[t].pc = "rSync" /\ UNCHANGED <<names, meta, store, used, user, taken, deleting, corrupted>>
  BY DEF RestoreSync, At
<1>2. /\ TypeOK /\ th \in [Threads -> Thread] /\ ThreadOK(t) /\ th[t] \in Thread
      /\ meta \in [Ids -> Record \cup {None}] /\ data \in [1..MaxInode -> Nat]
      /\ {tmp, payload, pending} \subseteq [Ids -> 0..MaxInode]
  BY CallFacts
<1>3. th[t].pc \in RTarget /\ th[t].pc \in RPhase \cup DPhase /\ th[t].pc # "idle" /\ th[t].pc \in RPhase
  BY <1>1, Phases
<1>4. data[th[t].target] = th[t].rec.hash /\ th[t].rec \in Record
  BY <1>1, <1>2, <1>3 DEF ThreadOK
<1>5. CASE /\ delivered' = delivered \cup {[q |-> Q(t), bytes |-> data[th[t].target]]}
           /\ Return(t, "succeeded")
  <2>1. delivered' = delivered \cup {[q |-> th[t].q, bytes |-> th[t].rec.hash]}
    BY <1>4, <1>5 DEF Q
  <2> QED BY <1>1, <1>2, <1>3, <1>4, <1>5, <2>1, ReturnStep DEF names, Outcomes
<1>6. CASE Goto(t, "rCheck") /\ UNCHANGED <<delivered, outcome>>
  <2>1. /\ th' \in [Threads -> Thread]
        /\ \A u \in Threads : u # t => th'[u] = th[u]
        /\ th'[t].pc = "rCheck" /\ th'[t].q = th[t].q /\ th'[t].path = th[t].path
        /\ th'[t].ino = th[t].ino /\ th'[t].seen = th[t].seen
        /\ th'[t].target = th[t].target /\ th'[t].rec = th[t].rec
    BY <1>2, <1>6, GotoFacts DEF PCs
  <2>2. th'[t].pc \in RTarget /\ th'[t].pc \in RPhase \cup DPhase /\ th'[t].pc \notin {"rMetadata", "rSync"}
    BY <2>1, Phases
  <2>3. ThreadOK(t)'
    BY <1>1, <1>2, <1>3, <2>1, <2>2, TargetStays DEF names, store
  <2> QED BY <1>1, <1>2, <1>3, <1>6, <2>1, <2>2, <2>3, InsideStep DEF store, history
<1> QED BY <1>5, <1>6 DEF RestoreSync, Fails

\* RestoreCheck.
LEMMA RestoreCheckKeeps ==
  ASSUME Base, NEW t \in Threads, RestoreCheck(t)
  PROVE  Base'
<1>1. th[t].pc = "rCheck" /\ UNCHANGED <<names, meta, store, used, history>>
  BY DEF RestoreCheck, At
<1>2. /\ TypeOK /\ th \in [Threads -> Thread] /\ ThreadOK(t) /\ th[t] \in Thread
      /\ meta \in [Ids -> Record \cup {None}] /\ data \in [1..MaxInode -> Nat]
  BY CallFacts
<1>3. th[t].pc \in RTarget /\ th[t].pc \in RPhase \cup DPhase
  BY <1>1, Phases
<1>4. /\ th' \in [Threads -> Thread]
      /\ \A u \in Threads : u # t => th'[u] = th[u]
      /\ th'[t].pc \in {"rUnlink", "rUndo"} /\ th'[t].q = th[t].q /\ th'[t].path = th[t].path
      /\ th'[t].ino = th[t].ino /\ th'[t].seen = th[t].seen
      /\ th'[t].target = th[t].target /\ th'[t].rec = th[t].rec
  <2>1. CASE Goto(t, "rUnlink")
    BY <1>2, <2>1, GotoFacts DEF PCs
  <2>2. CASE \E b \in BOOLEAN : th' = [th EXCEPT ![t].left = b, ![t].pc = "rUndo"]
    BY <1>2, <2>2, FieldFacts DEF PCs
  <2> QED BY <2>1, <2>2 DEF RestoreCheck
<1>5. th'[t].pc \in RTarget /\ th'[t].pc \in RPhase \cup DPhase /\ th'[t].pc \notin {"rMetadata", "rSync"}
  BY <1>4, Phases
<1>6. ThreadOK(t)'
  BY <1>1, <1>2, <1>3, <1>4, <1>5, TargetStays DEF names, store, history
<1> QED BY <1>1, <1>2, <1>3, <1>4, <1>5, <1>6, InsideStep DEF store

\* A deletion goes on.
LEMMA DeletionStays ==
  ASSUME NEW t \in Threads, ThreadOK(t), th[t].pc \in DPhase, th'[t].pc \in DPhase,
         th'[t].q = th[t].q, th'[t].rec = th[t].rec, UNCHANGED used
  PROVE  ThreadOK(t)'
<1>1. /\ th'[t].pc # "idle" /\ th'[t].pc \notin QPhase /\ th'[t].pc \notin QHeld
      /\ th'[t].pc \notin {"qMove", "qClean"} /\ th'[t].pc \notin RPhase
      /\ th'[t].pc \notin RTarget /\ th'[t].pc \notin {"rMetadata", "rSync"}
      /\ th[t].pc # "idle"
  BY Phases
<1>2. th[t].q \in used /\ th[t].rec \in Record
  BY <1>1 DEF ThreadOK
<1> QED BY <1>1, <1>2 DEF ThreadOK

\* RestoreUndo and DeleteUndo: the loaded record is written back.
LEMMA UndoKeeps ==
  ASSUME Base, NEW t \in Threads, RestoreUndo(t) \/ DeleteUndo(t)
  PROVE  Base'
<1>1. /\ th[t].pc \in {"rUndo", "dUndo"}
      /\ UNCHANGED <<names, store, used, user, taken, deleting, corrupted, delivered>>
  BY DEF RestoreUndo, DeleteUndo, At
<1>2. th[t].pc \in RPhase \cup DPhase /\ th[t].pc # "idle"
  BY <1>1, Phases
<1>3. /\ meta \in [Ids -> Record \cup {None}]
      /\ {tmp, payload, pending} \subseteq [Ids -> 0..MaxInode]
      /\ th[t].rec \in Record /\ th[t].q \in Ids
  BY <1>2, CallFacts, StatusRecord DEF Statuses
<1>4. PICK r \in Outcomes : Return(t, r) /\ meta' \in {meta, [meta EXCEPT ![th[t].q] = th[t].rec]}
  BY DEF RestoreUndo, DeleteUndo, UndoMetadata, Outcomes, Q
<1>5. /\ meta' \in [Ids -> Record \cup {None}]
      /\ \A q \in Ids : q # th[t].q => meta'[q] = meta[q]
      /\ meta'[th[t].q] = meta[th[t].q] \/ meta'[th[t].q] = th[t].rec
  BY <1>3, <1>4
<1> QED BY <1>1, <1>2, <1>3, <1>4, <1>5, ReturnStep DEF names

\* DeleteMetadata.
LEMMA DeleteMetadataKeeps ==
  ASSUME Base, NEW t \in Threads, DeleteMetadata(t)
  PROVE  Base'
<1>1. th[t].pc = "dMetadata" /\ UNCHANGED <<names, store, used, history>>
  BY DEF DeleteMetadata, At
<1>2. /\ TypeOK /\ th \in [Threads -> Thread] /\ ThreadOK(t) /\ th[t] \in Thread
      /\ meta \in [Ids -> Record \cup {None}] /\ data \in [1..MaxInode -> Nat]
  BY CallFacts
<1>3. th[t].pc \in DPhase /\ th[t].pc \in RPhase \cup DPhase
  BY <1>1, Phases
<1> DEFINE new == [th[t].rec EXCEPT !.status = "deleted"]
<1>4. PICK p \in {"dUnlink", "dBack"} :
        Goto(t, p) /\ (meta' = [meta EXCEPT ![th[t].q] = new] \/ UNCHANGED meta)
  BY DEF DeleteMetadata, WriteMetadata, Fails, Q
<1>5. new \in Record /\ new.hash = th[t].rec.hash /\ th[t].q \in Ids
  BY <1>3, StatusRecord DEF Statuses
<1> HIDE DEF new
<1>6. /\ meta' \in [Ids -> Record \cup {None}]
      /\ \A q \in Ids : q # th[t].q => meta'[q] = meta[q]
      /\ meta'[th[t].q] = meta[th[t].q] \/ meta'[th[t].q].hash = th[t].rec.hash
  BY <1>2, <1>4, <1>5
<1>7. /\ th' \in [Threads -> Thread]
      /\ \A u \in Threads : u # t => th'[u] = th[u]
      /\ th'[t].pc = p /\ th'[t].q = th[t].q /\ th'[t].seen = th[t].seen /\ th'[t].rec = th[t].rec
  BY <1>2, <1>4, GotoFacts DEF PCs
<1>8. p \in DPhase /\ p \in RPhase \cup DPhase /\ p \notin RTarget
  BY Phases
<1>9. ThreadOK(t)'
  BY <1>1, <1>2, <1>3, <1>7, <1>8, DeletionStays
<1> QED BY <1>1, <1>2, <1>3, <1>6, <1>7, <1>8, <1>9, InsideStep DEF store

\* DeleteUnlink.
LEMMA DeleteUnlinkKeeps ==
  ASSUME Base, NEW t \in Threads, DeleteUnlink(t)
  PROVE  Base'
<1>1. th[t].pc = "dUnlink" /\ UNCHANGED <<at, holding, tmp, payload, meta, store, used, history>>
  BY DEF DeleteUnlink, At
<1>2. /\ TypeOK /\ th \in [Threads -> Thread] /\ ThreadOK(t) /\ th[t] \in Thread
      /\ meta \in [Ids -> Record \cup {None}] /\ data \in [1..MaxInode -> Nat]
      /\ outcome \in [Ids -> Outcomes] /\ {tmp, payload, pending} \subseteq [Ids -> 0..MaxInode]
      /\ 0 \in 0..MaxInode
  BY CallFacts, Types
<1>3. th[t].pc \in DPhase /\ th[t].pc # "idle"
  BY <1>1, Phases
<1>4. PICK p \in {"dSync", "dBack"} : Goto(t, p) /\ pending' \in {pending, [pending EXCEPT ![th[t].q] = 0]}
  BY DEF DeleteUnlink, Fails, Q
<1>5. pending' \in [Ids -> 0..MaxInode] /\ \A q \in Ids : pending'[q] \in {pending[q], 0}
  BY <1>2, <1>4
<1>6. /\ th' \in [Threads -> Thread]
      /\ \A u \in Threads : u # t => th'[u] = th[u]
      /\ th'[t].pc = p /\ th'[t].q = th[t].q /\ th'[t].seen = th[t].seen /\ th'[t].rec = th[t].rec
  BY <1>2, <1>4, GotoFacts DEF PCs
<1>7. p \in DPhase /\ p \notin QPhase /\ p \notin RTarget
  BY Phases
<1>8. ThreadOK(t)' /\ Kept(t)
  BY <1>1, <1>2, <1>3, <1>6, <1>7, DeletionStays DEF Kept
<1> QED BY <1>1, <1>2, <1>3, <1>5, <1>6, <1>7, <1>8, CallerStep DEF store, history

\* DeleteSync.
LEMMA DeleteSyncKeeps ==
  ASSUME Base, NEW t \in Threads, DeleteSync(t)
  PROVE  Base'
<1>1. /\ th[t].pc = "dSync"
      /\ UNCHANGED <<names, meta, store, used, user, taken, deleting, corrupted, delivered>>
  BY DEF DeleteSync, At
<1>2. /\ TypeOK /\ th \in [Threads -> Thread] /\ ThreadOK(t) /\ th[t] \in Thread
      /\ meta \in [Ids -> Record \cup {None}] /\ data \in [1..MaxInode -> Nat]
      /\ {tmp, payload, pending} \subseteq [Ids -> 0..MaxInode]
  BY CallFacts
<1>3. th[t].pc \in DPhase /\ th[t].pc # "idle" /\ th[t].pc \in RPhase \cup DPhase
  BY <1>1, Phases
<1>4. CASE Return(t, "succeeded")
  BY <1>1, <1>2, <1>3, <1>4, ReturnStep DEF names, Outcomes
<1>5. CASE Goto(t, "dBack") /\ UNCHANGED outcome
  <2>1. /\ th' \in [Threads -> Thread]
        /\ \A u \in Threads : u # t => th'[u] = th[u]
        /\ th'[t].pc = "dBack" /\ th'[t].q = th[t].q /\ th'[t].seen = th[t].seen /\ th'[t].rec = th[t].rec
    BY <1>2, <1>5, GotoFacts DEF PCs
  <2>2. th'[t].pc \in DPhase /\ th'[t].pc \notin RTarget /\ th'[t].pc \in RPhase \cup DPhase
    BY <2>1, Phases
  <2>3. ThreadOK(t)'
    BY <1>1, <1>2, <1>3, <2>1, <2>2, DeletionStays
  <2> QED BY <1>1, <1>2, <1>3, <1>5, <2>1, <2>2, <2>3, InsideStep DEF store, history
<1> QED BY <1>4, <1>5 DEF DeleteSync, Fails

\* Renaming inside the vault, from one kind of name to another of the same id.
LEMMA VaultRename ==
  ASSUME Base, NEW q \in Ids, UNCHANGED <<inodes, user>>,
         \/ /\ payload' = [payload EXCEPT ![q] = tmp[q]] /\ tmp' = [tmp EXCEPT ![q] = 0]
            /\ UNCHANGED pending
         \/ /\ pending' = [pending EXCEPT ![q] = payload[q]] /\ payload' = [payload EXCEPT ![q] = 0]
            /\ UNCHANGED tmp
         \/ /\ payload' = [payload EXCEPT ![q] = pending[q]] /\ pending' = [pending EXCEPT ![q] = 0]
            /\ UNCHANGED tmp
  PROVE  /\ VaultInv' /\ \A i \in 1..inodes : ~Vaulted(i) => ~Vaulted(i)'
         /\ {tmp', payload', pending'} \subseteq [Ids -> 0..MaxInode]
<1>1. /\ tmp \in [Ids -> 0..MaxInode] /\ payload \in [Ids -> 0..MaxInode]
      /\ pending \in [Ids -> 0..MaxInode] /\ inodes \in Nat /\ MaxInode \in Nat /\ 0 \in 0..MaxInode
  BY Types DEF Base
<1>2. {tmp', payload', pending'} \subseteq [Ids -> 0..MaxInode]
  BY <1>1
<1>3. VaultInv
  BY DEF Base
<1>4. \A r \in Ids : tmp'[r] <= inodes /\ payload'[r] <= inodes /\ pending'[r] <= inodes
  BY <1>1, <1>3 DEF VaultInv
<1>5. /\ \A r, s \in Ids : payload'[r] # 0 =>
           /\ payload'[r] # tmp'[s] /\ payload'[r] # pending'[s]
           /\ r # s => payload'[r] # payload'[s]
      /\ \A r, s \in Ids : tmp'[r] # 0 => tmp'[r] # pending'[s] /\ (r # s => tmp'[r] # tmp'[s])
      /\ \A r, s \in Ids : r # s /\ pending'[r] # 0 => pending'[r] # pending'[s]
  BY <1>1, <1>3 DEF VaultInv
<1>6. \A i : i # 0 /\ ~Vaulted(i) => \A r \in Ids : i \notin {tmp'[r], payload'[r], pending'[r]}
  BY <1>1 DEF Vaulted
<1>7. \A i \in 1..inodes : ~Vaulted(i) => ~Vaulted(i)'
  BY <1>1, <1>6 DEF Vaulted
<1>8. \A i \in user : i \in 1..inodes /\ \A r \in Ids : i \notin {tmp'[r], payload'[r], pending'[r]}
  BY <1>1, <1>3, <1>6 DEF VaultInv
<1>9. VaultInv'
  BY <1>4, <1>5, <1>8 DEF VaultInv, Vaulted
<1> QED BY <1>2, <1>7, <1>9

\* A quarantine goes on.
LEMMA QuarantineStays ==
  ASSUME NEW t \in Threads, ThreadOK(t), th[t].pc \in QPhase, th'[t].pc \in QPhase,
         th'[t].q = th[t].q, th'[t].path = th[t].path, th'[t].ino = th[t].ino,
         UNCHANGED used, taken'[th[t].q] = taken[th[t].q],
         inodes \in Nat, inodes' \in Nat, inodes <= inodes',
         th'[t].pc \in QHeld => holding'[th[t].q] = th[t].ino,
         th'[t].pc \in {"qMove", "qClean"} => holding'[th[t].q] = 0
  PROVE  ThreadOK(t)'
<1>1. /\ th'[t].pc # "idle" /\ th'[t].pc \notin RPhase /\ th'[t].pc \notin DPhase
      /\ th'[t].pc \notin RTarget /\ th'[t].pc \notin {"rMetadata", "rSync"} /\ th[t].pc # "idle"
  BY Phases
<1>2. th[t].q \in used /\ taken[th[t].q] = None /\ th[t].path \in Paths /\ th[t].ino \in 1..inodes
  BY <1>1 DEF ThreadOK
<1>3. th[t].ino \in 1..inodes'
  BY <1>2
<1> QED BY <1>1, <1>2, <1>3 DEF ThreadOK

\* QuarantinePublish, DeleteMove and DeleteBack.
LEMMA RenameKeeps ==
  ASSUME Base, NEW t \in Threads, QuarantinePublish(t) \/ DeleteMove(t) \/ DeleteBack(t)
  PROVE  Base'
<1>1. /\ th[t].pc \in {"qPublish", "dMove", "dBack"}
      /\ UNCHANGED <<at, holding, meta, store, used, user, taken, deleting, corrupted, delivered>>
  BY DEF QuarantinePublish, DeleteMove, DeleteBack, At, history
<1>2. /\ TypeOK /\ th \in [Threads -> Thread] /\ ThreadOK(t) /\ th[t] \in Thread
      /\ meta \in [Ids -> Record \cup {None}] /\ data \in [1..MaxInode -> Nat]
      /\ outcome \in [Ids -> Outcomes] /\ {tmp, payload, pending} \subseteq [Ids -> 0..MaxInode]
      /\ inodes \in Nat /\ inodes \in 0..MaxInode
      /\ th[t].q \in Ids
  BY <1>1, CallFacts, Types
<1>3. th[t].pc # "idle" /\ th[t].pc \notin RTarget
  BY <1>1, Phases
<1>4. CASE DeleteMove(t) /\ Return(t, "refused") /\ UNCHANGED <<pending, payload>>
  <2>1. UNCHANGED tmp
    BY <1>4 DEF DeleteMove
  <2> QED BY <1>1, <1>2, <1>3, <1>4, <2>1, ReturnStep DEF Outcomes
<1>5. ASSUME NEW p \in {"qMetadata", "qRollback", "dMetadata", "dUndo"}, Goto(t, p), UNCHANGED outcome,
             th[t].pc = "qPublish" <=> p \in {"qMetadata", "qRollback"},
             VaultInv', \A i \in 1..inodes : ~Vaulted(i) => ~Vaulted(i)',
             {tmp', payload', pending'} \subseteq [Ids -> 0..MaxInode]
      PROVE  Base'
  <2>1. /\ th' \in [Threads -> Thread]
        /\ \A u \in Threads : u # t => th'[u] = th[u]
        /\ th'[t].pc = p /\ th'[t].q = th[t].q /\ th'[t].path = th[t].path
        /\ th'[t].ino = th[t].ino /\ th'[t].seen = th[t].seen /\ th'[t].rec = th[t].rec
    BY <1>2, <1>5, GotoFacts DEF PCs
  <2>4. /\ inodes' = inodes /\ inodes' \in Nat /\ inodes <= inodes' /\ inodes' \in 0..MaxInode
        /\ data' = data /\ UNCHANGED <<used, taken, holding>>
    BY <1>1, <1>2 DEF store
  <2>2. CASE th[t].pc = "qPublish"
    <3>1. /\ th[t].pc \in QPhase /\ th[t].pc \in QHeld /\ p \in QPhase /\ p \notin RTarget
          /\ p \notin RPhase \cup DPhase /\ p \notin {"qMove", "qClean"}
      BY <1>5, <2>2, Phases
    <3>2. holding[th[t].q] = th[t].ino
      BY <1>2, <3>1 DEF ThreadOK
    <3>3. ThreadOK(t)'
      BY <1>2, <2>1, <2>4, <3>1, <3>2, QuarantineStays
    <3>4. Kept(t)
      BY <2>1, <3>1 DEF Kept
    <3> QED BY <1>1, <1>2, <1>3, <1>5, <2>1, <2>4, <3>1, <3>3, <3>4, VaultStep DEF store
  <2>3. CASE th[t].pc # "qPublish"
    <3>1. th[t].pc \in DPhase /\ p \in DPhase /\ p \notin QPhase /\ p \notin RTarget
      BY <1>1, <1>5, <2>3, Phases
    <3>2. ThreadOK(t)' /\ Kept(t)
      BY <1>1, <1>2, <2>1, <3>1, DeletionStays DEF Kept
    <3> QED BY <1>1, <1>2, <1>3, <1>5, <2>1, <2>4, <3>1, <3>2, VaultStep DEF store
  <2> QED BY <2>2, <2>3
<1>6. CASE QuarantinePublish(t)
  <2>1. /\ payload' = [payload EXCEPT ![th[t].q] = tmp[th[t].q]] /\ tmp' = [tmp EXCEPT ![th[t].q] = 0]
        /\ UNCHANGED <<pending, outcome>> /\ th[t].pc = "qPublish"
    BY <1>6 DEF QuarantinePublish, Q, At, history
  <2>2. PICK p \in {"qMetadata", "qRollback"} : Goto(t, p)
    BY <1>6 DEF QuarantinePublish, Fails
  <2>3. /\ VaultInv' /\ \A i \in 1..inodes : ~Vaulted(i) => ~Vaulted(i)'
        /\ {tmp', payload', pending'} \subseteq [Ids -> 0..MaxInode]
    BY <1>1, <1>2, <2>1, VaultRename DEF store
  <2> QED BY <1>5, <2>1, <2>2, <2>3
<1>7. CASE /\ At(t, "dMove") /\ UNCHANGED <<tmp, outcome>>
           /\ pending' = [pending EXCEPT ![th[t].q] = payload[th[t].q]]
           /\ payload' = [payload EXCEPT ![th[t].q] = 0]
           /\ Goto(t, "dMetadata")
  <2>1. /\ VaultInv' /\ \A i \in 1..inodes : ~Vaulted(i) => ~Vaulted(i)'
        /\ {tmp', payload', pending'} \subseteq [Ids -> 0..MaxInode]
    BY <1>1, <1>2, <1>7, VaultRename DEF store
  <2> QED BY <1>5, <1>7, <2>1 DEF At
<1>8. CASE DeleteBack(t)
  <2>1. th[t].pc = "dBack" /\ Goto(t, "dUndo") /\ UNCHANGED <<tmp, outcome>>
    BY <1>8 DEF DeleteBack, At, history
  <2>2. \/ /\ payload' = [payload EXCEPT ![th[t].q] = pending[th[t].q]]
           /\ pending' = [pending EXCEPT ![th[t].q] = 0]
        \/ UNCHANGED <<payload, pending>>
    BY <1>8 DEF DeleteBack, Q
  <2>3. /\ VaultInv' /\ \A i \in 1..inodes : ~Vaulted(i) => ~Vaulted(i)'
        /\ {tmp', payload', pending'} \subseteq [Ids -> 0..MaxInode]
    <3>1. CASE UNCHANGED <<payload, pending>>
      BY <1>1, <1>2, <2>1, <3>1, VaultFrame DEF store
    <3>2. CASE /\ payload' = [payload EXCEPT ![th[t].q] = pending[th[t].q]]
               /\ pending' = [pending EXCEPT ![th[t].q] = 0]
      BY <1>1, <1>2, <2>1, <3>2, VaultRename DEF store
    <3> QED BY <2>2, <3>1, <3>2
  <2> QED BY <1>5, <2>1, <2>3
<1> QED BY <1>4, <1>6, <1>7, <1>8 DEF DeleteMove, Q

\* QuarantineCopy: a new inode in the vault.
LEMMA CopyKeeps ==
  ASSUME Base, NEW t \in Threads, QuarantineCopy(t)
  PROVE  Base'
<1>1. /\ th[t].pc = "qCopy"
      /\ UNCHANGED <<at, holding, payload, pending, meta, bytes, used, history>>
  BY DEF QuarantineCopy, At
<1>2. /\ TypeOK /\ th \in [Threads -> Thread] /\ ThreadOK(t) /\ th[t] \in Thread
      /\ meta \in [Ids -> Record \cup {None}] /\ data \in [1..MaxInode -> Nat]
      /\ outcome \in [Ids -> Outcomes] /\ {tmp, payload, pending} \subseteq [Ids -> 0..MaxInode]
      /\ inodes \in Nat /\ MaxInode \in Nat /\ th[t].q \in Ids
  BY <1>1, CallFacts, Types
<1>3. th[t].pc \in QPhase /\ th[t].pc \in QHeld /\ th[t].pc # "idle" /\ th[t].pc \notin RTarget
  BY <1>1, Phases
<1>4. th[t].ino \in 1..MaxInode
  <2>1. th[t].ino \in 1..inodes /\ inodes <= MaxInode
    BY <1>2, <1>3, CallFacts DEF ThreadOK
  <2> QED BY <1>2, <2>1
<1>5. PICK b \in Nat, p \in {"qCheck", "qRollback"} : NewInode(b) /\ Goto(t, p)
  BY <1>2, <1>4 DEF QuarantineCopy, Fails
<1>6. /\ inodes' = inodes + 1 /\ inodes < MaxInode /\ data' = [data EXCEPT ![inodes + 1] = b]
      /\ tmp' = [tmp EXCEPT ![th[t].q] = inodes + 1]
  BY <1>5 DEF NewInode, QuarantineCopy, Q
<1>7. /\ inodes' \in Nat /\ inodes' \in 0..MaxInode /\ inodes <= inodes' /\ inodes + 1 \in 1..MaxInode
      /\ inodes + 1 \in 0..MaxInode /\ data' \in [1..MaxInode -> Nat] /\ tmp' \in [Ids -> 0..MaxInode]
  BY <1>2, <1>6
<1>8. /\ th' \in [Threads -> Thread]
      /\ \A u \in Threads : u # t => th'[u] = th[u]
      /\ th'[t].pc = p /\ th'[t].q = th[t].q /\ th'[t].path = th[t].path
      /\ th'[t].ino = th[t].ino /\ th'[t].seen = th[t].seen /\ th'[t].rec = th[t].rec
  BY <1>2, <1>5, GotoFacts DEF PCs
<1>9. p \in QPhase /\ p \notin RTarget /\ p \notin RPhase \cup DPhase /\ p \notin {"qMove", "qClean"}
  BY Phases
<1>10. ThreadOK(t)' /\ Kept(t)
  <2>1. holding[th[t].q] = th[t].ino
    BY <1>2, <1>3 DEF ThreadOK
  <2> QED BY <1>1, <1>2, <1>3, <1>7, <1>8, <1>9, <2>1, QuarantineStays DEF Kept, history
<1>11. VaultInv /\ UNCHANGED <<user, payload, pending>>
  BY <1>1 DEF Base, history
<1>12. \A r \in Ids : /\ tmp[r] # inodes + 1 /\ payload[r] # inodes + 1 /\ pending[r] # inodes + 1
                      /\ tmp'[r] = IF r = th[t].q THEN inodes + 1 ELSE tmp[r]
                      /\ tmp[r] \in Nat /\ payload[r] \in Nat /\ pending[r] \in Nat
                      /\ tmp[r] <= inodes /\ payload[r] <= inodes /\ pending[r] <= inodes
  <2>1. \A r \in Ids : /\ tmp[r] \in Nat /\ payload[r] \in Nat /\ pending[r] \in Nat
                       /\ tmp[r] <= inodes /\ payload[r] <= inodes /\ pending[r] <= inodes
    BY <1>2, <1>11 DEF VaultInv
  <2>2. \A r \in Ids : tmp[r] # inodes + 1 /\ payload[r] # inodes + 1 /\ pending[r] # inodes + 1
    BY <1>2, <2>1
  <2>3. \A r \in Ids : tmp'[r] = IF r = th[t].q THEN inodes + 1 ELSE tmp[r]
    BY <1>2, <1>6
  <2> QED BY <2>1, <2>2, <2>3
<1>13. \A i \in 1..inodes : i # inodes + 1 /\ i \in 1..inodes'
  BY <1>2, <1>6
<1>14. \A i \in 1..inodes : ~Vaulted(i) => \A r \in Ids : i \notin {tmp'[r], payload'[r], pending'[r]}
  BY <1>11, <1>12, <1>13 DEF Vaulted
<1>15. \A i \in 1..inodes : ~Vaulted(i) => ~Vaulted(i)'
  BY <1>14 DEF Vaulted
<1>16. VaultInv'
  <2>1. \A r \in Ids : tmp'[r] <= inodes' /\ payload'[r] <= inodes' /\ pending'[r] <= inodes'
    BY <1>2, <1>6, <1>11, <1>12
  <2>2. /\ \A r, s \in Ids : payload'[r] # 0 =>
             /\ payload'[r] # tmp'[s] /\ payload'[r] # pending'[s]
             /\ r # s => payload'[r] # payload'[s]
        /\ \A r, s \in Ids : tmp'[r] # 0 => tmp'[r] # pending'[s] /\ (r # s => tmp'[r] # tmp'[s])
        /\ \A r, s \in Ids : r # s /\ pending'[r] # 0 => pending'[r] # pending'[s]
    BY <1>11, <1>12 DEF VaultInv
  <2>3. \A i \in user' : i \in 1..inodes' /\ \A r \in Ids : i \notin {tmp'[r], payload'[r], pending'[r]}
    BY <1>11, <1>13, <1>14 DEF VaultInv
  <2> QED BY <2>1, <2>2, <2>3 DEF VaultInv, Vaulted
<1>17. \A u \in Threads : u # t /\ th[u].pc \in RTarget => data'[th[u].target] = data[th[u].target]
  <2> SUFFICES ASSUME NEW u \in Threads, th[u].pc \in RTarget
               PROVE  data'[th[u].target] = data[th[u].target]
    OBVIOUS
  <2>1. th[u].target \in 1..inodes
    BY DEF Base, CallInv
  <2>2. th[u].target \in 1..MaxInode /\ th[u].target # inodes + 1
    BY <1>2, <1>6, <2>1
  <2> QED BY <1>2, <1>6, <2>2
<1> QED BY <1>1, <1>2, <1>3, <1>7, <1>8, <1>9, <1>10, <1>15, <1>16, <1>17, VaultStep DEF history

\* A step of a caller that moves a user's file and leaves the vault alone.
LEMMA SourceStep ==
  ASSUME Base, NEW t \in Threads, th[t].pc # "idle", Kept(t), ThreadOK(t)',
         th'[t].pc \in RTarget => th[t].pc \in RTarget /\ th'[t].target = th[t].target,
         UNCHANGED <<tmp, payload, pending, meta, store, used, user, deleting, corrupted, delivered>>,
         SourceInv', at' \in [Paths -> 0..MaxInode], holding' \in [Ids -> 0..MaxInode],
         taken' \in [Ids -> [ino : 1..MaxInode, hash : Nat] \cup {None}],
         outcome' \in [Ids -> Outcomes],
         \A q \in Ids : q # th[t].q =>
           outcome'[q] = outcome[q] /\ holding'[q] = holding[q] /\ taken'[q] = taken[q],
         th[t].pc \in QPhase \/ UNCHANGED <<holding, taken>>,
         \/ taken'[th[t].q] = taken[th[t].q]
         \/ th[t].pc \in QPhase /\ taken'[th[t].q].hash = th[t].seen
  PROVE  Base'
<1>1. /\ inodes \in Nat /\ inodes' \in Nat /\ inodes <= inodes' /\ used \subseteq used'
      /\ user' \subseteq user /\ th[t].q \in used /\ used \subseteq Ids /\ th[t].q \in Ids
      /\ data' = data
  BY Types DEF Base, CallInv, store
<1>2. TypeOK'
  <2>1. th' \in [Threads -> Thread]
    BY DEF Kept
  <2> QED BY <2>1 DEF Base, TypeOK, store
<1>3. VaultInv' /\ \A i \in 1..inodes : ~Vaulted(i) => ~Vaulted(i)'
  BY <1>1, VaultFrame
<1>4. UnusedInv'
  BY <1>1, UnusedFrame
<1>5. CallInv'
  <2>1. \A u \in Threads : u # t /\ th[u].pc \in QPhase =>
           holding'[th[u].q] = holding[th[u].q] /\ taken'[th[u].q] = taken[th[u].q]
    <3> SUFFICES ASSUME NEW u \in Threads, u # t, th[u].pc \in QPhase
                 PROVE  holding'[th[u].q] = holding[th[u].q] /\ taken'[th[u].q] = taken[th[u].q]
      OBVIOUS
    <3>1. th[u].q \in Ids
      BY <1>1, IdleFacts DEF Base, CallInv
    <3>2. CASE th[t].pc \in QPhase
      BY <3>1, <3>2 DEF Base, PairInv
    <3> QED BY <3>2
  <2> QED BY <1>1, <1>3, <2>1, CallFrame DEF Kept
<1>6. PairInv'
  BY PairFrame
<1>7. AgreeInv'
  <2>1. PICK h \in [Ids -> Nat] : Agreed(h)
    BY DEF Base, AgreeInv
  <2>2. \A q \in Ids : taken'[q] # None => taken'[q].hash = h[q]
    <3> SUFFICES ASSUME NEW q \in Ids, taken'[q] # None
                 PROVE  taken'[q].hash = h[q]
      OBVIOUS
    <3>1. CASE q # th[t].q
      BY <2>1, <3>1 DEF Agreed
    <3>2. CASE q = th[t].q
      BY <2>1, <3>2 DEF Agreed
    <3> QED BY <3>1, <3>2
  <2>3. /\ \A q \in Ids : meta'[q] # None => meta'[q].hash = h[q]
        /\ \A d \in delivered' : d.bytes = h[d.q]
    BY <2>1 DEF Agreed
  <2>4. Agreed(h)'
    BY <2>1, <2>2, <2>3, AgreedFrame
  <2> QED BY <2>1, <2>4 DEF AgreeInv
<1> QED BY <1>2, <1>3, <1>4, <1>5, <1>6, <1>7 DEF Base

\* SourceInv with its types.
LEMMA SourceFacts ==
  ASSUME Base
  PROVE  /\ at \in [Paths -> 0..MaxInode] /\ holding \in [Ids -> 0..MaxInode]
         /\ taken \in [Ids -> [ino : 1..MaxInode, hash : Nat] \cup {None}]
         /\ inodes \in Nat /\ MaxInode \in Nat /\ 0 \in 0..MaxInode /\ inodes <= MaxInode
         /\ SourceInv
         /\ \A q \in Ids : taken[q] # None => taken[q].ino # 0
<1>1. TypeOK /\ SourceInv
  BY DEF Base
<1>2. /\ at \in [Paths -> 0..MaxInode] /\ holding \in [Ids -> 0..MaxInode]
      /\ taken \in [Ids -> [ino : 1..MaxInode, hash : Nat] \cup {None}]
      /\ inodes \in Nat /\ MaxInode \in Nat /\ 0 \in 0..MaxInode /\ inodes <= MaxInode
  BY <1>1, Types
<1>3. \A q \in Ids : taken[q] # None => taken[q].ino \in 1..inodes
  BY <1>1 DEF SourceInv
<1> QED BY <1>1, <1>2, <1>3

\* QuarantineMove, and the way back.
LEMMA MoveKeeps ==
  ASSUME Base, NEW t \in Threads, QuarantineMove(t) \/ QuarantineRollback(t)
  PROVE  Base'
<1>1. /\ th[t].pc \in {"qMove", "qRollback"}
      /\ UNCHANGED <<tmp, payload, pending, meta, store, used, user, taken, deleting, corrupted, delivered>>
  BY DEF QuarantineMove, QuarantineRollback, At, history
<1>2. /\ TypeOK /\ th \in [Threads -> Thread] /\ ThreadOK(t) /\ th[t] \in Thread
      /\ outcome \in [Ids -> Outcomes] /\ th[t].q \in Ids
  BY <1>1, CallFacts
<1>3. /\ at \in [Paths -> 0..MaxInode] /\ holding \in [Ids -> 0..MaxInode]
      /\ taken \in [Ids -> [ino : 1..MaxInode, hash : Nat] \cup {None}]
      /\ inodes \in Nat /\ MaxInode \in Nat /\ 0 \in 0..MaxInode /\ SourceInv
      /\ \A q \in Ids : taken[q] # None => taken[q].ino # 0
  BY SourceFacts
<1>4. th[t].pc # "idle" /\ th[t].pc \in QPhase /\ th[t].path \in Paths
  <2>1. th[t].pc # "idle" /\ th[t].pc \in QPhase
    BY <1>1, Phases
  <2> QED BY <1>2, <2>1 DEF ThreadOK
<1> DEFINE q == th[t].q  p == th[t].path
<1>5. inodes' = inodes /\ inodes' \in Nat /\ inodes <= inodes' /\ UNCHANGED <<used, taken>>
  BY <1>1, <1>3 DEF store
<1>6. ASSUME \/ UNCHANGED <<at, holding>>
             \/ /\ at[p] # 0 /\ at' = [at EXCEPT ![p] = 0]
                /\ holding' = [holding EXCEPT ![q] = at[p]]
             \/ /\ at[p] = 0 /\ holding[q] # 0 /\ at' = [at EXCEPT ![p] = holding[q]]
                /\ holding' = [holding EXCEPT ![q] = 0]
      PROVE  /\ SourceInv' /\ at' \in [Paths -> 0..MaxInode] /\ holding' \in [Ids -> 0..MaxInode]
             /\ \A r \in Ids : r # q => holding'[r] = holding[r]
  <2>1. q \in Ids /\ p \in Paths
    BY <1>2, <1>4
  <2> HIDE DEF q, p
  <2>2. /\ at' \in [Paths -> 0..MaxInode] /\ holding' \in [Ids -> 0..MaxInode]
        /\ \A r \in Ids : r # q => holding'[r] = holding[r]
    BY <1>3, <1>6, <2>1
  <2>3. CASE UNCHANGED <<at, holding>>
    BY <1>3, <1>5, <2>2, <2>3, SourceFrame
  <2>4. CASE /\ at[p] # 0 /\ at' = [at EXCEPT ![p] = 0] /\ holding' = [holding EXCEPT ![q] = at[p]]
    <3>1. /\ \A r \in Paths : at'[r] = IF r = p THEN 0 ELSE at[r]
          /\ \A r \in Ids : holding'[r] = IF r = q THEN at[p] ELSE holding[r]
      BY <1>3, <2>1, <2>4
    <3>2. (\A r \in Paths : at'[r] <= inodes') /\ (\A r \in Ids : holding'[r] <= inodes')
      BY <1>3, <1>5, <2>1, <3>1 DEF SourceInv
    <3>3. /\ \A r, s \in Paths : r # s /\ at'[r] # 0 => at'[r] # at'[s]
          /\ \A r \in Paths, s \in Ids : at'[r] # 0 => at'[r] # holding'[s]
          /\ \A r, s \in Ids : r # s /\ holding'[r] # 0 => holding'[r] # holding'[s]
      BY <1>3, <2>1, <2>4, <3>1 DEF SourceInv
    <3>4. \A r \in Ids : taken[r] # None =>
            /\ taken[r].ino \in 1..inodes
            /\ \A s \in Paths : at'[s] # taken[r].ino
            /\ \A s \in Ids : holding'[s] # taken[r].ino
      BY <1>3, <2>1, <3>1 DEF SourceInv
    <3> QED BY <1>5, <2>2, <3>2, <3>3, <3>4 DEF SourceInv
  <2>5. CASE /\ at[p] = 0 /\ holding[q] # 0 /\ at' = [at EXCEPT ![p] = holding[q]]
             /\ holding' = [holding EXCEPT ![q] = 0]
    <3>1. /\ \A r \in Paths : at'[r] = IF r = p THEN holding[q] ELSE at[r]
          /\ \A r \in Ids : holding'[r] = IF r = q THEN 0 ELSE holding[r]
      BY <1>3, <2>1, <2>5
    <3>2. (\A r \in Paths : at'[r] <= inodes') /\ (\A r \in Ids : holding'[r] <= inodes')
      BY <1>3, <1>5, <2>1, <3>1 DEF SourceInv
    <3>3. /\ \A r, s \in Paths : r # s /\ at'[r] # 0 => at'[r] # at'[s]
          /\ \A r \in Paths, s \in Ids : at'[r] # 0 => at'[r] # holding'[s]
          /\ \A r, s \in Ids : r # s /\ holding'[r] # 0 => holding'[r] # holding'[s]
      BY <1>3, <2>1, <2>5, <3>1 DEF SourceInv
    <3>4. \A r \in Ids : taken[r] # None =>
            /\ taken[r].ino \in 1..inodes
            /\ \A s \in Paths : at'[s] # taken[r].ino
            /\ \A s \in Ids : holding'[s] # taken[r].ino
      BY <1>3, <2>1, <3>1 DEF SourceInv
    <3> QED BY <1>5, <2>2, <3>2, <3>3, <3>4 DEF SourceInv
  <2> QED BY <1>6, <2>3, <2>4, <2>5
<1>7. ASSUME NEW x \in {"qVerify", "qRollback", "qClean"}, Goto(t, x), UNCHANGED outcome,
             x = "qClean" => holding'[q] = 0,
             SourceInv', at' \in [Paths -> 0..MaxInode], holding' \in [Ids -> 0..MaxInode],
             \A r \in Ids : r # q => holding'[r] = holding[r]
      PROVE  Base'
  <2>1. /\ th' \in [Threads -> Thread]
        /\ \A u \in Threads : u # t => th'[u] = th[u]
        /\ th'[t].pc = x /\ th'[t].q = th[t].q /\ th'[t].path = th[t].path
        /\ th'[t].ino = th[t].ino /\ th'[t].seen = th[t].seen /\ th'[t].rec = th[t].rec
    BY <1>2, <1>7, GotoFacts DEF PCs
  <2>2. x \in QPhase /\ x \notin QHeld /\ x \notin RTarget /\ x # "qMove" /\ x \notin RPhase \cup DPhase
    BY Phases
  <2>3. ThreadOK(t)'
    BY <1>2, <1>3, <1>4, <1>5, <1>7, <2>1, <2>2, QuarantineStays
  <2>4. Kept(t)
    BY <1>4, <2>1, <2>2 DEF Kept
  <2> QED BY <1>1, <1>2, <1>3, <1>4, <1>7, <2>1, <2>2, <2>3, <2>4, SourceStep
<1>8. ASSUME Return(t, "incomplete"),
             SourceInv', at' \in [Paths -> 0..MaxInode], holding' \in [Ids -> 0..MaxInode],
             \A r \in Ids : r # q => holding'[r] = holding[r]
      PROVE  Base'
  <2>1. /\ th' \in [Threads -> Thread] /\ th'[t] = IdleThread
        /\ \A u \in Threads : u # t => th'[u] = th[u]
        /\ outcome' \in [Ids -> Outcomes]
        /\ \A r \in Ids : r # th[t].q => outcome'[r] = outcome[r]
    BY <1>2, <1>8, ReturnFacts DEF Outcomes
  <2>2. Kept(t) /\ ThreadOK(t)' /\ th'[t].pc \notin RTarget
    BY <2>1, IdleOK, IdleFacts DEF Kept, RPhase
  <2> QED BY <1>1, <1>2, <1>3, <1>4, <1>8, <2>1, <2>2, SourceStep
<1>9. CASE QuarantineMove(t)
  <2>1. \/ /\ at[p] # 0 /\ at' = [at EXCEPT ![p] = 0] /\ holding' = [holding EXCEPT ![q] = at[p]]
        \/ UNCHANGED <<at, holding>>
    BY <1>9 DEF QuarantineMove, Q, P, Free
  <2>2. (\E x \in {"qVerify", "qRollback"} : Goto(t, x)) /\ UNCHANGED outcome
    BY <1>9 DEF QuarantineMove, Fails, history
  <2> QED BY <1>6, <1>7, <2>1, <2>2
<1>10. CASE QuarantineRollback(t)
  <2>1. \/ UNCHANGED <<at, holding>>
        \/ /\ at[p] = 0 /\ holding[q] # 0 /\ at' = [at EXCEPT ![p] = holding[q]]
           /\ holding' = [holding EXCEPT ![q] = 0]
    BY <1>10 DEF QuarantineRollback, RollbackPossible, Q, P, Free
  <2>2. \/ Return(t, "incomplete")
        \/ Goto(t, "qClean") /\ UNCHANGED outcome /\ holding'[q] = 0
    BY <1>2, <1>3, <1>10 DEF QuarantineRollback, Q, Free
  <2> QED BY <1>6, <1>7, <1>8, <2>1, <2>2
<1> QED BY <1>9, <1>10

\* QuarantineUnlink: the only name of the file goes.
LEMMA UnlinkKeeps ==
  ASSUME Base, NEW t \in Threads, QuarantineUnlink(t)
  PROVE  Base'
<1>1. /\ th[t].pc = "qUnlink"
      /\ UNCHANGED <<at, tmp, payload, pending, meta, store, used, user, deleting, corrupted, delivered>>
  BY DEF QuarantineUnlink, At
<1>2. /\ TypeOK /\ th \in [Threads -> Thread] /\ ThreadOK(t) /\ th[t] \in Thread
      /\ outcome \in [Ids -> Outcomes] /\ th[t].q \in Ids
  BY <1>1, CallFacts
<1>3. /\ at \in [Paths -> 0..MaxInode] /\ holding \in [Ids -> 0..MaxInode]
      /\ taken \in [Ids -> [ino : 1..MaxInode, hash : Nat] \cup {None}]
      /\ inodes \in Nat /\ MaxInode \in Nat /\ 0 \in 0..MaxInode /\ SourceInv /\ inodes <= MaxInode
      /\ \A q \in Ids : taken[q] # None => taken[q].ino # 0
  BY SourceFacts
<1>4. th[t].pc # "idle" /\ th[t].pc \in QPhase /\ th[t].pc \in QHeld
  BY <1>1, Phases
<1>5. holding[th[t].q] = th[t].ino /\ th[t].ino \in 1..inodes /\ th[t].seen \in Nat
  BY <1>2, <1>4, ThreadFields DEF ThreadOK
<1>6. inodes' = inodes /\ inodes' \in Nat /\ inodes <= inodes' /\ UNCHANGED used
  BY <1>1, <1>3 DEF store
<1>7. CASE Goto(t, "qRollback") /\ UNCHANGED <<holding, taken, outcome>>
  <2>1. /\ th' \in [Threads -> Thread]
        /\ \A u \in Threads : u # t => th'[u] = th[u]
        /\ th'[t].pc = "qRollback" /\ th'[t].q = th[t].q /\ th'[t].path = th[t].path
        /\ th'[t].ino = th[t].ino /\ th'[t].seen = th[t].seen /\ th'[t].rec = th[t].rec
    BY <1>2, <1>7, GotoFacts DEF PCs
  <2>2. /\ th'[t].pc \in QPhase /\ th'[t].pc \notin QHeld /\ th'[t].pc \notin RTarget
        /\ th'[t].pc \notin {"qMove", "qClean"} /\ th'[t].pc \notin RPhase \cup DPhase
    BY <2>1, Phases
  <2>3. ThreadOK(t)' /\ Kept(t)
    BY <1>2, <1>3, <1>4, <1>6, <1>7, <2>1, <2>2, QuarantineStays DEF Kept
  <2>4. SourceInv'
    BY <1>1, <1>6, <1>7, SourceFrame
  <2> QED BY <1>1, <1>2, <1>3, <1>4, <1>7, <2>1, <2>2, <2>3, <2>4, SourceStep
<1>8. CASE /\ holding' = [holding EXCEPT ![th[t].q] = 0]
           /\ taken' = [taken EXCEPT ![th[t].q] = [ino |-> th[t].ino, hash |-> th[t].seen]]
           /\ Return(t, "succeeded")
  <2> DEFINE q == th[t].q  i == th[t].ino  new == [ino |-> th[t].ino, hash |-> th[t].seen]
  <2>1. q \in Ids /\ i \in 1..inodes /\ holding[q] = i /\ i \in 1..MaxInode /\ i # 0
    BY <1>2, <1>3, <1>5
  <2>2. new \in [ino : 1..MaxInode, hash : Nat] /\ new.ino = i /\ new.hash = th[t].seen
    BY <1>5, <2>1
  <2>3. holding' = [holding EXCEPT ![q] = 0] /\ taken' = [taken EXCEPT ![q] = new]
    BY <1>8
  <2> HIDE DEF q, i, new
  <2>4. /\ holding' \in [Ids -> 0..MaxInode]
        /\ taken' \in [Ids -> [ino : 1..MaxInode, hash : Nat] \cup {None}]
        /\ \A r \in Ids : holding'[r] = IF r = q THEN 0 ELSE holding[r]
        /\ \A r \in Ids : taken'[r] = IF r = q THEN new ELSE taken[r]
    BY <1>3, <2>1, <2>2, <2>3
  <2>5. SourceInv'
    <3>1. (\A r \in Paths : at[r] <= inodes') /\ (\A r \in Ids : holding'[r] <= inodes')
      BY <1>3, <1>6, <2>4 DEF SourceInv
    <3>2. /\ \A r, s \in Paths : r # s /\ at[r] # 0 => at[r] # at[s]
          /\ \A r \in Paths, s \in Ids : at[r] # 0 => at[r] # holding'[s]
          /\ \A r, s \in Ids : r # s /\ holding'[r] # 0 => holding'[r] # holding'[s]
      BY <1>3, <2>4 DEF SourceInv
    <3>3. /\ \A p \in Paths : at[p] # i
          /\ \A r \in Ids : holding'[r] # i
      BY <1>3, <2>1, <2>4 DEF SourceInv
    <3>4. \A r \in Ids : taken'[r] # None =>
            /\ taken'[r].ino \in 1..inodes'
            /\ \A s \in Paths : at[s] # taken'[r].ino
            /\ \A s \in Ids : holding'[s] # taken'[r].ino
      BY <1>3, <1>6, <2>1, <2>2, <2>4, <3>3 DEF SourceInv
    <3> QED BY <1>1, <3>1, <3>2, <3>4 DEF SourceInv
  <2>6. /\ th' \in [Threads -> Thread] /\ th'[t] = IdleThread
        /\ \A u \in Threads : u # t => th'[u] = th[u]
        /\ outcome' \in [Ids -> Outcomes]
        /\ \A r \in Ids : r # th[t].q => outcome'[r] = outcome[r]
    BY <1>2, <1>8, ReturnFacts DEF Outcomes
  <2>7. Kept(t) /\ ThreadOK(t)' /\ th'[t].pc \notin RTarget
    BY <2>6, IdleOK, IdleFacts DEF Kept, RPhase
  <2>8. /\ \A r \in Ids : r # th[t].q => holding'[r] = holding[r] /\ taken'[r] = taken[r]
        /\ taken'[th[t].q].hash = th[t].seen
    BY <2>1, <2>2, <2>4 DEF q
  <2> QED BY <1>1, <1>3, <1>4, <2>4, <2>5, <2>6, <2>7, <2>8, SourceStep
<1> QED BY <1>7, <1>8 DEF QuarantineUnlink, Fails, Q

-----------------------------------------------------------------------------
(* The user's paths.                                                       *)

\* Removing a name, or renaming one file over another.
LEMMA PathsFrame ==
  ASSUME Base, UNCHANGED <<holding, taken, inodes>>, NEW p \in Paths, NEW r \in Paths,
         \/ at' = [at EXCEPT ![p] = 0]
         \/ p # r /\ at' = [at EXCEPT ![r] = at[p], ![p] = 0]
  PROVE  SourceInv' /\ at' \in [Paths -> 0..MaxInode]
<1>1. /\ at \in [Paths -> 0..MaxInode] /\ holding \in [Ids -> 0..MaxInode]
      /\ taken \in [Ids -> [ino : 1..MaxInode, hash : Nat] \cup {None}]
      /\ inodes \in Nat /\ MaxInode \in Nat /\ 0 \in 0..MaxInode /\ SourceInv
      /\ \A q \in Ids : taken[q] # None => taken[q].ino # 0
  BY SourceFacts
<1>2. /\ at' \in [Paths -> 0..MaxInode]
      /\ \/ \A s \in Paths : at'[s] = IF s = p THEN 0 ELSE at[s]
         \/ p # r /\ \A s \in Paths : at'[s] = IF s = p THEN 0 ELSE IF s = r THEN at[p] ELSE at[s]
  BY <1>1
<1>3. \A s \in Paths : at'[s] <= inodes
  BY <1>1, <1>2 DEF SourceInv
<1>4. \A s, x \in Paths : s # x /\ at'[s] # 0 => at'[s] # at'[x]
  BY <1>1, <1>2 DEF SourceInv
<1>5. \A s \in Paths, q \in Ids : at'[s] # 0 => at'[s] # holding[q]
  BY <1>1, <1>2 DEF SourceInv
<1>6. \A q \in Ids : taken[q] # None => \A s \in Paths : at'[s] # taken[q].ino
  BY <1>1, <1>2 DEF SourceInv
<1> QED BY <1>1, <1>2, <1>3, <1>4, <1>5, <1>6 DEF SourceInv

\* Giving a new inode to a free path.
LEMMA NewPath ==
  ASSUME Base, UNCHANGED <<holding, taken>>, NEW p \in Paths, NEW b \in Nat, NewInode(b),
         at' = [at EXCEPT ![p] = inodes']
  PROVE  /\ SourceInv' /\ at' \in [Paths -> 0..MaxInode]
         /\ inodes' = inodes + 1 /\ inodes \in Nat /\ inodes' \in Nat /\ inodes' \in 1..MaxInode
         /\ inodes <= inodes' /\ inodes' \notin 1..inodes
         /\ data' \in [1..MaxInode -> Nat]
         /\ \A i \in 1..inodes : i \in 1..MaxInode /\ i \in 1..inodes' /\ data'[i] = data[i]
<1>1. /\ at \in [Paths -> 0..MaxInode] /\ holding \in [Ids -> 0..MaxInode]
      /\ taken \in [Ids -> [ino : 1..MaxInode, hash : Nat] \cup {None}]
      /\ inodes \in Nat /\ MaxInode \in Nat /\ 0 \in 0..MaxInode /\ SourceInv
  BY SourceFacts
<1>2. data \in [1..MaxInode -> Nat]
  BY Types DEF Base
<1>3. inodes' = inodes + 1 /\ inodes < MaxInode /\ data' = [data EXCEPT ![inodes + 1] = b]
  BY DEF NewInode
<1>4. /\ inodes' \in Nat /\ inodes' \in 1..MaxInode /\ inodes <= inodes' /\ inodes' \notin 1..inodes
      /\ data' \in [1..MaxInode -> Nat]
      /\ \A i \in 1..inodes : i \in 1..MaxInode /\ i \in 1..inodes' /\ i # inodes + 1
  BY <1>1, <1>2, <1>3
<1>5. \A i \in 1..inodes : data'[i] = data[i]
  BY <1>2, <1>3, <1>4
<1>6. at' \in [Paths -> 0..MaxInode] /\ \A s \in Paths : at'[s] = IF s = p THEN inodes + 1 ELSE at[s]
  BY <1>1, <1>3, <1>4
<1>7. /\ \A s \in Paths : at[s] \in Nat /\ at[s] <= inodes /\ at[s] <= inodes' /\ at[s] # inodes + 1
      /\ \A q \in Ids : holding[q] \in Nat /\ holding[q] <= inodes' /\ holding[q] # inodes + 1
      /\ \A q \in Ids : taken[q] # None => /\ taken[q].ino \in 1..inodes' /\ taken[q].ino # inodes + 1
  BY <1>1, <1>3, <1>4 DEF SourceInv
<1>8. /\ \A s \in Paths : at'[s] <= inodes'
      /\ \A s, x \in Paths : s # x /\ at'[s] # 0 => at'[s] # at'[x]
      /\ \A s \in Paths, q \in Ids : at'[s] # 0 => at'[s] # holding[q]
      /\ \A q \in Ids : taken[q] # None => \A s \in Paths : at'[s] # taken[q].ino
  <2>1. \A s \in Paths : at'[s] <= inodes'
    BY <1>1, <1>3, <1>6, <1>7
  <2> QED BY <1>1, <1>6, <1>7, <2>1 DEF SourceInv
<1> QED BY <1>1, <1>3, <1>4, <1>5, <1>6, <1>7, <1>8 DEF SourceInv

\* RestoreUnlink.
LEMMA RestoreUnlinkKeeps ==
  ASSUME Base, NEW t \in Threads, RestoreUnlink(t)
  PROVE  Base'
<1>1. th[t].pc = "rUnlink" /\ UNCHANGED <<holding, tmp, payload, pending, meta, store, used, history>>
  BY DEF RestoreUnlink, At
<1>2. /\ TypeOK /\ th \in [Threads -> Thread] /\ ThreadOK(t) /\ th[t] \in Thread
      /\ outcome \in [Ids -> Outcomes]
  BY CallFacts
<1>3. /\ th[t].pc \in RTarget /\ th[t].pc \in RPhase /\ th[t].pc # "idle"
      /\ th[t].path \in Paths
  <2>1. th[t].pc \in RTarget /\ th[t].pc \in RPhase /\ th[t].pc # "idle"
    BY <1>1, Phases
  <2> QED BY <1>2, <2>1 DEF ThreadOK
<1>4. /\ holding \in [Ids -> 0..MaxInode] /\ at \in [Paths -> 0..MaxInode]
      /\ taken \in [Ids -> [ino : 1..MaxInode, hash : Nat] \cup {None}] /\ inodes \in Nat
  BY SourceFacts
<1>5. /\ th' \in [Threads -> Thread]
      /\ \A u \in Threads : u # t => th'[u] = th[u]
      /\ th'[t].pc = "rUndo" /\ th'[t].q = th[t].q /\ th'[t].path = th[t].path
      /\ th'[t].ino = th[t].ino /\ th'[t].seen = th[t].seen
      /\ th'[t].target = th[t].target /\ th'[t].rec = th[t].rec
  <2>1. CASE Goto(t, "rUndo")
    BY <1>2, <2>1, GotoFacts DEF PCs
  <2>2. CASE th' = [th EXCEPT ![t].left = TRUE, ![t].pc = "rUndo"]
    BY <1>2, <2>2, FieldFacts DEF PCs
  <2> QED BY <2>1, <2>2 DEF RestoreUnlink
<1>6. SourceInv' /\ at' \in [Paths -> 0..MaxInode]
  <2>1. CASE UNCHANGED at
    BY <1>1, <1>4, <2>1, SourceFrame DEF store, history
  <2>2. CASE at' = [at EXCEPT ![th[t].path] = 0]
    BY <1>1, <1>3, <2>2, PathsFrame DEF store, history
  <2> QED BY <2>1, <2>2 DEF RestoreUnlink, P
<1>7. /\ th'[t].pc \in RTarget /\ th'[t].pc \in RPhase /\ th'[t].pc \notin {"rMetadata", "rSync"}
      /\ th'[t].pc \notin QPhase
  BY <1>5, Phases
<1>8. ThreadOK(t)' /\ Kept(t)
  BY <1>1, <1>2, <1>3, <1>5, <1>7, TargetStays DEF Kept, store, history
<1> QED BY <1>1, <1>2, <1>3, <1>4, <1>5, <1>6, <1>7, <1>8, SourceStep DEF history

\* The user's programs and bad storage.
LEMMA UserKeeps ==
  ASSUME Base,
         \/ \E p \in Paths : UserCreate(p) \/ UserRemove(p) \/ \E r \in Paths : UserRename(p, r)
         \/ \E i \in user : UserWrite(i)
         \/ \E q \in Ids : CorruptPayload(q)
  PROVE  Base'
<1>1. TypeOK /\ SourceInv /\ VaultInv /\ UnusedInv
  BY DEF Base
<1>2. /\ data \in [1..MaxInode -> Nat] /\ inodes \in Nat /\ MaxInode \in Nat /\ bytes \in Nat
      /\ inodes <= MaxInode /\ user \subseteq 1..MaxInode
      /\ {tmp, payload, pending} \subseteq [Ids -> 0..MaxInode]
  BY <1>1, Types
<1>3. \A u \in Threads : th[u].pc \in RTarget =>
        th[u].target \in 1..inodes /\ th[u].target \notin user /\ ~Vaulted(th[u].target)
  BY DEF Base, CallInv
<1>4. ASSUME NEW p \in Paths, UserCreate(p)
      PROVE  Base'
  <2>1. /\ NewInode(bytes + 1) /\ bytes' = bytes + 1 /\ at' = [at EXCEPT ![p] = inodes']
        /\ user' = user \cup {inodes'}
        /\ UNCHANGED <<holding, tmp, payload, pending, meta, th, used, taken, deleting, corrupted,
                       outcome, delivered>>
    BY <1>4 DEF UserCreate
  <2>2. /\ SourceInv' /\ at' \in [Paths -> 0..MaxInode]
        /\ inodes' = inodes + 1 /\ inodes' \in Nat /\ inodes' \in 1..MaxInode
        /\ inodes <= inodes' /\ inodes' \notin 1..inodes
        /\ data' \in [1..MaxInode -> Nat]
        /\ \A i \in 1..inodes : i \in 1..MaxInode /\ i \in 1..inodes' /\ data'[i] = data[i]
    <3>1. bytes + 1 \in Nat
      BY <1>2
    <3> QED BY <2>1, <3>1, NewPath
  <2>3. TypeOK'
    <3>1. bytes' \in Nat /\ user' \subseteq 1..MaxInode /\ inodes' \in 0..MaxInode
      BY <1>2, <2>1, <2>2
    <3> QED BY <1>1, <2>1, <2>2, <3>1 DEF TypeOK
  <2>4. \A i : Vaulted(i)' <=> Vaulted(i)
    BY <2>1 DEF Vaulted
  <2>5. VaultInv'
    <3>1. \A q \in Ids : /\ tmp[q] <= inodes' /\ payload[q] <= inodes' /\ pending[q] <= inodes'
                         /\ tmp[q] <= inodes /\ payload[q] <= inodes /\ pending[q] <= inodes
                         /\ tmp[q] \in Nat /\ payload[q] \in Nat /\ pending[q] \in Nat
      BY <1>1, <1>2, <2>2 DEF VaultInv
    <3>2. \A q \in Ids : tmp[q] # inodes + 1 /\ payload[q] # inodes + 1 /\ pending[q] # inodes + 1
      BY <1>2, <3>1
    <3>3. \A i \in user : i \in 1..inodes /\ \A q \in Ids : i \notin {tmp[q], payload[q], pending[q]}
      BY <1>1 DEF VaultInv, Vaulted
    <3>4. \A i \in user' : i \in 1..inodes' /\ \A q \in Ids : i \notin {tmp[q], payload[q], pending[q]}
      BY <1>2, <2>1, <2>2, <3>2, <3>3
    <3> QED BY <1>1, <2>1, <3>1, <3>4 DEF VaultInv, Vaulted
  <2>6. UnusedInv'
    BY <1>1, <2>1 DEF UnusedInv
  <2>7. CallInv' /\ PairInv' /\ AgreeInv'
    <3>1. \A i \in 1..inodes : i \notin user => i \notin user'
      BY <2>1, <2>2
    <3>2. \A u \in Threads : th[u].pc \in RTarget => data'[th[u].target] = data[th[u].target]
      BY <1>3, <2>2
    <3> QED BY <2>1, <2>2, <2>4, <3>1, <3>2, CallersFrame
  <2> QED BY <2>2, <2>3, <2>5, <2>6, <2>7 DEF Base
<1>5. ASSUME NEW p \in Paths, NEW r \in Paths, UserRemove(p) \/ UserRename(p, r)
      PROVE  Base'
  <2>1. /\ UNCHANGED <<holding, tmp, payload, pending, meta, store, th, used, taken, deleting,
                       corrupted, outcome, delivered>>
        /\ user' \subseteq user
        /\ at' = [at EXCEPT ![p] = 0] \/ (p # r /\ at' = [at EXCEPT ![r] = at[p], ![p] = 0])
    BY <1>5 DEF UserRemove, UserRename
  <2>2. /\ inodes' = inodes /\ inodes' \in Nat /\ inodes <= inodes' /\ data' = data /\ bytes' = bytes
    BY <1>2, <2>1 DEF store
  <2>3. SourceInv' /\ at' \in [Paths -> 0..MaxInode]
    BY <2>1, <2>2, PathsFrame
  <2>4. VaultInv' /\ \A i \in 1..inodes : ~Vaulted(i) => ~Vaulted(i)'
    BY <2>1, <2>2, VaultFrame
  <2>5. TypeOK'
    BY <1>1, <2>1, <2>2, <2>3 DEF TypeOK
  <2>6. UnusedInv'
    BY <1>1, <2>1 DEF UnusedInv
  <2>7. CallInv' /\ PairInv' /\ AgreeInv'
    BY <2>1, <2>2, <2>4, CallersFrame
  <2> QED BY <2>3, <2>4, <2>5, <2>6, <2>7 DEF Base
<1>6. ASSUME NEW i \in 1..MaxInode, bytes' = bytes + 1, data' = [data EXCEPT ![i] = bytes + 1],
             i \in user \/ (Vaulted(i) /\ i # 0),
             UNCHANGED <<names, meta, inodes, th, used, user, taken, deleting, outcome, delivered>>,
             corrupted' \subseteq Ids
      PROVE  Base'
  <2>1. /\ inodes' = inodes /\ inodes' \in Nat /\ inodes <= inodes'
        /\ UNCHANGED <<at, holding, tmp, payload, pending>>
    BY <1>2, <1>6 DEF names
  <2>2. data' \in [1..MaxInode -> Nat] /\ bytes' \in Nat /\ \A j \in 1..MaxInode : j # i => data'[j] = data[j]
    BY <1>2, <1>6
  <2>3. TypeOK'
    BY <1>1, <1>6, <2>1, <2>2 DEF TypeOK
  <2>4. SourceInv'
    BY <1>6, <2>1, SourceFrame
  <2>5. VaultInv' /\ \A j \in 1..inodes : ~Vaulted(j) => ~Vaulted(j)'
    BY <1>6, <2>1, VaultFrame
  <2>6. UnusedInv'
    BY <1>1, <1>6, <2>1 DEF UnusedInv
  <2>7. \A u \in Threads : th[u].pc \in RTarget => data'[th[u].target] = data[th[u].target]
    <3> SUFFICES ASSUME NEW u \in Threads, th[u].pc \in RTarget
                 PROVE  data'[th[u].target] = data[th[u].target]
      OBVIOUS
    <3>1. th[u].target \in 1..inodes /\ th[u].target # i
      BY <1>3, <1>6
    <3>2. th[u].target \in 1..MaxInode
      BY <1>2, <3>1
    <3> QED BY <2>2, <3>1, <3>2
  <2>8. CallInv' /\ PairInv' /\ AgreeInv'
    BY <1>6, <2>1, <2>5, <2>7, CallersFrame
  <2> QED BY <2>3, <2>4, <2>5, <2>6, <2>8 DEF Base
<1>7. ASSUME NEW i \in user, UserWrite(i)
      PROVE  Base'
  <2>1. i \in 1..MaxInode /\ corrupted \subseteq Ids
    BY <1>1, <1>2 DEF TypeOK
  <2> QED BY <1>6, <1>7, <2>1 DEF UserWrite, history
<1>8. ASSUME NEW q \in Ids, CorruptPayload(q)
      PROVE  Base'
  <2>1. payload[q] \in 1..MaxInode /\ corrupted' \subseteq Ids /\ payload[q] # 0 /\ Vaulted(payload[q])
    BY <1>1, <1>2, <1>8 DEF CorruptPayload, Free, TypeOK, Vaulted
  <2> QED BY <1>6, <1>8, <2>1 DEF CorruptPayload
<1> QED BY <1>4, <1>5, <1>7, <1>8

\* RestoreCreate: the target is a new file.
LEMMA RestoreCreateKeeps ==
  ASSUME Base, NEW t \in Threads, RestoreCreate(t)
  PROVE  Base'
<1>1. /\ th[t].pc = "rCreate"
      /\ UNCHANGED <<holding, tmp, payload, pending, meta, bytes, used, user, taken, deleting,
                     corrupted, delivered>>
  BY DEF RestoreCreate, At
<1>2. /\ TypeOK /\ th \in [Threads -> Thread] /\ ThreadOK(t) /\ th[t] \in Thread
      /\ meta \in [Ids -> Record \cup {None}] /\ outcome \in [Ids -> Outcomes]
      /\ data \in [1..MaxInode -> Nat] /\ inodes \in Nat /\ inodes <= MaxInode
      /\ {tmp, payload, pending} \subseteq [Ids -> 0..MaxInode]
      /\ th[t].q \in Ids /\ th[t].q \in used
  BY <1>1, CallFacts
<1>3. CASE Return(t, "refused") /\ UNCHANGED <<at, data, inodes>>
  <2>1. "refused" \in Outcomes /\ UNCHANGED store /\ th[t].pc # "idle"
    BY <1>1, <1>3 DEF Outcomes, store
  <2> QED BY <1>1, <1>2, <1>3, <2>1, ReturnStep
<1>4. CASE /\ NewInode(0) /\ at' = [at EXCEPT ![th[t].path] = inodes']
           /\ th' = [th EXCEPT ![t].target = inodes', ![t].pc = "rCopy"] /\ UNCHANGED outcome
  <2>1. /\ th[t].pc \in RPhase /\ th[t].pc \in RPhase \ {"rOpen"} /\ th[t].pc # "idle"
        /\ "rCopy" \notin QPhase /\ "rCopy" \notin QHeld /\ "rCopy" \notin DPhase
        /\ "rCopy" \in RTarget /\ "rCopy" \in RPhase
    BY <1>1, Phases
  <2>2. th[t].path \in Paths /\ th[t].rec \in Record /\ th[t].ino \in 1..inodes
    BY <1>2, <2>1 DEF ThreadOK
  <2>3. /\ SourceInv' /\ at' \in [Paths -> 0..MaxInode]
        /\ inodes' = inodes + 1 /\ inodes' \in Nat /\ inodes' \in 1..MaxInode
        /\ inodes <= inodes' /\ inodes' \notin 1..inodes
        /\ data' \in [1..MaxInode -> Nat]
        /\ \A i \in 1..inodes : i \in 1..MaxInode /\ i \in 1..inodes' /\ data'[i] = data[i]
    BY <1>1, <1>4, <2>2, NewPath
  <2> DEFINE n == inodes'
             new == [th[t] EXCEPT !.target = n, !.pc = "rCopy"]
  <2>4. th' = [th EXCEPT ![t] = new] /\ n \in Nat
    BY <1>2, <1>4, <2>3
  <2> HIDE DEF n
  <2>5. /\ new \in Thread /\ new.pc = "rCopy" /\ new.q = th[t].q /\ new.seen = th[t].seen
        /\ new.rec = th[t].rec /\ new.path = th[t].path /\ new.ino = th[t].ino /\ new.target = n
    BY <1>2, <2>4 DEF Thread, PCs
  <2> HIDE DEF new
  <2>6. th' \in [Threads -> Thread] /\ th'[t] = new /\ \A u \in Threads : u # t => th'[u] = th[u]
    BY <1>2, <2>4, <2>5
  <2>7. TypeOK'
    <3>1. inodes' \in 0..MaxInode
      BY <2>3
    <3> QED BY <1>1, <1>2, <1>4, <2>3, <2>6, <3>1 DEF TypeOK
  <2>8. VaultInv' /\ \A i \in 1..inodes : ~Vaulted(i) => ~Vaulted(i)'
    BY <1>1, <2>3, VaultFrame
  <2>9. UnusedInv'
    BY <1>1, <1>4 DEF Base, UnusedInv
  <2>10. ThreadOK(t)'
    <3>1. \A q \in Ids : n \notin {tmp[q], payload[q], pending[q]}
      <4>1. \A q \in Ids : /\ tmp[q] <= inodes /\ payload[q] <= inodes /\ pending[q] <= inodes
                           /\ tmp[q] \in Nat /\ payload[q] \in Nat /\ pending[q] \in Nat
        BY <1>2 DEF Base, VaultInv
      <4>2. n = inodes + 1
        BY <2>3 DEF n
      <4> QED BY <1>2, <4>1, <4>2
    <3>2. n \notin user
      <4>1. \A i \in user : i \in 1..inodes
        BY DEF Base, VaultInv
      <4> QED BY <2>3, <4>1 DEF n
    <3>3. n \in 1..inodes'
      BY <2>3 DEF n
    <3>4. th[t].ino \in 1..inodes'
      BY <2>2, <2>3
    <3> QED BY <1>1, <1>2, <2>1, <2>2, <2>5, <2>6, <3>1, <3>2, <3>3, <3>4 DEF ThreadOK, Vaulted
  <2>11. \A u \in Threads : u # t /\ th[u].pc \in RTarget =>
           data'[th[u].target] = data[th[u].target] /\ th[u].target # n
    <3>1. \A u \in Threads : th[u].pc \in RTarget => th[u].target \in 1..inodes
      BY DEF Base, CallInv
    <3> QED BY <2>3, <3>1 DEF n
  <2>12. CallInv'
    <3>1. used \subseteq used' /\ \A i \in 1..inodes : i \notin user => i \notin user'
      BY <1>1
    <3> QED BY <1>1, <2>3, <2>6, <2>8, <2>10, <2>11, <3>1, CallFrame
  <2>13. PairInv'
    <3>1. th'[t].pc \notin QPhase /\ th'[t].target = n
      BY <2>1, <2>5, <2>6
    <3> QED BY <2>6, <2>11, <3>1 DEF Base, PairInv
  <2>14. AgreeInv'
    <3>1. PICK h \in [Ids -> Nat] : Agreed(h)
      BY DEF Base, AgreeInv
    <3>2. Kept(t)
      BY <2>1, <2>5, <2>6 DEF Kept
    <3>3. /\ \A q \in Ids : meta'[q] # None => meta'[q].hash = h[q]
          /\ \A q \in Ids : taken'[q] # None => taken'[q].hash = h[q]
          /\ \A d \in delivered' : d.bytes = h[d.q]
      BY <1>1, <3>1 DEF Agreed
    <3>4. Agreed(h)'
      BY <3>1, <3>2, <3>3, AgreedFrame
    <3> QED BY <3>1, <3>4 DEF AgreeInv
  <2> QED BY <2>3, <2>7, <2>8, <2>9, <2>12, <2>13, <2>14 DEF Base
<1> QED BY <1>3, <1>4 DEF RestoreCreate, P

\* A call begins: a fresh id for a quarantine, the stored record for the others.
LEMMA StartStep ==
  ASSUME Base, NEW t \in Threads, th[t].pc = "idle", NEW new \in Thread, NEW q \in Ids,
         th' = [th EXCEPT ![t] = new], new.q = q,
         UNCHANGED <<names, meta, store, user, taken, corrupted, outcome, delivered>>,
         deleting' \subseteq Ids,
         \/ /\ used' = used \cup {q} /\ q \notin used
            /\ new.pc = "qMove" /\ new.path \in Paths /\ new.ino \in 1..inodes
         \/ /\ used' = used /\ meta[q] # None /\ new.rec = meta[q]
            /\ new.pc = "dMove" \/ (new.pc = "rOpen" /\ new.path \in Paths)
  PROVE  Base'
<1>1. /\ TypeOK /\ th \in [Threads -> Thread] /\ UnusedInv
      /\ meta \in [Ids -> Record \cup {None}] /\ inodes \in Nat /\ used \subseteq Ids
  BY Types DEF Base
<1>2. th' \in [Threads -> Thread] /\ th'[t] = new /\ \A u \in Threads : u # t => th'[u] = th[u]
  BY <1>1
<1>3. /\ UNCHANGED <<at, holding, tmp, payload, pending, data, inodes, bytes>>
      /\ inodes' \in Nat /\ inodes <= inodes' /\ user' \subseteq user
      /\ used \subseteq used' /\ used' \subseteq Ids
  BY <1>1 DEF names, store
<1>4. TypeOK'
  BY <1>1, <1>2, <1>3 DEF TypeOK
<1>5. SourceInv' /\ VaultInv' /\ \A i \in 1..inodes : ~Vaulted(i) => ~Vaulted(i)'
  BY <1>3, SourceFrame, VaultFrame
<1>6. UnusedInv'
  BY <1>1, <1>3 DEF UnusedInv
<1>7. q \in used'
  BY <1>1 DEF UnusedInv
<1>8. /\ new.pc \notin RTarget /\ new.pc \notin QHeld /\ new.pc \notin {"rMetadata", "rSync"}
      /\ new.pc # "idle" /\ new.pc # "qClean"
      /\ new.pc \in QPhase => new.pc = "qMove"
      /\ new.pc \in RPhase => new.pc = "rOpen"
      /\ new.pc \in DPhase => new.pc = "dMove"
      /\ th[t].pc \notin QPhase /\ th[t].pc \notin RTarget
  BY Phases
<1>9. ThreadOK(t)'
  <2>1. /\ new.pc = "qMove" => holding[q] = 0 /\ taken[q] = None /\ new.path \in Paths /\ new.ino \in 1..inodes
        /\ new.pc = "rOpen" => new.path \in Paths /\ new.rec \in Record
        /\ new.pc = "dMove" => new.rec \in Record
    BY <1>1 DEF UnusedInv
  <2> QED BY <1>2, <1>3, <1>7, <1>8, <2>1 DEF ThreadOK
<1>10. CallInv'
  <2>1. \A i \in 1..inodes : i \notin user => i \notin user'
    BY <1>3
  <2> QED BY <1>2, <1>3, <1>5, <1>9, <2>1, CallFrame
<1>11. PairInv'
  <2>1. \A u \in Threads : th[u].pc \in QPhase => th[u].q \in used
    BY Phases DEF Base, CallInv
  <2>2. \A u \in Threads : u # t /\ new.pc \in QPhase /\ th[u].pc \in QPhase => th[u].q # q
    BY <1>8, <2>1
  <2> QED BY <1>2, <1>8, <2>2 DEF Base, PairInv
<1>12. AgreeInv'
  <2>1. PICK h \in [Ids -> Nat] : Agreed(h)
    BY DEF Base, AgreeInv
  <2>2. CASE meta[q] # None /\ new.rec = meta[q] /\ new.pc # "qMove"
    <3>1. ASSUME NEW u \in Threads
          PROVE  /\ th'[u].pc \in QPhase => th'[u].seen = h[th'[u].q]
                 /\ th'[u].pc \in RPhase \cup DPhase => th'[u].rec.hash = h[th'[u].q]
      BY <1>2, <1>8, <2>1, <2>2 DEF Agreed
    <3>2. Agreed(h)'
      BY <2>1, <3>1 DEF Agreed
    <3> QED BY <2>1, <3>2 DEF AgreeInv
  <2>3. CASE q \notin used /\ new.pc = "qMove"
    <3> DEFINE g == [h EXCEPT ![q] = new.seen]
    <3>1. new.seen \in Nat
      BY ThreadFields
    <3>2. g \in [Ids -> Nat] /\ g[q] = new.seen /\ \A r \in Ids : r # q => g[r] = h[r]
      BY <2>1, <3>1
    <3> HIDE DEF g
    <3>3. /\ meta[q] = None /\ taken[q] = None /\ \A d \in delivered : d.q # q
          /\ delivered \subseteq [q : Ids, bytes : Nat]
      BY <1>1, <2>3, Types DEF UnusedInv
    <3>4. \A u \in Threads : th[u].pc # "idle" => th[u].q \in Ids /\ th[u].q # q
      BY <1>1, <2>3 DEF Base, CallInv
    <3>5. /\ \A r \in Ids : /\ meta[r] # None => meta[r].hash = g[r]
                            /\ taken[r] # None => taken[r].hash = g[r]
          /\ \A d \in delivered : d.bytes = g[d.q]
      BY <2>1, <3>2, <3>3 DEF Agreed
    <3>6. ASSUME NEW u \in Threads
          PROVE  /\ th'[u].pc \in QPhase => th'[u].seen = g[th'[u].q]
                 /\ th'[u].pc \in RPhase \cup DPhase => th'[u].rec.hash = g[th'[u].q]
      <4>1. CASE u = t
        BY <1>2, <1>8, <2>3, <3>2, <4>1
      <4>2. CASE u # t
        BY <1>2, <2>1, <3>2, <3>4, <4>2, IdleFacts DEF Agreed
      <4> QED BY <4>1, <4>2
    <3>7. Agreed(g)'
      BY <3>5, <3>6 DEF Agreed
    <3> QED BY <3>2, <3>7 DEF AgreeInv
  <2> QED BY <2>2, <2>3
<1> QED BY <1>4, <1>5, <1>6, <1>10, <1>11, <1>12 DEF Base

\* QuarantineOpen, RestoreLoad and DeleteLoad.
LEMMA StartKeeps ==
  ASSUME Base, NEW t \in Threads,
         \/ \E p \in Paths : QuarantineOpen(t, p)
         \/ \E q \in Ids, p \in Paths : RestoreLoad(t, q, p)
         \/ \E q \in Ids : DeleteLoad(t, q)
  PROVE  Base'
<1>1. /\ TypeOK /\ IdleThread \in Thread /\ at \in [Paths -> 0..MaxInode] /\ MaxInode \in Nat
      /\ data \in [1..MaxInode -> Nat] /\ inodes \in Nat /\ meta \in [Ids -> Record \cup {None}]
      /\ deleting \subseteq Ids
  BY Types, IdleFacts DEF Base, TypeOK
<1>2. ASSUME NEW p \in Paths, QuarantineOpen(t, p)
      PROVE  Base'
  <2>1. at[p] \in 1..inodes
    <3>1. at[p] \in 0..MaxInode /\ at[p] <= inodes /\ at[p] # 0
      BY <1>1, <1>2 DEF Base, SourceInv, QuarantineOpen, Free
    <3> QED BY <1>1, <3>1
  <2>2. at[p] \in Nat /\ data[at[p]] \in Nat
    <3>1. at[p] \in 1..MaxInode
      BY <1>1, <2>1
    <3> QED BY <1>1, <3>1
  <2>3. PICK q \in Ids \ used :
          /\ used' = used \cup {q}
          /\ th' = [th EXCEPT ![t] = [IdleThread EXCEPT !.pc = "qMove", !.q = q, !.path = p,
                                        !.ino = at[p], !.seen = data[at[p]]]]
    BY <1>2 DEF QuarantineOpen
  <2> DEFINE i == at[p]  s == data[i]
             new == [IdleThread EXCEPT !.pc = "qMove", !.q = q, !.path = p, !.ino = i, !.seen = s]
  <2>4. th' = [th EXCEPT ![t] = new] /\ i \in Nat /\ s \in Nat /\ i \in 1..inodes
    BY <2>1, <2>2, <2>3
  <2> HIDE DEF i, s
  <2>5. new \in Thread /\ new.q = q /\ new.pc = "qMove" /\ new.path = p /\ new.ino = i
    BY <1>1, <2>4 DEF Thread, PCs
  <2> HIDE DEF new
  <2>6. /\ th[t].pc = "idle" /\ deleting' \subseteq Ids
        /\ UNCHANGED <<names, meta, store, user, taken, corrupted, outcome, delivered>>
    BY <1>1, <1>2 DEF QuarantineOpen, At, history
  <2> QED BY <2>3, <2>4, <2>5, <2>6, StartStep
<1>3. ASSUME NEW q \in Ids, NEW p \in Paths, RestoreLoad(t, q, p)
      PROVE  Base'
  <2> DEFINE r == meta[q]
             new == [IdleThread EXCEPT !.pc = "rOpen", !.q = q, !.path = p, !.rec = r]
  <2>1. th' = [th EXCEPT ![t] = new] /\ r # None /\ r \in Record \cup {None}
    BY <1>1, <1>3 DEF RestoreLoad
  <2> HIDE DEF r
  <2>2. new \in Thread /\ new.q = q /\ new.pc = "rOpen" /\ new.path = p /\ new.rec = r
    BY <1>1, <2>1 DEF Thread, PCs
  <2> HIDE DEF new
  <2>3. /\ th[t].pc = "idle" /\ deleting' \subseteq Ids /\ used' = used
        /\ UNCHANGED <<names, meta, store, user, taken, corrupted, outcome, delivered>>
    BY <1>1, <1>3 DEF RestoreLoad, At, history
  <2>4. meta[q] # None /\ new.rec = meta[q]
    BY <2>1, <2>2 DEF r
  <2> QED BY <2>1, <2>2, <2>3, <2>4, StartStep
<1>4. ASSUME NEW q \in Ids, DeleteLoad(t, q)
      PROVE  Base'
  <2> DEFINE r == meta[q]
             new == [IdleThread EXCEPT !.pc = "dMove", !.q = q, !.rec = r]
  <2>1. th' = [th EXCEPT ![t] = new] /\ r # None /\ r \in Record \cup {None}
    BY <1>1, <1>4 DEF DeleteLoad
  <2> HIDE DEF r
  <2>2. new \in Thread /\ new.q = q /\ new.pc = "dMove" /\ new.rec = r
    BY <1>1, <2>1 DEF Thread, PCs
  <2> HIDE DEF new
  <2>3. /\ th[t].pc = "idle" /\ deleting' \subseteq Ids /\ used' = used
        /\ UNCHANGED <<names, meta, store, user, taken, corrupted, outcome, delivered>>
    BY <1>1, <1>4 DEF DeleteLoad, At
  <2>4. meta[q] # None /\ new.rec = meta[q]
    BY <2>1, <2>2 DEF r
  <2> QED BY <2>1, <2>2, <2>3, <2>4, StartStep
<1> QED BY <1>2, <1>3, <1>4

-----------------------------------------------------------------------------
(* The common invariant and what follows from it.                          *)

\* Nothing is stored yet.
LEMMA InitBase == Init => Base
<1> SUFFICES ASSUME Init
             PROVE  Base
  OBVIOUS
<1>1. /\ MaxInode \in Nat /\ MaxInode >= 1 /\ 1 \in 1..MaxInode /\ 1 \in 0..MaxInode /\ 0 \in 0..MaxInode
      /\ 1 \in 1..1
  BY ConfigAssumption
<1>2. PICK p \in Paths : at = [r \in Paths |-> IF r = p THEN 1 ELSE 0]
  BY DEF Init
<1>3. TypeOK
  <2>1. at \in [Paths -> 0..MaxInode] /\ data \in [1..MaxInode -> Nat]
    BY <1>1, <1>2 DEF Init
  <2>2. th \in [Threads -> Thread]
    BY IdleFacts DEF Init
  <2>3. /\ {holding, tmp, payload, pending} \subseteq [Ids -> 0..MaxInode]
        /\ meta \in [Ids -> Record \cup {None}]
        /\ taken \in [Ids -> [ino : 1..MaxInode, hash : Nat] \cup {None}]
        /\ outcome \in [Ids -> Outcomes]
    BY <1>1 DEF Init, Outcomes
  <2> QED BY <1>1, <2>1, <2>2, <2>3 DEF Init, TypeOK
<1>4. SourceInv
  <2>1. \A r \in Paths : at[r] = (IF r = p THEN 1 ELSE 0) /\ at[r] <= inodes
    BY <1>2 DEF Init
  <2> QED BY <2>1 DEF Init, SourceInv
<1>5. VaultInv
  BY <1>1 DEF Init, VaultInv, Vaulted
<1>6. UnusedInv
  BY DEF Init, UnusedInv
<1>7. \A t \in Threads : th[t] = IdleThread
  BY DEF Init
<1>8. CallInv /\ PairInv
  BY <1>7, IdleFacts, Phases DEF CallInv, PairInv
<1>9. AgreeInv
  <2> DEFINE h == [q \in Ids |-> 0]
  <2>1. h \in [Ids -> Nat]
    OBVIOUS
  <2>2. Agreed(h)
    BY <1>7, IdleFacts DEF Init, Agreed
  <2> QED BY <2>1, <2>2 DEF AgreeInv
<1> QED BY <1>3, <1>4, <1>5, <1>6, <1>8, <1>9 DEF Base

\* A crash ends every call.
LEMMA CrashKeeps ==
  ASSUME Base, Crash
  PROVE  Base'
<1>1. /\ \A t \in Threads : th'[t] = IdleThread
      /\ th' \in [Threads -> Thread]
      /\ UNCHANGED <<names, meta, store, used, history>>
  BY IdleFacts DEF Crash
<1>2. TypeOK' /\ SourceInv' /\ VaultInv' /\ UnusedInv'
  <2>1. TypeOK'
    BY <1>1 DEF Base, TypeOK, names, store, history
  <2>2. SourceInv' /\ UnusedInv'
    BY <1>1 DEF Base, SourceInv, UnusedInv, names, store, history
  <2>3. VaultInv'
    BY <1>1 DEF Base, VaultInv, Vaulted, names, store, history
  <2> QED BY <2>1, <2>2, <2>3
<1>3. CallInv' /\ PairInv'
  <2>1. PairInv'
    BY <1>1, IdleFacts, Phases DEF PairInv
  <2>2. \A t \in Threads : ThreadOK(t)'
    BY <1>1, IdleOK
  <2> QED BY <2>1, <2>2 DEF CallInv, ThreadOK
<1>4. AgreeInv'
  <2>1. PICK h \in [Ids -> Nat] : Agreed(h)
    BY DEF Base, AgreeInv
  <2>2. Agreed(h)'
    BY <1>1, <2>1, IdleFacts DEF Agreed, history
  <2> QED BY <2>1, <2>2 DEF AgreeInv
<1> QED BY <1>2, <1>3, <1>4 DEF Base

\* Every step keeps the common invariant.
LEMMA NextBase == Base /\ [Next]_vars => Base'
<1> SUFFICES ASSUME Base, [Next]_vars
             PROVE  Base'
  OBVIOUS
<1>1. CASE UNCHANGED vars
  <2>1. UNCHANGED <<at, holding, tmp, payload, pending, meta, data, inodes, bytes, th, used, user,
                    taken, deleting, corrupted, outcome, delivered>>
    BY <1>1 DEF vars, names, store, history
  <2>2. TypeOK' /\ SourceInv' /\ VaultInv' /\ UnusedInv'
    BY <2>1 DEF Base, TypeOK, SourceInv, VaultInv, Vaulted, UnusedInv
  <2>3. CallInv' /\ PairInv'
    BY <2>1 DEF Base, CallInv, PairInv, Vaulted
  <2>4. AgreeInv'
    BY <2>1 DEF Base, AgreeInv, Agreed
  <2> QED BY <2>2, <2>3, <2>4 DEF Base
<1>2. CASE \E t \in Threads : QuarantineStep(t)
  BY <1>2, StartKeeps, MoveKeeps, CheckingKeeps, CopyKeeps, RenameKeeps, UnlinkKeeps, CleanKeeps
     DEF QuarantineStep
<1>3. CASE \E t \in Threads : RestoreStep(t)
  BY <1>3, StartKeeps, RestoreOpenKeeps, RestoreCreateKeeps, RestoreCopyKeeps, RestoreMetadataKeeps,
     RestoreSyncKeeps, RestoreCheckKeeps, RestoreUnlinkKeeps, UndoKeeps DEF RestoreStep
<1>4. CASE \E t \in Threads : DeleteStep(t)
  BY <1>4, StartKeeps, RenameKeeps, DeleteMetadataKeeps, DeleteUnlinkKeeps, DeleteSyncKeeps, UndoKeeps
     DEF DeleteStep
<1>5. CASE Environment
  BY <1>5, UserKeeps, CrashKeeps DEF Environment
<1> QED BY <1>1, <1>2, <1>3, <1>4, <1>5 DEF Next

\* The common invariant holds always.
LEMMA BaseAlways == Spec => []Base
BY InitBase, NextBase, PTL DEF Spec

\* Type correctness of the transactions, with every fault, crash and user step.
THEOREM QuarantineTyped == Spec => []TypeOK
<1>1. Base => TypeOK
  BY DEF Base
<1> QED BY <1>1, BaseAlways, PTL

\* A quarantine that succeeded has isolated the file it opened: no path and no
\* holding name leads to it again, for any number of concurrent callers.
THEOREM QuarantineIsolates == Spec => []SuccessIsolates
<1>1. Base => SuccessIsolates
  BY DEF Base, SourceInv, SuccessIsolates
<1> QED BY <1>1, BaseAlways, PTL

\* A successful restoration delivers the bytes the quarantine took, although the
\* payload may be corrupted and the record rewritten by others in between.
THEOREM RestoreDelivers == Spec => []RestoreFaithful
<1>1. ASSUME Base
      PROVE  RestoreFaithful
  <2>1. PICK h \in [Ids -> Nat] : Agreed(h)
    BY <1>1 DEF Base, AgreeInv
  <2>2. delivered \subseteq [q : Ids, bytes : Nat]
    BY <1>1, Types DEF Base
  <2> QED BY <2>1, <2>2 DEF Agreed, RestoreFaithful
<1> QED BY <1>1, BaseAlways, PTL

-----------------------------------------------------------------------------
(* A quarantine that failed leaves nothing.                                *)

\* The steps of a quarantine after its first one.
Quarantining(t) ==
  \/ QuarantineMove(t) \/ QuarantineVerify(t) \/ QuarantineCopy(t) \/ QuarantineCheck(t)
  \/ QuarantinePublish(t) \/ QuarantineMetadata(t) \/ QuarantineUnlink(t)
  \/ QuarantineRollback(t) \/ RollbackClean(t)

\* How a step of a quarantine leaves its caller, and how it may end.
LEMMA QuarantineGoes ==
  ASSUME Base, NEW t \in Threads, Quarantining(t)
  PROVE  /\ th[t].pc \in QPhase /\ th[t].q \in Ids
         /\ th' \in [Threads -> Thread] /\ \A u \in Threads : u # t => th'[u] = th[u]
         /\ \/ /\ th'[t].pc \in QPhase /\ th'[t].q = th[t].q /\ th'[t].seen = th[t].seen
               /\ UNCHANGED outcome
            \/ /\ th'[t] = IdleThread /\ outcome' \in [Ids -> Outcomes]
               /\ \A q \in Ids : q # th[t].q => outcome'[q] = outcome[q]
               /\ \/ outcome'[th[t].q] \in {"succeeded", "incomplete"}
                  \/ RollbackClean(t) /\ tmp'[th[t].q] = 0 /\ payload'[th[t].q] = 0 /\ meta'[th[t].q] = None
<1>1. th[t].pc \in QPhase /\ th[t].pc # "idle"
  BY Phases DEF Quarantining, QuarantineMove, QuarantineVerify, QuarantineCopy, QuarantineCheck,
     QuarantinePublish, QuarantineMetadata, QuarantineUnlink, QuarantineRollback, RollbackClean, At
<1>2. /\ TypeOK /\ th[t].q \in Ids
      /\ tmp \in [Ids -> 0..MaxInode] /\ payload \in [Ids -> 0..MaxInode]
      /\ meta \in [Ids -> Record \cup {None}]
  BY <1>1, CallFacts
<1> DEFINE Emptied == tmp'[th[t].q] = 0 /\ payload'[th[t].q] = 0 /\ meta'[th[t].q] = None
<1>3. \/ \E p \in QPhase : Goto(t, p) /\ UNCHANGED outcome
      \/ \E r \in {"succeeded", "incomplete"} : Return(t, r)
      \/ Return(t, "failedSafely") /\ RollbackClean(t) /\ Emptied
  <2>1. CASE QuarantineMove(t)
    BY <2>1, Phases DEF QuarantineMove, Fails, history
  <2>2. CASE QuarantineVerify(t) \/ QuarantineCheck(t)
    <3>1. (\E p \in {"qCopy", "qPublish", "qRollback"} : Goto(t, p)) /\ UNCHANGED outcome
      BY <2>2 DEF QuarantineVerify, QuarantineCheck, history
    <3> QED BY <3>1, Phases
  <2>3. CASE QuarantineCopy(t)
    BY <2>3, Phases DEF QuarantineCopy, Fails, history
  <2>4. CASE QuarantinePublish(t)
    BY <2>4, Phases DEF QuarantinePublish, Fails, history
  <2>5. CASE QuarantineMetadata(t)
    BY <2>5, Phases DEF QuarantineMetadata, WriteMetadata, Fails, history
  <2>6. CASE QuarantineUnlink(t)
    BY <2>6, Phases DEF QuarantineUnlink, Fails
  <2>7. CASE QuarantineRollback(t)
    BY <2>7, Phases DEF QuarantineRollback
  <2>8. CASE RollbackClean(t)
    <3>1. PICK n \in 0..3 :
            /\ tmp' = IF n > 0 THEN [tmp EXCEPT ![th[t].q] = 0] ELSE tmp
            /\ meta' = IF n > 1 THEN [meta EXCEPT ![th[t].q] = None] ELSE meta
            /\ payload' = IF n > 2 THEN [payload EXCEPT ![th[t].q] = 0] ELSE payload
            /\ \/ n = 3 /\ Return(t, "failedSafely")
               \/ "rollback" \in Faults /\ Return(t, "incomplete")
      BY <2>8 DEF RollbackClean, Q
    <3>2. n = 3 => Emptied
      BY <1>2, <3>1
    <3> HIDE DEF Emptied
    <3> QED BY <2>8, <3>1, <3>2
  <2> HIDE DEF Emptied
  <2> QED BY <2>1, <2>2, <2>3, <2>4, <2>5, <2>6, <2>7, <2>8 DEF Quarantining
<1>4. CASE \E p \in QPhase : Goto(t, p) /\ UNCHANGED outcome
  <2>1. PICK p \in QPhase : Goto(t, p) /\ UNCHANGED outcome
    BY <1>4
  <2>2. p \in PCs
    BY Phases
  <2> QED BY <1>1, <1>2, <2>1, <2>2, GotoFacts
<1>5. CASE \E r \in {"succeeded", "incomplete"} : Return(t, r)
  <2>1. PICK r \in {"succeeded", "incomplete"} : Return(t, r)
    BY <1>5
  <2>2. r \in Outcomes
    BY DEF Outcomes
  <2> QED BY <1>1, <1>2, <2>1, <2>2, ReturnFacts
<1>6. CASE Return(t, "failedSafely") /\ RollbackClean(t) /\ Emptied
  <2>1. "failedSafely" \in Outcomes
    BY DEF Outcomes
  <2> QED BY <1>1, <1>2, <1>6, <2>1, ReturnFacts
<1> QED BY <1>3, <1>4, <1>5, <1>6

\* A step of a quarantine touches the entries of its own id only.
LEMMA QuarantineOwn ==
  ASSUME Base, NEW t \in Threads, Quarantining(t), NEW q \in Ids, q # th[t].q
  PROVE  /\ holding'[q] = holding[q] /\ tmp'[q] = tmp[q] /\ payload'[q] = payload[q]
         /\ pending'[q] = pending[q] /\ meta'[q] = meta[q] /\ taken'[q] = taken[q]
<1>1. /\ TypeOK /\ tmp \in [Ids -> 0..MaxInode] /\ payload \in [Ids -> 0..MaxInode]
      /\ holding \in [Ids -> 0..MaxInode] /\ meta \in [Ids -> Record \cup {None}]
      /\ taken \in [Ids -> [ino : 1..MaxInode, hash : Nat] \cup {None}]
  BY Types DEF Base
<1>2. holding'[q] = holding[q]
  BY <1>1 DEF Quarantining, QuarantineMove, QuarantineVerify, QuarantineCopy, QuarantineCheck, Q,
     QuarantinePublish, QuarantineMetadata, QuarantineUnlink, QuarantineRollback, RollbackClean, names
<1>3. tmp'[q] = tmp[q]
  BY <1>1 DEF Quarantining, QuarantineMove, QuarantineVerify, QuarantineCopy, QuarantineCheck, Q,
     QuarantinePublish, QuarantineMetadata, QuarantineUnlink, QuarantineRollback, RollbackClean, names
<1>4. payload'[q] = payload[q] /\ pending'[q] = pending[q]
  BY <1>1 DEF Quarantining, QuarantineMove, QuarantineVerify, QuarantineCopy, QuarantineCheck, Q,
     QuarantinePublish, QuarantineMetadata, QuarantineUnlink, QuarantineRollback, RollbackClean, names
<1>5. meta'[q] = meta[q]
  BY <1>1 DEF Quarantining, QuarantineMove, QuarantineVerify, QuarantineCopy, QuarantineCheck, Q,
     QuarantinePublish, QuarantineMetadata, WriteMetadata, QuarantineUnlink, QuarantineRollback,
     RollbackClean
<1>6. taken'[q] = taken[q]
  BY <1>1 DEF Quarantining, QuarantineMove, QuarantineVerify, QuarantineCopy, QuarantineCheck, Q,
     QuarantinePublish, QuarantineMetadata, QuarantineUnlink, QuarantineRollback, RollbackClean, history
<1> QED BY <1>2, <1>3, <1>4, <1>5, <1>6

\* A failed quarantine stays as it is while others go on.
LEMMA NextFailed ==
  ASSUME Ops \subseteq {"quarantine"}, Base, FailedInv, [Next]_vars
  PROVE  FailedInv'
<1>1. /\ TypeOK /\ th \in [Threads -> Thread] /\ outcome \in [Ids -> Outcomes] /\ used \subseteq Ids
  BY Types DEF Base
<1>2. \A t \in Threads : th[t].pc \notin RPhase \cup DPhase
  BY DEF FailedInv
<1>3. ASSUME NEW t \in Threads, Quarantining(t)
      PROVE  FailedInv'
  <2>1. /\ th[t].pc \in QPhase /\ th[t].q \in Ids
        /\ th' \in [Threads -> Thread] /\ \A u \in Threads : u # t => th'[u] = th[u]
        /\ \/ /\ th'[t].pc \in QPhase /\ th'[t].q = th[t].q /\ th'[t].seen = th[t].seen
              /\ UNCHANGED outcome
           \/ /\ th'[t] = IdleThread /\ outcome' \in [Ids -> Outcomes]
              /\ \A q \in Ids : q # th[t].q => outcome'[q] = outcome[q]
              /\ \/ outcome'[th[t].q] \in {"succeeded", "incomplete"}
                 \/ RollbackClean(t) /\ tmp'[th[t].q] = 0 /\ payload'[th[t].q] = 0 /\ meta'[th[t].q] = None
    BY <1>3, QuarantineGoes
  <2>2. \A q \in Ids : q # th[t].q => holding'[q] = holding[q] /\ tmp'[q] = tmp[q]
                                      /\ payload'[q] = payload[q] /\ meta'[q] = meta[q]
                                      /\ outcome'[q] = outcome[q]
    BY <1>3, <2>1, QuarantineOwn
  <2>3. th[t].pc # "idle" /\ outcome[th[t].q] # "failedSafely"
    BY <2>1, Phases DEF FailedInv
  <2>4. \A u \in Threads : u # t /\ th[u].pc # "idle" => th[u].q # th[t].q
    <3> SUFFICES ASSUME NEW u \in Threads, u # t, th[u].pc # "idle"
                 PROVE  th[u].q # th[t].q
      OBVIOUS
    <3>1. th[u].pc \in QPhase
      BY <1>1, <1>2, Phases, ThreadFields
    <3> QED BY <2>1, <3>1 DEF Base, PairInv
  <2>5. RollbackClean(t) => holding'[th[t].q] = 0
    BY <1>3 DEF RollbackClean, At, Base, CallInv
  <2>6. \A u \in Threads : th'[u].pc \notin RPhase \cup DPhase
    BY <1>2, <2>1, IdleFacts, Phases
  <2>7. ASSUME NEW q \in Ids, outcome'[q] = "failedSafely"
        PROVE  /\ holding'[q] = 0 /\ tmp'[q] = 0 /\ payload'[q] = 0 /\ meta'[q] = None
               /\ \A u \in Threads : th'[u].pc # "idle" => th'[u].q # q
    <3>1. CASE q # th[t].q
      BY <2>1, <2>2, <2>7, <3>1, IdleFacts DEF FailedInv
    <3>2. CASE q = th[t].q
      BY <2>1, <2>3, <2>4, <2>5, <2>7, <3>2, IdleFacts
    <3> QED BY <3>1, <3>2
  <2> QED BY <2>6, <2>7 DEF FailedInv
<1>4. ASSUME NEW t \in Threads, NEW p \in Paths, QuarantineOpen(t, p)
      PROVE  FailedInv'
  <2>1. PICK q0 \in Ids \ used :
          /\ th' = [th EXCEPT ![t] = [IdleThread EXCEPT !.pc = "qMove", !.q = q0, !.path = p,
                                        !.ino = at[p], !.seen = data[at[p]]]]
    BY <1>4 DEF QuarantineOpen
  <2>2. th'[t].pc = "qMove" /\ th'[t].q = q0 /\ \A u \in Threads : u # t => th'[u] = th[u]
    BY <1>1, <2>1 DEF IdleThread
  <2>3. UNCHANGED <<holding, tmp, payload, meta, outcome>>
    BY <1>4 DEF QuarantineOpen, names, history
  <2>4. outcome[q0] = "none"
    BY DEF Base, UnusedInv
  <2>5. "qMove" \notin RPhase \cup DPhase
    BY Phases
  <2> QED BY <2>2, <2>3, <2>4, <2>5 DEF FailedInv
<1>5. ASSUME UNCHANGED <<holding, tmp, payload, meta, outcome>>,
             UNCHANGED th \/ \A t \in Threads : th'[t] = IdleThread
      PROVE  FailedInv'
  BY <1>5, IdleFacts DEF FailedInv
<1>6. CASE Environment
  <2>1. UNCHANGED <<holding, tmp, payload, meta, outcome>>
    BY <1>6 DEF Environment, UserCreate, UserRemove, UserRename, UserWrite, CorruptPayload, Crash,
       names, history
  <2>2. UNCHANGED th \/ th' = [t \in Threads |-> IdleThread]
    BY <1>6 DEF Environment, UserCreate, UserRemove, UserRename, UserWrite, CorruptPayload, Crash
  <2> QED BY <1>5, <2>1, <2>2
<1>7. ASSUME NEW t \in Threads
      PROVE  ~RestoreStep(t) /\ ~DeleteStep(t)
  <2>1. th[t].pc \notin RPhase \cup DPhase /\ "restore" \notin Ops /\ "delete" \notin Ops
    BY <1>2
  <2>2. ~RestoreStep(t)
    BY <2>1, Phases DEF RestoreStep, RestoreLoad, RestoreOpen, RestoreCreate, RestoreCopy,
       RestoreMetadata, RestoreSync, RestoreCheck, RestoreUnlink, RestoreUndo, At
  <2>3. ~DeleteStep(t)
    BY <2>1, Phases DEF DeleteStep, DeleteLoad, DeleteMove, DeleteMetadata, DeleteUnlink, DeleteSync,
       DeleteBack, DeleteUndo, At
  <2> QED BY <2>2, <2>3
<1>8. CASE UNCHANGED vars
  BY <1>5, <1>8 DEF vars, names, history
<1> QED BY <1>3, <1>4, <1>6, <1>7, <1>8 DEF Next, QuarantineStep, Quarantining

\* While only quarantines run, one that failed safely has left no name, no record and
\* no partial payload behind, whatever failed and whoever else is quarantining.
THEOREM FailedQuarantineLeavesNothing ==
  Ops \subseteq {"quarantine"} => (Spec => []FailureLeavesNothing)
<1> SUFFICES ASSUME Ops \subseteq {"quarantine"}
             PROVE  Spec => []FailureLeavesNothing
  OBVIOUS
<1>1. Init => FailedInv
  BY IdleFacts DEF Init, FailedInv
<1>2. Base /\ FailedInv /\ [Next]_vars => FailedInv'
  BY NextFailed
<1>3. FailedInv => FailureLeavesNothing
  BY DEF FailedInv, FailureLeavesNothing
<1> QED BY <1>1, <1>2, <1>3, BaseAlways, PTL DEF Spec

-----------------------------------------------------------------------------
(* No file is lost.                                                        *)

\* A step keeps the vault's bytes of an id, or was allowed not to.
VaultKept(q) ==
  /\ tmp'[q] = tmp[q] /\ (tmp[q] # 0 => data'[tmp[q]] = data[tmp[q]])
  /\ \/ q \in corrupted' \cup deleting'
     \/ payload'[q] = payload[q] /\ (payload[q] # 0 => data'[payload[q]] = data[payload[q]])

\* A file with a name outside the vault.
Named(i) == (\E p \in Paths : at[p] = i) \/ (\E q \in Ids : holding[q] = i)

\* A caller whose id is not disturbed.
LEMMA CustodyOther ==
  ASSUME NEW u \in Threads, Custody(u), th'[u] = th[u],
         deleting \subseteq deleting', corrupted \subseteq corrupted',
         th[u].pc \in QPhase => VaultKept(th[u].q)
  PROVE  Custody(u)'
<1> DEFINE x == th[u]
<1>1. th'[u] = x
  OBVIOUS
<1>2. /\ x.pc \notin RPhase /\ x.pc \in DPhase => x.q \in deleting'
      /\ x.pc \in {"qCheck", "qPublish", "qMetadata", "qUnlink"} => x.pc \in QPhase
  BY Phases DEF Custody
<1>3. /\ x.pc = "qCheck" => tmp'[x.q] # 0
      /\ x.pc = "qPublish" => tmp'[x.q] # 0 /\ data'[tmp'[x.q]] = x.seen
  BY <1>2 DEF Custody, VaultKept
<1>4. x.pc \in {"qMetadata", "qUnlink"} =>
        \/ payload'[x.q] # 0 /\ data'[payload'[x.q]] = x.seen
        \/ x.q \in corrupted' \cup deleting'
  BY <1>2 DEF Custody, VaultKept
<1> HIDE DEF x
<1>5. x.pc \notin RPhase /\ (x.pc \in DPhase => x.q \in deleting')
  BY Phases DEF Custody, x
<1> QED BY <1>1, <1>3, <1>4, <1>5 DEF Custody

\* NoFileLost, when every committed payload and every name is kept.
LEMMA LostFrame ==
  ASSUME NoFileLost, deleting \subseteq deleting', corrupted \subseteq corrupted',
         \A q \in Ids : taken[q] # None => taken'[q] = taken[q] /\ VaultKept(q),
         \A i \in user' : i \in user \/ \E p \in Paths : at'[p] = i,
         \A i \in user' : i \in user /\ Named(i) => Named(i)' \/ \E q \in Ids : KeptBy(q, i)'
  PROVE  NoFileLost'
<1> SUFFICES ASSUME NEW i \in user'
             PROVE  Named(i)' \/ \E q \in Ids : KeptBy(q, i)'
  BY DEF NoFileLost, Named
<1>1. CASE \E p \in Paths : at'[p] = i
  BY <1>1 DEF Named
<1>2. CASE i \in user /\ Named(i)
  BY <1>2
<1>3. ASSUME NEW q \in Ids, KeptBy(q, i)
      PROVE  KeptBy(q, i)'
  BY <1>3 DEF KeptBy, VaultKept, Free
<1> QED BY <1>1, <1>2, <1>3 DEF NoFileLost, Named

\* The bytes of the vault, when a step only adds an inode, or changes no bytes.
LEMMA BytesKept ==
  ASSUME Base, NEW q \in Ids, tmp'[q] = tmp[q], payload'[q] = payload[q] \/ q \in corrupted' \cup deleting',
         \A i \in 1..inodes : data'[i] = data[i]
  PROVE  VaultKept(q)
<1>1. /\ tmp[q] \in Nat /\ payload[q] \in Nat /\ inodes \in Nat
      /\ tmp[q] <= inodes /\ payload[q] <= inodes
  BY Types DEF Base, VaultInv
<1>2. /\ tmp[q] # 0 => tmp[q] \in 1..inodes
      /\ payload[q] # 0 => payload[q] \in 1..inodes
  BY <1>1
<1> QED BY <1>2 DEF VaultKept

\* A step of a quarantine leaves the bytes that exist alone.
LEMMA QuarantineBytes ==
  ASSUME Base, NEW t \in Threads, Quarantining(t)
  PROVE  /\ \A i \in 1..inodes : data'[i] = data[i]
         /\ UNCHANGED <<user, deleting, corrupted>>
<1>1. UNCHANGED <<user, deleting, corrupted>>
  BY DEF Quarantining, QuarantineMove, QuarantineVerify, QuarantineCopy, QuarantineCheck,
     QuarantinePublish, QuarantineMetadata, QuarantineUnlink, QuarantineRollback, RollbackClean, history
<1>2. CASE QuarantineCopy(t)
  <2>1. data \in [1..MaxInode -> Nat] /\ inodes \in Nat /\ MaxInode \in Nat /\ inodes <= MaxInode
    BY Types DEF Base
  <2>2. \E b : data' = [data EXCEPT ![inodes + 1] = b]
    BY <1>2 DEF QuarantineCopy, NewInode
  <2>3. \A i \in 1..inodes : i \in 1..MaxInode /\ i # inodes + 1
    BY <2>1
  <2> QED BY <1>1, <2>1, <2>2, <2>3
<1>3. CASE UNCHANGED data
  BY <1>1, <1>3
<1> QED BY <1>2, <1>3 DEF Quarantining, QuarantineMove, QuarantineVerify, QuarantineCheck, store,
     QuarantinePublish, QuarantineMetadata, QuarantineUnlink, QuarantineRollback, RollbackClean

\* What a step of a quarantine hands to the next.
LEMMA QuarantineHands ==
  ASSUME Base, NEW t \in Threads, Quarantining(t), Custody(t)
  PROVE  Custody(t)'
<1>1. /\ th[t].pc \in QPhase /\ th[t].q \in Ids
      /\ th' \in [Threads -> Thread]
      /\ \/ th'[t].pc \in QPhase /\ th'[t].q = th[t].q /\ th'[t].seen = th[t].seen
         \/ th'[t] = IdleThread
  BY QuarantineGoes
<1>2. /\ TypeOK /\ tmp \in [Ids -> 0..MaxInode] /\ payload \in [Ids -> 0..MaxInode]
      /\ inodes \in Nat /\ data \in [1..MaxInode -> Nat]
  BY Types DEF Base
<1>3. UNCHANGED <<deleting, corrupted>>
  BY QuarantineBytes
<1>4. CASE th'[t] = IdleThread
  BY <1>4, IdleFacts DEF Custody
<1>5. ASSUME th'[t].pc \in QPhase
      PROVE  th'[t].pc \notin RPhase /\ th'[t].pc \notin DPhase
  BY <1>5, Phases
<1> DEFINE q == th[t].q
<1>6. th'[t].pc = "qCheck" => tmp'[q] # 0
  <2> SUFFICES ASSUME th'[t].pc = "qCheck"
               PROVE  tmp'[q] # 0
    OBVIOUS
  <2>1. QuarantineCopy(t)
    BY <1>2, GotoFacts, ReturnFacts, IdleFacts DEF PCs, Outcomes, Quarantining, QuarantineMove, QuarantineVerify,
       QuarantineCheck, QuarantinePublish, QuarantineMetadata, WriteMetadata, Fails,
       QuarantineUnlink, QuarantineRollback, RollbackClean
  <2> QED BY <1>1, <1>2, <2>1 DEF QuarantineCopy, NewInode, Q
<1>7. th'[t].pc = "qPublish" => tmp'[q] # 0 /\ data'[tmp'[q]] = th[t].seen
  <2> SUFFICES ASSUME th'[t].pc = "qPublish"
               PROVE  tmp'[q] # 0 /\ data'[tmp'[q]] = th[t].seen
    OBVIOUS
  <2>1. QuarantineCheck(t)
    BY <1>2, GotoFacts, ReturnFacts, IdleFacts DEF PCs, Outcomes, Quarantining, QuarantineMove, QuarantineVerify,
       QuarantineCopy, QuarantinePublish, QuarantineMetadata, WriteMetadata, Fails,
       QuarantineUnlink, QuarantineRollback, RollbackClean
  <2>2. Goto(t, "qRollback") => th'[t].pc = "qRollback"
    BY <1>2, GotoFacts DEF PCs
  <2>3. CopyVerified(t) /\ UNCHANGED <<tmp, data>> /\ th[t].pc = "qCheck"
    BY <2>1, <2>2 DEF QuarantineCheck, At, names, store
  <2> QED BY <2>3 DEF CopyVerified, Custody, Q
<1>8. th'[t].pc = "qMetadata" => payload'[q] # 0 /\ data'[payload'[q]] = th[t].seen
  <2> SUFFICES ASSUME th'[t].pc = "qMetadata"
               PROVE  payload'[q] # 0 /\ data'[payload'[q]] = th[t].seen
    OBVIOUS
  <2>1. QuarantinePublish(t)
    BY <1>2, GotoFacts, ReturnFacts, IdleFacts DEF PCs, Outcomes, Quarantining, QuarantineMove, QuarantineVerify,
       QuarantineCopy, QuarantineCheck, QuarantineMetadata, WriteMetadata, Fails,
       QuarantineUnlink, QuarantineRollback, RollbackClean
  <2>2. th[t].pc = "qPublish" /\ UNCHANGED data /\ payload' = [payload EXCEPT ![q] = tmp[q]]
    BY <2>1 DEF QuarantinePublish, At, store, Q
  <2> QED BY <1>1, <1>2, <2>2 DEF Custody
<1>9. th'[t].pc = "qUnlink" => \/ payload'[q] # 0 /\ data'[payload'[q]] = th[t].seen
                               \/ q \in corrupted' \cup deleting'
  <2> SUFFICES ASSUME th'[t].pc = "qUnlink"
               PROVE  \/ payload'[q] # 0 /\ data'[payload'[q]] = th[t].seen
                      \/ q \in corrupted' \cup deleting'
    OBVIOUS
  <2>1. QuarantineMetadata(t)
    BY <1>2, GotoFacts, ReturnFacts, IdleFacts DEF PCs, Outcomes, Quarantining, QuarantineMove, QuarantineVerify,
       QuarantineCopy, QuarantineCheck, QuarantinePublish, Fails,
       QuarantineUnlink, QuarantineRollback, RollbackClean
  <2>2. th[t].pc = "qMetadata" /\ UNCHANGED <<data, payload>>
    BY <2>1 DEF QuarantineMetadata, At, names, store
  <2> QED BY <1>3, <2>2 DEF Custody
<1>10. CASE th'[t].pc \in QPhase /\ th'[t].q = th[t].q /\ th'[t].seen = th[t].seen
  BY <1>5, <1>6, <1>7, <1>8, <1>9, <1>10 DEF Custody
<1> QED BY <1>1, <1>4, <1>10

\* A step of a quarantine keeps the file under a name, or commits it to the vault.
LEMMA QuarantineKeepsFile ==
  ASSUME Base, NEW t \in Threads, Quarantining(t), Custody(t), NEW i \in user, Named(i)
  PROVE  Named(i)' \/ \E q \in Ids : KeptBy(q, i)'
<1>1. /\ th[t].pc \in QPhase /\ th[t].q \in Ids
  BY QuarantineGoes
<1>2. /\ at \in [Paths -> 0..MaxInode] /\ holding \in [Ids -> 0..MaxInode]
      /\ taken \in [Ids -> [ino : 1..MaxInode, hash : Nat] \cup {None}]
      /\ th[t].path \in Paths /\ i # 0
  <2>1. i \in 1..inodes /\ inodes \in Nat
    BY Types DEF Base, VaultInv
  <2> QED BY <1>1, <2>1, SourceFacts DEF Base, CallInv
<1> DEFINE q == th[t].q  p == th[t].path
<1>3. CASE UNCHANGED <<at, holding>>
  BY <1>3 DEF Named
<1>4. CASE QuarantineMove(t)
  <2>1. holding[q] = 0
    BY <1>4 DEF QuarantineMove, At, Base, CallInv
  <2>2. CASE at' = [at EXCEPT ![p] = 0] /\ holding' = [holding EXCEPT ![q] = at[p]]
    <3>1. CASE \E r \in Paths : at[r] = i
      <4>1. PICK r \in Paths : at[r] = i
        BY <3>1
      <4>2. r = p => holding'[q] = i
        BY <1>1, <1>2, <2>2, <4>1
      <4>3. r # p => at'[r] = i
        BY <1>2, <2>2, <4>1
      <4> QED BY <1>1, <4>1, <4>2, <4>3 DEF Named
    <3>2. CASE \E r \in Ids : holding[r] = i
      <4>1. PICK r \in Ids : holding[r] = i
        BY <3>2
      <4>2. holding'[r] = i
        BY <1>2, <2>1, <2>2, <4>1
      <4> QED BY <4>2 DEF Named
    <3> QED BY <3>1, <3>2 DEF Named
  <2> QED BY <1>3, <1>4, <2>2 DEF QuarantineMove, Q, P
<1>5. CASE QuarantineRollback(t)
  <2>1. CASE at[p] = 0 /\ at' = [at EXCEPT ![p] = holding[q]] /\ holding' = [holding EXCEPT ![q] = 0]
    <3>1. CASE \E r \in Paths : at[r] = i
      <4>1. PICK r \in Paths : at[r] = i
        BY <3>1
      <4>2. at'[r] = i
        BY <1>2, <2>1, <4>1
      <4> QED BY <4>2 DEF Named
    <3>2. CASE \E r \in Ids : holding[r] = i
      <4>1. PICK r \in Ids : holding[r] = i
        BY <3>2
      <4>2. r = q => at'[p] = i
        BY <1>2, <2>1, <4>1
      <4>3. r # q => holding'[r] = i
        BY <1>2, <2>1, <4>1
      <4> QED BY <1>2, <4>2, <4>3 DEF Named
    <3> QED BY <3>1, <3>2 DEF Named
  <2> QED BY <1>3, <1>5, <2>1 DEF QuarantineRollback, RollbackPossible, Q, P, Free
<1>6. CASE QuarantineUnlink(t)
  <2>1. CASE /\ holding' = [holding EXCEPT ![q] = 0] /\ UNCHANGED at
             /\ taken' = [taken EXCEPT ![q] = [ino |-> th[t].ino, hash |-> th[t].seen]]
    <3>1. CASE \E r \in Paths : at[r] = i
      BY <2>1, <3>1 DEF Named
    <3>2. CASE \E r \in Ids : holding[r] = i
      <4>1. PICK r \in Ids : holding[r] = i
        BY <3>2
      <4>2. CASE r # q
        <5>1. holding'[r] = i
          BY <1>2, <2>1, <4>1, <4>2
        <5> QED BY <5>1 DEF Named
      <4>3. CASE r = q
        <5>1. th[t].pc = "qUnlink" /\ th[t].pc \in QHeld
          BY <1>6, Phases DEF QuarantineUnlink, At
        <5>2. th[t].ino = i
          BY <4>1, <4>3, <5>1 DEF Base, CallInv
        <5> DEFINE new == [ino |-> th[t].ino, hash |-> th[t].seen]
        <5>3. new \in [ino : 1..MaxInode, hash : Nat] /\ new.ino = i /\ new.hash = th[t].seen
          <6>1. th[t].ino \in 1..inodes /\ inodes \in Nat /\ inodes <= MaxInode /\ MaxInode \in Nat
            BY <5>1, Phases, SourceFacts DEF Base, CallInv
          <6>2. th[t].seen \in Nat
            BY ThreadFields, Types DEF Base
          <6>3. th[t].ino \in 1..MaxInode
            BY <6>1
          <6> QED BY <5>2, <6>2, <6>3
        <5>4. taken'[q] = new
          BY <1>1, <1>2, <2>1
        <5> HIDE DEF new
        <5>5. taken'[q] # None /\ taken'[q].ino = i /\ taken'[q].hash = th[t].seen
          BY <5>3, <5>4, ConfigAssumption
        <5>6. UNCHANGED <<payload, data, deleting, corrupted>>
          BY <1>6 DEF QuarantineUnlink, store
        <5>7. \A x \in Ids : x = th[t].q => KeptBy(x, i)'
          BY <5>1, <5>5, <5>6 DEF Custody, KeptBy, Free
        <5> QED BY <1>1, <5>7
      <4> QED BY <4>2, <4>3
    <3> QED BY <3>1, <3>2 DEF Named
  <2> QED BY <1>3, <1>6, <2>1 DEF QuarantineUnlink, Fails, Q
<1> QED BY <1>3, <1>4, <1>5, <1>6 DEF Quarantining, QuarantineVerify, QuarantineCopy, QuarantineCheck,
     QuarantinePublish, QuarantineMetadata, RollbackClean, names

\* The steps of a deletion after its first one.
Deleting(t) ==
  \/ DeleteMove(t) \/ DeleteMetadata(t) \/ DeleteUnlink(t) \/ DeleteSync(t)
  \/ DeleteBack(t) \/ DeleteUndo(t)

\* How a step of a deletion leaves its caller and the payloads of other ids.
LEMMA DeleteGoes ==
  ASSUME Base, NEW t \in Threads, Deleting(t)
  PROVE  /\ th[t].pc \in DPhase /\ th[t].q \in Ids
         /\ th' \in [Threads -> Thread] /\ \A u \in Threads : u # t => th'[u] = th[u]
         /\ (th'[t].pc \in DPhase /\ th'[t].q = th[t].q) \/ th'[t] = IdleThread
         /\ UNCHANGED <<at, holding, tmp, data, user, taken, deleting, corrupted>>
         /\ \A q \in Ids : q # th[t].q => payload'[q] = payload[q]
<1>1. th[t].pc \in DPhase /\ th[t].pc # "idle"
  BY Phases DEF Deleting, DeleteMove, DeleteMetadata, DeleteUnlink, DeleteSync, DeleteBack, DeleteUndo, At
<1>2. TypeOK /\ th[t].q \in Ids /\ payload \in [Ids -> 0..MaxInode]
  BY <1>1, CallFacts
<1>3. UNCHANGED <<at, holding, tmp, data, user, taken, deleting, corrupted>>
  BY DEF Deleting, DeleteMove, DeleteMetadata, DeleteUnlink, DeleteSync, DeleteBack, DeleteUndo,
     names, store, history
<1>4. \A q \in Ids : q # th[t].q => payload'[q] = payload[q]
  BY <1>2 DEF Deleting, DeleteMove, DeleteMetadata, DeleteUnlink, DeleteSync, DeleteBack, DeleteUndo,
     names, Q
<1>5. (\E p \in DPhase : Goto(t, p)) \/ (\E r \in Outcomes : Return(t, r))
  <2>1. CASE DeleteUndo(t)
    <3>1. \E r \in {"incomplete", "failedSafely"} : Return(t, r)
      BY <2>1 DEF DeleteUndo, UndoMetadata
    <3> QED BY <3>1 DEF Outcomes
  <2> QED BY <2>1, Phases DEF Deleting, DeleteMove, DeleteMetadata, WriteMetadata, DeleteUnlink,
       DeleteSync, DeleteBack, Fails, Outcomes
<1>6. CASE \E p \in DPhase : Goto(t, p)
  <2>1. PICK p \in DPhase : Goto(t, p)
    BY <1>6
  <2>2. p \in PCs
    BY Phases
  <2> QED BY <1>1, <1>2, <1>3, <1>4, <2>1, <2>2, GotoFacts
<1>7. CASE \E r \in Outcomes : Return(t, r)
  BY <1>1, <1>2, <1>3, <1>4, <1>7, ReturnFacts
<1> QED BY <1>5, <1>6, <1>7

\* Every step keeps custody of the files, if nothing is restored.
LEMMA NextCustody ==
  ASSUME "restore" \notin Ops, Base, CustodyInv, [Next]_vars
  PROVE  CustodyInv'
<1>1. /\ TypeOK /\ th \in [Threads -> Thread] /\ inodes \in Nat /\ MaxInode \in Nat /\ inodes <= MaxInode
      /\ data \in [1..MaxInode -> Nat] /\ at \in [Paths -> 0..MaxInode]
      /\ payload \in [Ids -> 0..MaxInode] /\ tmp \in [Ids -> 0..MaxInode]
      /\ user \subseteq 1..MaxInode /\ bytes \in Nat
  BY Types DEF Base
<1>2. (\A u \in Threads : Custody(u)) /\ NoFileLost
  BY DEF CustodyInv
<1>3. \A u \in Threads : th[u].pc \in QPhase => th[u].q \in Ids /\ taken[th[u].q] = None
  BY Types, Phases DEF Base, CallInv
<1>4. ASSUME NEW t \in Threads, Quarantining(t)
      PROVE  CustodyInv'
  <2>1. /\ th[t].pc \in QPhase /\ th[t].q \in Ids
        /\ \A u \in Threads : u # t => th'[u] = th[u]
    BY <1>4, QuarantineGoes
  <2>2. UNCHANGED <<user, deleting, corrupted>> /\ \A i \in 1..inodes : data'[i] = data[i]
    BY <1>4, QuarantineBytes
  <2>3. \A q \in Ids : q # th[t].q => VaultKept(q) /\ taken'[q] = taken[q]
    BY <1>4, <2>2, QuarantineOwn, BytesKept
  <2>4. \A u \in Threads : u # t => Custody(u)'
    <3> SUFFICES ASSUME NEW u \in Threads, u # t
                 PROVE  Custody(u)'
      OBVIOUS
    <3>1. th[u].pc \in QPhase => VaultKept(th[u].q)
      BY <1>3, <2>1, <2>3 DEF Base, PairInv
    <3> QED BY <1>2, <2>1, <2>2, <3>1, CustodyOther
  <2>5. Custody(t)'
    BY <1>2, <1>4, QuarantineHands
  <2>6. NoFileLost'
    <3>1. \A q \in Ids : taken[q] # None => taken'[q] = taken[q] /\ VaultKept(q)
      BY <1>3, <2>1, <2>3
    <3>2. \A i \in user' : i \in user /\ Named(i) => Named(i)' \/ \E q \in Ids : KeptBy(q, i)'
      BY <1>2, <1>4, QuarantineKeepsFile
    <3> QED BY <1>2, <2>2, <3>1, <3>2, LostFrame
  <2> QED BY <2>4, <2>5, <2>6 DEF CustodyInv
<1>5. ASSUME NEW t \in Threads, NEW p \in Paths, QuarantineOpen(t, p)
      PROVE  CustodyInv'
  <2>1. PICK q0 \in Ids \ used :
          /\ th' = [th EXCEPT ![t] = [IdleThread EXCEPT !.pc = "qMove", !.q = q0, !.path = p,
                                        !.ino = at[p], !.seen = data[at[p]]]]
    BY <1>5 DEF QuarantineOpen
  <2>2. th'[t].pc = "qMove" /\ \A u \in Threads : u # t => th'[u] = th[u]
    BY <1>1, <2>1 DEF IdleThread
  <2>3. UNCHANGED <<at, holding, tmp, payload, data, user, taken, deleting, corrupted>>
    BY <1>5 DEF QuarantineOpen, names, store, history
  <2>4. \A q \in Ids : VaultKept(q)
    BY <2>3 DEF VaultKept
  <2>5. \A u \in Threads : u # t => Custody(u)'
    BY <1>2, <1>3, <2>2, <2>3, <2>4, CustodyOther
  <2>6. Custody(t)'
    BY <2>2, Phases DEF Custody
  <2>7. NoFileLost'
    BY <1>2, <2>3 DEF NoFileLost, KeptBy
  <2> QED BY <2>5, <2>6, <2>7 DEF CustodyInv
<1>6. ASSUME NEW t \in Threads, Deleting(t)
      PROVE  CustodyInv'
  <2>1. /\ th[t].pc \in DPhase /\ th[t].q \in Ids
        /\ \A u \in Threads : u # t => th'[u] = th[u]
        /\ (th'[t].pc \in DPhase /\ th'[t].q = th[t].q) \/ th'[t] = IdleThread
        /\ UNCHANGED <<at, holding, tmp, data, user, taken, deleting, corrupted>>
        /\ \A q \in Ids : q # th[t].q => payload'[q] = payload[q]
    BY <1>6, DeleteGoes
  <2>2. th[t].q \in deleting
    BY <1>2, <2>1 DEF Custody
  <2>3. \A q \in Ids : VaultKept(q)
    BY <2>1, <2>2 DEF VaultKept
  <2>4. \A u \in Threads : u # t => Custody(u)'
    BY <1>2, <1>3, <2>1, <2>3, CustodyOther
  <2>5. Custody(t)'
    BY <2>1, <2>2, Phases, IdleFacts DEF Custody
  <2>6. NoFileLost'
    <3>1. \A i : Named(i)' <=> Named(i)
      BY <2>1 DEF Named
    <3> QED BY <1>2, <2>1, <2>3, <3>1, LostFrame
  <2> QED BY <2>4, <2>5, <2>6 DEF CustodyInv
<1>7. ASSUME NEW t \in Threads, NEW q0 \in Ids, DeleteLoad(t, q0)
      PROVE  CustodyInv'
  <2>1. th' = [th EXCEPT ![t] = [IdleThread EXCEPT !.pc = "dMove", !.q = q0, !.rec = meta[q0]]]
    BY <1>7 DEF DeleteLoad
  <2>2. th'[t].pc = "dMove" /\ th'[t].q = q0 /\ \A u \in Threads : u # t => th'[u] = th[u]
    BY <1>1, <2>1 DEF IdleThread
  <2>3. /\ UNCHANGED <<at, holding, tmp, payload, data, user, taken, corrupted>>
        /\ deleting' = deleting \cup {q0}
    BY <1>7 DEF DeleteLoad, names, store
  <2>4. \A q \in Ids : VaultKept(q)
    BY <2>3 DEF VaultKept
  <2>5. \A u \in Threads : u # t => Custody(u)'
    BY <1>2, <1>3, <2>2, <2>3, <2>4, CustodyOther
  <2>6. Custody(t)'
    BY <2>2, <2>3, Phases DEF Custody
  <2>7. NoFileLost'
    <3>1. \A i : Named(i)' <=> Named(i)
      BY <2>3 DEF Named
    <3> QED BY <1>2, <2>3, <2>4, <3>1, LostFrame
  <2> QED BY <2>5, <2>6, <2>7 DEF CustodyInv
<1>8. ASSUME UNCHANGED <<th, holding, tmp, payload, taken, deleting>>, corrupted \subseteq corrupted',
             \A q \in Ids : VaultKept(q),
             \A i \in user' : i \in user \/ \E p \in Paths : at'[p] = i,
             \A i \in user' : i \in user /\ (\E p \in Paths : at[p] = i) => \E p \in Paths : at'[p] = i
      PROVE  CustodyInv'
  <2>1. \A u \in Threads : Custody(u)'
    BY <1>2, <1>3, <1>8, CustodyOther
  <2>2. \A i \in user' : i \in user /\ Named(i) => Named(i)'
    BY <1>8 DEF Named
  <2>3. NoFileLost'
    BY <1>2, <1>8, <2>2, LostFrame
  <2> QED BY <2>1, <2>3 DEF CustodyInv
<1>9. ASSUME NEW p \in Paths, UserCreate(p)
      PROVE  CustodyInv'
  <2>1. /\ inodes' = inodes + 1 /\ data' = [data EXCEPT ![inodes + 1] = bytes + 1] /\ at[p] = 0
        /\ at' = [at EXCEPT ![p] = inodes'] /\ user' = user \cup {inodes'} /\ inodes < MaxInode
        /\ UNCHANGED <<holding, tmp, payload, th, taken, deleting, corrupted>>
    BY <1>9 DEF UserCreate, NewInode, Free
  <2>2. \A i \in 1..inodes : data'[i] = data[i]
    <3>1. \A i \in 1..inodes : i \in 1..MaxInode /\ i # inodes + 1
      BY <1>1
    <3> QED BY <1>1, <2>1, <3>1
  <2>3. \A q \in Ids : VaultKept(q)
    BY <2>1, <2>2, BytesKept
  <2>4. at'[p] = inodes' /\ \A r \in Paths : r # p => at'[r] = at[r]
    BY <1>1, <2>1
  <2>5. \A i \in user : i # 0
    BY <1>1
  <2> QED BY <1>8, <2>1, <2>3, <2>4, <2>5
<1>10. ASSUME NEW p \in Paths, NEW r \in Paths, UserRemove(p) \/ UserRename(p, r)
       PROVE  CustodyInv'
  <2>1. /\ UNCHANGED <<holding, tmp, payload, data, th, taken, deleting, corrupted>>
        /\ \/ at' = [at EXCEPT ![p] = 0] /\ user' = user \ {at[p]}
           \/ p # r /\ at' = [at EXCEPT ![r] = at[p], ![p] = 0] /\ user' = user \ {at[r]}
    BY <1>10 DEF UserRemove, UserRename, store
  <2>2. \A q \in Ids : VaultKept(q)
    BY <2>1 DEF VaultKept
  <2>3. \A i \in user' : i \in user /\ (\E s \in Paths : at[s] = i) => \E s \in Paths : at'[s] = i
    <3> SUFFICES ASSUME NEW i \in user', NEW s \in Paths, at[s] = i
                 PROVE  \E x \in Paths : at'[x] = i
      OBVIOUS
    <3>1. CASE at' = [at EXCEPT ![p] = 0] /\ user' = user \ {at[p]}
      <4>1. s # p /\ at'[s] = i
        BY <1>1, <3>1
      <4> QED BY <4>1
    <3>2. CASE p # r /\ at' = [at EXCEPT ![r] = at[p], ![p] = 0] /\ user' = user \ {at[r]}
      <4>1. s = p => at'[r] = i
        BY <1>1, <3>2
      <4>2. s # p => s # r /\ at'[s] = i
        BY <1>1, <3>2
      <4> QED BY <4>1, <4>2
    <3> QED BY <2>1, <3>1, <3>2
  <2> QED BY <1>8, <2>1, <2>2, <2>3
<1>11. ASSUME NEW i \in user, UserWrite(i)
       PROVE  CustodyInv'
  <2>1. /\ data' = [data EXCEPT ![i] = bytes + 1]
        /\ UNCHANGED <<at, holding, tmp, payload, th, user, taken, deleting, corrupted>>
    BY <1>11 DEF UserWrite, names, history
  <2>2. \A q \in Ids : i # tmp[q] /\ i # payload[q]
    BY DEF Base, VaultInv, Vaulted
  <2>3. \A q \in Ids : VaultKept(q)
    BY <1>1, <2>1, <2>2 DEF VaultKept
  <2> QED BY <1>8, <2>1, <2>3
<1>12. ASSUME NEW q0 \in Ids, CorruptPayload(q0)
       PROVE  CustodyInv'
  <2>1. /\ data' = [data EXCEPT ![payload[q0]] = bytes + 1] /\ payload[q0] # 0
        /\ corrupted' = corrupted \cup {q0}
        /\ UNCHANGED <<at, holding, tmp, payload, th, user, taken, deleting>>
    BY <1>12 DEF CorruptPayload, names, Free
  <2>2. \A q \in Ids : payload[q0] # tmp[q] /\ (q # q0 => payload[q0] # payload[q])
    BY <2>1 DEF Base, VaultInv
  <2>3. \A q \in Ids : VaultKept(q)
    BY <1>1, <2>1, <2>2 DEF VaultKept
  <2> QED BY <1>8, <2>1, <2>3
<1>13. CASE Crash
  <2>1. \A u \in Threads : th'[u] = IdleThread
    BY <1>13 DEF Crash
  <2>2. \A u \in Threads : Custody(u)'
    BY <2>1, IdleFacts DEF Custody
  <2>3. NoFileLost'
    BY <1>2, <1>13 DEF Crash, NoFileLost, KeptBy, names, store, history
  <2> QED BY <2>2, <2>3 DEF CustodyInv
<1>14. CASE UNCHANGED vars
  <2>1. UNCHANGED <<at, holding, tmp, payload, data, th, user, taken, deleting, corrupted>>
    BY <1>14 DEF vars, names, store, history
  <2> QED BY <1>8, <2>1 DEF VaultKept
<1>15. ASSUME NEW t \in Threads
       PROVE  ~RestoreStep(t)
  <2>1. th[t].pc \notin RPhase
    BY <1>2 DEF Custody
  <2> QED BY <2>1, Phases DEF RestoreStep, RestoreLoad, RestoreOpen, RestoreCreate, RestoreCopy,
       RestoreMetadata, RestoreSync, RestoreCheck, RestoreUnlink, RestoreUndo, At
<1>16. ASSUME NEW t \in Threads, QuarantineStep(t) \/ DeleteStep(t)
       PROVE  CustodyInv'
  BY <1>4, <1>5, <1>6, <1>7, <1>16 DEF QuarantineStep, DeleteStep, Quarantining, Deleting
<1>17. CASE Environment
  BY <1>9, <1>10, <1>11, <1>12, <1>13, <1>17 DEF Environment
<1> QED BY <1>14, <1>15, <1>16, <1>17 DEF Next

\* No user file is lost by quarantines and deletions, for any number of concurrent
\* callers, with every fault, with crashes, and whatever the user's programs do.
THEOREM NothingIsLost == "restore" \notin Ops => (Spec => []NoFileLost)
<1> SUFFICES ASSUME "restore" \notin Ops
             PROVE  Spec => []NoFileLost
  OBVIOUS
<1>1. Init => CustodyInv
  BY IdleFacts DEF Init, CustodyInv, Custody, NoFileLost
<1>2. Base /\ CustodyInv /\ [Next]_vars => CustodyInv'
  BY NextCustody
<1>3. CustodyInv => NoFileLost
  BY DEF CustodyInv
<1> QED BY <1>1, <1>2, <1>3, BaseAlways, PTL DEF Spec

-----------------------------------------------------------------------------
(* The record tells the truth about the payload.                           *)

\* An id that the step does not touch stays settled.
LEMMA SettledStays ==
  ASSUME NEW q \in Ids, Settled(q), deleting \subseteq deleting',
         meta'[q] = meta[q], payload'[q] = payload[q], pending'[q] = pending[q],
         outcome'[q] = outcome[q], taken'[q] = taken[q]
  PROVE  Settled(q)'
BY DEF Settled, Good, Gone

\* A step of the one caller: the id it works on is settled when it ends.
LEMMA StatusStep ==
  ASSUME StatusInv, NEW t \in Threads, Threads = {t}, deleting \subseteq deleting',
         \A q \in Ids : q # th[t].q => /\ meta'[q] = meta[q] /\ payload'[q] = payload[q]
                                       /\ pending'[q] = pending[q] /\ outcome'[q] = outcome[q]
                                       /\ taken'[q] = taken[q],
         PhaseOK(t)',
         th'[t].q = th[t].q \/ \A q \in Ids : q = th[t].q => Settled(q)'
  PROVE  StatusInv'
<1>1. ASSUME NEW q \in Ids, th'[t].q # q
      PROVE  Settled(q)'
  <2>1. CASE q = th[t].q
    BY <1>1, <2>1
  <2>2. CASE q # th[t].q
    <3>1. Settled(q)
      BY <2>2 DEF StatusInv
    <3> QED BY <2>2, <3>1, SettledStays
  <2> QED BY <2>1, <2>2
<1> QED BY <1>1 DEF StatusInv

\* A caller that returned has made nothing of anything.
LEMMA IdlePhaseOK ==
  ASSUME NEW t \in Threads, th'[t] = IdleThread
  PROVE  PhaseOK(t)'
BY IdleFacts, Phases DEF PhaseOK

\* The vault, the records and the outcomes are left alone.
LEMMA StatusFrame ==
  ASSUME StatusInv, UNCHANGED <<tmp, payload, pending, meta, th, taken, outcome, deleting>>
  PROVE  StatusInv'
BY DEF StatusInv, Settled, PhaseOK, Good, Gone

\* A step of a quarantine.
LEMMA QuarantineStatus ==
  ASSUME Base, StatusInv, NEW t \in Threads, Threads = {t}, Quarantining(t)
  PROVE  StatusInv'
<1>1. /\ th[t].pc \in QPhase /\ th[t].q \in Ids
      /\ th' \in [Threads -> Thread]
      /\ \/ /\ th'[t].pc \in QPhase /\ th'[t].q = th[t].q /\ th'[t].seen = th[t].seen
            /\ UNCHANGED outcome
         \/ /\ th'[t] = IdleThread /\ outcome' \in [Ids -> Outcomes]
            /\ \A q \in Ids : q # th[t].q => outcome'[q] = outcome[q]
  BY QuarantineGoes
<1>2. /\ TypeOK /\ tmp \in [Ids -> 0..MaxInode] /\ payload \in [Ids -> 0..MaxInode]
      /\ meta \in [Ids -> Record \cup {None}] /\ inodes \in Nat
      /\ taken \in [Ids -> [ino : 1..MaxInode, hash : Nat] \cup {None}]
  BY Types DEF Base
<1>3. deleting' = deleting
  BY QuarantineBytes
<1>4. \A q \in Ids : q # th[t].q => /\ meta'[q] = meta[q] /\ payload'[q] = payload[q]
                                    /\ pending'[q] = pending[q] /\ outcome'[q] = outcome[q]
                                    /\ taken'[q] = taken[q]
  BY <1>1, QuarantineOwn
<1>5. PhaseOK(t) /\ taken[th[t].q] = None
  BY <1>1 DEF StatusInv, Base, CallInv
<1> DEFINE q0 == th[t].q
<1>6. th'[t].pc = "qCheck" => tmp'[q0] # 0
  <2> SUFFICES ASSUME th'[t].pc = "qCheck"
               PROVE  tmp'[q0] # 0
    OBVIOUS
  <2>1. QuarantineCopy(t)
    BY <1>2, GotoFacts, ReturnFacts, IdleFacts DEF PCs, Outcomes, Quarantining, QuarantineMove, QuarantineVerify,
       QuarantineCheck, QuarantinePublish, QuarantineMetadata, WriteMetadata, Fails,
       QuarantineUnlink, QuarantineRollback, RollbackClean
  <2> QED BY <1>1, <1>2, <2>1 DEF QuarantineCopy, NewInode, Q
<1>7. th'[t].pc = "qPublish" => tmp'[q0] # 0
  <2> SUFFICES ASSUME th'[t].pc = "qPublish"
               PROVE  tmp'[q0] # 0
    OBVIOUS
  <2>1. QuarantineCheck(t)
    BY <1>2, GotoFacts, ReturnFacts, IdleFacts DEF PCs, Outcomes, Quarantining, QuarantineMove, QuarantineVerify,
       QuarantineCopy, QuarantinePublish, QuarantineMetadata, WriteMetadata, Fails,
       QuarantineUnlink, QuarantineRollback, RollbackClean
  <2>2. UNCHANGED tmp /\ th[t].pc = "qCheck"
    BY <2>1 DEF QuarantineCheck, At, names
  <2> QED BY <1>5, <2>2 DEF PhaseOK
<1>8. th'[t].pc = "qMetadata" => payload'[q0] # 0
  <2> SUFFICES ASSUME th'[t].pc = "qMetadata"
               PROVE  payload'[q0] # 0
    OBVIOUS
  <2>1. QuarantinePublish(t)
    BY <1>2, GotoFacts, ReturnFacts, IdleFacts DEF PCs, Outcomes, Quarantining, QuarantineMove, QuarantineVerify,
       QuarantineCopy, QuarantineCheck, QuarantineMetadata, WriteMetadata, Fails,
       QuarantineUnlink, QuarantineRollback, RollbackClean
  <2>2. th[t].pc = "qPublish" /\ payload' = [payload EXCEPT ![q0] = tmp[q0]]
    BY <2>1 DEF QuarantinePublish, At, Q
  <2> QED BY <1>1, <1>2, <1>5, <2>2 DEF PhaseOK
<1>9. th'[t].pc = "qUnlink" => meta'[q0] # None /\ meta'[q0].status # "deleted" /\ payload'[q0] # 0
  <2> SUFFICES ASSUME th'[t].pc = "qUnlink"
               PROVE  meta'[q0] # None /\ meta'[q0].status # "deleted" /\ payload'[q0] # 0
    OBVIOUS
  <2>1. QuarantineMetadata(t)
    BY <1>2, GotoFacts, ReturnFacts, IdleFacts DEF PCs, Outcomes, Quarantining, QuarantineMove, QuarantineVerify,
       QuarantineCopy, QuarantineCheck, QuarantinePublish, Fails,
       QuarantineUnlink, QuarantineRollback, RollbackClean
  <2>2. th[t].pc = "qMetadata" /\ UNCHANGED payload
    BY <2>1 DEF QuarantineMetadata, At, names
  <2>3. Goto(t, "qRollback") => th'[t].pc = "qRollback"
    BY <1>2, GotoFacts DEF PCs
  <2>4. meta' = [meta EXCEPT ![q0] = NewRecord(t)]
    BY <2>1, <2>3 DEF QuarantineMetadata, WriteMetadata, Fails, Q
  <2>5. NewRecord(t) \in Record /\ NewRecord(t).status = "quarantined"
    <3>1. th[t].path \in Paths
      BY <1>1 DEF Base, CallInv
    <3>2. th[t].seen \in Nat
      BY ThreadFields, Types DEF Base
    <3> QED BY <3>1, <3>2 DEF NewRecord, Record, Statuses, P
  <2>6. meta'[q0] = NewRecord(t)
    BY <1>1, <1>2, <2>4
  <2> QED BY <1>5, <2>2, <2>5, <2>6, ConfigAssumption DEF PhaseOK
<1>10. CASE th'[t].pc \in QPhase /\ th'[t].q = th[t].q
  <2>1. th'[t].pc \notin RPhase \cup DPhase /\ th'[t].pc \notin DPhase
    BY <1>10, Phases
  <2>2. th'[t].pc \notin {"idle", "dMove", "dMetadata", "dUnlink", "dSync", "dBack", "dUndo"}
    BY <1>10, Phases
  <2>3. PhaseOK(t)'
    BY <1>6, <1>7, <1>8, <1>9, <1>10, <2>1, <2>2 DEF PhaseOK, Good
  <2> QED BY <1>3, <1>4, <1>10, <2>3, StatusStep
<1>11. CASE th'[t] = IdleThread
  <2>1. PhaseOK(t)'
    BY <1>11, IdlePhaseOK
  <2>2. taken'[q0] # None => meta'[q0] # None /\ meta'[q0].status # "deleted" /\ payload'[q0] # 0
    <3>1. CASE QuarantineUnlink(t)
      <4>1. th[t].pc = "qUnlink" /\ UNCHANGED <<meta, payload>>
        BY <3>1 DEF QuarantineUnlink, At
      <4> QED BY <1>5, <4>1 DEF PhaseOK, Good
    <3>2. CASE UNCHANGED taken
      BY <1>5, <3>2
    <3> QED BY <3>1, <3>2 DEF Quarantining, QuarantineMove, QuarantineVerify, QuarantineCopy,
         QuarantineCheck, QuarantinePublish, QuarantineMetadata, QuarantineRollback, RollbackClean, history
  <2>3. \A q \in Ids : q = th[t].q => Settled(q)'
    BY <2>2 DEF Settled, Good
  <2> QED BY <1>3, <1>4, <2>1, <2>3, StatusStep
<1> QED BY <1>1, <1>10, <1>11

\* The steps of a restoration after its first one.
Restoring(t) ==
  \/ RestoreOpen(t) \/ RestoreCreate(t) \/ RestoreCopy(t) \/ RestoreMetadata(t)
  \/ RestoreSync(t) \/ RestoreCheck(t) \/ RestoreUnlink(t) \/ RestoreUndo(t)

\* How a step of a restoration leaves its caller and the record.
LEMMA RestoreGoes ==
  ASSUME Base, NEW t \in Threads, Restoring(t)
  PROVE  /\ th[t].pc \in RPhase /\ th[t].q \in Ids /\ th[t].rec \in Record
         /\ \/ /\ th'[t].pc \in RPhase /\ th'[t].q = th[t].q /\ th'[t].rec = th[t].rec
               /\ UNCHANGED outcome
            \/ /\ th'[t] = IdleThread
               /\ \A q \in Ids : q # th[t].q => outcome'[q] = outcome[q]
         /\ UNCHANGED <<tmp, payload, pending, taken, deleting>>
         /\ \/ UNCHANGED meta
            \/ meta' = [meta EXCEPT ![th[t].q] = [th[t].rec EXCEPT !.status = "restored"]]
            \/ meta' = [meta EXCEPT ![th[t].q] = th[t].rec]
<1>1. th[t].pc \in RPhase /\ th[t].pc # "idle"
  BY Phases DEF Restoring, RestoreOpen, RestoreCreate, RestoreCopy, RestoreMetadata, RestoreSync,
     RestoreCheck, RestoreUnlink, RestoreUndo, At
<1>2. /\ TypeOK /\ th[t].q \in Ids /\ th[t].rec \in Record
      /\ th \in [Threads -> Thread] /\ th[t] \in Thread
  BY <1>1, CallFacts DEF Base, CallInv
<1>3. UNCHANGED <<tmp, payload, pending, taken, deleting>>
  BY DEF Restoring, RestoreOpen, RestoreCreate, RestoreCopy, RestoreMetadata, RestoreSync,
     RestoreCheck, RestoreUnlink, RestoreUndo, names, history
<1>4. \/ UNCHANGED meta
      \/ meta' = [meta EXCEPT ![th[t].q] = [th[t].rec EXCEPT !.status = "restored"]]
      \/ meta' = [meta EXCEPT ![th[t].q] = th[t].rec]
  <2>1. CASE RestoreUndo(t)
    BY <2>1 DEF RestoreUndo, UndoMetadata, Q
  <2>2. CASE RestoreMetadata(t)
    BY <2>2 DEF RestoreMetadata, Q
  <2> QED BY <2>1, <2>2 DEF Restoring, RestoreOpen, RestoreCreate, RestoreCopy, RestoreSync,
       RestoreCheck, RestoreUnlink
<1> DEFINE Goes == th'[t].pc \in RPhase /\ th'[t].q = th[t].q /\ th'[t].rec = th[t].rec /\ UNCHANGED outcome
           Ends == th'[t] = IdleThread /\ \A q \in Ids : q # th[t].q => outcome'[q] = outcome[q]
<1>5. ASSUME NEW p \in RPhase, Goto(t, p), UNCHANGED outcome
      PROVE  Goes
  <2>1. p \in PCs
    BY Phases
  <2> QED BY <1>2, <1>5, <2>1, GotoFacts
<1>6. ASSUME NEW r \in Outcomes, Return(t, r)
      PROVE  Ends
  BY <1>2, <1>6, ReturnFacts
<1>7. ASSUME NEW p \in RPhase, NEW b \in BOOLEAN, UNCHANGED outcome,
             \/ th' = [th EXCEPT ![t].left = b, ![t].pc = p]
             \/ th' = [th EXCEPT ![t].pc = p, ![t].changed = b]
      PROVE  Goes
  <2>1. p \in PCs
    BY Phases
  <2> QED BY <1>2, <1>7, <2>1, FieldFacts
<1>8. Goes \/ Ends
  <2>1. CASE RestoreOpen(t)
    <3>1. CASE Return(t, "refused")
      BY <1>6, <3>1 DEF Outcomes
    <3>2. CASE th' = [th EXCEPT ![t].ino = payload[Q(t)], ![t].pc = "rCreate"] /\ UNCHANGED outcome
      <4> DEFINE i == payload[Q(t)]
                 new == [th[t] EXCEPT !.ino = i, !.pc = "rCreate"]
      <4>1. th'[t] = new
        BY <1>2, <3>2
      <4> HIDE DEF i
      <4>2. new.pc = "rCreate" /\ new.q = th[t].q /\ new.rec = th[t].rec
        BY <1>2 DEF Thread
      <4> HIDE DEF new
      <4>3. Goes
        BY <3>2, <4>1, <4>2, Phases
      <4> QED BY <4>3
    <3> HIDE DEF Goes, Ends
    <3> QED BY <2>1, <3>1, <3>2 DEF RestoreOpen
  <2>2. CASE RestoreCreate(t)
    <3>1. CASE Return(t, "refused")
      BY <1>6, <3>1 DEF Outcomes
    <3>2. CASE th' = [th EXCEPT ![t].target = inodes', ![t].pc = "rCopy"] /\ UNCHANGED outcome
      <4> DEFINE i == inodes'
                 new == [th[t] EXCEPT !.target = i, !.pc = "rCopy"]
      <4>1. th'[t] = new
        BY <1>2, <3>2
      <4> HIDE DEF i
      <4>2. new.pc = "rCopy" /\ new.q = th[t].q /\ new.rec = th[t].rec
        BY <1>2 DEF Thread
      <4> HIDE DEF new
      <4>3. Goes
        BY <3>2, <4>1, <4>2, Phases
      <4> QED BY <4>3
    <3> HIDE DEF Goes, Ends
    <3> QED BY <2>2, <3>1, <3>2 DEF RestoreCreate
  <2> HIDE DEF Goes, Ends
  <2>3. CASE RestoreCopy(t)
    BY <1>5, <2>3, Phases DEF RestoreCopy, Fails, history
  <2>4. CASE RestoreMetadata(t)
    BY <1>7, <2>4, Phases DEF RestoreMetadata, history
  <2>5. CASE RestoreSync(t)
    BY <1>5, <1>6, <2>5, Phases DEF RestoreSync, Fails, Outcomes
  <2>6. CASE RestoreCheck(t)
    <3>1. (~Free(at[P(t)])) \in BOOLEAN
      BY DEF Free
    <3> QED BY <1>5, <1>7, <2>6, <3>1, Phases DEF RestoreCheck, history
  <2>7. CASE RestoreUnlink(t)
    BY <1>5, <1>7, <2>7, Phases DEF RestoreUnlink, history
  <2>8. CASE RestoreUndo(t)
    <3>1. \E r \in {"incomplete", "failedSafely"} : Return(t, r)
      BY <2>8 DEF RestoreUndo, UndoMetadata
    <3> QED BY <1>6, <3>1 DEF Outcomes
  <2> QED BY <2>1, <2>2, <2>3, <2>4, <2>5, <2>6, <2>7, <2>8 DEF Restoring
<1> QED BY <1>1, <1>2, <1>3, <1>4, <1>8

\* A step of a restoration: the item stays one that can be restored or deleted.
LEMMA RestoreStatus ==
  ASSUME Base, StatusInv, NEW t \in Threads, Threads = {t}, Restoring(t)
  PROVE  StatusInv'
<1>1. /\ th[t].pc \in RPhase /\ th[t].q \in Ids /\ th[t].rec \in Record
      /\ \/ /\ th'[t].pc \in RPhase /\ th'[t].q = th[t].q /\ th'[t].rec = th[t].rec
            /\ UNCHANGED outcome
         \/ /\ th'[t] = IdleThread
            /\ \A q \in Ids : q # th[t].q => outcome'[q] = outcome[q]
      /\ UNCHANGED <<tmp, payload, pending, taken, deleting>>
      /\ \/ UNCHANGED meta
         \/ meta' = [meta EXCEPT ![th[t].q] = [th[t].rec EXCEPT !.status = "restored"]]
         \/ meta' = [meta EXCEPT ![th[t].q] = th[t].rec]
  BY RestoreGoes
<1>2. meta \in [Ids -> Record \cup {None}]
  BY Types DEF Base
<1>3. PhaseOK(t)
  BY DEF StatusInv
<1> DEFINE q0 == th[t].q
           new == [th[t].rec EXCEPT !.status = "restored"]
<1>4. new \in Record /\ new.status = "restored"
  BY <1>1 DEF Record, Statuses
<1>5. meta[q0] # None /\ meta[q0].status # "deleted" /\ payload[q0] # 0 /\ th[t].rec.status # "deleted"
  BY <1>1, <1>3 DEF PhaseOK, Good
<1>6. meta' = meta \/ meta' = [meta EXCEPT ![q0] = new] \/ meta' = [meta EXCEPT ![q0] = th[t].rec]
  BY <1>1
<1> HIDE DEF new
<1>7. \A q \in Ids : q # q0 => meta'[q] = meta[q]
  BY <1>2, <1>6
<1>8. meta'[q0] \in {meta[q0], new, th[t].rec}
  BY <1>1, <1>2, <1>6
<1>9. meta'[q0] # None /\ meta'[q0].status # "deleted" /\ payload'[q0] # 0
  BY <1>1, <1>4, <1>5, <1>8, ConfigAssumption
<1>10. \A q \in Ids : q = th[t].q => Settled(q)'
  BY <1>9 DEF Settled, Good
<1>11. PhaseOK(t)'
  <2>1. CASE th'[t] = IdleThread
    BY <2>1, IdlePhaseOK
  <2>2. CASE th'[t].pc \in RPhase /\ th'[t].q = th[t].q /\ th'[t].rec = th[t].rec
    <3>1. /\ th'[t].pc \notin {"qCheck", "qPublish"} /\ th'[t].pc # "qMetadata" /\ th'[t].pc # "qUnlink"
          /\ th'[t].pc \notin DPhase
          /\ th'[t].pc \notin {"idle", "dMove", "dMetadata", "dUnlink", "dSync", "dBack", "dUndo"}
      BY <2>2, Phases
    <3> QED BY <1>5, <1>9, <2>2, <3>1 DEF PhaseOK, Good
  <2> QED BY <1>1, <2>1, <2>2
<1> QED BY <1>1, <1>7, <1>10, <1>11, StatusStep

\* A step of a deletion that goes on, and one that ends it.
LEMMA DeleteStatusStep ==
  ASSUME Base, StatusInv, NEW t \in Threads, Threads = {t}, th[t].pc \in DPhase, UNCHANGED deleting,
         UNCHANGED <<tmp, taken>>,
         payload' \in [Ids -> 0..MaxInode], pending' \in [Ids -> 0..MaxInode],
         \A q \in Ids : q # th[t].q => /\ meta'[q] = meta[q] /\ payload'[q] = payload[q]
                                       /\ pending'[q] = pending[q],
         meta'[th[t].q] # None,
         \/ \E p \in DPhase \ {"dMove"} :
              /\ Goto(t, p) /\ UNCHANGED outcome
              /\ p = "dMetadata" => payload'[th[t].q] = 0 /\ pending'[th[t].q] # 0
              /\ p = "dUnlink" => /\ payload'[th[t].q] = 0 /\ pending'[th[t].q] # 0
                                  /\ meta'[th[t].q].status = "deleted"
              /\ p = "dSync" => /\ payload'[th[t].q] = 0 /\ pending'[th[t].q] = 0
                                /\ meta'[th[t].q].status = "deleted"
              /\ p = "dBack" => /\ payload'[th[t].q] = 0
                                /\ pending'[th[t].q] = 0 => "deleteSync" \in Faults
              /\ p = "dUndo" => \/ payload'[th[t].q] # 0
                                \/ pending'[th[t].q] = 0 /\ "deleteSync" \in Faults
         \/ \E r \in Outcomes :
              /\ Return(t, r)
              /\ \/ r = "incomplete"
                 \/ meta'[th[t].q].status # "deleted" /\ payload'[th[t].q] # 0
                 \/ meta'[th[t].q].status = "deleted" /\ payload'[th[t].q] = 0
                 \/ /\ "deleteSync" \in Faults /\ r = "failedSafely"
                    /\ payload'[th[t].q] = 0 /\ pending'[th[t].q] = 0
  PROVE  StatusInv'
<1>1. th[t].pc # "idle" /\ TypeOK /\ th[t].q \in Ids
  <2>1. th[t].pc # "idle"
    BY Phases
  <2> QED BY <2>1, CallFacts
<1>2. PhaseOK(t)
  BY DEF StatusInv
<1>3. th[t].q \in deleting' /\ ~th[t].left /\ th[t].rec.status # "deleted"
  BY <1>2 DEF PhaseOK
<1> DEFINE q0 == th[t].q
<1>4. ASSUME NEW p \in DPhase \ {"dMove"}, Goto(t, p), UNCHANGED outcome,
             p = "dMetadata" => payload'[q0] = 0 /\ pending'[q0] # 0,
             p = "dUnlink" => payload'[q0] = 0 /\ pending'[q0] # 0 /\ meta'[q0].status = "deleted",
             p = "dSync" => payload'[q0] = 0 /\ pending'[q0] = 0 /\ meta'[q0].status = "deleted",
             p = "dBack" => payload'[q0] = 0 /\ (pending'[q0] = 0 => "deleteSync" \in Faults),
             p = "dUndo" => payload'[q0] # 0 \/ (pending'[q0] = 0 /\ "deleteSync" \in Faults)
      PROVE  StatusInv'
  <2>1. p \in PCs /\ p \notin {"idle", "qCheck", "qPublish", "qMetadata", "qUnlink"} /\ p \notin RPhase
    BY Phases
  <2>2. /\ th'[t].pc = p /\ th'[t].q = th[t].q /\ th'[t].rec = th[t].rec /\ th'[t].left = th[t].left
    BY <1>1, <1>4, <2>1, GotoFacts
  <2>3. PhaseOK(t)'
    BY <1>3, <1>4, <2>1, <2>2 DEF PhaseOK
  <2> QED BY <1>4, <2>2, <2>3, StatusStep
<1>5. ASSUME NEW r \in Outcomes, Return(t, r),
             \/ r = "incomplete"
             \/ meta'[q0].status # "deleted" /\ payload'[q0] # 0
             \/ meta'[q0].status = "deleted" /\ payload'[q0] = 0
             \/ /\ "deleteSync" \in Faults /\ r = "failedSafely"
                /\ payload'[q0] = 0 /\ pending'[q0] = 0
      PROVE  StatusInv'
  <2>1. /\ th'[t] = IdleThread /\ outcome'[q0] = r
        /\ \A q \in Ids : q # th[t].q => outcome'[q] = outcome[q]
    BY <1>1, <1>5, ReturnFacts
  <2>2. PhaseOK(t)'
    BY <2>1, IdlePhaseOK
  <2>3. \A q \in Ids : q = th[t].q => Settled(q)'
    BY <1>3, <1>5, <2>1 DEF Settled, Good, Gone
  <2> QED BY <2>1, <2>2, <2>3, StatusStep
<1> QED BY <1>4, <1>5

\* A step of a deletion.
LEMMA DeleteStatus ==
  ASSUME Base, StatusInv, NEW t \in Threads, Threads = {t}, Deleting(t)
  PROVE  StatusInv'
<1>1. /\ th[t].pc \in DPhase /\ th[t].q \in Ids /\ th[t].rec \in Record
      /\ UNCHANGED <<tmp, taken, deleting>>
  BY DeleteGoes DEF Base, CallInv
<1>2. /\ TypeOK /\ payload \in [Ids -> 0..MaxInode] /\ pending \in [Ids -> 0..MaxInode]
      /\ meta \in [Ids -> Record \cup {None}] /\ 0 \in 0..MaxInode
  BY Types DEF Base
<1>3. PhaseOK(t)
  BY DEF StatusInv
<1> DEFINE q0 == th[t].q
<1>4. meta[q0] # None /\ ~th[t].left /\ th[t].rec.status # "deleted" /\ None # th[t].rec
  BY <1>1, <1>3, ConfigAssumption DEF PhaseOK
<1>5. CASE DeleteMove(t)
  <2>1. th[t].pc = "dMove" /\ UNCHANGED meta
    BY <1>5 DEF DeleteMove, At
  <2>2. meta[q0].status # "deleted" /\ payload[q0] # 0
    BY <1>3, <2>1 DEF PhaseOK, Good
  <2>3. CASE /\ Goto(t, "dMetadata") /\ UNCHANGED outcome
             /\ pending' = [pending EXCEPT ![q0] = payload[q0]] /\ payload' = [payload EXCEPT ![q0] = 0]
    <3>1. /\ payload' \in [Ids -> 0..MaxInode] /\ pending' \in [Ids -> 0..MaxInode]
          /\ payload'[q0] = 0 /\ pending'[q0] # 0
          /\ \A q \in Ids : q # q0 => payload'[q] = payload[q] /\ pending'[q] = pending[q]
      BY <1>1, <1>2, <2>2, <2>3
    <3>2. "dMetadata" \in DPhase \ {"dMove"}
      BY Phases
    <3> QED BY <1>1, <1>4, <2>1, <2>3, <3>1, <3>2, DeleteStatusStep
  <2>4. CASE Return(t, "refused") /\ UNCHANGED <<pending, payload>>
    BY <1>1, <1>2, <1>4, <2>1, <2>2, <2>4, DeleteStatusStep DEF Outcomes
  <2> QED BY <1>5, <2>3, <2>4 DEF DeleteMove, Q
<1>6. CASE DeleteMetadata(t)
  <2> DEFINE new == [th[t].rec EXCEPT !.status = "deleted"]
  <2>1. th[t].pc = "dMetadata" /\ UNCHANGED <<payload, pending, outcome>>
    BY <1>6 DEF DeleteMetadata, At, names, history
  <2>2. payload[q0] = 0 /\ pending[q0] # 0
    BY <1>3, <2>1 DEF PhaseOK
  <2>3. new \in Record /\ new.status = "deleted" /\ new # None
    BY <1>1, ConfigAssumption DEF Record, Statuses
  <2>4. \/ meta' = [meta EXCEPT ![q0] = new] /\ Goto(t, "dUnlink")
        \/ (meta' = [meta EXCEPT ![q0] = new] \/ UNCHANGED meta) /\ Goto(t, "dBack")
    BY <1>6 DEF DeleteMetadata, WriteMetadata, Fails, Q
  <2> HIDE DEF new
  <2>5. /\ \A q \in Ids : q # q0 => meta'[q] = meta[q]
        /\ meta'[q0] \in {new, meta[q0]}
        /\ meta' = [meta EXCEPT ![q0] = new] => meta'[q0] = new
    BY <1>1, <1>2, <2>4
  <2>6. {"dUnlink", "dBack"} \subseteq DPhase \ {"dMove"}
    BY Phases
  <2>7. meta'[q0] # None
    BY <1>4, <2>3, <2>5
  <2>8. CASE meta'[q0] = new /\ Goto(t, "dUnlink")
    BY <1>1, <1>2, <2>1, <2>2, <2>3, <2>5, <2>6, <2>7, <2>8, DeleteStatusStep
  <2>9. CASE Goto(t, "dBack")
    BY <1>1, <1>2, <2>1, <2>2, <2>5, <2>6, <2>7, <2>9, DeleteStatusStep
  <2> QED BY <2>4, <2>5, <2>8, <2>9
<1>7. CASE DeleteUnlink(t)
  <2>1. th[t].pc = "dUnlink" /\ UNCHANGED <<payload, meta, outcome>>
    BY <1>7 DEF DeleteUnlink, At, history
  <2>2. payload[q0] = 0 /\ pending[q0] # 0 /\ meta[q0].status = "deleted"
    BY <1>3, <2>1 DEF PhaseOK
  <2>3. {"dSync", "dBack"} \subseteq DPhase \ {"dMove"}
    BY Phases
  <2>4. CASE pending' = [pending EXCEPT ![q0] = 0] /\ Goto(t, "dSync")
    <3>1. /\ pending' \in [Ids -> 0..MaxInode] /\ pending'[q0] = 0
          /\ \A q \in Ids : q # q0 => pending'[q] = pending[q]
      BY <1>1, <1>2, <2>4
    <3> QED BY <1>1, <1>2, <1>4, <2>1, <2>2, <2>3, <2>4, <3>1, DeleteStatusStep
  <2>5. CASE UNCHANGED pending /\ Goto(t, "dBack")
    BY <1>1, <1>2, <1>4, <2>1, <2>2, <2>3, <2>5, DeleteStatusStep
  <2> QED BY <1>7, <2>4, <2>5 DEF DeleteUnlink, Fails, Q
<1>8. CASE DeleteSync(t)
  <2>1. th[t].pc = "dSync" /\ UNCHANGED <<payload, pending, meta>>
    BY <1>8 DEF DeleteSync, At, names
  <2>2. payload[q0] = 0 /\ pending[q0] = 0 /\ meta[q0].status = "deleted"
    BY <1>3, <2>1 DEF PhaseOK
  <2>3. "dBack" \in DPhase \ {"dMove"} /\ "succeeded" \in Outcomes
    BY Phases DEF Outcomes
  <2>4. CASE Return(t, "succeeded")
    BY <1>1, <1>2, <1>4, <2>1, <2>2, <2>3, <2>4, DeleteStatusStep
  <2>5. CASE Goto(t, "dBack") /\ UNCHANGED outcome /\ "deleteSync" \in Faults
    BY <1>1, <1>2, <1>4, <2>1, <2>2, <2>3, <2>5, DeleteStatusStep
  <2> QED BY <1>8, <2>4, <2>5 DEF DeleteSync, Fails
<1>9. CASE DeleteBack(t)
  <2>1. th[t].pc = "dBack" /\ UNCHANGED <<meta, outcome>> /\ Goto(t, "dUndo")
    BY <1>9 DEF DeleteBack, At, history
  <2>2. payload[q0] = 0 /\ (pending[q0] = 0 => "deleteSync" \in Faults)
    BY <1>3, <2>1 DEF PhaseOK
  <2>3. "dUndo" \in DPhase \ {"dMove"}
    BY Phases
  <2>4. CASE /\ pending[q0] # 0
             /\ payload' = [payload EXCEPT ![q0] = pending[q0]] /\ pending' = [pending EXCEPT ![q0] = 0]
    <3>1. /\ payload' \in [Ids -> 0..MaxInode] /\ pending' \in [Ids -> 0..MaxInode] /\ payload'[q0] # 0
          /\ \A q \in Ids : q # q0 => payload'[q] = payload[q] /\ pending'[q] = pending[q]
      BY <1>1, <1>2, <2>4
    <3> QED BY <1>1, <1>4, <2>1, <2>3, <3>1, DeleteStatusStep
  <2>5. CASE pending[q0] = 0 /\ UNCHANGED <<payload, pending>>
    BY <1>1, <1>2, <1>4, <2>1, <2>2, <2>3, <2>5, DeleteStatusStep
  <2> QED BY <1>9, <2>2, <2>4, <2>5 DEF DeleteBack, Q, Free
<1>10. CASE DeleteUndo(t)
  <2>1. th[t].pc = "dUndo" /\ UNCHANGED <<payload, pending>>
    BY <1>10 DEF DeleteUndo, At, names
  <2>2. payload[q0] # 0 \/ (pending[q0] = 0 /\ "deleteSync" \in Faults)
    BY <1>3, <2>1 DEF PhaseOK
  <2>3. \/ meta' = [meta EXCEPT ![q0] = th[t].rec] /\ Return(t, "failedSafely")
        \/ UNCHANGED meta /\ Return(t, "incomplete")
    BY <1>4, <1>10 DEF DeleteUndo, UndoMetadata, Q
  <2>4. {"failedSafely", "incomplete"} \subseteq Outcomes
    BY DEF Outcomes
  <2>5. CASE meta' = [meta EXCEPT ![q0] = th[t].rec] /\ Return(t, "failedSafely")
    <3>1. meta'[q0] = th[t].rec /\ \A q \in Ids : q # q0 => meta'[q] = meta[q]
      BY <1>1, <1>2, <2>5
    <3> QED BY <1>1, <1>2, <1>4, <2>1, <2>2, <2>4, <2>5, <3>1, DeleteStatusStep
  <2>6. CASE UNCHANGED meta /\ Return(t, "incomplete")
    BY <1>1, <1>2, <1>4, <2>1, <2>4, <2>6, DeleteStatusStep
  <2> QED BY <2>3, <2>5, <2>6
<1> QED BY <1>5, <1>6, <1>7, <1>8, <1>9, <1>10 DEF Deleting

\* The beginning of a call.
LEMMA StartStatus ==
  ASSUME Base, StatusInv, NEW t \in Threads, Threads = {t},
         \/ \E p \in Paths : QuarantineOpen(t, p)
         \/ \E q \in Ids, p \in Paths : RestoreLoad(t, q, p)
         \/ \E q \in Ids : DeleteLoad(t, q)
  PROVE  StatusInv'
<1>1. th \in [Threads -> Thread] /\ IdleThread \in Thread
  BY Types, IdleFacts DEF Base
<1>2. /\ UNCHANGED <<tmp, payload, pending, meta, outcome, taken>> /\ deleting \subseteq deleting'
  BY DEF QuarantineOpen, RestoreLoad, DeleteLoad, names, history
<1>3. th[t].pc = "idle" /\ th[t].q = None
  <2>1. th[t].pc = "idle"
    BY DEF QuarantineOpen, RestoreLoad, DeleteLoad, At
  <2> QED BY <2>1 DEF StatusInv, PhaseOK
<1>4. ASSUME PhaseOK(t)'
      PROVE  StatusInv'
  <2>1. \A q \in Ids : q # th[t].q
    BY <1>3, ConfigAssumption
  <2>2. \A q \in Ids : Settled(q)
    BY <2>1 DEF StatusInv
  <2>3. \A q \in Ids : Settled(q)'
    BY <1>2, <2>2, SettledStays
  <2> QED BY <1>4, <2>3 DEF StatusInv
<1>5. ASSUME NEW p \in Paths, QuarantineOpen(t, p)
      PROVE  PhaseOK(t)'
  <2>1. \E q \in Ids : th' = [th EXCEPT ![t] = [IdleThread EXCEPT !.pc = "qMove", !.q = q, !.path = p,
                                                 !.ino = at[p], !.seen = data[at[p]]]]
    BY <1>5 DEF QuarantineOpen
  <2>2. th'[t].pc = "qMove"
    BY <1>1, <2>1 DEF IdleThread
  <2>3. "qMove" \notin RPhase /\ "qMove" \notin DPhase
    BY Phases
  <2> QED BY <2>2, <2>3 DEF PhaseOK
<1>6. ASSUME NEW q \in Ids, NEW x \in {"rOpen", "dMove"}, meta[q] # None, meta[q].status # "deleted", payload[q] # 0,
             th'[t].pc = x, th'[t].q = q, th'[t].rec = meta[q], th'[t].left = FALSE,
             x = "dMove" => q \in deleting'
      PROVE  PhaseOK(t)'
  <2>1. /\ x \notin {"idle", "qCheck", "qPublish", "qMetadata", "qUnlink", "dMetadata", "dUnlink", "dSync", "dBack", "dUndo"}
        /\ x \in DPhase => x = "dMove"
    BY Phases
  <2> QED BY <1>2, <1>6, <2>1 DEF PhaseOK, Good
<1>7. ASSUME NEW q \in Ids, NEW p \in Paths, RestoreLoad(t, q, p)
      PROVE  PhaseOK(t)'
  <2>1. /\ meta[q] # None /\ meta[q].status # "deleted" /\ payload[q] # 0
        /\ th' = [th EXCEPT ![t] = [IdleThread EXCEPT !.pc = "rOpen", !.q = q, !.path = p, !.rec = meta[q]]]
    BY <1>7 DEF RestoreLoad, Free
  <2>2. th'[t].pc = "rOpen" /\ th'[t].q = q /\ th'[t].rec = meta[q] /\ th'[t].left = FALSE
    BY <1>1, <2>1 DEF IdleThread
  <2> QED BY <1>6, <2>1, <2>2
<1>8. ASSUME NEW q \in Ids, DeleteLoad(t, q)
      PROVE  PhaseOK(t)'
  <2>1. /\ meta[q] # None /\ meta[q].status # "deleted" /\ payload[q] # 0 /\ q \in deleting'
        /\ th' = [th EXCEPT ![t] = [IdleThread EXCEPT !.pc = "dMove", !.q = q, !.rec = meta[q]]]
    BY <1>8 DEF DeleteLoad, Free
  <2>2. th'[t].pc = "dMove" /\ th'[t].q = q /\ th'[t].rec = meta[q] /\ th'[t].left = FALSE
    BY <1>1, <2>1 DEF IdleThread
  <2> QED BY <1>6, <2>1, <2>2
<1> QED BY <1>4, <1>5, <1>7, <1>8

\* Every step of the one caller and of the environment.
LEMMA NextStatus ==
  ASSUME NEW t \in Threads, Threads = {t}, MayCrash = FALSE, Base, StatusInv, [Next]_vars
  PROVE  StatusInv'
<1>1. CASE QuarantineStep(t)
  BY <1>1, QuarantineStatus, StartStatus DEF QuarantineStep, Quarantining
<1>2. CASE RestoreStep(t)
  BY <1>2, RestoreStatus, StartStatus DEF RestoreStep, Restoring
<1>3. CASE DeleteStep(t)
  BY <1>3, DeleteStatus, StartStatus DEF DeleteStep, Deleting
<1>4. CASE Environment \/ UNCHANGED vars
  <2>1. UNCHANGED <<tmp, payload, pending, meta, th, taken, outcome, deleting>>
    BY <1>4 DEF Environment, UserCreate, UserRemove, UserRename, UserWrite, CorruptPayload, Crash,
       names, history, vars
  <2> QED BY <2>1, StatusFrame
<1> QED BY <1>1, <1>2, <1>3, <1>4 DEF Next

\* With one caller and no crash, the record of a committed item tells whether its
\* payload is there, between operations, whatever fails, apart from the deletion
\* whose last fsync failed and from an incomplete rollback.
THEOREM StatusIsTruthful ==
  (\E t : Threads = {t}) /\ ~MayCrash => (Spec => []StatusTruthful)
<1> SUFFICES ASSUME NEW t, Threads = {t}, ~MayCrash
             PROVE  Spec => []StatusTruthful
  OBVIOUS
<1>1. t \in Threads /\ MayCrash = FALSE
  BY ConfigAssumption
<1>2. Init => StatusInv
  BY IdleFacts, Phases DEF Init, StatusInv, Settled, PhaseOK
<1>3. Base /\ StatusInv /\ [Next]_vars => StatusInv'
  BY <1>1, NextStatus
<1>4. StatusInv => StatusTruthful
  BY DEF StatusInv, Settled, Good, Gone, StatusTruthful, Q, Free
<1> QED BY <1>2, <1>3, <1>4, BaseAlways, PTL DEF Spec
=============================================================================
