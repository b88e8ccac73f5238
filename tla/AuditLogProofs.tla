--------------------------- MODULE AuditLogProofs ---------------------------
(***************************************************************************)
(* Proofs about AuditLog, for every set of loggers, every bound and every  *)
(* corruption policy: the retained lines form one chain, and no record     *)
(* that record() returned the hash of is lost.                             *)
(*                                                                         *)
(* The theorems suppose that a write is never cut exactly before its       *)
(* newline ("nonl"): after such a cut the next record of a process that is *)
(* already running continues the line, and the chain is broken.            *)
(***************************************************************************)
EXTENDS AuditLog, SequenceTheorems, FiniteSetTheorems, TLAPS

\* A chain of lines: hashes grow, each line names the one before, and only the
\* last line may have been cut short.
Chain(s) ==
  /\ \A i \in 1..Len(s) : s[i].hash > 0
  /\ \A i, j \in 1..Len(s) : i < j => s[i].hash < s[j].hash
  /\ \A i \in 1..Len(s) : i > 1 => /\ s[i].prev = s[i - 1].hash
                                   /\ s[i].sequence = s[i - 1].sequence + 1
  /\ \A i \in 1..Len(s) : /\ s[i].kind \in {"ok", "frag", "bad"}
                          /\ s[i].kind = "frag" => i = Len(s)

\* The entry e continues the chain s.
Continues(s, e) ==
  /\ \A i \in 1..Len(s) : s[i].hash < e.hash
  /\ s # <<>> => /\ Last(s).kind # "frag"
                 /\ e.prev = Last(s).hash /\ e.sequence = Last(s).sequence + 1

Critical == {"tail", "rotate", "retain", "append", "sync", "quarantine"}

Building == {"rotate", "retain", "append", "sync"}

\* The lock is held exactly inside a locked section, where an entry is built.
LockInv ==
  \A l \in Loggers :
    /\ pc[l] \in Critical <=> lock = l
    /\ entry[l] # None => pc[l] \in Building
    /\ pc[l] \in {"append", "sync"} => entry[l] # None

\* The lines belong to the segments so far and to the entries built, and the
\* lines changed on disk are the ones remembered.
LinesInv ==
  \A i \in 1..Len(log) :
    /\ log[i].seg <= cur /\ log[i].hash <= made
    /\ log[i].kind = "bad" => log[i].hash \in tampered

\* Where the entry under way stands.
EntryInv ==
  \A l \in Loggers :
    /\ entry[l] # None /\ pc[l] # "sync" =>
         /\ entry[l].hash \in 1..made /\ entry[l].hash \notin acked
         /\ Continues(log, entry[l])
    /\ pc[l] = "sync" =>
         /\ log # <<>> /\ Last(log).hash = entry[l].hash /\ Last(log).kind # "frag"
         /\ entry[l].hash <= made

\* Acknowledged records.
AckInv ==
  /\ \A h \in acked : h <= made
  /\ \A i \in 1..Len(log) : log[i].kind = "frag" => log[i].hash \notin acked
  /\ acked \subseteq Hashes(log) \cup dropped \cup corrupt

\* The segments inside a rotation and inside a quarantine.
SegmentInv ==
  \A l \in Loggers :
    /\ pc[l] = "retain" => \A i \in 1..Len(log) : log[i].seg < cur
    /\ pc[l] = "quarantine" => \A i \in 1..Len(log) : log[i].seg = cur => log[i].kind # "frag"

\* After retention the first line names a record that is gone, and no repair
\* can remove it.
WindowInv ==
  windowed => /\ log # <<>> /\ log[1].prev # 0
              /\ log[1].seg = cur => log[1].kind # "frag"

ChainInv == TypeOK /\ Chain(log) /\ LockInv /\ LinesInv /\ EntryInv /\ AckInv /\ SegmentInv

-----------------------------------------------------------------------------
(* Facts about chains of lines.                                            *)

\* Removing the last line.
LEMMA WithoutLast ==
  ASSUME NEW s \in Seq(Line), s # <<>>, Chain(s), NEW t, t = SubSeq(s, 1, Len(s) - 1)
  PROVE  /\ t \in Seq(Line) /\ Chain(t)
         /\ Len(t) = Len(s) - 1 /\ \A i \in 1..Len(t) : t[i] = s[i]
<1>1. Len(s) \in Nat \ {0}
  BY EmptySeq
<1>2. t \in Seq(Line) /\ Len(t) = Len(s) - 1 /\ \A i \in 1..Len(t) : t[i] = s[i]
  <2>1. \A i \in 1..Len(s) - 1 : s[i] \in Line
    BY <1>1, ElementOfSeq
  <2>2. /\ t \in Seq(Line) /\ Len(t) = IF 1 <= Len(s) - 1 THEN (Len(s) - 1) - 1 + 1 ELSE 0
        /\ \A i \in 1..(Len(s) - 1) - 1 + 1 : t[i] = s[1 + i - 1]
    BY <1>1, <2>1, SubSeqProperties
  <2>3. Len(t) = Len(s) - 1
    <3> DEFINE n == Len(s)  m == Len(t)
    <3>1. n \in Nat \ {0} /\ m = IF 1 <= n - 1 THEN (n - 1) - 1 + 1 ELSE 0
      BY <1>1, <2>2
    <3> HIDE DEF n, m
    <3>2. m = n - 1
      BY ONLY <3>1
    <3> QED BY ONLY <3>2 DEF n, m
  <2>4. \A i \in 1..Len(t) : t[i] = s[i]
    <3> SUFFICES ASSUME NEW i \in 1..Len(t)
                 PROVE  t[i] = s[i]
      OBVIOUS
    <3>1. i \in 1..(Len(s) - 1) - 1 + 1 /\ 1 + i - 1 = i
      BY <1>1, <2>3
    <3> QED BY <2>2, <3>1
  <2> QED BY <2>2, <2>3, <2>4
<1>3. Chain(t)
  BY <1>1, <1>2 DEF Chain
<1> QED BY <1>2, <1>3

\* Removing the first lines.
LEMMA WithoutFirst ==
  ASSUME NEW s \in Seq(Line), Chain(s), NEW k \in 1..Len(s), NEW t,
         t = SubSeq(s, k + 1, Len(s))
  PROVE  /\ t \in Seq(Line) /\ Chain(t)
         /\ Len(t) = Len(s) - k /\ \A i \in 1..Len(t) : t[i] = s[k + i]
         /\ Hashes(SubSeq(s, 1, k)) = {s[i].hash : i \in 1..k}
<1>1. Len(s) \in Nat /\ k \in Nat
  BY LenProperties
<1>2. t \in Seq(Line) /\ Len(t) = Len(s) - k /\ \A i \in 1..Len(t) : t[i] = s[k + i]
  <2>1. k + 1 \in 1..Len(s) + 1 /\ Len(s) \in (k + 1) - 1..Len(s)
    BY <1>1
  <2> QED BY <1>1, <2>1, SubSeqProperties
<1>3. Hashes(SubSeq(s, 1, k)) = {s[i].hash : i \in 1..k}
  <2>1. 1 \in 1..Len(s) + 1 /\ k \in 1 - 1..Len(s)
    BY <1>1
  <2>2. Len(SubSeq(s, 1, k)) = k /\ \A i \in 1..k : SubSeq(s, 1, k)[i] = s[i]
    BY <1>1, <2>1, SubSeqProperties
  <2> QED BY <2>2 DEF Hashes
<1>4. Chain(t)
  <2>1. \A i \in 1..Len(t) : i \in Nat /\ k + i \in 1..Len(s)
    BY <1>1, <1>2
  <2>2. \A i \in 1..Len(t) : t[i].hash > 0
    BY <1>2, <2>1 DEF Chain
  <2>3. \A i, j \in 1..Len(t) : i < j => t[i].hash < t[j].hash
    <3> SUFFICES ASSUME NEW i \in 1..Len(t), NEW j \in 1..Len(t), i < j
                 PROVE  t[i].hash < t[j].hash
      OBVIOUS
    <3> QED BY <1>1, <1>2, <2>1, k + i < k + j DEF Chain
  <2>4. \A i \in 1..Len(t) : i > 1 => /\ t[i].prev = t[i - 1].hash
                                      /\ t[i].sequence = t[i - 1].sequence + 1
    <3> SUFFICES ASSUME NEW i \in 1..Len(t), i > 1
                 PROVE  t[i].prev = t[i - 1].hash /\ t[i].sequence = t[i - 1].sequence + 1
      OBVIOUS
    <3>1. i - 1 \in 1..Len(t) /\ k + i > 1 /\ k + (i - 1) = (k + i) - 1
      BY <1>1, <1>2
    <3>2. t[i] = s[k + i] /\ t[i - 1] = s[(k + i) - 1]
      BY <1>2, <3>1
    <3> QED BY <2>1, <3>1, <3>2 DEF Chain
  <2>5. \A i \in 1..Len(t) : /\ t[i].kind \in {"ok", "frag", "bad"}
                             /\ t[i].kind = "frag" => i = Len(t)
    <3> SUFFICES ASSUME NEW i \in 1..Len(t)
                 PROVE  t[i].kind \in {"ok", "frag", "bad"} /\ (t[i].kind = "frag" => i = Len(t))
      OBVIOUS
    <3>1. t[i] = s[k + i] /\ (k + i = Len(s) => i = Len(t))
      BY <1>1, <1>2
    <3> QED BY <2>1, <3>1 DEF Chain
  <2> QED BY <2>2, <2>3, <2>4, <2>5 DEF Chain
<1> QED BY <1>2, <1>3, <1>4

\* Adding the line of an entry that continues the chain.
LEMMA WithEntry ==
  ASSUME NEW s \in Seq(Line), Chain(s), NEW line \in Line, Continues(s, line), line.hash > 0,
         line.kind \in {"ok", "frag"}
  PROVE  Chain(Append(s, line))
<1> DEFINE t == Append(s, line)
<1>1. Len(s) \in Nat
  BY LenProperties
<1>2. /\ t \in Seq(Line) /\ Len(t) = Len(s) + 1 /\ \A i \in 1..Len(s) : t[i] = s[i]
      /\ t[Len(t)] = line
  BY AppendProperties, <1>1
<1> HIDE DEF t
<1>3. \A i \in 1..Len(t) : i \in 1..Len(s) \/ i = Len(t)
  BY <1>1, <1>2
<1>4. s # <<>> => Len(s) > 0
  BY EmptySeq, <1>1
<1>5. Len(s) > 0 => s[Len(s)].kind # "frag" /\ line.prev = s[Len(s)].hash
                    /\ line.sequence = s[Len(s)].sequence + 1
  <2>1. s = <<>> => Len(s) = 0
    OBVIOUS
  <2> QED BY <2>1, <1>1 DEF Continues, Last
<1>6. \A i \in 1..Len(t) : t[i].hash > 0
  BY <1>2, <1>3 DEF Chain
<1>7. \A i, j \in 1..Len(t) : i < j => t[i].hash < t[j].hash
  BY <1>1, <1>2, <1>3 DEF Chain, Continues
<1>8. \A i \in 1..Len(t) : i > 1 => /\ t[i].prev = t[i - 1].hash
                                    /\ t[i].sequence = t[i - 1].sequence + 1
  <2> SUFFICES ASSUME NEW i \in 1..Len(t), i > 1
               PROVE  t[i].prev = t[i - 1].hash /\ t[i].sequence = t[i - 1].sequence + 1
    OBVIOUS
  <2>1. i - 1 \in 1..Len(s) /\ t[i - 1] = s[i - 1]
    BY <1>1, <1>2
  <2>2. CASE i \in 1..Len(s)
    BY <2>1, <2>2, <1>2 DEF Chain
  <2>3. CASE i = Len(t)
    BY <2>1, <2>3, <1>1, <1>2, <1>5
  <2> QED BY <1>3, <2>2, <2>3
<1>9. \A i \in 1..Len(t) : /\ t[i].kind \in {"ok", "frag", "bad"}
                           /\ t[i].kind = "frag" => i = Len(t)
  <2> SUFFICES ASSUME NEW i \in 1..Len(t)
               PROVE  t[i].kind \in {"ok", "frag", "bad"} /\ (t[i].kind = "frag" => i = Len(t))
    OBVIOUS
  <2>1. CASE i \in 1..Len(s)
    BY <2>1, <1>1, <1>2, <1>5 DEF Chain
  <2>2. CASE i = Len(t)
    BY <2>2, <1>2
  <2> QED BY <1>3, <2>1, <2>2
<1> QED BY <1>2, <1>6, <1>7, <1>8, <1>9 DEF Chain, t

\* Changing the kind of a line, but not from or to "frag".
LEMMA WithChange ==
  ASSUME NEW s \in Seq(Line), Chain(s), NEW t \in Seq(Line), Len(t) = Len(s),
         \A i \in 1..Len(s) : /\ t[i].hash = s[i].hash /\ t[i].prev = s[i].prev
                              /\ t[i].sequence = s[i].sequence
                              /\ t[i].kind = s[i].kind \/ t[i].kind = "bad"
  PROVE  Chain(t)
<1>1. Len(s) \in Nat
  BY LenProperties
<1>2. \A i \in 1..Len(s) : i > 1 => i - 1 \in 1..Len(s)
  BY <1>1
<1> QED BY <1>1, <1>2 DEF Chain
-----------------------------------------------------------------------------
(* The invariant is preserved by every step.                               *)

\* No entry is under way outside the locked sections.
LEMMA FreeLock ==
  ASSUME ChainInv, lock = None
  PROVE  \A m \in Loggers : pc[m] \notin Critical /\ entry[m] = None
<1>1. None \notin Loggers
  BY ConfigAssumption
<1> QED BY <1>1 DEF ChainInv, LockInv, Critical, Building

\* Nobody but the holder is in a locked section.
LEMMA OneHolder ==
  ASSUME ChainInv, NEW l \in Loggers, lock = l
  PROVE  \A m \in Loggers : m # l => pc[m] \notin Critical /\ entry[m] = None
BY DEF ChainInv, LockInv, Critical, Building

\* The domain of the log.
LEMMA LogFacts ==
  ASSUME ChainInv
  PROVE  /\ log \in Seq(Line) /\ Len(log) \in Nat
         /\ log = <<>> <=> Len(log) = 0
         /\ \A i \in 1..Len(log) : log[i] \in Line
<1>1. log \in Seq(Line)
  BY DEF ChainInv, TypeOK
<1> QED BY <1>1, LenProperties, EmptySeq, ElementOfSeq

\* What a step that leaves the files and the histories alone preserves.
LEMMA SameFiles ==
  ASSUME ChainInv, UNCHANGED <<log, cur, made, acked, dropped, corrupt, windowed, tampered>>
  PROVE  Chain(log)' /\ LinesInv' /\ AckInv' /\ (WindowInv => WindowInv')
<1>1. Chain(log)'
  BY DEF ChainInv, Chain
<1>2. LinesInv'
  BY DEF ChainInv, LinesInv
<1>3. AckInv'
  BY DEF ChainInv, AckInv, Hashes
<1>4. WindowInv => WindowInv'
  BY DEF WindowInv
<1> QED BY <1>1, <1>2, <1>3, <1>4

\* _repair_active_trailing_partial_locked removes no acknowledged record.
LEMMA RepairFacts ==
  ASSUME ChainInv, NEW t, t = Repaired(log)
  PROVE  /\ t \in Seq(Line) /\ Chain(t) /\ Len(t) \in Nat /\ Len(t) <= Len(log)
         /\ \A i \in 1..Len(t) : t[i] = log[i] /\ (t[i].seg = cur => t[i].kind # "frag")
         /\ acked \subseteq Hashes(t) \cup dropped \cup corrupt
         /\ WindowInv /\ windowed => t # <<>>
<1>1. /\ log \in Seq(Line) /\ Len(log) \in Nat /\ (log = <<>> <=> Len(log) = 0) /\ Chain(log)
  BY LogFacts DEF ChainInv
<1>2. CASE log # <<>> /\ Last(log).seg = cur /\ Unterminated(Last(log))
  <2>1. t = SubSeq(log, 1, Len(log) - 1)
    BY <1>2 DEF Repaired
  <2>2. /\ t \in Seq(Line) /\ Chain(t) /\ Len(t) = Len(log) - 1
        /\ \A i \in 1..Len(t) : t[i] = log[i]
    BY <1>1, <1>2, <2>1, WithoutLast
  <2>3. log[Len(log)].kind = "frag" /\ Len(log) \in 1..Len(log)
    <3>1. Len(log) \in 1..Len(log)
      BY <1>1, <1>2
    <3>2. log[Len(log)].kind \in {"nonl", "frag"} /\ log[Len(log)].kind \in {"ok", "frag", "bad"}
      BY <1>1, <1>2, <3>1 DEF Unterminated, Last, Chain
    <3> QED BY <3>1, <3>2
  <2>4. Len(t) \in Nat /\ Len(t) <= Len(log) /\ \A i \in 1..Len(t) : i \in 1..Len(log) /\ i # Len(log)
    BY <1>1, <2>2, <2>3
  <2>5. \A i \in 1..Len(t) : t[i].kind # "frag"
    BY <1>1, <2>2, <2>4 DEF Chain
  <2>6. acked \subseteq Hashes(t) \cup dropped \cup corrupt
    <3> SUFFICES ASSUME NEW h \in acked, h \notin dropped \cup corrupt
                 PROVE  h \in Hashes(t)
      OBVIOUS
    <3>1. PICK i \in 1..Len(log) : h = log[i].hash
      BY DEF ChainInv, AckInv, Hashes
    <3>2. i # Len(log)
      BY <2>3, <3>1 DEF ChainInv, AckInv
    <3>3. i \in 1..Len(t) /\ t[i] = log[i]
      BY <1>1, <2>2, <3>2
    <3> QED BY <3>1, <3>3 DEF Hashes
  <2>7. ASSUME WindowInv, windowed
        PROVE  t # <<>>
    <3>1. Len(log) # 1
      BY <1>2, <2>3, <2>7 DEF WindowInv, Last
    <3>2. Len(t) > 0
      BY <1>1, <1>2, <2>2, <3>1
    <3> QED BY <3>2
  <2> QED BY <2>2, <2>4, <2>5, <2>6, <2>7
<1>3. CASE ~(log # <<>> /\ Last(log).seg = cur /\ Unterminated(Last(log)))
  <2>1. t = log
    BY <1>3 DEF Repaired
  <2>2. ASSUME NEW i \in 1..Len(log), log[i].seg = cur
        PROVE  log[i].kind # "frag"
    <3> SUFFICES ASSUME log[i].kind = "frag"
                 PROVE  FALSE
      OBVIOUS
    <3>1. i = Len(log) /\ log # <<>>
      BY <1>1 DEF Chain
    <3> QED BY <1>3, <2>2, <3>1 DEF Last, Unterminated
  <2>3. acked \subseteq Hashes(t) \cup dropped \cup corrupt
    BY <2>1 DEF ChainInv, AckInv
  <2> QED BY <1>1, <2>1, <2>2, <2>3 DEF WindowInv
<1> QED BY <1>2, <1>3

\* Start.
LEMMA StartKeeps ==
  ASSUME ChainInv, NEW l \in Loggers, Start(l)
  PROVE  ChainInv' /\ (WindowInv => WindowInv')
<1> DEFINE t == Repaired(log)
<1>1. /\ log' = t /\ lock = None /\ pc[l] = "stopped"
      /\ UNCHANGED <<cur, entry, made, acked, dropped, corrupt, windowed, tampered>>
  BY DEF Start, At
<1>2. /\ t \in Seq(Line) /\ Chain(t) /\ Len(t) \in Nat /\ Len(t) <= Len(log)
      /\ \A i \in 1..Len(t) : t[i] = log[i] /\ (t[i].seg = cur => t[i].kind # "frag")
      /\ acked \subseteq Hashes(t) \cup dropped \cup corrupt
      /\ WindowInv /\ windowed => t # <<>>
  BY RepairFacts
<1>3. /\ \A m \in Loggers : pc[m] \notin Critical /\ entry[m] = None
  BY <1>1, FreeLock
<1>4. Len(log) \in Nat
  BY LogFacts
<1>5. /\ pc' \in [Loggers -> PCs] /\ lock' \in Loggers \cup {None} /\ starting' \subseteq Loggers
      /\ mem' \in [Loggers -> [hash : Nat, sequence : Nat]]
      /\ \A m \in Loggers : m # l => pc'[m] = pc[m]
      /\ \/ pc'[l] \in {"ready", "stopped"} /\ lock' = None
         \/ pc'[l] = "quarantine" /\ lock' = l
  <2> DEFINE tail == IF t = <<>> THEN [hash |-> 0, sequence |-> 0]
                     ELSE [hash |-> Last(t).hash, sequence |-> Last(t).sequence]
  <2>1. pc \in [Loggers -> PCs] /\ starting \subseteq Loggers
        /\ mem \in [Loggers -> [hash : Nat, sequence : Nat]]
    BY DEF ChainInv, TypeOK
  <2>2. tail \in [hash : Nat, sequence : Nat] /\ [hash |-> 0, sequence |-> 0] \in [hash : Nat, sequence : Nat]
    <3>1. t # <<>> => Len(t) \in 1..Len(t)
      BY <1>2, EmptySeq
    <3>2. t # <<>> => Last(t) \in Line
      BY <1>2, <3>1, ElementOfSeq DEF Last
    <3> QED BY <3>2 DEF Line
  <2> HIDE DEF t
  <2>3. \/ /\ Goto(l, "ready") /\ mem' = [mem EXCEPT ![l] = tail] /\ UNCHANGED <<lock, starting>>
        \/ UNCHANGED <<pc, mem, lock, starting>>
        \/ /\ Goto(l, "quarantine") /\ lock' = l /\ starting' = starting \cup {l}
           /\ mem' = [mem EXCEPT ![l] = [hash |-> 0, sequence |-> 0]]
    BY DEF Start, t
  <2> HIDE DEF tail
  <2>4. {"ready", "quarantine"} \subseteq PCs
    BY DEF PCs
  <2> QED BY <1>1, <2>1, <2>2, <2>3, <2>4 DEF Goto
<1> HIDE DEF t
<1>6. TypeOK'
  BY <1>1, <1>2, <1>5 DEF ChainInv, TypeOK
<1>7. Chain(log)'
  BY <1>1, <1>2 DEF Chain
<1>8. LockInv'
  BY <1>1, <1>3, <1>5, ConfigAssumption DEF LockInv, Critical, Building
<1>9. \A i \in 1..Len(t) : i \in 1..Len(log)
  BY <1>2, <1>4
<1>10. LinesInv'
  BY <1>1, <1>2, <1>9 DEF ChainInv, LinesInv
<1>11. EntryInv'
  BY <1>1, <1>3, <1>5 DEF EntryInv, Critical
<1>12. AckInv'
  BY <1>1, <1>2, <1>9 DEF ChainInv, AckInv, Hashes
<1>13. SegmentInv'
  BY <1>1, <1>2, <1>3, <1>5 DEF SegmentInv, Critical
<1>14. WindowInv => WindowInv'
  <2> SUFFICES ASSUME WindowInv, windowed
               PROVE  t # <<>> /\ t[1].prev # 0 /\ (t[1].seg = cur => t[1].kind # "frag")
    BY <1>1 DEF WindowInv
  <2>1. t # <<>> /\ 1 \in 1..Len(t)
    BY <1>2, EmptySeq
  <2> QED BY <1>2, <2>1 DEF WindowInv
<1> QED BY <1>6, <1>7, <1>8, <1>10, <1>11, <1>12, <1>13, <1>14 DEF ChainInv

\* Removing the first lines, by retention or into the corrupt directory.
LEMMA RemovedFirst ==
  ASSUME ChainInv, NEW k \in 1..Len(log), NEW t, t = SubSeq(log, k + 1, Len(log)),
         NEW gone, gone = Hashes(SubSeq(log, 1, k))
  PROVE  /\ t \in Seq(Line) /\ Chain(t) /\ Len(t) \in Nat /\ Len(t) = Len(log) - k
         /\ \A i \in 1..Len(t) : /\ k + i \in 1..Len(log) /\ t[i] = log[k + i]
                                 /\ t[i].hash \notin gone
         /\ acked \subseteq Hashes(t) \cup gone \cup dropped \cup corrupt
         /\ gone \subseteq Nat
         /\ t # <<>> => t[1].prev # 0 /\ Last(t) = Last(log) /\ log # <<>>
<1>1. /\ log \in Seq(Line) /\ Len(log) \in Nat /\ (log = <<>> <=> Len(log) = 0) /\ Chain(log)
      /\ \A i \in 1..Len(log) : log[i] \in Line
  BY LogFacts DEF ChainInv
<1>2. /\ t \in Seq(Line) /\ Chain(t) /\ Len(t) = Len(log) - k
      /\ \A i \in 1..Len(t) : t[i] = log[k + i]
      /\ gone = {log[i].hash : i \in 1..k}
  <2>1. /\ t \in Seq(Line) /\ Chain(t) /\ Len(t) = Len(log) - k
        /\ \A i \in 1..Len(t) : t[i] = log[k + i]
    <3>1. log \in Seq(Line) /\ Chain(log) /\ k \in 1..Len(log) /\ t = SubSeq(log, k + 1, Len(log))
      BY <1>1
    <3> QED BY ONLY <3>1, WithoutFirst, ZenonT(60)
  <2>2. Hashes(SubSeq(log, 1, k)) = {log[i].hash : i \in 1..k}
    BY <1>1, WithoutFirst, Zenon
  <2> QED BY <2>1, <2>2, Zenon
<1>3. Len(t) \in Nat /\ k \in Nat /\ \A i \in 1..Len(t) : k + i \in 1..Len(log)
  BY <1>1, <1>2
<1>4. \A i \in 1..k : i \in 1..Len(log)
  BY <1>1
<1>5. ASSUME NEW i \in 1..Len(t)
      PROVE  t[i].hash \notin gone
  <2> SUFFICES ASSUME NEW j \in 1..k, t[i].hash = log[j].hash
               PROVE  FALSE
    BY <1>2
  <2>1. j < k + i /\ j \in 1..Len(log) /\ k + i \in 1..Len(log)
    BY <1>1, <1>3, <1>4
  <2>2. log[j].hash < log[k + i].hash /\ log[j].hash \in Nat
    BY <1>1, <2>1 DEF Chain, Line
  <2> QED BY <1>2, <2>2
<1>6. acked \subseteq Hashes(t) \cup gone \cup dropped \cup corrupt
  <2> SUFFICES ASSUME NEW h \in acked, h \notin dropped \cup corrupt \cup gone
               PROVE  h \in Hashes(t)
    OBVIOUS
  <2>1. PICK i \in 1..Len(log) : h = log[i].hash
    BY DEF ChainInv, AckInv, Hashes
  <2>2. i \notin 1..k
    BY <1>2, <2>1
  <2>3. i - k \in 1..Len(t) /\ k + (i - k) = i
    BY <1>1, <1>2, <2>2
  <2>4. t[i - k] = log[i]
    BY <1>2, <2>3
  <2> QED BY <2>1, <2>3, <2>4 DEF Hashes
<1>7. gone \subseteq Nat
  BY <1>1, <1>2, <1>4 DEF Line
<1>8. ASSUME t # <<>>
      PROVE  t[1].prev # 0 /\ Last(t) = Last(log) /\ log # <<>>
  <2>1. Len(t) > 0
    BY <1>2, <1>8, EmptySeq
  <2>2. 1 \in 1..Len(t) /\ Len(t) \in 1..Len(t) /\ k + Len(t) = Len(log)
        /\ k \in 1..Len(log) /\ k + 1 \in 1..Len(log) /\ k + 1 > 1 /\ (k + 1) - 1 = k
    BY <1>1, <1>2, <1>3, <2>1
  <2>3. t[1] = log[k + 1] /\ Last(t) = Last(log)
    BY <1>2, <2>2 DEF Last
  <2>4. log[k + 1].prev = log[k].hash /\ log[k].hash > 0 /\ log[k].hash \in Nat
    BY <1>1, <2>2 DEF Chain, Line
  <2> QED BY <1>1, <2>2, <2>3, <2>4
<1> QED BY <1>2, <1>3, <1>5, <1>6, <1>7, <1>8

\* QuarantineSegment.
LEMMA QuarantineKeeps ==
  ASSUME ChainInv, NEW l \in Loggers, QuarantineSegment(l)
  PROVE  ChainInv' /\ (WindowInv => WindowInv')
<1>1. /\ pc[l] = "quarantine" /\ lock = l
      /\ UNCHANGED <<cur, lock, starting, mem, entry, made, acked, dropped>>
  BY DEF QuarantineSegment, At, Holds
<1>2. /\ \A m \in Loggers : m # l => pc[m] \notin Critical /\ entry[m] = None
      /\ entry[l] = None
  BY <1>1, OneHolder DEF ChainInv, LockInv, Building
<1>3. TypeOK
  BY DEF ChainInv
<1>4. CASE log = <<>> /\ Goto(l, "tail") /\ UNCHANGED <<log, corrupt, tampered, windowed>>
  <2>1. pc' = [pc EXCEPT ![l] = "tail"] /\ "tail" \in PCs
    BY <1>4 DEF Goto, PCs
  <2>2. TypeOK'
    BY <1>1, <1>3, <1>4, <2>1 DEF TypeOK
  <2>3. pc'[l] = "tail" /\ \A m \in Loggers : m # l => pc'[m] = pc[m]
    BY <1>3, <2>1 DEF TypeOK
  <2>4. LockInv'
    BY <1>1, <1>2, <2>3 DEF LockInv, Critical, Building
  <2>5. EntryInv' /\ SegmentInv'
    BY <1>1, <1>2, <1>4, <2>3 DEF EntryInv, SegmentInv, Critical
  <2>6. Chain(log)' /\ LinesInv' /\ AckInv' /\ (WindowInv => WindowInv')
    BY <1>1, <1>4, SameFiles
  <2> QED BY <2>2, <2>4, <2>5, <2>6 DEF ChainInv
<1>5. CASE \E k \in 1..Len(log) :
          /\ Oldest(k)
          /\ corrupt' = corrupt \cup Hashes(SubSeq(log, 1, k))
          /\ tampered' = tampered \ Hashes(SubSeq(log, 1, k))
          /\ log' = SubSeq(log, k + 1, Len(log))
          /\ windowed' = (windowed /\ log' # <<>>)
          /\ UNCHANGED pc
  <2> DEFINE gone(k) == Hashes(SubSeq(log, 1, k))
  <2>1. PICK k \in 1..Len(log) :
          /\ corrupt' = corrupt \cup gone(k) /\ tampered' = tampered \ gone(k)
          /\ log' = SubSeq(log, k + 1, Len(log))
          /\ windowed' = (windowed /\ log' # <<>>)
          /\ UNCHANGED pc
    BY <1>5
  <2> DEFINE g == gone(k)  t == SubSeq(log, k + 1, Len(log))
  <2>2. /\ t \in Seq(Line) /\ Chain(t) /\ Len(t) \in Nat /\ Len(t) = Len(log) - k
        /\ \A i \in 1..Len(t) : /\ k + i \in 1..Len(log) /\ t[i] = log[k + i]
                                /\ t[i].hash \notin g
        /\ acked \subseteq Hashes(t) \cup g \cup dropped \cup corrupt
        /\ g \subseteq Nat
        /\ t # <<>> => t[1].prev # 0
    BY RemovedFirst
  <2>3. /\ corrupt' = corrupt \cup g /\ tampered' = tampered \ g /\ log' = t
        /\ windowed' = (windowed /\ t # <<>>) /\ UNCHANGED pc
    BY <2>1
  <2> HIDE DEF g, t, gone
  <2>4. TypeOK'
    <3>1. {acked, dropped, corrupt, tampered}' \subseteq SUBSET Nat /\ windowed' \in BOOLEAN
      BY <1>1, <1>3, <2>2, <2>3 DEF TypeOK
    <3> QED BY <1>1, <1>3, <2>2, <2>3, <3>1 DEF TypeOK
  <2>5. Chain(log)'
    BY <2>2, <2>3 DEF Chain
  <2>6. LockInv'
    BY <1>1, <2>3 DEF ChainInv, LockInv
  <2>7. LinesInv'
    BY <1>1, <2>2, <2>3 DEF ChainInv, LinesInv
  <2>8. EntryInv'
    BY <1>1, <1>2, <2>3 DEF EntryInv, Critical
  <2>9. AckInv'
    BY <1>1, <2>2, <2>3 DEF ChainInv, AckInv, Hashes
  <2>10. SegmentInv'
    BY <1>1, <1>2, <2>2, <2>3 DEF ChainInv, SegmentInv, Critical
  <2>11. WindowInv'
    <3> SUFFICES ASSUME t # <<>>
                 PROVE  t[1].prev # 0 /\ (t[1].seg = cur => t[1].kind # "frag")
      BY <1>1, <2>3 DEF WindowInv
    <3>1. 1 \in 1..Len(t)
      BY <2>2, EmptySeq
    <3> QED BY <1>1, <2>2, <3>1 DEF ChainInv, SegmentInv
  <2> QED BY <2>4, <2>5, <2>6, <2>7, <2>8, <2>9, <2>10, <2>11 DEF ChainInv
<1> QED BY <1>4, <1>5 DEF QuarantineSegment

\* The steps that only move a logger along: Record, Acquire, RotateCall and Crash.
LEMMA ControlKeeps ==
  ASSUME ChainInv, NEW l \in Loggers, Record(l) \/ Acquire(l) \/ RotateCall(l) \/ Crash(l)
  PROVE  ChainInv' /\ (WindowInv => WindowInv')
<1>1. UNCHANGED <<log, cur, made, acked, dropped, corrupt, windowed, tampered>>
  BY DEF Record, Acquire, RotateCall, Crash
<1>2. Chain(log)' /\ LinesInv' /\ AckInv' /\ (WindowInv => WindowInv')
  BY <1>1, SameFiles
<1>3. TypeOK /\ LockInv /\ EntryInv /\ SegmentInv
  BY DEF ChainInv
<1>4. {"wait", "tail", "rotate", "stopped"} \subseteq PCs
  BY DEF PCs
<1>5. CASE Record(l)
  <2>1. pc[l] = "ready" /\ pc' = [pc EXCEPT ![l] = "wait"] /\ UNCHANGED <<lock, starting, mem, entry>>
    BY <1>5 DEF Record, At, Goto
  <2>2. pc'[l] = "wait" /\ \A m \in Loggers : m # l => pc'[m] = pc[m]
    BY <1>3, <2>1 DEF TypeOK
  <2>3. TypeOK'
    BY <1>1, <1>3, <1>4, <2>1 DEF TypeOK
  <2>4. LockInv'
    BY <1>3, <2>1, <2>2 DEF LockInv, Critical, Building
  <2>5. EntryInv'
    BY <1>1, <1>3, <2>1, <2>2 DEF EntryInv, LockInv, Building
  <2>6. SegmentInv'
    BY <1>1, <1>3, <2>1, <2>2 DEF SegmentInv
  <2> QED BY <1>2, <2>3, <2>4, <2>5, <2>6 DEF ChainInv
<1>6. ASSUME lock = None, lock' = l, NEW p \in {"tail", "rotate"}, pc' = [pc EXCEPT ![l] = p],
             UNCHANGED <<starting, mem, entry>>
      PROVE  ChainInv'
  <2>1. \A m \in Loggers : pc[m] \notin Critical /\ entry[m] = None
    BY <1>6, FreeLock
  <2>2. pc'[l] = p /\ \A m \in Loggers : m # l => pc'[m] = pc[m]
    BY <1>3, <1>6 DEF TypeOK
  <2>3. TypeOK'
    BY <1>1, <1>3, <1>4, <1>6 DEF TypeOK
  <2>4. LockInv'
    BY <1>6, <2>1, <2>2 DEF LockInv, Critical, Building
  <2>5. EntryInv' /\ SegmentInv'
    BY <1>1, <1>6, <2>1, <2>2 DEF EntryInv, SegmentInv, Critical
  <2> QED BY <1>2, <2>3, <2>4, <2>5 DEF ChainInv
<1>7. CASE Acquire(l)
  <2>1. lock = None /\ lock' = l /\ pc' = [pc EXCEPT ![l] = "tail"] /\ UNCHANGED <<starting, mem, entry>>
    BY <1>7 DEF Acquire, Goto
  <2> QED BY <1>2, <1>6, <2>1
<1>8. CASE RotateCall(l)
  <2>1. lock = None /\ lock' = l /\ pc' = [pc EXCEPT ![l] = "rotate"] /\ UNCHANGED <<starting, mem, entry>>
    BY <1>8 DEF RotateCall, Goto
  <2> QED BY <1>2, <1>6, <2>1
<1>9. CASE Crash(l)
  <2>1. /\ pc' = [pc EXCEPT ![l] = "stopped"] /\ lock' = UnlockedBy(l) /\ starting' = starting \ {l}
        /\ entry' = [entry EXCEPT ![l] = None]
        /\ mem' = [mem EXCEPT ![l] = [hash |-> 0, sequence |-> 0]]
    BY <1>9 DEF Crash, Goto
  <2>2. pc'[l] = "stopped" /\ \A m \in Loggers : m # l => pc'[m] = pc[m]
    BY <1>3, <2>1 DEF TypeOK
  <2>3. entry'[l] = None /\ \A m \in Loggers : m # l => entry'[m] = entry[m]
    BY <1>3, <2>1 DEF TypeOK
  <2>4. lock' = IF lock = l THEN None ELSE lock
    BY <2>1 DEF UnlockedBy, Holds
  <2>5. TypeOK'
    BY <1>1, <1>3, <1>4, <2>1, <2>4 DEF TypeOK
  <2>6. LockInv'
    BY <1>3, <2>2, <2>3, <2>4, ConfigAssumption DEF LockInv, Critical, Building
  <2>7. EntryInv'
    BY <1>1, <1>3, <2>2, <2>3 DEF EntryInv
  <2>8. SegmentInv'
    BY <1>1, <1>3, <2>2 DEF SegmentInv
  <2> QED BY <1>2, <2>5, <2>6, <2>7, <2>8 DEF ChainInv
<1> QED BY <1>2, <1>5, <1>7, <1>8, <1>9

\* A locked section has ended: nothing is under way.
LEMMA Idle ==
  ASSUME ChainInv, NEW l \in Loggers, lock = l, lock' = None,
         NEW p \in {"ready", "stopped"}, pc' = [pc EXCEPT ![l] = p],
         entry' \in {entry, [entry EXCEPT ![l] = None]}, entry'[l] = None
  PROVE  /\ LockInv' /\ EntryInv' /\ SegmentInv'
         /\ pc' \in [Loggers -> PCs] /\ entry' \in [Loggers -> Entry \cup {None}]
<1>1. /\ pc \in [Loggers -> PCs] /\ entry \in [Loggers -> Entry \cup {None}]
      /\ p \in PCs /\ p \notin Critical
  BY DEF ChainInv, TypeOK, PCs, Critical
<1>2. pc'[l] = p /\ \A m \in Loggers : m # l => pc'[m] = pc[m] /\ entry'[m] = entry[m]
  BY <1>1
<1>3. \A m \in Loggers : m # l => pc[m] \notin Critical /\ entry[m] = None
  BY OneHolder
<1>4. \A m \in Loggers : pc'[m] \notin Critical /\ entry'[m] = None
  BY <1>1, <1>2, <1>3
<1>5. LockInv'
  BY <1>4, ConfigAssumption DEF LockInv, Critical
<1>6. EntryInv' /\ SegmentInv'
  BY <1>4 DEF EntryInv, SegmentInv, Critical
<1> QED BY <1>1, <1>5, <1>6

\* Where Fail and Succeed lead.
LEMMA Ends ==
  ASSUME NEW l \in Loggers, Fail(l) \/ Succeed(l)
  PROVE  /\ \E p \in {"ready", "stopped"} : pc' = [pc EXCEPT ![l] = p]
         /\ lock' = None /\ (starting \subseteq Loggers => starting' \subseteq Loggers)
BY DEF Fail, Succeed, Goto

\* The holder goes on in its locked section.
LEMMA GoesOn ==
  ASSUME ChainInv, NEW l \in Loggers, lock = l, lock' = lock,
         NEW p \in Building, pc' = [pc EXCEPT ![l] = p],
         p \in {"append", "sync"} => entry'[l] # None,
         \A m \in Loggers : m # l => entry'[m] = entry[m]
  PROVE  /\ LockInv' /\ pc' \in [Loggers -> PCs] /\ pc'[l] = p
         /\ \A m \in Loggers : m # l => pc'[m] \notin Critical /\ entry'[m] = None
<1>1. pc \in [Loggers -> PCs] /\ p \in PCs /\ p \in Critical
  BY DEF ChainInv, TypeOK, PCs, Critical, Building
<1>2. pc'[l] = p /\ \A m \in Loggers : m # l => pc'[m] = pc[m]
  BY <1>1
<1>3. \A m \in Loggers : m # l => pc[m] \notin Critical /\ entry[m] = None
  BY OneHolder
<1>4. LockInv'
  BY <1>1, <1>2, <1>3 DEF LockInv, Critical
<1> QED BY <1>1, <1>2, <1>3, <1>4

\* ReadTail.
LEMMA ReadTailKeeps ==
  ASSUME ChainInv, NEW l \in Loggers, ReadTail(l)
  PROVE  ChainInv' /\ (WindowInv => WindowInv')
<1>1. /\ pc[l] = "tail" /\ lock = l
      /\ UNCHANGED <<log, cur, acked, dropped, corrupt, windowed, tampered>>
  BY DEF ReadTail, At, Holds
<1>2. entry[l] = None
  BY <1>1 DEF ChainInv, LockInv, Building
<1>3. TypeOK /\ Chain(log) /\ LinesInv /\ AckInv
  BY DEF ChainInv
<1>4. /\ log \in Seq(Line) /\ Len(log) \in Nat /\ (log = <<>> <=> Len(log) = 0)
      /\ \A i \in 1..Len(log) : log[i] \in Line
  BY LogFacts
<1> DEFINE tail == TailOf(l)
<1>5. /\ tail \in [hash : Nat, sequence : Nat]
      /\ log # <<>> => tail.hash = Last(log).hash /\ tail.sequence = Last(log).sequence
  <2>1. log # <<>> => Last(log) \in Line
    BY <1>4 DEF Last
  <2> QED BY <2>1 DEF TailOf, Line
<1> HIDE DEF tail
<1>6. CASE /\ Fail(l) /\ UNCHANGED <<entry, made>>
           /\ mem' \in {mem, [mem EXCEPT ![l] = tail]}
  <2>1. PICK p \in {"ready", "stopped"} : pc' = [pc EXCEPT ![l] = p]
    BY <1>6, Ends
  <2>2. lock' = None /\ starting' \subseteq Loggers
    BY <1>3, <1>6, Ends DEF TypeOK
  <2>3. LockInv' /\ EntryInv' /\ SegmentInv' /\ pc' \in [Loggers -> PCs]
    BY <1>1, <1>2, <1>6, <2>1, <2>2, Idle
  <2>4. Chain(log)' /\ LinesInv' /\ AckInv' /\ (WindowInv => WindowInv')
    BY <1>1, <1>6, SameFiles
  <2>5. mem' \in [Loggers -> [hash : Nat, sequence : Nat]]
    BY <1>3, <1>5, <1>6 DEF TypeOK
  <2>6. TypeOK'
    BY <1>1, <1>3, <1>6, <2>2, <2>3, <2>5 DEF TypeOK
  <2> QED BY <2>3, <2>4, <2>6 DEF ChainInv
<1>7. CASE /\ ~TailUnreadable /\ mem' = [mem EXCEPT ![l] = tail]
           /\ made' = made + 1
           /\ entry' = [entry EXCEPT ![l] = [hash |-> made + 1, prev |-> tail.hash,
                                             sequence |-> tail.sequence + 1]]
           /\ \E p \in {"rotate", "append"} : Goto(l, p)
           /\ UNCHANGED <<lock, starting>>
  <2> DEFINE e == [hash |-> made + 1, prev |-> tail.hash, sequence |-> tail.sequence + 1]
  <2>1. PICK p \in {"rotate", "append"} : pc' = [pc EXCEPT ![l] = p]
    BY <1>7 DEF Goto
  <2>2. made \in Nat /\ e \in Entry /\ e.hash = made + 1 /\ e.prev = tail.hash
        /\ e.sequence = tail.sequence + 1
    BY <1>3, <1>5 DEF TypeOK, Entry
  <2>3. entry' = [entry EXCEPT ![l] = e]
    BY <1>7
  <2> HIDE DEF e
  <2>4. entry'[l] = e /\ \A m \in Loggers : m # l => entry'[m] = entry[m]
    BY <1>3, <2>3 DEF TypeOK
  <2>5. e # None
    BY <2>2, ConfigAssumption
  <2>6. /\ LockInv' /\ pc' \in [Loggers -> PCs] /\ pc'[l] = p
        /\ \A m \in Loggers : m # l => pc'[m] \notin Critical /\ entry'[m] = None
    BY <1>1, <1>7, <2>1, <2>4, <2>5, GoesOn DEF Building
  <2>7. TypeOK'
    <3>1. mem' \in [Loggers -> [hash : Nat, sequence : Nat]]
      BY <1>3, <1>5, <1>7 DEF TypeOK
    <3>2. entry' \in [Loggers -> Entry \cup {None}]
      BY <1>3, <2>2, <2>3 DEF TypeOK
    <3> QED BY <1>1, <1>3, <1>7, <2>2, <2>6, <3>1, <3>2 DEF TypeOK
  <2>8. Chain(log)'
    BY <1>1, <1>3 DEF Chain
  <2>16. \A i \in 1..Len(log) : log[i].hash <= made /\ log[i].hash \in Nat
    BY <1>3, <1>4 DEF LinesInv, Line
  <2>17. \A i \in 1..Len(log) : log[i].hash <= made + 1 /\ log[i].hash < made + 1
    BY <2>2, <2>16
  <2>9. LinesInv'
    BY <1>1, <1>3, <1>7, <2>17 DEF LinesInv
  <2>10. AckInv'
    <3>1. \A h \in acked : h \in Nat /\ h <= made + 1
      BY <1>3, <2>2 DEF AckInv, TypeOK
    <3>2. \A i \in 1..Len(log) : log[i].kind = "frag" => log[i].hash \notin acked
      BY <1>3 DEF AckInv
    <3>3. acked \subseteq Hashes(log) \cup dropped \cup corrupt
      BY <1>3 DEF AckInv
    <3> QED BY <1>1, <1>7, <3>1, <3>2, <3>3 DEF AckInv, Hashes
  <2>11. Continues(log, e)
    <3>1. \A i \in 1..Len(log) : log[i].hash < e.hash
      BY <2>2, <2>17
    <3>2. log # <<>> => Last(log).kind # "frag"
      BY <1>7 DEF TailUnreadable
    <3> QED BY <1>5, <2>2, <3>1, <3>2 DEF Continues
  <2>12. e.hash \in 1..made' /\ e.hash \notin acked
    <3>1. \A h \in acked : h <= made /\ h \in Nat
      BY <1>3 DEF AckInv, TypeOK
    <3> QED BY <1>7, <2>2, <3>1
  <2>13. EntryInv'
    BY <1>1, <2>4, <2>6, <2>11, <2>12 DEF EntryInv, Critical, Continues, Last
  <2>14. SegmentInv'
    BY <2>6 DEF SegmentInv, Critical
  <2>15. WindowInv => WindowInv'
    BY <1>1 DEF WindowInv
  <2> QED BY <2>6, <2>7, <2>8, <2>9, <2>10, <2>13, <2>14, <2>15 DEF ChainInv
<1>8. \/ Fail(l) /\ UNCHANGED <<mem, entry, made>>
      \/ Fail(l) /\ UNCHANGED <<entry, made>> /\ mem' = [mem EXCEPT ![l] = tail]
      \/ /\ ~TailUnreadable /\ mem' = [mem EXCEPT ![l] = tail]
         /\ made' = made + 1
         /\ entry' = [entry EXCEPT ![l] = [hash |-> made + 1, prev |-> tail.hash,
                                           sequence |-> tail.sequence + 1]]
         /\ Goto(l, IF ActiveLength >= MaxLines THEN "rotate" ELSE "append")
         /\ UNCHANGED <<lock, starting>>
  BY DEF ReadTail, tail
<1> QED BY <1>6, <1>7, <1>8

\* RotateRename.
LEMMA RenameKeeps ==
  ASSUME ChainInv, NEW l \in Loggers, RotateRename(l)
  PROVE  ChainInv' /\ (WindowInv => WindowInv')
<1>1. /\ pc[l] = "rotate" /\ lock = l /\ cur' = cur + 1 /\ pc' = [pc EXCEPT ![l] = "retain"]
      /\ UNCHANGED <<log, lock, starting, mem, entry, made, acked, dropped, corrupt, windowed, tampered>>
  BY DEF RotateRename, At, Holds, Goto
<1>2. TypeOK /\ Chain(log) /\ LinesInv /\ AckInv /\ EntryInv
  BY DEF ChainInv
<1>3. /\ LockInv' /\ pc' \in [Loggers -> PCs] /\ pc'[l] = "retain"
      /\ \A m \in Loggers : m # l => pc'[m] \notin Critical /\ entry'[m] = None
  BY <1>1, GoesOn DEF Building
<1>4. cur \in Nat /\ Len(log) \in Nat /\ \A i \in 1..Len(log) : log[i] \in Line
  BY <1>2, LogFacts DEF TypeOK
<1>5. \A i \in 1..Len(log) : log[i].seg < cur + 1
  BY <1>2, <1>4 DEF LinesInv, Line
<1>6. TypeOK'
  BY <1>1, <1>2, <1>3 DEF TypeOK
<1>7. Chain(log)' /\ AckInv'
  BY <1>1, <1>2 DEF Chain, AckInv, Hashes
<1>8. LinesInv'
  BY <1>1, <1>2, <1>4, <1>5 DEF LinesInv, Line
<1>9. EntryInv'
  BY <1>1, <1>2, <1>3 DEF EntryInv, Critical
<1>10. SegmentInv'
  BY <1>1, <1>3, <1>5 DEF SegmentInv, Critical
<1>11. WindowInv => WindowInv'
  <2> SUFFICES ASSUME WindowInv, windowed
               PROVE  log # <<>> /\ log[1].prev # 0 /\ log[1].seg # cur + 1
    BY <1>1 DEF WindowInv
  <2>1. log # <<>> /\ log[1].prev # 0
    BY DEF WindowInv
  <2>2. 1 \in 1..Len(log)
    BY <2>1, <1>4, LogFacts
  <2>3. log[1].seg < cur + 1 /\ log[1].seg \in Nat
    BY <1>4, <1>5, <2>2 DEF Line
  <2> QED BY <1>4, <2>1, <2>3
<1> QED BY <1>3, <1>6, <1>7, <1>8, <1>9, <1>10, <1>11 DEF ChainInv

\* Retention keeps the newest of two segments or more.
LEMMA RetentionKeepsOne ==
  ASSUME ChainInv, BackupCount > 0, OverRetention, NEW k \in 1..Len(log), Oldest(k)
  PROVE  k < Len(log)
<1>1. Len(log) \in Nat /\ BackupCount \in Nat
  BY LogFacts, ConfigAssumption
<1> SUFFICES ASSUME k = Len(log)
             PROVE  FALSE
  BY <1>1
<1>2. Rotated \subseteq {log[1].seg}
  BY DEF Oldest, Rotated
<1>3. IsFiniteSet({log[1].seg}) /\ Cardinality({log[1].seg}) = 1
  BY FS_Singleton
<1>4. Cardinality(Rotated) <= 1 /\ Cardinality(Rotated) \in Nat
  BY <1>2, <1>3, FS_Subset, FS_CardinalityType
<1> QED BY <1>1, <1>4 DEF OverRetention

\* Retain.
LEMMA RetainKeeps ==
  ASSUME ChainInv, NEW l \in Loggers, Retain(l)
  PROVE  ChainInv' /\ (BackupCount > 0 => WindowInv')
<1>1. /\ pc[l] = "retain" /\ lock = l /\ OverRetention /\ windowed' = TRUE
      /\ UNCHANGED <<cur, lock, pc, starting, mem, entry, made, acked, corrupt>>
  BY DEF Retain, At, Holds
<1> DEFINE gone(k) == Hashes(SubSeq(log, 1, k))
<1>2. PICK k \in 1..Len(log) :
        /\ Oldest(k) /\ dropped' = dropped \cup gone(k) /\ tampered' = tampered \ gone(k)
        /\ log' = SubSeq(log, k + 1, Len(log))
  BY DEF Retain
<1> DEFINE g == gone(k)  t == SubSeq(log, k + 1, Len(log))
<1>3. /\ t \in Seq(Line) /\ Chain(t) /\ Len(t) \in Nat /\ Len(t) = Len(log) - k
      /\ \A i \in 1..Len(t) : /\ k + i \in 1..Len(log) /\ t[i] = log[k + i]
                              /\ t[i].hash \notin g
      /\ acked \subseteq Hashes(t) \cup g \cup dropped \cup corrupt
      /\ g \subseteq Nat
      /\ t # <<>> => t[1].prev # 0 /\ Last(t) = Last(log) /\ log # <<>>
  BY RemovedFirst
<1>4. dropped' = dropped \cup g /\ tampered' = tampered \ g /\ log' = t
  BY <1>2
<1> HIDE DEF g, t, gone
<1>5. TypeOK /\ LinesInv /\ AckInv /\ EntryInv /\ SegmentInv
  BY DEF ChainInv
<1>6. \A m \in Loggers : m # l => pc[m] \notin Critical /\ entry[m] = None
  BY <1>1, OneHolder
<1>7. TypeOK'
  <2>1. {acked, dropped, corrupt, tampered}' \subseteq SUBSET Nat /\ windowed' \in BOOLEAN
    BY <1>1, <1>3, <1>4, <1>5 DEF TypeOK
  <2> QED BY <1>1, <1>3, <1>4, <1>5, <2>1 DEF TypeOK
<1>8. Chain(log)' /\ LockInv'
  BY <1>1, <1>3, <1>4 DEF ChainInv, Chain, LockInv
<1>9. LinesInv'
  BY <1>1, <1>3, <1>4, <1>5 DEF LinesInv
<1>10. AckInv'
  BY <1>1, <1>3, <1>4, <1>5 DEF AckInv, Hashes
<1>11. EntryInv'
  <2>1. ASSUME entry[l] # None
        PROVE  Continues(t, entry[l])
    <3>1. Continues(log, entry[l])
      BY <1>1, <1>5, <2>1 DEF EntryInv
    <3> QED BY <1>3, <3>1 DEF Continues
  <2>2. entry[l] # None => entry[l].hash \in 1..made /\ entry[l].hash \notin acked
    BY <1>1, <1>5 DEF EntryInv
  <2> QED BY <1>1, <1>4, <1>6, <2>1, <2>2 DEF EntryInv, Critical, Continues, Last
<1>12. SegmentInv'
  BY <1>1, <1>3, <1>4, <1>5, <1>6 DEF SegmentInv, Critical
<1>13. ASSUME BackupCount > 0
       PROVE  WindowInv'
  <2>1. Len(t) > 0
    <3>1. k < Len(log)
      BY <1>1, <1>2, <1>13, RetentionKeepsOne
    <3>2. Len(log) \in Nat
      BY LogFacts
    <3> QED BY <1>3, <3>1, <3>2
  <2>2. t # <<>> /\ 1 \in 1..Len(t)
    BY <1>3, <2>1
  <2>3. t[1].seg < cur /\ t[1].seg \in Nat /\ cur \in Nat
    <3>1. t[1] \in Line
      BY <1>3, <2>2, ElementOfSeq
    <3> QED BY <1>1, <1>3, <1>5, <2>2, <3>1 DEF SegmentInv, Line, TypeOK
  <2> QED BY <1>1, <1>3, <1>4, <2>2, <2>3 DEF WindowInv
<1> QED BY <1>7, <1>8, <1>9, <1>10, <1>11, <1>12, <1>13 DEF ChainInv

\* RotateEnd.
LEMMA RotateEndKeeps ==
  ASSUME ChainInv, NEW l \in Loggers, RotateEnd(l)
  PROVE  ChainInv' /\ (WindowInv => WindowInv')
<1>1. /\ pc[l] = "retain" /\ lock = l
      /\ UNCHANGED <<log, cur, mem, entry, made, acked, dropped, corrupt, windowed, tampered>>
  BY DEF RotateEnd, At, Holds
<1>2. Chain(log)' /\ LinesInv' /\ AckInv' /\ (WindowInv => WindowInv')
  BY <1>1, SameFiles
<1>3. TypeOK /\ EntryInv
  BY DEF ChainInv
<1>4. CASE entry[l] = None /\ Succeed(l)
  <2>1. PICK p \in {"ready", "stopped"} : pc' = [pc EXCEPT ![l] = p]
    BY <1>4, Ends
  <2>2. lock' = None /\ starting' \subseteq Loggers
    BY <1>3, <1>4, Ends DEF TypeOK
  <2>3. LockInv' /\ EntryInv' /\ SegmentInv' /\ pc' \in [Loggers -> PCs]
    BY <1>1, <1>4, <2>1, <2>2, Idle
  <2>4. TypeOK'
    BY <1>1, <1>3, <2>2, <2>3 DEF TypeOK
  <2> QED BY <1>2, <2>3, <2>4 DEF ChainInv
<1>5. CASE entry[l] # None /\ Goto(l, "append") /\ UNCHANGED <<lock, starting>>
  <2>1. pc' = [pc EXCEPT ![l] = "append"]
    BY <1>5 DEF Goto
  <2>2. /\ LockInv' /\ pc' \in [Loggers -> PCs] /\ pc'[l] = "append"
        /\ \A m \in Loggers : m # l => pc'[m] \notin Critical /\ entry'[m] = None
    BY <1>1, <1>5, <2>1, GoesOn DEF Building
  <2>3. TypeOK'
    BY <1>1, <1>3, <1>5, <2>2 DEF TypeOK
  <2>4. EntryInv'
    BY <1>1, <1>3, <2>2 DEF EntryInv, Critical
  <2>5. SegmentInv'
    BY <2>2 DEF SegmentInv, Critical
  <2> QED BY <1>2, <2>2, <2>3, <2>4, <2>5 DEF ChainInv
<1> QED BY <1>4, <1>5 DEF RotateEnd

\* _append_bytes_locked adds a line: the last one always ends in a newline here.
LEMMA AppendedFacts ==
  ASSUME ChainInv, NEW l \in Loggers, pc[l] = "append", NEW kind \in {"ok", "frag"},
         NEW t, t = Appended(entry[l], kind)
  PROVE  /\ t \in Seq(Line) /\ Chain(t) /\ Len(t) = Len(log) + 1 /\ t # <<>>
         /\ \A i \in 1..Len(log) : t[i] = log[i]
         /\ \A i \in 1..Len(t) : i \in 1..Len(log) \/ i = Len(t)
         /\ t[Len(t)].seg = cur /\ t[Len(t)].hash = entry[l].hash /\ t[Len(t)].kind = kind
         /\ entry[l].hash \in 1..made /\ entry[l].hash \notin acked
         /\ acked \subseteq Hashes(t) \cup dropped \cup corrupt
<1> DEFINE e == entry[l]
           line == [seg |-> cur, hash |-> e.hash, prev |-> e.prev, sequence |-> e.sequence,
                    kind |-> kind]
<1>1. /\ log \in Seq(Line) /\ Len(log) \in Nat /\ (log = <<>> <=> Len(log) = 0) /\ Chain(log)
  BY LogFacts DEF ChainInv
<1>2. e # None /\ e \in Entry /\ cur \in Nat
  BY DEF ChainInv, LockInv, TypeOK
<1>3. e.hash \in 1..made /\ e.hash \notin acked /\ Continues(log, e)
  BY <1>2 DEF ChainInv, EntryInv
<1>4. e.hash > 0 /\ made \in Nat
  BY <1>3 DEF ChainInv, TypeOK
<1>5. log # <<>> => Last(log).kind # "nonl"
  <2>1. log # <<>> => Len(log) \in 1..Len(log)
    BY <1>1
  <2> QED BY <1>1, <2>1 DEF Chain, Last
<1>6. t = Append(log, line)
  BY <1>5 DEF Appended
<1>7. /\ line \in Line /\ line.hash = e.hash /\ line.prev = e.prev
      /\ line.sequence = e.sequence /\ line.kind = kind /\ line.seg = cur
  BY <1>2 DEF Line, Entry, Kinds
<1> HIDE DEF line, e
<1>8. /\ t \in Seq(Line) /\ Chain(t) /\ Len(t) = Len(log) + 1
      /\ \A i \in 1..Len(log) : t[i] = log[i]
      /\ t[Len(t)] = line
  <2>1. Continues(log, line)
    BY <1>3, <1>7 DEF Continues
  <2>2. Chain(t)
    BY <1>1, <1>4, <1>6, <1>7, <2>1, WithEntry
  <2>3. /\ t \in Seq(Line) /\ Len(t) = Len(log) + 1 /\ \A i \in 1..Len(log) : t[i] = log[i]
        /\ t[Len(log) + 1] = line
    BY <1>1, <1>6, <1>7, AppendProperties
  <2> QED BY <2>2, <2>3
<1>9. t # <<>> /\ \A i \in 1..Len(t) : i \in 1..Len(log) \/ i = Len(t)
  BY <1>1, <1>8
<1>10. \A i \in 1..Len(log) : i \in 1..Len(t)
  BY <1>1, <1>8
<1>11. acked \subseteq Hashes(t) \cup dropped \cup corrupt
  <2>1. Hashes(log) \subseteq Hashes(t)
    BY <1>8, <1>10 DEF Hashes
  <2> QED BY <2>1 DEF ChainInv, AckInv
<1> QED BY <1>3, <1>7, <1>8, <1>9, <1>11 DEF e

\* AppendBytes.
LEMMA AppendKeeps ==
  ASSUME ChainInv, "nonl" \notin Partial, NEW l \in Loggers, AppendBytes(l)
  PROVE  ChainInv' /\ (WindowInv => WindowInv')
<1>1. /\ pc[l] = "append" /\ lock = l
      /\ UNCHANGED <<cur, mem, made, acked, dropped, corrupt, windowed, tampered>>
  BY DEF AppendBytes, At, Holds
<1>2. TypeOK /\ Chain(log) /\ LinesInv /\ AckInv /\ LockInv
  BY DEF ChainInv
<1>3. /\ log \in Seq(Line) /\ Len(log) \in Nat /\ (log = <<>> <=> Len(log) = 0)
  BY LogFacts
<1>4. made \in Nat /\ cur \in Nat /\ entry[l] # None /\ entry[l] \in Entry
  BY <1>1, <1>2 DEF TypeOK, LockInv
<1>5. ASSUME NEW kind \in {"ok", "frag"}, log' = Appended(entry[l], kind)
      PROVE  /\ log' \in Seq(Line) /\ Chain(log)' /\ LinesInv' /\ AckInv' /\ (WindowInv => WindowInv')
             /\ log' # <<>> /\ Last(log').hash = entry[l].hash /\ Last(log').kind = kind
             /\ entry[l].hash <= made
    <2> DEFINE t == log'
    <2>1. /\ t \in Seq(Line) /\ Chain(t) /\ Len(t) = Len(log) + 1 /\ t # <<>>
          /\ \A i \in 1..Len(log) : t[i] = log[i]
          /\ \A i \in 1..Len(t) : i \in 1..Len(log) \/ i = Len(t)
          /\ t[Len(t)].seg = cur /\ t[Len(t)].hash = entry[l].hash /\ t[Len(t)].kind = kind
          /\ entry[l].hash \in 1..made /\ entry[l].hash \notin acked
          /\ acked \subseteq Hashes(t) \cup dropped \cup corrupt
      BY <1>1, <1>5, AppendedFacts
    <2>2. entry[l].hash <= made /\ cur <= cur
      BY <1>4, <2>1
    <2>3. Chain(log)'
      BY <2>1 DEF Chain
    <2>4. LinesInv'
      BY <1>1, <1>2, <2>1, <2>2 DEF LinesInv
    <2>5. AckInv'
      <3>1. \A i \in 1..Len(t) : t[i].kind = "frag" => t[i].hash \notin acked
        <4> SUFFICES ASSUME NEW i \in 1..Len(t), t[i].kind = "frag"
                     PROVE  t[i].hash \notin acked
          OBVIOUS
        <4>1. CASE i \in 1..Len(log)
          BY <1>2, <2>1, <4>1 DEF AckInv
        <4>2. CASE i = Len(t)
          BY <2>1, <4>2
        <4> QED BY <2>1, <4>1, <4>2
      <3>2. \A h \in acked : h <= made
        BY <1>2 DEF AckInv
      <3>3. acked \subseteq Hashes(t) \cup dropped \cup corrupt
        BY <2>1
      <3> QED BY <1>1, <3>1, <3>2, <3>3 DEF AckInv, Hashes
    <2>6. WindowInv => WindowInv'
      <3> SUFFICES ASSUME WindowInv, windowed
                   PROVE  t # <<>> /\ t[1].prev # 0 /\ (t[1].seg = cur => t[1].kind # "frag")
        BY <1>1 DEF WindowInv
      <3>1. log # <<>> /\ 1 \in 1..Len(log)
        BY <1>3 DEF WindowInv
      <3> QED BY <2>1, <3>1 DEF WindowInv
    <2> QED BY <2>1, <2>2, <2>3, <2>4, <2>5, <2>6 DEF Last
<1>6. CASE log' = Appended(entry[l], "ok") /\ Goto(l, "sync") /\ UNCHANGED <<lock, starting, entry>>
  <2>1. pc' = [pc EXCEPT ![l] = "sync"]
    BY <1>6 DEF Goto
  <2>2. /\ LockInv' /\ pc' \in [Loggers -> PCs] /\ pc'[l] = "sync"
        /\ \A m \in Loggers : m # l => pc'[m] \notin Critical /\ entry'[m] = None
    BY <1>1, <1>4, <1>6, <2>1, GoesOn DEF Building
  <2>3. /\ log' \in Seq(Line) /\ Chain(log)' /\ LinesInv' /\ AckInv' /\ (WindowInv => WindowInv')
        /\ log' # <<>> /\ Last(log').hash = entry[l].hash /\ Last(log').kind = "ok"
        /\ entry[l].hash <= made
    BY <1>5, <1>6
  <2>4. TypeOK'
    BY <1>1, <1>2, <1>6, <2>2, <2>3 DEF TypeOK
  <2>5. EntryInv'
    BY <1>1, <1>6, <2>2, <2>3 DEF EntryInv, Critical, Last
  <2>6. SegmentInv'
    BY <2>2 DEF SegmentInv, Critical
  <2> QED BY <2>2, <2>3, <2>4, <2>5, <2>6 DEF ChainInv
<1>7. CASE /\ (\E kind \in Partial : log' = Appended(entry[l], kind)) \/ UNCHANGED log
           /\ Fail(l) /\ entry' = [entry EXCEPT ![l] = None]
  <2>1. PICK p \in {"ready", "stopped"} : pc' = [pc EXCEPT ![l] = p]
    BY <1>7, Ends
  <2>2. lock' = None /\ starting' \subseteq Loggers /\ entry'[l] = None
    BY <1>2, <1>7, Ends DEF TypeOK
  <2>3. /\ LockInv' /\ EntryInv' /\ SegmentInv' /\ pc' \in [Loggers -> PCs]
        /\ entry' \in [Loggers -> Entry \cup {None}]
    BY <1>1, <1>7, <2>1, <2>2, Idle
  <2>4. log' \in Seq(Line) /\ Chain(log)' /\ LinesInv' /\ AckInv' /\ (WindowInv => WindowInv')
    <3>1. CASE UNCHANGED log
      BY <1>1, <1>2, <3>1, SameFiles DEF TypeOK
    <3>2. CASE \E kind \in Partial : log' = Appended(entry[l], kind)
      <4>1. PICK kind \in Partial : log' = Appended(entry[l], kind)
        BY <3>2
      <4>2. kind \in {"ok", "frag"}
        BY ConfigAssumption
      <4> QED BY <1>5, <4>1, <4>2
    <3> QED BY <1>7, <3>1, <3>2
  <2>5. TypeOK'
    BY <1>1, <1>2, <2>2, <2>3, <2>4 DEF TypeOK
  <2> QED BY <2>3, <2>4, <2>5 DEF ChainInv
<1> QED BY <1>6, <1>7 DEF AppendBytes

\* Sync.
LEMMA SyncKeeps ==
  ASSUME ChainInv, NEW l \in Loggers, Sync(l)
  PROVE  ChainInv' /\ (WindowInv => WindowInv')
<1>1. /\ pc[l] = "sync" /\ lock = l /\ entry' = [entry EXCEPT ![l] = None]
      /\ UNCHANGED <<log, cur, made, dropped, corrupt, windowed, tampered>>
      /\ Fail(l) \/ Succeed(l)
      /\ \/ /\ acked' = acked \cup {entry[l].hash}
            /\ mem' = [mem EXCEPT ![l] = [hash |-> entry[l].hash, sequence |-> entry[l].sequence]]
         \/ UNCHANGED <<acked, mem>>
  BY DEF Sync, At, Holds
<1>2. TypeOK /\ Chain(log) /\ LinesInv /\ AckInv /\ LockInv /\ EntryInv
  BY DEF ChainInv
<1>3. entry[l] # None /\ entry[l] \in Entry
  BY <1>1, <1>2 DEF TypeOK, LockInv
<1>4. PICK p \in {"ready", "stopped"} : pc' = [pc EXCEPT ![l] = p]
  BY <1>1, Ends
<1>5. lock' = None /\ starting' \subseteq Loggers /\ entry'[l] = None
  BY <1>1, <1>2, Ends DEF TypeOK
<1>6. /\ LockInv' /\ EntryInv' /\ SegmentInv' /\ pc' \in [Loggers -> PCs]
      /\ entry' \in [Loggers -> Entry \cup {None}]
  BY <1>1, <1>4, <1>5, Idle
<1>7. mem' \in [Loggers -> [hash : Nat, sequence : Nat]] /\ acked' \subseteq Nat
  <2>1. /\ entry[l].hash \in Nat
        /\ [hash |-> entry[l].hash, sequence |-> entry[l].sequence] \in [hash : Nat, sequence : Nat]
    BY <1>3 DEF Entry
  <2>2. mem \in [Loggers -> [hash : Nat, sequence : Nat]] /\ acked \subseteq Nat
    BY <1>2 DEF TypeOK
  <2> QED BY <1>1, <2>1, <2>2
<1>8. TypeOK'
  <2>1. {acked, dropped, corrupt, tampered}' \subseteq SUBSET Nat
    BY <1>1, <1>2, <1>7 DEF TypeOK
  <2> QED BY <1>1, <1>2, <1>5, <1>6, <1>7, <2>1 DEF TypeOK
<1>9. Chain(log)' /\ LinesInv' /\ (WindowInv => WindowInv')
  BY <1>1, <1>2 DEF Chain, LinesInv, WindowInv
<1>10. AckInv'
  <2>1. /\ Len(log) \in 1..Len(log) /\ log[Len(log)].hash = entry[l].hash
        /\ log[Len(log)].kind # "frag" /\ entry[l].hash <= made
    <3>1. log # <<>> /\ Last(log).hash = entry[l].hash /\ Last(log).kind # "frag" /\ entry[l].hash <= made
      BY <1>1, <1>2 DEF EntryInv
    <3>2. Len(log) \in 1..Len(log)
      BY <3>1, LogFacts
    <3> QED BY <3>1, <3>2 DEF Last
  <2>2. \A i \in 1..Len(log) : log[i].kind # "frag"
    BY <1>2, <2>1 DEF Chain
  <2>3. entry[l].hash \in Hashes(log)
    BY <2>1 DEF Hashes
  <2>4. \A h \in acked' : h <= made
    BY <1>1, <1>2, <2>1 DEF AckInv
  <2>5. acked' \subseteq Hashes(log) \cup dropped \cup corrupt
    BY <1>1, <1>2, <2>3 DEF AckInv
  <2> QED BY <1>1, <2>2, <2>4, <2>5 DEF AckInv, Hashes
<1> QED BY <1>6, <1>8, <1>9, <1>10 DEF ChainInv

\* Tamper.
LEMMA TamperKeeps ==
  ASSUME ChainInv, NEW n \in 1..Len(log), Tamper(n)
  PROVE  ChainInv' /\ (WindowInv => WindowInv')
<1> DEFINE t == log'
<1>1. /\ tampered = {} /\ log[n].kind = "ok" /\ t = [log EXCEPT ![n].kind = "bad"]
      /\ tampered' = {log[n].hash}
      /\ UNCHANGED <<cur, lock, pc, starting, mem, entry, made, acked, dropped, corrupt, windowed>>
  BY DEF Tamper
<1>2. TypeOK /\ Chain(log) /\ LinesInv /\ AckInv /\ LockInv /\ EntryInv /\ SegmentInv
  BY DEF ChainInv
<1>3. /\ log \in Seq(Line) /\ Len(log) \in Nat /\ (log = <<>> <=> Len(log) = 0)
      /\ \A i \in 1..Len(log) : log[i] \in Line
  BY LogFacts
<1>4. /\ t \in Seq(Line) /\ Chain(t) /\ Len(t) = Len(log)
      /\ \A i \in 1..Len(log) : /\ t[i].seg = log[i].seg /\ t[i].hash = log[i].hash
                                /\ t[i].prev = log[i].prev /\ t[i].sequence = log[i].sequence
                                /\ t[i].kind = IF i = n THEN "bad" ELSE log[i].kind
  <2> DEFINE e == [log[n] EXCEPT !.kind = "bad"]
  <2>1. e \in Line /\ e.seg = log[n].seg /\ e.hash = log[n].hash /\ e.prev = log[n].prev
        /\ e.sequence = log[n].sequence /\ e.kind = "bad"
    BY <1>3 DEF Line, Kinds
  <2>2. t = [log EXCEPT ![n] = e]
    BY <1>1
  <2> HIDE DEF e, t
  <2>3. t \in Seq(Line) /\ Len(t) = Len(log) /\ \A i \in 1..Len(log) : t[i] = IF i = n THEN e ELSE log[i]
    BY <1>3, <2>1, <2>2, ExceptSeq
  <2>4. \A i \in 1..Len(log) : /\ t[i].seg = log[i].seg /\ t[i].hash = log[i].hash
                                /\ t[i].prev = log[i].prev /\ t[i].sequence = log[i].sequence
                                /\ t[i].kind = IF i = n THEN "bad" ELSE log[i].kind
    BY <2>1, <2>3
  <2>5. Chain(t)
    BY <1>2, <1>3, <2>3, <2>4, WithChange
  <2> QED BY <2>3, <2>4, <2>5
<1>5. t # <<>> /\ log # <<>> /\ 1 \in 1..Len(log) /\ Len(log) \in 1..Len(log)
  BY <1>3, <1>4
<1> HIDE DEF t
<1>6. \A i \in 1..Len(log) : t[i].kind = "frag" <=> log[i].kind = "frag"
  BY <1>1, <1>4
<1>7. TypeOK'
  <2>1. tampered' \subseteq Nat
    BY <1>1, <1>3 DEF Line
  <2>2. {acked, dropped, corrupt, tampered}' \subseteq SUBSET Nat
    BY <1>1, <1>2, <2>1 DEF TypeOK
  <2> QED BY <1>1, <1>2, <1>4, <2>2 DEF TypeOK, t
<1>8. Chain(log)'
  BY <1>4 DEF Chain, t
<1>9. LockInv'
  BY <1>1, <1>2 DEF LockInv
<1>10. LinesInv'
  <2>1. \A i \in 1..Len(log) : t[i].seg <= cur /\ t[i].hash <= made
    BY <1>2, <1>4 DEF LinesInv
  <2>2. \A i \in 1..Len(log) : t[i].kind = "bad" => t[i].hash \in tampered'
    BY <1>1, <1>2, <1>4 DEF LinesInv
  <2> QED BY <1>1, <1>4, <2>1, <2>2 DEF LinesInv, t
<1>11. Hashes(t) = Hashes(log)
  BY <1>4 DEF Hashes
<1>12. AckInv'
  <2>1. \A i \in 1..Len(log) : t[i].kind = "frag" => t[i].hash \notin acked
    BY <1>2, <1>4, <1>6 DEF AckInv
  <2>2. Hashes(log)' = Hashes(t)
    BY DEF Hashes, t
  <2>3. acked \subseteq Hashes(t) \cup dropped \cup corrupt /\ \A h \in acked : h <= made
    BY <1>2, <1>11 DEF AckInv
  <2>4. \A i \in 1..Len(log') : log'[i].kind = "frag" => log'[i].hash \notin acked
    BY <1>4, <2>1 DEF t
  <2> QED BY <1>1, <2>2, <2>3, <2>4 DEF AckInv
<1>13. /\ Last(t).hash = Last(log).hash /\ Last(t).sequence = Last(log).sequence
       /\ Last(t).kind # "frag" <=> Last(log).kind # "frag"
  BY <1>4, <1>5, <1>6 DEF Last
<1>14. \A e : Continues(log, e) => Continues(t, e)
  BY <1>4, <1>5, <1>13 DEF Continues
<1>15. EntryInv'
  <2>1. \A m \in Loggers : entry[m] # None /\ pc[m] # "sync" =>
          entry[m].hash \in 1..made /\ entry[m].hash \notin acked /\ Continues(t, entry[m])
    BY <1>2, <1>14 DEF EntryInv
  <2>2. \A m \in Loggers : pc[m] = "sync" =>
          /\ t # <<>> /\ Last(t).hash = entry[m].hash /\ Last(t).kind # "frag"
          /\ entry[m].hash <= made
    BY <1>2, <1>5, <1>13 DEF EntryInv
  <2> QED BY <1>1, <2>1, <2>2 DEF EntryInv, Continues, Last, t
<1>16. SegmentInv'
  BY <1>1, <1>2, <1>4, <1>6 DEF SegmentInv, t
<1>17. WindowInv => WindowInv'
  <2> SUFFICES ASSUME WindowInv, windowed
               PROVE  t # <<>> /\ t[1].prev # 0 /\ (t[1].seg = cur => t[1].kind # "frag")
    BY <1>1 DEF WindowInv, t
  <2> QED BY <1>4, <1>5, <1>6 DEF WindowInv
<1> QED BY <1>7, <1>8, <1>9, <1>10, <1>12, <1>15, <1>16, <1>17 DEF ChainInv
-----------------------------------------------------------------------------
(* The theorems.                                                           *)

\* An empty directory and no running logger.
LEMMA InitChain ==
  ASSUME Init
  PROVE  ChainInv /\ WindowInv
<1>1. log = <<>> /\ Len(log) = 0 /\ \A i \in 1..Len(log) : FALSE
  BY DEF Init
<1>2. \A l \in Loggers : pc[l] = "stopped" /\ entry[l] = None
  BY DEF Init
<1>3. TypeOK
  <2>1. log \in Seq(Line)
    BY <1>1
  <2> QED BY <2>1 DEF Init, TypeOK, PCs
<1>4. Chain(log) /\ LinesInv
  BY <1>1 DEF Chain, LinesInv
<1>5. LockInv
  BY <1>2, ConfigAssumption DEF Init, LockInv, Critical
<1>6. EntryInv /\ SegmentInv
  BY <1>2 DEF EntryInv, SegmentInv
<1>7. AckInv
  BY <1>1 DEF Init, AckInv
<1>8. WindowInv
  BY DEF Init, WindowInv
<1> QED BY <1>3, <1>4, <1>5, <1>6, <1>7, <1>8 DEF ChainInv

\* Every step.
LEMMA NextChain ==
  ASSUME ChainInv, "nonl" \notin Partial, [Next]_vars
  PROVE  ChainInv' /\ (BackupCount > 0 /\ WindowInv => WindowInv')
<1>1. ASSUME NEW l \in Loggers, Start(l) \/ Record(l) \/ RotateCall(l) \/ Proceed(l) \/ Crash(l)
      PROVE  ChainInv' /\ (BackupCount > 0 /\ WindowInv => WindowInv')
  BY <1>1, StartKeeps, QuarantineKeeps, ControlKeeps, ReadTailKeeps, RenameKeeps, RetainKeeps,
     RotateEndKeeps, AppendKeeps, SyncKeeps DEF Proceed
<1>2. ASSUME NEW i \in 1..Len(log), Tamper(i)
      PROVE  ChainInv' /\ (WindowInv => WindowInv')
  BY <1>2, TamperKeeps
<1>3. CASE UNCHANGED vars
  <2>1. UNCHANGED <<log, cur, lock, pc, starting, mem, entry, made, acked, dropped, corrupt, windowed, tampered>>
    BY <1>3 DEF vars
  <2>2. Chain(log)' /\ LinesInv' /\ AckInv' /\ (WindowInv => WindowInv')
    BY <2>1, SameFiles
  <2>3. TypeOK' /\ LockInv' /\ SegmentInv'
    BY <2>1 DEF ChainInv, TypeOK, LockInv, SegmentInv
  <2>4. EntryInv'
    BY <2>1 DEF ChainInv, EntryInv, Continues, Last
  <2> QED BY <2>2, <2>3, <2>4 DEF ChainInv
<1> QED BY <1>1, <1>2, <1>3 DEF Next

\* The hash chain continues across rotated files, whichever process wrote the
\* records and whatever failed or crashed: while nobody else changes the files,
\* every retained line is complete and chained to the one before, except for a
\* last one cut short, and this for every number of processes and every policy.
\* The hypothesis leaves out the cut exactly before the newline.
THEOREM ChainContinues == "nonl" \notin Partial => (Spec => []ChainIntact)
<1> SUFFICES ASSUME "nonl" \notin Partial
             PROVE  Spec => []ChainIntact
  OBVIOUS
<1>1. Init => ChainInv
  BY InitChain
<1>2. ChainInv /\ [Next]_vars => ChainInv'
  BY NextChain
<1>3. ChainInv => ChainIntact
  <2> SUFFICES ASSUME ChainInv, tampered = {}, NEW i \in 1..Len(log)
               PROVE  /\ log[i].kind = "ok" \/ (i = Len(log) /\ Unterminated(log[i]))
                      /\ i > 1 => /\ log[i].prev = log[i - 1].hash
                                  /\ log[i].sequence = log[i - 1].sequence + 1
    BY DEF ChainIntact
  <2>1. log[i].kind # "bad"
    BY DEF ChainInv, LinesInv
  <2> QED BY <2>1 DEF ChainInv, Chain, Unterminated
<1> QED BY <1>1, <1>2, <1>3, PTL DEF Spec

\* No repair, rotation, crash or concurrent writer loses a record whose hash
\* record() returned, and once retention has removed one, verification reports a
\* retained window.  With backup_count 0 retention may remove every segment, and
\* an empty directory looks like a new one: the second part needs a backup.
THEOREM AcknowledgedKept == "nonl" \notin Partial /\ BackupCount > 0 => (Spec => []AckedAccounted)
<1> SUFFICES ASSUME "nonl" \notin Partial, BackupCount > 0
             PROVE  Spec => []AckedAccounted
  OBVIOUS
<1>1. Init => ChainInv /\ WindowInv
  BY InitChain
<1>2. (ChainInv /\ WindowInv) /\ [Next]_vars => (ChainInv /\ WindowInv)'
  BY NextChain
<1>3. ChainInv /\ WindowInv => AckedAccounted
  BY DEF AckedAccounted, ChainInv, AckInv, WindowInv, Coverage
<1> QED BY <1>1, <1>2, <1>3, PTL DEF Spec
=============================================================================
