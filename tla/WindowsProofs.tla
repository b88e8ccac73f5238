--------------------------- MODULE WindowsProofs ---------------------------
(***************************************************************************)
(* Proofs about WindowsMonitor, for every set of roots, names and workers, *)
(* every number of places and whatever the file system does.               *)
(***************************************************************************)
EXTENDS WindowsMonitor, FiniteSetTheorems, SequenceTheorems, TLAPS

\* The analyses that still hold their place.
Holding == {"open", "read1", "read2", "check", "release"}

Reading == {"read1", "read2", "check"}

\* The event e is about a file under the root r, or reports a loss.
About(e, r) == e.type # "OVERFLOW" => e.path \in Names /\ RootOf[e.path] = r

\* Notifications of names under the root r.
OfRoot(s, r) == \A i \in 1..Len(s) : RootOf[s[i].name] = r

OwnNames(w, r) ==
  /\ OfRoot(w.buffer, r)
  /\ w.old # None => RootOf[w.old.name] = r
  /\ \A i \in 1..Len(w.out) : About(w.out[i], r)

\* A watcher deals with names of its own root.
LocalInv == \A r \in Roots : OfRoot(notes[r], r) /\ OwnNames(watcher[r], r)

\* The event i has a place that the watcher of r has not handed over yet.
Claimed(i, r) ==
  events[i].status = "acquired" /\ events[i].path \in Names /\ RootOf[events[i].path] = r

\* The analysis of worker w and the record of its event.
Assigned(w) ==
  job[w] # None =>
    /\ job[w].ev \in 1..Len(events)
    /\ job[w].pc \in Holding => events[job[w].ev].status = "queued"
    /\ job[w].pc = "append" => events[job[w].ev].status = "released"
    /\ job[w].pc \in {"release", "append"} => job[w].status \in Verdicts

\* Every event with a place is in exactly one hand: a watcher's, the queue's or a
\* worker's.
HandInv ==
  /\ \A i \in 1..Len(events) : events[i].status \in Held => events[i].path \in Names
  /\ \A r \in Roots : watcher[r].pc = "submit" => \E i \in 1..Len(events) : Claimed(i, r)
  /\ \A i \in 1..Len(queue) : queue[i] \in 1..Len(events) /\ events[queue[i]].status = "queued"
  /\ \A i, j \in 1..Len(queue) : i # j => queue[i] # queue[j]
  /\ \A w \in Workers : Assigned(w)
  /\ \A w \in Workers : job[w] # None => \A i \in 1..Len(queue) : queue[i] # job[w].ev
  /\ \A v, w \in Workers : v # w /\ job[v] # None /\ job[w] # None => job[v].ev # job[w].ev

\* The common invariant.
Base == TypeOK /\ LocalInv /\ HandInv

\* If the file is what it was at the first lstat, all that was read is of that version.
Steady(j) ==
  /\ j.pc \in Reading =>
       j.before \in 1..ops /\ (files[j.path] = j.before => j.seen \subseteq {j.before})
  /\ j.pc \in {"read2", "check"} => j.seen # {}
  /\ j.pc \in {"release", "append"} /\ j.status = "ANALYZED" => \E v \in 1..ops : j.seen = {v}

VersionInv ==
  /\ \A n \in Names : files[n] <= ops
  /\ \A w \in Workers : job[w] # None => Steady(job[w])
  /\ \A i \in 1..Len(events) :
       events[i].status = "ANALYZED" => \E v \in 1..ops : events[i].seen = {v}

\* The events that have a place.
HeldEvents == {i \in 1..Len(events) : events[i].status \in Held}

\* Places taken and places free make max_pending_events.
PlaceInv == Cardinality(HeldEvents) + pending = MaxPending

\* The notifications of a root that are still to be interpreted.
Flow(r) == watcher[r].buffer \o notes[r]

Alive(r) == watcher[r].pc \in {"work", "reading", "submit"}

SameKey(n, m) == n.op = m.op /\ n.name = m.name

\* What was taken: each notification once; an old name that waits is one of them.
TakenInv ==
  /\ \A n \in taken : n.op \in 1..ops
  /\ \A n, m \in taken : SameKey(n, m) => n = m
  /\ \A r \in Roots : watcher[r].old # None =>
       watcher[r].old \in taken /\ watcher[r].old.action = "RENAMED_OLD"

\* What is to be interpreted was not taken before and comes once.
Fresh(r) ==
  \A i \in 1..Len(Flow(r)) :
    /\ Flow(r)[i].op \in 1..ops
    /\ \A n \in taken : ~SameKey(n, Flow(r)[i])
    /\ \A j \in 1..Len(Flow(r)) : i # j => ~SameKey(Flow(r)[i], Flow(r)[j])

\* An operation is reported to one root.
Apart(r, s) ==
  \A i \in 1..Len(Flow(r)) : \A j \in 1..Len(Flow(s)) : Flow(r)[i].op # Flow(s)[j].op

\* The old name of a rename comes just before its new name, or waits for it.
Paired(r) ==
  \A i \in 1..Len(Flow(r)) :
    /\ Flow(r)[i].action = "RENAMED_OLD" =>
         \A n \in taken : n.action = "RENAMED_NEW" => n.op # Flow(r)[i].op
    /\ Flow(r)[i].action = "RENAMED_NEW" =>
         /\ \A j \in 1..Len(Flow(r)) :
              Flow(r)[j].action = "RENAMED_OLD" /\ Flow(r)[j].op = Flow(r)[i].op => j = i - 1
         /\ \A n \in taken :
              Alive(r) /\ n.action = "RENAMED_OLD" /\ n.op = Flow(r)[i].op =>
                i = 1 /\ watcher[r].old = n

FlowInv ==
  /\ TakenInv
  /\ \A r \in Roots : Fresh(r) /\ Paired(r)
  /\ \A r, s \in Roots : r # s => Apart(r, s)

\* Where an event comes from when the notifications T were taken, and that a rename
\* has its own old name.
Sourced(e, T) ==
  /\ e.old \in T \cup {None}
  /\ e.op # 0 => \E n \in T : e.op = n.op /\ e.path = n.name
  /\ e.type = "FILE_RENAMED" =>
       /\ \E n \in T : n.action = "RENAMED_NEW" /\ n.op = e.op
       /\ \A n \in T : n.action = "RENAMED_OLD" /\ n.op = e.op => e.old = n

AllSourced(s, T) == \A i \in 1..Len(s) : Sourced(s[i], T)

SourceInv ==
  /\ AllSourced(events, taken)
  /\ \A r \in Roots : AllSourced(watcher[r].out, taken)

\* The k-th of these messages tells of the notification n.
TellsAt(s, n, k) == k \in 1..Len(s) /\ Mentions(s[k], n)

\* Where the notification n is told: by event i, by message k of the watcher of r, or
\* as the old name that waits there.
ByEvent(n, i) == Mentions(events[i], n)

ByOut(n, r, k) == TellsAt(watcher[r].out, n, k)

ByOld(n, r) == watcher[r].old = n

\* In exactly one of these places.
ToldOnce(n) ==
  \/ /\ \E i \in 1..Len(events) : \A j \in 1..Len(events) : ByEvent(n, j) <=> j = i
     /\ \A r \in Roots : ~ByOld(n, r) /\ \A k \in 1..2 : ~ByOut(n, r, k)
  \/ /\ \A j \in 1..Len(events) : ~ByEvent(n, j)
     /\ \E r \in Roots : \E k \in 1..2 : \A q \in Roots : \A i \in 1..2 :
          ByOut(n, q, i) <=> q = r /\ i = k
     /\ \A r \in Roots : ~ByOld(n, r)
  \/ /\ \A j \in 1..Len(events) : ~ByEvent(n, j)
     /\ \A r \in Roots : \A k \in 1..2 : ~ByOut(n, r, k)
     /\ \E r \in Roots : \A q \in Roots : ByOld(n, q) <=> q = r

\* How far the monitor has been started.
PhaseInv ==
  /\ caller = "new" => /\ taken = {} /\ ~running
                       /\ \A r \in Roots : notes[r] = <<>> /\ watcher[r] = Idle
  /\ caller = "up" => running /\ callback
  /\ \A r \in Roots :
       /\ Len(watcher[r].out) <= 2
       /\ watcher[r].pc = "reading" => watcher[r].out = <<>> /\ watcher[r].buffer = <<>>
       /\ watcher[r].pc = "last" =>
            \A k \in 1..Len(watcher[r].out) : watcher[r].out[k].type = "FILE_DELETED"

\* Until stop(), what was taken is told once.
TellInv == caller \in {"new", "up"} => \A n \in taken : ToldOnce(n)

-----------------------------------------------------------------------------
(* The common invariant.  What the steps leave alone comes first.          *)

\* The hands are where they were.
LEMMA HandFrame ==
  ASSUME HandInv, events' = events, queue' = queue, job' = job,
         \A r \in Roots : watcher'[r].pc = "submit" => watcher[r].pc = "submit"
  PROVE  HandInv'
BY DEF HandInv, Claimed, Assigned

\* A step of the file system.
LEMMA FilesFrame ==
  ASSUME Base, files' \in [Names -> Nat], ops' \in Nat,
         notes' \in [Roots -> Seq(Notification)], \A r \in Roots : OfRoot(notes'[r], r),
         flooded' \in [Roots -> BOOLEAN],
         UNCHANGED <<watcher, events, pending, execVars, ctlVars, guarded, taken>>
  PROVE  Base'
<1>1. HandInv'
  BY HandFrame DEF Base, execVars
<1>2. TypeOK'
  BY DEF Base, TypeOK, execVars, ctlVars
<1>3. LocalInv'
  BY DEF Base, LocalInv
<1> QED BY <1>1, <1>2, <1>3 DEF Base

\* A step of the watcher of r that hands nothing over.
LEMMA WatcherFrame ==
  ASSUME Base, NEW r \in Roots, NEW w \in Watcher, Step(r, w), OwnNames(w, r),
         w.pc = "submit" => watcher[r].pc = "submit",
         notes' \in [Roots -> Seq(Notification)], \A q \in Roots : OfRoot(notes'[q], q),
         flooded' \in [Roots -> BOOLEAN], taken' \subseteq Notification,
         UNCHANGED <<files, ops, events, pending, execVars, ctlVars, guarded>>
  PROVE  Base'
<1>1. /\ watcher' \in [Roots -> Watcher]
      /\ \A q \in Roots : watcher'[q] = IF q = r THEN w ELSE watcher[q]
  BY DEF Base, TypeOK, Step
<1>2. HandInv'
  BY <1>1, HandFrame DEF Base, execVars
<1>3. TypeOK'
  BY <1>1 DEF Base, TypeOK, execVars, ctlVars
<1>4. LocalInv'
  <2>1. \A q \in Roots : OwnNames(watcher'[q], q)
    BY <1>1 DEF Base, LocalInv
  <2> QED BY <2>1 DEF LocalInv, OwnNames, OfRoot, About
<1> QED BY <1>2, <1>3, <1>4 DEF Base

\* A step of the thread that starts and stops.
LEMMA ControlFrame ==
  ASSUME Base, {running', callback', active'} \subseteq BOOLEAN, pool' \in {"open", "shut"},
         caller' \in {"new", "up", "degraded", "joining", "joined", "draining", "stopped"},
         UNCHANGED <<fsVars, faults, flooded, watcher, events, pending, queue, job, guarded,
                     taken>>
  PROVE  Base'
<1>1. HandInv'
  BY HandFrame DEF Base
<1>2. TypeOK' /\ LocalInv'
  BY DEF Base, TypeOK, fsVars, LocalInv, OwnNames, OfRoot, About
<1> QED BY <1>1, <1>2 DEF Base

-----------------------------------------------------------------------------
(* The file system.                                                        *)

\* What the kernel appends is of the root.
LEMMA NotifyKeeps ==
  ASSUME TypeOK, LocalInv, NEW r \in Roots, NEW new \in Seq(Notification), OfRoot(new, r),
         Notify(r, new)
  PROVE  /\ notes' \in [Roots -> Seq(Notification)]
         /\ \A q \in Roots : OfRoot(notes'[q], q)
<1>1. notes[r] \in Seq(Notification) /\ OfRoot(notes[r], r)
  BY DEF TypeOK, LocalInv
<1>2. notes[r] \o new \in Seq(Notification) /\ OfRoot(notes[r] \o new, r)
  <2>1. /\ notes[r] \o new \in Seq(Notification)
        /\ Len(notes[r] \o new) = Len(notes[r]) + Len(new)
        /\ \A i \in 1..Len(notes[r]) + Len(new) :
             (notes[r] \o new)[i] = IF i <= Len(notes[r]) THEN notes[r][i] ELSE new[i - Len(notes[r])]
    BY <1>1, ConcatProperties
  <2> QED BY <1>1, <2>1, LenProperties DEF OfRoot
<1> DEFINE s == IF running /\ ~flooded[r] THEN notes[r] \o new ELSE notes[r]
<1>3. s \in Seq(Notification) /\ OfRoot(s, r)
  BY <1>1, <1>2
<1>4. notes' = [notes EXCEPT ![r] = s]
  BY DEF Notify
<1> HIDE DEF s
<1> QED BY <1>3, <1>4 DEF TypeOK, LocalInv

\* A change of a file.
LEMMA ChangeBase ==
  ASSUME Base, NEW n \in Names, NEW new \in Seq(Notification), OfRoot(new, RootOf[n]),
         Notify(RootOf[n], new), files' \in [Names -> Nat], ops' = ops + 1,
         UNCHANGED <<faults, flooded, watcher, events, pending, execVars, ctlVars, guarded, taken>>
  PROVE  Base'
<1>1. RootOf[n] \in Roots
  BY WatchAssumption
<1>2. /\ notes' \in [Roots -> Seq(Notification)]
      /\ \A q \in Roots : OfRoot(notes'[q], q)
  BY <1>1, NotifyKeeps DEF Base
<1> QED BY <1>2, FilesFrame DEF Base, TypeOK

\* One notification or two.
LEMMA OneNote ==
  ASSUME NEW a \in Notification
  PROVE  <<a>> \in Seq(Notification) /\ Len(<<a>>) = 1 /\ <<a>>[1] = a
OBVIOUS

\* A sequence of two notifications (the names of a rename).
LEMMA TwoNotes ==
  ASSUME NEW a \in Notification, NEW b \in Notification
  PROVE  <<a, b>> \in Seq(Notification) /\ Len(<<a, b>>) = 2 /\ <<a, b>>[1] = a /\ <<a, b>>[2] = b
OBVIOUS

\* A write of a file keeps Base.
LEMMA WriteBase == ASSUME Base, NEW n \in Names, Write(n) PROVE Base'
<1> DEFINE a == Note(IF files[n] = 0 THEN "ADDED" ELSE "MODIFIED", n)
<1>1. a \in Notification /\ a.name = n
  BY DEF Base, TypeOK, Note, Notification
<1>2. Notify(RootOf[n], <<a>>) /\ ops' = ops + 1 /\ files' = [files EXCEPT ![n] = ops + 1]
      /\ UNCHANGED <<faults, flooded, watcher, events, pending, execVars, ctlVars, guarded, taken>>
  BY DEF Write
<1> HIDE DEF a
<1>3. OfRoot(<<a>>, RootOf[n])
  BY <1>1, OneNote DEF OfRoot
<1>4. files' \in [Names -> Nat]
  BY <1>2 DEF Base, TypeOK
<1> QED BY <1>1, <1>2, <1>3, <1>4, OneNote, ChangeBase

\* The removal of a file keeps Base.
LEMMA RemoveBase == ASSUME Base, NEW n \in Names, Remove(n) PROVE Base'
<1> DEFINE a == Note("REMOVED", n)
<1>1. a \in Notification /\ a.name = n
  BY DEF Base, TypeOK, Note, Notification
<1>2. Notify(RootOf[n], <<a>>) /\ ops' = ops + 1 /\ files' = [files EXCEPT ![n] = 0]
      /\ UNCHANGED <<faults, flooded, watcher, events, pending, execVars, ctlVars, guarded, taken>>
  BY DEF Remove
<1> HIDE DEF a
<1>3. OfRoot(<<a>>, RootOf[n])
  BY <1>1, OneNote DEF OfRoot
<1>4. files' \in [Names -> Nat]
  BY <1>2 DEF Base, TypeOK
<1> QED BY <1>1, <1>2, <1>3, <1>4, OneNote, ChangeBase

\* A rename, within a root or between two, keeps Base.
LEMMA RenameBase == ASSUME Base, NEW n \in Names, NEW m \in Names, Rename(n, m) PROVE Base'
<1> DEFINE a == Note("RENAMED_OLD", n)
           b == Note("RENAMED_NEW", m)
<1>1. a \in Notification /\ a.name = n /\ b \in Notification /\ b.name = m
  BY DEF Base, TypeOK, Note, Notification
<1>2. Notify(RootOf[n], <<a, b>>) /\ ops' = ops + 1 /\ RootOf[m] = RootOf[n]
      /\ files' = [files EXCEPT ![n] = 0, ![m] = ops + 1]
      /\ UNCHANGED <<faults, flooded, watcher, events, pending, execVars, ctlVars, guarded, taken>>
  BY DEF Rename
<1> HIDE DEF a, b
<1>3. OfRoot(<<a, b>>, RootOf[n])
  BY <1>1, <1>2, TwoNotes DEF OfRoot
<1>4. files' \in [Names -> Nat]
  <2>1. files \in [Names -> Nat] /\ ops + 1 \in Nat
    BY DEF Base, TypeOK
  <2>2. [files EXCEPT ![n] = 0] \in [Names -> Nat]
    BY <2>1
  <2> QED BY <1>2, <2>1, <2>2
<1> QED BY <1>1, <1>2, <1>3, <1>4, TwoNotes, ChangeBase

\* An overflow of a root keeps Base.
LEMMA FloodBase == ASSUME Base, NEW r \in Roots, Flood(r) PROVE Base'
<1>1. <<>> \in Seq(Notification) /\ OfRoot(<<>>, r)
  BY DEF OfRoot
<1>2. notes' = [notes EXCEPT ![r] = <<>>] /\ flooded' = [flooded EXCEPT ![r] = TRUE]
      /\ UNCHANGED <<files, ops, watcher, events, pending, execVars, ctlVars, guarded, taken>>
  BY DEF Flood
<1> QED BY <1>1, <1>2, FilesFrame DEF Base, TypeOK, LocalInv

-----------------------------------------------------------------------------
(* The watchers up to the hand-over.                                       *)

\* The record of a watcher, field by field.
LEMMA WatcherFields ==
  ASSUME Base, NEW r \in Roots
  PROVE  /\ watcher[r] \in Watcher
         /\ watcher[r].buffer \in Seq(Notification) /\ watcher[r].out \in Seq(Sendable)
         /\ watcher[r].old \in Notification \cup {None}
         /\ watcher[r].pc \in {"off", "work", "reading", "submit", "last", "ended"}
         /\ OwnNames(watcher[r], r)
         /\ notes[r] \in Seq(Notification) /\ OfRoot(notes[r], r)
BY DEF Base, TypeOK, LocalInv, Watcher

\* The watcher outside its loop, or before it.
LEMMA IdleWatcher ==
  ASSUME NEW pc \in {"off", "work", "ended"}
  PROVE  /\ [Idle EXCEPT !.pc = pc] \in Watcher /\ \A r \in Roots : OwnNames([Idle EXCEPT !.pc = pc], r)
         /\ [Idle EXCEPT !.pc = pc].pc = pc
<1>1. <<>> \in Seq(Notification) /\ <<>> \in Seq(Sendable)
  OBVIOUS
<1>2. [Idle EXCEPT !.pc = pc] = [pc |-> pc, buffer |-> <<>>, old |-> None, out |-> <<>>]
  BY DEF Idle
<1> DEFINE v == [Idle EXCEPT !.pc = pc]
<1>3. /\ v.pc = pc /\ v.buffer = <<>> /\ v.old = None /\ v.out = <<>>
      /\ v = [pc |-> v.pc, buffer |-> v.buffer, old |-> v.old, out |-> v.out]
  BY <1>2
<1> HIDE DEF v
<1>4. v \in Watcher
  BY <1>1, <1>3 DEF Watcher
<1>5. \A r \in Roots : OwnNames(v, r)
  BY <1>3 DEF OwnNames, OfRoot
<1> QED BY <1>3, <1>4, <1>5 DEF v

\* The end of a sequence of notifications.
LEMMA Suffix ==
  ASSUME NEW s \in Seq(Notification), NEW r, OfRoot(s, r), NEW k \in 0..Len(s)
  PROVE  /\ SubSeq(s, k + 1, Len(s)) \in Seq(Notification)
         /\ Len(SubSeq(s, k + 1, Len(s))) = Len(s) - k
         /\ \A i \in 1..Len(s) - k : SubSeq(s, k + 1, Len(s))[i] = s[k + i]
         /\ OfRoot(SubSeq(s, k + 1, Len(s)), r)
<1>1. Len(s) \in Nat /\ k \in Nat /\ k <= Len(s)
  BY LenProperties
<1>2. /\ SubSeq(s, k + 1, Len(s)) \in Seq(Notification)
      /\ Len(SubSeq(s, k + 1, Len(s))) = Len(s) - k
      /\ \A i \in 1..Len(s) - k : SubSeq(s, k + 1, Len(s))[i] = s[k + i]
  BY <1>1
<1>3. \A i \in 1..Len(s) - k : k + i \in 1..Len(s)
  BY <1>1
<1> QED BY <1>2, <1>3 DEF OfRoot

\* The beginning of one.
LEMMA Prefix ==
  ASSUME NEW s \in Seq(Notification), NEW r, OfRoot(s, r), NEW k \in 1..Len(s)
  PROVE  /\ SubSeq(s, 1, k) \in Seq(Notification) /\ Len(SubSeq(s, 1, k)) = k
         /\ \A i \in 1..k : SubSeq(s, 1, k)[i] = s[i]
         /\ OfRoot(SubSeq(s, 1, k), r)
<1>1. Len(s) \in Nat /\ k \in Nat /\ k <= Len(s)
  BY LenProperties
<1>2. /\ SubSeq(s, 1, k) \in Seq(Notification) /\ Len(SubSeq(s, 1, k)) = k
      /\ \A i \in 1..k : SubSeq(s, 1, k)[i] = s[i]
  BY <1>1
<1> QED BY <1>1, <1>2 DEF OfRoot

\* Without its first element.
LEMMA TailOf ==
  ASSUME NEW S, NEW s \in Seq(S), s # <<>>
  PROVE  /\ Head(s) \in S /\ Head(s) = s[1]
         /\ Tail(s) \in Seq(S) /\ Len(Tail(s)) = Len(s) - 1
         /\ Len(s) \in Nat \ {0}
         /\ \A i \in 1..Len(s) - 1 : Tail(s)[i] = s[i + 1]
BY EmptySeq

\* A deletion reported for an old name, and a loss.
LEMMA Messages ==
  ASSUME NEW r \in Roots
  PROVE  /\ Overflow(r) \in Sendable /\ About(Overflow(r), r)
         /\ \A n \in Notification : RootOf[n.name] = r =>
               Deleted(n) \in Sendable /\ About(Deleted(n), r)
BY DEF Overflow, Deleted, Event, Sendable, Types, About, Notification

\* One message to send.
LEMMA OneMessage ==
  ASSUME NEW e \in Sendable
  PROVE  <<e>> \in Seq(Sendable) /\ Len(<<e>>) = 1 /\ <<e>>[1] = e
OBVIOUS

\* The top of a watcher's loop keeps Base.
LEMMA LoopBase == ASSUME Base, NEW r \in Roots, Loop(r) PROVE Base'
<1> DEFINE w == watcher[r]
           v == IF running THEN [w EXCEPT !.pc = "reading"]
                ELSE IF w.old = None THEN [w EXCEPT !.pc = "ended"]
                ELSE [w EXCEPT !.pc = "last", !.old = None, !.out = <<Deleted(w.old)>>]
<1>1. /\ Step(r, v)
      /\ UNCHANGED <<fsVars, faults, flooded, events, pending, execVars, ctlVars, guarded, taken>>
  BY DEF Loop
<1>2. v \in Watcher /\ OwnNames(v, r) /\ v.pc # "submit"
  <2>1. CASE running
    BY <2>1, WatcherFields DEF Watcher, OwnNames
  <2>2. CASE ~running /\ w.old = None
    BY <2>2, WatcherFields DEF Watcher, OwnNames
  <2>3. CASE ~running /\ w.old # None
    <3>1. w.old \in Notification /\ RootOf[w.old.name] = r
      BY <2>3, WatcherFields DEF OwnNames
    <3>2. Deleted(w.old) \in Sendable /\ About(Deleted(w.old), r)
      BY <3>1, Messages
    <3>3. v = [pc |-> "last", buffer |-> w.buffer, old |-> None, out |-> <<Deleted(w.old)>>]
      BY <2>3, WatcherFields DEF Watcher
    <3>4. /\ <<Deleted(w.old)>> \in Seq(Sendable) /\ Len(<<Deleted(w.old)>>) = 1
          /\ <<Deleted(w.old)>>[1] = Deleted(w.old)
      BY <3>2, OneMessage
    <3>5. v \in Watcher
      BY <3>3, <3>4, WatcherFields DEF Watcher
    <3> QED BY <3>2, <3>3, <3>4, <3>5, WatcherFields DEF OwnNames
  <2> QED BY <2>1, <2>2, <2>3
<1> HIDE DEF v
<1> QED BY <1>1, <1>2, WatcherFrame DEF Base, TypeOK, LocalInv, fsVars

\* A read that ended, with the watcher as it would go on.
LEMMA ResumeBase ==
  ASSUME Base, NEW r \in Roots, NEW w \in Watcher, OwnNames(w, r), Resume(r, w),
         notes' \in [Roots -> Seq(Notification)], \A q \in Roots : OfRoot(notes'[q], q),
         flooded' \in [Roots -> BOOLEAN],
         UNCHANGED <<files, ops, events, pending, execVars, ctlVars, guarded, taken>>
  PROVE  Base'
<1> DEFINE v == IF running THEN [w EXCEPT !.pc = "work"] ELSE [Idle EXCEPT !.pc = "ended"]
<1>1. Step(r, v)
  BY DEF Resume
<1>2. v \in Watcher /\ OwnNames(v, r) /\ v.pc # "submit"
  BY IdleWatcher DEF Watcher, OwnNames
<1> HIDE DEF v
<1> QED BY <1>1, <1>2, WatcherFrame DEF Base, TypeOK

\* A read that returns notifications keeps Base.
LEMMA ReadChangesBase == ASSUME Base, NEW r \in Roots, ReadChanges(r) PROVE Base'
<1>1. PICK k \in 1..Len(notes[r]) :
          /\ Resume(r, [watcher[r] EXCEPT !.buffer = SubSeq(notes[r], 1, k)])
          /\ notes' = [notes EXCEPT ![r] = SubSeq(@, k + 1, Len(@))]
  BY DEF ReadChanges
<1>2. UNCHANGED <<files, ops, faults, flooded, events, pending, execVars, ctlVars, guarded, taken>>
  BY DEF ReadChanges
<1> DEFINE w == [watcher[r] EXCEPT !.buffer = SubSeq(notes[r], 1, k)]
           s == SubSeq(notes[r], k + 1, Len(notes[r]))
<1>3. w \in Watcher /\ OwnNames(w, r)
  BY WatcherFields, Prefix DEF Watcher, OwnNames
<1>4. s \in Seq(Notification) /\ OfRoot(s, r)
  <2>1. k \in 0..Len(notes[r])
    BY WatcherFields, LenProperties
  <2> QED BY <2>1, WatcherFields, Suffix
<1>5. Resume(r, w) /\ notes' = [notes EXCEPT ![r] = s]
  BY <1>1
<1> HIDE DEF w, s
<1>6. notes' \in [Roots -> Seq(Notification)] /\ \A q \in Roots : OfRoot(notes'[q], q)
  BY <1>4, <1>5 DEF Base, TypeOK, LocalInv
<1> QED BY <1>2, <1>3, <1>5, <1>6, ResumeBase DEF Base, TypeOK

\* The watcher that reports a loss.
LEMMA LossReported ==
  ASSUME Base, NEW r \in Roots
  PROVE  /\ [watcher[r] EXCEPT !.out = <<Overflow(r)>>] \in Watcher
         /\ OwnNames([watcher[r] EXCEPT !.out = <<Overflow(r)>>], r)
<1> DEFINE e == Overflow(r)
           out == <<e>>
<1>1. e \in Sendable /\ About(e, r)
  BY Messages
<1>2. out \in Seq(Sendable) /\ Len(out) = 1 /\ out[1] = e
  BY <1>1, OneMessage
<1> HIDE DEF e, out
<1> DEFINE w == watcher[r]
           v == [w EXCEPT !.out = out]
<1>3. v = [pc |-> w.pc, buffer |-> w.buffer, old |-> w.old, out |-> out]
  BY WatcherFields DEF Watcher
<1> HIDE DEF v
<1>4. v \in Watcher
  BY <1>2, <1>3, WatcherFields DEF Watcher
<1>5. v.buffer = w.buffer /\ v.old = w.old /\ v.out = out
  BY <1>3
<1>6. OwnNames(w, r)
  BY WatcherFields
<1> HIDE DEF w
<1>7. \A i \in 1..Len(out) : About(out[i], r)
  <2>1. \A i \in 1..Len(out) : i = 1
    BY <1>2
  <2> QED BY <1>1, <1>2, <2>1
<1>8. OwnNames(v, r)
  BY <1>5, <1>6, <1>7 DEF OwnNames
<1> QED BY <1>4, <1>8 DEF v, out, e, w

\* A read that returns none, after an overflow, keeps Base.
LEMMA ReadEmptyBase == ASSUME Base, NEW r \in Roots, ReadEmpty(r) PROVE Base'
<1>1. /\ Resume(r, [watcher[r] EXCEPT !.out = <<Overflow(r)>>])
      /\ flooded' = [flooded EXCEPT ![r] = FALSE]
      /\ UNCHANGED <<fsVars, faults, events, pending, execVars, ctlVars, guarded, taken>>
  BY DEF ReadEmpty
<1> QED BY <1>1, LossReported, ResumeBase DEF Base, TypeOK, LocalInv, fsVars

\* A failed read keeps Base.
LEMMA ReadFailsBase == ASSUME Base, NEW r \in Roots, ReadFails(r) PROVE Base'
<1>1. PICK k \in 0..Len(notes[r]) : notes' = [notes EXCEPT ![r] = SubSeq(@, k + 1, Len(@))]
  BY DEF ReadFails
<1>2. /\ Resume(r, [watcher[r] EXCEPT !.out = <<Overflow(r)>>])
      /\ UNCHANGED <<files, ops, flooded, events, pending, execVars, ctlVars, guarded, taken>>
  BY DEF ReadFails
<1>3. notes' \in [Roots -> Seq(Notification)] /\ \A q \in Roots : OfRoot(notes'[q], q)
  BY <1>1, Suffix, WatcherFields DEF Base, TypeOK, LocalInv
<1> QED BY <1>2, <1>3, LossReported, ResumeBase DEF Base, TypeOK

\* What one notification makes of the watcher.
LEMMA InterpretedMade ==
  ASSUME NEW r \in Roots, NEW w \in Watcher, OwnNames(w, r), NEW n \in Notification,
         RootOf[n.name] = r
  PROVE  /\ Interpreted(w, n) \in Watcher /\ OwnNames(Interpreted(w, n), r)
         /\ Interpreted(w, n).pc = w.pc /\ Interpreted(w, n).buffer = w.buffer
<1> DEFINE v == Interpreted(w, n)
           stale == IF w.old = None THEN <<>> ELSE <<Deleted(w.old)>>
           e == Event("FILE_RENAMED", n.name, n.op, w.old)
           f == Event(EventType[n.action], n.name, n.op, None)
<1>1. /\ w.pc \in {"off", "work", "reading", "submit", "last", "ended"}
      /\ w.buffer \in Seq(Notification) /\ OfRoot(w.buffer, r)
      /\ w.old \in Notification \cup {None}
      /\ w = [pc |-> w.pc, buffer |-> w.buffer, old |-> w.old, out |-> w.out]
  BY DEF Watcher, OwnNames
<1>2. stale \in Seq(Sendable) /\ \A i \in 1..Len(stale) : About(stale[i], r)
  <2>1. CASE w.old = None
    BY <2>1
  <2>2. CASE w.old # None
    <3>1. Deleted(w.old) \in Sendable /\ About(Deleted(w.old), r)
      BY <1>1, <2>2, Messages DEF OwnNames
    <3> QED BY <2>2, <3>1, OneMessage
  <2> QED BY <2>1, <2>2
<1>3. n.action \in {"ADDED", "MODIFIED", "REMOVED", "RENAMED_OLD", "RENAMED_NEW"}
      /\ n.name \in Names /\ n.op \in Nat
  BY DEF Notification
<1>4. e \in Sendable /\ About(e, r)
  BY <1>1, <1>3 DEF Event, Sendable, Types, About
<1>5. <<e>> \in Seq(Sendable) /\ \A i \in 1..Len(<<e>>) : About(<<e>>[i], r)
  BY <1>4, OneMessage
<1>6. n.action \notin {"RENAMED_OLD", "RENAMED_NEW"} => f \in Sendable /\ About(f, r)
  BY <1>3 DEF Event, EventType, Sendable, Types, About
<1>7. CASE n.action = "RENAMED_OLD"
  <2>1. v = [pc |-> w.pc, buffer |-> w.buffer, old |-> n, out |-> stale]
    BY <1>1, <1>7 DEF Interpreted
  <2> HIDE DEF v, stale
  <2> QED BY <1>1, <1>2, <2>1 DEF Watcher, OwnNames, v
<1>8. CASE n.action = "RENAMED_NEW"
  <2>1. v = [pc |-> w.pc, buffer |-> w.buffer, old |-> None, out |-> <<e>>]
    BY <1>1, <1>8 DEF Interpreted
  <2> HIDE DEF v, e
  <2> QED BY <1>1, <1>5, <2>1 DEF Watcher, OwnNames, v
<1>9. CASE n.action \notin {"RENAMED_OLD", "RENAMED_NEW"}
  <2>1. v = [pc |-> w.pc, buffer |-> w.buffer, old |-> None, out |-> Append(stale, f)]
    BY <1>1, <1>9 DEF Interpreted
  <2> HIDE DEF v, f, stale
  <2>2. /\ Append(stale, f) \in Seq(Sendable) /\ Len(Append(stale, f)) = Len(stale) + 1
        /\ \A i \in 1..Len(stale) : Append(stale, f)[i] = stale[i]
        /\ Append(stale, f)[Len(stale) + 1] = f
    BY <1>2, <1>6, <1>9, AppendProperties
  <2>3. \A i \in 1..Len(Append(stale, f)) : About(Append(stale, f)[i], r)
    BY <1>2, <1>6, <1>9, <2>2, LenProperties
  <2> QED BY <1>1, <2>1, <2>2, <2>3 DEF Watcher, OwnNames, v
<1> QED BY <1>7, <1>8, <1>9

\* A watcher whose buffer is one shorter.
LEMMA Shorter ==
  ASSUME NEW r \in Roots, NEW w \in Watcher, OwnNames(w, r), w.buffer # <<>>
  PROVE  /\ Head(w.buffer) \in Notification /\ RootOf[Head(w.buffer).name] = r
         /\ \A v \in Watcher : OwnNames(v, r) =>
              /\ [v EXCEPT !.buffer = Tail(w.buffer)] \in Watcher
              /\ OwnNames([v EXCEPT !.buffer = Tail(w.buffer)], r)
<1>1. w.buffer \in Seq(Notification) /\ OfRoot(w.buffer, r)
  BY DEF Watcher, OwnNames
<1> DEFINE t == Tail(w.buffer)
<1>2. t \in Seq(Notification) /\ OfRoot(t, r)
  BY <1>1, TailOf DEF OfRoot
<1>3. Head(w.buffer) \in Notification /\ RootOf[Head(w.buffer).name] = r
  BY <1>1, TailOf DEF OfRoot
<1> HIDE DEF t
<1>4. \A v \in Watcher : OwnNames(v, r) =>
         [v EXCEPT !.buffer = t] \in Watcher /\ OwnNames([v EXCEPT !.buffer = t], r)
  BY <1>2 DEF Watcher, OwnNames
<1> QED BY <1>3, <1>4 DEF t

\* The interpretation of one notification keeps Base.
LEMMA InterpretBase == ASSUME Base, NEW r \in Roots, Interpret(r) PROVE Base'
<1> DEFINE w == watcher[r]
           n == Head(w.buffer)
           u == Interpreted(w, n)
           v == [u EXCEPT !.buffer = Tail(w.buffer)]
<1>1. /\ w.pc = "work" /\ w.buffer # <<>>
      /\ Step(r, v) /\ taken' = taken \cup {n}
      /\ UNCHANGED <<fsVars, faults, flooded, events, pending, execVars, ctlVars, guarded>>
  BY DEF Interpret
<1>2. n \in Notification /\ RootOf[n.name] = r
  BY <1>1, WatcherFields, Shorter
<1>3. u \in Watcher /\ OwnNames(u, r) /\ u.pc = "work"
  BY <1>1, <1>2, WatcherFields, InterpretedMade
<1> HIDE DEF u
<1>4. v \in Watcher /\ OwnNames(v, r)
  BY <1>1, <1>3, WatcherFields, Shorter
<1>5. v.pc = "work"
  BY <1>3 DEF Watcher
<1> HIDE DEF v
<1> QED BY <1>1, <1>2, <1>4, <1>5, WatcherFrame DEF Base, TypeOK, LocalInv, fsVars

\* A notification the watcher cannot decode keeps Base.
LEMMA InterpretInvalidBase == ASSUME Base, NEW r \in Roots, InterpretInvalid(r) PROVE Base'
<1> DEFINE w == watcher[r]
           u == [w EXCEPT !.out = <<Overflow(r)>>]
           v == [u EXCEPT !.buffer = Tail(w.buffer)]
<1>1. /\ w.pc = "work" /\ w.buffer # <<>>
      /\ Step(r, [w EXCEPT !.out = <<Overflow(r)>>, !.buffer = Tail(w.buffer)])
      /\ UNCHANGED <<fsVars, flooded, events, pending, execVars, ctlVars, guarded, taken>>
  BY DEF InterpretInvalid
<1>2. u \in Watcher /\ OwnNames(u, r) /\ u.pc = "work"
  BY <1>1, LossReported, WatcherFields DEF Watcher
<1>3. v \in Watcher /\ OwnNames(v, r)
  BY <1>1, <1>2, WatcherFields, Shorter
<1>4. v.pc = "work" /\ Step(r, v)
  BY <1>1, <1>2 DEF Watcher
<1> HIDE DEF v
<1> QED BY <1>1, <1>3, <1>4, WatcherFrame DEF Base, TypeOK, LocalInv, fsVars

\* Sending, field by field.
LEMMA SentFields ==
  ASSUME NEW w \in Watcher
  PROVE  Sent(w) = [pc |-> IF w.pc = "last" THEN "ended" ELSE w.pc, buffer |-> w.buffer,
                    old |-> w.old, out |-> Tail(w.out)]
<1> DEFINE t == Tail(w.out)
           u == [w EXCEPT !.out = t]
           p == IF w.pc = "last" THEN "ended" ELSE w.pc
<1>1. u = [pc |-> w.pc, buffer |-> w.buffer, old |-> w.old, out |-> t]
  <2> HIDE DEF t
  <2> QED BY DEF Watcher
<1>2. Sent(w) = [u EXCEPT !.pc = IF u.pc = "last" THEN "ended" ELSE u.pc]
  BY DEF Sent
<1>3. u.pc = w.pc
  BY <1>1
<1> HIDE DEF u, t
<1>4. [u EXCEPT !.pc = p] = [pc |-> p, buffer |-> w.buffer, old |-> w.old, out |-> t]
  <2> HIDE DEF p
  <2> QED BY <1>1
<1> QED BY <1>2, <1>3, <1>4 DEF t

\* The watcher after it has sent its first message.
LEMMA SentWatcher ==
  ASSUME Base, NEW r \in Roots, Emitting(r)
  PROVE  /\ Sent(watcher[r]) \in Watcher /\ OwnNames(Sent(watcher[r]), r)
         /\ Sent(watcher[r]).pc \in {"work", "ended"}
         /\ Sent(watcher[r]).buffer = watcher[r].buffer /\ Sent(watcher[r]).old = watcher[r].old
         /\ Sent(watcher[r]).out = Tail(watcher[r].out)
         /\ Head(watcher[r].out) \in Sendable /\ About(Head(watcher[r].out), r)
<1> DEFINE w == watcher[r]
           t == Tail(w.out)
           p == IF w.pc = "last" THEN "ended" ELSE w.pc
           v == Sent(w)
<1>1. w.pc \in {"work", "last"} /\ w.out # <<>>
  BY DEF Emitting
<1>2. t \in Seq(Sendable) /\ \A i \in 1..Len(t) : About(t[i], r)
  BY <1>1, WatcherFields, TailOf DEF OwnNames
<1>3. Head(w.out) \in Sendable /\ About(Head(w.out), r)
  BY <1>1, WatcherFields, TailOf DEF OwnNames
<1>4. v = [pc |-> p, buffer |-> w.buffer, old |-> w.old, out |-> t]
  BY WatcherFields, SentFields
<1>5. p \in {"work", "ended"}
  BY <1>1
<1> HIDE DEF v, t, p
<1>6. v \in Watcher /\ OwnNames(v, r) /\ v.pc = p /\ v.buffer = w.buffer /\ v.old = w.old /\ v.out = t
  BY <1>2, <1>4, <1>5, WatcherFields DEF Watcher, OwnNames
<1> QED BY <1>3, <1>5, <1>6 DEF v, t

\* A message without a callback keeps Base.
LEMMA EmitNobodyBase == ASSUME Base, NEW r \in Roots, EmitNobody(r) PROVE Base'
<1>1. /\ Emitting(r) /\ Step(r, Sent(watcher[r]))
      /\ UNCHANGED <<fsVars, faults, flooded, events, pending, execVars, ctlVars, guarded, taken>>
  BY DEF EmitNobody
<1> QED BY <1>1, SentWatcher, WatcherFrame DEF Base, TypeOK, LocalInv, fsVars

-----------------------------------------------------------------------------
(* The hand-over, and the analyses.                                        *)

\* One record more, that no queue and no worker knows of.
LEMMA OneMore ==
  ASSUME Base, NEW r \in Roots, NEW x \in Kept, events' = Append(events, x),
         x.status \in Held => x.path \in Names,
         NEW w \in Watcher, Step(r, w), OwnNames(w, r),
         w.pc = "submit" => x.status = "acquired" /\ x.path \in Names /\ RootOf[x.path] = r,
         pending' \in Nat,
         UNCHANGED <<fsVars, flooded, execVars, ctlVars, guarded, taken>>
  PROVE  /\ Base'
         /\ Len(events') = Len(events) + 1 /\ events'[Len(events) + 1] = x
         /\ \A i \in 1..Len(events) : events'[i] = events[i]
<1>1. /\ events' \in Seq(Kept) /\ Len(events') = Len(events) + 1 /\ Len(events) \in Nat
      /\ events'[Len(events) + 1] = x
      /\ \A i \in 1..Len(events) : events'[i] = events[i]
  BY AppendProperties, LenProperties DEF Base, TypeOK
<1>2. /\ watcher' \in [Roots -> Watcher]
      /\ \A q \in Roots : watcher'[q] = IF q = r THEN w ELSE watcher[q]
  BY DEF Base, TypeOK, Step
<1>3. TypeOK'
  BY <1>1, <1>2 DEF Base, TypeOK, execVars, ctlVars, fsVars
<1>4. LocalInv'
  <2>1. \A q \in Roots : OwnNames(watcher'[q], q)
    BY <1>2 DEF Base, LocalInv
  <2> QED BY <2>1 DEF LocalInv, OwnNames, OfRoot, About, fsVars, Base
<1>5. HandInv'
  <2>0. HandInv /\ queue' = queue /\ job' = job
    BY DEF Base, execVars
  <2>1. \A i \in 1..Len(events') : events'[i].status \in Held => events'[i].path \in Names
    BY <1>1, <2>0 DEF HandInv
  <2>2. \A q \in Roots : watcher'[q].pc = "submit" =>
          \E i \in 1..Len(events') : Claimed(i, q)'
    <3> TAKE q \in Roots
    <3>1. CASE q = r
      BY <1>1, <1>2, <3>1 DEF Claimed
    <3>2. CASE q # r
      BY <1>1, <1>2, <2>0, <3>2 DEF HandInv, Claimed
    <3> QED BY <3>1, <3>2
  <2>3. \A i \in 1..Len(queue) :
          queue[i] \in 1..Len(events') /\ events'[queue[i]].status = "queued"
    BY <1>1, <2>0 DEF HandInv
  <2>4. \A v \in Workers : Assigned(v)'
    BY <1>1, <2>0 DEF HandInv, Assigned
  <2> QED BY <2>0, <2>1, <2>2, <2>3, <2>4 DEF HandInv
<1> QED BY <1>1, <1>3, <1>4, <1>5 DEF Base

\* The record of a message.
LEMMA RecordedMade ==
  ASSUME NEW e \in Sendable, NEW status \in Statuses
  PROVE  /\ Recorded(e, status) \in Kept
         /\ Recorded(e, status).status = status /\ Recorded(e, status).path = e.path
         /\ Recorded(e, status).type = e.type /\ Recorded(e, status).op = e.op
         /\ Recorded(e, status).old = e.old
BY DEF Recorded, Kept, Sendable

\* What handle_event writes on the watcher's thread.
LEMMA AtOnceFacts ==
  ASSUME Base, NEW r \in Roots, HandleAtOnce(r)
  PROVE  \E status \in NotAdmitted \cup {"DROPPED_BACKPRESSURE"} :
            /\ events' = Append(events, Recorded(Head(watcher[r].out), status))
            /\ status = "DROPPED_BACKPRESSURE" => pending = 0
<1> DEFINE e == Head(watcher[r].out)
<1>1. CASE Immediate(e) # None
  <2>1. Immediate(e) \in NotAdmitted /\ Immediate(e) # "DROPPED_BACKPRESSURE"
    BY <1>1 DEF Immediate, NotAdmitted
  <2> QED BY <1>1, <2>1 DEF HandleAtOnce
<1>2. CASE Immediate(e) = None
  BY <1>2 DEF HandleAtOnce
<1> QED BY <1>1, <1>2

\* A message recorded without an analysis keeps Base.
LEMMA HandleAtOnceBase ==
  ASSUME Base, NEW r \in Roots, HandleAtOnce(r)
  PROVE  Base'
<1> DEFINE e == Head(watcher[r].out)
<1>1. PICK status \in NotAdmitted \cup {"DROPPED_BACKPRESSURE"} :
         events' = Append(events, Recorded(e, status))
  BY AtOnceFacts
<1>2. /\ Emitting(r) /\ Step(r, Sent(watcher[r]))
      /\ UNCHANGED <<fsVars, faults, flooded, pending, execVars, ctlVars, guarded, taken>>
  BY DEF HandleAtOnce
<1>3. status \in Statuses /\ status \notin Held
  BY DEF Statuses, NotAdmitted, Held
<1>4. e \in Sendable
  BY <1>2, SentWatcher
<1>5. Recorded(e, status) \in Kept /\ Recorded(e, status).status \notin Held
  BY <1>3, <1>4, RecordedMade
<1>6. /\ Sent(watcher[r]) \in Watcher /\ OwnNames(Sent(watcher[r]), r)
      /\ Sent(watcher[r]).pc # "submit"
  BY <1>2, SentWatcher
<1>7. pending' \in Nat
  BY <1>2 DEF Base, TypeOK
<1> HIDE DEF e
<1> QED BY <1>1, <1>2, <1>5, <1>6, <1>7, OneMore

\* What is handed over is about a file of the root.
LEMMA AcquireFacts ==
  ASSUME Base, NEW r \in Roots, Acquire(r)
  PROVE  LET e == Head(watcher[r].out)
             x == Recorded(e, "acquired")
             v == [Sent(watcher[r]) EXCEPT !.pc = "submit"]
         IN  /\ e \in Sendable /\ e.path \in Names /\ RootOf[e.path] = r
             /\ x \in Kept /\ x.status = "acquired" /\ x.path = e.path
             /\ x.type = e.type /\ x.op = e.op /\ x.old = e.old
             /\ v \in Watcher /\ OwnNames(v, r) /\ v.pc = "submit"
             /\ v.buffer = watcher[r].buffer /\ v.old = watcher[r].old
             /\ v.out = Tail(watcher[r].out)
             /\ Step(r, v) /\ events' = Append(events, x) /\ pending > 0
             /\ pending' = pending - 1 /\ pending' \in Nat
<1> DEFINE e == Head(watcher[r].out)
           x == Recorded(e, "acquired")
           u == Sent(watcher[r])
           v == [u EXCEPT !.pc = "submit"]
<1>1. /\ Emitting(r) /\ Immediate(e) = None /\ pending > 0 /\ pending' = pending - 1
      /\ events' = Append(events, x) /\ Step(r, v)
  BY DEF Acquire
<1>2. e \in Sendable /\ About(e, r)
  BY <1>1, SentWatcher
<1>3. e.type # "OVERFLOW"
  BY <1>1, NoneAssumption DEF Immediate, NotAdmitted
<1>4. e.path \in Names /\ RootOf[e.path] = r
  BY <1>2, <1>3 DEF About
<1>5. /\ x \in Kept /\ x.status = "acquired" /\ x.path = e.path
      /\ x.type = e.type /\ x.op = e.op /\ x.old = e.old
  BY <1>2, RecordedMade DEF Statuses
<1>6. /\ u \in Watcher /\ OwnNames(u, r)
      /\ u.buffer = watcher[r].buffer /\ u.old = watcher[r].old
      /\ u.out = Tail(watcher[r].out)
  BY <1>1, SentWatcher
<1>7. /\ v \in Watcher /\ OwnNames(v, r) /\ v.pc = "submit"
      /\ v.buffer = watcher[r].buffer /\ v.old = watcher[r].old
      /\ v.out = Tail(watcher[r].out)
  <2> HIDE DEF u
  <2> QED BY <1>6 DEF Watcher, OwnNames
<1>8. pending' \in Nat
  BY <1>1 DEF Base, TypeOK
<1> QED BY <1>1, <1>2, <1>4, <1>5, <1>7, <1>8

\* Taking a place among the pending events keeps Base.
LEMMA AcquireBase == ASSUME Base, NEW r \in Roots, Acquire(r) PROVE Base'
<1> DEFINE e == Head(watcher[r].out)
           x == Recorded(e, "acquired")
           v == [Sent(watcher[r]) EXCEPT !.pc = "submit"]
<1>1. /\ e.path \in Names /\ RootOf[e.path] = r
      /\ x \in Kept /\ x.status = "acquired" /\ x.path = e.path
      /\ v \in Watcher /\ OwnNames(v, r)
      /\ Step(r, v) /\ events' = Append(events, x) /\ pending' \in Nat
  BY AcquireFacts
<1>2. UNCHANGED <<fsVars, faults, flooded, execVars, ctlVars, guarded, taken>>
  BY DEF Acquire
<1> HIDE DEF e, x, v
<1> QED BY <1>1, <1>2, OneMore

\* The event of a watcher that is to hand one over.
LEMMA MineFacts ==
  ASSUME Base, NEW r \in Roots, watcher[r].pc = "submit"
  PROVE  Mine(r) \in 1..Len(events) /\ Claimed(Mine(r), r)
<1>1. DOMAIN events = 1..Len(events)
  BY LenProperties DEF Base, TypeOK
<1>2. \E i \in 1..Len(events) : events[i].status = "acquired" /\ RootOf[events[i].path] = r
  BY DEF Base, HandInv, Claimed
<1>3. /\ Mine(r) \in 1..Len(events)
      /\ events[Mine(r)].status = "acquired" /\ RootOf[events[Mine(r)].path] = r
  BY <1>1, <1>2 DEF Mine
<1> QED BY <1>3 DEF Base, HandInv, Claimed, Held

\* One record gets another status; its event stays the same.
Restated(m, x) ==
  /\ m \in 1..Len(events) /\ x \in Kept
  /\ x.path = events[m].path /\ x.type = events[m].type
  /\ x.op = events[m].op /\ x.old = events[m].old
  /\ events' = [events EXCEPT ![m] = x]

\* The records after one of them is restated.
LEMMA RestatedFacts ==
  ASSUME Base, NEW m, NEW x, Restated(m, x)
  PROVE  /\ events' \in Seq(Kept) /\ Len(events') = Len(events)
         /\ events'[m] = x
         /\ \A i \in 1..Len(events) : i # m => events'[i] = events[i]
         /\ \A i \in 1..Len(events) : events'[i].path = events[i].path
BY ExceptSeq DEF Base, TypeOK, Restated

\* The status of a record is changed.
LEMMA StatusMade ==
  ASSUME Base, NEW m \in 1..Len(events), NEW status \in Statuses,
         events' = [events EXCEPT ![m].status = status]
  PROVE  \E x : Restated(m, x) /\ x.status = status /\ x.seen = events[m].seen
<1> DEFINE x == [events[m] EXCEPT !.status = status]
<1>1. events[m] \in Kept
  BY ElementOfSeq DEF Base, TypeOK
<1>2. /\ x \in Kept /\ x.status = status /\ x.seen = events[m].seen
      /\ x.path = events[m].path /\ x.type = events[m].type
      /\ x.op = events[m].op /\ x.old = events[m].old
  BY <1>1 DEF Kept
<1>3. events' = [events EXCEPT ![m] = x]
  OBVIOUS
<1> HIDE DEF x
<1> QED BY <1>2, <1>3 DEF Restated

\* The facts of a hand-over.
LEMMA SubmitFacts ==
  ASSUME Base, NEW r \in Roots, SubmitAccepted(r) \/ SubmitRefused(r)
  PROVE  /\ watcher[r].pc = "submit"
         /\ Mine(r) \in 1..Len(events) /\ Claimed(Mine(r), r)
         /\ \E x : /\ Restated(Mine(r), x) /\ x.seen = events[Mine(r)].seen
                   /\ \/ SubmitAccepted(r) /\ x.status = "queued"
                      \/ SubmitRefused(r) /\ x.status = "ERROR"
         /\ \E v : /\ Step(r, v) /\ v \in Watcher /\ OwnNames(v, r) /\ v.pc = "work"
                   /\ v.buffer = watcher[r].buffer /\ v.old = watcher[r].old
                   /\ v.out = watcher[r].out
<1>1. watcher[r].pc = "submit"
  BY DEF SubmitAccepted, SubmitRefused
<1>2. Mine(r) \in 1..Len(events) /\ Claimed(Mine(r), r)
  BY <1>1, MineFacts
<1>3. \E x : /\ Restated(Mine(r), x) /\ x.seen = events[Mine(r)].seen
             /\ \/ SubmitAccepted(r) /\ x.status = "queued"
                \/ SubmitRefused(r) /\ x.status = "ERROR"
  <2>1. CASE SubmitAccepted(r)
    <3>1. events' = [events EXCEPT ![Mine(r)].status = "queued"]
      BY <2>1 DEF SubmitAccepted
    <3>2. "queued" \in Statuses
      BY DEF Statuses
    <3> QED BY <1>2, <2>1, <3>1, <3>2, StatusMade
  <2>2. CASE SubmitRefused(r)
    <3>1. events' = [events EXCEPT ![Mine(r)].status = "ERROR"]
      BY <2>2 DEF SubmitRefused
    <3>2. "ERROR" \in Statuses
      BY DEF Statuses, Verdicts
    <3> QED BY <1>2, <2>2, <3>1, <3>2, StatusMade
  <2> QED BY <2>1, <2>2
<1> DEFINE w == watcher[r]
           v == [w EXCEPT !.pc = "work"]
<1>4. /\ v \in Watcher /\ OwnNames(v, r) /\ v.pc = "work"
      /\ v.buffer = w.buffer /\ v.old = w.old /\ v.out = w.out
  BY WatcherFields DEF Watcher, OwnNames
<1>5. Step(r, v)
  BY DEF SubmitAccepted, SubmitRefused
<1> HIDE DEF v
<1> QED BY <1>1, <1>2, <1>3, <1>4, <1>5

\* The types and names after one hand-over or one analysis step.
LEMMA TypesStay ==
  ASSUME Base, NEW r \in Roots, NEW v \in Watcher, OwnNames(v, r), Step(r, v),
         events' \in Seq(Kept), pending' \in Nat, queue' \in Seq(Nat),
         UNCHANGED <<fsVars, flooded, pool, job, ctlVars, guarded, taken>>
  PROVE  /\ TypeOK' /\ LocalInv'
         /\ \A q \in Roots : watcher'[q] = IF q = r THEN v ELSE watcher[q]
<1>2. /\ watcher' \in [Roots -> Watcher]
      /\ \A q \in Roots : watcher'[q] = IF q = r THEN v ELSE watcher[q]
  BY DEF Base, TypeOK, Step
<1>3. TypeOK'
  BY <1>2 DEF Base, TypeOK, ctlVars, fsVars
<1>4. LocalInv'
  <2>1. \A q \in Roots : OwnNames(watcher'[q], q)
    BY <1>2 DEF Base, LocalInv
  <2> QED BY <2>1 DEF LocalInv, OwnNames, OfRoot, About, fsVars, Base
<1> QED BY <1>2, <1>3, <1>4

\* An accepted submission keeps Base.
LEMMA SubmitAcceptedBase == ASSUME Base, NEW r \in Roots, SubmitAccepted(r) PROVE Base'
<1> DEFINE m == Mine(r)
<1>1. m \in 1..Len(events) /\ Claimed(m, r)
  BY SubmitFacts
<1>2. PICK x : Restated(m, x) /\ x.status = "queued"
  BY SubmitFacts DEF SubmitAccepted, SubmitRefused
<1>3. PICK v : Step(r, v) /\ v \in Watcher /\ OwnNames(v, r) /\ v.pc = "work"
  BY SubmitFacts
<1>4. /\ queue' = Append(queue, m)
      /\ UNCHANGED <<fsVars, faults, flooded, pending, pool, job, ctlVars, guarded, taken>>
  BY DEF SubmitAccepted
<1> HIDE DEF m
<1>5. /\ events' \in Seq(Kept) /\ Len(events') = Len(events) /\ Len(events) \in Nat
      /\ events'[m] = x /\ \A i \in 1..Len(events) : i # m => events'[i] = events[i]
      /\ \A i \in 1..Len(events) : events'[i].path = events[i].path
  BY <1>2, RestatedFacts, LenProperties DEF Base, TypeOK
<1>6. /\ queue' \in Seq(Nat) /\ Len(queue') = Len(queue) + 1 /\ Len(queue) \in Nat
      /\ queue'[Len(queue) + 1] = m /\ \A i \in 1..Len(queue) : queue'[i] = queue[i]
  <2>1. queue \in Seq(Nat) /\ m \in Nat
    BY <1>1, <1>5 DEF Base, TypeOK
  <2> QED BY <1>4, <2>1, AppendProperties, LenProperties
<1>7. /\ TypeOK' /\ LocalInv'
      /\ \A q \in Roots : watcher'[q] = IF q = r THEN v ELSE watcher[q]
  BY <1>3, <1>4, <1>5, <1>6, TypesStay DEF Base, TypeOK
<1>8. HandInv'
  <2>0. HandInv /\ events[m].status = "acquired" /\ RootOf[events[m].path] = r /\ job' = job
    BY <1>1, <1>4 DEF Base, Claimed
  <2>1. \A i \in 1..Len(events') : events'[i].status \in Held => events'[i].path \in Names
    BY <1>1, <1>5, <2>0 DEF HandInv, Held
  <2>2. \A q \in Roots : watcher'[q].pc = "submit" => \E i \in 1..Len(events') : Claimed(i, q)'
    BY <1>3, <1>5, <1>7, <2>0 DEF HandInv, Claimed
  <2>3. \A i \in 1..Len(queue') :
          queue'[i] \in 1..Len(events') /\ events'[queue'[i]].status = "queued"
    BY <1>1, <1>2, <1>5, <1>6, <2>0 DEF HandInv
  <2>4. \A i \in 1..Len(queue) : queue[i] # m
    BY <2>0 DEF HandInv
  <2>5. \A i, j \in 1..Len(queue') : i # j => queue'[i] # queue'[j]
    BY <1>6, <2>0, <2>4 DEF HandInv
  <2>6. \A w \in Workers : job[w] # None => job[w].ev # m
    <3> TAKE w \in Workers
    <3> HAVE job[w] # None
    <3>1. job[w].pc \in Holding \cup {"append"}
      BY DEF Base, TypeOK, Job, Holding
    <3> QED BY <3>1, <2>0 DEF HandInv, Assigned
  <2>7. \A w \in Workers : Assigned(w)'
    BY <1>5, <2>0, <2>6 DEF HandInv, Assigned
  <2>8. \A w \in Workers : job'[w] # None => \A i \in 1..Len(queue') : queue'[i] # job'[w].ev
    BY <1>6, <2>0, <2>6 DEF HandInv
  <2> QED BY <2>0, <2>1, <2>2, <2>3, <2>5, <2>7, <2>8 DEF HandInv
<1> QED BY <1>7, <1>8 DEF Base

\* A refused submission keeps Base.
LEMMA SubmitRefusedBase == ASSUME Base, NEW r \in Roots, SubmitRefused(r) PROVE Base'
<1> DEFINE m == Mine(r)
<1>1. m \in 1..Len(events) /\ Claimed(m, r)
  BY SubmitFacts
<1>2. PICK x : Restated(m, x) /\ x.status = "ERROR"
  BY SubmitFacts DEF SubmitAccepted, SubmitRefused
<1>3. PICK v : Step(r, v) /\ v \in Watcher /\ OwnNames(v, r) /\ v.pc = "work"
  BY SubmitFacts
<1>4. /\ pending' = pending + 1
      /\ UNCHANGED <<fsVars, faults, flooded, execVars, ctlVars, guarded, taken>>
  BY DEF SubmitRefused
<1> HIDE DEF m
<1>5. /\ events' \in Seq(Kept) /\ Len(events') = Len(events)
      /\ events'[m] = x /\ \A i \in 1..Len(events) : i # m => events'[i] = events[i]
      /\ \A i \in 1..Len(events) : events'[i].path = events[i].path
  BY <1>2, RestatedFacts
<1>6. pending' \in Nat /\ queue' = queue /\ queue \in Seq(Nat) /\ job' = job /\ pool' = pool
  BY <1>4 DEF Base, TypeOK, execVars
<1>7. /\ TypeOK' /\ LocalInv'
      /\ \A q \in Roots : watcher'[q] = IF q = r THEN v ELSE watcher[q]
  BY <1>3, <1>4, <1>5, <1>6, TypesStay
<1>8. HandInv'
  <2>0. HandInv /\ events[m].status = "acquired" /\ RootOf[events[m].path] = r
    BY <1>1 DEF Base, Claimed
  <2>1. \A i \in 1..Len(events') : events'[i].status \in Held => events'[i].path \in Names
    BY <1>2, <1>5, <2>0 DEF HandInv, Held
  <2>2. \A q \in Roots : watcher'[q].pc = "submit" => \E i \in 1..Len(events') : Claimed(i, q)'
    BY <1>3, <1>5, <1>7, <2>0 DEF HandInv, Claimed
  <2>3. \A i \in 1..Len(queue) : queue[i] \in 1..Len(events') /\ events'[queue[i]].status = "queued"
    BY <1>5, <2>0 DEF HandInv
  <2>6. \A w \in Workers : job[w] # None => job[w].ev # m
    <3> TAKE w \in Workers
    <3> HAVE job[w] # None
    <3>1. job[w].pc \in Holding \cup {"append"}
      BY DEF Base, TypeOK, Job, Holding
    <3> QED BY <3>1, <2>0 DEF HandInv, Assigned
  <2>7. \A w \in Workers : Assigned(w)'
    BY <1>5, <1>6, <2>0, <2>6 DEF HandInv, Assigned
  <2> QED BY <1>6, <2>0, <2>1, <2>2, <2>3, <2>7 DEF HandInv
<1> QED BY <1>7, <1>8 DEF Base

\* The record of an analysis under way.
LEMMA JobFields ==
  ASSUME Base, NEW w \in Workers, job[w] # None
  PROVE  /\ job[w] \in Job /\ job[w].path \in Names /\ job[w].ev \in Nat
         /\ job[w].pc \in Holding \cup {"append"}
         /\ job[w].before \in Nat /\ job[w].seen \subseteq Nat
         /\ files[job[w].path] \in Nat /\ ops \in Nat
BY DEF Base, TypeOK, Job, Holding

\* How an attempt ends.
LEMMA Endings ==
  ASSUME NEW j \in Job
  PROVE  /\ \A s \in Verdicts :
              /\ Concluded(j, s) \in Job /\ Concluded(j, s).pc = "release"
              /\ Concluded(j, s).status = s /\ Concluded(j, s).ev = j.ev
              /\ Concluded(j, s).path = j.path /\ Concluded(j, s).seen = j.seen
         /\ Retried(j) \in Job /\ Retried(j).ev = j.ev /\ Retried(j).path = j.path
         /\ \/ Retried(j).pc = "open"
            \/ Retried(j).pc = "release" /\ Retried(j).status = "ERROR"
<1>1. \A s \in Verdicts :
              /\ Concluded(j, s) \in Job /\ Concluded(j, s).pc = "release"
              /\ Concluded(j, s).status = s /\ Concluded(j, s).ev = j.ev
              /\ Concluded(j, s).path = j.path /\ Concluded(j, s).seen = j.seen
  BY DEF Concluded, Job
<1>2. CASE j.attempt <= RetryAttempts
  <2> DEFINE a == j.attempt + 1
             u == [j EXCEPT !.attempt = a]
             v == [u EXCEPT !.pc = "open"]
  <2>1. a \in Nat
    BY DEF Job
  <2>2. Retried(j) = v
    BY <1>2 DEF Retried, Job
  <2> HIDE DEF a
  <2>3. u \in Job /\ u.ev = j.ev /\ u.path = j.path
    BY <2>1 DEF Job
  <2> HIDE DEF u
  <2>4. v \in Job /\ v.ev = j.ev /\ v.path = j.path /\ v.pc = "open"
    BY <2>3 DEF Job
  <2> HIDE DEF v
  <2> QED BY <1>1, <2>2, <2>4
<1>3. CASE ~(j.attempt <= RetryAttempts)
  <2>1. Retried(j) = Concluded(j, "ERROR") /\ "ERROR" \in Verdicts
    BY <1>3 DEF Retried, Verdicts
  <2> QED BY <1>1, <2>1
<1> QED BY <1>2, <1>3

\* An analysis goes on, with its place.
Proceeds(w, j) ==
  /\ job[w] # None /\ job[w].pc \in Holding /\ j \in Job
  /\ j.ev = job[w].ev /\ j.path = job[w].path /\ j.pc \in Holding
  /\ j.pc = "release" => j.status \in Verdicts
  /\ job' = [job EXCEPT ![w] = j]
  /\ UNCHANGED <<files, ops, notes, flooded, watcher, events, pending, queue, pool,
                 running, callback, active, caller, guarded, taken>>

\* A worker that goes on with its job keeps Base.
LEMMA ProceedsBase ==
  ASSUME Base, NEW w \in Workers, NEW j, Proceeds(w, j)
  PROVE  Base'
<1>1. j # None
  BY NoneAssumption DEF Proceeds
<1>2. \A v \in Workers : job'[v] = IF v = w THEN j ELSE job[v]
  BY DEF Base, TypeOK, Proceeds
<1>3. TypeOK'
  BY <1>2 DEF Base, TypeOK, Proceeds
<1>4. LocalInv'
  BY DEF Base, LocalInv, OwnNames, OfRoot, About, Proceeds
<1>5. HandInv'
  <2>0. HandInv /\ events' = events /\ queue' = queue /\ watcher' = watcher
    BY DEF Base, Proceeds
  <2>1. \A v \in Workers : Assigned(v)'
    <3> TAKE v \in Workers
    <3>1. CASE v = w
      <4>1. Assigned(w) /\ j.pc # "append" /\ job[w] # None
        BY <2>0 DEF HandInv, Proceeds, Holding
      <4> QED BY <1>2, <2>0, <3>1, <4>1 DEF Proceeds, Assigned
    <3>2. CASE v # w
      BY <1>2, <2>0, <3>2 DEF HandInv, Assigned
    <3> QED BY <3>1, <3>2
  <2>2. \A v \in Workers : job'[v] # None => job[v] # None /\ job'[v].ev = job[v].ev
    BY <1>2 DEF Proceeds
  <2> QED BY <2>0, <2>1, <2>2 DEF HandInv, Claimed
<1> QED BY <1>3, <1>4, <1>5 DEF Base

\* What Work leaves alone.
LEMMA WorkProceeds ==
  ASSUME Base, NEW w \in Workers, job[w] # None, job[w].pc \in Holding, NEW j \in Job, Work(w, j),
         j.ev = job[w].ev, j.path = job[w].path, j.pc \in Holding,
         j.pc = "release" => j.status \in Verdicts,
         UNCHANGED <<events, pending, queue>>
  PROVE  Proceeds(w, j)
BY DEF Work, Proceeds, fsVars, ctlVars

\* The steps of an attempt.
LEMMA OpenStep ==
  ASSUME Base, NEW w \in Workers, Open(w)
  PROVE  \E j : /\ Proceeds(w, j)
                /\ \/ j.pc = "release" /\ j.status # "ANALYZED"
                   \/ /\ j.pc = "read1" /\ j.before = files[j.path] /\ j.before # 0 /\ j.seen = {}
<1> DEFINE i == job[w]
<1>1. i # None /\ i.pc = "open" /\ UNCHANGED <<events, pending, queue>>
  BY DEF Open
<1>2. i \in Job /\ i.pc \in Holding /\ files[i.path] \in Nat
  BY <1>1, JobFields DEF Holding
<1>3. PICK suitable \in BOOLEAN :
         Work(w, IF files[i.path] = 0 THEN Concluded(i, "SKIPPED_NOT_FOUND")
                 ELSE IF ~suitable THEN Concluded(i, "SKIPPED_UNSUPPORTED_FILE_TYPE")
                 ELSE [i EXCEPT !.pc = "read1", !.before = files[i.path], !.seen = {}])
  BY DEF Open
<1>4. {"SKIPPED_NOT_FOUND", "SKIPPED_UNSUPPORTED_FILE_TYPE"} \subseteq Verdicts
  BY DEF Verdicts
<1>5. CASE files[i.path] = 0 \/ ~suitable
  <2>1. PICK s \in {"SKIPPED_NOT_FOUND", "SKIPPED_UNSUPPORTED_FILE_TYPE"} : Work(w, Concluded(i, s))
    BY <1>3, <1>5
  <2> DEFINE j == Concluded(i, s)
  <2>2. /\ j \in Job /\ j.pc = "release" /\ j.status = s /\ j.ev = i.ev /\ j.path = i.path
        /\ s \in Verdicts
    BY <1>2, <1>4, Endings
  <2> HIDE DEF j
  <2>3. Work(w, j)
    BY <2>1 DEF j
  <2>4. Proceeds(w, j)
    BY <1>1, <1>2, <2>2, <2>3, WorkProceeds DEF Holding
  <2> QED BY <2>2, <2>4
<1>6. CASE files[i.path] # 0 /\ suitable
  <2> DEFINE v == files[i.path]
             j == [i EXCEPT !.pc = "read1", !.before = v, !.seen = {}]
  <2>1. Work(w, j)
    BY <1>3, <1>6
  <2>2. /\ j \in Job /\ j.pc = "read1" /\ j.before = v /\ j.seen = {} /\ j.ev = i.ev
        /\ j.path = i.path
    BY <1>2 DEF Job
  <2> HIDE DEF j
  <2>3. Proceeds(w, j)
    BY <1>1, <1>2, <2>1, <2>2, WorkProceeds DEF Holding
  <2> QED BY <1>6, <2>2, <2>3
<1> QED BY <1>5, <1>6

\* An open that fails, as a step of its worker.
LEMMA OpenFailsStep ==
  ASSUME Base, NEW w \in Workers, OpenFails(w)
  PROVE  \E j : /\ Proceeds(w, j)
                /\ j.pc = "open" \/ (j.pc = "release" /\ j.status # "ANALYZED")
<1> DEFINE j == Retried(job[w])
<1>1. /\ job[w] # None /\ job[w].pc = "open" /\ Work(w, j) /\ UNCHANGED <<events, pending, queue>>
  BY DEF OpenFails
<1>2. /\ j \in Job /\ j.ev = job[w].ev /\ j.path = job[w].path
      /\ j.pc = "open" \/ (j.pc = "release" /\ j.status = "ERROR")
  BY <1>1, JobFields, Endings
<1> HIDE DEF j
<1>3. Proceeds(w, j)
  BY <1>1, <1>2, WorkProceeds DEF Holding, Verdicts
<1> QED BY <1>2, <1>3

\* A read, as a step of its worker.
LEMMA ReadStep ==
  ASSUME Base, NEW w \in Workers, Read(w)
  PROVE  \E j : /\ Proceeds(w, j) /\ job[w].pc \in {"read1", "read2"}
                /\ j.pc \in {"read2", "check"} /\ j.before = job[w].before
                /\ j.seen = job[w].seen \cup {files[j.path]}
<1> DEFINE i == job[w]
           s == i.seen \cup {files[i.path]}
           p == IF i.pc = "read1" THEN "read2" ELSE "check"
           j == [i EXCEPT !.seen = s, !.pc = p]
<1>1. /\ i # None /\ i.pc \in {"read1", "read2"} /\ UNCHANGED <<events, pending, queue>>
      /\ Work(w, [i EXCEPT !.seen = @ \cup {files[i.path]},
                           !.pc = IF @ = "read1" THEN "read2" ELSE "check"])
  BY DEF Read
<1>2. i \in Job /\ files[i.path] \in Nat /\ i.seen \subseteq Nat
  BY <1>1, JobFields
<1>3. Work(w, j)
  <2>1. [i EXCEPT !.seen = s].pc = i.pc
    BY <1>2 DEF Job
  <2> QED BY <1>1, <2>1
<1>4. s \subseteq Nat /\ p \in {"read2", "check"}
  BY <1>1, <1>2
<1> HIDE DEF s, p
<1>5. /\ j \in Job /\ j.pc = p /\ j.seen = s /\ j.before = i.before /\ j.ev = i.ev
      /\ j.path = i.path
  BY <1>2, <1>4 DEF Job
<1> HIDE DEF j
<1>6. Proceeds(w, j)
  BY <1>1, <1>2, <1>3, <1>4, <1>5, WorkProceeds DEF Holding
<1> QED BY <1>1, <1>4, <1>5, <1>6 DEF s

\* A read that raises, as a step of its worker.
LEMMA ReadRaisesStep ==
  ASSUME Base, NEW w \in Workers, ReadRaises(w)
  PROVE  \E j : Proceeds(w, j) /\ j.pc = "release" /\ j.status # "ANALYZED"
<1> DEFINE j == Concluded(job[w], "ERROR")
<1>1. /\ job[w] # None /\ job[w].pc \in {"read1", "read2"} /\ Work(w, j)
      /\ UNCHANGED <<events, pending, queue>>
  BY DEF ReadRaises
<1>2. "ERROR" \in Verdicts
  BY DEF Verdicts
<1>3. /\ j \in Job /\ j.ev = job[w].ev /\ j.path = job[w].path
      /\ j.pc = "release" /\ j.status = "ERROR"
  BY <1>1, <1>2, JobFields, Endings
<1> HIDE DEF j
<1>4. Proceeds(w, j)
  BY <1>1, <1>2, <1>3, WorkProceeds DEF Holding
<1> QED BY <1>3, <1>4

\* The last check of an analysis, as a step of its worker.
LEMMA CheckStep ==
  ASSUME Base, NEW w \in Workers, Check(w)
  PROVE  \E j : /\ Proceeds(w, j) /\ job[w].pc = "check"
                /\ \/ j.pc = "open"
                   \/ /\ j.pc = "release"
                      /\ j.status = "ANALYZED" =>
                           files[j.path] = job[w].before /\ j.seen = job[w].seen
<1> DEFINE i == job[w]
<1>1. i # None /\ i.pc = "check" /\ UNCHANGED <<events, pending, queue>>
  BY DEF Check
<1>2. i \in Job
  BY <1>1, JobFields
<1>3. PICK complete \in BOOLEAN :
         Work(w, IF files[i.path] = 0 THEN Concluded(i, "SKIPPED_NOT_FOUND")
                 ELSE IF Changed(i) \/ 0 \in i.seen THEN Retried(i)
                 ELSE Concluded(i, IF complete THEN "ANALYZED" ELSE "PARTIAL"))
  BY DEF Check
<1>4. {"SKIPPED_NOT_FOUND", "ANALYZED", "PARTIAL", "ERROR"} \subseteq Verdicts
  BY DEF Verdicts
<1>5. CASE Work(w, Retried(i))
  <2> DEFINE j == Retried(i)
  <2>1. /\ j \in Job /\ j.ev = i.ev /\ j.path = i.path
        /\ j.pc = "open" \/ (j.pc = "release" /\ j.status = "ERROR")
    BY <1>2, Endings
  <2> HIDE DEF j
  <2>2. Work(w, j)
    BY <1>5 DEF j
  <2>3. Proceeds(w, j)
    BY <1>1, <1>2, <1>4, <2>1, <2>2, WorkProceeds DEF Holding
  <2> QED BY <1>1, <2>1, <2>3
<1>6. ASSUME NEW s \in {"SKIPPED_NOT_FOUND", "ANALYZED", "PARTIAL"}, Work(w, Concluded(i, s)),
             s = "ANALYZED" => files[i.path] = i.before
      PROVE  \E j : /\ Proceeds(w, j) /\ j.pc = "release"
                    /\ j.status = "ANALYZED" => files[j.path] = i.before /\ j.seen = i.seen
  <2> DEFINE j == Concluded(i, s)
  <2>0. s \in Verdicts
    BY <1>4
  <2>1. /\ j \in Job /\ j.ev = i.ev /\ j.path = i.path /\ j.seen = i.seen
        /\ j.pc = "release" /\ j.status = s
    BY <1>2, <2>0, Endings
  <2> HIDE DEF j
  <2>2. Work(w, j)
    BY <1>6 DEF j
  <2>3. Proceeds(w, j)
    BY <1>1, <1>2, <1>4, <2>1, <2>2, WorkProceeds DEF Holding
  <2> QED BY <1>6, <2>1, <2>3
<1>7. CASE files[i.path] = 0
  BY <1>1, <1>3, <1>6, <1>7
<1>8. CASE files[i.path] # 0 /\ (Changed(i) \/ 0 \in i.seen)
  BY <1>3, <1>5, <1>8
<1>9. CASE files[i.path] # 0 /\ ~(Changed(i) \/ 0 \in i.seen)
  <2>1. files[i.path] = i.before
    BY <1>9 DEF Changed
  <2>2. Work(w, Concluded(i, "ANALYZED")) \/ Work(w, Concluded(i, "PARTIAL"))
    BY <1>3, <1>9
  <2> QED BY <1>1, <1>6, <2>1, <2>2
<1> QED BY <1>7, <1>8, <1>9

\* A worker takes the first event of the queue.
LEMMA TakeStep ==
  ASSUME Base, NEW w \in Workers, Take(w)
  PROVE  /\ job[w] = None /\ queue # <<>> /\ queue' = Tail(queue)
         /\ \E j : /\ j \in Job /\ j.ev = queue[1] /\ j.pc = "open"
                   /\ job' = [job EXCEPT ![w] = j]
         /\ UNCHANGED <<files, ops, notes, flooded, watcher, events, pending, pool,
                        running, callback, active, caller, guarded, taken>>
<1> DEFINE h == Head(queue)
           j == [ev |-> h, path |-> events[h].path, attempt |-> 1, pc |-> "open",
                 before |-> 0, seen |-> {}, status |-> None]
<1>1. /\ job[w] = None /\ queue # <<>> /\ queue' = Tail(queue) /\ Work(w, j)
      /\ UNCHANGED <<events, pending>>
  BY DEF Take
<1>2. h = queue[1] /\ 1 \in 1..Len(queue) /\ h \in Nat
  BY <1>1, TailOf DEF Base, TypeOK
<1>3. events[h].path \in Names
  <2>1. h \in 1..Len(events) /\ events[h].status = "queued"
    BY <1>2 DEF Base, HandInv
  <2> QED BY <2>1 DEF Base, HandInv, Held
<1>4. j \in Job /\ j.ev = h /\ j.pc = "open"
  BY <1>2, <1>3 DEF Job
<1> HIDE DEF j
<1> QED BY <1>1, <1>2, <1>4 DEF Work, fsVars, ctlVars

\* Taking a job from the queue keeps Base.
LEMMA TakeBase == ASSUME Base, NEW w \in Workers, Take(w) PROVE Base'
<1>1. PICK j : j \in Job /\ j.ev = queue[1] /\ j.pc = "open" /\ job' = [job EXCEPT ![w] = j]
  BY TakeStep
<1>2. /\ job[w] = None /\ queue # <<>> /\ queue' = Tail(queue)
      /\ UNCHANGED <<files, ops, notes, flooded, watcher, events, pending, pool,
                     running, callback, active, caller, guarded, taken>>
  BY TakeStep
<1>3. /\ queue' \in Seq(Nat) /\ Len(queue') = Len(queue) - 1 /\ Len(queue) \in Nat \ {0}
      /\ \A i \in 1..Len(queue) - 1 : queue'[i] = queue[i + 1] /\ i + 1 \in 1..Len(queue)
  BY <1>2, TailOf DEF Base, TypeOK
<1>4. j # None /\ \A v \in Workers : job'[v] = IF v = w THEN j ELSE job[v]
  BY <1>1, NoneAssumption DEF Base, TypeOK
<1>5. TypeOK'
  BY <1>1, <1>2, <1>3 DEF Base, TypeOK
<1>6. LocalInv'
  BY <1>2 DEF Base, LocalInv, OwnNames, OfRoot, About
<1>7. HandInv'
  <2>0. HandInv /\ 1 \in 1..Len(queue)
    BY <1>3 DEF Base
  <2>1. \A v \in Workers : Assigned(v)'
    BY <1>1, <1>2, <1>4, <2>0 DEF HandInv, Assigned, Holding
  <2>2. \A v \in Workers : job'[v] # None => \A i \in 1..Len(queue') : queue'[i] # job'[v].ev
    BY <1>1, <1>3, <1>4, <2>0 DEF HandInv
  <2>3. \A v, u \in Workers : v # u /\ job'[v] # None /\ job'[u] # None => job'[v].ev # job'[u].ev
    BY <1>1, <1>4, <2>0 DEF HandInv
  <2>s. ASSUME NEW i \in 1..Len(queue')
        PROVE  i \in Int /\ i + 1 \in 1..Len(queue) /\ queue'[i] = queue[i + 1]
    <3>1. i \in 1..Len(queue) - 1
      BY <1>3
    <3> QED BY ONLY <1>3, <3>1
  <2>4. ASSUME NEW i \in 1..Len(queue')
        PROVE  queue'[i] \in 1..Len(events) /\ events[queue'[i]].status = "queued"
    BY <2>0, <2>s DEF HandInv
  <2>5. ASSUME NEW i \in 1..Len(queue'), NEW k \in 1..Len(queue'), i # k
        PROVE  queue'[i] # queue'[k]
    <3>1. i + 1 # k + 1
      BY ONLY <2>s, <2>5
    <3> QED BY <2>0, <2>s, <3>1 DEF HandInv
  <2> QED BY <1>2, <2>0, <2>1, <2>2, <2>3, <2>4, <2>5 DEF HandInv, Claimed
<1> QED BY <1>5, <1>6, <1>7 DEF Base

\* The place is given back.
LEMMA ReleaseStep ==
  ASSUME Base, NEW w \in Workers, Release(w)
  PROVE  /\ job[w] # None /\ job[w].pc = "release" /\ pending' = pending + 1
         /\ job[w].ev \in 1..Len(events) /\ events[job[w].ev].status = "queued"
         /\ \E x : Restated(job[w].ev, x) /\ x.status = "released" /\ x.seen = events[job[w].ev].seen
         /\ \E j : /\ j \in Job /\ j.ev = job[w].ev /\ j.pc = "append" /\ j.path = job[w].path
                   /\ j.status = job[w].status /\ j.seen = job[w].seen
                   /\ job' = [job EXCEPT ![w] = j]
         /\ UNCHANGED <<files, ops, notes, flooded, watcher, queue, pool,
                        running, callback, active, caller, guarded, taken>>
<1> DEFINE i == job[w]
           j == [i EXCEPT !.pc = "append"]
<1>1. /\ i # None /\ i.pc = "release" /\ pending' = pending + 1
      /\ events' = [events EXCEPT ![i.ev].status = "released"]
      /\ Work(w, j) /\ queue' = queue
  BY DEF Release
<1>2. i \in Job
  BY <1>1, JobFields
<1>3. i.ev \in 1..Len(events) /\ events[i.ev].status = "queued"
  BY <1>1 DEF Base, HandInv, Assigned, Holding
<1>4. "released" \in Statuses
  BY DEF Statuses
<1>5. \E x : Restated(i.ev, x) /\ x.status = "released" /\ x.seen = events[i.ev].seen
  BY <1>1, <1>3, <1>4, StatusMade
<1>6. /\ j \in Job /\ j.ev = i.ev /\ j.pc = "append" /\ j.status = i.status /\ j.seen = i.seen
      /\ j.path = i.path
  BY <1>2 DEF Job
<1> HIDE DEF j
<1>7. /\ job' = [job EXCEPT ![w] = j]
      /\ UNCHANGED <<files, ops, notes, flooded, watcher, queue, pool,
                     running, callback, active, caller, guarded, taken>>
  BY <1>1 DEF Work, fsVars, ctlVars
<1> QED BY <1>1, <1>3, <1>5, <1>6, <1>7

\* The record is written.
LEMMA AppendStep ==
  ASSUME Base, NEW w \in Workers, AppendRecord(w)
  PROVE  /\ job[w] # None /\ job[w].pc = "append"
         /\ job[w].ev \in 1..Len(events) /\ events[job[w].ev].status = "released"
         /\ job[w].status \in Verdicts
         /\ \E x : Restated(job[w].ev, x) /\ x.status = job[w].status /\ x.seen = job[w].seen
         /\ job' = [job EXCEPT ![w] = None]
         /\ UNCHANGED <<files, ops, notes, flooded, watcher, queue, pending, pool,
                        running, callback, active, caller, guarded, taken>>
<1> DEFINE i == job[w]
           m == i.ev
           x == [events[m] EXCEPT !.status = i.status, !.seen = i.seen]
<1>1. /\ i # None /\ i.pc = "append"
      /\ events' = [events EXCEPT ![m].status = i.status, ![m].seen = i.seen]
      /\ Work(w, None) /\ UNCHANGED <<pending, queue>>
  BY DEF AppendRecord
<1>2. i \in Job /\ i.seen \subseteq Nat
  BY <1>1, JobFields
<1>3. m \in 1..Len(events) /\ events[m].status = "released" /\ i.status \in Verdicts
  BY <1>1 DEF Base, HandInv, Assigned
<1>4. events[m] \in Kept /\ events \in Seq(Kept)
  BY <1>3, ElementOfSeq DEF Base, TypeOK
<1>5. /\ x \in Kept /\ x.status = i.status /\ x.seen = i.seen
      /\ x.path = events[m].path /\ x.type = events[m].type
      /\ x.op = events[m].op /\ x.old = events[m].old
  <2> DEFINE s == i.status
             e == i.seen
             y == events[m]
  <2>1. s \in Statuses /\ e \subseteq Nat /\ y \in Kept
    BY <1>2, <1>3, <1>4 DEF Statuses
  <2> HIDE DEF s, e, y
  <2>2. LET z == [y EXCEPT !.status = s, !.seen = e]
        IN  /\ z \in Kept /\ z.status = s /\ z.seen = e /\ z.path = y.path
            /\ z.type = y.type /\ z.op = y.op /\ z.old = y.old
    BY <2>1 DEF Kept
  <2> QED BY <2>2 DEF s, e, y
<1>6. events' = [events EXCEPT ![m] = x]
  <2> DEFINE f == [events EXCEPT ![m].status = i.status]
  <2>1. f[m] = [events[m] EXCEPT !.status = i.status] /\ DOMAIN f = DOMAIN events
        /\ \A k \in DOMAIN events : k # m => f[k] = events[k]
    BY <1>3, <1>4, LenProperties
  <2>2. events' = [f EXCEPT ![m].seen = i.seen]
    BY <1>1
  <2> HIDE DEF f
  <2> QED BY <1>3, <1>4, <2>1, <2>2, LenProperties
<1> HIDE DEF x
<1>7. Restated(m, x)
  BY <1>3, <1>5, <1>6 DEF Restated
<1> QED BY <1>1, <1>3, <1>5, <1>7 DEF Work, fsVars, ctlVars

\* Either of them keeps the invariant.
LEMMA RecordBase ==
  ASSUME Base, NEW w \in Workers, Release(w) \/ AppendRecord(w)
  PROVE  Base'
<1> DEFINE m == job[w].ev
<1>1. job[w] # None /\ m \in 1..Len(events) /\ events[m].status \in {"queued", "released"}
      /\ job[w].status \in Verdicts
  BY ReleaseStep, AppendStep DEF Base, HandInv, Assigned
<1>2. PICK x : Restated(m, x) /\ x.status \notin Held
  <2>1. Held \cap (Verdicts \cup {"released"}) = {}
    BY DEF Held, Verdicts
  <2> QED BY <2>1, ReleaseStep, AppendStep
<1>3. PICK j : /\ job' = [job EXCEPT ![w] = j]
               /\ \/ /\ j \in Job /\ j.ev = m /\ j.pc = "append" /\ j.status \in Verdicts
                     /\ x.status = "released"
                  \/ j = None
  <2>1. CASE Release(w)
    <3>1. x.status = "released"
      <4>1. \E y : Restated(m, y) /\ y.status = "released"
        BY <2>1, ReleaseStep
      <4> QED BY <4>1, <1>2, RestatedFacts
    <3> QED BY <1>1, <2>1, <3>1, ReleaseStep
  <2>2. CASE AppendRecord(w)
    BY <2>2, AppendStep
  <2> QED BY <2>1, <2>2
<1>4. /\ UNCHANGED <<files, ops, notes, flooded, watcher, queue, pool,
                     running, callback, active, caller, guarded, taken>>
      /\ pending' \in {pending, pending + 1}
  BY ReleaseStep, AppendStep
<1>5. /\ events' \in Seq(Kept) /\ Len(events') = Len(events)
      /\ events'[m] = x /\ \A i \in 1..Len(events) : i # m => events'[i] = events[i]
      /\ \A i \in 1..Len(events) : events'[i].path = events[i].path
  BY <1>2, RestatedFacts
<1>6. \A v \in Workers : job'[v] = IF v = w THEN j ELSE job[v]
  BY <1>3 DEF Base, TypeOK
<1>7. TypeOK'
  <2>1. job' \in [Workers -> Job \cup {None}] /\ pending' \in Nat
    BY <1>3, <1>4 DEF Base, TypeOK
  <2> QED BY <1>4, <1>5, <2>1 DEF Base, TypeOK
<1>8. LocalInv'
  BY <1>4 DEF Base, LocalInv, OwnNames, OfRoot, About
<1>9. HandInv'
  <2>0. HandInv
    BY DEF Base
  <2> HIDE DEF m
  <2>1. \A i \in 1..Len(events') : events'[i].status \in Held => events'[i].path \in Names
    BY <1>2, <1>5, <2>0 DEF HandInv
  <2>2. \A q \in Roots : watcher'[q].pc = "submit" => \E i \in 1..Len(events') : Claimed(i, q)'
    BY <1>1, <1>4, <1>5, <2>0 DEF HandInv, Claimed
  <2>3. \A i \in 1..Len(queue) : queue[i] # m
    BY <1>1, <2>0 DEF HandInv, m
  <2>4. \A i \in 1..Len(queue) : queue[i] \in 1..Len(events') /\ events'[queue[i]].status = "queued"
    BY <1>5, <2>0, <2>3 DEF HandInv
  <2>5. \A v \in Workers : v # w /\ job[v] # None => job[v].ev # m
    BY <1>1, <2>0 DEF HandInv, m
  <2>6. \A v \in Workers : Assigned(v)'
    BY <1>1, <1>3, <1>5, <1>6, <2>0, <2>5 DEF HandInv, Assigned, Holding
  <2>7. \A v \in Workers : job'[v] # None => job[v] # None /\ job'[v].ev = job[v].ev
    BY <1>1, <1>3, <1>6 DEF m
  <2> QED BY <1>4, <2>0, <2>1, <2>2, <2>4, <2>6, <2>7 DEF HandInv
<1> QED BY <1>7, <1>8, <1>9 DEF Base

-----------------------------------------------------------------------------
(* Start, stop, and all steps together.                                    *)

\* What start() leaves: every watcher runs, or none does.
LEMMA StartStep ==
  ASSUME Start
  PROVE  \E pc \in {"off", "work"} :
            /\ caller = "new" /\ caller' \in {"up", "degraded"}
            /\ {running', callback', active'} \subseteq BOOLEAN
            /\ caller' = "up" => running' /\ callback'
            /\ watcher' = [r \in Roots |-> [Idle EXCEPT !.pc = pc]]
            /\ UNCHANGED <<fsVars, faults, flooded, events, pending, execVars, guarded, taken>>
<1>1. PICK opened \in BOOLEAN :
          /\ running' = opened /\ callback' = opened /\ active' = opened
          /\ caller' = IF opened THEN "up" ELSE "degraded"
          /\ watcher' = [r \in Roots |-> [Idle EXCEPT !.pc = IF opened THEN "work" ELSE "off"]]
  BY DEF Start
<1>2. caller = "new" /\ UNCHANGED <<fsVars, faults, flooded, events, pending, execVars, guarded, taken>>
  BY DEF Start
<1>3. CASE opened
  <2>1. watcher' = [r \in Roots |-> [Idle EXCEPT !.pc = "work"]]
    BY <1>1, <1>3
  <2> QED BY <1>1, <1>2, <1>3, <2>1
<1>4. CASE ~opened
  <2>1. watcher' = [r \in Roots |-> [Idle EXCEPT !.pc = "off"]]
    BY <1>1, <1>4
  <2> QED BY <1>1, <1>2, <1>4, <2>1
<1> QED BY <1>3, <1>4

\* start() keeps Base.
LEMMA StartBase == ASSUME Base, Start PROVE Base'
<1>1. PICK pc \in {"off", "work"} :
            /\ caller = "new" /\ caller' \in {"up", "degraded"}
            /\ {running', callback', active'} \subseteq BOOLEAN
            /\ watcher' = [r \in Roots |-> [Idle EXCEPT !.pc = pc]]
            /\ UNCHANGED <<fsVars, faults, flooded, events, pending, execVars, guarded, taken>>
  BY StartStep
<1> DEFINE v == [Idle EXCEPT !.pc = pc]
<1>2. v \in Watcher /\ v.pc = pc /\ \A r \in Roots : OwnNames(v, r)
  BY IdleWatcher
<1>3. watcher' = [r \in Roots |-> v]
  BY <1>1
<1> HIDE DEF v
<1>4. HandInv'
  BY <1>1, <1>2, <1>3, HandFrame DEF Base, execVars
<1>5. TypeOK'
  BY <1>1, <1>2, <1>3 DEF Base, TypeOK, fsVars, execVars
<1>6. LocalInv'
  <2>1. \A r \in Roots : OwnNames(watcher'[r], r) /\ OfRoot(notes'[r], r)
    BY <1>1, <1>2, <1>3 DEF Base, LocalInv, fsVars
  <2> QED BY <2>1 DEF LocalInv
<1> QED BY <1>4, <1>5, <1>6 DEF Base

\* stop() keeps Base.
LEMMA StopBase == ASSUME Base, StopFlag \/ Stop PROVE Base'
<1>1. /\ {running', callback', active'} \subseteq BOOLEAN /\ pool' \in {"open", "shut"}
      /\ caller' \in {"joining", "joined", "draining", "stopped"}
      /\ UNCHANGED <<fsVars, faults, flooded, watcher, events, pending, queue, job, guarded, taken>>
  BY DEF Base, TypeOK, StopFlag, Stop, StopBackend, StopExecutor, Stopped, execVars
<1> QED BY <1>1, ControlFrame

\* Every step of a watcher keeps Base.
LEMMA WatchBase ==
  ASSUME Base, NEW r \in Roots, Watch(r) \/ ReadFails(r) \/ InterpretInvalid(r)
  PROVE  Base'
BY LoopBase, ReadChangesBase, ReadEmptyBase, ReadFailsBase, InterpretBase, InterpretInvalidBase,
   EmitNobodyBase, HandleAtOnceBase, AcquireBase, SubmitAcceptedBase, SubmitRefusedBase DEF Watch

\* Every step of a worker keeps Base.
LEMMA AnalyzeBase ==
  ASSUME Base, NEW w \in Workers, Analyze(w) \/ OpenFails(w) \/ ReadRaises(w)
  PROVE  Base'
<1>1. CASE Open(w) \/ OpenFails(w) \/ Read(w) \/ ReadRaises(w) \/ Check(w)
  <2>1. \E j : Proceeds(w, j)
    BY <1>1, OpenStep, OpenFailsStep, ReadStep, ReadRaisesStep, CheckStep
  <2> QED BY <2>1, ProceedsBase
<1> QED BY <1>1, TakeBase, RecordBase DEF Analyze

\* Base holds at first.
LEMMA InitBase == ASSUME Init PROVE Base
<1>1. /\ files = [n \in Names |-> IF n \in Present THEN 1 ELSE 0] /\ ops = 1
      /\ notes = [r \in Roots |-> <<>>] /\ flooded = [r \in Roots |-> FALSE]
      /\ watcher = [r \in Roots |-> Idle]
      /\ running = FALSE /\ callback = FALSE /\ active = FALSE
      /\ events = <<>> /\ pending = MaxPending
      /\ queue = <<>> /\ pool = "open" /\ job = [w \in Workers |-> None]
      /\ guarded \in BOOLEAN /\ caller = "new" /\ taken = {}
  BY DEF Init
<1>2. <<>> \in Seq(Notification) /\ <<>> \in Seq(Kept) /\ <<>> \in Seq(Nat) /\ Len(<<>>) = 0
  OBVIOUS
<1>3. Idle \in Watcher /\ Idle.pc = "off" /\ \A r \in Roots : OwnNames(Idle, r)
  BY DEF Idle, Watcher, OwnNames, OfRoot
<1>4. TypeOK
  BY <1>1, <1>2, <1>3, PendingAssumption DEF TypeOK
<1>5. LocalInv
  BY <1>1, <1>2, <1>3 DEF LocalInv, OfRoot
<1>6. HandInv
  BY <1>1, <1>2, <1>3 DEF HandInv, Assigned
<1> QED BY <1>4, <1>5, <1>6 DEF Base

\* Every step keeps Base.
LEMMA NextBase == ASSUME Base, [Next]_vars PROVE Base'
<1>1. CASE UNCHANGED vars
  <2>1. UNCHANGED <<files, ops, notes, flooded, watcher, events, pending, execVars, ctlVars,
                    guarded, taken>>
    BY <1>1 DEF vars, fsVars
  <2> QED BY <2>1, FilesFrame DEF Base, TypeOK, LocalInv
<1>2. CASE Next
  BY <1>2, StartBase, StopBase, WriteBase, RemoveBase, RenameBase, FloodBase, WatchBase,
     AnalyzeBase DEF Next
<1> QED BY <1>1, <1>2

\* The common invariant holds always.
LEMMA BaseAlways == Spec => []Base
BY InitBase, NextBase, PTL DEF Spec

\* Type correctness of the Windows monitor.
THEOREM WindowsTyped == Spec => []TypeOK
<1>1. Base => TypeOK
  BY DEF Base
<1> QED BY <1>1, BaseAlways, PTL

-----------------------------------------------------------------------------
(* A verdict is about one version of the file.                             *)

\* Where neither files, nor analyses, nor verdicts change.
LEMMA VersionFrame ==
  ASSUME Base, VersionInv, files' = files, ops' = ops, job' = job, NEW m \in Nat,
         Len(events') = m, \A i \in 1..m : events'[i].status = "ANALYZED" =>
           \E v \in 1..ops : events'[i].seen = {v}
  PROVE  VersionInv'
BY DEF VersionInv, Steady

\* Where a file gets another version.
LEMMA VersionChange ==
  ASSUME Base, VersionInv, ops' = ops + 1, UNCHANGED <<events, job>>,
         \A n \in Names : files'[n] \in {files[n], 0, ops + 1}
  PROVE  VersionInv'
<1>1. ops \in Nat /\ files \in [Names -> Nat] /\ \A i \in 1..ops : i \in 1..ops' /\ i # ops + 1 /\ i # 0
  BY DEF Base, TypeOK
<1>2. \A n \in Names : files'[n] <= ops'
  <2>1. \A n \in Names : files[n] \in Nat /\ files[n] <= ops
    BY <1>1 DEF VersionInv
  <2> QED BY <1>1, <2>1
<1>3. ASSUME NEW w \in Workers, job[w] # None
      PROVE  Steady(job[w])'
  <2>1. Steady(job[w]) /\ job[w].path \in Names
    BY <1>3, JobFields DEF VersionInv
  <2>2. job[w].pc \in Reading => /\ job[w].before \in 1..ops
                                 /\ files'[job[w].path] = job[w].before =>
                                      files[job[w].path] = job[w].before
    BY <1>1, <2>1 DEF Steady
  <2> QED BY <1>1, <2>1, <2>2 DEF Steady
<1>4. \A i \in 1..Len(events') :
       events'[i].status = "ANALYZED" => \E v \in 1..ops' : events'[i].seen = {v}
  BY <1>1 DEF VersionInv
<1> QED BY <1>2, <1>3, <1>4 DEF VersionInv

\* Where an analysis goes on.
LEMMA VersionProceeds ==
  ASSUME Base, VersionInv, NEW w \in Workers, NEW j, Proceeds(w, j), Steady(j)
  PROVE  VersionInv'
<1>1. \A v \in Workers : job'[v] = IF v = w THEN j ELSE job[v]
  BY DEF Base, TypeOK, Proceeds
<1>2. files' = files /\ ops' = ops /\ events' = events
  BY DEF Proceeds
<1> QED BY <1>1, <1>2 DEF VersionInv, Steady

\* A step of an analysis keeps VersionInv.
LEMMA AttemptVersion ==
  ASSUME Base, VersionInv, NEW w \in Workers,
         Open(w) \/ OpenFails(w) \/ Read(w) \/ ReadRaises(w) \/ Check(w)
  PROVE  VersionInv'
<1>1. CASE Open(w)
  <2>1. PICK j : /\ Proceeds(w, j)
                 /\ \/ j.pc = "release" /\ j.status # "ANALYZED"
                    \/ j.pc = "read1" /\ j.before = files[j.path] /\ j.before # 0 /\ j.seen = {}
    BY <1>1, OpenStep
  <2>2. j.path \in Names /\ files[j.path] \in Nat /\ files[j.path] <= ops /\ ops \in Nat
    BY <2>1, JobFields DEF Proceeds, VersionInv
  <2>3. Steady(j)
    BY <2>1, <2>2 DEF Steady, Reading
  <2> QED BY <2>1, <2>3, VersionProceeds
<1>2. CASE OpenFails(w) \/ ReadRaises(w)
  <2>1. PICK j : Proceeds(w, j) /\ (j.pc = "open" \/ (j.pc = "release" /\ j.status # "ANALYZED"))
    BY <1>2, OpenFailsStep, ReadRaisesStep
  <2>2. Steady(j)
    BY <2>1 DEF Steady, Reading
  <2> QED BY <2>1, <2>2, VersionProceeds
<1>3. CASE Read(w)
  <2>1. PICK j : /\ Proceeds(w, j) /\ job[w].pc \in {"read1", "read2"}
                 /\ j.pc \in {"read2", "check"} /\ j.before = job[w].before
                 /\ j.seen = job[w].seen \cup {files[j.path]}
    BY <1>3, ReadStep
  <2>2. Steady(job[w]) /\ j.path = job[w].path
    BY <2>1 DEF Proceeds, VersionInv
  <2>3. Steady(j)
    BY <2>1, <2>2 DEF Steady, Reading
  <2> QED BY <2>1, <2>3, VersionProceeds
<1>4. CASE Check(w)
  <2>1. PICK j : /\ Proceeds(w, j) /\ job[w].pc = "check"
                 /\ \/ j.pc = "open"
                    \/ /\ j.pc = "release"
                       /\ j.status = "ANALYZED" =>
                            files[j.path] = job[w].before /\ j.seen = job[w].seen
    BY <1>4, CheckStep
  <2>2. Steady(job[w]) /\ j.path = job[w].path
    BY <2>1 DEF Proceeds, VersionInv
  <2>3. /\ job[w].before \in 1..ops /\ job[w].seen # {}
        /\ files[j.path] = job[w].before => job[w].seen = {job[w].before}
    BY <2>1, <2>2 DEF Steady, Reading
  <2>4. Steady(j)
    BY <2>1, <2>3 DEF Steady, Reading
  <2> QED BY <2>1, <2>4, VersionProceeds
<1> QED BY <1>1, <1>2, <1>3, <1>4

\* An event without an analysis, or one whose analysis ended.
LEMMA RecordVersion ==
  ASSUME Base, VersionInv, NEW w \in Workers, Release(w) \/ AppendRecord(w)
  PROVE  VersionInv'
<1> DEFINE m == job[w].ev
<1>1. PICK x : /\ Restated(m, x)
               /\ x.status = "ANALYZED" => job[w].pc = "append" /\ job[w].status = "ANALYZED"
                                           /\ x.seen = job[w].seen
  BY ReleaseStep, AppendStep
<1>2. job[w] # None /\ files' = files /\ ops' = ops
  BY ReleaseStep, AppendStep
<1>3. Steady(job[w])
  BY <1>2 DEF VersionInv
<1>4. PICK j : /\ job' = [job EXCEPT ![w] = j]
               /\ \/ j = None
                  \/ /\ j.pc = "append" /\ j.status = job[w].status /\ j.seen = job[w].seen
                     /\ job[w].pc = "release"
  BY ReleaseStep, AppendStep
<1>5. j # None => Steady(j)
  BY <1>3, <1>4 DEF Steady, Reading
<1>6. \A v \in Workers : job'[v] = IF v = w THEN j ELSE job[v]
  BY <1>4 DEF Base, TypeOK
<1>7. \A v \in Workers : job'[v] # None => Steady(job'[v])
  BY <1>5, <1>6 DEF VersionInv
<1>8. \A v \in Workers : job'[v] # None => Steady(job[v])'
  BY <1>2, <1>7 DEF Steady
<1>9. x.status = "ANALYZED" => \E v \in 1..ops : x.seen = {v}
  BY <1>1, <1>3 DEF Steady
<1>10. \A i \in 1..Len(events') :
         events'[i].status = "ANALYZED" => \E v \in 1..ops : events'[i].seen = {v}
  BY <1>1, <1>9, RestatedFacts DEF VersionInv
<1> QED BY <1>2, <1>8, <1>10 DEF VersionInv

\* Taking a job keeps VersionInv.
LEMMA TakeVersion == ASSUME Base, VersionInv, NEW w \in Workers, Take(w) PROVE VersionInv'
<1>1. PICK j : j.pc = "open" /\ job' = [job EXCEPT ![w] = j]
  BY TakeStep
<1>2. files' = files /\ ops' = ops /\ events' = events
  BY TakeStep
<1>3. Steady(j)
  BY <1>1 DEF Steady, Reading
<1>4. \A v \in Workers : job'[v] = IF v = w THEN j ELSE job[v]
  BY <1>1 DEF Base, TypeOK
<1> QED BY <1>2, <1>3, <1>4 DEF VersionInv, Steady

\* What the watchers do to the records.
LEMMA WatchVersion ==
  ASSUME Base, VersionInv, NEW r \in Roots, Watch(r) \/ ReadFails(r) \/ InterpretInvalid(r)
  PROVE  VersionInv'
<1>1. files' = files /\ ops' = ops /\ job' = job
  BY DEF Watch, Loop, ReadChanges, ReadEmpty, ReadFails, Interpret, InterpretInvalid, EmitNobody,
         HandleAtOnce, Acquire, SubmitAccepted, SubmitRefused, fsVars, execVars
<1>2. \A i \in 1..Len(events) :
         events[i].status = "ANALYZED" => \E v \in 1..ops : events[i].seen = {v}
  BY DEF VersionInv
<1>3. events \in Seq(Kept) /\ Len(events) \in Nat
  BY LenProperties DEF Base, TypeOK
<1>4. CASE UNCHANGED events
  BY <1>1, <1>2, <1>3, <1>4, VersionFrame
<1>5. CASE HandleAtOnce(r) \/ Acquire(r)
  <2>1. PICK status \in NotAdmitted \cup {"DROPPED_BACKPRESSURE", "acquired"} :
           events' = Append(events, Recorded(Head(watcher[r].out), status))
    BY <1>5, AtOnceFacts DEF Acquire
  <2>2. Emitting(r)
    BY <1>5 DEF HandleAtOnce, Acquire
  <2>3. status \in Statuses /\ status # "ANALYZED"
    BY DEF NotAdmitted, Statuses
  <2> DEFINE x == Recorded(Head(watcher[r].out), status)
  <2>4. x \in Kept /\ x.status # "ANALYZED"
    BY <2>2, <2>3, SentWatcher, RecordedMade
  <2> HIDE DEF x
  <2>5. events' = Append(events, x)
    BY <2>1 DEF x
  <2>6. /\ Len(events') = Len(events) + 1 /\ events'[Len(events) + 1] = x
        /\ \A i \in 1..Len(events) : events'[i] = events[i]
    BY <1>3, <2>4, <2>5, AppendProperties
  <2>7. \A i \in 1..Len(events) + 1 : events'[i].status = "ANALYZED" =>
           \E v \in 1..ops : events'[i].seen = {v}
    BY <1>2, <1>3, <2>4, <2>6
  <2>8. Len(events) + 1 \in Nat
    BY <1>3
  <2> QED BY <1>1, <2>6, <2>7, <2>8, VersionFrame
<1>6. CASE SubmitAccepted(r) \/ SubmitRefused(r)
  <2>1. PICK x : Restated(Mine(r), x) /\ x.status # "ANALYZED"
    BY <1>6, SubmitFacts
  <2>2. \A i \in 1..Len(events) : events'[i].status = "ANALYZED" =>
           \E v \in 1..ops : events'[i].seen = {v}
    BY <1>2, <2>1, RestatedFacts
  <2>3. Len(events') = Len(events)
    BY <2>1, RestatedFacts
  <2> QED BY <1>1, <1>3, <2>2, <2>3, VersionFrame
<1> QED BY <1>4, <1>5, <1>6 DEF Watch, Loop, ReadChanges, ReadEmpty, ReadFails, Interpret,
           InterpretInvalid, EmitNobody

\* Every step keeps VersionInv.
LEMMA NextVersion == ASSUME Base, VersionInv, [Next]_vars PROVE VersionInv'
<1>0. Len(events) \in Nat
  BY LenProperties DEF Base, TypeOK
<1>1. CASE UNCHANGED <<files, ops, job, events>>
  BY <1>0, <1>1, VersionFrame DEF VersionInv
<1>2. ASSUME NEW n \in Names, Write(n) \/ Remove(n) \/ \E m \in Names : Rename(n, m)
      PROVE  VersionInv'
  <2>1. ops' = ops + 1 /\ UNCHANGED <<events, job>>
    BY <1>2 DEF Write, Remove, Rename, execVars
  <2>2. \A k \in Names : files'[k] \in {files[k], 0, ops + 1}
    BY <1>2 DEF Write, Remove, Rename, Base, TypeOK
  <2> QED BY <2>1, <2>2, VersionChange
<1>3. CASE UNCHANGED vars
  BY <1>1, <1>3 DEF vars, fsVars, execVars
<1>4. CASE Start \/ StopFlag \/ Stop
  BY <1>1, <1>4 DEF Start, StopFlag, Stop, StopBackend, StopExecutor, Stopped, fsVars, execVars
<1>5. ASSUME NEW r \in Roots, Flood(r)
      PROVE  VersionInv'
  BY <1>1, <1>5 DEF Flood, execVars
<1>6. ASSUME NEW w \in Workers, Analyze(w) \/ OpenFails(w) \/ ReadRaises(w)
      PROVE  VersionInv'
  BY <1>6, AttemptVersion, RecordVersion, TakeVersion DEF Analyze
<1> QED BY <1>2, <1>3, <1>4, <1>5, <1>6, WatchVersion DEF Next

\* An ANALYZED record is about one version of the file that was there, whatever was
\* written, renamed or removed during the analysis, with or without a lock on the
\* file, for any number of workers and retries.
THEOREM VerdictsOfOneVersion == Spec => []VerdictOfOneVersion
<1>1. ASSUME Init PROVE VersionInv
  <2>1. /\ files = [n \in Names |-> IF n \in Present THEN 1 ELSE 0] /\ ops = 1
        /\ events = <<>> /\ job = [w \in Workers |-> None]
    BY <1>1 DEF Init
  <2>2. Len(events) = 0
    BY <2>1
  <2> QED BY <2>1, <2>2 DEF VersionInv
<1>2. Base /\ VersionInv => VerdictOfOneVersion
  <2> SUFFICES ASSUME Base, VersionInv, NEW i \in DOMAIN events, events[i].status = "ANALYZED"
               PROVE  Cardinality(events[i].seen) = 1 /\ 0 \notin events[i].seen
    BY DEF VerdictOfOneVersion
  <2>1. i \in 1..Len(events)
    BY LenProperties DEF Base, TypeOK
  <2>2. PICK v \in 1..ops : events[i].seen = {v}
    BY <2>1 DEF VersionInv
  <2>3. Cardinality({v}) = 1
    BY FS_Singleton
  <2>4. v # 0
    OBVIOUS
  <2> QED BY <2>2, <2>3, <2>4
<1> QED BY <1>1, <1>2, BaseAlways, NextVersion, PTL DEF Spec

-----------------------------------------------------------------------------
(* The semaphore is a counted gate.                                        *)

\* Where each event stands, the ones that have not come yet included.
GateStatus ==
  [i \in Nat \ {0} |-> IF i \in 1..Len(events) THEN Admitted(events[i].status) ELSE "new"]

Gate == INSTANCE AdmissionControl WITH
          Jobs <- Nat \ {0}, Limit <- MaxPending, status <- GateStatus

\* The gate counts as this module does.
LEMMA SameCount == \A S : Gate!Cardinality(S) = Cardinality(S)
BY DEF Gate!Cardinality, Cardinality

\* Who is inside holds a place.
LEMMA InsideHolds ==
  ASSUME Base, PlaceInv
  PROVE  /\ Gate!Inside = HeldEvents /\ IsFiniteSet(HeldEvents)
         /\ Cardinality(HeldEvents) \in Nat /\ Cardinality(Gate!Inside) = MaxPending - pending
         /\ pending \in Nat /\ MaxPending \in Nat
<1>1. Len(events) \in Nat /\ pending \in Nat /\ MaxPending \in Nat
  BY LenProperties, PendingAssumption DEF Base, TypeOK
<1>2. Gate!Inside = HeldEvents
  <2>1. \A i \in Nat \ {0} : GateStatus[i] = "inside" <=> i \in HeldEvents
    BY <1>1 DEF GateStatus, HeldEvents, Admitted, NotAdmitted, Held
  <2>2. HeldEvents \subseteq Nat \ {0}
    BY <1>1 DEF HeldEvents
  <2> QED BY <2>1, <2>2 DEF Gate!Inside
<1>3. IsFiniteSet(1..Len(events))
  BY <1>1, FS_Interval
<1>4. IsFiniteSet(HeldEvents)
  BY <1>3, FS_Subset DEF HeldEvents
<1>5. Cardinality(HeldEvents) \in Nat
  BY <1>4, FS_CardinalityType
<1> QED BY <1>1, <1>2, <1>4, <1>5 DEF PlaceInv

\* What a step has to keep and to be.
GateStep == PlaceInv' /\ [Gate!Next]_GateStatus

\* No event changes its place.
LEMMA GateStays ==
  ASSUME Base, PlaceInv, pending' = pending, Len(events') = Len(events),
         \A i \in 1..Len(events) : Admitted(events'[i].status) = Admitted(events[i].status)
  PROVE  GateStep
<1>1. GateStatus' = GateStatus
  BY DEF GateStatus
<1>2. \A i \in 1..Len(events) : events'[i].status \in Held <=> events[i].status \in Held
  BY DEF Admitted, NotAdmitted, Held
<1>3. HeldEvents' = HeldEvents
  BY <1>2 DEF HeldEvents
<1> QED BY <1>1, <1>3 DEF GateStep, PlaceInv

\* An event leaves and its place is given back.
LEMMA GateLeaves ==
  ASSUME Base, PlaceInv, NEW m \in 1..Len(events), events[m].status \in Held,
         Len(events') = Len(events), Admitted(events'[m].status) = "left",
         \A i \in 1..Len(events) : i # m => events'[i] = events[i],
         pending' = pending + 1
  PROVE  GateStep
<1>1. Len(events) \in Nat /\ m \in Nat \ {0}
  BY LenProperties DEF Base, TypeOK
<1>2. GateStatus[m] = "inside" /\ GateStatus' = [GateStatus EXCEPT ![m] = "left"]
  BY <1>1 DEF GateStatus, Admitted, Held, NotAdmitted
<1>3. Gate!Leave(m)
  BY <1>2 DEF Gate!Leave
<1>4. events'[m].status \notin Held
  BY DEF Admitted, Held, NotAdmitted
<1>5. HeldEvents' = HeldEvents \ {m} /\ m \in HeldEvents
  BY <1>4 DEF HeldEvents
<1>6. Cardinality(HeldEvents') = Cardinality(HeldEvents) - 1
  BY <1>5, InsideHolds, FS_RemoveElement
<1>7. PlaceInv'
  BY <1>6, InsideHolds DEF PlaceInv
<1> QED BY <1>1, <1>3, <1>7 DEF GateStep, Gate!Next

\* An event comes.
LEMMA GateComes ==
  ASSUME Base, PlaceInv, NEW x \in Kept, events' = Append(events, x),
         \/ x.status \in NotAdmitted /\ pending' = pending
         \/ x.status = "DROPPED_BACKPRESSURE" /\ pending = 0 /\ pending' = pending
         \/ x.status = "acquired" /\ pending > 0 /\ pending' = pending - 1
  PROVE  GateStep
<1> DEFINE m == Len(events) + 1
<1>1. /\ Len(events) \in Nat /\ m \in Nat \ {0} /\ Len(events') = m /\ events'[m] = x
      /\ \A i \in 1..Len(events) : events'[i] = events[i]
  BY AppendProperties, LenProperties DEF Base, TypeOK
<1>2. GateStatus[m] = "new" /\ GateStatus' = [GateStatus EXCEPT ![m] = Admitted(x.status)]
  <2>1. \A i \in Nat \ {0} : i \in 1..Len(events') <=> i \in 1..Len(events) \/ i = m
    BY <1>1
  <2>2. m \notin 1..Len(events)
    BY <1>1
  <2> HIDE DEF m
  <2>3. \A i \in Nat \ {0} : GateStatus'[i] = IF i = m THEN Admitted(x.status) ELSE GateStatus[i]
    BY <1>1, <2>1, <2>2 DEF GateStatus
  <2>4. /\ GateStatus' = [i \in Nat \ {0} |-> GateStatus'[i]]
        /\ GateStatus = [i \in Nat \ {0} |-> GateStatus[i]]
    BY DEF GateStatus
  <2>5. GateStatus[m] = "new"
    BY <1>1, <2>2 DEF GateStatus
  <2> HIDE DEF GateStatus
  <2> QED BY <1>1, <2>3, <2>4, <2>5
<1>3. HeldEvents' = IF x.status \in Held THEN HeldEvents \cup {m} ELSE HeldEvents
  BY <1>1 DEF HeldEvents
<1>4. m \notin HeldEvents
  BY <1>1 DEF HeldEvents
<1> HIDE DEF m
<1>5. CASE x.status \in NotAdmitted /\ pending' = pending
  <2>1. x.status \notin Held /\ Admitted(x.status) = "new"
    BY <1>5 DEF NotAdmitted, Held, Admitted
  <2>2. GateStatus' = GateStatus
    BY <1>1, <1>2, <2>1 DEF GateStatus
  <2> QED BY <1>3, <1>5, <2>1, <2>2 DEF GateStep, PlaceInv
<1>6. CASE x.status = "DROPPED_BACKPRESSURE" /\ pending = 0 /\ pending' = pending
  <2>1. x.status \notin Held /\ Admitted(x.status) = "refused"
    BY <1>6 DEF NotAdmitted, Held, Admitted
  <2>2. Gate!Refuse(m)
    <3>1. Cardinality(Gate!Inside) = MaxPending
      BY <1>6, InsideHolds
    <3> QED BY <1>2, <2>1, <3>1, SameCount DEF Gate!Refuse
  <2> QED BY <1>1, <1>3, <1>6, <2>1, <2>2 DEF GateStep, PlaceInv, Gate!Next
<1>7. CASE x.status = "acquired" /\ pending > 0 /\ pending' = pending - 1
  <2>1. x.status \in Held /\ Admitted(x.status) = "inside"
    BY <1>7 DEF NotAdmitted, Held, Admitted
  <2>2. Gate!Admit(m)
    <3>1. Cardinality(Gate!Inside) < MaxPending
      BY <1>7, InsideHolds
    <3> QED BY <1>2, <2>1, <3>1, SameCount DEF Gate!Admit
  <2>3. Cardinality(HeldEvents') = Cardinality(HeldEvents) + 1
    BY <1>3, <1>4, <2>1, InsideHolds, FS_AddElement
  <2>4. PlaceInv'
    BY <1>7, <2>3, InsideHolds DEF PlaceInv
  <2> QED BY <1>1, <2>2, <2>4 DEF GateStep, Gate!Next
<1> QED BY <1>5, <1>6, <1>7

\* Every step of a watcher is a step of the gate.
LEMMA WatchGate ==
  ASSUME Base, PlaceInv, NEW r \in Roots, Watch(r) \/ ReadFails(r) \/ InterpretInvalid(r)
  PROVE  GateStep
<1>1. CASE UNCHANGED <<events, pending>>
  BY <1>1, GateStays
<1>2. CASE HandleAtOnce(r)
  <2>1. PICK status \in NotAdmitted \cup {"DROPPED_BACKPRESSURE"} :
            /\ events' = Append(events, Recorded(Head(watcher[r].out), status))
            /\ status = "DROPPED_BACKPRESSURE" => pending = 0
    BY <1>2, AtOnceFacts
  <2>2. Emitting(r) /\ pending' = pending
    BY <1>2 DEF HandleAtOnce
  <2>3. status \in Statuses
    BY DEF NotAdmitted, Statuses
  <2> DEFINE x == Recorded(Head(watcher[r].out), status)
  <2>4. x \in Kept /\ x.status = status
    BY <2>2, <2>3, SentWatcher, RecordedMade
  <2>5. events' = Append(events, x)
    BY <2>1
  <2> HIDE DEF x
  <2> QED BY <2>1, <2>2, <2>4, <2>5, GateComes
<1>3. CASE Acquire(r)
  <2> DEFINE x == Recorded(Head(watcher[r].out), "acquired")
  <2>1. x \in Kept /\ x.status = "acquired" /\ events' = Append(events, x)
        /\ pending > 0 /\ pending' = pending - 1
    BY <1>3, AcquireFacts
  <2> HIDE DEF x
  <2> QED BY <2>1, GateComes
<1>4. CASE SubmitAccepted(r)
  <2>1. PICK x : Restated(Mine(r), x) /\ x.status = "queued"
    BY <1>4, SubmitFacts DEF SubmitAccepted, SubmitRefused
  <2>2. events[Mine(r)].status = "acquired" /\ pending' = pending
    BY <1>4, SubmitFacts DEF Claimed, SubmitAccepted
  <2>3. \A i \in 1..Len(events) : Admitted(events'[i].status) = Admitted(events[i].status)
    BY <2>1, <2>2, RestatedFacts DEF Admitted, NotAdmitted, Held
  <2> QED BY <2>1, <2>2, <2>3, RestatedFacts, GateStays
<1>5. CASE SubmitRefused(r)
  <2>1. PICK x : Restated(Mine(r), x) /\ x.status = "ERROR"
    BY <1>5, SubmitFacts DEF SubmitAccepted, SubmitRefused
  <2>2. /\ Mine(r) \in 1..Len(events) /\ events[Mine(r)].status \in Held
        /\ pending' = pending + 1
    BY <1>5, SubmitFacts DEF Claimed, SubmitRefused, Held
  <2>3. Admitted("ERROR") = "left"
    BY DEF Admitted, NotAdmitted, Held
  <2> QED BY <2>1, <2>2, <2>3, RestatedFacts, GateLeaves
<1> QED BY <1>1, <1>2, <1>3, <1>4, <1>5 DEF Watch, Loop, ReadChanges, ReadEmpty, ReadFails,
           Interpret, InterpretInvalid, EmitNobody

\* Every step of a worker is a step of the gate.
LEMMA AnalyzeGate ==
  ASSUME Base, PlaceInv, NEW w \in Workers, Analyze(w) \/ OpenFails(w) \/ ReadRaises(w)
  PROVE  GateStep
<1>1. CASE UNCHANGED <<events, pending>>
  BY <1>1, GateStays
<1>2. CASE Release(w)
  <2>1. PICK x : Restated(job[w].ev, x) /\ x.status = "released"
    BY <1>2, ReleaseStep
  <2>2. /\ job[w].ev \in 1..Len(events) /\ events[job[w].ev].status \in Held
        /\ pending' = pending + 1
    BY <1>2, ReleaseStep DEF Held
  <2>3. Admitted("released") = "left"
    BY DEF Admitted, NotAdmitted, Held
  <2> QED BY <2>1, <2>2, <2>3, RestatedFacts, GateLeaves
<1>3. CASE AppendRecord(w)
  <2>1. PICK x : Restated(job[w].ev, x) /\ x.status = job[w].status
    BY <1>3, AppendStep
  <2>2. /\ events[job[w].ev].status = "released" /\ job[w].status \in Verdicts
        /\ pending' = pending
    BY <1>3, AppendStep
  <2>3. \A s \in Verdicts \cup {"released"} : Admitted(s) = "left"
    BY DEF Admitted, NotAdmitted, Held, Verdicts
  <2>4. \A i \in 1..Len(events) : Admitted(events'[i].status) = Admitted(events[i].status)
    BY <2>1, <2>2, <2>3, RestatedFacts
  <2> QED BY <2>1, <2>2, <2>4, RestatedFacts, GateStays
<1> QED BY <1>1, <1>2, <1>3 DEF Analyze, Take, Open, OpenFails, Read, ReadRaises, Check

\* Every step is a step of the gate.
LEMMA NextGate == ASSUME Base, PlaceInv, [Next]_vars PROVE GateStep
<1>1. CASE UNCHANGED <<events, pending>>
  BY <1>1, GateStays
<1>2. CASE UNCHANGED vars
  BY <1>1, <1>2 DEF vars
<1>3. CASE Start \/ StopFlag \/ Stop
  BY <1>1, <1>3 DEF Start, StopFlag, Stop, StopBackend, StopExecutor, Stopped
<1>4. ASSUME NEW n \in Names, Write(n) \/ Remove(n) \/ \E m \in Names : Rename(n, m)
      PROVE  GateStep
  BY <1>1, <1>4 DEF Write, Remove, Rename
<1>5. ASSUME NEW r \in Roots, Flood(r)
      PROVE  GateStep
  BY <1>1, <1>5 DEF Flood
<1> QED BY <1>2, <1>3, <1>4, <1>5, WatchGate, AnalyzeGate DEF Next

\* The gate is open at first.
LEMMA InitGate == ASSUME Init PROVE PlaceInv /\ Gate!Init
<1>1. events = <<>> /\ pending = MaxPending /\ Len(events) = 0
  BY DEF Init
<1>2. HeldEvents = {}
  BY <1>1 DEF HeldEvents
<1>3. Cardinality(HeldEvents) = 0
  BY <1>2, FS_EmptySet
<1>4. PlaceInv
  BY <1>1, <1>3, PendingAssumption DEF PlaceInv
<1>5. Gate!Init
  BY <1>1 DEF Gate!Init, GateStatus
<1> QED BY <1>4, <1>5

\* The _pending semaphore is a counted gate for any number of roots, workers, places
\* and events, and however stop() interleaves: never more analyses outstanding than
\* places, and an event is dropped for backpressure only while all places are taken.
\* The safety part of PendingImplementsAdmission, without its bound on the events.
THEOREM PendingIsAGate == Spec => Gate!Init /\ [][Gate!Next]_GateStatus
<1>1. Init => PlaceInv /\ Gate!Init
  BY InitGate
<1>2. Base /\ PlaceInv /\ [Next]_vars => PlaceInv' /\ [Gate!Next]_GateStatus
  BY NextGate DEF GateStep
<1> QED BY <1>1, <1>2, BaseAlways, PTL DEF Spec

\* Places free and places taken always make max_pending_events: none is leaked, also
\* when an analysis fails or the executor refuses it, and none is given back twice.
THEOREM PlacesAddUp == Spec => []PlaceInv
<1>1. Init => PlaceInv
  BY InitGate
<1>2. Base /\ PlaceInv /\ [Next]_vars => PlaceInv'
  BY NextGate DEF GateStep
<1> QED BY <1>1, <1>2, BaseAlways, PTL DEF Spec

-----------------------------------------------------------------------------
(* What the steps of a watcher do to its record.                           *)

\* The watcher of r becomes v.
Turn(r, v) == v \in Watcher /\ \A q \in Roots : watcher'[q] = IF q = r THEN v ELSE watcher[q]

\* A step of one watcher leaves the others alone.
LEMMA StepTurns ==
  ASSUME Base, NEW r \in Roots, NEW v \in Watcher, Step(r, v)
  PROVE  Turn(r, v)
BY DEF Base, TypeOK, Step, Turn

\* What the top of a watcher's loop does.
LEMMA LoopFacts ==
  ASSUME Base, NEW r \in Roots, Loop(r)
  PROVE  /\ watcher[r].pc = "work" /\ watcher[r].out = <<>> /\ watcher[r].buffer = <<>>
         /\ \E v : /\ Turn(r, v) /\ v.buffer = <<>>
                   /\ \/ /\ running /\ v.pc = "reading" /\ v.old = watcher[r].old /\ v.out = <<>>
                      \/ /\ ~running /\ v.pc = "ended" /\ v.old = watcher[r].old /\ v.out = <<>>
                      \/ /\ ~running /\ v.pc = "last" /\ v.old = None /\ watcher[r].old # None
                         /\ v.out = <<Deleted(watcher[r].old)>>
<1> DEFINE w == watcher[r]
           v == IF running THEN [w EXCEPT !.pc = "reading"]
                ELSE IF w.old = None THEN [w EXCEPT !.pc = "ended"]
                ELSE [w EXCEPT !.pc = "last", !.old = None, !.out = <<Deleted(w.old)>>]
<1>1. w.pc = "work" /\ w.out = <<>> /\ w.buffer = <<>> /\ watcher' = [watcher EXCEPT ![r] = v]
  BY DEF Loop, Step
<1>2. Base'
  BY LoopBase
<1>3. v = watcher'[r] /\ v \in Watcher
  BY <1>1, <1>2 DEF Base, TypeOK
<1>4. Turn(r, v)
  BY <1>1, <1>3 DEF Base, TypeOK, Turn
<1>5. /\ v.buffer = w.buffer
      /\ \/ running /\ v.pc = "reading" /\ v.old = w.old /\ v.out = w.out
         \/ ~running /\ v.pc = "ended" /\ v.old = w.old /\ v.out = w.out
         \/ ~running /\ v.pc = "last" /\ v.old = None /\ w.old # None /\ v.out = <<Deleted(w.old)>>
  <2>1. CASE running
    BY <2>1, WatcherFields DEF Watcher
  <2>2. CASE ~running /\ w.old = None
    BY <2>2, WatcherFields DEF Watcher
  <2>3. CASE ~running /\ w.old # None
    <3>1. v = [pc |-> "last", buffer |-> w.buffer, old |-> None, out |-> <<Deleted(w.old)>>]
      BY <2>3, WatcherFields DEF Watcher
    <3> HIDE DEF v
    <3> QED BY <2>3, <3>1
  <2> QED BY <2>1, <2>2, <2>3
<1> HIDE DEF v
<1> QED BY <1>1, <1>4, <1>5

\* A read that returned w, or that came back after stop().
LEMMA ResumeFacts ==
  ASSUME Base, NEW r \in Roots, NEW w \in Watcher, Resume(r, w)
  PROVE  \E v : /\ Turn(r, v)
                /\ \/ /\ running /\ v.pc = "work" /\ v.buffer = w.buffer /\ v.old = w.old
                      /\ v.out = w.out
                   \/ /\ ~running /\ v.pc = "ended" /\ v.buffer = <<>> /\ v.old = None
                      /\ v.out = <<>>
<1> DEFINE v == IF running THEN [w EXCEPT !.pc = "work"] ELSE [Idle EXCEPT !.pc = "ended"]
<1>1. Step(r, v)
  BY DEF Resume
<1>2. CASE running
  <2>1. /\ v \in Watcher /\ v.pc = "work" /\ v.buffer = w.buffer /\ v.old = w.old /\ v.out = w.out
    BY <1>2 DEF Watcher
  <2> HIDE DEF v
  <2> QED BY <1>1, <1>2, <2>1, StepTurns
<1>3. CASE ~running
  <2>1. v = [Idle EXCEPT !.pc = "ended"] /\ v \in Watcher
    BY <1>3, IdleWatcher
  <2>2. v.pc = "ended" /\ v.buffer = <<>> /\ v.old = None /\ v.out = <<>>
    BY <2>1 DEF Idle
  <2> HIDE DEF v
  <2> QED BY <1>1, <1>3, <2>1, <2>2, StepTurns
<1> QED BY <1>2, <1>3

\* What a read does.
LEMMA ReadChangesFacts ==
  ASSUME Base, NEW r \in Roots, ReadChanges(r)
  PROVE  /\ watcher[r].pc = "reading"
         /\ \E k \in 1..Len(notes[r]) :
              /\ notes' = [notes EXCEPT ![r] = SubSeq(notes[r], k + 1, Len(notes[r]))]
              /\ \E v : /\ Turn(r, v)
                        /\ \/ /\ running /\ v.pc = "work" /\ v.buffer = SubSeq(notes[r], 1, k)
                              /\ v.old = watcher[r].old /\ v.out = watcher[r].out
                           \/ /\ ~running /\ v.pc = "ended" /\ v.buffer = <<>> /\ v.old = None
                              /\ v.out = <<>>
<1>1. PICK k \in 1..Len(notes[r]) :
          /\ Resume(r, [watcher[r] EXCEPT !.buffer = SubSeq(notes[r], 1, k)])
          /\ notes' = [notes EXCEPT ![r] = SubSeq(notes[r], k + 1, Len(notes[r]))]
  BY DEF ReadChanges
<1> DEFINE s == SubSeq(notes[r], 1, k)
           w == [watcher[r] EXCEPT !.buffer = s]
<1>2. s \in Seq(Notification)
  BY Prefix, WatcherFields
<1> HIDE DEF s
<1>3. w \in Watcher /\ w.buffer = s /\ w.old = watcher[r].old /\ w.out = watcher[r].out
  BY <1>2, WatcherFields DEF Watcher
<1>4. Resume(r, w)
  BY <1>1 DEF s
<1> HIDE DEF w
<1>5. watcher[r].pc = "reading"
  BY DEF ReadChanges
<1>6. PICK v : /\ Turn(r, v)
               /\ \/ /\ running /\ v.pc = "work" /\ v.buffer = w.buffer /\ v.old = w.old
                     /\ v.out = w.out
                  \/ /\ ~running /\ v.pc = "ended" /\ v.buffer = <<>> /\ v.old = None
                     /\ v.out = <<>>
  BY <1>3, <1>4, ResumeFacts
<1>7. \/ /\ running /\ v.pc = "work" /\ v.buffer = SubSeq(notes[r], 1, k)
         /\ v.old = watcher[r].old /\ v.out = watcher[r].out
      \/ /\ ~running /\ v.pc = "ended" /\ v.buffer = <<>> /\ v.old = None
         /\ v.out = <<>>
  BY <1>3, <1>6 DEF s
<1> QED BY <1>1, <1>5, <1>6, <1>7

\* The watcher reports a loss: the buffer overflowed, the read failed.
LEMMA LossFacts ==
  ASSUME Base, NEW r \in Roots, ReadEmpty(r) \/ ReadFails(r)
  PROVE  /\ watcher[r].pc = "reading"
         /\ \E k \in 0..Len(notes[r]) :
              /\ notes' = [notes EXCEPT ![r] = SubSeq(notes[r], k + 1, Len(notes[r]))]
         /\ \E v : /\ Turn(r, v)
                   /\ \/ /\ running /\ v.pc = "work" /\ v.buffer = watcher[r].buffer
                         /\ v.old = watcher[r].old /\ v.out = <<Overflow(r)>>
                      \/ /\ ~running /\ v.pc = "ended" /\ v.buffer = <<>> /\ v.old = None
                         /\ v.out = <<>>
<1>1. /\ watcher[r].pc = "reading"
      /\ Resume(r, [watcher[r] EXCEPT !.out = <<Overflow(r)>>])
  BY DEF ReadEmpty, ReadFails
<1>2. \E k \in 0..Len(notes[r]) :
         notes' = [notes EXCEPT ![r] = SubSeq(notes[r], k + 1, Len(notes[r]))]
  <2>1. CASE ReadEmpty(r)
    <3>1. notes' = notes /\ notes \in [Roots -> Seq(Notification)] /\ notes[r] \in Seq(Notification)
      BY <2>1, WatcherFields DEF ReadEmpty, fsVars, Base, TypeOK
    <3>2. SubSeq(notes[r], 0 + 1, Len(notes[r])) = notes[r] /\ 0 \in 0..Len(notes[r])
      BY <3>1, SubSeqFull, LenProperties
    <3> QED BY <3>1, <3>2
  <2>2. CASE ReadFails(r)
    BY <2>2 DEF ReadFails
  <2> QED BY <2>1, <2>2
<1> DEFINE o == <<Overflow(r)>>
           w == [watcher[r] EXCEPT !.out = o]
<1>3. w \in Watcher
  BY LossReported
<1> HIDE DEF o
<1>4. w.buffer = watcher[r].buffer /\ w.old = watcher[r].old /\ w.out = o
  BY WatcherFields DEF Watcher
<1>5. Resume(r, w)
  BY <1>1 DEF o
<1> HIDE DEF w
<1>6. PICK v : /\ Turn(r, v)
               /\ \/ /\ running /\ v.pc = "work" /\ v.buffer = w.buffer /\ v.old = w.old
                     /\ v.out = w.out
                  \/ /\ ~running /\ v.pc = "ended" /\ v.buffer = <<>> /\ v.old = None
                     /\ v.out = <<>>
  BY <1>3, <1>5, ResumeFacts
<1>7. \/ /\ running /\ v.pc = "work" /\ v.buffer = watcher[r].buffer
         /\ v.old = watcher[r].old /\ v.out = <<Overflow(r)>>
      \/ /\ ~running /\ v.pc = "ended" /\ v.buffer = <<>> /\ v.old = None
         /\ v.out = <<>>
  BY <1>4, <1>6 DEF o
<1> QED BY <1>1, <1>2, <1>6, <1>7

\* What a notification that cannot be decoded does.
LEMMA InvalidFacts ==
  ASSUME Base, NEW r \in Roots, InterpretInvalid(r)
  PROVE  /\ watcher[r].pc = "work" /\ watcher[r].out = <<>> /\ watcher[r].buffer # <<>>
         /\ \E v : /\ Turn(r, v) /\ v.pc = "work" /\ v.buffer = Tail(watcher[r].buffer)
                   /\ v.old = watcher[r].old /\ v.out = <<Overflow(r)>>
<1> DEFINE w == watcher[r]
           o == <<Overflow(r)>>
           t == Tail(w.buffer)
           v == [w EXCEPT !.out = o, !.buffer = t]
<1>1. w.pc = "work" /\ w.out = <<>> /\ w.buffer # <<>> /\ watcher' = [watcher EXCEPT ![r] = v]
  BY DEF InterpretInvalid, Step
<1>2. Base'
  BY InterpretInvalidBase
<1>3. v = watcher'[r] /\ v \in Watcher
  BY <1>1, <1>2 DEF Base, TypeOK
<1>4. Turn(r, v)
  BY <1>1, <1>3 DEF Base, TypeOK, Turn
<1>5. v.pc = w.pc /\ v.buffer = t /\ v.old = w.old /\ v.out = o
  <2> HIDE DEF o, t
  <2> QED BY WatcherFields DEF Watcher
<1> HIDE DEF v
<1> QED BY <1>1, <1>4, <1>5

\* The three ways to interpret a notification.
LEMMA InterpretFacts ==
  ASSUME Base, NEW r \in Roots, Interpret(r)
  PROVE  /\ watcher[r].pc = "work" /\ watcher[r].out = <<>> /\ watcher[r].buffer # <<>>
         /\ taken' = taken \cup {Head(watcher[r].buffer)}
         /\ \E v : /\ Turn(r, v) /\ v.pc = "work" /\ v.buffer = Tail(watcher[r].buffer)
                   /\ LET n == Head(watcher[r].buffer)
                          o == watcher[r].old
                          stale == IF o = None THEN <<>> ELSE <<Deleted(o)>>
                      IN  \/ n.action = "RENAMED_OLD" /\ v.old = n /\ v.out = stale
                          \/ /\ n.action = "RENAMED_NEW" /\ v.old = None
                             /\ v.out = <<Event("FILE_RENAMED", n.name, n.op, o)>>
                          \/ /\ n.action \in {"ADDED", "REMOVED", "MODIFIED"} /\ v.old = None
                             /\ v.out = Append(stale, Event(EventType[n.action], n.name, n.op, None))
<1> DEFINE w == watcher[r]
           n == Head(w.buffer)
           o == w.old
           stale == IF o = None THEN <<>> ELSE <<Deleted(o)>>
           u == Interpreted(w, n)
           t == Tail(w.buffer)
           v == [u EXCEPT !.buffer = t]
<1>1. /\ w.pc = "work" /\ w.out = <<>> /\ w.buffer # <<>> /\ watcher' = [watcher EXCEPT ![r] = v]
      /\ taken' = taken \cup {n}
  BY DEF Interpret, Step
<1>2. Base'
  BY InterpretBase
<1>3. v = watcher'[r] /\ v \in Watcher
  BY <1>1, <1>2 DEF Base, TypeOK
<1>4. Turn(r, v)
  BY <1>1, <1>3 DEF Base, TypeOK, Turn
<1>5. n \in Notification /\ RootOf[n.name] = r
  BY <1>1, WatcherFields, Shorter
<1>6. n.action \in {"ADDED", "MODIFIED", "REMOVED", "RENAMED_OLD", "RENAMED_NEW"}
  BY <1>5 DEF Notification
<1>7. u \in Watcher /\ u.pc = w.pc
  BY <1>5, WatcherFields, InterpretedMade
<1>8. \/ n.action = "RENAMED_OLD" /\ u.old = n /\ u.out = stale
      \/ /\ n.action = "RENAMED_NEW" /\ u.old = None
         /\ u.out = <<Event("FILE_RENAMED", n.name, n.op, o)>>
      \/ /\ n.action \in {"ADDED", "REMOVED", "MODIFIED"} /\ u.old = None
         /\ u.out = Append(stale, Event(EventType[n.action], n.name, n.op, None))
  <2>0. w = [pc |-> w.pc, buffer |-> w.buffer, old |-> w.old, out |-> w.out]
    BY WatcherFields DEF Watcher
  <2>1. CASE n.action = "RENAMED_OLD"
    <3>1. u = [pc |-> w.pc, buffer |-> w.buffer, old |-> n, out |-> stale]
      BY <2>0, <2>1 DEF Interpreted
    <3> HIDE DEF u, stale
    <3> QED BY <2>1, <3>1
  <2>2. CASE n.action = "RENAMED_NEW"
    <3> DEFINE e == <<Event("FILE_RENAMED", n.name, n.op, o)>>
    <3>1. u = [pc |-> w.pc, buffer |-> w.buffer, old |-> None, out |-> e]
      BY <2>0, <2>2 DEF Interpreted
    <3> HIDE DEF u, e
    <3>2. u.old = None /\ u.out = e
      BY <3>1
    <3> QED BY <2>2, <3>2 DEF e
  <2>3. CASE n.action \in {"ADDED", "REMOVED", "MODIFIED"}
    <3> DEFINE e == Append(stale, Event(EventType[n.action], n.name, n.op, None))
    <3>1. u = [pc |-> w.pc, buffer |-> w.buffer, old |-> None, out |-> e]
      BY <2>0, <2>3 DEF Interpreted
    <3> HIDE DEF u, e
    <3>2. u.old = None /\ u.out = e
      BY <3>1
    <3> QED BY <2>3, <3>2 DEF e
  <2> QED BY <1>6, <2>1, <2>2, <2>3
<1>9. v.pc = u.pc /\ v.buffer = t /\ v.old = u.old /\ v.out = u.out
  <2> HIDE DEF u, t
  <2> QED BY <1>7 DEF Watcher
<1> HIDE DEF v, u
<1> QED BY <1>1, <1>4, <1>7, <1>8, <1>9

\* A message is sent: its head leaves the watcher.
LEMMA EmitFacts ==
  ASSUME Base, NEW r \in Roots, EmitNobody(r) \/ HandleAtOnce(r) \/ Acquire(r)
  PROVE  /\ watcher[r].pc \in {"work", "last"} /\ watcher[r].out # <<>>
         /\ \E v : /\ Turn(r, v) /\ v.buffer = watcher[r].buffer /\ v.old = watcher[r].old
                   /\ v.out = Tail(watcher[r].out) /\ v.pc \in {"work", "ended", "submit"}
                   /\ watcher[r].pc = "last" /\ ~Acquire(r) => v.pc = "ended"
<1>1. Emitting(r)
  BY DEF EmitNobody, HandleAtOnce, Acquire
<1>2. watcher[r].pc \in {"work", "last"} /\ watcher[r].out # <<>>
  BY <1>1 DEF Emitting
<1>3. CASE EmitNobody(r) \/ HandleAtOnce(r)
  <2> DEFINE v == Sent(watcher[r])
  <2>1. Step(r, v)
    BY <1>3 DEF EmitNobody, HandleAtOnce
  <2>2. /\ v \in Watcher /\ v.buffer = watcher[r].buffer /\ v.old = watcher[r].old
        /\ v.out = Tail(watcher[r].out) /\ v.pc \in {"work", "ended"}
    BY <1>1, SentWatcher
  <2>3. watcher[r].pc = "last" => v.pc = "ended"
    BY SentFields, WatcherFields
  <2> HIDE DEF v
  <2> QED BY <1>2, <2>1, <2>2, <2>3, StepTurns
<1>4. CASE Acquire(r)
  <2> DEFINE v == [Sent(watcher[r]) EXCEPT !.pc = "submit"]
  <2>1. /\ Step(r, v) /\ v \in Watcher /\ v.buffer = watcher[r].buffer /\ v.old = watcher[r].old
        /\ v.out = Tail(watcher[r].out) /\ v.pc = "submit"
    BY <1>4, AcquireFacts
  <2> HIDE DEF v
  <2> QED BY <1>2, <1>4, <2>1, StepTurns
<1> QED BY <1>3, <1>4

-----------------------------------------------------------------------------
(* How far the monitor has been started.                                   *)

\* A step that starts and stops nothing keeps PhaseInv.
LEMMA PhaseFrame ==
  ASSUME PhaseInv, UNCHANGED <<running, callback, caller>>,
         caller = "new" => UNCHANGED <<taken, notes, watcher>>,
         \A r \in Roots :
           /\ Len(watcher'[r].out) <= 2
           /\ watcher'[r].pc = "reading" => watcher'[r].out = <<>> /\ watcher'[r].buffer = <<>>
           /\ watcher'[r].pc = "last" =>
                \A k \in 1..Len(watcher'[r].out) : watcher'[r].out[k].type = "FILE_DELETED"
  PROVE  PhaseInv'
BY DEF PhaseInv

\* No watcher runs before start().
LEMMA Started ==
  ASSUME PhaseInv, NEW r \in Roots, watcher[r].pc # "off"
  PROVE  caller # "new"
BY DEF PhaseInv, Idle

\* At most one message.
LEMMA Short ==
  /\ \A s : s = <<>> => Len(s) <= 2
  /\ \A s, e : s = <<e>> => Len(s) <= 2
<1>1. ASSUME NEW s, s = <<>> PROVE Len(s) <= 2
  BY <1>1
<1>2. ASSUME NEW s, NEW e, s = <<e>> PROVE Len(s) <= 2
  BY <1>2
<1> QED BY <1>1, <1>2

\* The step of one watcher.
LEMMA TurnPhase ==
  ASSUME PhaseInv, NEW r \in Roots, watcher[r].pc # "off", NEW v, Turn(r, v),
         UNCHANGED <<running, callback, caller>>,
         Len(v.out) <= 2, v.pc = "reading" => v.out = <<>> /\ v.buffer = <<>>,
         v.pc = "last" => \A k \in 1..Len(v.out) : v.out[k].type = "FILE_DELETED"
  PROVE  PhaseInv'
<1>1. caller # "new"
  BY Started
<1>2. \A q \in Roots :
        /\ Len(watcher'[q].out) <= 2
        /\ watcher'[q].pc = "reading" => watcher'[q].out = <<>> /\ watcher'[q].buffer = <<>>
        /\ watcher'[q].pc = "last" =>
             \A k \in 1..Len(watcher'[q].out) : watcher'[q].out[k].type = "FILE_DELETED"
  BY DEF PhaseInv, Turn
<1> QED BY <1>1, <1>2, PhaseFrame

\* Every step of a watcher keeps PhaseInv.
LEMMA WatchPhase ==
  ASSUME Base, PhaseInv, NEW r \in Roots, Watch(r) \/ ReadFails(r) \/ InterpretInvalid(r)
  PROVE  PhaseInv'
<1>0. UNCHANGED <<running, callback, caller>>
  BY DEF Watch, Loop, ReadChanges, ReadEmpty, ReadFails, Interpret, InterpretInvalid, EmitNobody,
         HandleAtOnce, Acquire, SubmitAccepted, SubmitRefused, ctlVars
<1>w. Len(watcher[r].out) <= 2 /\ Len(watcher[r].out) \in Nat
  BY WatcherFields, LenProperties DEF PhaseInv
<1>1. CASE Loop(r)
  <2>1. PICK v : /\ Turn(r, v) /\ v.buffer = <<>>
                 /\ \/ v.out = <<>>
                    \/ v.pc = "last" /\ v.out = <<Deleted(watcher[r].old)>>
    BY <1>1, LoopFacts
  <2>2. Len(v.out) <= 2
    BY <2>1, Short
  <2>3. v.pc = "last" => \A k \in 1..Len(v.out) : v.out[k].type = "FILE_DELETED"
    <3>1. CASE v.out = <<>>
      <4>1. Len(v.out) = 0
        BY <3>1
      <4> QED BY <4>1
    <3>2. CASE v.out = <<Deleted(watcher[r].old)>>
      <4> DEFINE e == Deleted(watcher[r].old)
      <4>1. e.type = "FILE_DELETED"
        BY DEF Deleted, Event
      <4> HIDE DEF e
      <4>2. Len(v.out) = 1 /\ v.out[1] = e
        BY <3>2 DEF e
      <4>3. \A k \in 1..Len(v.out) : k = 1
        BY <4>2
      <4> QED BY <4>1, <4>2, <4>3
    <3> QED BY <2>1, <3>1, <3>2
  <2> QED BY <1>0, <1>1, <2>1, <2>2, <2>3, TurnPhase DEF Loop
<1>2. CASE ReadChanges(r)
  <2>1. watcher[r].pc = "reading" /\ \E v : /\ Turn(r, v) /\ v.pc \in {"work", "ended"}
                                            /\ v.out = watcher[r].out \/ v.out = <<>>
    BY <1>2, ReadChangesFacts
  <2>2. PICK v : Turn(r, v) /\ v.pc \in {"work", "ended"} /\ (v.out = watcher[r].out \/ v.out = <<>>)
    BY <2>1
  <2>3. Len(v.out) <= 2
    BY <1>w, <2>2, Short
  <2> QED BY <1>0, <2>1, <2>2, <2>3, TurnPhase
<1>3. CASE ReadEmpty(r) \/ ReadFails(r)
  <2>1. PICK v : Turn(r, v) /\ v.pc \in {"work", "ended"} /\ v.out \in {<<>>, <<Overflow(r)>>}
    BY <1>3, LossFacts
  <2>2. Len(v.out) <= 2
    BY <2>1, Short
  <2> QED BY <1>0, <1>3, <2>1, <2>2, TurnPhase DEF ReadEmpty, ReadFails
<1>4. CASE Interpret(r)
  <2> DEFINE n == Head(watcher[r].buffer)
             o == watcher[r].old
             stale == IF o = None THEN <<>> ELSE <<Deleted(o)>>
             e == Event("FILE_RENAMED", n.name, n.op, o)
             f == Event(EventType[n.action], n.name, n.op, None)
  <2>1. PICK v : /\ Turn(r, v) /\ v.pc = "work"
                 /\ v.out = stale \/ v.out = <<e>> \/ v.out = Append(stale, f)
    BY <1>4, InterpretFacts
  <2>2. Len(stale) <= 2 /\ Len(Append(stale, f)) <= 2 /\ Len(<<e>>) <= 2
    <3> HIDE DEF e, f
    <3>1. CASE o = None
      BY <3>1
    <3>2. CASE o # None
      BY <3>2
    <3> QED BY <3>1, <3>2
  <2> DEFINE a == Append(stale, f)
             b == <<e>>
  <2> HIDE DEF stale, a, b
  <2>3. v.out = stale \/ v.out = b \/ v.out = a
    BY <2>1 DEF a, b
  <2>4. Len(stale) <= 2 /\ Len(a) <= 2 /\ Len(b) <= 2
    BY <2>2 DEF a, b
  <2>5. Len(v.out) <= 2
    BY ONLY <2>3, <2>4
  <2> QED BY <1>0, <1>4, <2>1, <2>5, TurnPhase DEF Interpret
<1>5. CASE InterpretInvalid(r)
  <2>1. PICK v : Turn(r, v) /\ v.pc = "work" /\ v.out = <<Overflow(r)>>
    BY <1>5, InvalidFacts
  <2>2. Len(v.out) <= 2
    BY <2>1, Short
  <2> QED BY <1>0, <1>5, <2>1, <2>2, TurnPhase DEF InterpretInvalid
<1>6. CASE EmitNobody(r) \/ HandleAtOnce(r) \/ Acquire(r)
  <2>1. /\ watcher[r].pc \in {"work", "last"} /\ watcher[r].out # <<>>
        /\ \E v : /\ Turn(r, v) /\ v.out = Tail(watcher[r].out) /\ v.pc \in {"work", "ended", "submit"}
    BY <1>6, EmitFacts
  <2>2. PICK v : Turn(r, v) /\ v.out = Tail(watcher[r].out) /\ v.pc \in {"work", "ended", "submit"}
    BY <2>1
  <2>3. Len(v.out) = Len(watcher[r].out) - 1
    BY <2>1, <2>2, WatcherFields, TailOf
  <2>4. Len(v.out) <= 2 /\ v.pc # "reading" /\ watcher[r].pc # "off"
    BY <1>w, <2>1, <2>2, <2>3
  <2> QED BY <1>0, <2>2, <2>4, TurnPhase
<1>7. CASE SubmitAccepted(r) \/ SubmitRefused(r)
  <2>1. /\ watcher[r].pc = "submit"
        /\ \E v : Step(r, v) /\ v \in Watcher /\ v.pc = "work" /\ v.out = watcher[r].out
    BY <1>7, SubmitFacts
  <2>2. PICK v : Step(r, v) /\ v \in Watcher /\ v.pc = "work" /\ v.out = watcher[r].out
    BY <2>1
  <2> QED BY <1>0, <1>w, <2>1, <2>2, StepTurns, TurnPhase
<1> QED BY <1>1, <1>2, <1>3, <1>4, <1>5, <1>6, <1>7 DEF Watch

\* Every step keeps PhaseInv.
LEMMA NextPhase == ASSUME Base, PhaseInv, [Next]_vars PROVE PhaseInv'
<1>1. CASE UNCHANGED <<running, callback, caller, taken, notes, watcher>>
  BY <1>1 DEF PhaseInv
<1>2. CASE UNCHANGED vars
  BY <1>1, <1>2 DEF vars, fsVars, ctlVars
<1>3. CASE Start
  <2>1. PICK opened \in BOOLEAN :
           /\ running' = opened /\ callback' = opened
           /\ caller' = IF opened THEN "up" ELSE "degraded"
           /\ watcher' = [r \in Roots |-> [Idle EXCEPT !.pc = IF opened THEN "work" ELSE "off"]]
    BY <1>3 DEF Start
  <2>2. \A r \in Roots : watcher'[r].out = <<>> /\ watcher'[r].pc \notin {"reading", "last"}
    BY <2>1 DEF Idle
  <2>3. Len(<<>>) <= 2
    OBVIOUS
  <2> QED BY <2>1, <2>2, <2>3 DEF PhaseInv
<1>4. CASE StopFlag \/ Stop
  BY <1>4 DEF StopFlag, Stop, StopBackend, StopExecutor, Stopped, PhaseInv, fsVars
<1>5. ASSUME NEW n \in Names, Write(n) \/ Remove(n) \/ \E m \in Names : Rename(n, m)
      PROVE  PhaseInv'
  <2>1. caller # "new" /\ UNCHANGED <<running, callback, caller, watcher>>
    BY <1>5 DEF Write, Remove, Rename, Changing, ctlVars
  <2> QED BY <2>1 DEF PhaseInv
<1>6. ASSUME NEW r \in Roots, Flood(r)
      PROVE  PhaseInv'
  <2>1. notes[r] # <<>> /\ UNCHANGED <<running, callback, caller, watcher>>
    BY <1>6 DEF Flood, ctlVars
  <2> QED BY <2>1 DEF PhaseInv
<1>7. ASSUME NEW w \in Workers, Analyze(w) \/ OpenFails(w) \/ ReadRaises(w)
      PROVE  PhaseInv'
  BY <1>1, <1>7 DEF Analyze, Take, Open, OpenFails, Read, ReadRaises, Check, Release, AppendRecord,
                    Work, fsVars, ctlVars
<1> QED BY <1>2, <1>3, <1>4, <1>5, <1>6, <1>7, WatchPhase DEF Next

-----------------------------------------------------------------------------
(* The notifications, taken and to be interpreted.                         *)

\* What is left of the flow of r is a window of it.
Window(r) ==
  \E k \in Nat : \A i \in 1..Len(Flow(r)') :
    i + k \in 1..Len(Flow(r)) /\ Flow(r)'[i] = Flow(r)[i + k]

\* A flow that loses notifications at its front, or all of them, keeps FlowInv.
LEMMA FlowShrinks ==
  ASSUME FlowInv, UNCHANGED <<taken, ops>>,
         \A r \in Roots : /\ watcher'[r].old \in {watcher[r].old, None}
                          /\ Alive(r)' => Alive(r) /\ watcher'[r].old = watcher[r].old
                          /\ Window(r)
  PROVE  FlowInv'
<1>1. TakenInv /\ TakenInv'
  BY DEF FlowInv, TakenInv
<1>2. ASSUME NEW r \in Roots PROVE Fresh(r)' /\ Paired(r)'
  <2>1. PICK k \in Nat : \A i \in 1..Len(Flow(r)') :
           i + k \in 1..Len(Flow(r)) /\ Flow(r)'[i] = Flow(r)[i + k]
    BY DEF Window
  <2>2. Fresh(r) /\ Paired(r)
    BY DEF FlowInv
  <2>3. Fresh(r)'
    <3>1. ASSUME NEW i \in 1..Len(Flow(r)') PROVE
            /\ Flow(r)'[i].op \in 1..ops'
            /\ \A n \in taken' : ~SameKey(n, Flow(r)'[i])
      BY <2>1, <2>2 DEF Fresh
    <3>2. ASSUME NEW i \in 1..Len(Flow(r)'), NEW j \in 1..Len(Flow(r)'), i # j
          PROVE  ~SameKey(Flow(r)'[i], Flow(r)'[j])
      <4>1. /\ i + k \in 1..Len(Flow(r)) /\ j + k \in 1..Len(Flow(r)) /\ i + k # j + k
            /\ Flow(r)'[i] = Flow(r)[i + k] /\ Flow(r)'[j] = Flow(r)[j + k]
        BY <2>1, <3>2
      <4> QED BY <2>2, <4>1 DEF Fresh
    <3> QED BY <3>1, <3>2 DEF Fresh, SameKey
  <2>4. Paired(r)'
    <3>1. ASSUME NEW i \in 1..Len(Flow(r)') PROVE
            /\ Flow(r)'[i].action = "RENAMED_OLD" =>
                 \A n \in taken : n.action = "RENAMED_NEW" => n.op # Flow(r)'[i].op
            /\ Flow(r)'[i].action = "RENAMED_NEW" =>
                 /\ \A j \in 1..Len(Flow(r)') :
                      Flow(r)'[j].action = "RENAMED_OLD" /\ Flow(r)'[j].op = Flow(r)'[i].op
                        => j = i - 1
                 /\ \A n \in taken :
                      Alive(r)' /\ n.action = "RENAMED_OLD" /\ n.op = Flow(r)'[i].op =>
                        i = 1 /\ watcher'[r].old = n
      <4>1. i + k \in 1..Len(Flow(r)) /\ Flow(r)'[i] = Flow(r)[i + k] /\ i \in Int /\ i >= 1
        BY <2>1
      <4>2. Flow(r)'[i].action = "RENAMED_OLD" =>
               \A n \in taken : n.action = "RENAMED_NEW" => n.op # Flow(r)'[i].op
        BY <2>2, <4>1 DEF Paired
      <4>3. ASSUME Flow(r)'[i].action = "RENAMED_NEW", NEW j \in 1..Len(Flow(r)'),
                   Flow(r)'[j].action = "RENAMED_OLD", Flow(r)'[j].op = Flow(r)'[i].op
            PROVE  j = i - 1
        <5>1. j + k \in 1..Len(Flow(r)) /\ Flow(r)'[j] = Flow(r)[j + k] /\ j \in Int
          BY <2>1
        <5>2. j + k = i + k - 1
          BY <2>2, <4>1, <4>3, <5>1 DEF Paired
        <5> QED BY <4>1, <5>1, <5>2
      <4>4. ASSUME Flow(r)'[i].action = "RENAMED_NEW", NEW n \in taken,
                   Alive(r)', n.action = "RENAMED_OLD", n.op = Flow(r)'[i].op
            PROVE  i = 1 /\ watcher'[r].old = n
        <5>1. i + k = 1 /\ watcher[r].old = n
          BY <2>2, <4>1, <4>4 DEF Paired
        <5> QED BY <4>1, <4>4, <5>1
      <4> QED BY <4>2, <4>3, <4>4
    <3> QED BY <3>1 DEF Paired
  <2> QED BY <2>3, <2>4
<1>3. ASSUME NEW r \in Roots, NEW s \in Roots, r # s PROVE Apart(r, s)'
  <2>1. Apart(r, s)
    BY <1>3 DEF FlowInv
  <2>2. PICK k \in Nat : \A i \in 1..Len(Flow(r)') :
           i + k \in 1..Len(Flow(r)) /\ Flow(r)'[i] = Flow(r)[i + k]
    BY DEF Window
  <2>3. PICK l \in Nat : \A i \in 1..Len(Flow(s)') :
           i + l \in 1..Len(Flow(s)) /\ Flow(s)'[i] = Flow(s)[i + l]
    BY DEF Window
  <2> QED BY <2>1, <2>2, <2>3 DEF Apart
<1> QED BY <1>1, <1>2, <1>3 DEF FlowInv

\* The first notification of the flow of r is interpreted.
LEMMA FlowTaken ==
  ASSUME FlowInv, NEW r \in Roots, Len(Flow(r)) \in Nat \ {0}, NEW h, h = Flow(r)[1],
         taken' = taken \cup {h}, ops' = ops, Alive(r),
         \A q \in Roots : q # r => Flow(q)' = Flow(q) /\ watcher'[q] = watcher[q],
         Len(Flow(r)') = Len(Flow(r)) - 1,
         \A i \in 1..Len(Flow(r)) - 1 : Flow(r)'[i] = Flow(r)[i + 1],
         watcher'[r].old = IF h.action = "RENAMED_OLD" THEN h ELSE None
  PROVE  FlowInv'
<1>0. TakenInv /\ Fresh(r) /\ Paired(r) /\ 1 \in 1..Len(Flow(r))
  BY DEF FlowInv
<1>1. TakenInv'
  <2>1. \A n \in taken' : n.op \in 1..ops'
    BY <1>0 DEF TakenInv, Fresh
  <2>2. \A n, m \in taken' : SameKey(n, m) => n = m
    BY <1>0 DEF TakenInv, Fresh, SameKey
  <2>3. \A q \in Roots : watcher'[q].old # None =>
          watcher'[q].old \in taken' /\ watcher'[q].old.action = "RENAMED_OLD"
    BY <1>0 DEF TakenInv
  <2> QED BY <2>1, <2>2, <2>3 DEF TakenInv, SameKey
<1>s. ASSUME NEW i \in 1..Len(Flow(r)')
      PROVE  /\ i + 1 \in 1..Len(Flow(r)) /\ Flow(r)'[i] = Flow(r)[i + 1] /\ i + 1 # 1
             /\ i \in Int /\ i >= 1
  OBVIOUS
<1>2. Fresh(r)'
  <2>1. ASSUME NEW i \in 1..Len(Flow(r)') PROVE
          /\ Flow(r)'[i].op \in 1..ops'
          /\ \A n \in taken' : ~SameKey(n, Flow(r)'[i])
    BY <1>0, <1>s DEF Fresh
  <2>2. ASSUME NEW i \in 1..Len(Flow(r)'), NEW j \in 1..Len(Flow(r)'), i # j
        PROVE  ~SameKey(Flow(r)'[i], Flow(r)'[j])
    <3>1. i + 1 # j + 1
      BY <1>s, <2>2
    <3> QED BY <1>0, <1>s, <3>1 DEF Fresh
  <2> QED BY <2>1, <2>2 DEF Fresh, SameKey
<1>3. Paired(r)'
  <2>1. ASSUME NEW i \in 1..Len(Flow(r)'), Flow(r)'[i].action = "RENAMED_OLD",
               NEW n \in taken', n.action = "RENAMED_NEW"
        PROVE  n.op # Flow(r)'[i].op
    <3>1. CASE n \in taken
      BY <1>0, <1>s, <2>1, <3>1 DEF Paired
    <3>2. CASE n = h /\ n.op = Flow(r)'[i].op
      <4>1. i + 1 = 1 - 1
        BY <1>0, <1>s, <2>1, <3>2 DEF Paired
      <4> QED BY <1>s, <4>1
    <3> QED BY <3>1, <3>2
  <2>2. ASSUME NEW i \in 1..Len(Flow(r)'), Flow(r)'[i].action = "RENAMED_NEW",
               NEW j \in 1..Len(Flow(r)'),
               Flow(r)'[j].action = "RENAMED_OLD", Flow(r)'[j].op = Flow(r)'[i].op
        PROVE  j = i - 1
    <3>1. j + 1 = i + 1 - 1
      BY <1>0, <1>s, <2>2 DEF Paired
    <3> QED BY <1>s, <3>1
  <2>3. ASSUME NEW i \in 1..Len(Flow(r)'), Flow(r)'[i].action = "RENAMED_NEW",
               NEW n \in taken', n.action = "RENAMED_OLD", n.op = Flow(r)'[i].op
        PROVE  i = 1 /\ watcher'[r].old = n
    <3>1. CASE n \in taken
      <4>1. i + 1 = 1
        BY <1>0, <1>s, <2>3, <3>1 DEF Paired
      <4> QED BY <1>s, <4>1
    <3>2. CASE n = h
      <4>1. 1 = i + 1 - 1
        BY <1>0, <1>s, <2>3, <3>2 DEF Paired
      <4> QED BY <1>s, <2>3, <3>2, <4>1
    <3> QED BY <3>1, <3>2
  <2> QED BY <2>1, <2>2, <2>3 DEF Paired
<1>4. ASSUME NEW q \in Roots, q # r PROVE Fresh(q)' /\ Paired(q)'
  <2>1. Fresh(q) /\ Paired(q) /\ Apart(r, q)
    BY <1>4 DEF FlowInv
  <2>2. Flow(q)' = Flow(q) /\ watcher'[q] = watcher[q] /\ (Alive(q)' <=> Alive(q))
    BY <1>4 DEF Alive
  <2>3. \A i \in 1..Len(Flow(q)) : h.op # Flow(q)[i].op
    BY <1>0, <2>1 DEF Apart
  <2>4. Fresh(q)'
    BY <2>1, <2>2, <2>3 DEF Fresh, SameKey
  <2>5. Paired(q)'
    BY <2>1, <2>2, <2>3 DEF Paired
  <2> QED BY <2>4, <2>5
<1>5. ASSUME NEW p \in Roots, NEW q \in Roots, p # q PROVE Apart(p, q)'
  <2>1. Apart(p, q) /\ Apart(q, p)
    BY <1>5 DEF FlowInv
  <2>2. \A x \in Roots : \A i \in 1..Len(Flow(x)') :
          \E a \in 1..Len(Flow(x)) : Flow(x)'[i] = Flow(x)[a]
    BY <1>s
  <2>3. ASSUME NEW i \in 1..Len(Flow(p)'), NEW j \in 1..Len(Flow(q)')
        PROVE  Flow(p)'[i].op # Flow(q)'[j].op
    <3>1. PICK a \in 1..Len(Flow(p)) : Flow(p)'[i] = Flow(p)[a]
      BY <2>2
    <3>2. PICK b \in 1..Len(Flow(q)) : Flow(q)'[j] = Flow(q)[b]
      BY <2>2
    <3> QED BY <2>1, <3>1, <3>2 DEF Apart
  <2> QED BY <2>3 DEF Apart
<1> QED BY <1>1, <1>2, <1>3, <1>4, <1>5 DEF FlowInv

\* The kernel appends the m notifications of one operation to the flow of r.
Grows(r, m, new) ==
  /\ \A q \in Roots : q # r => Flow(q)' = Flow(q)
  /\ Len(Flow(r)) \in Nat /\ Len(Flow(r)') = Len(Flow(r)) + m
  /\ \A i \in 1..Len(Flow(r)) : Flow(r)'[i] = Flow(r)[i]
  /\ \A i \in 1..m : Flow(r)'[Len(Flow(r)) + i] = new[i] /\ new[i].op = ops + 1
  /\ \A i, j \in 1..m : i # j => new[i].name # new[j].name
  /\ \A i, j \in 1..m :
       new[i].action = "RENAMED_NEW" /\ new[j].action = "RENAMED_OLD" => j = i - 1

\* New notifications of one operation keep FlowInv.
LEMMA FlowGrows ==
  ASSUME FlowInv, ops \in Nat, NEW r \in Roots, NEW m \in Nat, NEW new, Grows(r, m, new),
         UNCHANGED <<taken, watcher>>, ops' = ops + 1
  PROVE  FlowInv'
<1> USE DEF Grows
<1> DEFINE l == Len(Flow(r))
<1>0. TakenInv /\ Fresh(r) /\ Paired(r)
  BY DEF FlowInv
<1>1. TakenInv'
  BY <1>0 DEF TakenInv, SameKey
<1>a. ASSUME NEW i \in 1..Len(Flow(r)'), i <= l
      PROVE  i \in 1..l /\ Flow(r)'[i] = Flow(r)[i] /\ Flow(r)'[i].op \in 1..ops
  <2>1. i \in 1..l
    BY <1>a
  <2> QED BY <1>0, <2>1 DEF Fresh
<1>b. ASSUME NEW i \in 1..Len(Flow(r)'), ~(i <= l)
      PROVE  i - l \in 1..m /\ Flow(r)'[i] = new[i - l] /\ Flow(r)'[i].op = ops + 1
  <2>1. i - l \in 1..m /\ i = l + (i - l)
    BY <1>b
  <2> QED BY <2>1
<1>c. \A n \in taken : n.op \in 1..ops /\ n.op # ops + 1
  BY <1>0 DEF TakenInv
<1>2. Fresh(r)'
  <2>1. ASSUME NEW i \in 1..Len(Flow(r)') PROVE
          /\ Flow(r)'[i].op \in 1..ops'
          /\ \A n \in taken' : ~SameKey(n, Flow(r)'[i])
    <3>1. CASE i <= l
      BY <1>0, <1>a, <3>1 DEF Fresh
    <3>2. CASE ~(i <= l)
      BY <1>b, <1>c, <3>2 DEF SameKey
    <3> QED BY <3>1, <3>2
  <2>2. ASSUME NEW i \in 1..Len(Flow(r)'), NEW j \in 1..Len(Flow(r)'), i # j
        PROVE  ~SameKey(Flow(r)'[i], Flow(r)'[j])
    <3>1. CASE i <= l /\ j <= l
      BY <1>0, <1>a, <2>2, <3>1 DEF Fresh
    <3>2. CASE ~(i <= l) /\ ~(j <= l)
      <4>1. /\ i - l \in 1..m /\ Flow(r)'[i] = new[i - l]
            /\ j - l \in 1..m /\ Flow(r)'[j] = new[j - l]
        BY <1>b, <3>2
      <4>2. i - l # j - l
        BY <2>2, <3>2
      <4> QED BY <4>1, <4>2 DEF SameKey
    <3>3. CASE ~(i <= l /\ j <= l) /\ ~(~(i <= l) /\ ~(j <= l))
      <4>1. Flow(r)'[i].op # Flow(r)'[j].op
        BY <1>a, <1>b, <3>3
      <4> QED BY <4>1 DEF SameKey
    <3> QED BY <3>1, <3>2, <3>3
  <2> QED BY <2>1, <2>2 DEF Fresh, SameKey
<1>3. Paired(r)'
  <2>1. ASSUME NEW i \in 1..Len(Flow(r)'), Flow(r)'[i].action = "RENAMED_OLD",
               NEW n \in taken', n.action = "RENAMED_NEW"
        PROVE  n.op # Flow(r)'[i].op
    <3>1. CASE i <= l
      BY <1>0, <1>a, <2>1, <3>1 DEF Paired
    <3>2. CASE ~(i <= l)
      BY <1>b, <1>c, <3>2
    <3> QED BY <3>1, <3>2
  <2>2. ASSUME NEW i \in 1..Len(Flow(r)'), Flow(r)'[i].action = "RENAMED_NEW",
               NEW j \in 1..Len(Flow(r)'),
               Flow(r)'[j].action = "RENAMED_OLD", Flow(r)'[j].op = Flow(r)'[i].op
        PROVE  j = i - 1
    <3>1. CASE i <= l /\ j <= l
      BY <1>0, <1>a, <2>2, <3>1 DEF Paired
    <3>2. CASE ~(i <= l) /\ ~(j <= l)
      <4>1. /\ i - l \in 1..m /\ Flow(r)'[i] = new[i - l]
            /\ j - l \in 1..m /\ Flow(r)'[j] = new[j - l]
        BY <1>b, <3>2
      <4>2. new[i - l].action = "RENAMED_NEW" /\ new[j - l].action = "RENAMED_OLD"
        BY ONLY <2>2, <4>1
      <4>3. \A a, b \in 1..m :
              new[a].action = "RENAMED_NEW" /\ new[b].action = "RENAMED_OLD" => b = a - 1
        OBVIOUS
      <4>4. j - l = i - l - 1
        BY ONLY <4>1, <4>2, <4>3
      <4>5. i \in Int /\ j \in Int /\ l \in Int
        OBVIOUS
      <4> QED BY ONLY <4>4, <4>5
    <3>3. CASE ~(i <= l /\ j <= l) /\ ~(~(i <= l) /\ ~(j <= l))
      BY <1>a, <1>b, <2>2, <3>3
    <3> QED BY <3>1, <3>2, <3>3
  <2>3. ASSUME NEW i \in 1..Len(Flow(r)'), Flow(r)'[i].action = "RENAMED_NEW", Alive(r)',
               NEW n \in taken', n.action = "RENAMED_OLD", n.op = Flow(r)'[i].op
        PROVE  i = 1 /\ watcher'[r].old = n
    <3>1. n.op \in 1..ops /\ Alive(r)
      BY <1>0, <2>3 DEF TakenInv, Alive
    <3>2. i \in 1..l /\ Flow(r)'[i] = Flow(r)[i]
      BY <1>a, <1>b, <1>c, <2>3, <3>1
    <3> QED BY <1>0, <2>3, <3>1, <3>2 DEF Paired
  <2> QED BY <2>1, <2>2, <2>3 DEF Paired
<1>4. ASSUME NEW q \in Roots, q # r PROVE Fresh(q)' /\ Paired(q)'
  <2>1. Fresh(q) /\ Paired(q) /\ Flow(q)' = Flow(q) /\ (Alive(q)' <=> Alive(q))
    BY <1>4 DEF FlowInv, Alive
  <2>2. Fresh(q)'
    BY <2>1 DEF Fresh, SameKey
  <2>3. Paired(q)'
    BY <2>1 DEF Paired
  <2> QED BY <2>2, <2>3
<1>5. ASSUME NEW p \in Roots, NEW q \in Roots, p # q PROVE Apart(p, q)'
  <2>1. Apart(p, q) /\ Fresh(p) /\ Fresh(q)
    BY <1>5 DEF FlowInv
  <2>2. \A x \in Roots : \A i \in 1..Len(Flow(x)) : Flow(x)[i].op \in 1..ops
    BY DEF FlowInv, Fresh
  <2>3. CASE p # r /\ q # r
    BY <2>1, <2>3 DEF Apart
  <2>4. CASE p = r
    <3>1. ASSUME NEW i \in 1..Len(Flow(r)'), NEW j \in 1..Len(Flow(q))
          PROVE  Flow(r)'[i].op # Flow(q)[j].op
      <4>1. CASE i <= l
        BY <1>a, <2>1, <2>4, <4>1 DEF Apart
      <4>2. CASE ~(i <= l)
        BY <1>b, <2>2, <4>2
      <4> QED BY <4>1, <4>2
    <3> QED BY <1>5, <2>4, <3>1 DEF Apart
  <2>5. CASE q = r
    <3>1. ASSUME NEW i \in 1..Len(Flow(r)'), NEW j \in 1..Len(Flow(p))
          PROVE  Flow(p)[j].op # Flow(r)'[i].op
      <4>1. CASE i <= l
        BY <1>a, <2>1, <2>5, <4>1 DEF Apart
      <4>2. CASE ~(i <= l)
        BY <1>b, <2>2, <4>2
      <4> QED BY <4>1, <4>2
    <3> QED BY <1>5, <2>5, <3>1 DEF Apart
  <2> QED BY <2>3, <2>4, <2>5
<1> QED BY <1>1, <1>2, <1>3, <1>4, <1>5 DEF FlowInv

\* A flow is what the watcher holds and then what the kernel holds.
LEMMA Joined ==
  ASSUME NEW b \in Seq(Notification), NEW s \in Seq(Notification)
  PROVE  /\ Len(b) \in Nat /\ Len(s) \in Nat /\ Len(b \o s) = Len(b) + Len(s)
         /\ \A i \in 1..Len(b) + Len(s) :
              (b \o s)[i] = IF i <= Len(b) THEN b[i] ELSE s[i - Len(b)]
BY LenProperties, ConcatProperties

\* A flow is the watcher's buffer and then the kernel's.
LEMMA FlowFields ==
  ASSUME Base, NEW r \in Roots
  PROVE  /\ Len(Flow(r)) = Len(watcher[r].buffer) + Len(notes[r])
         /\ Len(watcher[r].buffer) \in Nat /\ Len(notes[r]) \in Nat
         /\ \A i \in 1..Len(Flow(r)) :
              Flow(r)[i] = IF i <= Len(watcher[r].buffer) THEN watcher[r].buffer[i]
                           ELSE notes[r][i - Len(watcher[r].buffer)]
BY WatcherFields, Joined DEF Flow

\* An unchanged flow is a part of itself.
LEMMA SameFlow ==
  ASSUME Base, NEW r \in Roots, Flow(r)' = Flow(r)
  PROVE  Window(r)
<1>1. \A i \in 1..Len(Flow(r)') : i + 0 \in 1..Len(Flow(r)) /\ Flow(r)'[i] = Flow(r)[i + 0]
  OBVIOUS
<1> QED BY <1>1 DEF Window

\* A prefix and the rest make the whole.
LEMMA Split ==
  ASSUME NEW s \in Seq(Notification), NEW k \in 1..Len(s)
  PROVE  SubSeq(s, 1, k) \o SubSeq(s, k + 1, Len(s)) = s
<1>1. Len(s) \in Nat
  BY LenProperties
<1>2. 1 \in 1..Len(s) + 1 /\ k \in (1 - 1)..Len(s) /\ Len(s) \in k..Len(s)
  BY <1>1
<1>3. SubSeq(s, 1, k) \o SubSeq(s, k + 1, Len(s)) = SubSeq(s, 1, Len(s))
  BY <1>2, ConcatAdjacentSubSeq
<1> QED BY <1>3, SubSeqFull

\* Notifications are read, and dropped when stop() came or the read failed.
LEMMA ReadWindow ==
  ASSUME Base, NEW r \in Roots, NEW k \in 0..Len(notes[r]), watcher[r].buffer = <<>>,
         notes'[r] = SubSeq(notes[r], k + 1, Len(notes[r])),
         \/ watcher'[r].buffer = <<>>
         \/ k > 0 /\ watcher'[r].buffer = SubSeq(notes[r], 1, k)
  PROVE  Window(r)
<1> DEFINE s == notes[r]
           t == SubSeq(s, k + 1, Len(s))
<1>1. s \in Seq(Notification) /\ Len(s) \in Nat
  BY WatcherFields, LenProperties
<1>2. Flow(r) = s
  BY <1>1, ConcatEmptySeq DEF Flow
<1>3. CASE watcher'[r].buffer = <<>>
  <2>1. /\ t \in Seq(Notification) /\ Len(t) = Len(s) - k
        /\ \A i \in 1..Len(s) - k : t[i] = s[k + i]
    BY WatcherFields, Suffix
  <2>2. Flow(r)' = t
    <3>1. Flow(r)' = <<>> \o t
      BY <1>3 DEF Flow
    <3> HIDE DEF t
    <3> QED BY <2>1, <3>1, ConcatEmptySeq
  <2> HIDE DEF s, t
  <2>3. k \in Nat /\ \A i \in 1..Len(t) : i + k \in 1..Len(s) /\ t[i] = s[i + k]
    <3>1. k \in 0..Len(s)
      BY DEF s
    <3> QED BY ONLY <1>1, <2>1, <3>1
  <2> QED BY <1>2, <2>2, <2>3 DEF Window
<1>4. CASE k > 0 /\ watcher'[r].buffer = SubSeq(s, 1, k)
  <2>1. Flow(r)' = SubSeq(s, 1, k) \o t
    BY <1>4 DEF Flow
  <2>2. k \in 1..Len(s)
    BY <1>1, <1>4
  <2>3. Flow(r)' = Flow(r)
    BY <1>1, <1>2, <2>1, <2>2, Split
  <2> QED BY <2>3, SameFlow
<1> QED BY <1>3, <1>4

\* The first notification leaves the flow.
LEMMA TailFlow ==
  ASSUME Base, NEW r \in Roots, watcher[r].buffer # <<>>,
         watcher'[r].buffer = Tail(watcher[r].buffer), notes'[r] = notes[r]
  PROVE  /\ Len(Flow(r)) \in Nat \ {0} /\ Flow(r)[1] = Head(watcher[r].buffer)
         /\ Len(Flow(r)') = Len(Flow(r)) - 1
         /\ \A i \in 1..Len(Flow(r)) - 1 : Flow(r)'[i] = Flow(r)[i + 1]
         /\ Window(r)
<1> DEFINE b == watcher[r].buffer
           t == Tail(b)
           s == notes[r]
<1>1. /\ b \in Seq(Notification) /\ s \in Seq(Notification) /\ t \in Seq(Notification)
      /\ Len(t) = Len(b) - 1 /\ Len(b) \in Nat \ {0} /\ Head(b) = b[1]
      /\ \A i \in 1..Len(b) - 1 : t[i] = b[i + 1]
  BY WatcherFields, TailOf
<1>2. Flow(r) = b \o s /\ Flow(r)' = t \o s
  BY DEF Flow
<1> HIDE DEF b, t, s
<1>3. /\ Len(Flow(r)) = Len(b) + Len(s) /\ Len(s) \in Nat
      /\ \A i \in 1..Len(b) + Len(s) : Flow(r)[i] = IF i <= Len(b) THEN b[i] ELSE s[i - Len(b)]
  BY <1>1, <1>2, Joined
<1>4. /\ Len(Flow(r)') = Len(t) + Len(s)
      /\ \A i \in 1..Len(t) + Len(s) : Flow(r)'[i] = IF i <= Len(t) THEN t[i] ELSE s[i - Len(t)]
  BY <1>1, <1>2, Joined
<1>5. Len(Flow(r)') = Len(Flow(r)) - 1 /\ Len(Flow(r)) \in Nat \ {0} /\ Flow(r)[1] = b[1]
  BY <1>1, <1>3, <1>4
<1>6. ASSUME NEW i \in 1..Len(Flow(r)) - 1 PROVE Flow(r)'[i] = Flow(r)[i + 1]
  <2>1. i \in 1..Len(t) + Len(s) /\ i + 1 \in 1..Len(b) + Len(s)
    BY <1>1, <1>3
  <2>2. CASE i <= Len(t)
    <3>1. i \in 1..Len(b) - 1 /\ i + 1 <= Len(b)
      BY <1>1, <2>2
    <3> QED BY <1>1, <1>3, <1>4, <2>1, <2>2, <3>1
  <2>3. CASE ~(i <= Len(t))
    <3>1. ~(i + 1 <= Len(b)) /\ i + 1 - Len(b) = i - Len(t)
      BY <1>1, <2>3
    <3> QED BY <1>3, <1>4, <2>1, <2>3, <3>1
  <2> QED BY <2>2, <2>3
<1>7. \A i \in 1..Len(Flow(r)') : i + 1 \in 1..Len(Flow(r)) /\ Flow(r)'[i] = Flow(r)[i + 1]
  BY <1>5, <1>6
<1> QED BY <1>1, <1>5, <1>6, <1>7 DEF Window, b

\* A watcher step that interprets nothing.
LEMMA TurnFlow ==
  ASSUME Base, FlowInv, NEW r \in Roots, NEW v, Turn(r, v), UNCHANGED <<taken, ops>>,
         \A q \in Roots : q # r => notes'[q] = notes[q],
         v.old \in {watcher[r].old, None},
         v.pc \in {"work", "reading", "submit"} => Alive(r) /\ v.old = watcher[r].old,
         Window(r)
  PROVE  FlowInv'
<1>1. ASSUME NEW q \in Roots PROVE
        /\ watcher'[q].old \in {watcher[q].old, None}
        /\ Alive(q)' => Alive(q) /\ watcher'[q].old = watcher[q].old
        /\ Window(q)
  <2>1. CASE q = r
    BY <2>1 DEF Turn, Alive
  <2>2. CASE q # r
    <3>1. watcher'[q] = watcher[q] /\ notes'[q] = notes[q]
      BY <2>2 DEF Turn
    <3>2. Flow(q)' = Flow(q)
      BY <3>1 DEF Flow
    <3> QED BY <3>1, <3>2, SameFlow DEF Alive
  <2> QED BY <2>1, <2>2
<1> QED BY <1>1, FlowShrinks

\* Every step of a watcher keeps FlowInv.
LEMMA WatchFlow ==
  ASSUME Base, PhaseInv, FlowInv, NEW r \in Roots,
         Watch(r) \/ ReadFails(r) \/ InterpretInvalid(r)
  PROVE  FlowInv'
<1>1. CASE Loop(r)
  <2>1. UNCHANGED <<taken, ops, notes>>
    BY <1>1 DEF Loop, fsVars
  <2>2. watcher[r].pc = "work" /\ watcher[r].buffer = <<>>
    BY <1>1, LoopFacts
  <2>3. PICK v : /\ Turn(r, v) /\ v.buffer = <<>> /\ v.old \in {watcher[r].old, None}
                 /\ v.pc \in {"work", "reading", "submit"} => v.old = watcher[r].old
    BY <1>1, LoopFacts
  <2>4. Flow(r)' = Flow(r)
    BY <2>1, <2>2, <2>3 DEF Turn, Flow
  <2> QED BY <2>1, <2>2, <2>3, <2>4, SameFlow, TurnFlow DEF Alive
<1>2. CASE ReadChanges(r)
  <2>1. UNCHANGED <<taken, ops>> /\ watcher[r].pc = "reading"
    BY <1>2 DEF ReadChanges
  <2>2. PICK k \in 1..Len(notes[r]) :
          /\ notes' = [notes EXCEPT ![r] = SubSeq(notes[r], k + 1, Len(notes[r]))]
          /\ \E v : /\ Turn(r, v) /\ v.old \in {watcher[r].old, None}
                    /\ v.pc \in {"work", "reading", "submit"} => v.old = watcher[r].old
                    /\ v.buffer = <<>> \/ v.buffer = SubSeq(notes[r], 1, k)
    BY <1>2, ReadChangesFacts
  <2>3. PICK v : /\ Turn(r, v) /\ v.old \in {watcher[r].old, None}
                 /\ v.pc \in {"work", "reading", "submit"} => v.old = watcher[r].old
                 /\ v.buffer = <<>> \/ v.buffer = SubSeq(notes[r], 1, k)
    BY <2>2
  <2>4. /\ notes'[r] = SubSeq(notes[r], k + 1, Len(notes[r]))
        /\ \A q \in Roots : q # r => notes'[q] = notes[q]
    BY <2>2 DEF Base, TypeOK
  <2>5. watcher[r].buffer = <<>> /\ watcher'[r] = v
    BY <2>1, <2>3 DEF PhaseInv, Turn
  <2>6. k \in 0..Len(notes[r]) /\ k > 0
    OBVIOUS
  <2>7. Window(r)
    BY <2>3, <2>4, <2>5, <2>6, ReadWindow
  <2> QED BY <2>1, <2>3, <2>4, <2>7, TurnFlow DEF Alive
<1>3. CASE ReadEmpty(r) \/ ReadFails(r)
  <2>1. UNCHANGED <<taken, ops>> /\ watcher[r].pc = "reading"
    BY <1>3 DEF ReadEmpty, ReadFails, fsVars
  <2>2. PICK k \in 0..Len(notes[r]) :
          notes' = [notes EXCEPT ![r] = SubSeq(notes[r], k + 1, Len(notes[r]))]
    BY <1>3, LossFacts
  <2>3. PICK v : /\ Turn(r, v) /\ v.old \in {watcher[r].old, None}
                 /\ v.pc \in {"work", "reading", "submit"} => v.old = watcher[r].old
                 /\ v.buffer = <<>> \/ v.buffer = watcher[r].buffer
    BY <1>3, LossFacts
  <2>4. /\ notes'[r] = SubSeq(notes[r], k + 1, Len(notes[r]))
        /\ \A q \in Roots : q # r => notes'[q] = notes[q]
    BY <2>2 DEF Base, TypeOK
  <2>5. watcher[r].buffer = <<>> /\ watcher'[r] = v
    BY <2>1, <2>3 DEF PhaseInv, Turn
  <2>6. Window(r)
    BY <2>3, <2>4, <2>5, ReadWindow
  <2> QED BY <2>1, <2>3, <2>4, <2>6, TurnFlow DEF Alive
<1>4. CASE Interpret(r)
  <2> DEFINE h == Head(watcher[r].buffer)
  <2>1. UNCHANGED <<ops, notes>>
    BY <1>4 DEF Interpret, fsVars
  <2>2. /\ watcher[r].pc = "work" /\ watcher[r].buffer # <<>> /\ taken' = taken \cup {h}
        /\ \E v : /\ Turn(r, v) /\ v.buffer = Tail(watcher[r].buffer)
                  /\ v.old = IF h.action = "RENAMED_OLD" THEN h ELSE None
    <3>1. "RENAMED_NEW" # "RENAMED_OLD" /\ "RENAMED_OLD" \notin {"ADDED", "REMOVED", "MODIFIED"}
      OBVIOUS
    <3> QED BY <1>4, <3>1, InterpretFacts
  <2>3. PICK v : /\ Turn(r, v) /\ v.buffer = Tail(watcher[r].buffer)
                 /\ v.old = IF h.action = "RENAMED_OLD" THEN h ELSE None
    BY <2>2
  <2>4. watcher'[r] = v /\ notes'[r] = notes[r]
    BY <2>1, <2>3 DEF Turn
  <2>5. /\ Len(Flow(r)) \in Nat \ {0} /\ Flow(r)[1] = h
        /\ Len(Flow(r)') = Len(Flow(r)) - 1
        /\ \A i \in 1..Len(Flow(r)) - 1 : Flow(r)'[i] = Flow(r)[i + 1]
    BY <2>2, <2>3, <2>4, TailFlow
  <2>6. \A q \in Roots : q # r => Flow(q)' = Flow(q) /\ watcher'[q] = watcher[q]
    BY <2>1, <2>3 DEF Turn, Flow
  <2>7. Alive(r)
    BY <2>2 DEF Alive
  <2> HIDE DEF h
  <2> QED BY <2>1, <2>2, <2>3, <2>4, <2>5, <2>6, <2>7, FlowTaken
<1>5. CASE InterpretInvalid(r)
  <2>1. UNCHANGED <<taken, ops, notes>>
    BY <1>5 DEF InterpretInvalid, fsVars
  <2>2. /\ watcher[r].pc = "work" /\ watcher[r].buffer # <<>>
        /\ \E v : Turn(r, v) /\ v.buffer = Tail(watcher[r].buffer) /\ v.old = watcher[r].old
    BY <1>5, InvalidFacts
  <2>3. PICK v : Turn(r, v) /\ v.buffer = Tail(watcher[r].buffer) /\ v.old = watcher[r].old
    BY <2>2
  <2>4. Window(r)
    BY <2>1, <2>2, <2>3, TailFlow DEF Turn
  <2> QED BY <2>1, <2>2, <2>3, <2>4, TurnFlow DEF Alive
<1>6. CASE EmitNobody(r) \/ HandleAtOnce(r) \/ Acquire(r)
  <2>1. UNCHANGED <<taken, ops, notes>>
    BY <1>6 DEF EmitNobody, HandleAtOnce, Acquire, fsVars
  <2>2. /\ watcher[r].pc \in {"work", "last"} /\ watcher[r].out # <<>>
        /\ \E v : /\ Turn(r, v) /\ v.buffer = watcher[r].buffer /\ v.old = watcher[r].old
                  /\ watcher[r].pc = "last" /\ ~Acquire(r) => v.pc = "ended"
    BY <1>6, EmitFacts
  <2>3. PICK v : /\ Turn(r, v) /\ v.buffer = watcher[r].buffer /\ v.old = watcher[r].old
                 /\ watcher[r].pc = "last" /\ ~Acquire(r) => v.pc = "ended"
    BY <2>2
  <2>4. Flow(r)' = Flow(r)
    BY <2>1, <2>3 DEF Turn, Flow
  <2>5. Acquire(r) => watcher[r].pc # "last"
    <3>1. Head(watcher[r].out) = watcher[r].out[1] /\ 1 \in 1..Len(watcher[r].out)
      BY <2>2, WatcherFields, TailOf
    <3>2. watcher[r].pc = "last" => Head(watcher[r].out).type = "FILE_DELETED"
      BY <3>1 DEF PhaseInv
    <3>3. \A e : e.type = "FILE_DELETED" => Immediate(e) \in NotAdmitted
      BY DEF Immediate, Eligible, NotAdmitted
    <3> QED BY <3>2, <3>3, NoneAssumption DEF Acquire
  <2> QED BY <2>1, <2>2, <2>3, <2>4, <2>5, SameFlow, TurnFlow DEF Alive
<1>7. CASE SubmitAccepted(r) \/ SubmitRefused(r)
  <2>1. UNCHANGED <<taken, ops, notes>>
    BY <1>7 DEF SubmitAccepted, SubmitRefused, fsVars
  <2>2. watcher[r].pc = "submit"
    BY <1>7, SubmitFacts
  <2>3. PICK v : /\ Step(r, v) /\ v \in Watcher /\ v.buffer = watcher[r].buffer
                 /\ v.old = watcher[r].old
    BY <1>7, SubmitFacts
  <2>4. Turn(r, v)
    BY <2>3, StepTurns
  <2>5. Flow(r)' = Flow(r)
    BY <2>1, <2>3, <2>4 DEF Turn, Flow
  <2> QED BY <2>1, <2>2, <2>3, <2>4, <2>5, SameFlow, TurnFlow DEF Alive
<1> QED BY <1>1, <1>2, <1>3, <1>4, <1>5, <1>6, <1>7 DEF Watch

\* What the kernel holds of an operation.
LEMMA NotifyFlow ==
  ASSUME Base, FlowInv, NEW r \in Roots, NEW new \in Seq(Notification), Notify(r, new),
         ops' = ops + 1, UNCHANGED <<watcher, taken>>,
         \A i \in 1..Len(new) : new[i].op = ops + 1,
         \A i, j \in 1..Len(new) : i # j => new[i].name # new[j].name,
         \A i, j \in 1..Len(new) :
           new[i].action = "RENAMED_NEW" /\ new[j].action = "RENAMED_OLD" => j = i - 1
  PROVE  FlowInv'
<1> DEFINE b == watcher[r].buffer
           s == notes[r]
<1>1. ops \in Nat
  BY DEF Base, TypeOK
<1>2. \A q \in Roots : q # r => Flow(q)' = Flow(q)
  <2>1. \A q \in Roots : q # r => notes'[q] = notes[q]
    BY <1>1 DEF Notify, Base, TypeOK
  <2> QED BY <2>1 DEF Flow
<1>3. b \in Seq(Notification) /\ s \in Seq(Notification) /\ Flow(r) = b \o s
  BY <1>1, WatcherFields DEF Flow
<1>4. Len(Flow(r)) = Len(b) + Len(s) /\ Len(b) \in Nat /\ Len(s) \in Nat /\ Len(Flow(r)) \in Nat
  <2>1. Len(Flow(r)) = Len(b) + Len(s) /\ Len(b) \in Nat /\ Len(s) \in Nat
    BY FlowFields
  <2>2. Flow(r) \in Seq(Notification)
    BY <1>3, ConcatProperties
  <2>3. Len(Flow(r)) \in Nat
    BY <2>2, LenProperties
  <2> QED BY <2>1, <2>3
<1>5. CASE running /\ ~flooded[r]
  <2>1. Flow(r)' = b \o (s \o new)
    BY <1>1, <1>5 DEF Notify, Base, TypeOK, Flow
  <2>2. b \o (s \o new) = (b \o s) \o new
    <3> HIDE DEF b, s
    <3> QED BY <1>3, ConcatAssociative
  <2>3. Flow(r)' = Flow(r) \o new /\ Flow(r) \in Seq(Notification)
    BY <1>3, <2>1, <2>2, ConcatProperties
  <2> HIDE DEF b, s
  <2>4. /\ Len(Flow(r)') = Len(Flow(r)) + Len(new) /\ Len(new) \in Nat
        /\ \A i \in 1..Len(Flow(r)) + Len(new) :
             Flow(r)'[i] = IF i <= Len(Flow(r)) THEN Flow(r)[i] ELSE new[i - Len(Flow(r))]
    BY <2>3, Joined
  <2>5. \A i \in 1..Len(Flow(r)) : Flow(r)'[i] = Flow(r)[i]
    BY ONLY <1>4, <2>4
  <2>6. \A i \in 1..Len(new) : Flow(r)'[Len(Flow(r)) + i] = new[i]
    <3> TAKE i \in 1..Len(new)
    <3>1. /\ Len(Flow(r)) + i \in 1..Len(Flow(r)) + Len(new) /\ ~(Len(Flow(r)) + i <= Len(Flow(r)))
          /\ Len(Flow(r)) + i - Len(Flow(r)) = i
      BY <1>4, <2>4
    <3> QED BY <2>4, <3>1
  <2> DEFINE m == Len(new)
  <2>7. /\ m \in Nat /\ Len(Flow(r)') = Len(Flow(r)) + m
        /\ \A i \in 1..m : Flow(r)'[Len(Flow(r)) + i] = new[i] /\ new[i].op = ops + 1
        /\ \A i, j \in 1..m : i # j => new[i].name # new[j].name
        /\ \A i, j \in 1..m :
             new[i].action = "RENAMED_NEW" /\ new[j].action = "RENAMED_OLD" => j = i - 1
    BY <2>4, <2>6
  <2>8. UNCHANGED <<taken, watcher>>
    OBVIOUS
  <2> HIDE DEF m
  <2>9. Grows(r, m, new)
    BY <1>2, <1>4, <2>5, <2>7 DEF Grows
  <2> QED BY <1>1, <2>7, <2>8, <2>9, FlowGrows
<1>6. CASE ~(running /\ ~flooded[r])
  <2>1. Flow(r)' = Flow(r)
    BY <1>1, <1>6 DEF Notify, Base, TypeOK, Flow
  <2> HIDE DEF b, s
  <2>2. Len(Flow(r)') = Len(Flow(r)) + 0 /\ \A i \in 1..0 : FALSE
    BY <1>4, <2>1
  <2>3. Grows(r, 0, new) /\ 0 \in Nat
    BY <1>2, <1>4, <2>1, <2>2 DEF Grows
  <2> QED BY <1>1, <2>3, FlowGrows
<1> QED BY <1>5, <1>6

\* Every change of the files keeps FlowInv.
LEMMA FilesFlow ==
  ASSUME Base, FlowInv, NEW n \in Names, Write(n) \/ Remove(n) \/ \E m \in Names : Rename(n, m)
  PROVE  FlowInv'
<1>1. RootOf[n] \in Roots /\ ops' = ops + 1 /\ UNCHANGED <<watcher, taken>>
  BY WatchAssumption DEF Write, Remove, Rename
<1>2. ASSUME NEW a, a \in Notification, a.op = ops + 1, Notify(RootOf[n], <<a>>)
      PROVE  FlowInv'
  <2> DEFINE new == <<a>>
  <2>1. new \in Seq(Notification) /\ Len(new) = 1 /\ new[1] = a
    BY <1>2, OneNote
  <2> HIDE DEF new
  <2>2. \A i \in 1..Len(new) : i = 1
    BY <2>1
  <2>3. /\ \A i \in 1..Len(new) : new[i].op = ops + 1
        /\ \A i, j \in 1..Len(new) : i # j => new[i].name # new[j].name
        /\ \A i, j \in 1..Len(new) :
             new[i].action = "RENAMED_NEW" /\ new[j].action = "RENAMED_OLD" => j = i - 1
    BY <1>2, <2>1, <2>2
  <2>4. Notify(RootOf[n], new)
    BY <1>2 DEF new
  <2> QED BY <1>1, <2>1, <2>3, <2>4, NotifyFlow
<1>3. CASE Write(n)
  <2> DEFINE a == Note(IF files[n] = 0 THEN "ADDED" ELSE "MODIFIED", n)
  <2>1. a \in Notification /\ a.op = ops + 1
    BY DEF Base, TypeOK, Note, Notification
  <2>2. Notify(RootOf[n], <<a>>)
    BY <1>3 DEF Write
  <2> HIDE DEF a
  <2> QED BY <1>2, <2>1, <2>2
<1>4. CASE Remove(n)
  <2> DEFINE a == Note("REMOVED", n)
  <2>1. a \in Notification /\ a.op = ops + 1
    BY DEF Base, TypeOK, Note, Notification
  <2>2. Notify(RootOf[n], <<a>>)
    BY <1>4 DEF Remove
  <2> HIDE DEF a
  <2> QED BY <1>2, <2>1, <2>2
<1>5. ASSUME NEW m \in Names, Rename(n, m) PROVE FlowInv'
  <2> DEFINE a == Note("RENAMED_OLD", n)
             b == Note("RENAMED_NEW", m)
             new == <<a, b>>
  <2>1. /\ a \in Notification /\ a.op = ops + 1 /\ a.action = "RENAMED_OLD" /\ a.name = n
        /\ b \in Notification /\ b.op = ops + 1 /\ b.action = "RENAMED_NEW" /\ b.name = m
    BY DEF Base, TypeOK, Note, Notification
  <2>2. Notify(RootOf[n], new) /\ n # m
    BY <1>5 DEF Rename
  <2> HIDE DEF a, b
  <2>3. new \in Seq(Notification) /\ Len(new) = 2 /\ new[1] = a /\ new[2] = b
    BY <2>1, TwoNotes
  <2> HIDE DEF new
  <2>4. \A i \in 1..Len(new) : i = 1 \/ i = 2
    BY <2>3
  <2>5. /\ \A i \in 1..Len(new) : new[i].op = ops + 1
        /\ \A i, j \in 1..Len(new) : i # j => new[i].name # new[j].name
        /\ \A i, j \in 1..Len(new) :
             new[i].action = "RENAMED_NEW" /\ new[j].action = "RENAMED_OLD" => j = i - 1
    BY <2>1, <2>2, <2>3, <2>4
  <2> QED BY <1>1, <2>2, <2>3, <2>5, NotifyFlow
<1> QED BY <1>3, <1>4, <1>5

\* Every step keeps FlowInv.
LEMMA NextFlow == ASSUME Base, PhaseInv, FlowInv, [Next]_vars PROVE FlowInv'
<1>1. CASE UNCHANGED <<taken, ops, notes, watcher>>
  BY <1>1, SameFlow, FlowShrinks DEF Flow, Alive
<1>2. CASE UNCHANGED vars
  BY <1>1, <1>2 DEF vars, fsVars
<1>3. CASE Start
  <2>1. caller = "new" /\ UNCHANGED <<taken, ops, notes>>
    BY <1>3 DEF Start, fsVars
  <2>2. taken = {} /\ \A r \in Roots : notes[r] = <<>>
    BY <2>1 DEF PhaseInv
  <2>3. \A r \in Roots : watcher'[r].buffer = <<>> /\ watcher'[r].old = None
    BY <1>3 DEF Start, Idle
  <2>4. \A r \in Roots : Flow(r)' = <<>> \o <<>>
    BY <2>1, <2>2, <2>3 DEF Flow
  <2>5. Len(<<>> \o <<>>) = 0
    OBVIOUS
  <2>6. \A r \in Roots : Len(Flow(r)') = 0
    BY <2>4, <2>5
  <2>7. TakenInv'
    BY <2>1, <2>2, <2>3 DEF TakenInv
  <2>8. \A r \in Roots : \A i \in 1..Len(Flow(r)') : FALSE
    BY <2>6
  <2>9. (\A r \in Roots : Fresh(r)' /\ Paired(r)') /\ \A r, s \in Roots : Apart(r, s)'
    BY <2>8 DEF Fresh, Paired, Apart
  <2> QED BY <2>7, <2>9 DEF FlowInv
<1>4. CASE StopFlag \/ Stop
  BY <1>1, <1>4 DEF StopFlag, Stop, StopBackend, StopExecutor, Stopped, fsVars
<1>5. ASSUME NEW r \in Roots, Flood(r) PROVE FlowInv'
  <2>1. UNCHANGED <<taken, ops, watcher>> /\ notes' = [notes EXCEPT ![r] = <<>>]
    BY <1>5 DEF Flood
  <2>2. notes'[r] = <<>> /\ \A q \in Roots : q # r => notes'[q] = notes[q]
    BY <2>1 DEF Base, TypeOK
  <2> DEFINE b == watcher[r].buffer
  <2>3. b \in Seq(Notification) /\ Flow(r)' = b \o <<>>
    BY <2>1, <2>2, WatcherFields DEF Flow
  <2>4. Flow(r)' = b
    BY <2>3, ConcatEmptySeq
  <2>5. \A i \in 1..Len(Flow(r)') : i + 0 \in 1..Len(Flow(r)) /\ Flow(r)'[i] = Flow(r)[i + 0]
    <3>1. /\ Len(Flow(r)) = Len(b) + Len(notes[r]) /\ Len(b) \in Nat /\ Len(notes[r]) \in Nat
          /\ \A i \in 1..Len(Flow(r)) : i <= Len(b) => Flow(r)[i] = b[i]
      BY FlowFields
    <3> HIDE DEF b
    <3> TAKE i \in 1..Len(Flow(r)')
    <3>2. i \in 1..Len(b) /\ i + 0 = i /\ i \in 1..Len(Flow(r)) /\ i <= Len(b)
      BY <2>4, <3>1
    <3> QED BY <2>4, <3>1, <3>2
  <2>6. Window(r)
    BY <2>5 DEF Window
  <2>7. \A q \in Roots : Window(q)
    <3>1. \A q \in Roots : q # r => Flow(q)' = Flow(q)
      BY <2>1, <2>2 DEF Flow
    <3> QED BY <2>6, <3>1, SameFlow
  <2> QED BY <2>1, <2>7, FlowShrinks DEF Alive
<1>6. ASSUME NEW w \in Workers, Analyze(w) \/ OpenFails(w) \/ ReadRaises(w)
      PROVE  FlowInv'
  BY <1>1, <1>6 DEF Analyze, Take, Open, OpenFails, Read, ReadRaises, Check, Release, AppendRecord,
                    Work, fsVars
<1> QED BY <1>2, <1>3, <1>4, <1>5, <1>6, WatchFlow, FilesFlow DEF Next

-----------------------------------------------------------------------------
(* Where the messages come from.                                           *)

\* A record that tells the same has the same source.
LEMMA SourcedSame ==
  ASSUME NEW e, NEW f, NEW T, Sourced(e, T),
         f.old = e.old, f.op = e.op, f.path = e.path, f.type = e.type
  PROVE  Sourced(f, T)
BY DEF Sourced

\* A notification more: it is not the old name of a rename that was reported.
LEMMA SourcedGrows ==
  ASSUME NEW T, NEW h, NEW e, Sourced(e, T),
         h.action = "RENAMED_OLD" => \A n \in T : n.action = "RENAMED_NEW" => n.op # h.op
  PROVE  Sourced(e, T \cup {h})
BY DEF Sourced

\* A loss, and a deletion reported for an old name.
LEMMA SourcedMade ==
  ASSUME NEW T, T \subseteq Notification
  PROVE  /\ \A r : AllSourced(<<Overflow(r)>>, T)
         /\ \A o \in T : AllSourced(<<Deleted(o)>>, T)
         /\ AllSourced(<<>>, T)
<1>1. ASSUME NEW e, Sourced(e, T) PROVE AllSourced(<<e>>, T)
  <2> DEFINE s == <<e>>
  <2>1. Len(s) = 1 /\ s[1] = e
    OBVIOUS
  <2> HIDE DEF s
  <2>2. \A i \in 1..Len(s) : i = 1
    BY <2>1
  <2>3. AllSourced(s, T)
    BY <1>1, <2>1, <2>2 DEF AllSourced
  <2> QED BY <2>3 DEF s
<1>2. \A r : Sourced(Overflow(r), T)
  BY DEF Sourced, Overflow, Event
<1>3. \A o \in T : Sourced(Deleted(o), T)
  BY DEF Sourced, Deleted, Event
<1>4. AllSourced(<<>>, T)
  BY DEF AllSourced
<1> QED BY <1>1, <1>2, <1>3, <1>4

\* The records change their status.
LEMMA RestatedSourced ==
  ASSUME Base, SourceInv, NEW m, NEW x, Restated(m, x)
  PROVE  AllSourced(events', taken)
<1>1. \A i \in 1..Len(events) :
        /\ events'[i].old = events[i].old /\ events'[i].op = events[i].op
        /\ events'[i].path = events[i].path /\ events'[i].type = events[i].type
  BY RestatedFacts DEF Restated
<1>2. Len(events') = Len(events)
  BY RestatedFacts
<1> QED BY <1>1, <1>2, SourcedSame DEF SourceInv, AllSourced

\* A message becomes a record.
LEMMA AppendSourced ==
  ASSUME Base, SourceInv, NEW r \in Roots, watcher[r].out # <<>>, NEW status \in Statuses,
         events' = Append(events, Recorded(Head(watcher[r].out), status))
  PROVE  AllSourced(events', taken)
<1> DEFINE e == Head(watcher[r].out)
           x == Recorded(e, status)
<1>1. e \in Sendable /\ e = watcher[r].out[1] /\ 1 \in 1..Len(watcher[r].out)
  BY WatcherFields, TailOf
<1>2. Sourced(e, taken)
  BY <1>1 DEF SourceInv, AllSourced
<1> HIDE DEF e
<1>3. x \in Kept /\ Sourced(x, taken)
  BY <1>1, <1>2, RecordedMade, SourcedSame
<1>4. events' = Append(events, x) /\ events \in Seq(Kept)
  BY DEF e, Base, TypeOK
<1> HIDE DEF x
<1>5. /\ Len(events') = Len(events) + 1 /\ Len(events) \in Nat /\ events'[Len(events) + 1] = x
      /\ \A i \in 1..Len(events) : events'[i] = events[i]
  BY <1>3, <1>4, AppendProperties, LenProperties
<1>6. \A i \in 1..Len(events') : i \in 1..Len(events) \/ i = Len(events) + 1
  BY <1>5
<1> QED BY <1>3, <1>5, <1>6 DEF SourceInv, AllSourced

\* What a notification is turned into.
LEMMA InterpretSourced ==
  ASSUME Base, FlowInv, NEW r \in Roots, Interpret(r), NEW v,
         LET n == Head(watcher[r].buffer)
             o == watcher[r].old
             stale == IF o = None THEN <<>> ELSE <<Deleted(o)>>
         IN  \/ n.action = "RENAMED_OLD" /\ v.out = stale
             \/ n.action = "RENAMED_NEW" /\ v.out = <<Event("FILE_RENAMED", n.name, n.op, o)>>
             \/ /\ n.action \in {"ADDED", "REMOVED", "MODIFIED"}
                /\ v.out = Append(stale, Event(EventType[n.action], n.name, n.op, None)),
         Flow(r)[1] = Head(watcher[r].buffer), Len(Flow(r)) \in Nat \ {0},
         taken' = taken \cup {Head(watcher[r].buffer)}
  PROVE  /\ AllSourced(v.out, taken')
         /\ \A e : Sourced(e, taken) => Sourced(e, taken')
<1> DEFINE h == Head(watcher[r].buffer)
           o == watcher[r].old
           stale == IF o = None THEN <<>> ELSE <<Deleted(o)>>
           e == Event("FILE_RENAMED", h.name, h.op, o)
           f == Event(EventType[h.action], h.name, h.op, None)
<1>1. TakenInv /\ Paired(r) /\ Fresh(r) /\ 1 \in 1..Len(Flow(r)) /\ Alive(r)
  BY DEF FlowInv, Interpret, Alive
<1>2. \A x : Sourced(x, taken) => Sourced(x, taken')
  <2>1. h.action = "RENAMED_OLD" => \A n \in taken : n.action = "RENAMED_NEW" => n.op # h.op
    BY <1>1 DEF Paired
  <2> HIDE DEF h
  <2> QED BY <2>1, SourcedGrows DEF h
<1>3. taken \subseteq Notification /\ taken' \subseteq Notification /\ (o # None => o \in taken')
  <2>1. taken \subseteq Notification /\ (o # None => o \in taken)
    BY <1>1 DEF Base, TypeOK, TakenInv
  <2>2. taken' \subseteq Notification
    BY InterpretBase DEF Base, TypeOK
  <2> QED BY <2>1, <2>2
<1>4. AllSourced(stale, taken')
  <2>1. CASE o = None
    BY <1>3, <2>1, SourcedMade
  <2>2. CASE o # None
    BY <1>3, <2>2, SourcedMade
  <2> QED BY <2>1, <2>2
<1>5. CASE h.action = "RENAMED_OLD" /\ v.out = stale
  <2> HIDE DEF stale
  <2> QED BY <1>2, <1>4, <1>5
<1>6. CASE h.action = "RENAMED_NEW" /\ v.out = <<e>>
  <2>1. \A n \in taken' : n.action = "RENAMED_OLD" /\ n.op = h.op => o = n
    <3>1. \A n \in taken : n.action = "RENAMED_OLD" /\ n.op = h.op => o = n
      BY <1>1, <1>6 DEF Paired
    <3>2. \A n \in taken' : n.action = "RENAMED_OLD" => n \in taken
      BY <1>6
    <3> QED BY <3>1, <3>2
  <2>2. e.type = "FILE_RENAMED" /\ e.path = h.name /\ e.op = h.op /\ e.old = o
    BY DEF Event
  <2>3. h \in taken' /\ o \in taken' \cup {None}
    BY <1>3
  <2>4. h.action = "RENAMED_NEW" /\ v.out = <<e>>
    BY <1>6
  <2> HIDE DEF h, o, e
  <2>5. Sourced(e, taken')
    BY <2>1, <2>2, <2>3, <2>4 DEF Sourced
  <2>6. Len(v.out) = 1 /\ v.out[1] = e
    BY <2>4
  <2>7. \A i \in 1..Len(v.out) : i = 1
    BY <2>6
  <2> QED BY <1>2, <2>5, <2>6, <2>7 DEF AllSourced
<1>7. CASE h.action \in {"ADDED", "REMOVED", "MODIFIED"} /\ v.out = Append(stale, f)
  <2>1. /\ f.type \in {"FILE_CREATED", "FILE_DELETED", "FILE_MODIFIED"}
        /\ f.path = h.name /\ f.op = h.op /\ f.old = None
    BY <1>7 DEF Event, EventType
  <2>2. h \in taken'
    OBVIOUS
  <2>3. v.out = Append(stale, f)
    BY <1>7
  <2> HIDE DEF h, f
  <2>4. Sourced(f, taken')
    BY <2>1, <2>2 DEF Sourced
  <2>5. /\ Len(v.out) = Len(stale) + 1 /\ Len(stale) \in Nat /\ v.out[Len(stale) + 1] = f
        /\ \A i \in 1..Len(stale) : v.out[i] = stale[i]
    <3>1. CASE o = None
      BY <2>3, <3>1
    <3>2. CASE o # None
      <4> DEFINE d == Deleted(o)
      <4>1. v.out = Append(<<d>>, f) /\ stale = <<d>>
        BY <2>3, <3>2
      <4> HIDE DEF d, stale
      <4> QED BY <4>1
    <3> QED BY <3>1, <3>2
  <2> HIDE DEF stale
  <2>6. \A i \in 1..Len(v.out) : i \in 1..Len(stale) \/ i = Len(stale) + 1
    BY <2>5
  <2> QED BY <1>2, <1>4, <2>4, <2>5, <2>6 DEF AllSourced
<1> QED BY <1>2, <1>5, <1>6, <1>7

\* A watcher step that takes no notification and writes no record.
LEMMA TurnSource ==
  ASSUME SourceInv, NEW r \in Roots, NEW v, Turn(r, v), AllSourced(v.out, taken'),
         AllSourced(events', taken'), \A e : Sourced(e, taken) => Sourced(e, taken')
  PROVE  SourceInv'
<1>1. \A q \in Roots : AllSourced(watcher'[q].out, taken')
  BY DEF SourceInv, AllSourced, Turn
<1> QED BY <1>1 DEF SourceInv, AllSourced, Sourced

\* Every step of a watcher keeps SourceInv.
LEMMA WatchSource ==
  ASSUME Base, FlowInv, SourceInv, NEW r \in Roots,
         Watch(r) \/ ReadFails(r) \/ InterpretInvalid(r)
  PROVE  SourceInv'
<1>0. /\ taken \subseteq Notification
      /\ AllSourced(watcher[r].out, taken) /\ AllSourced(events, taken)
  BY DEF SourceInv, Base, TypeOK
<1>1. CASE Loop(r)
  <2>1. UNCHANGED <<taken, events>>
    BY <1>1 DEF Loop
  <2>2. PICK v : /\ Turn(r, v)
                 /\ \/ v.out = <<>>
                    \/ watcher[r].old # None /\ v.out = <<Deleted(watcher[r].old)>>
    BY <1>1, LoopFacts
  <2>3. watcher[r].old # None => watcher[r].old \in taken
    BY DEF FlowInv, TakenInv
  <2>4. AllSourced(v.out, taken)
    BY <1>0, <2>2, <2>3, SourcedMade
  <2> QED BY <1>0, <2>1, <2>2, <2>4, TurnSource
<1>2. CASE ReadChanges(r)
  <2>1. UNCHANGED <<taken, events>>
    BY <1>2 DEF ReadChanges
  <2>2. PICK v : Turn(r, v) /\ (v.out = watcher[r].out \/ v.out = <<>>)
    BY <1>2, ReadChangesFacts
  <2>3. AllSourced(v.out, taken)
    BY <1>0, <2>2, SourcedMade
  <2> QED BY <1>0, <2>1, <2>2, <2>3, TurnSource
<1>3. CASE ReadEmpty(r) \/ ReadFails(r) \/ InterpretInvalid(r)
  <2>1. UNCHANGED <<taken, events>>
    BY <1>3 DEF ReadEmpty, ReadFails, InterpretInvalid
  <2>2. PICK v : Turn(r, v) /\ (v.out = <<>> \/ v.out = <<Overflow(r)>>)
    BY <1>3, LossFacts, InvalidFacts
  <2>3. AllSourced(v.out, taken)
    BY <1>0, <2>2, SourcedMade
  <2> QED BY <1>0, <2>1, <2>2, <2>3, TurnSource
<1>4. CASE Interpret(r)
  <2> DEFINE n == Head(watcher[r].buffer)
             o == watcher[r].old
             stale == IF o = None THEN <<>> ELSE <<Deleted(o)>>
  <2>1. /\ watcher[r].buffer # <<>> /\ taken' = taken \cup {n}
        /\ \E v : /\ Turn(r, v) /\ v.buffer = Tail(watcher[r].buffer)
                  /\ \/ n.action = "RENAMED_OLD" /\ v.out = stale
                     \/ n.action = "RENAMED_NEW" /\ v.out = <<Event("FILE_RENAMED", n.name, n.op, o)>>
                     \/ /\ n.action \in {"ADDED", "REMOVED", "MODIFIED"}
                        /\ v.out = Append(stale, Event(EventType[n.action], n.name, n.op, None))
    BY <1>4, InterpretFacts
  <2>2. PICK v : /\ Turn(r, v) /\ v.buffer = Tail(watcher[r].buffer)
                 /\ \/ n.action = "RENAMED_OLD" /\ v.out = stale
                    \/ n.action = "RENAMED_NEW" /\ v.out = <<Event("FILE_RENAMED", n.name, n.op, o)>>
                    \/ /\ n.action \in {"ADDED", "REMOVED", "MODIFIED"}
                       /\ v.out = Append(stale, Event(EventType[n.action], n.name, n.op, None))
    BY <2>1
  <2>3. notes' = notes /\ events' = events
    BY <1>4 DEF Interpret, fsVars
  <2>4. Len(Flow(r)) \in Nat \ {0} /\ Flow(r)[1] = n
    BY <2>1, <2>2, <2>3, TailFlow DEF Turn
  <2>5. AllSourced(v.out, taken') /\ \A e : Sourced(e, taken) => Sourced(e, taken')
    BY <1>4, <2>1, <2>2, <2>4, InterpretSourced
  <2>6. AllSourced(events', taken')
    BY <1>0, <2>3, <2>5 DEF AllSourced
  <2> QED BY <2>2, <2>5, <2>6, TurnSource
<1>5. CASE EmitNobody(r) \/ HandleAtOnce(r) \/ Acquire(r)
  <2>1. UNCHANGED taken
    BY <1>5 DEF EmitNobody, HandleAtOnce, Acquire
  <2>2. watcher[r].out # <<>> /\ \E v : Turn(r, v) /\ v.out = Tail(watcher[r].out)
    BY <1>5, EmitFacts
  <2>3. PICK v : Turn(r, v) /\ v.out = Tail(watcher[r].out)
    BY <2>2
  <2>4. AllSourced(v.out, taken)
    <3>1. /\ Len(v.out) = Len(watcher[r].out) - 1 /\ Len(watcher[r].out) \in Nat
          /\ \A i \in 1..Len(watcher[r].out) - 1 : v.out[i] = watcher[r].out[i + 1]
      BY <2>2, <2>3, WatcherFields, TailOf
    <3>2. \A i \in 1..Len(v.out) : i + 1 \in 1..Len(watcher[r].out) /\ v.out[i] = watcher[r].out[i + 1]
      BY <3>1
    <3> QED BY <1>0, <3>2 DEF AllSourced
  <2>5. AllSourced(events', taken)
    <3>1. CASE EmitNobody(r)
      BY <1>0, <3>1 DEF EmitNobody
    <3>2. CASE HandleAtOnce(r)
      <4>1. PICK status \in NotAdmitted \cup {"DROPPED_BACKPRESSURE"} :
               events' = Append(events, Recorded(Head(watcher[r].out), status))
        BY <3>2, AtOnceFacts
      <4>2. status \in Statuses
        BY DEF Statuses, NotAdmitted
      <4> QED BY <2>2, <4>1, <4>2, AppendSourced
    <3>3. CASE Acquire(r)
      <4>1. events' = Append(events, Recorded(Head(watcher[r].out), "acquired"))
        BY <3>3 DEF Acquire
      <4>2. "acquired" \in Statuses
        BY DEF Statuses
      <4> QED BY <2>2, <4>1, <4>2, AppendSourced
    <3> QED BY <1>5, <3>1, <3>2, <3>3
  <2> QED BY <2>1, <2>3, <2>4, <2>5, TurnSource
<1>6. CASE SubmitAccepted(r) \/ SubmitRefused(r)
  <2>1. UNCHANGED taken
    BY <1>6 DEF SubmitAccepted, SubmitRefused
  <2>2. PICK x : Restated(Mine(r), x)
    BY <1>6, SubmitFacts
  <2>3. PICK v : Step(r, v) /\ v \in Watcher /\ v.out = watcher[r].out
    BY <1>6, SubmitFacts
  <2>4. Turn(r, v) /\ AllSourced(events', taken)
    BY <2>2, <2>3, StepTurns, RestatedSourced
  <2> QED BY <1>0, <2>1, <2>3, <2>4, TurnSource
<1> QED BY <1>1, <1>2, <1>3, <1>4, <1>5, <1>6 DEF Watch

\* Every step keeps SourceInv.
LEMMA NextSource == ASSUME Base, PhaseInv, FlowInv, SourceInv, [Next]_vars PROVE SourceInv'
<1>1. CASE UNCHANGED <<taken, watcher, events>>
  BY <1>1 DEF SourceInv, AllSourced, Sourced
<1>2. CASE UNCHANGED vars
  BY <1>1, <1>2 DEF vars
<1>3. CASE Start
  <2>1. UNCHANGED <<taken, events>>
    BY <1>3 DEF Start
  <2>2. \A r \in Roots : watcher'[r].out = <<>>
    BY <1>3 DEF Start, Idle
  <2>3. AllSourced(<<>>, taken)
    BY SourcedMade DEF Base, TypeOK
  <2>4. \A r \in Roots : AllSourced(watcher'[r].out, taken')
    BY <2>1, <2>2, <2>3
  <2>5. AllSourced(events', taken')
    BY <2>1 DEF SourceInv, AllSourced, Sourced
  <2> QED BY <2>4, <2>5 DEF SourceInv, AllSourced, Sourced
<1>4. CASE StopFlag \/ Stop
  BY <1>1, <1>4 DEF StopFlag, Stop, StopBackend, StopExecutor, Stopped
<1>5. ASSUME NEW n \in Names, Write(n) \/ Remove(n) \/ \E m \in Names : Rename(n, m)
      PROVE  SourceInv'
  BY <1>1, <1>5 DEF Write, Remove, Rename
<1>6. ASSUME NEW r \in Roots, Flood(r) PROVE SourceInv'
  BY <1>1, <1>6 DEF Flood
<1>7. ASSUME NEW w \in Workers, Analyze(w) \/ OpenFails(w) \/ ReadRaises(w)
      PROVE  SourceInv'
  <2>1. CASE Release(w) \/ AppendRecord(w)
    <3>1. UNCHANGED <<taken, watcher>> /\ \E m, x : Restated(m, x)
      BY <2>1, ReleaseStep, AppendStep
    <3>2. AllSourced(events', taken)
      BY <3>1, RestatedSourced
    <3> QED BY <3>1, <3>2 DEF SourceInv, AllSourced, Sourced
  <2>2. CASE ~(Release(w) \/ AppendRecord(w))
    BY <1>1, <1>7, <2>2 DEF Analyze, Take, Open, OpenFails, Read, ReadRaises, Check, Work
  <2> QED BY <2>1, <2>2
<1> QED BY <1>2, <1>3, <1>4, <1>5, <1>6, <1>7, WatchSource DEF Next

-----------------------------------------------------------------------------
(* Every notification that was taken is told once.                         *)

\* Nothing changes for n.
LEMMA ToldStays ==
  ASSUME NEW n, ToldOnce(n), Len(events') = Len(events),
         \A i \in 1..Len(events) : ByEvent(n, i)' <=> ByEvent(n, i),
         \A r \in Roots : /\ ByOld(n, r)' <=> ByOld(n, r)
                          /\ \A k \in 1..2 : ByOut(n, r, k)' <=> ByOut(n, r, k)
  PROVE  ToldOnce(n)'
<1>1. CASE /\ \E i \in 1..Len(events) : \A j \in 1..Len(events) : ByEvent(n, j) <=> j = i
           /\ \A q \in Roots : ~ByOld(n, q) /\ \A k \in 1..2 : ~ByOut(n, q, k)
  <2>1. /\ \E i \in 1..Len(events') : \A j \in 1..Len(events') : ByEvent(n, j)' <=> j = i
        /\ \A q \in Roots : ~ByOld(n, q)' /\ \A k \in 1..2 : ~ByOut(n, q, k)'
    BY <1>1
  <2> QED BY <2>1 DEF ToldOnce
<1>2. CASE /\ \A j \in 1..Len(events) : ~ByEvent(n, j)
           /\ \E q \in Roots : \E k \in 1..2 : \A p \in Roots : \A i \in 1..2 :
                ByOut(n, p, i) <=> p = q /\ i = k
           /\ \A q \in Roots : ~ByOld(n, q)
  <2>1. PICK q \in Roots, k \in 1..2 : \A p \in Roots : \A i \in 1..2 :
           ByOut(n, p, i) <=> p = q /\ i = k
    BY <1>2
  <2>2. \A p \in Roots : \A i \in 1..2 : ByOut(n, p, i)' <=> p = q /\ i = k
    BY <2>1
  <2>3. (\A j \in 1..Len(events') : ~ByEvent(n, j)') /\ \A p \in Roots : ~ByOld(n, p)'
    BY <1>2
  <2> QED BY <2>2, <2>3 DEF ToldOnce
<1>3. CASE /\ \A j \in 1..Len(events) : ~ByEvent(n, j)
           /\ \A q \in Roots : \A k \in 1..2 : ~ByOut(n, q, k)
           /\ \E q \in Roots : \A p \in Roots : ByOld(n, p) <=> p = q
  <2>1. /\ \A j \in 1..Len(events') : ~ByEvent(n, j)'
        /\ \A q \in Roots : \A k \in 1..2 : ~ByOut(n, q, k)'
        /\ \E q \in Roots : \A p \in Roots : ByOld(n, p)' <=> p = q
    BY <1>3
  <2> QED BY <2>1 DEF ToldOnce
<1> QED BY <1>1, <1>2, <1>3 DEF ToldOnce

\* The first message of the watcher of r becomes the record m.
LEMMA ToldEmitted ==
  ASSUME NEW n, ToldOnce(n), Len(events) \in Nat, Len(events') = Len(events) + 1,
         NEW r \in Roots, NEW m, m = Len(events) + 1,
         \A i \in 1..Len(events) : ByEvent(n, i)' <=> ByEvent(n, i),
         ByEvent(n, m)' <=> ByOut(n, r, 1),
         \A q \in Roots : ByOld(n, q)' <=> ByOld(n, q),
         ByOut(n, r, 1)' <=> ByOut(n, r, 2), ~ByOut(n, r, 2)',
         \A q \in Roots : q # r => \A k \in 1..2 : ByOut(n, q, k)' <=> ByOut(n, q, k)
  PROVE  ToldOnce(n)'
<1>0. \A k \in 1..2 : k = 1 \/ k = 2
  OBVIOUS
<1>1. /\ \A i \in 1..Len(events') : i \in 1..Len(events) \/ i = m
      /\ m \in 1..Len(events') /\ m \notin 1..Len(events) /\ 1..Len(events) \subseteq 1..Len(events')
  OBVIOUS
<1>2. CASE /\ \E i \in 1..Len(events) : \A j \in 1..Len(events) : ByEvent(n, j) <=> j = i
           /\ \A q \in Roots : ~ByOld(n, q) /\ \A k \in 1..2 : ~ByOut(n, q, k)
  <2>1. PICK i \in 1..Len(events) : \A j \in 1..Len(events) : ByEvent(n, j) <=> j = i
    BY <1>2
  <2>2. ~ByEvent(n, m)' /\ ~ByOut(n, r, 1)'
    BY <1>2
  <2>3. i \in 1..Len(events') /\ \A j \in 1..Len(events') : ByEvent(n, j)' <=> j = i
    BY <1>1, <2>1, <2>2
  <2>4. \A q \in Roots : ~ByOld(n, q)' /\ \A k \in 1..2 : ~ByOut(n, q, k)'
    BY <1>0, <1>2, <2>2
  <2> QED BY <2>3, <2>4 DEF ToldOnce
<1>3. CASE /\ \A j \in 1..Len(events) : ~ByEvent(n, j)
           /\ \E q \in Roots : \E k \in 1..2 : \A p \in Roots : \A i \in 1..2 :
                ByOut(n, p, i) <=> p = q /\ i = k
           /\ \A q \in Roots : ~ByOld(n, q)
  <2>1. PICK q \in Roots, k \in 1..2 : \A p \in Roots : \A i \in 1..2 :
           ByOut(n, p, i) <=> p = q /\ i = k
    BY <1>3
  <2>2. \A p \in Roots : ~ByOld(n, p)'
    BY <1>3
  <2>3. CASE q = r /\ k = 1
    <3>1. ByEvent(n, m)' /\ \A p \in Roots : \A i \in 1..2 : ~ByOut(n, p, i)'
      BY <1>0, <2>1, <2>3
    <3>2. \A j \in 1..Len(events') : ByEvent(n, j)' <=> j = m
      BY <1>1, <1>3, <3>1
    <3> QED BY <1>1, <2>2, <3>1, <3>2 DEF ToldOnce
  <2>4. CASE q = r /\ k = 2
    <3>1. ~ByEvent(n, m)' /\ \A p \in Roots : \A i \in 1..2 : ByOut(n, p, i)' <=> p = r /\ i = 1
      BY <1>0, <2>1, <2>4
    <3>2. \A j \in 1..Len(events') : ~ByEvent(n, j)'
      BY <1>1, <1>3, <3>1
    <3>3. 1 \in 1..2
      OBVIOUS
    <3> QED BY <2>2, <3>1, <3>2, <3>3 DEF ToldOnce
  <2>5. CASE q # r
    <3>1. ~ByEvent(n, m)' /\ \A p \in Roots : \A i \in 1..2 : ByOut(n, p, i)' <=> p = q /\ i = k
      BY <1>0, <2>1, <2>5
    <3>2. \A j \in 1..Len(events') : ~ByEvent(n, j)'
      BY <1>1, <1>3, <3>1
    <3> QED BY <2>2, <3>1, <3>2 DEF ToldOnce
  <2> QED BY <1>0, <2>3, <2>4, <2>5
<1>4. CASE /\ \A j \in 1..Len(events) : ~ByEvent(n, j)
           /\ \A q \in Roots : \A k \in 1..2 : ~ByOut(n, q, k)
           /\ \E q \in Roots : \A p \in Roots : ByOld(n, p) <=> p = q
  <2>1. ~ByEvent(n, m)' /\ \A q \in Roots : \A k \in 1..2 : ~ByOut(n, q, k)'
    BY <1>0, <1>4
  <2>2. \A j \in 1..Len(events') : ~ByEvent(n, j)'
    BY <1>1, <1>4, <2>1
  <2>3. \E q \in Roots : \A p \in Roots : ByOld(n, p)' <=> p = q
    BY <1>4
  <2> QED BY <2>1, <2>2, <2>3 DEF ToldOnce
<1> QED BY <1>2, <1>3, <1>4 DEF ToldOnce

\* The watcher of r interprets a notification: for one that was taken before nothing
\* changes, or it stops waiting and is told by one message.
LEMMA ToldInterpreted ==
  ASSUME NEW n, ToldOnce(n), Len(events') = Len(events), NEW r \in Roots,
         \A i \in 1..Len(events) : ByEvent(n, i)' <=> ByEvent(n, i),
         \A q \in Roots : q # r => /\ ByOld(n, q)' <=> ByOld(n, q)
                                   /\ \A k \in 1..2 : ByOut(n, q, k)' <=> ByOut(n, q, k),
         \A k \in 1..2 : ~ByOut(n, r, k), ~ByOld(n, r)',
         ByOld(n, r) => \E k \in 1..2 : \A i \in 1..2 : ByOut(n, r, i)' <=> i = k,
         ~ByOld(n, r) => \A i \in 1..2 : ~ByOut(n, r, i)'
  PROVE  ToldOnce(n)'
<1>1. CASE ~ByOld(n, r)
  BY <1>1, ToldStays
<1>2. CASE ByOld(n, r)
  <2>1. /\ \A j \in 1..Len(events) : ~ByEvent(n, j)
        /\ \A q \in Roots : \A k \in 1..2 : ~ByOut(n, q, k)
        /\ \A q \in Roots : q # r => ~ByOld(n, q)
    BY <1>2 DEF ToldOnce
  <2>2. PICK k \in 1..2 : \A i \in 1..2 : ByOut(n, r, i)' <=> i = k
    BY <1>2
  <2>3. \A j \in 1..Len(events') : ~ByEvent(n, j)'
    BY <2>1
  <2>4. \A q \in Roots : \A i \in 1..2 : ByOut(n, q, i)' <=> q = r /\ i = k
    BY <2>1, <2>2
  <2>5. \A q \in Roots : ~ByOld(n, q)'
    BY <2>1
  <2> QED BY <2>3, <2>4, <2>5 DEF ToldOnce
<1> QED BY <1>1, <1>2

\* The notification itself, told by nobody before.
LEMMA ToldFirst ==
  ASSUME NEW h, Len(events') = Len(events), NEW r \in Roots,
         \A i \in 1..Len(events) : ~ByEvent(h, i)',
         \A q \in Roots : q # r => ~ByOld(h, q)' /\ \A k \in 1..2 : ~ByOut(h, q, k)',
         \/ ByOld(h, r)' /\ \A k \in 1..2 : ~ByOut(h, r, k)'
         \/ ~ByOld(h, r)' /\ \E k \in 1..2 : \A i \in 1..2 : ByOut(h, r, i)' <=> i = k
  PROVE  ToldOnce(h)'
<1>1. CASE ByOld(h, r)' /\ \A k \in 1..2 : ~ByOut(h, r, k)'
  <2>1. \A q \in Roots : ByOld(h, q)' <=> q = r
    BY <1>1
  <2>2. \A q \in Roots : \A k \in 1..2 : ~ByOut(h, q, k)'
    BY <1>1
  <2> QED BY <2>1, <2>2 DEF ToldOnce
<1>2. CASE ~ByOld(h, r)' /\ \E k \in 1..2 : \A i \in 1..2 : ByOut(h, r, i)' <=> i = k
  <2>1. PICK k \in 1..2 : \A i \in 1..2 : ByOut(h, r, i)' <=> i = k
    BY <1>2
  <2>2. \A q \in Roots : \A i \in 1..2 : ByOut(h, q, i)' <=> q = r /\ i = k
    BY <2>1
  <2>3. \A q \in Roots : ~ByOld(h, q)'
    BY <1>2
  <2> QED BY <2>2, <2>3 DEF ToldOnce
<1> QED BY <1>1, <1>2

\* Which notifications the messages tell of.
LEMMA MessagesTell ==
  ASSUME NEW n \in Notification
  PROVE  /\ \A o : Mentions(Deleted(o), n) <=> SameKey(o, n)
         /\ \A t, h : Mentions(Event(t, h.name, h.op, None), n) <=> SameKey(h, n)
         /\ \A t, h, o : Mentions(Event(t, h.name, h.op, o), n) <=> o = n \/ SameKey(h, n)
         /\ n.op # 0 => \A r : ~Mentions(Overflow(r), n)
BY NoneAssumption DEF Mentions, Deleted, Event, Overflow, SameKey

\* The messages of a sequence of at most two.
LEMMA TellsIn ==
  ASSUME NEW n
  PROVE  /\ \A s : s = <<>> => \A i \in 1..2 : ~TellsAt(s, n, i)
         /\ \A s, d : s = <<d>> => \A i \in 1..2 : TellsAt(s, n, i) <=> i = 1 /\ Mentions(d, n)
<1>1. ASSUME NEW s, s = <<>> PROVE \A i \in 1..2 : ~TellsAt(s, n, i)
  BY <1>1 DEF TellsAt
<1>2. ASSUME NEW s, NEW d, s = <<d>>
      PROVE  \A i \in 1..2 : TellsAt(s, n, i) <=> i = 1 /\ Mentions(d, n)
  <2>1. Len(s) = 1 /\ s[1] = d
    BY <1>2
  <2>2. \A i \in 1..2 : i \in 1..Len(s) <=> i = 1
    BY ONLY <2>1
  <2> QED BY <2>1, <2>2 DEF TellsAt
<1> QED BY <1>1, <1>2

\* What two messages tell.
LEMMA TellsTwo ==
  ASSUME NEW s, NEW d, NEW e, Len(s) = 2, s[1] = d, s[2] = e, NEW n, NEW i \in 1..2
  PROVE  TellsAt(s, n, i) <=> (i = 1 /\ Mentions(d, n)) \/ (i = 2 /\ Mentions(e, n))
<1>1. i \in 1..Len(s) /\ (i = 1 \/ i = 2)
  OBVIOUS
<1> QED BY <1>1 DEF TellsAt

\* The messages out and the old name that waits, after h was interpreted while o waited.
Interpretation(h, o, out, old) ==
  LET stale == IF o = None THEN <<>> ELSE <<Deleted(o)>>
  IN  \/ old = h /\ out = stale
      \/ old = None /\ out = <<Event("FILE_RENAMED", h.name, h.op, o)>>
      \/ old = None /\ out = Append(stale, Event(EventType[h.action], h.name, h.op, None))

\* What the interpretation of h, with o waiting, tells: o if it no longer waits, h unless
\* it waits now, and nothing else.
LEMMA Interpreting ==
  ASSUME NEW T \in SUBSET Notification, NEW h \in Notification, NEW o \in T \cup {None},
         \A n \in T : ~SameKey(n, h), \A n, m \in T : SameKey(n, m) => n = m,
         NEW out, NEW old, Interpretation(h, o, out, old)
  PROVE  /\ \A n \in T : old # n
         /\ \A n \in T : n # o => \A i \in 1..2 : ~TellsAt(out, n, i)
         /\ \A n \in T : n = o => \E k \in 1..2 : \A i \in 1..2 : TellsAt(out, n, i) <=> i = k
         /\ \/ old = h /\ \A i \in 1..2 : ~TellsAt(out, h, i)
            \/ old # h /\ \E k \in 1..2 : \A i \in 1..2 : TellsAt(out, h, i) <=> i = k
<1> DEFINE d == Deleted(o)
           e == Event("FILE_RENAMED", h.name, h.op, o)
           f == Event(EventType[h.action], h.name, h.op, None)
<1>0. /\ None \notin Notification /\ h \notin T /\ (\A n : SameKey(n, n)) /\ h # None /\ o # h
      /\ \A n \in T : ~SameKey(h, n) /\ n # None /\ n # h /\ n \in Notification
  BY NoneAssumption DEF SameKey
<1>k. 1 \in 1..2 /\ 2 \in 1..2 /\ 1 # 2 /\ \A i \in 1..2 : i = 1 \/ i = 2
  OBVIOUS
<1>1. \A n \in T : /\ Mentions(e, n) <=> n = o
                   /\ ~Mentions(f, n)
                   /\ o # None => (Mentions(d, n) <=> n = o)
  <2> TAKE n \in T
  <2>1. /\ Mentions(Deleted(o), n) <=> SameKey(o, n)
        /\ Mentions(Event(EventType[h.action], h.name, h.op, None), n) <=> SameKey(h, n)
        /\ Mentions(Event("FILE_RENAMED", h.name, h.op, o), n) <=> o = n \/ SameKey(h, n)
    BY <1>0, MessagesTell
  <2>2. ~SameKey(h, n) /\ (o # None => (SameKey(o, n) <=> o = n))
    BY <1>0
  <2> QED BY <2>1, <2>2
<1>2. Mentions(e, h) /\ Mentions(f, h) /\ (o # None => ~Mentions(d, h))
  <2>1. /\ Mentions(Deleted(o), h) <=> SameKey(o, h)
        /\ Mentions(Event(EventType[h.action], h.name, h.op, None), h) <=> SameKey(h, h)
        /\ Mentions(Event("FILE_RENAMED", h.name, h.op, o), h) <=> o = h \/ SameKey(h, h)
    BY MessagesTell
  <2> QED BY <1>0, <2>1
<1>c. \/ old = h /\ o = None /\ out = <<>>
      \/ old = h /\ o # None /\ out = <<d>>
      \/ old = None /\ out = <<e>>
      \/ old = None /\ o = None /\ out = <<f>>
      \/ old = None /\ o # None /\ Len(out) = 2 /\ out[1] = d /\ out[2] = f
  <2> HIDE DEF d, e, f
  <2>1. Append(<<>>, f) = <<f>>
    OBVIOUS
  <2>4. out = Append(<<d>>, f) => Len(out) = 2 /\ out[1] = d /\ out[2] = f
    OBVIOUS
  <2>2. CASE o = None
    BY <2>1, <2>2 DEF Interpretation, e, f
  <2>3. CASE o # None
    BY <2>4, <2>3 DEF Interpretation, d, e, f
  <2> QED BY <2>2, <2>3
<1> HIDE DEF d, e, f
<1>3. CASE old = h /\ o = None /\ out = <<>>
  <2>1. \A n : \A i \in 1..2 : ~TellsAt(out, n, i)
    BY <1>3, TellsIn
  <2> QED BY <1>0, <1>3, <2>1
<1>4. CASE old = h /\ o # None /\ out = <<d>>
  <2>1. \A n : \A i \in 1..2 : TellsAt(out, n, i) <=> i = 1 /\ Mentions(d, n)
    BY <1>4, TellsIn
  <2> QED BY <1>0, <1>k, <1>1, <1>2, <1>4, <2>1
<1>5. CASE old = None /\ out = <<e>>
  <2>1. \A n : \A i \in 1..2 : TellsAt(out, n, i) <=> i = 1 /\ Mentions(e, n)
    BY <1>5, TellsIn
  <2> QED BY <1>0, <1>k, <1>1, <1>2, <1>5, <2>1
<1>6. CASE old = None /\ o = None /\ out = <<f>>
  <2>1. \A n : \A i \in 1..2 : TellsAt(out, n, i) <=> i = 1 /\ Mentions(f, n)
    BY <1>6, TellsIn
  <2> QED BY <1>0, <1>k, <1>1, <1>2, <1>6, <2>1
<1>7. CASE old = None /\ o # None /\ Len(out) = 2 /\ out[1] = d /\ out[2] = f
  <2>1. \A n : \A i \in 1..2 : TellsAt(out, n, i) <=> (i = 1 /\ Mentions(d, n)) \/ (i = 2 /\ Mentions(f, n))
    <3> SUFFICES ASSUME NEW n, NEW i \in 1..2
                 PROVE  TellsAt(out, n, i) <=> (i = 1 /\ Mentions(d, n)) \/ (i = 2 /\ Mentions(f, n))
      OBVIOUS
    <3> QED BY <1>7, TellsTwo
  <2>2. \A n \in T : n # o => ~Mentions(d, n) /\ ~Mentions(f, n)
    BY <1>1, <1>7
  <2>3. \A n \in T : n = o => \A i \in 1..2 : TellsAt(out, n, i) <=> i = 1
    <3> SUFFICES ASSUME NEW n \in T, n = o, NEW i \in 1..2
                 PROVE  TellsAt(out, n, i) <=> i = 1
      OBVIOUS
    <3>1. Mentions(d, n) /\ ~Mentions(f, n)
      BY <1>1, <1>7
    <3>2. TellsAt(out, n, i) <=> (i = 1 /\ Mentions(d, n)) \/ (i = 2 /\ Mentions(f, n))
      BY <2>1
    <3> QED BY <3>1, <3>2
  <2>4. \A i \in 1..2 : TellsAt(out, h, i) <=> i = 2
    BY <1>2, <1>7, <2>1
  <2>5. \A n \in T : n # o => \A i \in 1..2 : ~TellsAt(out, n, i)
    BY <2>1, <2>2
  <2>6. old # h /\ \A n \in T : old # n
    BY <1>0, <1>7
  <2> QED BY <1>k, <2>3, <2>4, <2>5, <2>6
<1> QED BY <1>c, <1>3, <1>4, <1>5, <1>6, <1>7

\* A step of the watcher of r that changes nothing for n.
LEMMA TurnTold ==
  ASSUME NEW n, ToldOnce(n), NEW r \in Roots, NEW v, Turn(r, v), v.old = watcher[r].old,
         \A k \in 1..2 : TellsAt(v.out, n, k) <=> TellsAt(watcher[r].out, n, k),
         Len(events') = Len(events),
         \A i \in 1..Len(events) : /\ events'[i].old = events[i].old /\ events'[i].op = events[i].op
                                   /\ events'[i].path = events[i].path
  PROVE  ToldOnce(n)'
<1>1. \A i \in 1..Len(events) : ByEvent(n, i)' <=> ByEvent(n, i)
  BY DEF ByEvent, Mentions
<1>2. ASSUME NEW q \in Roots
      PROVE  /\ ByOld(n, q)' <=> ByOld(n, q)
             /\ \A k \in 1..2 : ByOut(n, q, k)' <=> ByOut(n, q, k)
  <2>1. watcher'[q] = IF q = r THEN v ELSE watcher[q]
    BY DEF Turn
  <2>2. ByOld(n, q)' <=> ByOld(n, q)
    BY <2>1 DEF ByOld
  <2>3. \A k \in 1..2 : TellsAt(watcher'[q].out, n, k) <=> TellsAt(watcher[q].out, n, k)
    BY <2>1
  <2> QED BY <2>2, <2>3 DEF ByOut, TellsAt, Mentions
<1> QED BY <1>1, <1>2, ToldStays

\* A loss is reported.
LEMMA LossTold ==
  ASSUME NEW n \in Notification, n.op \in Nat \ {0}, ToldOnce(n), NEW r \in Roots, NEW v, Turn(r, v),
         v.old = watcher[r].old, watcher[r].out = <<>>, v.out = <<Overflow(r)>>, events' = events
  PROVE  ToldOnce(n)'
<1> DEFINE e == Overflow(r)
<1>1. ~Mentions(e, n)
  BY MessagesTell
<1>2. v.out = <<e>>
  OBVIOUS
<1> HIDE DEF e
<1>3. \A k \in 1..2 : ~TellsAt(v.out, n, k) /\ ~TellsAt(watcher[r].out, n, k)
  BY <1>1, <1>2, TellsIn
<1> QED BY <1>3, TurnTold

\* A message is sent: its record tells what it told.
LEMMA EmitTold ==
  ASSUME Base, PhaseInv, NEW r \in Roots, watcher[r].out # <<>>, NEW v, Turn(r, v),
         v.old = watcher[r].old, v.out = Tail(watcher[r].out), NEW status \in Statuses,
         events' = Append(events, Recorded(Head(watcher[r].out), status)),
         NEW n, ToldOnce(n)
  PROVE  ToldOnce(n)'
<1> DEFINE out == watcher[r].out
           e == Head(out)
           x == Recorded(e, status)
<1>1. /\ e \in Sendable /\ e = out[1] /\ Len(out) \in Nat \ {0} /\ Len(out) <= 2
      /\ Len(v.out) = Len(out) - 1 /\ \A i \in 1..Len(out) - 1 : v.out[i] = out[i + 1]
  BY WatcherFields, TailOf DEF PhaseInv
<1>2. x \in Kept /\ x.old = e.old /\ x.op = e.op /\ x.path = e.path
  BY <1>1, RecordedMade
<1>3. events' = Append(events, x) /\ events \in Seq(Kept)
  BY DEF Base, TypeOK
<1> HIDE DEF x
<1>4. PICK m : m = Len(events) + 1
  OBVIOUS
<1>5. /\ Len(events') = Len(events) + 1 /\ Len(events) \in Nat /\ events'[m] = x
      /\ \A i \in 1..Len(events) : events'[i] = events[i]
  BY <1>2, <1>3, <1>4, AppendProperties, LenProperties
<1>6. \A i \in 1..Len(events) : ByEvent(n, i)' <=> ByEvent(n, i)
  BY <1>5 DEF ByEvent, Mentions
<1>7. Mentions(x, n) <=> Mentions(e, n)
  BY <1>2 DEF Mentions
<1>8. ByEvent(n, m)' <=> ByOut(n, r, 1)
  <2>1. ByEvent(n, m)' <=> Mentions(x, n)
    BY <1>5 DEF ByEvent, Mentions
  <2>2. 1 \in 1..Len(out)
    BY <1>1
  <2>3. ByOut(n, r, 1) <=> Mentions(e, n)
    BY <1>1, <2>2 DEF ByOut, TellsAt
  <2> QED BY <1>7, <2>1, <2>3
<1>9. watcher'[r] = v /\ \A q \in Roots : q # r => watcher'[q] = watcher[q]
  BY DEF Turn
<1>10. \A q \in Roots : ByOld(n, q)' <=> ByOld(n, q)
  BY <1>9 DEF ByOld
<1>11. \A q \in Roots : q # r => \A k \in 1..2 : ByOut(n, q, k)' <=> ByOut(n, q, k)
  BY <1>9 DEF ByOut, TellsAt, Mentions
<1>12. (ByOut(n, r, 1)' <=> ByOut(n, r, 2)) /\ ~ByOut(n, r, 2)'
  <2>1. \A k : ByOut(n, r, k)' <=> TellsAt(v.out, n, k)
    BY <1>9 DEF ByOut, TellsAt, Mentions
  <2>2. 2 \notin 1..Len(v.out) /\ (1 \in 1..Len(v.out) <=> 2 \in 1..Len(out))
    BY <1>1
  <2>3. 2 \in 1..Len(out) => v.out[1] = out[2]
    <3>1. 2 \in 1..Len(out) => 1 \in 1..Len(out) - 1 /\ 1 + 1 = 2
      BY <1>1
    <3> QED BY <1>1, <3>1
  <2> QED BY <2>1, <2>2, <2>3 DEF ByOut, TellsAt
<1> QED BY <1>4, <1>5, <1>6, <1>8, <1>10, <1>11, <1>12, ToldEmitted

\* A notification is interpreted.
LEMMA InterpretTold ==
  ASSUME Base, FlowInv, SourceInv, NEW r \in Roots, Interpret(r), \A n \in taken : ToldOnce(n)
  PROVE  \A n \in taken' : ToldOnce(n)'
<1>0. PICK h, o : h = Head(watcher[r].buffer) /\ o = watcher[r].old
  OBVIOUS
<1>1. /\ watcher[r].out = <<>> /\ watcher[r].buffer # <<>> /\ taken' = taken \cup {h}
      /\ \E v : /\ Turn(r, v) /\ v.buffer = Tail(watcher[r].buffer)
                /\ Interpretation(h, o, v.out, v.old)
  BY <1>0, InterpretFacts DEF Interpretation
<1>2. PICK v : /\ Turn(r, v) /\ v.buffer = Tail(watcher[r].buffer)
               /\ Interpretation(h, o, v.out, v.old)
  BY <1>1
<1>3. notes' = notes /\ events' = events
  BY DEF Interpret, fsVars
<1>4. watcher'[r] = v /\ \A q \in Roots : q # r => watcher'[q] = watcher[q]
  BY <1>2 DEF Turn
<1>5. Len(Flow(r)) \in Nat \ {0} /\ Flow(r)[1] = h
  BY <1>0, <1>1, <1>2, <1>3, <1>4, TailFlow
<1>6. TakenInv /\ Fresh(r) /\ 1 \in 1..Len(Flow(r)) /\ taken \in SUBSET Notification
  BY <1>5 DEF FlowInv, Base, TypeOK
<1>7. /\ h \in Notification /\ h.op \in 1..ops /\ ops \in Nat
      /\ \A n \in taken : ~SameKey(n, h)
      /\ \A n, m \in taken : SameKey(n, m) => n = m
      /\ o \in taken \cup {None} /\ \A q \in Roots : watcher[q].old \in taken \cup {None}
  <2>1. h \in Notification
    BY <1>0, <1>1, WatcherFields, TailOf
  <2> QED BY <1>0, <1>5, <1>6, <2>1 DEF TakenInv, Fresh, Base, TypeOK
<1>8. /\ \A n \in taken : v.old # n
      /\ \A n \in taken : n # o => \A i \in 1..2 : ~TellsAt(v.out, n, i)
      /\ \A n \in taken : n = o => \E k \in 1..2 : \A i \in 1..2 : TellsAt(v.out, n, i) <=> i = k
      /\ \/ v.old = h /\ \A i \in 1..2 : ~TellsAt(v.out, h, i)
         \/ v.old # h /\ \E k \in 1..2 : \A i \in 1..2 : TellsAt(v.out, h, i) <=> i = k
  BY <1>2, <1>6, <1>7, Interpreting
<1>9. \A n : /\ \A i \in 1..Len(events) : ByEvent(n, i)' <=> ByEvent(n, i)
             /\ \A q \in Roots : q # r => /\ ByOld(n, q)' <=> ByOld(n, q)
                                          /\ \A k \in 1..2 : ByOut(n, q, k)' <=> ByOut(n, q, k)
             /\ ByOld(n, r)' <=> v.old = n
             /\ ByOld(n, r) <=> o = n
             /\ \A k \in 1..2 : (ByOut(n, r, k)' <=> TellsAt(v.out, n, k)) /\ ~ByOut(n, r, k)
  <2>1. \A n : \A k \in 1..2 : ~TellsAt(watcher[r].out, n, k)
    BY <1>1, TellsIn
  <2> QED BY <1>0, <1>3, <1>4, <2>1 DEF ByEvent, ByOld, ByOut, TellsAt, Mentions
<1>10. ASSUME NEW n \in taken PROVE ToldOnce(n)'
  <2>1. /\ ~ByOld(n, r)'
        /\ ByOld(n, r) => \E k \in 1..2 : \A i \in 1..2 : ByOut(n, r, i)' <=> i = k
        /\ ~ByOld(n, r) => \A i \in 1..2 : ~ByOut(n, r, i)'
    BY <1>8, <1>9
  <2> QED BY <1>3, <1>9, <2>1, ToldInterpreted
<1>11. ToldOnce(h)'
  <2>1. \A e : Sourced(e, taken) => ~Mentions(e, h)
    BY <1>7, NoneAssumption DEF Sourced, Mentions, SameKey
  <2>2. \A i \in 1..Len(events) : ~ByEvent(h, i)
    BY <2>1 DEF SourceInv, AllSourced, ByEvent
  <2>3. \A q \in Roots : \A k \in 1..2 : ~ByOut(h, q, k)
    BY <2>1 DEF SourceInv, AllSourced, ByOut, TellsAt
  <2>4. \A q \in Roots : ~ByOld(h, q)
    BY <1>7, NoneAssumption DEF ByOld, SameKey
  <2>5. /\ \A i \in 1..Len(events) : ~ByEvent(h, i)'
        /\ \A q \in Roots : q # r => ~ByOld(h, q)' /\ \A k \in 1..2 : ~ByOut(h, q, k)'
    BY <1>9, <2>2, <2>3, <2>4
  <2>6. \/ ByOld(h, r)' /\ \A k \in 1..2 : ~ByOut(h, r, k)'
        \/ ~ByOld(h, r)' /\ \E k \in 1..2 : \A i \in 1..2 : ByOut(h, r, i)' <=> i = k
    BY <1>8, <1>9
  <2> QED BY <1>3, <2>5, <2>6, ToldFirst
<1> QED BY <1>1, <1>10, <1>11

\* A record changes its status: it tells what it told.
LEMMA RestatedTold ==
  ASSUME Base, NEW m, NEW x, Restated(m, x)
  PROVE  /\ Len(events') = Len(events)
         /\ \A i \in 1..Len(events) : /\ events'[i].old = events[i].old /\ events'[i].op = events[i].op
                                      /\ events'[i].path = events[i].path
BY RestatedFacts DEF Restated

\* Every step of a watcher keeps TellInv.
LEMMA WatchTell ==
  ASSUME Base, PhaseInv, FlowInv, SourceInv, TellInv, NEW r \in Roots,
         Watch(r) \/ ReadFails(r) \/ InterpretInvalid(r)
  PROVE  TellInv'
<1>0. SUFFICES ASSUME caller \in {"new", "up"}
               PROVE  \A n \in taken' : ToldOnce(n)'
  <2>1. caller' = caller
    BY DEF Watch, Loop, ReadChanges, ReadEmpty, ReadFails, Interpret, InterpretInvalid, EmitNobody,
           HandleAtOnce, Acquire, SubmitAccepted, SubmitRefused, ctlVars
  <2> QED BY <1>0, <2>1 DEF TellInv
<1>1. watcher[r].pc # "off"
  BY DEF Watch, Loop, ReadChanges, ReadEmpty, ReadFails, Interpret, InterpretInvalid, EmitNobody,
         HandleAtOnce, Acquire, SubmitAccepted, SubmitRefused, Emitting
<1>2. running /\ callback
  BY <1>0, <1>1, Started DEF PhaseInv
<1>3. \A n \in taken : n \in Notification /\ n.op \in Nat \ {0} /\ ToldOnce(n)
  BY <1>0 DEF TellInv, FlowInv, TakenInv, Base, TypeOK
<1>4. CASE Loop(r)
  <2>1. UNCHANGED <<taken, events>>
    BY <1>4 DEF Loop
  <2>2. PICK v : Turn(r, v) /\ v.old = watcher[r].old /\ v.out = watcher[r].out
    BY <1>2, <1>4, LoopFacts
  <2> QED BY <1>3, <2>1, <2>2, TurnTold
<1>5. CASE ReadChanges(r)
  <2>1. UNCHANGED <<taken, events>>
    BY <1>5 DEF ReadChanges
  <2>2. PICK v : Turn(r, v) /\ v.old = watcher[r].old /\ v.out = watcher[r].out
    BY <1>2, <1>5, ReadChangesFacts
  <2> QED BY <1>3, <2>1, <2>2, TurnTold
<1>6. CASE ReadEmpty(r) \/ ReadFails(r) \/ InterpretInvalid(r)
  <2>1. UNCHANGED <<taken, events>>
    BY <1>6 DEF ReadEmpty, ReadFails, InterpretInvalid
  <2>2. watcher[r].out = <<>>
    BY <1>6, LossFacts, InvalidFacts DEF PhaseInv
  <2>3. PICK v : Turn(r, v) /\ v.old = watcher[r].old /\ v.out = <<Overflow(r)>>
    BY <1>2, <1>6, LossFacts, InvalidFacts
  <2> QED BY <1>3, <2>1, <2>2, <2>3, LossTold
<1>7. CASE Interpret(r)
  BY <1>3, <1>7, InterpretTold
<1>8. CASE EmitNobody(r)
  BY <1>2, <1>8 DEF EmitNobody
<1>9. CASE HandleAtOnce(r) \/ Acquire(r)
  <2>1. UNCHANGED taken
    BY <1>9 DEF HandleAtOnce, Acquire
  <2>2. watcher[r].out # <<>>
    BY <1>9, EmitFacts
  <2>3. PICK v : Turn(r, v) /\ v.old = watcher[r].old /\ v.out = Tail(watcher[r].out)
    BY <1>9, EmitFacts
  <2>4. PICK status \in Statuses : events' = Append(events, Recorded(Head(watcher[r].out), status))
    <3>1. CASE HandleAtOnce(r)
      <4>1. PICK status \in NotAdmitted \cup {"DROPPED_BACKPRESSURE"} :
               events' = Append(events, Recorded(Head(watcher[r].out), status))
        BY <3>1, AtOnceFacts
      <4>2. status \in Statuses
        BY DEF Statuses, NotAdmitted
      <4> QED BY <4>1, <4>2
    <3>2. CASE Acquire(r)
      <4>1. events' = Append(events, Recorded(Head(watcher[r].out), "acquired"))
        BY <3>2 DEF Acquire
      <4>2. "acquired" \in Statuses
        BY DEF Statuses
      <4> QED BY <4>1, <4>2
    <3> QED BY <1>9, <3>1, <3>2
  <2> QED BY <1>3, <2>1, <2>2, <2>3, <2>4, EmitTold
<1>10. CASE SubmitAccepted(r) \/ SubmitRefused(r)
  <2>1. UNCHANGED taken
    BY <1>10 DEF SubmitAccepted, SubmitRefused
  <2>2. PICK x : Restated(Mine(r), x)
    BY <1>10, SubmitFacts
  <2>3. PICK v : Step(r, v) /\ v \in Watcher /\ v.old = watcher[r].old /\ v.out = watcher[r].out
    BY <1>10, SubmitFacts
  <2>4. Turn(r, v)
    BY <2>3, StepTurns
  <2> QED BY <1>3, <2>1, <2>2, <2>3, <2>4, RestatedTold, TurnTold
<1> QED BY <1>4, <1>5, <1>6, <1>7, <1>8, <1>9, <1>10 DEF Watch

\* Every step keeps TellInv.
LEMMA NextTell ==
  ASSUME Base, PhaseInv, FlowInv, SourceInv, TellInv, [Next]_vars
  PROVE  TellInv'
<1>1. CASE UNCHANGED <<taken, watcher, events>> /\ (caller' \in {"new", "up"} => caller' = caller)
  <2>1. ASSUME NEW n, ToldOnce(n) PROVE ToldOnce(n)'
    <3>1. /\ Len(events') = Len(events)
          /\ \A i \in 1..Len(events) : ByEvent(n, i)' <=> ByEvent(n, i)
      BY <1>1 DEF ByEvent, Mentions
    <3>2. \A r \in Roots : /\ ByOld(n, r)' <=> ByOld(n, r)
                           /\ \A k \in 1..2 : ByOut(n, r, k)' <=> ByOut(n, r, k)
      BY <1>1 DEF ByOld, ByOut, TellsAt, Mentions
    <3> QED BY <2>1, <3>1, <3>2, ToldStays
  <2> QED BY <1>1, <2>1 DEF TellInv
<1>2. CASE UNCHANGED vars
  BY <1>1, <1>2 DEF vars, ctlVars
<1>3. CASE Start
  BY <1>3 DEF Start, PhaseInv, TellInv
<1>4. CASE StopFlag \/ Stop
  BY <1>4 DEF StopFlag, Stop, StopBackend, StopExecutor, Stopped, TellInv
<1>5. ASSUME NEW n \in Names, Write(n) \/ Remove(n) \/ \E m \in Names : Rename(n, m)
      PROVE  TellInv'
  BY <1>1, <1>5 DEF Write, Remove, Rename, ctlVars
<1>6. ASSUME NEW r \in Roots, Flood(r) PROVE TellInv'
  BY <1>1, <1>6 DEF Flood, ctlVars
<1>7. ASSUME NEW w \in Workers, Analyze(w) \/ OpenFails(w) \/ ReadRaises(w)
      PROVE  TellInv'
  <2>1. CASE Release(w) \/ AppendRecord(w)
    <3>1. UNCHANGED <<taken, watcher, caller>>
      BY <2>1 DEF Release, AppendRecord, Work, ctlVars
    <3>2. PICK m, x : Restated(m, x)
      BY <2>1, ReleaseStep, AppendStep
    <3>3. ASSUME NEW n, ToldOnce(n) PROVE ToldOnce(n)'
      <4>1. \A i \in 1..Len(events) : ByEvent(n, i)' <=> ByEvent(n, i)
        BY <3>2, RestatedTold DEF ByEvent, Mentions
      <4>2. \A r \in Roots : /\ ByOld(n, r)' <=> ByOld(n, r)
                             /\ \A k \in 1..2 : ByOut(n, r, k)' <=> ByOut(n, r, k)
        BY <3>1 DEF ByOld, ByOut, TellsAt, Mentions
      <4>3. Len(events') = Len(events)
        BY <3>2, RestatedTold
      <4> QED BY <3>3, <4>1, <4>2, <4>3, ToldStays
    <3> QED BY <3>1, <3>3 DEF TellInv
  <2>2. CASE ~(Release(w) \/ AppendRecord(w))
    BY <1>1, <1>7, <2>2 DEF Analyze, Take, Open, OpenFails, Read, ReadRaises, Check, Work, ctlVars
  <2> QED BY <2>1, <2>2
<1> QED BY <1>2, <1>3, <1>4, <1>5, <1>6, <1>7, WatchTell DEF Next

-----------------------------------------------------------------------------
(* What backends.py makes of the notifications.                            *)

\* All four invariants hold at first.
LEMMA InitTell == ASSUME Init PROVE PhaseInv /\ FlowInv /\ SourceInv /\ TellInv
<1>1. /\ \A r \in Roots : notes[r] = <<>> /\ watcher[r] = Idle
      /\ taken = {} /\ events = <<>> /\ caller = "new" /\ ~running
  BY DEF Init
<1>2. /\ Idle.pc = "off" /\ Idle.buffer = <<>> /\ Idle.old = None /\ Idle.out = <<>>
      /\ \A s : s = <<>> => Len(s) = 0 /\ s \o s = <<>>
  BY DEF Idle
<1>3. \A r \in Roots : Len(Flow(r)) = 0 /\ Len(watcher[r].out) = 0
  BY <1>1, <1>2 DEF Flow
<1>4. PhaseInv
  BY <1>1, <1>2, <1>3 DEF PhaseInv
<1>5. FlowInv
  BY <1>1, <1>2, <1>3 DEF FlowInv, TakenInv, Fresh, Paired, Apart
<1>6. SourceInv
  BY <1>1, <1>2, <1>3 DEF SourceInv, AllSourced
<1>7. TellInv
  BY <1>1 DEF TellInv
<1> QED BY <1>4, <1>5, <1>6, <1>7

\* Told in one place, it is counted once.
LEMMA ToldCounts ==
  ASSUME Base, PhaseInv, NEW n, ToldOnce(n)
  PROVE  Told(n) = 1
<1> DEFINE E == {i \in DOMAIN events : Mentions(events[i], n)}
           O == {x \in Roots \X (1..2) : /\ x[2] \in DOMAIN watcher[x[1]].out
                                         /\ Mentions(watcher[x[1]].out[x[2]], n)}
           W == {r \in Roots : watcher[r].old = n}
<1>1. Cardinality({}) = 0 /\ \A a : Cardinality({a}) = 1
  BY FS_EmptySet, FS_Singleton
<1>2. DOMAIN events = 1..Len(events)
  BY LenProperties DEF Base, TypeOK
<1>3. \A r \in Roots : DOMAIN watcher[r].out = 1..Len(watcher[r].out)
  <2>1. \A r \in Roots : watcher[r].out \in Seq(Sendable)
    BY WatcherFields
  <2> QED BY <2>1, LenProperties
<1>4. \A i : i \in E <=> i \in 1..Len(events) /\ ByEvent(n, i)
  BY <1>2 DEF ByEvent
<1>5. /\ \A x \in O : \E r \in Roots : \E k \in 1..2 : x = <<r, k>>
      /\ \A r \in Roots : \A k \in 1..2 : <<r, k>> \in O <=> ByOut(n, r, k)
  BY <1>3 DEF ByOut, TellsAt
<1>6. \A r : r \in W <=> r \in Roots /\ ByOld(n, r)
  BY DEF ByOld
<1>7. Told(n) = Cardinality(E) + Cardinality(O) + Cardinality(W)
  BY DEF Told
<1> HIDE DEF E, O, W
<1>8. CASE /\ \E i \in 1..Len(events) : \A j \in 1..Len(events) : ByEvent(n, j) <=> j = i
           /\ \A r \in Roots : ~ByOld(n, r) /\ \A k \in 1..2 : ~ByOut(n, r, k)
  <2>1. PICK i \in 1..Len(events) : \A j \in 1..Len(events) : ByEvent(n, j) <=> j = i
    BY <1>8
  <2>2. E = {i}
    BY <1>4, <2>1
  <2>3. O = {}
    <3>1. ASSUME NEW x \in O PROVE FALSE
      <4>1. PICK r \in Roots, k \in 1..2 : x = <<r, k>>
        BY <1>5, <3>1
      <4> QED BY <1>5, <1>8, <3>1, <4>1
    <3> QED BY <3>1
  <2>4. W = {}
    BY <1>6, <1>8
  <2>5. Cardinality(E) = 1 /\ Cardinality(O) = 0 /\ Cardinality(W) = 0
    BY <1>1, <2>2, <2>3, <2>4
  <2> QED BY <1>7, <2>5
<1>9. CASE /\ \A j \in 1..Len(events) : ~ByEvent(n, j)
           /\ \E r \in Roots : \E k \in 1..2 : \A q \in Roots : \A i \in 1..2 :
                ByOut(n, q, i) <=> q = r /\ i = k
           /\ \A r \in Roots : ~ByOld(n, r)
  <2>1. PICK r \in Roots, k \in 1..2 : \A q \in Roots : \A i \in 1..2 :
          ByOut(n, q, i) <=> q = r /\ i = k
    BY <1>9
  <2>2. E = {}
    BY <1>4, <1>9
  <2>3. O = {<<r, k>>}
    <3>1. <<r, k>> \in O
      BY <1>5, <2>1
    <3>2. ASSUME NEW x \in O PROVE x = <<r, k>>
      <4>1. PICK q \in Roots, i \in 1..2 : x = <<q, i>>
        BY <1>5, <3>2
      <4> QED BY <1>5, <2>1, <3>2, <4>1
    <3> QED BY <3>1, <3>2
  <2>4. W = {}
    BY <1>6, <1>9
  <2>5. Cardinality(E) = 0 /\ Cardinality(O) = 1 /\ Cardinality(W) = 0
    BY <1>1, <2>2, <2>3, <2>4
  <2> QED BY <1>7, <2>5
<1>10. CASE /\ \A j \in 1..Len(events) : ~ByEvent(n, j)
            /\ \A r \in Roots : \A k \in 1..2 : ~ByOut(n, r, k)
            /\ \E r \in Roots : \A q \in Roots : ByOld(n, q) <=> q = r
  <2>1. PICK r \in Roots : \A q \in Roots : ByOld(n, q) <=> q = r
    BY <1>10
  <2>2. E = {}
    BY <1>4, <1>10
  <2>3. O = {}
    <3>1. ASSUME NEW x \in O PROVE FALSE
      <4>1. PICK q \in Roots, k \in 1..2 : x = <<q, k>>
        BY <1>5, <3>1
      <4> QED BY <1>5, <1>10, <3>1, <4>1
    <3> QED BY <3>1
  <2>4. W = {r}
    BY <1>6, <2>1
  <2>5. Cardinality(E) = 0 /\ Cardinality(O) = 0 /\ Cardinality(W) = 1
    BY <1>1, <2>2, <2>3, <2>4
  <2> QED BY <1>7, <2>5
<1> QED BY <1>8, <1>9, <1>10 DEF ToldOnce

\* Whatever the kernel drops, however its reads are cut and whatever fails
\* between the two names of a rename, _watch_root reports the rename with its own
\* old name, and until stop() takes the callback away each notification is told
\* exactly once, through _emit, handle_event and _analyze_event.
THEOREM ChangesAreReported == Spec => []ChangesReported
<1> DEFINE Inv == Base /\ PhaseInv /\ FlowInv /\ SourceInv /\ TellInv
<1>1. Init => Inv
  BY InitBase, InitTell
<1>2. Inv /\ [Next]_vars => Inv'
  BY NextBase, NextPhase, NextFlow, NextSource, NextTell
<1>3. Inv => ChangesReported
  <2> SUFFICES ASSUME Inv PROVE ChangesReported
    OBVIOUS
  <2>1. RenamesPaired
    <3>1. DOMAIN events = 1..Len(events)
      BY LenProperties DEF Base, TypeOK
    <3>2. \A i \in 1..Len(events) : Sourced(events[i], taken)
      BY DEF SourceInv, AllSourced
    <3> QED BY <3>1, <3>2 DEF RenamesPaired, Sourced
  <2>2. NotesToldOnce
    BY ToldCounts DEF NotesToldOnce, TellInv
  <2> QED BY <2>1, <2>2 DEF ChangesReported
<1> HIDE DEF Inv
<1> QED BY <1>1, <1>2, <1>3, PTL DEF Spec
=============================================================================
