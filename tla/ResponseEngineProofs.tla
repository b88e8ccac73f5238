------------------------ MODULE ResponseEngineProofs ------------------------
(***************************************************************************)
(* Theorems about ResponseEngine for any number of threads, PIDs,          *)
(* correlations and images.                                                *)
(*                                                                         *)
(* That a signal reaches the bound process is not inductive.  The start    *)
(* times of the incarnations of a PID only grow, so every captured start   *)
(* time is at most the current one (BindingsPast, ThreadSound); a thread   *)
(* that compares identities read the start time after it opened the pidfd  *)
(* and looked the expected one up before, so                               *)
(*     expected.start <= pidfd <= start                                    *)
(* and equality of the outer two pins the pidfd to the bound incarnation.  *)
(***************************************************************************)
EXTENDS ResponseEngine, FiniteSetTheorems, WellFoundedInduction, NaturalsInduction, TLAPS

PidfdPCs == {"captureStat", "captureImage", "sigterm", "awaitTerm", "sigkill", "awaitKill"}

\* What holds of a thread at work, given the processes P.
ThreadSound(x, P) ==
  x.pc \notin {"idle", "dead"} =>
    /\ x.job \in Job
    /\ x.process # None => x.process.start <= P[PidOf[x.job.cid]].start
    /\ x.expected # None => x.expected.start <= P[PidOf[x.job.cid]].start
    /\ x.pc = "bindImage" => x.start <= P[PidOf[x.job.cid]].start
    /\ x.pc \in {"act", "lookup"} \cup PidfdPCs \cup {"pidfdOpen", "quarantine"} =>
         x.job.recommendation \in DOMAIN ActionMap
    /\ x.status = "SUCCEEDED" => x.job.recommendation \in DOMAIN ActionMap
    /\ x.pc = "pidfdOpen" => /\ x.expected # None
                             /\ PidOf[x.job.cid] \notin ProtectedPids
    /\ x.pc \in PidfdPCs =>
         /\ x.expected # None
         /\ PidOf[x.job.cid] \notin ProtectedPids
         /\ x.expected.start <= x.pidfd
         /\ x.pidfd <= P[PidOf[x.job.cid]].start
    /\ x.pc = "captureImage" => x.pidfd <= x.start
    /\ x.pc \in {"sigterm", "awaitTerm", "sigkill", "awaitKill"} => x.pidfd = x.expected.start

BindingSound(b, p, P) == b # None /\ b.process # None => b.process.start <= P[p].start

Past ==
  /\ \A c \in Cids : BindingSound(bindings[c], PidOf[c], proc)
  /\ \A t \in Threads : ThreadSound(th[t], proc)

ResponseInv == TypeOK /\ Past /\ SignalsReachBoundProcess

\* A thread at work has a job, its cid a PID.
LEMMA JobFacts ==
  ASSUME ResponseInv, NEW t \in Threads, th[t].pc \notin {"idle", "dead"}
  PROVE  /\ th[t] \in Thread /\ th[t].job \in Job /\ Cid(t) \in Cids /\ Pid(t) \in Pids
         /\ ThreadSound(th[t], proc)
         /\ proc[Pid(t)] \in [start : Nat, image : Images, alive : BOOLEAN]
<1>1. ThreadSound(th[t], proc) /\ th[t].job \in Job
  BY DEF ResponseInv, Past, ThreadSound
<1>2. th[t].job.cid \in Cids
  BY <1>1 DEF Job
<1> QED
  BY <1>1, <1>2, ConfigAssumption DEF ResponseInv, TypeOK, Cid, Pid

\* The ranks are naturals.
LEMMA RankType ==
  ASSUME NEW r \in DOMAIN ActionMap
  PROVE  ActionRank[ActionMap[r]] \in Nat
BY DEF ActionMap, ActionRank

\* The engine starts in ResponseInv.
LEMMA InitInv == Init => ResponseInv
<1> SUFFICES ASSUME Init PROVE ResponseInv
  OBVIOUS
<1>1. IdleThread \in Thread
  BY DEF IdleThread, Thread, PCs, StatusesOfResult
<1>2. TypeOK
  <2>1. proc \in [Pids -> [start : Nat, image : Images, alive : BOOLEAN]]
    <3>1. \A p \in Pids : proc[p] \in [start : {1}, image : Images, alive : {TRUE}]
      BY DEF Init
    <3>2. [start : {1}, image : Images, alive : {TRUE}]
            \subseteq [start : Nat, image : Images, alive : BOOLEAN]
      <4>1. 1 \in Nat
        OBVIOUS
      <4> QED
        BY <4>1, Zenon
    <3> QED
      BY <3>1, <3>2 DEF Init
  <2>2. /\ bindings \in [Cids -> Binding \cup {None}] /\ highest \in [Cids -> Nat \cup {-1}]
        /\ succeeded \in [Cids -> Seq(Nat)] /\ th \in [Threads -> Thread]
    BY <1>1 DEF Init
  <2> QED
    BY <2>1, <2>2 DEF Init, TypeOK
<1>3. \A t \in Threads : th[t].pc = "idle"
  BY DEF Init, IdleThread
<1>4. \A c \in Cids : bindings[c] = None
  BY DEF Init
<1>5. Past
  BY <1>3, <1>4 DEF Past, ThreadSound, BindingSound
<1>6. SignalsReachBoundProcess
  BY DEF Init, SignalsReachBoundProcess
<1> QED
  BY <1>2, <1>5, <1>6 DEF ResponseInv

\* A step of the kernel moves no start time back.
LEMMA KernelStep ==
  ASSUME ResponseInv, NEW p \in Pids, Spawn(p) \/ Exec(p) \/ Exit(p)
  PROVE  ResponseInv'
<1>1. UNCHANGED <<bindings, highest, openFds, th, bound, jobs, signals, succeeded>>
  BY DEF Spawn, Exec, Exit
<1>2. /\ proc' \in [Pids -> [start : Nat, image : Images, alive : BOOLEAN]]
      /\ \A q \in Pids : proc[q].start <= proc'[q].start
  <2>1. proc \in [Pids -> [start : Nat, image : Images, alive : BOOLEAN]]
    BY DEF ResponseInv, TypeOK
  <2>2. CASE Spawn(p)
    BY <2>1, <2>2 DEF Spawn
  <2>3. CASE Exec(p)
    <3>1. PICK image \in Images : proc' = [proc EXCEPT ![p].image = image]
      BY <2>3 DEF Exec
    <3> QED
      BY <2>1, <3>1
  <2>4. CASE Exit(p)
    BY <2>1, <2>4 DEF Exit
  <2> QED
    BY <2>2, <2>3, <2>4
<1>3. TypeOK'
  BY <1>1, <1>2 DEF ResponseInv, TypeOK
<1>4. ASSUME NEW c \in Cids PROVE BindingSound(bindings[c], PidOf[c], proc)'
  <2>1. /\ BindingSound(bindings[c], PidOf[c], proc) /\ PidOf[c] \in Pids
        /\ bindings[c] \in Binding \cup {None} /\ bindings'[c] = bindings[c]
        /\ proc \in [Pids -> [start : Nat, image : Images, alive : BOOLEAN]]
    BY <1>1, ConfigAssumption DEF ResponseInv, TypeOK, Past
  <2>2. bindings[c] # None /\ bindings[c].process # None => bindings[c].process.start \in Nat
    BY <2>1 DEF Binding, Identity
  <2> QED
    BY <1>2, <2>1, <2>2 DEF BindingSound
<1>5. ASSUME NEW t \in Threads PROVE ThreadSound(th[t], proc)'
  <2> DEFINE x == th[t]
  <2>1. CASE x.pc \in {"idle", "dead"}
    BY <1>1, <2>1 DEF ThreadSound
  <2>2. CASE x.pc \notin {"idle", "dead"}
    <3>1. /\ x \in Thread /\ ThreadSound(x, proc) /\ PidOf[x.job.cid] \in Pids
      BY <2>2, JobFacts DEF Pid, Cid
    <3>2. /\ x.process # None => x.process.start \in Nat
          /\ x.expected # None => x.expected.start \in Nat
          /\ x.start \in Nat /\ x.pidfd \in Nat
      BY <3>1 DEF Thread, Identity
    <3>3. PICK n, m \in Nat : /\ n = proc[PidOf[x.job.cid]].start
                              /\ m = proc'[PidOf[x.job.cid]].start /\ n <= m
      BY <1>2, <3>1 DEF ResponseInv, TypeOK
    <3> HIDE DEF x
    <3>4. ThreadSound(x, proc')
      BY <2>2, <3>1, <3>2, <3>3 DEF ThreadSound
    <3>5. x' = x
      BY <1>1 DEF x
    <3> QED
      BY <3>4, <3>5 DEF x
  <2> QED
    BY <2>1, <2>2
<1>6. SignalsReachBoundProcess'
  BY <1>1 DEF ResponseInv, SignalsReachBoundProcess
<1> QED
  BY <1>3, <1>4, <1>5, <1>6 DEF ResponseInv, Past

\* A step that gives one thread the local state x, and touches the processes
\* not at all.
LEMMA ThreadStep ==
  ASSUME ResponseInv, NEW t \in Threads, NEW x \in Thread, ThreadSound(x, proc),
         th' = [th EXCEPT ![t] = x], proc' = proc,
         bindings' \in [Cids -> Binding \cup {None}],
         \A c \in Cids : BindingSound(bindings'[c], PidOf[c], proc),
         highest' \in [Cids -> Nat \cup {-1}], openFds' \subseteq Nat \ {0},
         bound' \in Nat, jobs' \in Nat, succeeded' \in [Cids -> Seq(Nat)],
         signals' \subseteq [cid : Cids, expected : Nat, hit : Nat],
         SignalsReachBoundProcess'
  PROVE  ResponseInv'
<1>1. th \in [Threads -> Thread] /\ proc \in [Pids -> [start : Nat, image : Images, alive : BOOLEAN]]
  BY DEF ResponseInv, TypeOK
<1>2. th' \in [Threads -> Thread]
  BY <1>1
<1>3. TypeOK'
  BY <1>1, <1>2 DEF TypeOK
<1>4. \A u \in Threads : th'[u] = IF u = t THEN x ELSE th[u]
  BY <1>1
<1>5. \A u \in Threads : ThreadSound(th[u], proc)
  BY DEF ResponseInv, Past
<1>6. \A u \in Threads : ThreadSound(th'[u], proc)
  <2> TAKE u \in Threads
  <2>1. CASE u = t
    <3>1. th'[u] = x
      BY <1>4, <2>1
    <3> QED
      BY <3>1
  <2>2. CASE u # t
    <3>1. th'[u] = th[u]
      BY <1>4, <2>2
    <3> QED
      BY <1>5, <3>1
  <2> QED
    BY <2>1, <2>2
<1>7. Past'
  <2>1. \A c \in Cids : BindingSound(bindings[c], PidOf[c], proc)'
    BY DEF BindingSound
  <2>2. \A u \in Threads : ThreadSound(th[u], proc)'
    BY <1>6 DEF ThreadSound
  <2> QED
    BY <2>1, <2>2 DEF Past
<1> QED
  BY <1>3, <1>7 DEF ResponseInv

\* The same for a step that changes nothing but the thread.
LEMMA LocalStep ==
  ASSUME ResponseInv, NEW t \in Threads, NEW x \in Thread, ThreadSound(x, proc),
         th' = [th EXCEPT ![t] = x],
         UNCHANGED <<proc, bindings, highest, openFds, bound, jobs, signals, succeeded>>
  PROVE  ResponseInv'
<1>1. /\ bindings' \in [Cids -> Binding \cup {None}]
      /\ highest' \in [Cids -> Nat \cup {-1}] /\ openFds' \subseteq Nat \ {0}
      /\ bound' \in Nat /\ jobs' \in Nat /\ succeeded' \in [Cids -> Seq(Nat)]
      /\ signals' \subseteq [cid : Cids, expected : Nat, hit : Nat]
      /\ proc' = proc
  BY DEF ResponseInv, TypeOK
<1>2. \A c \in Cids : BindingSound(bindings'[c], PidOf[c], proc)
  BY DEF ResponseInv, Past
<1>3. SignalsReachBoundProcess'
  BY DEF ResponseInv, SignalsReachBoundProcess
<1> QED
  BY <1>1, <1>2, <1>3, ThreadStep

\* Conclude leaves a thread about to record a result.
LEMMA ConcludeStep ==
  ASSUME ResponseInv, NEW t \in Threads, NEW status \in StatusesOfResult,
         th[t].pc \notin {"idle", "dead"}, Conclude(t, status),
         status = "SUCCEEDED" => th[t].job.recommendation \in DOMAIN ActionMap,
         UNCHANGED <<proc, bindings, highest, openFds, bound, jobs, signals, succeeded>>
  PROVE  ResponseInv'
<1> DEFINE x == [th[t] EXCEPT !.pc = "result", !.status = status, !.pidfd = 0]
<1>1. th[t] \in Thread /\ ThreadSound(th[t], proc)
  BY JobFacts
<1>2. x \in Thread
  BY <1>1 DEF Thread, PCs
<1>3. ThreadSound(x, proc)
  BY <1>1 DEF ThreadSound, Thread, PidfdPCs
<1>4. th' = [th EXCEPT ![t] = x]
  BY DEF Conclude, ResponseInv, TypeOK
<1> HIDE DEF x
<1> QED
  BY <1>2, <1>3, <1>4, LocalStep

\* So does Die, except that the thread is dead.
LEMMA DieStep ==
  ASSUME ResponseInv, NEW t \in Threads, Die(t),
         UNCHANGED <<proc, bindings, highest, openFds, bound, jobs, signals, succeeded>>
  PROVE  ResponseInv'
<1> DEFINE x == [th[t] EXCEPT !.pc = "dead", !.pidfd = 0]
<1>1. th[t] \in Thread
  BY DEF ResponseInv, TypeOK
<1>2. x \in Thread
  BY <1>1 DEF Thread, PCs
<1>3. ThreadSound(x, proc)
  BY <1>1 DEF ThreadSound, Thread
<1>4. th' = [th EXCEPT ![t] = x]
  BY DEF Die, ResponseInv, TypeOK
<1> HIDE DEF x
<1> QED
  BY <1>2, <1>3, <1>4, LocalStep

\* A thread that only moves to another program counter.
LEMMA GotoStep ==
  ASSUME ResponseInv, NEW t \in Threads, NEW pc \in PCs, Goto(t, pc),
         ThreadSound([th[t] EXCEPT !.pc = pc], proc),
         UNCHANGED <<proc, bindings, highest, openFds, bound, jobs, signals, succeeded>>
  PROVE  ResponseInv'
<1> DEFINE x == [th[t] EXCEPT !.pc = pc]
<1>1. x \in Thread
  BY DEF ResponseInv, TypeOK, Thread
<1>2. th' = [th EXCEPT ![t] = x]
  BY DEF Goto, ResponseInv, TypeOK
<1> HIDE DEF x
<1>3. ThreadSound(x, proc)
  BY DEF x
<1> QED
  BY <1>1, <1>2, <1>3, LocalStep

\* terminate() returning to its caller.
LEMMA TerminatedStep ==
  ASSUME ResponseInv, NEW t \in Threads, th[t].pc \in PidfdPCs \cup {"pidfdOpen"}, Terminated(t),
         UNCHANGED <<proc, bindings, highest, openFds, bound, jobs, signals, succeeded>>
  PROVE  ResponseInv'
<1>1. th[t].pc \notin {"idle", "dead"} /\ th[t] \in Thread /\ ThreadSound(th[t], proc)
  BY JobFacts DEF PidfdPCs
<1>2. th[t].job.recommendation \in DOMAIN ActionMap
  BY <1>1 DEF ThreadSound
<1>3. CASE Action(t) = "TERMINATE"
  <2>1. Conclude(t, "SUCCEEDED")
    BY <1>3 DEF Terminated
  <2> QED
    BY <1>1, <1>2, <2>1, ConcludeStep DEF StatusesOfResult
<1>4. CASE Action(t) # "TERMINATE"
  <2> DEFINE x == [th[t] EXCEPT !.pc = "quarantine", !.pidfd = 0]
  <2>1. x \in Thread
    BY <1>1 DEF Thread, PCs
  <2>2. ThreadSound(x, proc)
    BY <1>1, <1>2 DEF ThreadSound, Thread, PidfdPCs
  <2>3. th' = [th EXCEPT ![t] = x]
    BY <1>4 DEF Terminated, ResponseInv, TypeOK
  <2> HIDE DEF x
  <2> QED
    BY <2>1, <2>2, <2>3, LocalStep
<1> QED
  BY <1>3, <1>4

\* A consumer takes a state from its queue.
LEMMA BeginStep ==
  ASSUME ResponseInv, NEW t \in Threads, Begin(t)
  PROVE  ResponseInv'
<1>1. PICK job \in Job :
        th' = [th EXCEPT ![t] = [IdleThread EXCEPT
                 !.job = job, !.pc = IF job.bind THEN "bindStat" ELSE "check"]]
  BY DEF Begin
<1> DEFINE x == [IdleThread EXCEPT !.job = job, !.pc = IF job.bind THEN "bindStat" ELSE "check"]
<1>2. x \in Thread /\ ThreadSound(x, proc)
  BY DEF IdleThread, Thread, PCs, StatusesOfResult, ThreadSound, PidfdPCs
<1> HIDE DEF x
<1>3. th' = [th EXCEPT ![t] = x]
  BY <1>1 DEF x
<1>4. /\ bindings' \in [Cids -> Binding \cup {None}]
      /\ highest' \in [Cids -> Nat \cup {-1}] /\ openFds' \subseteq Nat \ {0}
      /\ bound' \in Nat /\ jobs' \in Nat /\ succeeded' \in [Cids -> Seq(Nat)]
      /\ signals' \subseteq [cid : Cids, expected : Nat, hit : Nat]
      /\ proc' = proc
  BY DEF Begin, ResponseInv, TypeOK
<1>5. \A c \in Cids : BindingSound(bindings'[c], PidOf[c], proc)
  BY DEF Begin, ResponseInv, Past
<1>6. SignalsReachBoundProcess'
  BY DEF Begin, ResponseInv, SignalsReachBoundProcess
<1> QED
  BY <1>2, <1>3, <1>4, <1>5, <1>6, ThreadStep

\* The start time is read from /proc/PID/stat.
LEMMA BindStatStep ==
  ASSUME ResponseInv, NEW t \in Threads, BindStat(t)
  PROVE  ResponseInv'
<1>1. th[t].pc = "bindStat"
  BY DEF BindStat, At
<1>2. /\ th[t] \in Thread /\ ThreadSound(th[t], proc)
      /\ proc[Pid(t)].start \in Nat
  BY <1>1, JobFacts
<1>3. CASE proc[Pid(t)].alive
  <2> DEFINE x == [th[t] EXCEPT !.start = proc[Pid(t)].start, !.pc = "bindImage"]
  <2>1. x \in Thread
    BY <1>2 DEF Thread, PCs
  <2>2. ThreadSound(x, proc)
    BY <1>1, <1>2 DEF ThreadSound, Thread, PidfdPCs, Pid, Cid
  <2>3. th' = [th EXCEPT ![t] = x]
    BY <1>3 DEF BindStat, ResponseInv, TypeOK
  <2> HIDE DEF x
  <2> QED
    BY <2>1, <2>2, <2>3, LocalStep DEF BindStat
<1>4. CASE ~proc[Pid(t)].alive
  <2>1. Goto(t, "bindFile")
    BY <1>4 DEF BindStat
  <2>2. ThreadSound([th[t] EXCEPT !.pc = "bindFile"], proc)
    BY <1>1, <1>2 DEF ThreadSound, Thread, PidfdPCs
  <2> QED
    BY <2>1, <2>2, GotoStep DEF BindStat, PCs
<1> QED
  BY <1>3, <1>4

\* The image is read from /proc/PID/exe: the identity is complete.
LEMMA BindImageStep ==
  ASSUME ResponseInv, NEW t \in Threads, BindImage(t)
  PROVE  ResponseInv'
<1>1. th[t].pc = "bindImage"
  BY DEF BindImage, At
<1>2. /\ th[t] \in Thread /\ ThreadSound(th[t], proc)
      /\ proc[Pid(t)].start \in Nat /\ proc[Pid(t)].image \in Images
  BY <1>1, JobFacts
<1> DEFINE i == IF proc[Pid(t)].alive THEN [start |-> th[t].start, image |-> proc[Pid(t)].image]
                                      ELSE None
           x == [th[t] EXCEPT !.pc = "bindFile", !.process = i]
<1>3. /\ i \in Identity \cup {None}
      /\ i # None => i.start = th[t].start
  BY <1>2 DEF Identity, Thread
<1>4. th[t].start <= proc[Pid(t)].start
  BY <1>1, <1>2 DEF ThreadSound, Pid, Cid
<1>5. th' = [th EXCEPT ![t] = x]
  BY DEF BindImage, ResponseInv, TypeOK
<1> HIDE DEF i
<1>6. x \in Thread
  BY <1>2, <1>3 DEF Thread, PCs
<1>7. ThreadSound(x, proc)
  BY <1>1, <1>2, <1>3, <1>4 DEF ThreadSound, Thread, PidfdPCs, Pid, Cid
<1> HIDE DEF x
<1> QED
  BY <1>5, <1>6, <1>7, LocalStep DEF BindImage

\* The file is opened, or its identity cannot be established.
LEMMA BindFileStep ==
  ASSUME ResponseInv, NEW t \in Threads, BindFile(t)
  PROVE  ResponseInv'
<1>1. th[t].pc = "bindFile"
  BY DEF BindFile, At
<1>2. th[t] \in Thread /\ ThreadSound(th[t], proc)
  BY <1>1, JobFacts
<1>3. UNCHANGED <<proc, bindings, highest, bound, jobs, signals, succeeded>>
  BY DEF BindFile
<1>4. CASE \E fd \in FreeFds : /\ openFds' = openFds \cup {fd}
                               /\ th' = [th EXCEPT ![t].fd = fd, ![t].pc = "bindInsert"]
  <2>1. PICK fd \in FreeFds : /\ openFds' = openFds \cup {fd}
                              /\ th' = [th EXCEPT ![t].fd = fd, ![t].pc = "bindInsert"]
    BY <1>4
  <2>2. fd \in Nat \ {0}
    BY DEF FreeFds
  <2> DEFINE x == [th[t] EXCEPT !.fd = fd, !.pc = "bindInsert"]
  <2>3. x \in Thread
    BY <1>2, <2>2 DEF Thread, PCs
  <2>4. ThreadSound(x, proc)
    BY <1>1, <1>2 DEF ThreadSound, Thread, PidfdPCs
  <2>5. th' = [th EXCEPT ![t] = x]
    BY <2>1 DEF ResponseInv, TypeOK
  <2> HIDE DEF x
  <2>6. /\ bindings' \in [Cids -> Binding \cup {None}]
        /\ highest' \in [Cids -> Nat \cup {-1}] /\ openFds' \subseteq Nat \ {0}
        /\ bound' \in Nat /\ jobs' \in Nat /\ succeeded' \in [Cids -> Seq(Nat)]
        /\ signals' \subseteq [cid : Cids, expected : Nat, hit : Nat]
        /\ proc' = proc
    BY <1>3, <2>1, <2>2 DEF ResponseInv, TypeOK
  <2>7. \A c \in Cids : BindingSound(bindings'[c], PidOf[c], proc)
    BY <1>3 DEF ResponseInv, Past
  <2>8. SignalsReachBoundProcess'
    BY <1>3 DEF ResponseInv, SignalsReachBoundProcess
  <2> QED
    BY <2>3, <2>4, <2>5, <2>6, <2>7, <2>8, ThreadStep
<1>5. CASE Goto(t, "bindInsert") /\ UNCHANGED openFds
  <2>1. ThreadSound([th[t] EXCEPT !.pc = "bindInsert"], proc)
    BY <1>1, <1>2 DEF ThreadSound, Thread, PidfdPCs
  <2> QED
    BY <1>3, <1>5, <2>1, GotoStep DEF PCs
<1>6. CASE Die(t) /\ UNCHANGED openFds
  BY <1>3, <1>6, DieStep
<1> QED
  BY <1>4, <1>5, <1>6 DEF BindFile

\* The binding is stored, evicting others.
LEMMA BindInsertStep ==
  ASSUME ResponseInv, NEW t \in Threads, BindInsert(t)
  PROVE  ResponseInv'
<1>1. th[t].pc = "bindInsert"
  BY DEF BindInsert, At
<1>2. /\ th[t] \in Thread /\ ThreadSound(th[t], proc) /\ th[t].job \in Job
      /\ Cid(t) \in Cids
  BY <1>1, JobFacts
<1> DEFINE x == [IdleThread EXCEPT !.job = th[t].job, !.pc = "check"]
           b == [process |-> th[t].process, fd |-> th[t].fd, at |-> bound + 1]
<1>3. x \in Thread /\ ThreadSound(x, proc)
  <2> DEFINE j == th[t].job
  <2>1. j \in Job
    BY <1>2
  <2> HIDE DEF j
  <2>2. [IdleThread EXCEPT !.job = j, !.pc = "check"] \in Thread
    BY <2>1 DEF IdleThread, Thread, PCs, StatusesOfResult
  <2>3. ThreadSound([IdleThread EXCEPT !.job = j, !.pc = "check"], proc)
    BY <2>1 DEF IdleThread, ThreadSound, PidfdPCs
  <2> QED
    BY <2>2, <2>3 DEF j
<1>4. th' = [th EXCEPT ![t] = x]
  BY DEF BindInsert
<1>5. b \in Binding /\ BindingSound(b, PidOf[Cid(t)], proc)
  BY <1>1, <1>2 DEF Binding, Thread, BindingSound, ThreadSound, Cid, ResponseInv, TypeOK
<1>6. /\ UNCHANGED <<proc, highest, jobs, signals, succeeded>>
      /\ \/ UNCHANGED <<bindings, openFds, bound>>
         \/ /\ bindings' = [c \in Cids |-> IF c = Cid(t) THEN b
                               ELSE IF c \in DroppedBy(Cid(t)) THEN None ELSE bindings[c]]
            /\ openFds' = openFds \ ClosedBy(Cid(t))
            /\ bound' = bound + 1
  BY DEF BindInsert
<1> HIDE DEF x, b
<1>7. /\ bindings \in [Cids -> Binding \cup {None}] /\ bound \in Nat
      /\ \A c \in Cids : BindingSound(bindings[c], PidOf[c], proc)
      /\ openFds \subseteq Nat \ {0}
  BY DEF ResponseInv, TypeOK, Past
<1>8. BindingSound(None, PidOf[Cid(t)], proc) /\ \A c \in Cids : BindingSound(None, PidOf[c], proc)
  BY DEF BindingSound
<1>9. /\ bindings' \in [Cids -> Binding \cup {None}] /\ bound' \in Nat
      /\ openFds' \subseteq Nat \ {0}
  <2>1. CASE UNCHANGED <<bindings, openFds, bound>>
    BY <1>7, <2>1
  <2>2. CASE /\ bindings' = [c \in Cids |-> IF c = Cid(t) THEN b
                               ELSE IF c \in DroppedBy(Cid(t)) THEN None ELSE bindings[c]]
             /\ openFds' = openFds \ ClosedBy(Cid(t))
             /\ bound' = bound + 1
    <3>1. bindings' \in [Cids -> Binding \cup {None}]
      BY <1>5, <1>7, <2>2
    <3>2. bound' \in Nat
      BY <1>7, <2>2
    <3>3. openFds' \subseteq Nat \ {0}
      BY <1>7, <2>2, Zenon
    <3> QED
      BY <3>1, <3>2, <3>3
  <2> QED
    BY <1>6, <2>1, <2>2
<1>10. \A c \in Cids : BindingSound(bindings'[c], PidOf[c], proc)
  <2> TAKE c \in Cids
  <2>1. CASE bindings' = bindings
    BY <1>7, <2>1
  <2>2. CASE bindings' # bindings
    <3>1. bindings'[c] = IF c = Cid(t) THEN b
                         ELSE IF c \in DroppedBy(Cid(t)) THEN None ELSE bindings[c]
      BY <1>6, <2>2
    <3>2. CASE c = Cid(t)
      <4>1. bindings'[c] = b
        BY <3>1, <3>2
      <4> QED
        BY <1>5, <3>2, <4>1
    <3>3. CASE c # Cid(t)
      <4>1. bindings'[c] = None \/ bindings'[c] = bindings[c]
        BY <3>1, <3>3
      <4> QED
        BY <1>7, <1>8, <4>1
    <3> QED
      BY <3>2, <3>3
  <2> QED
    BY <2>1, <2>2
<1>11. /\ highest' \in [Cids -> Nat \cup {-1}] /\ jobs' \in Nat
       /\ succeeded' \in [Cids -> Seq(Nat)]
       /\ signals' \subseteq [cid : Cids, expected : Nat, hit : Nat]
       /\ proc' = proc /\ SignalsReachBoundProcess'
  BY <1>6 DEF ResponseInv, TypeOK, SignalsReachBoundProcess
<1> QED
  BY <1>3, <1>4, <1>9, <1>10, <1>11, ThreadStep

\* The duplicate and eligibility checks.
LEMMA CheckStep ==
  ASSUME ResponseInv, NEW t \in Threads, Check(t)
  PROVE  ResponseInv'
<1>1. th[t].pc = "check"
  BY DEF Check, At
<1>2. /\ th[t] \in Thread /\ ThreadSound(th[t], proc) /\ th[t].job \in Job
      /\ Cid(t) \in Cids
  BY <1>1, JobFacts
<1>3. UNCHANGED <<proc, bindings, highest, openFds, bound, jobs, signals, succeeded>>
  BY DEF Check
<1>4. CASE Conclude(t, "REFUSED") \/ Conclude(t, "DUPLICATE_SUPPRESSED")
  BY <1>1, <1>3, <1>4, ConcludeStep DEF StatusesOfResult
<1>5. CASE Known(t) /\ th' = [th EXCEPT ![t].previous = highest[Cid(t)], ![t].pc = "act"]
  <2> DEFINE x == [th[t] EXCEPT !.previous = highest[Cid(t)], !.pc = "act"]
  <2>1. highest[Cid(t)] \in Nat \cup {-1}
    BY <1>2 DEF ResponseInv, TypeOK
  <2>2. x \in Thread
    BY <1>2, <2>1 DEF Thread, PCs
  <2>3. ThreadSound(x, proc)
    BY <1>1, <1>2, <1>5 DEF ThreadSound, Thread, PidfdPCs, Known
  <2>4. th' = [th EXCEPT ![t] = x]
    BY <1>5 DEF ResponseInv, TypeOK
  <2> HIDE DEF x
  <2> QED
    BY <1>3, <2>2, <2>3, <2>4, LocalStep
<1> QED
  BY <1>4, <1>5 DEF Check

\* The recommendation is turned into an action.
LEMMA ActStep ==
  ASSUME ResponseInv, NEW t \in Threads, Act(t)
  PROVE  ResponseInv'
<1>1. th[t].pc = "act"
  BY DEF Act, At
<1>2. th[t] \in Thread /\ ThreadSound(th[t], proc)
  BY <1>1, JobFacts
<1>3. UNCHANGED <<proc, bindings, highest, openFds, bound, jobs, signals, succeeded>>
  BY DEF Act
<1>4. th[t].job.recommendation \in DOMAIN ActionMap
  BY <1>1, <1>2 DEF ThreadSound
<1>5. CASE \E status \in StatusesOfResult : Conclude(t, status)
  BY <1>1, <1>3, <1>4, <1>5, ConcludeStep
<1>6. CASE Goto(t, "lookup")
  <2>1. ThreadSound([th[t] EXCEPT !.pc = "lookup"], proc)
    BY <1>1, <1>2 DEF ThreadSound, Thread, PidfdPCs
  <2> QED
    BY <1>3, <1>6, <2>1, GotoStep DEF PCs
<1>7. \/ \E status \in StatusesOfResult : Conclude(t, status)
      \/ Goto(t, "lookup")
  BY DEF Act, StatusesOfResult
<1> QED
  BY <1>5, <1>6, <1>7

\* The binding is looked up, and protected PIDs are refused.
LEMMA LookupStep ==
  ASSUME ResponseInv, NEW t \in Threads, Lookup(t)
  PROVE  ResponseInv'
<1> DEFINE b == bindings[Cid(t)]
<1>1. th[t].pc = "lookup"
  BY DEF Lookup, At
<1>2. /\ th[t] \in Thread /\ ThreadSound(th[t], proc) /\ Cid(t) \in Cids
      /\ PidOf[th[t].job.cid] = Pid(t)
  BY <1>1, JobFacts DEF Pid, Cid
<1>3. UNCHANGED <<proc, bindings, highest, openFds, bound, jobs, signals, succeeded>>
  BY DEF Lookup
<1>4. b \in Binding \cup {None} /\ BindingSound(b, Pid(t), proc)
  BY <1>2 DEF ResponseInv, TypeOK, Past, Pid
<1>5. CASE Conclude(t, "REFUSED")
  BY <1>1, <1>3, <1>5, ConcludeStep DEF StatusesOfResult
<1>6. CASE b # None /\ th' = [th EXCEPT ![t].target = b.at, ![t].pc = "quarantine"]
  <2> DEFINE x == [th[t] EXCEPT !.target = b.at, !.pc = "quarantine"]
  <2>1. x \in Thread
    BY <1>2, <1>4, <1>6 DEF Thread, PCs, Binding
  <2>2. ThreadSound(x, proc)
    BY <1>1, <1>2 DEF ThreadSound, Thread, PidfdPCs
  <2>3. th' = [th EXCEPT ![t] = x]
    BY <1>6 DEF ResponseInv, TypeOK
  <2> HIDE DEF x
  <2> QED
    BY <1>3, <2>1, <2>2, <2>3, LocalStep
<1>7. CASE /\ b # None /\ b.process # None /\ Pid(t) \notin ProtectedPids
           /\ th' = [th EXCEPT ![t].expected = b.process, ![t].target = b.at,
                               ![t].pc = "pidfdOpen"]
  <2> DEFINE x == [th[t] EXCEPT !.expected = b.process, !.target = b.at, !.pc = "pidfdOpen"]
  <2>1. x \in Thread
    BY <1>2, <1>4, <1>7 DEF Thread, PCs, Binding
  <2>2. b.process.start <= proc[Pid(t)].start
    BY <1>4, <1>7 DEF BindingSound
  <2>3. ThreadSound(x, proc)
    <3> HIDE DEF b
    <3> QED
      BY <1>1, <1>2, <1>7, <2>2 DEF ThreadSound, Thread, PidfdPCs
  <2>4. th' = [th EXCEPT ![t] = x]
    BY <1>7 DEF ResponseInv, TypeOK
  <2> HIDE DEF x
  <2> QED
    BY <1>3, <2>1, <2>3, <2>4, LocalStep
<1> QED
  BY <1>5, <1>6, <1>7 DEF Lookup, Protected

\* pidfd_open pins an incarnation not older than the bound one.
LEMMA PidfdOpenStep ==
  ASSUME ResponseInv, NEW t \in Threads, PidfdOpen(t)
  PROVE  ResponseInv'
<1>1. th[t].pc = "pidfdOpen"
  BY DEF PidfdOpen, At
<1>2. /\ th[t] \in Thread /\ ThreadSound(th[t], proc)
      /\ proc[Pid(t)].start \in Nat /\ PidOf[th[t].job.cid] = Pid(t)
  BY <1>1, JobFacts DEF Pid, Cid
<1>3. UNCHANGED <<proc, bindings, highest, openFds, bound, jobs, signals, succeeded>>
  BY DEF PidfdOpen
<1>4. CASE th' = [th EXCEPT ![t].pidfd = proc[Pid(t)].start, ![t].pc = "captureStat"]
  <2> DEFINE n == proc[Pid(t)].start
             x == [th[t] EXCEPT !.pidfd = n, !.pc = "captureStat"]
  <2>1. x \in Thread
    BY <1>2 DEF Thread, PCs
  <2>2. /\ th[t].expected # None /\ th[t].expected.start <= n
        /\ PidOf[th[t].job.cid] \notin ProtectedPids
    BY <1>1, <1>2 DEF ThreadSound
  <2>3. ThreadSound(x, proc)
    BY <1>1, <1>2, <2>2 DEF ThreadSound, Thread, PidfdPCs
  <2>4. th' = [th EXCEPT ![t] = x]
    BY <1>4 DEF ResponseInv, TypeOK
  <2> HIDE DEF x
  <2> QED
    BY <1>3, <2>1, <2>3, <2>4, LocalStep
<1>5. CASE Terminated(t)
  BY <1>1, <1>3, <1>5, TerminatedStep
<1>6. CASE Conclude(t, "REFUSED")
  BY <1>1, <1>3, <1>6, ConcludeStep DEF StatusesOfResult
<1> QED
  BY <1>4, <1>5, <1>6 DEF PidfdOpen

\* The start time is read again, after the pidfd was opened.
LEMMA CaptureStatStep ==
  ASSUME ResponseInv, NEW t \in Threads, CaptureStat(t)
  PROVE  ResponseInv'
<1>1. th[t].pc = "captureStat"
  BY DEF CaptureStat, At
<1>2. /\ th[t] \in Thread /\ ThreadSound(th[t], proc)
      /\ proc[Pid(t)].start \in Nat /\ PidOf[th[t].job.cid] = Pid(t)
  BY <1>1, JobFacts DEF Pid, Cid
<1>3. UNCHANGED <<proc, bindings, highest, openFds, bound, jobs, signals, succeeded>>
  BY DEF CaptureStat
<1>4. CASE th' = [th EXCEPT ![t].start = proc[Pid(t)].start, ![t].pc = "captureImage"]
  <2> DEFINE n == proc[Pid(t)].start
             x == [th[t] EXCEPT !.start = n, !.pc = "captureImage"]
  <2>1. x \in Thread
    BY <1>2 DEF Thread, PCs
  <2>2. th[t].pidfd <= n
    BY <1>1, <1>2 DEF ThreadSound, PidfdPCs
  <2>3. ThreadSound(x, proc)
    BY <1>1, <1>2, <2>2 DEF ThreadSound, Thread, PidfdPCs
  <2>4. th' = [th EXCEPT ![t] = x]
    BY <1>4 DEF ResponseInv, TypeOK
  <2> HIDE DEF x
  <2> QED
    BY <1>3, <2>1, <2>3, <2>4, LocalStep
<1>5. CASE Conclude(t, "REFUSED")
  BY <1>1, <1>3, <1>5, ConcludeStep DEF StatusesOfResult
<1> QED
  BY <1>4, <1>5 DEF CaptureStat

\* The comparison pins the pidfd to the bound incarnation.
LEMMA CaptureImageStep ==
  ASSUME ResponseInv, NEW t \in Threads, CaptureImage(t)
  PROVE  ResponseInv'
<1>1. th[t].pc = "captureImage"
  BY DEF CaptureImage, At
<1>2. /\ th[t] \in Thread /\ ThreadSound(th[t], proc)
      /\ proc[Pid(t)].start \in Nat
  BY <1>1, JobFacts
<1>3. UNCHANGED <<proc, bindings, highest, openFds, bound, jobs, signals, succeeded>>
  BY DEF CaptureImage
<1>4. CASE Goto(t, "sigterm") /\ th[t].expected.start = th[t].start
  <2>1. /\ th[t].expected # None /\ th[t].expected.start <= th[t].pidfd
        /\ th[t].pidfd <= th[t].start
    BY <1>1, <1>2 DEF ThreadSound, PidfdPCs
  <2>2. th[t].expected.start \in Nat /\ th[t].pidfd \in Nat /\ th[t].start \in Nat
    BY <1>2, <2>1 DEF Thread, Identity
  <2>3. th[t].pidfd = th[t].expected.start
    BY <1>4, <2>1, <2>2
  <2>4. ThreadSound([th[t] EXCEPT !.pc = "sigterm"], proc)
    BY <1>1, <1>2, <2>3 DEF ThreadSound, Thread, PidfdPCs
  <2> QED
    BY <1>3, <1>4, <2>4, GotoStep DEF PCs
<1>5. CASE Conclude(t, "REFUSED")
  BY <1>1, <1>3, <1>5, ConcludeStep DEF StatusesOfResult
<1> QED
  BY <1>4, <1>5 DEF CaptureImage, SameIdentity

\* A signal through the pidfd.
LEMMA SendStep ==
  ASSUME ResponseInv, NEW t \in Threads,
         NEW next \in {"awaitTerm", "awaitKill"}, th[t].pc \in {"sigterm", "sigkill"},
         Send(t, next)
  PROVE  ResponseInv'
<1>1. /\ th[t] \in Thread /\ ThreadSound(th[t], proc) /\ Cid(t) \in Cids
      /\ PidOf[th[t].job.cid] = Pid(t)
  BY JobFacts DEF Pid, Cid
<1>2. UNCHANGED <<proc, bindings, highest, openFds, bound, jobs, succeeded>>
  BY DEF Send
<1>3. /\ th[t].expected # None /\ th[t].pidfd = th[t].expected.start /\ th[t].pidfd \in Nat
      /\ Pid(t) \notin ProtectedPids
  BY <1>1 DEF ThreadSound, PidfdPCs, Thread
<1> DEFINE s == [cid |-> Cid(t), expected |-> th[t].expected.start, hit |-> th[t].pidfd]
<1>4. CASE signals' = signals \cup {s} /\ Goto(t, next)
  <2> DEFINE x == [th[t] EXCEPT !.pc = next]
  <2>1. x \in Thread
    BY <1>1 DEF Thread, PCs
  <2>2. ThreadSound(x, proc)
    BY <1>1, <1>3 DEF ThreadSound, Thread, PidfdPCs
  <2>3. th' = [th EXCEPT ![t] = x]
    BY <1>4 DEF Goto, ResponseInv, TypeOK
  <2>4. s \in [cid : Cids, expected : Nat, hit : Nat] /\ s.hit = s.expected /\ s.cid = Cid(t)
    BY <1>1, <1>3
  <2> HIDE DEF x, s
  <2>5. /\ bindings' \in [Cids -> Binding \cup {None}]
        /\ highest' \in [Cids -> Nat \cup {-1}] /\ openFds' \subseteq Nat \ {0}
        /\ bound' \in Nat /\ jobs' \in Nat /\ succeeded' \in [Cids -> Seq(Nat)]
        /\ proc' = proc
    BY <1>2 DEF ResponseInv, TypeOK
  <2>6. signals' \subseteq [cid : Cids, expected : Nat, hit : Nat]
    BY <1>4, <2>4 DEF ResponseInv, TypeOK
  <2>7. \A c \in Cids : BindingSound(bindings'[c], PidOf[c], proc)
    BY <1>2 DEF ResponseInv, Past
  <2>8. SignalsReachBoundProcess'
    BY <1>3, <1>4, <2>4 DEF ResponseInv, SignalsReachBoundProcess, Pid
  <2> QED
    BY <2>1, <2>2, <2>3, <2>5, <2>6, <2>7, <2>8, ThreadStep
<1>5. CASE Die(t) /\ UNCHANGED signals
  BY <1>2, <1>5, DieStep
<1> QED
  BY <1>4, <1>5 DEF Send

\* The waits for the process to exit.
LEMMA AwaitStep ==
  ASSUME ResponseInv, NEW t \in Threads, AwaitTerm(t) \/ AwaitKill(t)
  PROVE  ResponseInv'
<1>1. th[t].pc \in {"awaitTerm", "awaitKill"}
  BY DEF AwaitTerm, AwaitKill, At
<1>2. th[t] \in Thread /\ ThreadSound(th[t], proc)
  BY <1>1, JobFacts
<1>3. UNCHANGED <<proc, bindings, highest, openFds, bound, jobs, signals, succeeded>>
  BY DEF AwaitTerm, AwaitKill
<1>4. CASE Terminated(t)
  BY <1>1, <1>3, <1>4, TerminatedStep DEF PidfdPCs
<1>5. CASE Conclude(t, "REFUSED")
  BY <1>1, <1>3, <1>5, ConcludeStep DEF StatusesOfResult
<1>6. CASE Goto(t, "sigkill")
  <2>1. ThreadSound([th[t] EXCEPT !.pc = "sigkill"], proc)
    BY <1>1, <1>2 DEF ThreadSound, Thread, PidfdPCs
  <2> QED
    BY <1>3, <1>6, <2>1, GotoStep DEF PCs
<1> QED
  BY <1>4, <1>5, <1>6 DEF AwaitTerm, AwaitKill

\* The quarantine of the bound file.
LEMMA QuarantineStep ==
  ASSUME ResponseInv, NEW t \in Threads, QuarantineFile(t)
  PROVE  ResponseInv'
<1>1. th[t].pc = "quarantine"
  BY DEF QuarantineFile, At
<1>2. th[t].job.recommendation \in DOMAIN ActionMap
  BY <1>1, JobFacts DEF ThreadSound
<1>3. UNCHANGED <<proc, bindings, highest, openFds, bound, jobs, signals, succeeded>>
  BY DEF QuarantineFile
<1>4. \E status \in StatusesOfResult : Conclude(t, status)
  BY DEF QuarantineFile, StatusesOfResult
<1> QED
  BY <1>1, <1>2, <1>3, <1>4, ConcludeStep

\* The result is recorded.
LEMMA ResultStep ==
  ASSUME ResponseInv, NEW t \in Threads, Result(t)
  PROVE  ResponseInv'
<1>1. th[t].pc = "result"
  BY DEF Result, At
<1>2. th[t] \in Thread /\ ThreadSound(th[t], proc)
  BY <1>1, JobFacts
<1>3. UNCHANGED <<proc, bindings, highest, openFds, bound, jobs, signals, succeeded>>
  BY DEF Result
<1>4. ASSUME NEW pc \in {"release", "commit"}, Goto(t, pc) PROVE ResponseInv'
  <2>1. ThreadSound([th[t] EXCEPT !.pc = pc], proc)
    BY <1>1, <1>2 DEF ThreadSound, Thread, PidfdPCs
  <2>2. pc \in PCs
    BY DEF PCs
  <2> QED
    BY <1>3, <1>4, <2>1, <2>2, GotoStep
<1>5. CASE Die(t)
  BY <1>3, <1>5, DieStep
<1> QED
  BY <1>4, <1>5 DEF Result

\* Dropping bindings keeps the rest as they are.
LEMMA DropFacts ==
  ASSUME ResponseInv, NEW cids, Drop(cids)
  PROVE  /\ bindings' \in [Cids -> Binding \cup {None}] /\ openFds' \subseteq Nat \ {0}
         /\ \A c \in Cids : BindingSound(bindings'[c], PidOf[c], proc)
<1>1. /\ bindings \in [Cids -> Binding \cup {None}] /\ openFds \subseteq Nat \ {0}
      /\ \A c \in Cids : BindingSound(bindings[c], PidOf[c], proc)
  BY DEF ResponseInv, TypeOK, Past
<1>2. bindings' = [c \in Cids |-> IF c \in cids THEN None ELSE bindings[c]]
  BY DEF Drop
<1>3. openFds' \subseteq openFds
  BY DEF Drop
<1>4. \A c \in Cids : BindingSound(None, PidOf[c], proc)
  BY DEF BindingSound
<1>5. \A c \in Cids : bindings'[c] = None \/ bindings'[c] = bindings[c]
  BY <1>2
<1>6. \A c \in Cids : BindingSound(bindings'[c], PidOf[c], proc)
  <2> TAKE c \in Cids
  <2>1. CASE bindings'[c] = None
    BY <1>4, <2>1
  <2>2. CASE bindings'[c] = bindings[c]
    BY <1>1, <2>2
  <2> QED
    BY <1>5, <2>1, <2>2
<1>7. bindings' \in [Cids -> Binding \cup {None}]
  BY <1>1, <1>2
<1> QED
  BY <1>1, <1>3, <1>6, <1>7

\* release_binding.
LEMMA ReleaseStep ==
  ASSUME ResponseInv, NEW t \in Threads, Release(t)
  PROVE  ResponseInv'
<1>1. th[t].pc = "release"
  BY DEF Release, At
<1>2. th[t] \in Thread /\ ThreadSound(th[t], proc)
  BY <1>1, JobFacts
<1> DEFINE x == [th[t] EXCEPT !.pc = "commit"]
<1>3. x \in Thread
  BY <1>2 DEF Thread, PCs
<1>4. ThreadSound(x, proc)
  BY <1>1, <1>2 DEF ThreadSound, Thread, PidfdPCs
<1>5. th' = [th EXCEPT ![t] = x]
  BY DEF Release, Goto, ResponseInv, TypeOK
<1> HIDE DEF x
<1>6. /\ bindings' \in [Cids -> Binding \cup {None}] /\ openFds' \subseteq Nat \ {0}
      /\ \A c \in Cids : BindingSound(bindings'[c], PidOf[c], proc)
  BY DropFacts DEF Release
<1>7. /\ highest' \in [Cids -> Nat \cup {-1}]
      /\ bound' \in Nat /\ jobs' \in Nat /\ succeeded' \in [Cids -> Seq(Nat)]
      /\ signals' \subseteq [cid : Cids, expected : Nat, hit : Nat]
      /\ proc' = proc /\ SignalsReachBoundProcess'
  BY DEF Release, ResponseInv, TypeOK, SignalsReachBoundProcess
<1> QED
  BY <1>3, <1>4, <1>5, <1>6, <1>7, ThreadStep

\* The highest executed rank is recorded.
LEMMA CommitStep ==
  ASSUME ResponseInv, NEW t \in Threads, Commit(t)
  PROVE  ResponseInv'
<1>1. th[t].pc = "commit"
  BY DEF Commit, At
<1>2. /\ th[t] \in Thread /\ ThreadSound(th[t], proc) /\ Cid(t) \in Cids
      /\ th[t].previous \in Nat \cup {-1}
  BY <1>1, JobFacts DEF Thread
<1>3. IdleThread \in Thread /\ ThreadSound(IdleThread, proc)
  BY DEF IdleThread, Thread, PCs, StatusesOfResult, ThreadSound
<1>4. th' = [th EXCEPT ![t] = IdleThread]
  BY DEF Commit
<1>5. /\ highest \in [Cids -> Nat \cup {-1}] /\ succeeded \in [Cids -> Seq(Nat)]
  BY DEF ResponseInv, TypeOK
<1>6. highest' \in [Cids -> Nat \cup {-1}] /\ succeeded' \in [Cids -> Seq(Nat)]
  <2>1. CASE th[t].status = "SUCCEEDED"
    <3> DEFINE r == ActionRank[Action(t)]
    <3>1. r \in Nat
      BY <1>1, <1>2, <2>1, RankType DEF ThreadSound, Action, Known
    <3>2. /\ highest' = [highest EXCEPT ![Cid(t)] = Larger(th[t].previous, r)]
          /\ succeeded' = [succeeded EXCEPT ![Cid(t)] = Append(succeeded[Cid(t)], r)]
      BY <2>1 DEF Commit
    <3> HIDE DEF r
    <3>3. Larger(th[t].previous, r) \in Nat \cup {-1}
      BY <1>2, <3>1 DEF Larger
    <3>4. Append(succeeded[Cid(t)], r) \in Seq(Nat)
      BY <1>2, <1>5, <3>1
    <3> QED
      BY <1>5, <3>2, <3>3, <3>4
  <2>2. CASE th[t].status # "SUCCEEDED"
    BY <1>5, <2>2 DEF Commit
  <2> QED
    BY <2>1, <2>2
<1>7. /\ bindings' \in [Cids -> Binding \cup {None}] /\ openFds' \subseteq Nat \ {0}
      /\ bound' \in Nat /\ jobs' \in Nat
      /\ signals' \subseteq [cid : Cids, expected : Nat, hit : Nat]
      /\ proc' = proc /\ SignalsReachBoundProcess'
  BY DEF Commit, ResponseInv, TypeOK, SignalsReachBoundProcess
<1>8. \A c \in Cids : BindingSound(bindings'[c], PidOf[c], proc)
  BY DEF Commit, ResponseInv, Past
<1> QED
  BY <1>3, <1>4, <1>6, <1>7, <1>8, ThreadStep

\* close() drops a binding.
LEMMA CloseStep ==
  ASSUME ResponseInv, NEW c \in Cids, Close(c)
  PROVE  ResponseInv'
<1>1. /\ bindings' \in [Cids -> Binding \cup {None}] /\ openFds' \subseteq Nat \ {0}
      /\ \A d \in Cids : BindingSound(bindings'[d], PidOf[d], proc)
  BY DropFacts DEF Close
<1>2. UNCHANGED <<proc, highest, th, bound, jobs, signals, succeeded>>
  BY DEF Close
<1>3. TypeOK'
  BY <1>1, <1>2 DEF ResponseInv, TypeOK
<1>4. Past'
  BY <1>1, <1>2 DEF ResponseInv, Past, ThreadSound, BindingSound
<1>5. SignalsReachBoundProcess'
  BY <1>2 DEF ResponseInv, SignalsReachBoundProcess
<1> QED
  BY <1>3, <1>4, <1>5 DEF ResponseInv

\* Every step of the specification preserves the invariant.
LEMMA NextInv == ResponseInv /\ [Next]_vars => ResponseInv'
<1> SUFFICES ASSUME ResponseInv, [Next]_vars PROVE ResponseInv'
  OBVIOUS
<1>1. CASE UNCHANGED vars
  BY <1>1 DEF vars, ResponseInv, TypeOK, Past, ThreadSound, BindingSound,
              SignalsReachBoundProcess
<1>2. ASSUME NEW p \in Pids, Spawn(p) \/ Exec(p) \/ Exit(p) PROVE ResponseInv'
  BY <1>2, KernelStep
<1>3. ASSUME NEW t \in Threads, Begin(t) \/ Respond(t) PROVE ResponseInv'
  <2>1. CASE Begin(t)
    BY <2>1, BeginStep
  <2>2. CASE Bind(t)
    BY <2>2, BindStatStep, BindImageStep, BindFileStep, BindInsertStep DEF Bind
  <2>3. CASE Check(t) \/ Act(t) \/ Lookup(t)
    BY <2>3, CheckStep, ActStep, LookupStep
  <2>4. CASE PidfdOpen(t) \/ CaptureStat(t) \/ CaptureImage(t)
    BY <2>4, PidfdOpenStep, CaptureStatStep, CaptureImageStep
  <2>5. CASE SendTerm(t)
    BY <2>5, SendStep DEF SendTerm, At
  <2>6. CASE SendKill(t)
    BY <2>6, SendStep DEF SendKill, At
  <2>7. CASE AwaitTerm(t) \/ AwaitKill(t)
    BY <2>7, AwaitStep
  <2>8. CASE QuarantineFile(t) \/ Result(t) \/ Release(t) \/ Commit(t)
    BY <2>8, QuarantineStep, ResultStep, ReleaseStep, CommitStep
  <2> QED
    BY <1>3, <2>1, <2>2, <2>3, <2>4, <2>5, <2>6, <2>7, <2>8 DEF Respond, Terminate
<1>4. ASSUME NEW c \in Cids, Close(c) PROVE ResponseInv'
  BY <1>4, CloseStep
<1> QED
  BY <1>1, <1>2, <1>3, <1>4 DEF Next

\* ResponseInv is an invariant.
LEMMA Invariance == Spec => []ResponseInv
BY InitInv, NextInv, PTL DEF Spec

\* Type correctness of the response engine.
THEOREM ResponseTypeCorrect == Spec => []TypeOK
<1>1. ResponseInv => TypeOK
  BY DEF ResponseInv
<1> QED
  BY <1>1, Invariance, PTL

\* Termination through a pidfd is safe against every reuse of the PID: each
\* signal reaches the process that was bound, and none a protected PID
\* (PidfdProcessController.terminate).
THEOREM SignalsCorrect == Spec => []SignalsReachBoundProcess
<1>1. ResponseInv => SignalsReachBoundProcess
  BY DEF ResponseInv
<1> QED
  BY <1>1, Invariance, PTL
-----------------------------------------------------------------------------
(* The cap on the bindings.  It is inductive together with the finiteness  *)
(* of the table, and needs the oldest binding to exist.                    *)

\* A nonempty set of naturals has a least element.
LEMMA LeastNatural ==
  ASSUME NEW T, T \subseteq Nat, T # {}
  PROVE  \E x \in T : \A y \in T : x <= y
<1> DEFINE R == OpToRel(<, Nat)
<1>1. IsWellFoundedOn(R, Nat)
  BY NatLessThanWellFounded
<1>2. \A a, b \in Nat : a < b => <<a, b>> \in R
  BY DEF OpToRel
<1> HIDE DEF R
<1>3. PICK x \in T : \A y \in T : ~(<<y, x>> \in R)
  BY <1>1, WFMin
<1>4. \A y \in T : x <= y
  <2> TAKE y \in T
  <2>1. x \in Nat /\ y \in Nat
    OBVIOUS
  <2>2. ~(y < x)
    BY <1>2, <1>3, <2>1
  <2> QED
    BY <2>1, <2>2
<1> QED
  BY <1>4

BoundInv == IsFiniteSet(BoundCids(bindings)) /\ BindingsBounded

\* A full table gives up one of the other bindings.
LEMMA OldestExists ==
  ASSUME TypeOK, NEW cid \in Cids, BoundCids(bindings) \ {cid} # {},
         Cardinality(BoundCids(bindings) \ {cid}) >= MaxBindings,
         Cardinality(BoundCids(bindings) \ {cid}) \in Nat
  PROVE  \E c \in BoundCids(bindings) \ {cid} : c \in DroppedBy(cid)
<1> DEFINE others == BoundCids(bindings) \ {cid}
           ats == {bindings[c].at : c \in others}
<1>1. \A c \in others : bindings[c].at \in Nat
  BY DEF TypeOK, BoundCids, Binding
<1>2. ats \subseteq Nat /\ ats # {}
  BY <1>1
<1>3. PICK x \in ats : \A y \in ats : x <= y
  BY ONLY <1>2, LeastNatural
<1>4. PICK c \in others : x = bindings[c].at
  BY <1>3
<1>5. \A d \in others : bindings[c].at <= bindings[d].at
  BY <1>3, <1>4
<1>6. ~(Cardinality(others) < MaxBindings)
  BY ConfigAssumption
<1>7. c \in DroppedBy(cid)
  BY <1>4, <1>5, <1>6 DEF DroppedBy
<1> QED
  BY <1>4, <1>7

\* Storing a binding keeps the table within its cap.
LEMMA BoundStep ==
  ASSUME TypeOK, BoundInv, NEW t \in Threads, Cid(t) \in Cids, BindInsert(t)
  PROVE  BoundInv'
<1> DEFINE cid == Cid(t)
           B == BoundCids(bindings)
           others == B \ {cid}
<1>1. CASE bindings' = bindings
  BY <1>1 DEF BoundInv, BindingsBounded, BoundCids
<1>2. CASE bindings' # bindings
  <2>1. /\ \A c \in Cids : c # cid => bindings'[c] = IF c \in DroppedBy(cid) THEN None
                                                     ELSE bindings[c]
    BY <1>2 DEF BindInsert
  <2>2. BoundCids(bindings') \subseteq (others \ DroppedBy(cid)) \cup {cid}
    BY <2>1 DEF BoundCids
  <2>3. IsFiniteSet(B) /\ Cardinality(B) <= MaxBindings /\ Cardinality(B) \in Nat
    BY FS_CardinalityType DEF BoundInv, BindingsBounded
  <2>4. others \subseteq B
    OBVIOUS
  <2> HIDE DEF others, B, cid
  <2>5. IsFiniteSet(others) /\ Cardinality(others) <= Cardinality(B)
    BY <2>3, <2>4, FS_Subset
  <2>6. Cardinality(others) \in Nat
    BY <2>5, FS_CardinalityType
  <2>7. PICK T : /\ IsFiniteSet(T) /\ Cardinality(T) < MaxBindings
                 /\ others \ DroppedBy(cid) \subseteq T
    <3>1. CASE Cardinality(others) < MaxBindings
      BY <2>5, <3>1
    <3>2. CASE ~(Cardinality(others) < MaxBindings)
      <4>1. others # {}
        BY <3>2, FS_EmptySet, ConfigAssumption
      <4>2. Cardinality(others) >= MaxBindings
        BY <2>6, <3>2, ConfigAssumption
      <4>3. PICK c \in others : c \in DroppedBy(cid)
        BY <2>6, <4>1, <4>2, OldestExists DEF others, B, cid
      <4>4. IsFiniteSet(others \ {c}) /\ Cardinality(others \ {c}) = Cardinality(others) - 1
        BY <2>5, <4>3, FS_RemoveElement
      <4>5. Cardinality(others \ {c}) < MaxBindings
        BY <2>3, <2>5, <2>6, <4>4, ConfigAssumption
      <4>6. others \ DroppedBy(cid) \subseteq others \ {c}
        BY <4>3
      <4> QED
        BY <4>4, <4>5, <4>6
    <3> QED
      BY <3>1, <3>2
  <2>8. /\ IsFiniteSet(T \cup {cid}) /\ Cardinality(T \cup {cid}) <= Cardinality(T) + 1
        /\ Cardinality(T) \in Nat
    <3>1. Cardinality(T) \in Nat
      BY <2>7, FS_CardinalityType
    <3> QED
      BY <2>7, <3>1, FS_AddElement
  <2>9. BoundCids(bindings') \subseteq T \cup {cid}
    BY <2>2, <2>7
  <2>10. /\ IsFiniteSet(BoundCids(bindings'))
         /\ Cardinality(BoundCids(bindings')) <= Cardinality(T \cup {cid})
    BY <2>8, <2>9, FS_Subset
  <2>11. Cardinality(BoundCids(bindings')) \in Nat /\ Cardinality(T \cup {cid}) \in Nat
    BY <2>8, <2>10, FS_CardinalityType
  <2>12. Cardinality(BoundCids(bindings')) <= MaxBindings
    BY <2>7, <2>8, <2>10, <2>11, ConfigAssumption
  <2> QED
    BY <2>10, <2>12 DEF BoundInv, BindingsBounded, BoundCids
<1> QED
  BY <1>1, <1>2

\* Dropping bindings keeps the table within its cap.
LEMMA BoundDrop ==
  ASSUME BoundInv, NEW cids, Drop(cids)
  PROVE  BoundInv'
<1>1. BoundCids(bindings') \subseteq BoundCids(bindings)
  BY DEF Drop, BoundCids
<1>2. /\ IsFiniteSet(BoundCids(bindings'))
      /\ Cardinality(BoundCids(bindings')) <= Cardinality(BoundCids(bindings))
  BY <1>1, FS_Subset DEF BoundInv
<1>3. Cardinality(BoundCids(bindings)) \in Nat /\ Cardinality(BoundCids(bindings')) \in Nat
  BY <1>2, FS_CardinalityType DEF BoundInv
<1>4. Cardinality(BoundCids(bindings')) <= MaxBindings
  BY <1>2, <1>3, ConfigAssumption DEF BoundInv, BindingsBounded
<1> QED
  BY <1>2, <1>4 DEF BoundInv, BindingsBounded, BoundCids

\* The cap on the bindings holds for every cap and any number of threads that
\* bind, replace, release and close at once (bind_state's eviction loop).
THEOREM BindingsCorrect == Spec => []BindingsBounded
<1>1. Init => BoundInv
  <2> SUFFICES ASSUME Init PROVE BoundInv
    OBVIOUS
  <2>1. BoundCids(bindings) = {}
    BY DEF Init, BoundCids
  <2> QED
    BY <2>1, FS_EmptySet, ConfigAssumption DEF BoundInv, BindingsBounded
<1>2. ResponseInv /\ BoundInv /\ [Next]_vars => BoundInv'
  <2> SUFFICES ASSUME ResponseInv, BoundInv, [Next]_vars PROVE BoundInv'
    OBVIOUS
  <2>1. CASE bindings' = bindings
    BY <2>1 DEF BoundInv, BindingsBounded, BoundCids
  <2>2. ASSUME NEW t \in Threads, BindInsert(t) PROVE BoundInv'
    <3>1. Cid(t) \in Cids
      BY <2>2, JobFacts DEF BindInsert, At
    <3> QED
      BY <2>2, <3>1, BoundStep DEF ResponseInv
  <2>3. ASSUME NEW t \in Threads, Release(t) PROVE BoundInv'
    BY <2>3, BoundDrop DEF Release
  <2>4. ASSUME NEW c \in Cids, Close(c) PROVE BoundInv'
    BY <2>4, BoundDrop DEF Close
  <2>5. ASSUME NEW p \in Pids, Spawn(p) \/ Exec(p) \/ Exit(p) PROVE bindings' = bindings
    BY <2>5 DEF Spawn, Exec, Exit
  <2>6. ASSUME NEW t \in Threads, Begin(t) \/ Respond(t), ~BindInsert(t), ~Release(t)
        PROVE  bindings' = bindings
    <3>1. CASE Begin(t) \/ BindStat(t) \/ BindImage(t) \/ BindFile(t)
      BY <3>1 DEF Begin, BindStat, BindImage, BindFile
    <3>2. CASE Check(t) \/ Act(t) \/ Lookup(t) \/ PidfdOpen(t) \/ CaptureStat(t) \/ CaptureImage(t)
      BY <3>2 DEF Check, Act, Lookup, PidfdOpen, CaptureStat, CaptureImage
    <3>3. CASE SendTerm(t) \/ AwaitTerm(t) \/ SendKill(t) \/ AwaitKill(t)
      BY <3>3 DEF SendTerm, AwaitTerm, SendKill, AwaitKill, Send
    <3>4. CASE QuarantineFile(t) \/ Result(t) \/ Commit(t)
      BY <3>4 DEF QuarantineFile, Result, Commit
    <3> QED
      BY <2>6, <3>1, <3>2, <3>3, <3>4 DEF Respond, Bind, Terminate
  <2>7. CASE UNCHANGED vars
    BY <2>1, <2>7 DEF vars
  <2> QED
    BY <2>1, <2>2, <2>3, <2>4, <2>5, <2>6, <2>7 DEF Next
<1>3. BoundInv => BindingsBounded
  BY DEF BoundInv
<1> QED
  BY <1>1, <1>2, <1>3, Invariance, PTL DEF Spec
-----------------------------------------------------------------------------
(***************************************************************************)
(* Descriptors.                                                            *)
(***************************************************************************)
BindingFd(c) == IF bindings[c] = None THEN 0 ELSE bindings[c].fd

\* A thread owns a descriptor only between opening the file and binding it; every
\* owner's descriptor is open, and no two owners share one.
FdInv ==
  /\ \A c \in Cids : BindingFd(c) # 0 => BindingFd(c) \in openFds
  /\ \A t \in Threads : th[t].fd # 0 => th[t].fd \in openFds /\ th[t].pc = "bindInsert"
  /\ \A n \in openFds : (\E c \in Cids : BindingFd(c) = n) \/ (\E t \in Threads : th[t].fd = n)
  /\ \A c, d \in Cids : BindingFd(c) # 0 /\ BindingFd(c) = BindingFd(d) => c = d
  /\ \A t, u \in Threads : th[t].fd # 0 /\ th[t].fd = th[u].fd => t = u
  /\ \A c \in Cids, t \in Threads : BindingFd(c) # 0 => BindingFd(c) # th[t].fd

\* A step of thread t that leaves the descriptors where they were.
Quiet(t) ==
  /\ bindings' = bindings /\ openFds' = openFds
  /\ th[t].pc # "bindInsert" /\ th'[t].fd = 0
  /\ \A u \in Threads \ {t} : th'[u] = th[u]

\* Such a step keeps the invariant.
LEMMA QuietFds ==
  ASSUME FdInv, NEW t \in Threads, Quiet(t)
  PROVE  FdInv'
<1>1. \A u \in Threads : th'[u].fd = th[u].fd /\ (th[u].fd # 0 => th'[u].pc = th[u].pc)
  BY DEF FdInv, Quiet
<1>2. \A c \in Cids : BindingFd(c)' = BindingFd(c)
  BY DEF BindingFd, Quiet
<1>3. openFds' = openFds
  BY DEF Quiet
<1> HIDE DEF BindingFd
<1> QED BY <1>1, <1>2, <1>3 DEF FdInv

\* A local step with the descriptor kept is quiet.
LEMMA LocalQuiet ==
  ASSUME TypeOK, FdInv, NEW t \in Threads, th[t].pc # "bindInsert",
         \E x : th' = [th EXCEPT ![t] = x] /\ x.fd \in {0, th[t].fd},
         bindings' = bindings, openFds' = openFds
  PROVE  Quiet(t)
<1>1. th \in [Threads -> Thread] /\ th[t].fd = 0
  BY DEF TypeOK, FdInv
<1> QED BY <1>1 DEF Quiet

\* The forms a local step takes.
LEMMA LocalForms ==
  ASSUME TypeOK, NEW t \in Threads,
         \/ \E status : Conclude(t, status)
         \/ Die(t) \/ Terminated(t) \/ \E pc : Goto(t, pc)
  PROVE  \E x : th' = [th EXCEPT ![t] = x] /\ x.fd \in {0, th[t].fd}
<1>1. th \in [Threads -> Thread] /\ th[t] \in Thread
  BY DEF TypeOK
<1>2. ASSUME NEW status, Conclude(t, status)
      PROVE  \E x : th' = [th EXCEPT ![t] = x] /\ x.fd \in {0, th[t].fd}
  <2>1. th' = [th EXCEPT ![t] = [th[t] EXCEPT !.pc = "result", !.status = status, !.pidfd = 0]]
    BY <1>1, <1>2 DEF Conclude
  <2>2. [th[t] EXCEPT !.pc = "result", !.status = status, !.pidfd = 0].fd = th[t].fd
    BY <1>1 DEF Thread
  <2> QED BY <2>1, <2>2
<1>3. CASE Die(t)
  <2>1. th' = [th EXCEPT ![t] = [th[t] EXCEPT !.pc = "dead", !.pidfd = 0]]
    BY <1>1, <1>3 DEF Die
  <2>2. [th[t] EXCEPT !.pc = "dead", !.pidfd = 0].fd = th[t].fd
    BY <1>1 DEF Thread
  <2> QED BY <2>1, <2>2
<1>4. ASSUME NEW pc, Goto(t, pc)
      PROVE  \E x : th' = [th EXCEPT ![t] = x] /\ x.fd \in {0, th[t].fd}
  <2>1. th' = [th EXCEPT ![t] = [th[t] EXCEPT !.pc = pc]]
    BY <1>1, <1>4 DEF Goto
  <2>2. [th[t] EXCEPT !.pc = pc].fd = th[t].fd
    BY <1>1 DEF Thread
  <2> QED BY <2>1, <2>2
<1>5. CASE th' = [th EXCEPT ![t].pc = "quarantine", ![t].pidfd = 0]
  <2>1. th' = [th EXCEPT ![t] = [th[t] EXCEPT !.pc = "quarantine", !.pidfd = 0]]
    BY <1>1, <1>5
  <2>2. [th[t] EXCEPT !.pc = "quarantine", !.pidfd = 0].fd = th[t].fd
    BY <1>1 DEF Thread
  <2> QED BY <2>1, <2>2
<1> QED BY <1>2, <1>3, <1>4, <1>5 DEF Terminated

\* Every step of a thread but opening a file, binding it and giving a binding up
\* leaves the descriptors where they were.
LEMMA QuietSteps ==
  ASSUME TypeOK, FdInv, NEW t \in Threads, Begin(t) \/ Respond(t),
         ~BindInsert(t), ~Release(t), openFds' = openFds
  PROVE  Quiet(t)
<1>0. th \in [Threads -> Thread] /\ th[t] \in Thread
  BY DEF TypeOK
<1> DEFINE Local == \E x : th' = [th EXCEPT ![t] = x] /\ x.fd \in {0, th[t].fd}
<1>1. CASE Begin(t)
  <2>1. PICK job \in Job : th' = [th EXCEPT ![t] = [IdleThread EXCEPT
             !.job = job, !.pc = IF job.bind THEN "bindStat" ELSE "check"]]
    BY <1>1 DEF Begin
  <2>2. [IdleThread EXCEPT !.job = job, !.pc = IF job.bind THEN "bindStat" ELSE "check"].fd = 0
    BY DEF IdleThread
  <2>3. Local
    BY <2>1, <2>2
  <2> QED BY <1>1, <2>3, LocalQuiet DEF Begin, At
<1>2. CASE BindStat(t)
  <2>1. CASE proc[Pid(t)].alive
    <3> DEFINE x == [th[t] EXCEPT !.start = proc[Pid(t)].start, !.pc = "bindImage"]
    <3>1. th' = [th EXCEPT ![t] = x]
      BY <1>0, <1>2, <2>1 DEF BindStat
    <3>2. x.fd = th[t].fd
      BY <1>0 DEF Thread
    <3>3. Local
      BY <3>1, <3>2
    <3> QED BY <1>2, <3>3, LocalQuiet DEF BindStat, At
  <2>2. CASE ~proc[Pid(t)].alive
    <3>1. Local
      BY <1>2, <2>2, LocalForms DEF BindStat
    <3> QED BY <1>2, <3>1, LocalQuiet DEF BindStat, At
  <2> QED BY <2>1, <2>2
<1>3. CASE BindImage(t)
  <2> DEFINE y == IF proc[Pid(t)].alive THEN [start |-> th[t].start, image |-> proc[Pid(t)].image] ELSE None
             x == [th[t] EXCEPT !.pc = "bindFile", !.process = y]
  <2>1. th' = [th EXCEPT ![t] = x]
    BY <1>0, <1>3 DEF BindImage
  <2> HIDE DEF y
  <2>2. x.fd = th[t].fd
    BY <1>0 DEF Thread
  <2>3. Local
    BY <2>1, <2>2
  <2> QED BY <1>3, <2>3, LocalQuiet DEF BindImage, At
<1>4. CASE BindFile(t)
  <2>1. bindings' = bindings /\ th[t].pc # "bindInsert"
    BY <1>4 DEF BindFile, At
  <2>2. ~\E fd \in FreeFds : openFds' = openFds \cup {fd}
    BY DEF FreeFds
  <2>3. Goto(t, "bindInsert") \/ Die(t)
    BY <1>4, <2>2 DEF BindFile
  <2>4. Local
    BY <2>3, LocalForms
  <2> QED BY <2>1, <2>4, LocalQuiet
<1>5. CASE Check(t)
  <2>1. bindings' = bindings /\ th[t].pc # "bindInsert"
    BY <1>5 DEF Check, At
  <2> DEFINE x == [th[t] EXCEPT !.previous = highest[Cid(t)], !.pc = "act"]
  <2>2. (\E status : Conclude(t, status)) \/ th' = [th EXCEPT ![t] = x]
    BY <1>0, <1>5 DEF Check
  <2>3. x.fd = th[t].fd
    BY <1>0 DEF Thread
  <2>4. Local
    BY <2>2, <2>3, LocalForms
  <2> QED BY <2>1, <2>4, LocalQuiet
<1>6. CASE Act(t)
  <2>1. bindings' = bindings /\ th[t].pc # "bindInsert"
    BY <1>6 DEF Act, At
  <2>2. (\E status : Conclude(t, status)) \/ \E pc : Goto(t, pc)
    BY <1>6 DEF Act
  <2>3. Local
    BY <2>2, LocalForms
  <2> QED BY <2>1, <2>3, LocalQuiet
<1>7. CASE Lookup(t)
  <2>1. bindings' = bindings /\ th[t].pc # "bindInsert"
    BY <1>7 DEF Lookup, At
  <2> DEFINE b == bindings[Cid(t)]
             x == [th[t] EXCEPT !.target = b.at, !.pc = "quarantine"]
             y == [th[t] EXCEPT !.expected = b.process, !.target = b.at, !.pc = "pidfdOpen"]
  <2>2. (\E status : Conclude(t, status)) \/ th' = [th EXCEPT ![t] = x] \/ th' = [th EXCEPT ![t] = y]
    BY <1>0, <1>7 DEF Lookup
  <2> HIDE DEF b
  <2>3. x.fd = th[t].fd /\ y.fd = th[t].fd
    BY <1>0 DEF Thread
  <2>4. Local
    BY <2>2, <2>3, LocalForms
  <2> QED BY <2>1, <2>4, LocalQuiet
<1>8. CASE PidfdOpen(t)
  <2>1. bindings' = bindings /\ th[t].pc # "bindInsert"
    BY <1>8 DEF PidfdOpen, At
  <2> DEFINE x == [th[t] EXCEPT !.pidfd = proc[Pid(t)].start, !.pc = "captureStat"]
  <2>2. (\E status : Conclude(t, status)) \/ Terminated(t) \/ th' = [th EXCEPT ![t] = x]
    BY <1>0, <1>8 DEF PidfdOpen
  <2>3. x.fd = th[t].fd
    BY <1>0 DEF Thread
  <2>4. Local
    BY <2>2, <2>3, LocalForms
  <2> QED BY <2>1, <2>4, LocalQuiet
<1>9. CASE CaptureStat(t)
  <2>1. bindings' = bindings /\ th[t].pc # "bindInsert"
    BY <1>9 DEF CaptureStat, At
  <2> DEFINE x == [th[t] EXCEPT !.start = proc[Pid(t)].start, !.pc = "captureImage"]
  <2>2. (\E status : Conclude(t, status)) \/ th' = [th EXCEPT ![t] = x]
    BY <1>0, <1>9 DEF CaptureStat
  <2>3. x.fd = th[t].fd
    BY <1>0 DEF Thread
  <2>4. Local
    BY <2>2, <2>3, LocalForms
  <2> QED BY <2>1, <2>4, LocalQuiet
<1>10. CASE CaptureImage(t) \/ SendTerm(t) \/ AwaitTerm(t) \/ SendKill(t) \/ AwaitKill(t)
  <2>1. bindings' = bindings /\ th[t].pc # "bindInsert"
    BY <1>10 DEF CaptureImage, SendTerm, AwaitTerm, SendKill, AwaitKill, Send, At
  <2>2. \/ \E status : Conclude(t, status)
        \/ Die(t) \/ Terminated(t) \/ \E pc : Goto(t, pc)
    BY <1>10 DEF CaptureImage, SendTerm, AwaitTerm, SendKill, AwaitKill, Send
  <2>3. Local
    BY <2>2, LocalForms
  <2> QED BY <2>1, <2>3, LocalQuiet
<1>11. CASE QuarantineFile(t) \/ Result(t)
  <2>1. bindings' = bindings /\ th[t].pc # "bindInsert"
    BY <1>11 DEF QuarantineFile, Result, At
  <2>2. (\E status : Conclude(t, status)) \/ Die(t) \/ \E pc : Goto(t, pc)
    BY <1>11 DEF QuarantineFile, Result
  <2>3. Local
    BY <2>2, LocalForms
  <2> QED BY <2>1, <2>3, LocalQuiet
<1>12. CASE Commit(t)
  <2>1. bindings' = bindings /\ th[t].pc # "bindInsert" /\ th' = [th EXCEPT ![t] = IdleThread]
    BY <1>12 DEF Commit, At
  <2>2. IdleThread.fd = 0
    BY DEF IdleThread
  <2> QED BY <2>1, <2>2, LocalQuiet
<1> QED BY <1>1, <1>2, <1>3, <1>4, <1>5, <1>6, <1>7, <1>8, <1>9, <1>10, <1>11, <1>12 DEF Respond, Bind, Terminate

\* A file is opened: its descriptor is new, and the thread owns it.
LEMMA OpenFds ==
  ASSUME TypeOK, FdInv, NEW t \in Threads, NEW fd \in FreeFds, th[t].pc = "bindFile",
         openFds' = openFds \cup {fd}, bindings' = bindings,
         th' = [th EXCEPT ![t].fd = fd, ![t].pc = "bindInsert"]
  PROVE  FdInv'
<1>0. th \in [Threads -> Thread] /\ th[t] \in Thread
  BY DEF TypeOK
<1>1. fd # 0 /\ fd \notin openFds
  BY DEF FreeFds
<1>2. th'[t].fd = fd /\ th'[t].pc = "bindInsert"
  BY <1>0 DEF Thread
<1>3. \A u \in Threads \ {t} : th'[u] = th[u]
  BY <1>0
<1>4. \A c \in Cids : BindingFd(c)' = BindingFd(c)
  BY DEF BindingFd
<1>5. th[t].fd = 0
  BY DEF FdInv
<1>6. openFds' = openFds \cup {fd}
  OBVIOUS
<1> HIDE DEF BindingFd
<1>7. /\ \A c \in Cids : BindingFd(c)' # 0 => BindingFd(c)' \in openFds'
      /\ \A u \in Threads : th'[u].fd # 0 => th'[u].fd \in openFds' /\ th'[u].pc = "bindInsert"
  BY ONLY FdInv, t \in Threads, <1>1, <1>2, <1>3, <1>4, <1>5, <1>6 DEF FdInv
<1>8. \A n \in openFds' : (\E c \in Cids : BindingFd(c)' = n) \/ (\E u \in Threads : th'[u].fd = n)
  <2> TAKE n \in openFds'
  <2>1. CASE n = fd
    BY <1>2, <2>1
  <2>2. CASE n \in openFds
    <3>1. n # 0
      BY <2>2 DEF TypeOK
    <3> QED BY ONLY FdInv, <1>1, <1>3, <1>4, <1>5, t \in Threads, <2>2, <3>1 DEF FdInv
  <2> QED BY <1>6, <2>1, <2>2
<1>9. /\ \A c, d \in Cids : BindingFd(c)' # 0 /\ BindingFd(c)' = BindingFd(d)' => c = d
      /\ \A c \in Cids, u \in Threads : BindingFd(c)' # 0 => BindingFd(c)' # th'[u].fd
  BY ONLY FdInv, t \in Threads, <1>1, <1>2, <1>3, <1>4 DEF FdInv
<1>10. \A u, v \in Threads : th'[u].fd # 0 /\ th'[u].fd = th'[v].fd => u = v
  BY ONLY FdInv, t \in Threads, <1>1, <1>2, <1>3 DEF FdInv
<1> QED BY <1>7, <1>8, <1>9, <1>10 DEF FdInv

\* Bindings are given up: what they owned is closed, and nothing else.
LEMMA DropFds ==
  ASSUME TypeOK, FdInv, NEW cids, Drop(cids), \A t \in Threads : th'[t].fd = th[t].fd,
         \A t \in Threads : th[t].fd # 0 => th'[t].pc = th[t].pc
  PROVE  FdInv'
<1>1. \A c \in Cids : BindingFd(c)' = IF c \in cids THEN 0 ELSE BindingFd(c)
  BY DEF BindingFd, Drop
<1>2. openFds' = {n \in openFds : \A c \in Cids \cap cids : BindingFd(c) # n}
  <2>1. \A n \in openFds : n # 0
    BY DEF TypeOK
  <2> QED BY <2>1 DEF Drop, BindingFd, BoundCids
<1> HIDE DEF BindingFd
<1> QED BY <1>1, <1>2 DEF FdInv

\* The thread's descriptor goes to its binding; those of the bindings that make
\* room are closed.
LEMMA InsertFds ==
  ASSUME TypeOK, FdInv, NEW t \in Threads, Cid(t) \in Cids, BindInsert(t)
  PROVE  FdInv'
<1> DEFINE cid == Cid(t)
           D == DroppedBy(cid)
<1>0. th \in [Threads -> Thread] /\ th[t] \in Thread /\ th[t].fd \in Nat
  BY DEF TypeOK, Thread
<1>1. th'[t].fd = 0 /\ \A u \in Threads \ {t} : th'[u] = th[u]
  <2>1. th' = [th EXCEPT ![t] = [IdleThread EXCEPT !.job = th[t].job, !.pc = "check"]]
    BY DEF BindInsert
  <2>2. [IdleThread EXCEPT !.job = th[t].job, !.pc = "check"].fd = 0
    BY DEF IdleThread
  <2> QED BY <1>0, <2>1, <2>2
<1>2. CASE th[t].process = None /\ th[t].fd = 0
  <2>1. openFds' = openFds /\ \A c \in Cids : BindingFd(c)' = BindingFd(c)
    BY <1>2 DEF BindInsert, BindingFd
  <2> HIDE DEF BindingFd
  <2> QED BY <1>1, <1>2, <2>1 DEF FdInv
<1>3. CASE ~(th[t].process = None /\ th[t].fd = 0)
  <2> DEFINE new == [process |-> th[t].process, fd |-> th[t].fd, at |-> bound + 1]
  <2>1. /\ bindings' = [c \in Cids |-> IF c = cid THEN new
                                       ELSE IF c \in D THEN None ELSE bindings[c]]
        /\ openFds' = openFds \ ClosedBy(cid)
    BY <1>3 DEF BindInsert
  <2>2. new # None /\ new.fd = th[t].fd
    <3>1. th[t].process \in Identity \cup {None} /\ bound + 1 \in Nat
      BY <1>0 DEF Thread, TypeOK
    <3>2. new \in Binding
      BY <1>0, <3>1 DEF Binding
    <3> QED BY <3>2, ConfigAssumption
  <2>3. D \subseteq Cids /\ (bindings[cid] # None => cid \in D) /\ \A c \in D : bindings[c] # None
    BY DEF DroppedBy, BoundCids
  <2> HIDE DEF new, D
  <2>4. \A c \in Cids : BindingFd(c)' = IF c = cid THEN th[t].fd ELSE IF c \in D THEN 0 ELSE BindingFd(c)
    BY <2>1, <2>2 DEF BindingFd
  <2>5. BindingFd(cid) # 0 => cid \in D
    BY <2>3 DEF BindingFd
  <2>6. openFds' = {n \in openFds : \A c \in D : BindingFd(c) # n}
    <3>1. \A n \in openFds : n # 0
      BY DEF TypeOK
    <3>2. ClosedBy(cid) = {bindings[c].fd : c \in D} \ {0}
      BY DEF ClosedBy, D
    <3>3. \A c \in D : BindingFd(c) = bindings[c].fd
      BY <2>3 DEF BindingFd
    <3> QED BY <2>1, <3>1, <3>2, <3>3
  <2>7. cid \in Cids
    OBVIOUS
  <2> HIDE DEF BindingFd, cid
  <2>8. \A c \in Cids : BindingFd(c)' # 0 => BindingFd(c)' \in openFds'
    BY <2>3, <2>4, <2>5, <2>6, <2>7 DEF FdInv
  <2>9. \A u \in Threads : th'[u].fd # 0 => th'[u].fd \in openFds' /\ th'[u].pc = "bindInsert"
    BY <1>1, <2>3, <2>6 DEF FdInv
  <2>10. \A n \in openFds' : (\E c \in Cids : BindingFd(c)' = n) \/ (\E u \in Threads : th'[u].fd = n)
    BY <1>1, <2>3, <2>4, <2>5, <2>6, <2>7 DEF FdInv
  <2>11. \A c, d \in Cids : BindingFd(c)' # 0 /\ BindingFd(c)' = BindingFd(d)' => c = d
    BY <2>4, <2>7 DEF FdInv
  <2>12. \A u, v \in Threads : th'[u].fd # 0 /\ th'[u].fd = th'[v].fd => u = v
    BY <1>1 DEF FdInv
  <2>13. \A c \in Cids, u \in Threads : BindingFd(c)' # 0 => BindingFd(c)' # th'[u].fd
    BY <1>1, <2>4, <2>7 DEF FdInv
  <2> QED BY <2>8, <2>9, <2>10, <2>11, <2>12, <2>13 DEF FdInv
<1> QED BY <1>2, <1>3

\* Every step keeps the descriptors owned once.
LEMMA FdNext ==
  ASSUME ResponseInv, FdInv, [Next]_vars
  PROVE  FdInv'
<1>0. TypeOK
  BY DEF ResponseInv
<1>1. CASE bindings' = bindings /\ openFds' = openFds /\ th' = th
  <2>1. \A c \in Cids : BindingFd(c)' = BindingFd(c)
    BY <1>1 DEF BindingFd
  <2> HIDE DEF BindingFd
  <2> QED BY <1>1, <2>1 DEF FdInv
<1>2. ASSUME NEW t \in Threads, BindInsert(t) PROVE FdInv'
  <2>1. Cid(t) \in Cids
    BY <1>2, JobFacts DEF BindInsert, At
  <2> QED BY <1>0, <1>2, <2>1, InsertFds
<1>3. ASSUME NEW t \in Threads, Release(t) PROVE FdInv'
  <2>1. Drop({Cid(t)}) /\ Goto(t, "commit") /\ th[t].pc = "release"
    BY <1>3 DEF Release, At
  <2>2. th \in [Threads -> Thread] /\ th[t] \in Thread /\ th[t].fd = 0
    BY <1>0, <2>1 DEF TypeOK, FdInv
  <2>3. PICK x : th' = [th EXCEPT ![t] = x] /\ x.fd \in {0, th[t].fd}
    BY <1>0, <2>1, LocalForms
  <2>4. \A u \in Threads : th'[u].fd = th[u].fd /\ (th[u].fd # 0 => th'[u].pc = th[u].pc)
    BY <2>2, <2>3
  <2> QED BY ONLY <1>0, FdInv, <2>1, <2>4, DropFds
<1>4. ASSUME NEW c \in Cids, Close(c) PROVE FdInv'
  <2>1. Drop({c}) /\ th' = th
    BY <1>4 DEF Close
  <2>2. \A u \in Threads : th'[u].fd = th[u].fd /\ (th[u].fd # 0 => th'[u].pc = th[u].pc)
    BY <2>1
  <2> QED BY ONLY <1>0, FdInv, <2>1, <2>2, DropFds
<1>5. ASSUME NEW p \in Pids, Spawn(p) \/ Exec(p) \/ Exit(p) PROVE FdInv'
  BY <1>1, <1>5 DEF Spawn, Exec, Exit
<1>6. ASSUME NEW t \in Threads, Begin(t) \/ Respond(t), ~BindInsert(t), ~Release(t), openFds' = openFds
      PROVE  FdInv'
  BY <1>0, <1>6, QuietSteps, QuietFds
<1>7. ASSUME NEW t \in Threads, BindFile(t), openFds' # openFds PROVE FdInv'
  <2>1. PICK fd \in FreeFds : /\ openFds' = openFds \cup {fd}
                              /\ th' = [th EXCEPT ![t].fd = fd, ![t].pc = "bindInsert"]
    BY <1>7 DEF BindFile
  <2>2. bindings' = bindings /\ th[t].pc = "bindFile"
    BY <1>7 DEF BindFile, At
  <2> QED BY <1>0, <2>1, <2>2, OpenFds
<1>8. ASSUME NEW t \in Threads, Begin(t) \/ Respond(t), ~BindInsert(t), ~Release(t), ~BindFile(t)
      PROVE  openFds' = openFds
  <2>1. CASE Begin(t) \/ BindStat(t) \/ BindImage(t)
    BY <2>1 DEF Begin, BindStat, BindImage
  <2>2. CASE Check(t) \/ Act(t) \/ Lookup(t) \/ PidfdOpen(t) \/ CaptureStat(t) \/ CaptureImage(t)
    BY <2>2 DEF Check, Act, Lookup, PidfdOpen, CaptureStat, CaptureImage
  <2>3. CASE SendTerm(t) \/ AwaitTerm(t) \/ SendKill(t) \/ AwaitKill(t)
    BY <2>3 DEF SendTerm, AwaitTerm, SendKill, AwaitKill, Send
  <2>4. CASE QuarantineFile(t) \/ Result(t) \/ Commit(t)
    BY <2>4 DEF QuarantineFile, Result, Commit
  <2> QED BY <1>8, <2>1, <2>2, <2>3, <2>4 DEF Respond, Bind, Terminate
<1>9. CASE UNCHANGED vars
  BY <1>1, <1>9 DEF vars
<1> QED BY <1>2, <1>3, <1>4, <1>5, <1>6, <1>7, <1>8, <1>9 DEF Next

\* Every open descriptor is owned by exactly one binding or one thread about to bind
\* it, and every owned one is open (FdsOwnedOnce): rebinding, eviction, release and
\* close() of any number of threads leak nothing and close nothing twice, although
\* the kernel reuses descriptor numbers at once.
THEOREM DescriptorsOwnedOnce == Spec => []FdsOwnedOnce
<1>1. Init => FdInv
  <2> SUFFICES ASSUME Init PROVE FdInv
    OBVIOUS
  <2>1. \A t \in Threads : th[t].fd = 0
    BY DEF Init, IdleThread
  <2>2. \A c \in Cids : BindingFd(c) = 0
    BY DEF Init, BindingFd
  <2>3. openFds = {}
    BY DEF Init
  <2> HIDE DEF BindingFd
  <2> QED BY <2>1, <2>2, <2>3 DEF FdInv
<1>2. ResponseInv /\ FdInv /\ [Next]_vars => FdInv'
  BY FdNext
<1>3. ResponseInv /\ FdInv => FdsOwnedOnce
  <2> SUFFICES ASSUME TypeOK, FdInv PROVE FdsOwnedOnce
    BY DEF ResponseInv
  <2> DEFINE B == {c \in BoundCids(bindings) : bindings[c].fd # 0}
             T == {t \in Threads : th[t].fd # 0}
  <2>1. \A c \in B : c \in Cids /\ BindingFd(c) = bindings[c].fd /\ BindingFd(c) # 0
    BY DEF BoundCids, BindingFd
  <2>2. \A c \in Cids : BindingFd(c) # 0 => c \in B
    BY DEF BoundCids, BindingFd
  <2>3. \A o \in FdOwners : \/ \E c \in B : o = [kind |-> "binding", of |-> c] /\ OwnedFd(o) = BindingFd(c)
                            \/ \E t \in T : o = [kind |-> "thread", of |-> t] /\ OwnedFd(o) = th[t].fd
    BY <2>1 DEF FdOwners, OwnedFd
  <2>4. \A c \in B : /\ [kind |-> "binding", of |-> c] \in FdOwners
                     /\ OwnedFd([kind |-> "binding", of |-> c]) = BindingFd(c)
    BY <2>1 DEF FdOwners, OwnedFd
  <2>5. \A t \in T : /\ [kind |-> "thread", of |-> t] \in FdOwners
                     /\ OwnedFd([kind |-> "thread", of |-> t]) = th[t].fd
    BY DEF FdOwners, OwnedFd
  <2>6. \A n \in openFds : n # 0
    BY DEF TypeOK
  <2> HIDE DEF BindingFd, OwnedFd, FdOwners, B
  <2>7. \A n \in openFds : \E o \in FdOwners : n = OwnedFd(o)
    <3> TAKE n \in openFds
    <3>1. CASE \E c \in Cids : BindingFd(c) = n
      BY <2>2, <2>4, <2>6, <3>1
    <3>2. CASE \E t \in Threads : th[t].fd = n
      BY <2>5, <2>6, <3>2
    <3> QED BY <3>1, <3>2 DEF FdInv
  <2>8. \A o \in FdOwners : OwnedFd(o) \in openFds
    BY <2>1, <2>3 DEF FdInv
  <2>9. \A o, q \in FdOwners : OwnedFd(o) = OwnedFd(q) => o = q
    BY <2>1, <2>3 DEF FdInv
  <2> QED BY <2>7, <2>8, <2>9 DEF FdsOwnedOnce
<1> QED BY <1>1, <1>2, <1>3, Invariance, PTL DEF Spec
-----------------------------------------------------------------------------
(***************************************************************************)
(* Duplicates.                                                             *)
(***************************************************************************)

\* The local state of a thread that may still commit a success.
Deciding(x) == \/ x.pc \in {"act", "lookup", "pidfdOpen", "quarantine"} \cup PidfdPCs
               \/ x.pc \in {"result", "release", "commit"} /\ x.status = "SUCCEEDED"

\* Such a thread has read the rank on record, and its own response is stronger.
Ranked(x, H) ==
  Deciding(x) => /\ x.previous = H[x.job.cid]
                 /\ ActionRank[ActionMap[x.job.recommendation]] > H[x.job.cid]

\* The rank on record is that of the last response.
RankInv ==
  /\ \A t \in Threads : Ranked(th[t], highest)
  /\ \A c \in Cids : Len(succeeded[c]) > 0 => succeeded[c][Len(succeeded[c])] = highest[c]
  /\ DuplicatesSuppressed

\* One thread moves and the records stay.
LEMMA KeepsRanks ==
  ASSUME RankInv, NEW t \in Threads, Threads = {t}, highest' = highest, succeeded' = succeeded,
         Ranked(th'[t], highest)
  PROVE  RankInv'
<1>1. \A u \in Threads : u = t
  OBVIOUS
<1>2. Ranked(th[t], highest)'
  BY DEF Ranked, Deciding
<1>3. \A u \in Threads : Ranked(th[u], highest)'
  BY <1>1, <1>2
<1>4. DuplicatesSuppressed'
  BY DEF RankInv, DuplicatesSuppressed
<1> QED BY <1>3, <1>4 DEF RankInv

\* Nothing is at stake for a thread that will not commit a success.
LEMMA Undecided ==
  ASSUME NEW x, x.pc \notin {"act", "lookup", "pidfdOpen", "quarantine"} \cup PidfdPCs,
         x.pc \in {"result", "release", "commit"} => x.status # "SUCCEEDED"
  PROVE  Ranked(x, highest)
BY DEF Ranked, Deciding

\* A thread that goes on with what it decided.
LEMMA StillRanked ==
  ASSUME NEW x, NEW y, Ranked(x, highest), y.job = x.job, y.previous = x.previous,
         Deciding(y) => Deciding(x)
  PROVE  Ranked(y, highest)
BY DEF Ranked

\* The forms of a step that goes on: the job and the rank read stay.
LEMMA GoingOn ==
  ASSUME TypeOK, NEW t \in Threads,
         \/ \E status : Conclude(t, status)
         \/ Die(t) \/ Terminated(t) \/ \E pc : Goto(t, pc)
  PROVE  th'[t].job = th[t].job /\ th'[t].previous = th[t].previous
<1>1. th \in [Threads -> Thread] /\ th[t] \in Thread
  BY DEF TypeOK
<1>2. ASSUME NEW status, Conclude(t, status)
      PROVE  th'[t].job = th[t].job /\ th'[t].previous = th[t].previous
  BY <1>1, <1>2 DEF Conclude, Thread
<1>3. CASE Die(t)
  BY <1>1, <1>3 DEF Die, Thread
<1>4. ASSUME NEW pc, Goto(t, pc)
      PROVE  th'[t].job = th[t].job /\ th'[t].previous = th[t].previous
  BY <1>1, <1>4 DEF Goto, Thread
<1>5. CASE th' = [th EXCEPT ![t].pc = "quarantine", ![t].pidfd = 0]
  BY <1>1, <1>5 DEF Thread
<1> QED BY <1>2, <1>3, <1>4, <1>5 DEF Terminated

\* Binding decides nothing.
LEMMA RankBind ==
  ASSUME ResponseInv, RankInv, NEW t \in Threads, Threads = {t}, Begin(t) \/ Bind(t)
  PROVE  RankInv'
<1>0. th \in [Threads -> Thread] /\ th[t] \in Thread
  BY DEF ResponseInv, TypeOK
<1>1. th'[t].pc \in {"bindStat", "bindImage", "bindFile", "bindInsert", "check", "dead"}
  <2>1. CASE Begin(t)
    <3>1. PICK job \in Job : th' = [th EXCEPT ![t] = [IdleThread EXCEPT
               !.job = job, !.pc = IF job.bind THEN "bindStat" ELSE "check"]]
      BY <2>1 DEF Begin
    <3>2. [IdleThread EXCEPT !.job = job, !.pc = IF job.bind THEN "bindStat" ELSE "check"].pc
             \in {"bindStat", "check"}
      BY DEF IdleThread
    <3> QED BY <1>0, <3>1, <3>2
  <2>2. CASE BindStat(t)
    BY <1>0, <2>2 DEF BindStat, Goto, Thread
  <2>3. CASE BindImage(t)
    BY <1>0, <2>3 DEF BindImage, Thread
  <2>4. CASE BindFile(t)
    BY <1>0, <2>4 DEF BindFile, Goto, Die, Thread
  <2>5. CASE BindInsert(t)
    <3>1. th' = [th EXCEPT ![t] = [IdleThread EXCEPT !.job = th[t].job, !.pc = "check"]]
      BY <2>5 DEF BindInsert
    <3>2. [IdleThread EXCEPT !.job = th[t].job, !.pc = "check"].pc = "check"
      BY DEF IdleThread
    <3> QED BY <1>0, <3>1, <3>2
  <2> QED BY <2>1, <2>2, <2>3, <2>4, <2>5 DEF Bind
<1>2. highest' = highest /\ succeeded' = succeeded
  BY DEF Begin, Bind, BindStat, BindImage, BindFile, BindInsert
<1>3. Ranked(th'[t], highest)
  BY <1>1, Undecided DEF PidfdPCs
<1> QED BY <1>2, <1>3, KeepsRanks

\* The duplicate check lets only a stronger response pass.
LEMMA RankCheck ==
  ASSUME ResponseInv, RankInv, NEW t \in Threads, Threads = {t}, Check(t)
  PROVE  RankInv'
<1>0. th \in [Threads -> Thread] /\ th[t] \in Thread
  BY DEF ResponseInv, TypeOK
<1>1. highest' = highest /\ succeeded' = succeeded
  BY DEF Check
<1>2. CASE \E status \in {"REFUSED", "DUPLICATE_SUPPRESSED"} : Conclude(t, status)
  <2>1. th'[t].pc = "result" /\ th'[t].status # "SUCCEEDED"
    BY <1>0, <1>2 DEF Conclude, Thread
  <2>2. Ranked(th'[t], highest)
    BY <2>1, Undecided DEF PidfdPCs
  <2> QED BY <1>1, <2>2, KeepsRanks
<1>3. CASE /\ Known(t) /\ ~(ActionRank[Action(t)] <= highest[Cid(t)])
           /\ th' = [th EXCEPT ![t].previous = highest[Cid(t)], ![t].pc = "act"]
  <2>1. th'[t].previous = highest[Cid(t)] /\ th'[t].job = th[t].job
    BY <1>0, <1>3 DEF Thread
  <2>2. highest[Cid(t)] \in Nat \cup {-1} /\ ActionRank[Action(t)] \in Nat
    <3>1. Cid(t) \in Cids
      BY JobFacts DEF Check, At
    <3> QED BY <1>3, <3>1, RankType DEF Known, Action, ResponseInv, TypeOK
  <2>3. Action(t) = ActionMap[th[t].job.recommendation]
    BY <1>3 DEF Action
  <2>4. ActionRank[ActionMap[th'[t].job.recommendation]] > highest[th'[t].job.cid]
    BY <1>3, <2>1, <2>2, <2>3 DEF Cid
  <2>5. Ranked(th'[t], highest)
    BY <2>1, <2>4 DEF Ranked, Cid
  <2> QED BY <1>1, <2>5, KeepsRanks
<1> QED BY <1>2, <1>3 DEF Check

\* A response under way keeps to what was decided.
LEMMA RankRespond ==
  ASSUME ResponseInv, RankInv, NEW t \in Threads, Threads = {t},
         Act(t) \/ Lookup(t) \/ Terminate(t) \/ QuarantineFile(t) \/ Result(t) \/ Release(t)
  PROVE  RankInv'
<1>0. TypeOK /\ th \in [Threads -> Thread] /\ th[t] \in Thread
  BY DEF ResponseInv, TypeOK
<1>1. highest' = highest /\ succeeded' = succeeded
  BY DEF Act, Lookup, Terminate, QuarantineFile, Result, Release, PidfdOpen, CaptureStat,
         CaptureImage, SendTerm, AwaitTerm, SendKill, AwaitKill, Send
<1>2. Ranked(th[t], highest)
  BY DEF RankInv
<1>3. CASE Act(t) \/ QuarantineFile(t)
  <2>1. th'[t].job = th[t].job /\ th'[t].previous = th[t].previous
    BY <1>0, <1>3, GoingOn DEF Act, QuarantineFile
  <2>2. Deciding(th[t])
    BY <1>3 DEF Act, QuarantineFile, At, Deciding
  <2>3. Ranked(th'[t], highest)
    BY <1>2, <2>1, <2>2, StillRanked
  <2> QED BY <1>1, <2>3, KeepsRanks
<1>4. CASE Lookup(t)
  <2>1. th'[t].job = th[t].job /\ th'[t].previous = th[t].previous
    <3> DEFINE b == bindings[Cid(t)]
    <3>1. \/ \E status : Conclude(t, status)
          \/ th' = [th EXCEPT ![t].target = b.at, ![t].pc = "quarantine"]
          \/ th' = [th EXCEPT ![t].expected = b.process, ![t].target = b.at, ![t].pc = "pidfdOpen"]
      BY <1>4 DEF Lookup
    <3> HIDE DEF b
    <3> QED BY <1>0, <3>1, GoingOn DEF Thread
  <2>2. Deciding(th[t])
    BY <1>4 DEF Lookup, At, Deciding
  <2>3. Ranked(th'[t], highest)
    BY <1>2, <2>1, <2>2, StillRanked
  <2> QED BY <1>1, <2>3, KeepsRanks
<1>5. CASE Terminate(t)
  <2>1. th'[t].job = th[t].job /\ th'[t].previous = th[t].previous
    <3>1. CASE PidfdOpen(t)
      <4>1. \/ (\E status : Conclude(t, status)) \/ Terminated(t)
            \/ th' = [th EXCEPT ![t].pidfd = proc[Pid(t)].start, ![t].pc = "captureStat"]
        BY <3>1 DEF PidfdOpen
      <4> QED BY <1>0, <4>1, GoingOn DEF Thread
    <3>2. CASE CaptureStat(t)
      <4>1. \/ (\E status : Conclude(t, status))
            \/ th' = [th EXCEPT ![t].start = proc[Pid(t)].start, ![t].pc = "captureImage"]
        BY <3>2 DEF CaptureStat
      <4> QED BY <1>0, <4>1, GoingOn DEF Thread
    <3>3. CASE CaptureImage(t) \/ SendTerm(t) \/ AwaitTerm(t) \/ SendKill(t) \/ AwaitKill(t)
      <4>1. \/ \E status : Conclude(t, status)
            \/ Die(t) \/ Terminated(t) \/ \E pc : Goto(t, pc)
        BY <3>3 DEF CaptureImage, SendTerm, AwaitTerm, SendKill, AwaitKill, Send
      <4> QED BY <1>0, <4>1, GoingOn
    <3> QED BY <1>5, <3>1, <3>2, <3>3 DEF Terminate
  <2>2. Deciding(th[t])
    BY <1>5 DEF Terminate, PidfdOpen, CaptureStat, CaptureImage, SendTerm, AwaitTerm, SendKill,
                AwaitKill, At, Deciding, PidfdPCs
  <2>3. Ranked(th'[t], highest)
    BY <1>2, <2>1, <2>2, StillRanked
  <2> QED BY <1>1, <2>3, KeepsRanks
<1>6. CASE Result(t) \/ Release(t)
  <2>1. th[t].pc \in {"result", "release"} /\ (Die(t) \/ \E pc \in {"release", "commit"} : Goto(t, pc))
    BY <1>6 DEF Result, Release, At
  <2>2. /\ th'[t].job = th[t].job /\ th'[t].previous = th[t].previous
        /\ th'[t].status = th[t].status /\ th'[t].pc \in {"release", "commit", "dead"}
    BY <1>0, <2>1 DEF Die, Goto, Thread
  <2>3. Deciding(th'[t]) => Deciding(th[t])
    BY <2>1, <2>2 DEF Deciding, PidfdPCs
  <2>4. Ranked(th'[t], highest)
    BY <1>2, <2>2, <2>3, StillRanked
  <2> QED BY <1>1, <2>4, KeepsRanks
<1> QED BY <1>3, <1>4, <1>5, <1>6

\* A success is committed: its rank is above the last.
LEMMA RankCommit ==
  ASSUME ResponseInv, RankInv, NEW t \in Threads, Threads = {t}, Commit(t)
  PROVE  RankInv'
<1>0. /\ th \in [Threads -> Thread] /\ highest \in [Cids -> Nat \cup {-1}]
      /\ succeeded \in [Cids -> Seq(Nat)]
  BY DEF ResponseInv, TypeOK
<1>1. th'[t] = IdleThread /\ th[t].pc = "commit"
  BY <1>0 DEF Commit, At
<1>2. \A H : Ranked(th'[t], H)
  BY <1>1 DEF Ranked, Deciding, IdleThread, PidfdPCs
<1>3. CASE th[t].status # "SUCCEEDED"
  BY <1>2, <1>3, KeepsRanks DEF Commit
<1>4. CASE th[t].status = "SUCCEEDED"
  <2> DEFINE c == Cid(t)
             rank == ActionRank[Action(t)]
             s == succeeded[c]
  <2>1. c \in Cids /\ rank \in Nat /\ Action(t) = ActionMap[th[t].job.recommendation]
    <3>1. /\ Cid(t) \in Cids /\ ThreadSound(th[t], proc)
      BY <1>1, JobFacts
    <3>2. th[t].job.recommendation \in DOMAIN ActionMap
      BY <1>1, <1>4, <3>1 DEF ThreadSound
    <3> QED BY <3>1, <3>2, RankType DEF Action, Known
  <2>2. th[t].previous = highest[c] /\ rank > highest[c]
    BY <1>1, <1>4, <2>1 DEF RankInv, Ranked, Deciding, Cid
  <2>3. highest' = [highest EXCEPT ![c] = rank] /\ succeeded' = [succeeded EXCEPT ![c] = Append(s, rank)]
    <3>1. highest[c] \in Nat \cup {-1}
      BY <1>0, <2>1
    <3>2. Larger(th[t].previous, rank) = rank
      BY <2>1, <2>2, <3>1 DEF Larger
    <3> QED BY <1>4, <3>2 DEF Commit
  <2>4. /\ s \in Seq(Nat)
        /\ Len(s) > 0 => s[Len(s)] = highest[c]
        /\ \A i \in 1..(Len(s) - 1) : s[i] < s[i + 1]
    BY <1>0, <2>1 DEF RankInv, DuplicatesSuppressed
  <2> HIDE DEF c, rank, s
  <2>5. /\ Len(Append(s, rank)) = Len(s) + 1 /\ Append(s, rank)[Len(s) + 1] = rank
        /\ \A i \in 1..Len(s) : Append(s, rank)[i] = s[i]
        /\ Len(s) \in Nat
    BY <2>1, <2>4
  <2>6. \A i \in 1..(Len(Append(s, rank)) - 1) : Append(s, rank)[i] < Append(s, rank)[i + 1]
    <3> TAKE i \in 1..(Len(Append(s, rank)) - 1)
    <3>1. CASE i = Len(s)
      BY <2>1, <2>2, <2>4, <2>5, <3>1
    <3>2. CASE i # Len(s)
      <4>1. i \in 1..(Len(s) - 1) /\ i + 1 \in 1..Len(s)
        BY <2>5, <3>2
      <4> QED BY <2>4, <2>5, <4>1
    <3> QED BY <3>1, <3>2
  <2>7. \A d \in Cids : succeeded'[d] = IF d = c THEN Append(s, rank) ELSE succeeded[d]
    BY <1>0, <2>3
  <2>8. \A d \in Cids : highest'[d] = IF d = c THEN rank ELSE highest[d]
    BY <1>0, <2>3
  <2>9. DuplicatesSuppressed'
    BY <2>6, <2>7 DEF DuplicatesSuppressed, RankInv
  <2>10. \A d \in Cids : Len(succeeded'[d]) > 0 => succeeded'[d][Len(succeeded'[d])] = highest'[d]
    BY <2>5, <2>7, <2>8 DEF RankInv
  <2>11. \A u \in Threads : Ranked(th[u], highest)'
    <3>1. Ranked(th[t], highest)'
      BY <1>2 DEF Ranked, Deciding
    <3> QED BY <3>1
  <2> QED BY <2>9, <2>10, <2>11 DEF RankInv
<1> QED BY <1>3, <1>4

\* With one consumer thread, equal or weaker duplicates are suppressed for good: the
\* ranks executed for a correlation only grow (DuplicatesSuppressed).  With several
\* threads, check and commit being separate critical sections, two threads may both
\* pass the check for one correlation.
THEOREM DuplicatesNeverRun == (\E t : Threads = {t}) => (Spec => []DuplicatesSuppressed)
<1> SUFFICES ASSUME NEW t, Threads = {t} PROVE Spec => []DuplicatesSuppressed
  OBVIOUS
<1>0. t \in Threads /\ \A u \in Threads : u = t
  OBVIOUS
<1>1. Init => RankInv
  <2> SUFFICES ASSUME Init PROVE RankInv
    OBVIOUS
  <2>1. \A u \in Threads : Ranked(th[u], highest)
    BY DEF Init, Ranked, Deciding, IdleThread, PidfdPCs
  <2>2. \A c \in Cids : succeeded[c] = <<>>
    BY DEF Init
  <2> QED BY <2>1, <2>2 DEF RankInv, DuplicatesSuppressed
<1>2. ResponseInv /\ RankInv /\ [Next]_vars => RankInv'
  <2> SUFFICES ASSUME ResponseInv, RankInv, [Next]_vars PROVE RankInv'
    OBVIOUS
  <2>1. CASE th' = th /\ highest' = highest /\ succeeded' = succeeded
    <3>1. Ranked(th'[t], highest)
      BY <1>0, <2>1 DEF RankInv
    <3> QED BY <1>0, <2>1, <3>1, KeepsRanks
  <2>2. ASSUME NEW p \in Pids, Spawn(p) \/ Exec(p) \/ Exit(p) PROVE RankInv'
    BY <2>1, <2>2 DEF Spawn, Exec, Exit
  <2>3. ASSUME NEW c \in Cids, Close(c) PROVE RankInv'
    BY <2>1, <2>3 DEF Close
  <2>4. CASE UNCHANGED vars
    BY <2>1, <2>4 DEF vars
  <2>5. CASE Begin(t) \/ Respond(t)
    BY <1>0, <2>5, RankBind, RankCheck, RankRespond, RankCommit DEF Respond
  <2> QED BY <1>0, <2>2, <2>3, <2>4, <2>5 DEF Next
<1>3. RankInv => DuplicatesSuppressed
  BY DEF RankInv
<1> QED BY <1>1, <1>2, <1>3, Invariance, PTL DEF Spec
=============================================================================
