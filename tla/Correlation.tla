---------------------------- MODULE Correlation ----------------------------
(***************************************************************************)
(* The execution correlation engine of src/elyra/correlation/engine.py: it *)
(* joins one fanotify pre-execution record and the eBPF runtime events of  *)
(* a process into one execution state per PID, scores the state and        *)
(* recommends a response.                                                  *)
(*                                                                         *)
(* Every public method runs under the engine's RLock, so each is one       *)
(* action.  Data kept: PIDs, exec timestamps, the keys that make evidence  *)
(* distinct, scores and the monotonic clock.  Data left out: UIDs, the     *)
(* text of indicators, the transitions log and the archive's 1024-entry    *)
(* retention.  A correlation id (a fresh uuid per state) is represented by *)
(* the pair <<pid, generation>>, which is as unique.                       *)
(*                                                                         *)
(* A definition just before another of nearly the same name (Stronger-     *)
(* Unlatched before Stronger) is the form a plausible defect would give    *)
(* the code; it is used only to test that the properties notice it.        *)
(***************************************************************************)
EXTENDS Integers, FiniteSets

CONSTANTS
  Pids,             \* process ids (TGIDs), all positive in the code
  NoPid,            \* the ppid 0 of an event without a parent
  NoState,          \* states.get(pid) is None
  Keys,             \* file keys, rename identifiers and endpoints
  NoKey,            \* an event without a distinct_file_key / identifier
  Paths,            \* executable paths and identifiers, normalised
  NoPath,           \* a record or event without a path
  Timestamps,       \* exec timestamps of PROCESS_EXEC events, 0 for a missing one
  PreScores,        \* scores carried by fanotify records
  ResultStatuses,   \* statuses reported by the response engine
  Weight,           \* policy: rule -> weight
  MaxOccurrences,   \* policy: rule -> occurrence cap
  AlertMin, TerminateMin, QuarantineMin,   \* policy: decision thresholds
  StateTtl, ExitedTtl, LateBindingWindow, InheritanceWindow,
  MaxStates,
  MaxClock,         \* bound on the modelled clock
  MaxGeneration     \* bound on the generations of one PID

ScoreMaximum == 100

ObservedRules == {"DISTINCT_FILE_WRITE", "FILE_RENAME", "OUTBOUND_CONNECTION"}
Rules == ObservedRules
           \cup {"CHILD_PROCESS_EXEC", "EXECUTABLE_IDENTIFIER_MISMATCH"}

Statuses == {"ACTIVE", "PENDING_EXEC", "DENIED_PRE_EXECUTION", "EXITED"}
Sources  == {"RUNTIME_ONLY", "FANOTIFY", "FANOTIFY_LATE_BOUND"}
Actions  == {"CONTINUE_MONITORING", "ALERT", "TERMINATE", "QUARANTINE", "DENY"}
Reasons  == {"MAX_STATES_EVICTION", "SUPERSEDED_BY_NEW_PRE_EXECUTION",
             "PID_EXEC_GENERATION_REPLACED", "EXITED_STATE_TTL_EXPIRED",
             "ACTIVE_STATE_TTL_EXPIRED"}

ActionRank == [CONTINUE_MONITORING |-> 0, ALERT |-> 1, TERMINATE |-> 2,
               QUARANTINE |-> 3, DENY |-> 4]

Evidence == Keys \cup {NoKey}

\* last_action_result: the status of a response and the generation (the
\* correlation id) it was decided for; generation 0 before any response.
Results == [generation : Nat, status : ResultStatuses \cup {"NOT_EXECUTED_STAGE11"}]

NoResult == [generation |-> 0, status |-> "NOT_EXECUTED_STAGE11"]

\* A live entry of `states`.  exec_ts = 0 is exec_timestamp_ns = None, and
\* exited is exited_monotonic with -1 for None.
ExecutionState ==
  [generation         : Nat,
   source             : Sources,
   status             : Statuses,
   executable_path    : Paths \cup {NoPath},
   pre_score          : 0..ScoreMaximum,
   rule_occurrences   : [Rules -> Nat],
   observed           : [ObservedRules -> SUBSET Evidence],
   runtime_score      : 0..ScoreMaximum,
   combined_score     : 0..ScoreMaximum,
   recommended_action : Actions,
   parent             : (Pids \cup {NoPid}) \X Nat,
   created            : Nat,
   last_seen          : Nat,
   exec_ts            : Nat,
   exited             : Nat \cup {-1},
   last_result        : Results]

\* CorrelationPolicy.validate(), and the shape of the inputs.
ASSUME PolicyAssumption ==
  /\ Weight \in [Rules -> Nat \ {0}]
  /\ MaxOccurrences \in [Rules -> Nat \ {0}]
  /\ AlertMin \in Nat /\ TerminateMin \in Nat /\ QuarantineMin \in Nat
  /\ 0 < AlertMin /\ AlertMin < TerminateMin /\ TerminateMin < QuarantineMin
  /\ QuarantineMin <= ScoreMaximum
  /\ {StateTtl, ExitedTtl, LateBindingWindow, InheritanceWindow} \subseteq Nat \ {0}
  /\ MaxStates \in Nat \ {0}

ASSUME InputAssumption ==
  /\ NoPid \notin Pids
  /\ NoState \notin ExecutionState
  /\ NoKey \notin Keys /\ NoPath \notin Paths
  /\ Timestamps \subseteq Nat
  /\ PreScores \subseteq 0..ScoreMaximum
  /\ MaxClock \in Nat /\ MaxGeneration \in Nat

ASSUME PidsAssumption == IsFiniteSet(Pids)

VARIABLES
  states,       \* PID -> live execution state, or NoState
  archived,     \* {[pid, generation, reason]}: states that left the engine
  generation,   \* _generation_by_pid
  now           \* the monotonic clock

vars == <<states, archived, generation, now>>
-----------------------------------------------------------------------------
(* Scoring.                                                                *)

Lesser(a, b) == IF a <= b THEN a ELSE b

\* sum(item.weight for item in runtime_indicators): one indicator is appended
\* per counted occurrence of a rule.
IndicatorWeight(occ) ==
  occ["DISTINCT_FILE_WRITE"] * Weight["DISTINCT_FILE_WRITE"]
  + occ["FILE_RENAME"] * Weight["FILE_RENAME"]
  + occ["OUTBOUND_CONNECTION"] * Weight["OUTBOUND_CONNECTION"]
  + occ["CHILD_PROCESS_EXEC"] * Weight["CHILD_PROCESS_EXEC"]
  + occ["EXECUTABLE_IDENTIFIER_MISMATCH"] * Weight["EXECUTABLE_IDENTIFIER_MISMATCH"]

\* validate(): a runtime-only process can reach every transition.
ASSUME ReachableAssumption == IndicatorWeight(MaxOccurrences) >= QuarantineMin

ActionFor(status, combined) ==
  CASE status = "DENIED_PRE_EXECUTION" -> "DENY"
    [] status # "DENIED_PRE_EXECUTION" /\ combined >= QuarantineMin -> "QUARANTINE"
    [] status # "DENIED_PRE_EXECUTION" /\ combined < QuarantineMin
         /\ combined >= TerminateMin -> "TERMINATE"
    [] status # "DENIED_PRE_EXECUTION" /\ combined < TerminateMin
         /\ combined >= AlertMin -> "ALERT"
    [] OTHER -> "CONTINUE_MONITORING"

StrongerUnlatched(candidate, previous) == candidate

Stronger(candidate, previous) ==
  IF ActionRank[candidate] < ActionRank[previous] THEN previous ELSE candidate

Recalculate(st) ==
  LET runtime  == Lesser(ScoreMaximum, IndicatorWeight(st.rule_occurrences))
      combined == Lesser(ScoreMaximum, st.pre_score + runtime)
  IN [st EXCEPT !.runtime_score = runtime,
                !.combined_score = combined,
                !.recommended_action =
                   Stronger(ActionFor(st.status, combined), st.recommended_action)]

\* A rule counts until its occurrence cap is reached, then it is ignored.
ApplyRule(st, rule) ==
  IF st.rule_occurrences[rule] >= MaxOccurrences[rule]
  THEN st
  ELSE Recalculate([st EXCEPT !.rule_occurrences[rule] = @ + 1])

LexicallySame(path, identifier) ==
  path = NoPath \/ identifier = NoPath \/ path = identifier
-----------------------------------------------------------------------------
(* The table of states: expiry, archiving, eviction, creation.             *)

Live(s) == {p \in Pids : s[p] # NoState}

ExpiryReason(st) ==
  IF st.status = "EXITED" /\ st.exited # -1
  THEN IF now - st.exited > ExitedTtl THEN "EXITED_STATE_TTL_EXPIRED" ELSE "NONE"
  ELSE IF now - st.last_seen > StateTtl THEN "ACTIVE_STATE_TTL_EXPIRED" ELSE "NONE"

IsExpired(st) == st # NoState /\ ExpiryReason(st) # "NONE"

Expire(s) == [p \in Pids |-> IF IsExpired(s[p]) THEN NoState ELSE s[p]]

ArchiveEntry(p, st, why) == [pid |-> p, generation |-> st.generation, reason |-> why]

ExpiredEntries(s) ==
  {ArchiveEntry(p, s[p], ExpiryReason(s[p])) : p \in {q \in Pids : IsExpired(s[q])}}

\* _new_state evicts the least recently seen state when the table is full;
\* among states seen at the same instant any may be the one.
Victims(s) ==
  IF Cardinality(Live(s)) < MaxStates
  THEN {NoPid}
  ELSE {p \in Live(s) : \A q \in Live(s) : s[p].last_seen <= s[q].last_seen}

Evict(s, victim) == [p \in Pids |-> IF p = victim THEN NoState ELSE s[p]]

EvictedEntriesUnarchived(s, victim) == {}

EvictedEntries(s, victim) ==
  {ArchiveEntry(p, s[p], "MAX_STATES_EVICTION") : p \in Pids \cap {victim}}

NewState(pid, source, status, path, score, parent) ==
  Recalculate(
    [generation         |-> generation[pid] + 1,
     source             |-> source,
     status             |-> status,
     executable_path    |-> path,
     pre_score          |-> score,
     rule_occurrences   |-> [r \in Rules |-> 0],
     observed           |-> [r \in ObservedRules |-> {}],
     runtime_score      |-> 0,
     combined_score     |-> score,
     recommended_action |-> "CONTINUE_MONITORING",
     parent             |-> parent,
     created            |-> now,
     last_seen          |-> now,
     exec_ts            |-> 0,
     exited             |-> -1,
     last_result        |-> NoResult])

BumpGeneration(pid) ==
  /\ generation[pid] < MaxGeneration
  /\ generation' = [generation EXCEPT ![pid] = @ + 1]
-----------------------------------------------------------------------------
(* register_pre_execution: the fanotify record of one execution.           *)

LateBindableAnySource(st) ==
  /\ st # NoState
  /\ st.status \in {"ACTIVE", "PENDING_EXEC"}
  /\ now - st.created <= LateBindingWindow

\* The eBPF exec was seen first and the record arrives within the window.
LateBindable(st) ==
  /\ st # NoState
  /\ st.source = "RUNTIME_ONLY"
  /\ st.status \in {"ACTIVE", "PENDING_EXEC"}
  /\ now - st.created <= LateBindingWindow

LateBoundStale(st, score, final, path) ==
  [st EXCEPT
    !.source = "FANOTIFY_LATE_BOUND",
    !.executable_path = IF path = NoPath THEN @ ELSE path,
    !.pre_score = score,
    !.last_seen = now,
    !.status = IF final = "DENY" THEN "DENIED_PRE_EXECUTION" ELSE @]

LateBound(st, score, final, path) ==
  Recalculate([st EXCEPT
    !.source = "FANOTIFY_LATE_BOUND",
    !.executable_path = IF path = NoPath THEN @ ELSE path,
    !.pre_score = score,
    !.last_seen = now,
    !.status = IF final = "DENY" THEN "DENIED_PRE_EXECUTION" ELSE @])

RegisterLateBinding(pid, score, final, path) ==
  LET s == Expire(states) IN
  /\ LateBindable(s[pid])
  /\ states' = [s EXCEPT ![pid] = LateBound(@, score, final, path)]
  /\ archived' = archived \cup ExpiredEntries(states)
  /\ UNCHANGED <<generation, now>>

\* Any other live state of the PID is superseded by a new generation.
RegisterNewState(pid, score, final, path) ==
  LET s == Expire(states)
      t == [s EXCEPT ![pid] = NoState]
      status == IF final = "DENY" THEN "DENIED_PRE_EXECUTION" ELSE "PENDING_EXEC"
      superseded == {ArchiveEntry(p, s[p], "SUPERSEDED_BY_NEW_PRE_EXECUTION") :
                       p \in Live(s) \cap {pid}}
  IN
  /\ ~LateBindable(s[pid])
  /\ BumpGeneration(pid)
  /\ \E victim \in Victims(t) :
       /\ states' = [Evict(t, victim) EXCEPT
            ![pid] = NewState(pid, "FANOTIFY", status, path, score, <<NoPid, 0>>)]
       /\ archived' = archived \cup ExpiredEntries(states) \cup superseded
                               \cup EvictedEntries(t, victim)
  /\ now' = now
-----------------------------------------------------------------------------
(* ingest_runtime_event: one decoded eBPF event.                           *)

\* The parent a new runtime-only state links to: the live state of its ppid,
\* if that was seen recently enough.
ParentLink(s, ppid) ==
  IF /\ ppid \in Live(s)
     /\ now - s[ppid].last_seen <= InheritanceWindow
  THEN <<ppid, s[ppid].generation>>
  ELSE <<NoPid, 0>>

RuntimeOnlyStateOrphan(s, pid, ppid, kind) ==
  LET st == NewState(pid, "RUNTIME_ONLY", "ACTIVE", NoPath, 0, ParentLink(s, ppid))
  IN IF ppid # NoPid /\ kind = "PROCESS_EXEC"
     THEN ApplyRule(st, "CHILD_PROCESS_EXEC")
     ELSE st

\* _runtime_state for a PID without a live state.
RuntimeOnlyState(s, pid, ppid, kind) ==
  LET parent == ParentLink(s, ppid)
      st == NewState(pid, "RUNTIME_ONLY", "ACTIVE", NoPath, 0, parent)
  IN IF parent[1] # NoPid /\ kind = "PROCESS_EXEC"
     THEN ApplyRule(st, "CHILD_PROCESS_EXEC")
     ELSE st

\* The PROCESS_EXEC branch.
ExecObserved(st, ts, identifier) ==
  LET active == [st EXCEPT !.status = "ACTIVE",
                           !.exec_ts = IF ts = 0 THEN @ ELSE ts] IN
  IF LexicallySame(active.executable_path, identifier)
  THEN active
  ELSE ApplyRule(active, "EXECUTABLE_IDENTIFIER_MISMATCH")

EvidenceObservedRepeated(st, rule, key) ==
  IF rule = "DISTINCT_FILE_WRITE" /\ key = NoKey
  THEN st
  ELSE ApplyRule([st EXCEPT !.observed[rule] = @ \cup {key}], rule)

\* The FILE_WRITE, FILE_RENAME and NETWORK_CONNECT branches.  A write without
\* a file key is ignored; a rename or a connection without one counts under
\* the placeholder UNKNOWN_IDENTIFIER or unknown:0.
EvidenceObserved(st, rule, key) ==
  IF key \in st.observed[rule] \/ (rule = "DISTINCT_FILE_WRITE" /\ key = NoKey)
  THEN st
  ELSE ApplyRule([st EXCEPT !.observed[rule] = @ \cup {key}], rule)

\* The PROCESS_EXIT branch.
ExitObserved(st) == [st EXCEPT !.status = "EXITED", !.exited = now]

Touch(st) == [st EXCEPT !.last_seen = now]

\* An event for a PID with a live state, and for one without.  Handled(st) is
\* the branch for the event's type; _recalculate closes every branch.
IngestExisting(pid, Handled(_)) ==
  LET s == Expire(states) IN
  /\ s[pid] # NoState
  /\ states' = [s EXCEPT ![pid] = Recalculate(Handled(Touch(@)))]
  /\ archived' = archived \cup ExpiredEntries(states)
  /\ UNCHANGED <<generation, now>>

IngestCreating(pid, ppid, kind, Handled(_)) ==
  LET s == Expire(states) IN
  /\ s[pid] = NoState
  /\ BumpGeneration(pid)
  /\ \E victim \in Victims(s) :
       /\ states' = [Evict(s, victim) EXCEPT
            ![pid] = Recalculate(Handled(RuntimeOnlyState(s, pid, ppid, kind)))]
       /\ archived' = archived \cup ExpiredEntries(states) \cup EvictedEntries(s, victim)
  /\ now' = now

IsSecondExec(st, ts) == st # NoState /\ st.exec_ts # 0 /\ ts > st.exec_ts

IngestExec(pid, ppid, ts, identifier) ==
  LET Handled(st) == ExecObserved(st, ts, identifier) IN
  /\ ~IsSecondExec(Expire(states)[pid], ts)
  /\ \/ IngestExisting(pid, Handled)
     \/ IngestCreating(pid, ppid, "PROCESS_EXEC", Handled)

\* A later exec of the same PID archives the generation and starts another.
\* Archiving has just made room, so nothing is evicted.
IngestSecondExec(pid, ppid, ts, identifier) ==
  LET s == Expire(states)
      t == [s EXCEPT ![pid] = NoState]
  IN
  /\ IsSecondExec(s[pid], ts)
  /\ BumpGeneration(pid)
  /\ states' = [t EXCEPT ![pid] = Recalculate(ExecObserved(
                  RuntimeOnlyState(t, pid, ppid, "PROCESS_EXEC"), ts, identifier))]
  /\ archived' = archived \cup ExpiredEntries(states)
        \cup {ArchiveEntry(pid, s[pid], "PID_EXEC_GENERATION_REPLACED")}
  /\ now' = now

IngestEvidence(pid, ppid, rule, key) ==
  LET Handled(st) == EvidenceObserved(st, rule, key) IN
  \/ IngestExisting(pid, Handled)
  \/ IngestCreating(pid, ppid, "EVIDENCE", Handled)

IngestExit(pid, ppid) ==
  \/ IngestExisting(pid, ExitObserved)
  \/ IngestCreating(pid, ppid, "PROCESS_EXIT", ExitObserved)
-----------------------------------------------------------------------------
RecordActionResultByPid(pid, gen, status) ==
  /\ states[pid] # NoState
  /\ gen <= generation[pid]
  /\ states' = [states EXCEPT
       ![pid].last_result = [generation |-> gen, status |-> status],
       ![pid].last_seen = now]
  /\ UNCHANGED <<archived, generation, now>>

\* record_action_result: attach a response to the exact generation, else refuse.
RecordActionResult(pid, gen, status) ==
  /\ states[pid] # NoState
  /\ states[pid].generation = gen
  /\ states' = [states EXCEPT
       ![pid].last_result = [generation |-> gen, status |-> status],
       ![pid].last_seen = now]
  /\ UNCHANGED <<archived, generation, now>>

\* expire(), also the only effect of a record or event without a valid PID.
ExpireStates ==
  /\ states' = Expire(states)
  /\ archived' = archived \cup ExpiredEntries(states)
  /\ UNCHANGED <<generation, now>>

Tick ==
  /\ now < MaxClock
  /\ now' = now + 1
  /\ UNCHANGED <<states, archived, generation>>

Init ==
  /\ states = [p \in Pids |-> NoState]
  /\ archived = {}
  /\ generation = [p \in Pids |-> 0]
  /\ now = 0

RegisterPreExecution(pid) ==
  \E score \in PreScores, final \in {"ALLOW", "DENY"}, path \in Paths \cup {NoPath} :
    \/ RegisterLateBinding(pid, score, final, path)
    \/ RegisterNewState(pid, score, final, path)

IngestRuntimeEvent(pid) ==
  \E ppid \in (Pids \cup {NoPid}) \ {pid} :
    \/ \E ts \in Timestamps, identifier \in Paths \cup {NoPath} :
         \/ IngestExec(pid, ppid, ts, identifier)
         \/ IngestSecondExec(pid, ppid, ts, identifier)
    \/ \E rule \in ObservedRules, key \in Evidence :
         IngestEvidence(pid, ppid, rule, key)
    \/ IngestExit(pid, ppid)

Next ==
  \/ \E pid \in Pids :
       \/ RegisterPreExecution(pid)
       \/ IngestRuntimeEvent(pid)
       \/ \E gen \in 1..MaxGeneration, status \in ResultStatuses :
            RecordActionResult(pid, gen, status)
  \/ ExpireStates
  \/ Tick

Spec == Init /\ [][Next]_vars
-----------------------------------------------------------------------------
(* Properties.                                                             *)

\* Type correctness of the table, the archive and the clock.
TypeOK ==
  /\ states \in [Pids -> ExecutionState \cup {NoState}]
  /\ archived \subseteq [pid : Pids, generation : Nat, reason : Reasons]
  /\ generation \in [Pids -> Nat]
  /\ now \in Nat

\* The stored scores are the ones the counted evidence explains, and the
\* recommendation is at least what they call for: no path through register,
\* late binding, exec, evidence or exit leaves them stale (_recalculate).
VerdictExplained(st) ==
  LET runtime == Lesser(ScoreMaximum, IndicatorWeight(st.rule_occurrences)) IN
  /\ st.runtime_score = runtime
  /\ st.combined_score = Lesser(ScoreMaximum, st.pre_score + runtime)
  /\ ActionRank[st.recommended_action] >= ActionRank[ActionFor(st.status, st.combined_score)]

VerdictIsCurrent == \A p \in Live(states) : VerdictExplained(states[p])

\* Repeated, duplicated or reordered events of one key count once, and a rule
\* counts every distinct key up to its cap and none after (ingest branches and
\* _apply_rule).
EvidenceCountedOnce ==
  \A p \in Live(states), r \in ObservedRules :
    states[p].rule_occurrences[r] =
      Lesser(MaxOccurrences[r], Cardinality(states[p].observed[r]))

\* The table never outgrows max_states, whichever path creates the state
\* (_new_state's eviction, after supersession or a second exec).
TableBounded == Cardinality(Live(states)) <= MaxStates

\* Every generation ever given to a PID is accounted for exactly once: it is
\* the live state or it has one archive entry.  Expiry, eviction, supersession
\* and re-exec neither lose a state nor archive it twice (_archive).
ArchivedGenerations(p) == {e.generation : e \in {x \in archived : x.pid = p}}

LiveGenerations(p) == {states[q].generation : q \in Live(states) \cap {p}}

GenerationsAccountedFor ==
  /\ \A p \in Pids :
       /\ ArchivedGenerations(p) \cup LiveGenerations(p) = 1..generation[p]
       /\ ArchivedGenerations(p) \cap LiveGenerations(p) = {}
  /\ \A e, f \in archived :
       e.pid = f.pid /\ e.generation = f.generation => e = f

\* A parent link names a generation its PID really had, and the child execution
\* rule is only ever counted for a state that has such a link, whatever expiry
\* or eviction happened to the parent since (_runtime_state).
ParentLinksReal ==
  \A p \in Live(states) :
    LET link == states[p].parent IN
    /\ link[1] # NoPid => link[1] # p /\ link[2] \in 1..generation[link[1]]
    /\ states[p].rule_occurrences["CHILD_PROCESS_EXEC"] > 0 => link[1] # NoPid

\* PID p holds the same execution (the same correlation id) before and after.
SameExecution(p) ==
  /\ states[p] # NoState /\ states'[p] # NoState
  /\ states[p].generation = states'[p].generation

\* Within one execution the recommendation is never weakened and the combined
\* score never falls, across late binding, exec, exit and capped evidence.
VerdictNeverWeakens ==
  [][\A p \in Pids : SameExecution(p) =>
       /\ ActionRank[states'[p].recommended_action]
            >= ActionRank[states[p].recommended_action]
       /\ states'[p].combined_score >= states[p].combined_score]_vars

\* A fanotify verdict, once bound to an execution, is never overwritten by a
\* later record: that record starts a new generation (register_pre_execution).
PreExecutionBoundOnce ==
  [][\A p \in Pids : SameExecution(p) /\ states[p].source # "RUNTIME_ONLY" =>
       /\ states'[p].source = states[p].source
       /\ states'[p].pre_score = states[p].pre_score]_vars

\* A response that arrives after its PID was reused, superseded or re-executed
\* is refused: a result is only ever attached to the execution it was decided
\* for (record_action_result's correlation id check).
ResultsMatchExecution ==
  \A p \in Live(states) :
    states[p].last_result.generation \in {0, states[p].generation}
=============================================================================
