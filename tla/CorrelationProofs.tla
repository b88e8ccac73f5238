------------------------- MODULE CorrelationProofs -------------------------
(***************************************************************************)
(* Theorems about Correlation for every finite set of PIDs, all keys and   *)
(* paths, every policy that validate() accepts and every bound.            *)
(*                                                                         *)
(* A live state is Consistent if its verdict is explained by its evidence  *)
(* and its evidence is within the caps.  The proof first shows that every  *)
(* operation on one state keeps it Consistent and lets it only grow        *)
(* (Grows), then that every action has one of a few step shapes: states    *)
(* that grew, states removed and archived, at most one state created with  *)
(* the next generation (StepShape).  CorrelationInv is preserved by each   *)
(* shape, whatever the operation behind it.                                *)
(***************************************************************************)
EXTENDS Correlation, FiniteSetTheorems, TLAPS

\* The runtime score before the cap is a natural number.
LEMMA WeightIsNat ==
  ASSUME NEW occ \in [Rules -> Nat]
  PROVE  IndicatorWeight(occ) \in Nat
<1>1. \A a, b \in Nat : a * b \in Nat
  OBVIOUS
<1>2. \A r \in Rules : occ[r] * Weight[r] \in Nat
  BY <1>1, PolicyAssumption
<1> QED
  BY <1>2 DEF IndicatorWeight, Rules, ObservedRules

\* More occurrences never weigh less: weights are not negative.
LEMMA WeightIsMonotone ==
  ASSUME NEW occ \in [Rules -> Nat], NEW more \in [Rules -> Nat],
         \A r \in Rules : occ[r] <= more[r]
  PROVE  IndicatorWeight(occ) <= IndicatorWeight(more)
<1>1. \A a, b, c \in Nat : a <= b => a * c <= b * c
  OBVIOUS
<1>2. \A a, b \in Nat : a * b \in Nat
  OBVIOUS
<1>3. \A r \in Rules : /\ occ[r] * Weight[r] <= more[r] * Weight[r]
                       /\ occ[r] * Weight[r] \in Nat
                       /\ more[r] * Weight[r] \in Nat
  BY <1>1, <1>2, PolicyAssumption
<1> QED
  BY <1>3 DEF IndicatorWeight, Rules, ObservedRules

\* _action_for returns an action.
LEMMA ActionForType ==
  ASSUME NEW status \in Statuses, NEW combined \in Nat
  PROVE  ActionFor(status, combined) \in Actions
BY PolicyAssumption DEF ActionFor, Actions

\* _recalculate keeps the stronger of two actions.
LEMMA StrongerType ==
  ASSUME NEW a \in Actions, NEW b \in Actions
  PROVE  /\ Stronger(a, b) \in Actions
         /\ ActionRank[Stronger(a, b)] >= ActionRank[a]
         /\ ActionRank[Stronger(a, b)] >= ActionRank[b]
BY DEF Stronger, Actions, ActionRank
-----------------------------------------------------------------------------
(* One execution state.                                                    *)

\* What holds of a state at every point inside a handler, before the closing
\* _recalculate has made the verdict current.
Consistent(st) ==
  /\ st \in ExecutionState
  /\ st.source = "RUNTIME_ONLY" => st.pre_score = 0
  /\ st.last_result.generation \in {0, st.generation}
  /\ \A r \in ObservedRules :
       /\ IsFiniteSet(st.observed[r])
       /\ st.rule_occurrences[r] =
            Lesser(MaxOccurrences[r], Cardinality(st.observed[r]))

\* What holds of it between handlers.
Sound(st) == Consistent(st) /\ VerdictExplained(st)

\* What a handler may change in a state it does not replace.
Grows(st, t) ==
  /\ t.generation = st.generation
  /\ t.parent = st.parent
  /\ \A r \in Rules : st.rule_occurrences[r] <= t.rule_occurrences[r]
  /\ t.rule_occurrences["CHILD_PROCESS_EXEC"] = st.rule_occurrences["CHILD_PROCESS_EXEC"]
  /\ ActionRank[t.recommended_action] >= ActionRank[st.recommended_action]

Keeps(st, t) == t.source = st.source /\ t.pre_score = st.pre_score

\* Growing in score and rank is transitive ...
LEMMA GrowsTransitive ==
  ASSUME NEW s \in ExecutionState, NEW t \in ExecutionState, NEW u \in ExecutionState,
         Grows(s, t), Grows(t, u)
  PROVE  Grows(s, u)
BY DEF Grows, ExecutionState, Actions, ActionRank

\* ... and reflexive.
LEMMA GrowsReflexive ==
  ASSUME NEW s \in ExecutionState
  PROVE  Grows(s, s) /\ Keeps(s, s)
BY DEF Grows, Keeps, ExecutionState, Actions, ActionRank

\* _recalculate sets the two scores and the recommendation, well typed, and
\* leaves every other field alone.
LEMMA RecalculateFields ==
  ASSUME NEW st \in ExecutionState
  PROVE  /\ Recalculate(st) \in ExecutionState
         /\ VerdictExplained(Recalculate(st))
         /\ ActionRank[Recalculate(st).recommended_action]
              >= ActionRank[st.recommended_action]
         /\ Recalculate(st).generation = st.generation
         /\ Recalculate(st).source = st.source
         /\ Recalculate(st).pre_score = st.pre_score
         /\ Recalculate(st).rule_occurrences = st.rule_occurrences
         /\ Recalculate(st).observed = st.observed
         /\ Recalculate(st).parent = st.parent
         /\ Recalculate(st).last_result = st.last_result
<1> DEFINE runtime == Lesser(ScoreMaximum, IndicatorWeight(st.rule_occurrences))
           combined == Lesser(ScoreMaximum, st.pre_score + runtime)
           action == Stronger(ActionFor(st.status, combined), st.recommended_action)
<1>1. IndicatorWeight(st.rule_occurrences) \in Nat
  BY WeightIsNat DEF ExecutionState
<1>2. runtime \in 0..ScoreMaximum /\ combined \in 0..ScoreMaximum
  BY <1>1 DEF Lesser, ScoreMaximum, ExecutionState
<1>3. ActionFor(st.status, combined) \in Actions
  BY <1>2, ActionForType DEF ExecutionState, ScoreMaximum
<1>4. /\ action \in Actions
      /\ ActionRank[action] >= ActionRank[ActionFor(st.status, combined)]
      /\ ActionRank[action] >= ActionRank[st.recommended_action]
  BY <1>3, StrongerType DEF ExecutionState
<1>5. Recalculate(st) = [st EXCEPT !.runtime_score = runtime,
                                   !.combined_score = combined,
                                   !.recommended_action = action]
  BY DEF Recalculate
<1> HIDE DEF runtime, combined, action
<1>6. Recalculate(st) \in ExecutionState
  BY <1>2, <1>4, <1>5 DEF ExecutionState
<1>7. /\ Recalculate(st).runtime_score = runtime
      /\ Recalculate(st).combined_score = combined
      /\ Recalculate(st).recommended_action = action
      /\ Recalculate(st).generation = st.generation
      /\ Recalculate(st).source = st.source
      /\ Recalculate(st).status = st.status
      /\ Recalculate(st).pre_score = st.pre_score
      /\ Recalculate(st).rule_occurrences = st.rule_occurrences
      /\ Recalculate(st).observed = st.observed
      /\ Recalculate(st).parent = st.parent
      /\ Recalculate(st).last_result = st.last_result
  BY <1>5 DEF ExecutionState
<1>8. VerdictExplained(Recalculate(st))
  BY <1>4, <1>7 DEF VerdictExplained, runtime, combined
<1> QED
  BY <1>4, <1>6, <1>7, <1>8

\* After _recalculate the verdict is explained, and neither the score nor the
\* recommendation has fallen.
LEMMA RecalculateSound ==
  ASSUME NEW st, Consistent(st)
  PROVE  Sound(Recalculate(st)) /\ Grows(st, Recalculate(st)) /\ Keeps(st, Recalculate(st))
<1>1. st \in ExecutionState
  BY DEF Consistent
<1>2. Consistent(Recalculate(st))
  BY <1>1, RecalculateFields DEF Consistent
<1>3. \A r \in Rules : st.rule_occurrences[r] <= st.rule_occurrences[r]
  BY <1>1 DEF ExecutionState
<1> QED
  BY <1>1, <1>2, <1>3, RecalculateFields DEF Sound, Grows, Keeps

\* A rule outside ObservedRules counts without evidence keys.
LEMMA ApplyUnkeyedRule ==
  ASSUME NEW st, Consistent(st), NEW rule \in Rules \ ObservedRules
  PROVE  /\ Consistent(ApplyRule(st, rule))
         /\ Keeps(st, ApplyRule(st, rule))
         /\ ApplyRule(st, rule).generation = st.generation
         /\ ApplyRule(st, rule).parent = st.parent
         /\ rule # "CHILD_PROCESS_EXEC" => Grows(st, ApplyRule(st, rule))
<1> DEFINE t == [st EXCEPT !.rule_occurrences[rule] = @ + 1]
<1>1. st \in ExecutionState
  BY DEF Consistent
<1>2. CASE st.rule_occurrences[rule] >= MaxOccurrences[rule]
  BY <1>1, <1>2, GrowsReflexive DEF ApplyRule, Keeps
<1>3. CASE ~(st.rule_occurrences[rule] >= MaxOccurrences[rule])
  <2>1. ApplyRule(st, rule) = Recalculate(t)
    BY <1>3 DEF ApplyRule
  <2>2. /\ t \in ExecutionState
        /\ t.generation = st.generation
        /\ t.source = st.source
        /\ t.pre_score = st.pre_score
        /\ t.observed = st.observed
        /\ t.parent = st.parent
        /\ t.last_result = st.last_result
        /\ t.recommended_action = st.recommended_action
        /\ t.rule_occurrences = [st.rule_occurrences EXCEPT ![rule] = @ + 1]
    BY <1>1 DEF ExecutionState
  <2>3. Consistent(t)
    BY <2>2 DEF Consistent, ExecutionState
  <2>4. rule # "CHILD_PROCESS_EXEC" => Grows(st, t)
    BY <1>1, <2>2 DEF Grows, ExecutionState, Actions, ActionRank, Rules
  <2>5. Sound(Recalculate(t)) /\ Grows(t, Recalculate(t)) /\ Keeps(t, Recalculate(t))
    BY <2>3, RecalculateSound
  <2>6. Recalculate(t) \in ExecutionState
    BY <2>5 DEF Sound, Consistent
  <2>7. rule # "CHILD_PROCESS_EXEC" => Grows(st, Recalculate(t))
    BY <1>1, <2>2, <2>4, <2>5, <2>6, GrowsTransitive
  <2> QED
    BY <2>1, <2>2, <2>5, <2>7 DEF Sound, Keeps, Grows
<1> QED
  BY <1>2, <1>3

\* A key counts once: it is added to the set of observed keys and, below the
\* cap, to the occurrences of its rule.
LEMMA EvidenceObservedConsistent ==
  ASSUME NEW st, Consistent(st), NEW rule \in ObservedRules, NEW key \in Evidence
  PROVE  /\ Consistent(EvidenceObserved(st, rule, key))
         /\ Keeps(st, EvidenceObserved(st, rule, key))
         /\ Grows(st, EvidenceObserved(st, rule, key))
<1> DEFINE t == [st EXCEPT !.observed[rule] = @ \cup {key}]
           u == [t EXCEPT !.rule_occurrences[rule] = @ + 1]
<1>1. st \in ExecutionState
  BY DEF Consistent
<1>2. CASE key \in st.observed[rule] \/ (rule = "DISTINCT_FILE_WRITE" /\ key = NoKey)
  BY <1>1, <1>2, GrowsReflexive DEF EvidenceObserved
<1>3. CASE ~(key \in st.observed[rule] \/ (rule = "DISTINCT_FILE_WRITE" /\ key = NoKey))
  <2>1. EvidenceObserved(st, rule, key) = ApplyRule(t, rule)
    BY <1>3 DEF EvidenceObserved
  <2>2. /\ t \in ExecutionState
        /\ t.generation = st.generation
        /\ t.source = st.source
        /\ t.pre_score = st.pre_score
        /\ t.parent = st.parent
        /\ t.last_result = st.last_result
        /\ t.recommended_action = st.recommended_action
        /\ t.rule_occurrences = st.rule_occurrences
        /\ t.observed = [st.observed EXCEPT ![rule] = @ \cup {key}]
    BY <1>1 DEF ExecutionState
  <2>3. /\ IsFiniteSet(st.observed[rule] \cup {key})
        /\ Cardinality(st.observed[rule] \cup {key}) = Cardinality(st.observed[rule]) + 1
        /\ Cardinality(st.observed[rule]) \in Nat
    BY <1>3, FS_AddElement, FS_CardinalityType DEF Consistent
  <2>4. /\ t.observed[rule] = st.observed[rule] \cup {key}
        /\ \A r \in ObservedRules \ {rule} : t.observed[r] = st.observed[r]
    BY <1>1, <2>2 DEF ExecutionState
  <2>5. /\ rule \in Rules
        /\ st.rule_occurrences[rule] \in Nat
        /\ MaxOccurrences[rule] \in Nat \ {0}
        /\ st.rule_occurrences[rule] =
             Lesser(MaxOccurrences[rule], Cardinality(st.observed[rule]))
    BY <1>1, PolicyAssumption DEF Consistent, ExecutionState, Rules
  <2>6. Grows(st, t) /\ Keeps(st, t)
    BY <1>1, <2>2 DEF Grows, Keeps, ExecutionState, Actions, ActionRank
  <2>7. CASE t.rule_occurrences[rule] >= MaxOccurrences[rule]
    <3>1. ApplyRule(t, rule) = t
      BY <2>7 DEF ApplyRule
    <3>2. t.rule_occurrences[rule] = Lesser(MaxOccurrences[rule], Cardinality(t.observed[rule]))
      BY <2>2, <2>3, <2>4, <2>5, <2>7 DEF Lesser
    <3>3. \A r \in ObservedRules :
            /\ IsFiniteSet(t.observed[r])
            /\ t.rule_occurrences[r] = Lesser(MaxOccurrences[r], Cardinality(t.observed[r]))
      BY <2>2, <2>3, <2>4, <3>2 DEF Consistent
    <3>4. Consistent(t)
      BY <2>2, <3>3 DEF Consistent
    <3> QED
      BY <2>1, <2>6, <3>1, <3>4
  <2>8. CASE ~(t.rule_occurrences[rule] >= MaxOccurrences[rule])
    <3>1. ApplyRule(t, rule) = Recalculate(u)
      BY <2>8 DEF ApplyRule
    <3> HIDE DEF t
    <3>2. /\ u \in ExecutionState
          /\ u.generation = t.generation
          /\ u.source = t.source
          /\ u.pre_score = t.pre_score
          /\ u.parent = t.parent
          /\ u.last_result = t.last_result
          /\ u.recommended_action = t.recommended_action
          /\ u.observed = t.observed
          /\ u.rule_occurrences = [t.rule_occurrences EXCEPT ![rule] = @ + 1]
      BY <2>2, <2>5 DEF ExecutionState
    <3> HIDE DEF u
    <3>3. u.rule_occurrences[rule] = Lesser(MaxOccurrences[rule], Cardinality(u.observed[rule]))
      BY <2>2, <2>3, <2>4, <2>5, <2>8, <3>2 DEF Lesser, ExecutionState
    <3>4. \A r \in ObservedRules \ {rule} :
            u.rule_occurrences[r] = st.rule_occurrences[r] /\ u.observed[r] = st.observed[r]
      BY <2>2, <2>4, <3>2 DEF ExecutionState, Rules
    <3>5. \A r \in ObservedRules :
            /\ IsFiniteSet(u.observed[r])
            /\ u.rule_occurrences[r] = Lesser(MaxOccurrences[r], Cardinality(u.observed[r]))
      BY <2>3, <2>4, <3>2, <3>3, <3>4 DEF Consistent
    <3>6. Consistent(u)
      BY <2>2, <3>2, <3>5 DEF Consistent
    <3>7. Grows(st, u) /\ Keeps(st, u)
      BY <1>1, <2>2, <2>5, <3>2
      DEF Grows, Keeps, ExecutionState, Actions, ActionRank, Rules, ObservedRules
    <3>8. Sound(Recalculate(u)) /\ Grows(u, Recalculate(u)) /\ Keeps(u, Recalculate(u))
      BY <3>6, RecalculateSound
    <3>9. Grows(st, Recalculate(u))
      BY <1>1, <3>2, <3>7, <3>8, GrowsTransitive DEF Sound, Consistent
    <3> QED
      BY <2>1, <3>1, <3>7, <3>8, <3>9 DEF Sound, Keeps
  <2> QED
    BY <2>7, <2>8
<1> QED
  BY <1>2, <1>3

\* The state after a PROCESS_EXEC event.
LEMMA ExecObservedConsistent ==
  ASSUME NEW st, Consistent(st), NEW ts \in Timestamps, NEW identifier
  PROVE  /\ Consistent(ExecObserved(st, ts, identifier))
         /\ Keeps(st, ExecObserved(st, ts, identifier))
         /\ Grows(st, ExecObserved(st, ts, identifier))
<1> DEFINE t == [st EXCEPT !.status = "ACTIVE", !.exec_ts = IF ts = 0 THEN @ ELSE ts]
<1>1. st \in ExecutionState
  BY DEF Consistent
<1>2. /\ t \in ExecutionState
      /\ t.generation = st.generation
      /\ t.source = st.source
      /\ t.pre_score = st.pre_score
      /\ t.parent = st.parent
      /\ t.last_result = st.last_result
      /\ t.recommended_action = st.recommended_action
      /\ t.rule_occurrences = st.rule_occurrences
      /\ t.observed = st.observed
  BY <1>1, InputAssumption DEF ExecutionState, Statuses
<1>3. \/ ExecObserved(st, ts, identifier) = t
      \/ ExecObserved(st, ts, identifier) = ApplyRule(t, "EXECUTABLE_IDENTIFIER_MISMATCH")
  BY DEF ExecObserved
<1> HIDE DEF t
<1>4. Consistent(t)
  BY <1>2 DEF Consistent
<1>5. Grows(st, t) /\ Keeps(st, t)
  BY <1>1, <1>2 DEF Grows, Keeps, ExecutionState, Actions, ActionRank
<1>6. "EXECUTABLE_IDENTIFIER_MISMATCH" \in Rules \ ObservedRules
  BY DEF Rules, ObservedRules
<1> DEFINE u == ApplyRule(t, "EXECUTABLE_IDENTIFIER_MISMATCH")
<1>7. Consistent(u) /\ Keeps(t, u) /\ Grows(t, u)
  BY <1>4, <1>6, ApplyUnkeyedRule
<1>8. Grows(st, u) /\ Keeps(st, u)
  BY <1>1, <1>2, <1>5, <1>7, GrowsTransitive DEF Consistent, Keeps
<1> QED
  BY <1>3, <1>4, <1>5, <1>7, <1>8

\* The state after a PROCESS_EXIT event.
LEMMA ExitObservedConsistent ==
  ASSUME NEW st, Consistent(st), now \in Nat
  PROVE  /\ Consistent(ExitObserved(st))
         /\ Keeps(st, ExitObserved(st))
         /\ Grows(st, ExitObserved(st))
<1>1. /\ ExitObserved(st) \in ExecutionState
      /\ ExitObserved(st).generation = st.generation
      /\ ExitObserved(st).source = st.source
      /\ ExitObserved(st).pre_score = st.pre_score
      /\ ExitObserved(st).parent = st.parent
      /\ ExitObserved(st).last_result = st.last_result
      /\ ExitObserved(st).recommended_action = st.recommended_action
      /\ ExitObserved(st).rule_occurrences = st.rule_occurrences
      /\ ExitObserved(st).observed = st.observed
  BY DEF Consistent, ExitObserved, ExecutionState, Statuses
<1>2. st \in ExecutionState
  BY DEF Consistent
<1> QED
  BY <1>1, <1>2, GrowsReflexive DEF Consistent, Keeps, Grows

\* The state after an event that only updates last_seen.
LEMMA TouchConsistent ==
  ASSUME NEW st, Consistent(st), now \in Nat
  PROVE  Consistent(Touch(st)) /\ Keeps(st, Touch(st)) /\ Grows(st, Touch(st))
<1>1. /\ Touch(st) \in ExecutionState
      /\ Touch(st).generation = st.generation
      /\ Touch(st).source = st.source
      /\ Touch(st).pre_score = st.pre_score
      /\ Touch(st).parent = st.parent
      /\ Touch(st).last_result = st.last_result
      /\ Touch(st).recommended_action = st.recommended_action
      /\ Touch(st).rule_occurrences = st.rule_occurrences
      /\ Touch(st).observed = st.observed
  BY DEF Consistent, Touch, ExecutionState
<1>2. st \in ExecutionState
  BY DEF Consistent
<1> QED
  BY <1>1, <1>2, GrowsReflexive DEF Consistent, Keeps, Grows

\* What _new_state builds.
LEMMA NewStateSound ==
  ASSUME now \in Nat, generation \in [Pids -> Nat], NEW pid \in Pids,
         NEW source \in Sources, NEW status \in Statuses, NEW path \in Paths \cup {NoPath},
         NEW score \in 0..ScoreMaximum, NEW parent \in (Pids \cup {NoPid}) \X Nat,
         source = "RUNTIME_ONLY" => score = 0
  PROVE  LET st == NewState(pid, source, status, path, score, parent) IN
         /\ Sound(st)
         /\ st.generation = generation[pid] + 1
         /\ st.parent = parent
         /\ st.rule_occurrences["CHILD_PROCESS_EXEC"] = 0
<1> DEFINE st == [generation         |-> generation[pid] + 1,
                  source             |-> source,
                  status             |-> status,
                  executable_path    |-> path,
                  pre_score          |-> score,
                  rule_occurrences   |-> [r \in Rules |-> 0],
                  observed           |-> [r \in ObservedRules |-> {}],
                  runtime_score      |-> 0,
                  combined_score     |-> score,
                  recommended_action |-> "CONTINUE_MONITORING",
                  parent             |-> parent,
                  created            |-> now,
                  last_seen          |-> now,
                  exec_ts            |-> 0,
                  exited             |-> -1,
                  last_result        |-> NoResult]
<1>1. st \in ExecutionState
  BY DEF ExecutionState, Actions, Results, NoResult, Evidence, ScoreMaximum
<1>2. \A r \in ObservedRules :
        /\ IsFiniteSet(st.observed[r])
        /\ st.rule_occurrences[r] = Lesser(MaxOccurrences[r], Cardinality(st.observed[r]))
  BY FS_EmptySet, PolicyAssumption DEF Lesser, Rules
<1>3. Consistent(st)
  BY <1>1, <1>2 DEF Consistent, NoResult
<1>4. NewState(pid, source, status, path, score, parent) = Recalculate(st)
  BY DEF NewState
<1>5. /\ st.generation = generation[pid] + 1
      /\ st.parent = parent
      /\ st.rule_occurrences["CHILD_PROCESS_EXEC"] = 0
  BY DEF Rules
<1> HIDE DEF st
<1> QED
  BY <1>1, <1>3, <1>4, <1>5, RecalculateSound, RecalculateFields

\* What _runtime_state builds for a PID without a state, linked to its parent.
LEMMA RuntimeOnlyStateSound ==
  ASSUME now \in Nat, generation \in [Pids -> Nat], NEW pid \in Pids,
         NEW s \in [Pids -> ExecutionState \cup {NoState}],
         NEW ppid \in Pids \cup {NoPid}, NEW kind
  PROVE  LET st == RuntimeOnlyState(s, pid, ppid, kind) IN
         /\ Consistent(st)
         /\ st.generation = generation[pid] + 1
         /\ st.parent = ParentLink(s, ppid)
         /\ st.rule_occurrences["CHILD_PROCESS_EXEC"] > 0 => st.parent[1] # NoPid
<1> DEFINE parent == ParentLink(s, ppid)
           st == NewState(pid, "RUNTIME_ONLY", "ACTIVE", NoPath, 0, parent)
<1>1. parent \in (Pids \cup {NoPid}) \X Nat
  BY DEF ParentLink, Live, ExecutionState
<1>2. /\ Sound(st)
      /\ st.generation = generation[pid] + 1
      /\ st.parent = parent
      /\ st.rule_occurrences["CHILD_PROCESS_EXEC"] = 0
  <2>1. "RUNTIME_ONLY" \in Sources /\ "ACTIVE" \in Statuses /\ 0 \in 0..ScoreMaximum
    BY DEF Sources, Statuses, ScoreMaximum
  <2> HIDE DEF parent
  <2> QED
    BY <1>1, <2>1, NewStateSound
<1>3. "CHILD_PROCESS_EXEC" \in Rules \ ObservedRules
  BY DEF Rules, ObservedRules
<1>4. RuntimeOnlyState(s, pid, ppid, kind)
        = IF parent[1] # NoPid /\ kind = "PROCESS_EXEC"
          THEN ApplyRule(st, "CHILD_PROCESS_EXEC") ELSE st
  BY DEF RuntimeOnlyState
<1> HIDE DEF st, parent
<1>5. /\ Consistent(ApplyRule(st, "CHILD_PROCESS_EXEC"))
      /\ ApplyRule(st, "CHILD_PROCESS_EXEC").generation = st.generation
      /\ ApplyRule(st, "CHILD_PROCESS_EXEC").parent = st.parent
  BY <1>2, <1>3, ApplyUnkeyedRule DEF Sound
<1> QED
  BY <1>2, <1>4, <1>5 DEF Sound, parent

\* A runtime-only state after the late binding of a pre-execution record.
LEMMA LateBoundSound ==
  ASSUME now \in Nat, NEW st, Consistent(st), st.source = "RUNTIME_ONLY",
         NEW score \in 0..ScoreMaximum, NEW final, NEW path \in Paths \cup {NoPath}
  PROVE  /\ Sound(LateBound(st, score, final, path))
         /\ Grows(st, LateBound(st, score, final, path))
         /\ st.pre_score <= LateBound(st, score, final, path).pre_score
<1> DEFINE t == [st EXCEPT
             !.source = "FANOTIFY_LATE_BOUND",
             !.executable_path = IF path = NoPath THEN @ ELSE path,
             !.pre_score = score,
             !.last_seen = now,
             !.status = IF final = "DENY" THEN "DENIED_PRE_EXECUTION" ELSE @]
<1>1. st \in ExecutionState
  BY DEF Consistent
<1>2. /\ t \in ExecutionState
      /\ t.generation = st.generation
      /\ t.source = "FANOTIFY_LATE_BOUND"
      /\ t.pre_score = score
      /\ t.parent = st.parent
      /\ t.last_result = st.last_result
      /\ t.recommended_action = st.recommended_action
      /\ t.rule_occurrences = st.rule_occurrences
      /\ t.observed = st.observed
  BY <1>1 DEF ExecutionState, Statuses, Sources
<1>3. LateBound(st, score, final, path) = Recalculate(t)
  BY DEF LateBound
<1> HIDE DEF t
<1>4. Consistent(t)
  BY <1>2 DEF Consistent
<1>5. Grows(st, t)
  BY <1>1, <1>2 DEF Grows, ExecutionState, Actions, ActionRank
<1>6. Sound(Recalculate(t)) /\ Grows(t, Recalculate(t)) /\ Keeps(t, Recalculate(t))
  BY <1>4, RecalculateSound
<1>7. Grows(st, Recalculate(t))
  BY <1>1, <1>2, <1>5, <1>6, GrowsTransitive DEF Sound, Consistent
<1>8. st.pre_score <= score
  BY DEF Consistent, ScoreMaximum
<1> QED
  BY <1>2, <1>3, <1>6, <1>7, <1>8 DEF Keeps
-----------------------------------------------------------------------------
(* One step of the engine.                                                 *)

AllSound == \A p \in Live(states) : Sound(states[p])

\* What a step does to a PID: its execution stays, it ends, or another begins.
Stays(p) ==
  /\ states'[p] \in ExecutionState
  /\ Sound(states'[p])
  /\ Grows(states[p], states'[p])
  /\ \/ Keeps(states[p], states'[p])
     \/ states[p].source = "RUNTIME_ONLY" /\ states[p].pre_score <= states'[p].pre_score
  /\ generation'[p] = generation[p]

Ends(p) == states'[p] = NoState /\ generation'[p] = generation[p]

ParentOf(p, st) ==
  \/ st.parent = <<NoPid, 0>>
  \/ \E q \in Live(states) \ {p} : st.parent = <<q, states[q].generation>>

Begins(p) ==
  /\ states'[p] \in ExecutionState
  /\ Sound(states'[p])
  /\ generation'[p] = generation[p] + 1
  /\ states'[p].generation = generation[p] + 1
  /\ ParentOf(p, states'[p])
  /\ states'[p].rule_occurrences["CHILD_PROCESS_EXEC"] > 0 => states'[p].parent[1] # NoPid

\* The executions in Gone leave the table and are archived, each for one reason.
Accounting(Gone, why) ==
  /\ archived' = archived \cup {ArchiveEntry(p, states[p], why[p]) : p \in Gone}
  /\ \A p \in Pids :
       /\ p \in Live(states) \ Gone => Stays(p)
       /\ p \in Gone => Ends(p) \/ Begins(p)
       /\ p \notin Live(states) => Ends(p) \/ Begins(p)

StepShape ==
  /\ \E Gone \in SUBSET Live(states) : \E why \in [Gone -> Reasons] : Accounting(Gone, why)
  /\ Cardinality(Live(states')) <= MaxStates
  /\ states' \in [Pids -> ExecutionState \cup {NoState}]
  /\ generation' \in [Pids -> Nat]
  /\ now' \in Nat

StepInv == TypeOK /\ AllSound /\ TableBounded

Expired == {p \in Pids : IsExpired(states[p])}

\* _expire only removes live states.
LEMMA ExpireFacts ==
  ASSUME TypeOK
  PROVE  /\ Expired \subseteq Live(states)
         /\ \A p \in Expired : ExpiryReason(states[p]) \in Reasons
         /\ Expire(states) \in [Pids -> ExecutionState \cup {NoState}]
         /\ \A p \in Expired : Expire(states)[p] = NoState
         /\ \A p \in Pids \ Expired : Expire(states)[p] = states[p]
         /\ Live(Expire(states)) = Live(states) \ Expired
         /\ ExpiredEntries(states)
              = {ArchiveEntry(p, states[p], ExpiryReason(states[p])) : p \in Expired}
<1>1. Expired \subseteq Live(states)
  BY DEF Expired, IsExpired, Live
<1>2. \A p \in Expired : ExpiryReason(states[p]) \in Reasons
  BY DEF Expired, IsExpired, ExpiryReason, Reasons
<1>3. /\ Expire(states) \in [Pids -> ExecutionState \cup {NoState}]
      /\ \A p \in Expired : Expire(states)[p] = NoState
      /\ \A p \in Pids \ Expired : Expire(states)[p] = states[p]
  BY DEF TypeOK, Expire, Expired
<1>4. Live(Expire(states)) = Live(states) \ Expired
  BY <1>1, <1>3 DEF Live
<1> QED
  BY <1>1, <1>2, <1>3, <1>4 DEF ExpiredEntries, Expired

\* Finitely many PIDs are live, because there are finitely many.
LEMMA LiveFinite ==
  ASSUME NEW s
  PROVE  /\ IsFiniteSet(Live(s))
         /\ Cardinality(Live(s)) \in Nat
BY PidsAssumption, FS_Subset, FS_CardinalityType DEF Live

\* A step that replaces the state of one live PID after expiry.
LEMMA UpdateStep ==
  ASSUME StepInv, NEW pid \in Live(states) \ Expired, NEW new,
         Sound(new), Grows(states[pid], new),
         \/ Keeps(states[pid], new)
         \/ states[pid].source = "RUNTIME_ONLY" /\ states[pid].pre_score <= new.pre_score,
         states' = [Expire(states) EXCEPT ![pid] = new],
         archived' = archived \cup ExpiredEntries(states),
         generation' = generation, now' = now
  PROVE  StepShape
<1> DEFINE why == [p \in Expired |-> ExpiryReason(states[p])]
<1> USE ExpireFacts DEF StepInv
<1>1. pid \in Pids /\ new \in ExecutionState
  BY DEF Live, Sound, Consistent
<1>2. /\ states' \in [Pids -> ExecutionState \cup {NoState}]
      /\ states'[pid] = new
      /\ \A p \in Expired : states'[p] = NoState
      /\ \A p \in Pids \ (Expired \cup {pid}) : states'[p] = states[p]
  BY <1>1
<1>3. why \in [Expired -> Reasons] /\ Expired \in SUBSET Live(states)
  OBVIOUS
<1>4. \A p \in Live(states) : Grows(states[p], states[p]) /\ Keeps(states[p], states[p])
  BY GrowsReflexive DEF TypeOK, Live
<1>5. Accounting(Expired, why)
  <2>1. archived' = archived \cup {ArchiveEntry(p, states[p], why[p]) : p \in Expired}
    OBVIOUS
  <2>2. \A p \in Live(states) \ Expired : Stays(p)
    BY <1>1, <1>2, <1>4 DEF Stays, AllSound, Live, Sound, Consistent
  <2>3. \A p \in Expired : Ends(p)
    BY <1>2 DEF Ends
  <2>4. \A p \in Pids \ Live(states) : Ends(p)
    BY <1>2 DEF Ends, Live
  <2> QED
    BY <2>1, <2>2, <2>3, <2>4 DEF Accounting
<1>6. Cardinality(Live(states')) <= MaxStates
  <2>1. Live(states') \subseteq Live(states)
    BY <1>2 DEF Live
  <2>2. Cardinality(Live(states')) <= Cardinality(Live(states))
    BY <2>1, LiveFinite, FS_Subset
  <2> QED
    BY <2>2, LiveFinite, PolicyAssumption DEF TableBounded
<1> QED
  BY <1>2, <1>3, <1>5, <1>6 DEF StepShape, TypeOK

\* A step that gives one PID a new execution after expiry, superseding its live
\* one, if any, and evicting a victim if the table is full.
LEMMA CreateStep ==
  ASSUME StepInv, NEW pid \in Pids, NEW new, NEW reason \in Reasons, NEW victim,
         NEW t, t = [Expire(states) EXCEPT ![pid] = NoState],
         \/ victim \notin Pids /\ Cardinality(Live(t)) < MaxStates
         \/ victim \in Live(t),
         Sound(new), new.generation = generation[pid] + 1, ParentOf(pid, new),
         new.rule_occurrences["CHILD_PROCESS_EXEC"] > 0 => new.parent[1] # NoPid,
         states' = [Evict(t, victim) EXCEPT ![pid] = new],
         archived' = archived \cup ExpiredEntries(states)
           \cup {ArchiveEntry(p, Expire(states)[p], reason) : p \in Live(Expire(states)) \cap {pid}}
           \cup EvictedEntries(t, victim),
         generation' = [generation EXCEPT ![pid] = @ + 1], now' = now
  PROVE  StepShape
<1> DEFINE Superseded == Live(Expire(states)) \cap {pid}
           Evicted == Pids \cap {victim}
           eviction == "MAX_STATES_EVICTION"
           Gone == Expired \cup Superseded \cup Evicted
           why == [p \in Gone |-> IF p \in Expired THEN ExpiryReason(states[p])
                                  ELSE IF p = pid THEN reason ELSE eviction]
<1> USE ExpireFacts DEF StepInv
<1>0. /\ EvictedEntries(t, victim) = {ArchiveEntry(p, t[p], eviction) : p \in Evicted}
      /\ eviction \in Reasons
  BY DEF EvictedEntries, Reasons
<1> HIDE DEF eviction
<1>1. new \in ExecutionState
  BY DEF Sound, Consistent
<1>2. /\ t \in [Pids -> ExecutionState \cup {NoState}]
      /\ t[pid] = NoState
      /\ \A p \in Pids \ {pid} : t[p] = Expire(states)[p]
      /\ Live(t) = Live(states) \ (Expired \cup {pid})
  <2>1. /\ t \in [Pids -> ExecutionState \cup {NoState}]
        /\ t[pid] = NoState
        /\ \A p \in Pids \ {pid} : t[p] = Expire(states)[p]
    OBVIOUS
  <2>2. Live(t) = Live(Expire(states)) \ {pid}
    BY <2>1 DEF Live
  <2> QED
    BY <2>1, <2>2
<1>3. Evicted \subseteq Live(t)
  OBVIOUS
<1>4. /\ states' \in [Pids -> ExecutionState \cup {NoState}]
      /\ states'[pid] = new
      /\ \A p \in Evicted : states'[p] = NoState
      /\ \A p \in Pids \ (Evicted \cup {pid}) : states'[p] = t[p]
  BY <1>1, <1>2, <1>3 DEF Evict
<1>5. Gone \in SUBSET Live(states)
  BY <1>2, <1>3
<1>6. why \in [Gone -> Reasons]
  BY <1>0
<1>7. Begins(pid)
  BY <1>1, <1>4 DEF Begins, TypeOK
<1>reasons.
      /\ \A p \in Expired : why[p] = ExpiryReason(states[p])
      /\ \A p \in Superseded : why[p] = reason /\ Expire(states)[p] = states[p]
      /\ \A p \in Evicted : why[p] = eviction /\ t[p] = states[p]
  BY <1>2, <1>3 DEF Live
<1>entries. archived' = archived \cup {ArchiveEntry(p, states[p], why[p]) : p \in Gone}
  <2> HIDE DEF why
  <2>1. ExpiredEntries(states) = {ArchiveEntry(p, states[p], why[p]) : p \in Expired}
    BY <1>reasons
  <2>2. {ArchiveEntry(p, Expire(states)[p], reason) : p \in Superseded}
          = {ArchiveEntry(p, states[p], why[p]) : p \in Superseded}
    <3> HIDE DEF Superseded
    <3> QED
      BY <1>reasons
  <2>3. EvictedEntries(t, victim) = {ArchiveEntry(p, states[p], why[p]) : p \in Evicted}
    <3> HIDE DEF Evicted
    <3>1. \A p \in Evicted :
            ArchiveEntry(p, t[p], eviction) = ArchiveEntry(p, states[p], why[p])
      BY <1>reasons
    <3> QED
      BY ONLY <1>0, <3>1
  <2>4. archived' = archived
          \cup {ArchiveEntry(p, states[p], why[p]) : p \in Expired}
          \cup {ArchiveEntry(p, states[p], why[p]) : p \in Superseded}
          \cup {ArchiveEntry(p, states[p], why[p]) : p \in Evicted}
    BY <2>1, <2>2, <2>3
  <2> HIDE DEF Superseded, Evicted
  <2>5. Gone = Expired \cup Superseded \cup Evicted
    OBVIOUS
  <2> QED
    BY ONLY <2>4, <2>5, Zenon
<1>8. Accounting(Gone, why)
  <2>2. \A p \in Live(states) \ Gone : Stays(p)
    <3>1. \A p \in Live(states) \ Gone : p # pid /\ states'[p] = states[p]
      BY <1>2, <1>4 DEF Live
    <3>2. \A p \in Live(states) :
            Grows(states[p], states[p]) /\ Keeps(states[p], states[p])
      BY GrowsReflexive DEF TypeOK, Live
    <3> QED
      BY <3>1, <3>2 DEF Stays, AllSound, Live, TypeOK
  <2>3. \A p \in Pids \ {pid} : generation'[p] = generation[p]
    BY DEF TypeOK
  <2>4. \A p \in Pids \ {pid} : p \in Gone => Ends(p)
    <3>1. \A p \in Pids \ {pid} : p \in Expired => t[p] = NoState
      BY <1>2
    <3>2. \A p \in Pids \ {pid} : p \in Gone => states'[p] = NoState
      BY <1>4, <3>1
    <3> QED
      BY <2>3, <3>2 DEF Ends
  <2>5. \A p \in Pids \ {pid} : p \notin Live(states) => Ends(p)
    <3>1. \A p \in Pids \ {pid} : p \notin Live(states) => t[p] = NoState
      BY <1>2 DEF Live
    <3>2. \A p \in Pids \ {pid} : p \notin Live(states) => states'[p] = NoState
      BY <1>4, <3>1
    <3> QED
      BY <2>3, <3>2 DEF Ends
  <2> HIDE DEF Gone, why
  <2> QED
    BY <1>7, <1>entries, <2>2, <2>4, <2>5 DEF Accounting, Live
<1>9. Cardinality(Live(states')) <= MaxStates
  <2>1. Live(states') = (Live(t) \ Evicted) \cup {pid}
    <3>1. \A p \in Pids : states'[p] # NoState
                           <=> p = pid \/ (p \notin Evicted /\ t[p] # NoState)
      BY <1>1, <1>4, InputAssumption
    <3> QED
      BY <3>1 DEF Live
  <2>2. IsFiniteSet(Live(t)) /\ Cardinality(Live(t)) \in Nat
    BY LiveFinite
  <2>3. pid \notin Live(t)
    BY <1>2
  <2>4. CASE victim \notin Pids /\ Cardinality(Live(t)) < MaxStates
    <3>1. Live(states') = Live(t) \cup {pid}
      BY <2>1, <2>4
    <3>2. Cardinality(Live(t) \cup {pid}) = Cardinality(Live(t)) + 1
      BY <2>2, <2>3, FS_AddElement
    <3> QED
      BY ONLY <2>2, <2>4, <3>1, <3>2, PolicyAssumption
  <2>5. CASE victim \in Live(t)
    <3>1. Live(states') = (Live(t) \ {victim}) \cup {pid}
      BY <2>1, <2>5 DEF Live
    <3>2. /\ IsFiniteSet(Live(t) \ {victim})
          /\ Cardinality(Live(t) \ {victim}) = Cardinality(Live(t)) - 1
      BY <2>2, <2>5, FS_RemoveElement
    <3>3. Cardinality(Live(states')) = Cardinality(Live(t) \ {victim}) + 1
      BY <2>3, <3>1, <3>2, FS_AddElement
    <3>4. Cardinality(Live(t)) <= Cardinality(Live(states))
      BY <1>2, LiveFinite, FS_Subset
    <3> QED
      BY <2>2, <3>2, <3>3, <3>4, LiveFinite, PolicyAssumption DEF TableBounded
  <2> QED
    BY <2>4, <2>5
<1>10. generation' \in [Pids -> Nat] /\ now' \in Nat
  BY DEF TypeOK
<1> HIDE DEF Gone, why
<1> QED
  BY <1>4, <1>5, <1>6, <1>8, <1>9, <1>10 DEF StepShape

\* The closing _recalculate of an event handler, for a PID with a live state.
LEMMA IngestExistingStep ==
  ASSUME StepInv, NEW pid \in Pids, NEW handled,
         Expire(states)[pid] # NoState,
         Consistent(handled), Grows(Touch(states[pid]), handled), Keeps(Touch(states[pid]), handled),
         states' = [Expire(states) EXCEPT ![pid] = Recalculate(handled)],
         archived' = archived \cup ExpiredEntries(states),
         generation' = generation, now' = now
  PROVE  StepShape
<1> DEFINE st == states[pid]
           new == Recalculate(handled)
<1>1. pid \in Live(states) \ Expired /\ Consistent(st) /\ now \in Nat
  BY ExpireFacts DEF StepInv, Live, AllSound, Sound, TypeOK
<1>2. Consistent(Touch(st)) /\ Keeps(st, Touch(st)) /\ Grows(st, Touch(st))
  BY <1>1, TouchConsistent
<1>3. Sound(new) /\ Grows(handled, new) /\ Keeps(handled, new)
  BY RecalculateSound
<1>4. /\ st \in ExecutionState /\ Touch(st) \in ExecutionState
      /\ handled \in ExecutionState /\ new \in ExecutionState
  BY <1>1, <1>2, <1>3 DEF Consistent, Sound
<1> HIDE DEF st, new
<1>5. Grows(st, handled)
  BY <1>2, <1>4, GrowsTransitive DEF st
<1>6. Grows(st, new)
  BY <1>3, <1>4, <1>5, GrowsTransitive
<1>7. Keeps(st, new)
  BY <1>2, <1>3 DEF Keeps, st
<1> QED
  BY <1>1, <1>3, <1>6, <1>7, UpdateStep DEF st, new

\* The parent link of a state created by an event.
LEMMA ParentLinkReal ==
  ASSUME StepInv, NEW pid \in Pids, NEW ppid \in (Pids \cup {NoPid}) \ {pid},
         NEW s, s = Expire(states) \/ s = [Expire(states) EXCEPT ![pid] = NoState]
  PROVE  ParentLink(s, ppid) \in
           {<<NoPid, 0>>} \cup {<<q, states[q].generation>> : q \in Live(states) \ {pid}}
<1>1. ppid \in Live(s) => ppid \in Live(states) \ Expired /\ s[ppid] = states[ppid]
  BY ExpireFacts DEF StepInv, Live
<1> QED
  BY <1>1 DEF ParentLink

\* The same, for a PID that gets a new execution, superseding a live one if any.
LEMMA IngestCreatingStep ==
  ASSUME StepInv, NEW pid \in Pids, NEW ppid \in (Pids \cup {NoPid}) \ {pid}, NEW kind,
         NEW handled, NEW reason \in Reasons, NEW victim,
         NEW t, t = [Expire(states) EXCEPT ![pid] = NoState],
         \/ victim \notin Pids /\ Cardinality(Live(t)) < MaxStates
         \/ victim \in Live(t),
         Consistent(handled), Grows(RuntimeOnlyState(t, pid, ppid, kind), handled),
         states' = [Evict(t, victim) EXCEPT ![pid] = Recalculate(handled)],
         archived' = archived \cup ExpiredEntries(states)
           \cup {ArchiveEntry(p, Expire(states)[p], reason) : p \in Live(Expire(states)) \cap {pid}}
           \cup EvictedEntries(t, victim),
         generation' = [generation EXCEPT ![pid] = @ + 1], now' = now
  PROVE  StepShape
<1> DEFINE st == RuntimeOnlyState(t, pid, ppid, kind)
           new == Recalculate(handled)
<1>1. /\ t \in [Pids -> ExecutionState \cup {NoState}]
      /\ now \in Nat /\ generation \in [Pids -> Nat]
      /\ pid \in Pids /\ ppid \in Pids \cup {NoPid}
  BY ExpireFacts DEF StepInv, TypeOK
<1>2. /\ Consistent(st)
      /\ st.generation = generation[pid] + 1
      /\ st.parent = ParentLink(t, ppid)
      /\ st.rule_occurrences["CHILD_PROCESS_EXEC"] > 0 => st.parent[1] # NoPid
  BY ONLY <1>1, RuntimeOnlyStateSound
<1>3. ParentLink(t, ppid) \in
        {<<NoPid, 0>>} \cup {<<q, states[q].generation>> : q \in Live(states) \ {pid}}
  BY ONLY StepInv, pid \in Pids, ppid \in (Pids \cup {NoPid}) \ {pid},
          t = [Expire(states) EXCEPT ![pid] = NoState], ParentLinkReal
<1>4. Sound(new) /\ Grows(handled, new)
  BY RecalculateSound
<1>5. Grows(st, new)
  BY <1>2, <1>4, GrowsTransitive DEF Consistent, Sound
<1> HIDE DEF st, new
<1>6. /\ new.generation = generation[pid] + 1
      /\ ParentOf(pid, new)
      /\ new.rule_occurrences["CHILD_PROCESS_EXEC"] > 0 => new.parent[1] # NoPid
  BY <1>2, <1>3, <1>5 DEF Grows, ParentOf
<1>7. states' = [Evict(t, victim) EXCEPT ![pid] = new]
  BY ONLY states' = [Evict(t, victim) EXCEPT ![pid] = Recalculate(handled)] DEF new
<1>8. Sound(new)
  BY <1>4
<1> QED
  BY ONLY <1>6, <1>7, <1>8, StepInv, pid \in Pids, reason \in Reasons,
          t = [Expire(states) EXCEPT ![pid] = NoState],
          \/ victim \notin Pids /\ Cardinality(Live(t)) < MaxStates
          \/ victim \in Live(t),
          archived' = archived \cup ExpiredEntries(states)
            \cup {ArchiveEntry(p, Expire(states)[p], reason) : p \in Live(Expire(states)) \cap {pid}}
            \cup EvictedEntries(t, victim),
          generation' = [generation EXCEPT ![pid] = @ + 1], now' = now,
          CreateStep

\* Eviction leaves room for the state that is about to be created.
LEMMA VictimsMakeRoom ==
  ASSUME StepInv, NEW s, NEW victim \in Victims(s)
  PROVE  \/ victim \notin Pids /\ Cardinality(Live(s)) < MaxStates
         \/ victim \in Live(s)
BY InputAssumption DEF Victims

\* A PID without a live state is its own table with that state removed.
LEMMA NothingSuperseded ==
  ASSUME StepInv, NEW pid \in Pids, Expire(states)[pid] = NoState
  PROVE  /\ [Expire(states) EXCEPT ![pid] = NoState] = Expire(states)
         /\ \A r : {ArchiveEntry(p, Expire(states)[p], r) :
                      p \in Live(Expire(states)) \cap {pid}} = {}
<1>1. pid \notin Live(Expire(states))
  BY DEF Live
<1> QED
  BY <1>1, ExpireFacts DEF StepInv

\* register_pre_execution.
LEMMA RegisterStep ==
  ASSUME StepInv, NEW pid \in Pids, RegisterPreExecution(pid)
  PROVE  StepShape
<1>1. PICK score \in PreScores, final \in {"ALLOW", "DENY"}, path \in Paths \cup {NoPath} :
        \/ RegisterLateBinding(pid, score, final, path)
        \/ RegisterNewState(pid, score, final, path)
  BY DEF RegisterPreExecution
<1>2. score \in 0..ScoreMaximum /\ now \in Nat /\ generation \in [Pids -> Nat]
  BY InputAssumption DEF StepInv, TypeOK
<1>3. CASE RegisterLateBinding(pid, score, final, path)
  <2> DEFINE new == LateBound(states[pid], score, final, path)
  <2>1. /\ LateBindable(Expire(states)[pid])
        /\ states' = [Expire(states) EXCEPT ![pid] = LateBound(Expire(states)[pid], score, final, path)]
        /\ archived' = archived \cup ExpiredEntries(states)
        /\ generation' = generation /\ now' = now
    BY <1>3, ExpireFacts DEF RegisterLateBinding, StepInv
  <2>2. pid \in Live(states) \ Expired /\ Expire(states)[pid] = states[pid]
    BY <2>1, ExpireFacts DEF LateBindable, StepInv, Live
  <2>3. states[pid].source = "RUNTIME_ONLY" /\ Consistent(states[pid])
    BY <2>1, <2>2 DEF LateBindable, StepInv, AllSound, Sound
  <2>4. /\ Sound(new) /\ Grows(states[pid], new)
        /\ states[pid].pre_score <= new.pre_score
    BY <1>2, <2>3, LateBoundSound
  <2>5. states' = [Expire(states) EXCEPT ![pid] = new]
    BY <2>1, <2>2
  <2> HIDE DEF new
  <2> QED
    BY <2>1, <2>2, <2>3, <2>4, <2>5, UpdateStep
<1>4. CASE RegisterNewState(pid, score, final, path)
  <2> DEFINE t == [Expire(states) EXCEPT ![pid] = NoState]
             status == IF final = "DENY" THEN "DENIED_PRE_EXECUTION" ELSE "PENDING_EXEC"
             new == NewState(pid, "FANOTIFY", status, path, score, <<NoPid, 0>>)
  <2>1. PICK victim \in Victims(t) :
          /\ states' = [Evict(t, victim) EXCEPT ![pid] = new]
          /\ archived' = archived \cup ExpiredEntries(states)
               \cup {ArchiveEntry(p, Expire(states)[p], "SUPERSEDED_BY_NEW_PRE_EXECUTION") :
                       p \in Live(Expire(states)) \cap {pid}}
               \cup EvictedEntries(t, victim)
          /\ generation' = [generation EXCEPT ![pid] = @ + 1]
          /\ now' = now
    BY <1>4 DEF RegisterNewState, BumpGeneration
  <2>2. "FANOTIFY" \in Sources /\ status \in Statuses /\ <<NoPid, 0>> \in (Pids \cup {NoPid}) \X Nat
    BY DEF Sources, Statuses
  <2>3. /\ Sound(new)
        /\ new.generation = generation[pid] + 1
        /\ new.parent = <<NoPid, 0>>
        /\ new.rule_occurrences["CHILD_PROCESS_EXEC"] = 0
    BY <1>2, <2>2, NewStateSound
  <2>4. ParentOf(pid, new)
    BY <2>3 DEF ParentOf
  <2>5. "SUPERSEDED_BY_NEW_PRE_EXECUTION" \in Reasons
    BY DEF Reasons
  <2>6. new.rule_occurrences["CHILD_PROCESS_EXEC"] > 0 => new.parent[1] # NoPid
    BY <2>3
  <2>7. \/ victim \notin Pids /\ Cardinality(Live(t)) < MaxStates
        \/ victim \in Live(t)
    BY VictimsMakeRoom
  <2>8. t = [Expire(states) EXCEPT ![pid] = NoState]
    OBVIOUS
  <2> HIDE DEF new, t
  <2> QED
    BY <2>1, <2>3, <2>4, <2>5, <2>6, <2>7, <2>8, CreateStep
<1> QED
  BY <1>1, <1>3, <1>4

\* The same, when the PID had no live state: nothing is superseded.
LEMMA IngestFreshStep ==
  ASSUME StepInv, NEW pid \in Pids, NEW ppid \in (Pids \cup {NoPid}) \ {pid}, NEW kind,
         NEW handled, NEW victim \in Victims(Expire(states)),
         Expire(states)[pid] = NoState,
         Consistent(handled),
         Grows(RuntimeOnlyState(Expire(states), pid, ppid, kind), handled),
         states' = [Evict(Expire(states), victim) EXCEPT ![pid] = Recalculate(handled)],
         archived' = archived \cup ExpiredEntries(states)
                              \cup EvictedEntries(Expire(states), victim),
         generation' = [generation EXCEPT ![pid] = @ + 1], now' = now
  PROVE  StepShape
<1> DEFINE s == Expire(states)
<1>1. PICK reason \in Reasons : TRUE
  BY DEF Reasons
<1>2. s = [Expire(states) EXCEPT ![pid] = NoState]
  BY NothingSuperseded
<1>3. archived' = archived \cup ExpiredEntries(states)
        \cup {ArchiveEntry(p, Expire(states)[p], reason) : p \in Live(Expire(states)) \cap {pid}}
        \cup EvictedEntries(s, victim)
  <2>1. {ArchiveEntry(p, Expire(states)[p], reason) : p \in Live(Expire(states)) \cap {pid}} = {}
    BY NothingSuperseded
  <2> QED
    BY <2>1
<1>4. \/ victim \notin Pids /\ Cardinality(Live(s)) < MaxStates
      \/ victim \in Live(s)
  BY VictimsMakeRoom
<1>5. /\ Grows(RuntimeOnlyState(s, pid, ppid, kind), handled)
      /\ states' = [Evict(s, victim) EXCEPT ![pid] = Recalculate(handled)]
  OBVIOUS
<1> HIDE DEF s
<1> QED
  BY ONLY StepInv, pid \in Pids, ppid \in (Pids \cup {NoPid}) \ {pid}, Consistent(handled),
          generation' = [generation EXCEPT ![pid] = @ + 1], now' = now,
          reason \in Reasons, <1>2, <1>3, <1>4, <1>5, IngestCreatingStep

\* The states an event handler starts from are consistent.
LEMMA HandledStates ==
  ASSUME StepInv, NEW pid \in Pids, NEW ppid \in (Pids \cup {NoPid}) \ {pid}, NEW kind
  PROVE  /\ Expire(states)[pid] # NoState =>
              Expire(states)[pid] = states[pid] /\ Consistent(Touch(states[pid]))
         /\ Consistent(RuntimeOnlyState(Expire(states), pid, ppid, kind))
         /\ Consistent(RuntimeOnlyState([Expire(states) EXCEPT ![pid] = NoState], pid, ppid, kind))
<1>1. /\ now \in Nat /\ generation \in [Pids -> Nat] /\ ppid \in Pids \cup {NoPid}
      /\ Expire(states) \in [Pids -> ExecutionState \cup {NoState}]
      /\ [Expire(states) EXCEPT ![pid] = NoState] \in [Pids -> ExecutionState \cup {NoState}]
  BY ExpireFacts DEF StepInv, TypeOK
<1>2. Expire(states)[pid] # NoState =>
        Expire(states)[pid] = states[pid] /\ Consistent(states[pid])
  BY ExpireFacts DEF StepInv, AllSound, Live, Sound
<1>3. Expire(states)[pid] # NoState => Consistent(Touch(states[pid]))
  BY <1>1, <1>2, TouchConsistent
<1> QED
  BY ONLY <1>1, <1>2, <1>3, pid \in Pids, RuntimeOnlyStateSound

\* A first PROCESS_EXEC event.
LEMMA IngestExecStep ==
  ASSUME StepInv, NEW pid \in Pids, NEW ppid \in (Pids \cup {NoPid}) \ {pid},
         NEW ts \in Timestamps, NEW identifier, IngestExec(pid, ppid, ts, identifier)
  PROVE  StepShape
<1> DEFINE Handled(st) == ExecObserved(st, ts, identifier)
<1>1. CASE IngestExisting(pid, Handled)
  <2> DEFINE st == Touch(states[pid])
  <2>1. /\ Expire(states)[pid] # NoState
        /\ states' = [Expire(states) EXCEPT ![pid] =
                        Recalculate(Handled(Touch(Expire(states)[pid])))]
        /\ archived' = archived \cup ExpiredEntries(states)
        /\ generation' = generation /\ now' = now
    BY <1>1, ExpireFacts DEF IngestExisting, StepInv
  <2>2. Expire(states)[pid] = states[pid] /\ Consistent(st)
    BY <2>1, HandledStates
  <2>3. Consistent(Handled(st)) /\ Keeps(st, Handled(st)) /\ Grows(st, Handled(st))
    BY <2>2, ExecObservedConsistent
  <2>4. states' = [Expire(states) EXCEPT ![pid] = Recalculate(Handled(st))]
    BY <2>1, <2>2
  <2> HIDE DEF Handled
  <2> QED
    BY <2>1, <2>3, <2>4, IngestExistingStep
<1>2. CASE IngestCreating(pid, ppid, "PROCESS_EXEC", Handled)
  <2> DEFINE kind == "PROCESS_EXEC"
             st == RuntimeOnlyState(Expire(states), pid, ppid, kind)
  <2>1. PICK victim \in Victims(Expire(states)) :
          /\ Expire(states)[pid] = NoState
          /\ states' = [Evict(Expire(states), victim) EXCEPT ![pid] = Recalculate(Handled(st))]
          /\ archived' = archived \cup ExpiredEntries(states)
                                  \cup EvictedEntries(Expire(states), victim)
          /\ generation' = [generation EXCEPT ![pid] = @ + 1]
          /\ now' = now
    BY <1>2 DEF IngestCreating, BumpGeneration
  <2> HIDE DEF kind
  <2>2. Consistent(st)
    BY HandledStates
  <2>3. Consistent(Handled(st)) /\ Grows(st, Handled(st))
    BY <2>2, ExecObservedConsistent
  <2> HIDE DEF Handled
  <2> QED
    BY <2>1, <2>3, IngestFreshStep
<1> QED
  BY <1>1, <1>2 DEF IngestExec

\* An event that carries evidence.
LEMMA IngestEvidenceStep ==
  ASSUME StepInv, NEW pid \in Pids, NEW ppid \in (Pids \cup {NoPid}) \ {pid},
         NEW rule \in ObservedRules, NEW key \in Evidence,
         IngestEvidence(pid, ppid, rule, key)
  PROVE  StepShape
<1> DEFINE Handled(st) == EvidenceObserved(st, rule, key)
<1>1. CASE IngestExisting(pid, Handled)
  <2> DEFINE st == Touch(states[pid])
  <2>1. /\ Expire(states)[pid] # NoState
        /\ states' = [Expire(states) EXCEPT ![pid] =
                        Recalculate(Handled(Touch(Expire(states)[pid])))]
        /\ archived' = archived \cup ExpiredEntries(states)
        /\ generation' = generation /\ now' = now
    BY <1>1, ExpireFacts DEF IngestExisting, StepInv
  <2>2. Expire(states)[pid] = states[pid] /\ Consistent(st)
    BY <2>1, HandledStates
  <2>3. Consistent(Handled(st)) /\ Keeps(st, Handled(st)) /\ Grows(st, Handled(st))
    BY <2>2, EvidenceObservedConsistent
  <2>4. states' = [Expire(states) EXCEPT ![pid] = Recalculate(Handled(st))]
    BY <2>1, <2>2
  <2> HIDE DEF Handled
  <2> QED
    BY <2>1, <2>3, <2>4, IngestExistingStep
<1>2. CASE IngestCreating(pid, ppid, "EVIDENCE", Handled)
  <2> DEFINE kind == "EVIDENCE"
             st == RuntimeOnlyState(Expire(states), pid, ppid, kind)
  <2>1. PICK victim \in Victims(Expire(states)) :
          /\ Expire(states)[pid] = NoState
          /\ states' = [Evict(Expire(states), victim) EXCEPT ![pid] = Recalculate(Handled(st))]
          /\ archived' = archived \cup ExpiredEntries(states)
                                  \cup EvictedEntries(Expire(states), victim)
          /\ generation' = [generation EXCEPT ![pid] = @ + 1]
          /\ now' = now
    BY <1>2 DEF IngestCreating, BumpGeneration
  <2> HIDE DEF kind
  <2>2. Consistent(st)
    BY HandledStates
  <2>3. Consistent(Handled(st)) /\ Grows(st, Handled(st))
    BY <2>2, EvidenceObservedConsistent
  <2> HIDE DEF Handled
  <2> QED
    BY <2>1, <2>3, IngestFreshStep
<1> QED
  BY <1>1, <1>2 DEF IngestEvidence

\* A PROCESS_EXIT event.
LEMMA IngestExitStep ==
  ASSUME StepInv, NEW pid \in Pids, NEW ppid \in (Pids \cup {NoPid}) \ {pid},
         IngestExit(pid, ppid)
  PROVE  StepShape
<1>0. now \in Nat
  BY DEF StepInv, TypeOK
<1>1. CASE IngestExisting(pid, ExitObserved)
  <2> DEFINE st == Touch(states[pid])
  <2>1. /\ Expire(states)[pid] # NoState
        /\ states' = [Expire(states) EXCEPT ![pid] =
                        Recalculate(ExitObserved(Touch(Expire(states)[pid])))]
        /\ archived' = archived \cup ExpiredEntries(states)
        /\ generation' = generation /\ now' = now
    BY <1>1, ExpireFacts DEF IngestExisting, StepInv
  <2>2. Expire(states)[pid] = states[pid] /\ Consistent(st)
    BY <2>1, HandledStates
  <2>3. /\ Consistent(ExitObserved(st))
        /\ Keeps(st, ExitObserved(st)) /\ Grows(st, ExitObserved(st))
    BY <1>0, <2>2, ExitObservedConsistent
  <2>4. states' = [Expire(states) EXCEPT ![pid] = Recalculate(ExitObserved(st))]
    BY <2>1, <2>2
  <2> QED
    BY <2>1, <2>3, <2>4, IngestExistingStep
<1>2. CASE IngestCreating(pid, ppid, "PROCESS_EXIT", ExitObserved)
  <2> DEFINE kind == "PROCESS_EXIT"
             st == RuntimeOnlyState(Expire(states), pid, ppid, kind)
  <2>1. PICK victim \in Victims(Expire(states)) :
          /\ Expire(states)[pid] = NoState
          /\ states' = [Evict(Expire(states), victim) EXCEPT ![pid] = Recalculate(ExitObserved(st))]
          /\ archived' = archived \cup ExpiredEntries(states)
                                  \cup EvictedEntries(Expire(states), victim)
          /\ generation' = [generation EXCEPT ![pid] = @ + 1]
          /\ now' = now
    BY <1>2 DEF IngestCreating, BumpGeneration
  <2> HIDE DEF kind
  <2>2. Consistent(st)
    BY HandledStates
  <2>3. Consistent(ExitObserved(st)) /\ Grows(st, ExitObserved(st))
    BY <1>0, <2>2, ExitObservedConsistent
  <2> QED
    BY <2>1, <2>3, IngestFreshStep
<1> QED
  BY <1>1, <1>2 DEF IngestExit

\* A second exec in a PID, which begins a new generation.
LEMMA IngestSecondExecStep ==
  ASSUME StepInv, NEW pid \in Pids, NEW ppid \in (Pids \cup {NoPid}) \ {pid},
         NEW ts \in Timestamps, NEW identifier, IngestSecondExec(pid, ppid, ts, identifier)
  PROVE  StepShape
<1> DEFINE t == [Expire(states) EXCEPT ![pid] = NoState]
           kind == "PROCESS_EXEC"
           reason == "PID_EXEC_GENERATION_REPLACED"
           st == RuntimeOnlyState(t, pid, ppid, kind)
           handled == ExecObserved(st, ts, identifier)
<1>1. /\ Expire(states)[pid] # NoState
      /\ states' = [t EXCEPT ![pid] = Recalculate(handled)]
      /\ archived' = archived \cup ExpiredEntries(states)
                       \cup {ArchiveEntry(pid, Expire(states)[pid], reason)}
      /\ generation' = [generation EXCEPT ![pid] = @ + 1]
      /\ now' = now
  BY DEF IngestSecondExec, IsSecondExec, BumpGeneration
<1>2. reason \in Reasons
  BY DEF Reasons
<1> HIDE DEF kind, reason
<1>3. Consistent(st)
  BY HandledStates
<1>4. Consistent(handled) /\ Grows(st, handled)
  BY <1>3, ExecObservedConsistent
<1>5. /\ pid \in Live(states) \ Expired
      /\ Live(t) = Live(states) \ (Expired \cup {pid})
      /\ t \in [Pids -> ExecutionState \cup {NoState}]
  <2>1. /\ pid \in Live(states) \ Expired
        /\ t \in [Pids -> ExecutionState \cup {NoState}]
        /\ Live(Expire(states)) = Live(states) \ Expired
    BY <1>1, ExpireFacts DEF StepInv, Live
  <2>2. Live(t) = Live(Expire(states)) \ {pid}
    BY ExpireFacts DEF StepInv, Live
  <2> QED
    BY <2>1, <2>2
<1>6. Cardinality(Live(t)) < MaxStates
  <2>1. Cardinality(Live(states) \ {pid}) = Cardinality(Live(states)) - 1
    BY <1>5, LiveFinite, FS_RemoveElement
  <2>2. IsFiniteSet(Live(states) \ {pid})
    BY <1>5, LiveFinite, FS_RemoveElement
  <2>3. Cardinality(Live(t)) <= Cardinality(Live(states) \ {pid})
    <3>1. Live(t) \subseteq Live(states) \ {pid}
      BY <1>5
    <3> QED
      BY ONLY <2>2, <3>1, FS_Subset
  <2>4. Cardinality(Live(states)) <= MaxStates
    BY DEF StepInv, TableBounded
  <2> HIDE DEF t
  <2>5. Cardinality(Live(t)) \in Nat /\ Cardinality(Live(states)) \in Nat
    BY LiveFinite
  <2> QED
    BY ONLY <2>1, <2>3, <2>4, <2>5, PolicyAssumption
<1>7. /\ Evict(t, NoPid) = t
      /\ EvictedEntries(t, NoPid) = {}
      /\ NoPid \notin Pids
  <2>1. NoPid \notin Pids
    BY InputAssumption
  <2>2. \A p \in Pids : p # NoPid
    BY <2>1
  <2>3. EvictedEntries(t, NoPid) = {}
    <3>1. Pids \cap {NoPid} = {}
      BY <2>1
    <3> QED
      BY <3>1 DEF EvictedEntries
  <2>4. Evict(t, NoPid) = [p \in Pids |-> t[p]]
    BY <2>2 DEF Evict
  <2> HIDE DEF t
  <2> QED
    BY <1>5, <2>1, <2>3, <2>4
<1>8. Live(Expire(states)) \cap {pid} = {pid}
  BY <1>1 DEF Live
<1>9. archived' = archived \cup ExpiredEntries(states)
        \cup {ArchiveEntry(p, Expire(states)[p], reason) : p \in Live(Expire(states)) \cap {pid}}
        \cup EvictedEntries(t, NoPid)
  <2>1. {ArchiveEntry(p, Expire(states)[p], reason) : p \in {pid}}
          = {ArchiveEntry(pid, Expire(states)[pid], reason)}
    OBVIOUS
  <2> HIDE DEF t
  <2> QED
    BY <1>1, <1>7, <1>8, <2>1
<1>10. /\ Grows(RuntimeOnlyState(t, pid, ppid, kind), handled)
       /\ states' = [Evict(t, NoPid) EXCEPT ![pid] = Recalculate(handled)]
       /\ t = [Expire(states) EXCEPT ![pid] = NoState]
  BY <1>1, <1>4, <1>7
<1>11. /\ generation' = [generation EXCEPT ![pid] = @ + 1] /\ now' = now
       /\ Consistent(handled)
       /\ NoPid \notin Pids /\ Cardinality(Live(t)) < MaxStates
  BY <1>1, <1>4, <1>6, <1>7
<1> HIDE DEF t, handled
<1> QED
  BY ONLY StepInv, pid \in Pids, ppid \in (Pids \cup {NoPid}) \ {pid},
          <1>2, <1>9, <1>10, <1>11, IngestCreatingStep

\* A step that ends no execution and begins none.
LEMMA QuietStep ==
  ASSUME StepInv, states' \in [Pids -> ExecutionState \cup {NoState}],
         \A p \in Live(states) : Stays(p),
         \A p \in Pids \ Live(states) : states'[p] = NoState,
         archived' = archived, generation' = generation, now' \in Nat
  PROVE  StepShape
<1> DEFINE why == [p \in {} |-> "none"]
<1>1. why \in [{} -> Reasons] /\ {} \in SUBSET Live(states)
  OBVIOUS
<1>2. Accounting({}, why)
  <2>1. {ArchiveEntry(p, states[p], why[p]) : p \in {}} = {}
    OBVIOUS
  <2> QED
    BY <2>1 DEF Accounting, Ends
<1>3. Live(states') \subseteq Live(states)
  BY DEF Live
<1>4. Cardinality(Live(states')) <= Cardinality(Live(states))
  BY <1>3, LiveFinite, FS_Subset
<1>5. Cardinality(Live(states')) <= MaxStates
  BY <1>4, LiveFinite, PolicyAssumption DEF TableBounded, StepInv
<1>6. generation' \in [Pids -> Nat]
  BY DEF StepInv, TypeOK
<1> HIDE DEF why
<1> QED
  BY <1>1, <1>2, <1>5, <1>6 DEF StepShape

\* A step of the clock.
LEMMA UnchangedStep ==
  ASSUME StepInv, UNCHANGED <<states, archived, generation>>, now' \in Nat
  PROVE  StepShape
<1>1. \A p \in Live(states) : Stays(p)
  BY GrowsReflexive DEF StepInv, Stays, AllSound, TypeOK, Live
<1>2. \A p \in Pids \ Live(states) : states'[p] = NoState
  BY DEF Live
<1> QED
  BY <1>1, <1>2, QuietStep DEF StepInv, TypeOK

\* record_action_result, refused or attached.
LEMMA RecordActionResultStep ==
  ASSUME StepInv, NEW pid \in Pids, NEW gen \in 1..MaxGeneration,
         NEW status \in ResultStatuses, RecordActionResult(pid, gen, status)
  PROVE  StepShape
<1> DEFINE st == states[pid]
           new == [st EXCEPT !.last_result = [generation |-> gen, status |-> status],
                             !.last_seen = now]
<1>1. /\ st # NoState
      /\ st.generation = gen
      /\ states' = [states EXCEPT ![pid] = new]
      /\ archived' = archived /\ generation' = generation /\ now' = now
  BY DEF RecordActionResult, StepInv, TypeOK
<1>2. Sound(st) /\ st \in ExecutionState /\ now \in Nat
  BY <1>1 DEF StepInv, AllSound, TypeOK, Live
<1>3. /\ new \in ExecutionState
      /\ new.generation = st.generation
      /\ new.source = st.source
      /\ new.status = st.status
      /\ new.pre_score = st.pre_score
      /\ new.parent = st.parent
      /\ new.last_result.generation = gen
      /\ new.recommended_action = st.recommended_action
      /\ new.rule_occurrences = st.rule_occurrences
      /\ new.observed = st.observed
      /\ new.runtime_score = st.runtime_score
      /\ new.combined_score = st.combined_score
  BY <1>1, <1>2 DEF ExecutionState, Results
<1> HIDE DEF st, new
<1>4. Sound(new) /\ Grows(st, new) /\ Keeps(st, new)
  BY <1>1, <1>2, <1>3, GrowsReflexive
  DEF Sound, Consistent, VerdictExplained, Grows, Keeps
<1>5. /\ states' \in [Pids -> ExecutionState \cup {NoState}]
      /\ states'[pid] = new
      /\ \A p \in Pids \ {pid} : states'[p] = states[p]
  BY <1>1, <1>3 DEF StepInv, TypeOK
<1>6. \A p \in Live(states) : Stays(p)
  <2>1. Stays(pid)
    BY <1>1, <1>3, <1>4, <1>5 DEF Stays, st
  <2>2. \A p \in Live(states) \ {pid} : Stays(p)
    BY <1>1, <1>5, GrowsReflexive DEF StepInv, Stays, AllSound, TypeOK, Live
  <2> QED
    BY <2>1, <2>2
<1>7. \A p \in Pids \ Live(states) : states'[p] = NoState
  BY <1>1, <1>5 DEF Live, st
<1> QED
  BY <1>1, <1>2, <1>5, <1>6, <1>7, QuietStep

\* expire().
LEMMA ExpireStep ==
  ASSUME StepInv, ExpireStates
  PROVE  StepShape
<1> DEFINE why == [p \in Expired |-> ExpiryReason(states[p])]
<1>1. /\ states' = Expire(states)
      /\ archived' = archived \cup ExpiredEntries(states)
      /\ generation' = generation /\ now' = now
      /\ TypeOK /\ AllSound /\ TableBounded
  BY DEF ExpireStates, StepInv
<1>2. why \in [Expired -> Reasons] /\ Expired \in SUBSET Live(states)
  BY <1>1, ExpireFacts
<1>3. Accounting(Expired, why)
  <2>1. archived' = archived \cup {ArchiveEntry(p, states[p], why[p]) : p \in Expired}
    BY <1>1, ExpireFacts
  <2>2. \A p \in Live(states) \ Expired : Stays(p)
    BY <1>1, ExpireFacts, GrowsReflexive DEF Stays, AllSound, TypeOK, Live
  <2>3. \A p \in Expired : Ends(p)
    BY <1>1, ExpireFacts DEF Ends
  <2>4. \A p \in Pids \ Live(states) : Ends(p)
    BY <1>1, ExpireFacts DEF Ends, Live
  <2> HIDE DEF why
  <2> QED
    BY <2>1, <2>2, <2>3, <2>4 DEF Accounting
<1>4. Cardinality(Live(states')) <= MaxStates
  <2>1. Live(states') \subseteq Live(states)
    BY <1>1, ExpireFacts
  <2>2. Cardinality(Live(states')) <= Cardinality(Live(states))
    BY <2>1, LiveFinite, FS_Subset
  <2> QED
    BY <1>1, <2>2, LiveFinite, PolicyAssumption DEF TableBounded
<1>5. /\ states' \in [Pids -> ExecutionState \cup {NoState}]
      /\ generation' \in [Pids -> Nat] /\ now' \in Nat
  BY <1>1, ExpireFacts DEF TypeOK
<1> HIDE DEF why
<1> QED
  BY <1>2, <1>3, <1>4, <1>5 DEF StepShape

\* Every step of the engine has the shape.
LEMMA NextStep ==
  ASSUME StepInv, [Next]_vars
  PROVE  StepShape
<1>1. ASSUME NEW pid \in Pids, RegisterPreExecution(pid) PROVE StepShape
  BY <1>1, RegisterStep
<1>2. ASSUME NEW pid \in Pids, IngestRuntimeEvent(pid) PROVE StepShape
  BY <1>2, IngestExecStep, IngestSecondExecStep, IngestEvidenceStep, IngestExitStep
  DEF IngestRuntimeEvent
<1>3. ASSUME NEW pid \in Pids, NEW gen \in 1..MaxGeneration, NEW status \in ResultStatuses,
             RecordActionResult(pid, gen, status)
      PROVE  StepShape
  BY <1>3, RecordActionResultStep
<1>4. CASE ExpireStates
  BY <1>4, ExpireStep
<1>5. CASE Tick
  BY <1>5, UnchangedStep DEF Tick, StepInv, TypeOK
<1>6. CASE UNCHANGED vars
  BY <1>6, UnchangedStep DEF vars, StepInv, TypeOK
<1> QED
  BY <1>1, <1>2, <1>3, <1>4, <1>5, <1>6 DEF Next
-----------------------------------------------------------------------------
(* The inductive invariant.                                                *)

CorrelationInv == StepInv /\ GenerationsAccountedFor /\ ParentLinksReal

\* The engine starts in CorrelationInv.
LEMMA InitInv == Init => CorrelationInv
<1> SUFFICES ASSUME Init PROVE CorrelationInv
  OBVIOUS
<1>1. TypeOK
  BY DEF Init, TypeOK
<1>2. Live(states) = {}
  BY DEF Init, Live
<1>3. AllSound /\ ParentLinksReal
  BY <1>2 DEF AllSound, ParentLinksReal
<1>4. TableBounded
  BY <1>2, FS_EmptySet, PolicyAssumption DEF TableBounded
<1>5. GenerationsAccountedFor
  <2>1. \A p \in Pids : ArchivedGenerations(p) = {} /\ LiveGenerations(p) = {}
    BY <1>2 DEF Init, ArchivedGenerations, LiveGenerations
  <2>2. \A p \in Pids : 1..generation[p] = {}
    BY DEF Init
  <2> QED
    BY <2>1, <2>2 DEF Init, GenerationsAccountedFor
<1> QED
  BY <1>1, <1>3, <1>4, <1>5 DEF CorrelationInv, StepInv

\* A live generation is one the PID was given.
LEMMA LiveGenerationBounded ==
  ASSUME CorrelationInv, NEW p \in Live(states)
  PROVE  states[p].generation \in 1..generation[p]
<1>1. p \in Pids /\ states[p].generation \in LiveGenerations(p)
  BY DEF Live, LiveGenerations
<1> QED
  BY <1>1 DEF CorrelationInv, GenerationsAccountedFor

\* Every step shape keeps live states consistent and the table bounded.
LEMMA StepInvPreserved ==
  ASSUME CorrelationInv, StepShape
  PROVE  StepInv'
<1>1. PICK Gone \in SUBSET Live(states) : \E why \in [Gone -> Reasons] : Accounting(Gone, why)
  BY DEF StepShape
<1>2. PICK why \in [Gone -> Reasons] : Accounting(Gone, why)
  BY <1>1
<1>3. \A p \in Gone : /\ p \in Pids
                      /\ states[p].generation \in Nat
                      /\ why[p] \in Reasons
  BY DEF CorrelationInv, StepInv, TypeOK, Live, ExecutionState
<1>4. {ArchiveEntry(p, states[p], why[p]) : p \in Gone}
        \subseteq [pid : Pids, generation : Nat, reason : Reasons]
  BY <1>3 DEF ArchiveEntry
<1>5. TypeOK'
  BY <1>2, <1>4 DEF StepShape, Accounting, CorrelationInv, StepInv, TypeOK
<1>6. \A p \in Live(states') : Sound(states'[p])
  BY <1>2 DEF Accounting, Stays, Ends, Begins, Live
<1>7. AllSound' /\ TableBounded'
  BY <1>6 DEF AllSound, TableBounded, StepShape
<1> QED
  BY <1>5, <1>7 DEF StepInv

\* Every step shape keeps each generation live or archived exactly once.
LEMMA GenerationsPreserved ==
  ASSUME CorrelationInv, StepShape
  PROVE  GenerationsAccountedFor'
<1>1. PICK Gone \in SUBSET Live(states) : \E why \in [Gone -> Reasons] : Accounting(Gone, why)
  BY DEF StepShape
<1>2. PICK why \in [Gone -> Reasons] : Accounting(Gone, why)
  BY <1>1
<1> DEFINE New == {ArchiveEntry(p, states[p], why[p]) : p \in Gone}
<1>3. archived' = archived \cup New
  BY <1>2 DEF Accounting
<1>4. \A e \in New : /\ e.pid \in Gone
                     /\ e = ArchiveEntry(e.pid, states[e.pid], why[e.pid])
                     /\ e.generation = states[e.pid].generation
  BY DEF ArchiveEntry
<1>5. \A p \in Gone : \E e \in New : e.pid = p /\ e.generation = states[p].generation
  <2> TAKE p \in Gone
  <2>1. ArchiveEntry(p, states[p], why[p]) \in New
    OBVIOUS
  <2>2. /\ ArchiveEntry(p, states[p], why[p]).pid = p
        /\ ArchiveEntry(p, states[p], why[p]).generation = states[p].generation
    BY DEF ArchiveEntry
  <2> HIDE DEF New
  <2> QED
    BY <2>1, <2>2
<1> HIDE DEF New
<1>6. \A p \in Pids : ArchivedGenerations(p)'
         = ArchivedGenerations(p) \cup (IF p \in Gone THEN {states[p].generation} ELSE {})
  <2> TAKE p \in Pids
  <2>1. ArchivedGenerations(p)'
          = ArchivedGenerations(p) \cup {e.generation : e \in {x \in New : x.pid = p}}
    BY <1>3 DEF ArchivedGenerations
  <2>2. {e.generation : e \in {x \in New : x.pid = p}}
          = (IF p \in Gone THEN {states[p].generation} ELSE {})
    <3>1. CASE p \in Gone
      BY <1>4, <1>5, <3>1
    <3>2. CASE p \notin Gone
      BY <1>4, <3>2
    <3> QED
      BY <3>1, <3>2
  <2> QED
    BY <2>1, <2>2
<1>7. \A p \in Pids : LiveGenerations(p)
         = IF p \in Live(states) THEN {states[p].generation} ELSE {}
  BY DEF LiveGenerations
<1>8. \A p \in Pids : LiveGenerations(p)'
         = IF p \in Live(states') THEN {states'[p].generation} ELSE {}
  BY DEF LiveGenerations
<1>9. ASSUME NEW p \in Pids
      PROVE  /\ ArchivedGenerations(p)' \cup LiveGenerations(p)' = 1..generation'[p]
             /\ ArchivedGenerations(p)' \cap LiveGenerations(p)' = {}
  <2>0. /\ ArchivedGenerations(p) \cup LiveGenerations(p) = 1..generation[p]
        /\ ArchivedGenerations(p) \cap LiveGenerations(p) = {}
        /\ generation[p] \in Nat
    BY DEF CorrelationInv, GenerationsAccountedFor, StepInv, TypeOK
  <2>n. NoState \notin ExecutionState
    BY InputAssumption
  <2>1. CASE p \in Live(states) \ Gone
    <3>1. /\ p \in Live(states')
          /\ states'[p].generation = states[p].generation
          /\ generation'[p] = generation[p]
      BY <1>2, <2>1, <2>n DEF Accounting, Stays, Grows, Live
    <3>2. /\ LiveGenerations(p)' = LiveGenerations(p)
          /\ ArchivedGenerations(p)' = ArchivedGenerations(p)
      BY <1>6, <1>7, <1>8, <2>1, <3>1
    <3> QED
      BY <2>0, <3>1, <3>2
  <2>2. CASE p \notin Live(states) \ Gone
    <3>1. ArchivedGenerations(p)' = 1..generation[p]
      <4>1. ArchivedGenerations(p)' = ArchivedGenerations(p) \cup LiveGenerations(p)
        BY <1>6, <1>7, <2>2
      <4> QED
        BY <2>0, <4>1
    <3>2. Ends(p) \/ Begins(p)
      BY <1>2, <2>2 DEF Accounting
    <3>3. CASE Ends(p)
      <4>1. p \notin Live(states') /\ generation'[p] = generation[p]
        BY <3>3 DEF Ends, Live
      <4> QED
        BY <1>8, <3>1, <4>1
    <3>4. CASE Begins(p)
      <4>1. /\ p \in Live(states')
            /\ states'[p].generation = generation[p] + 1
            /\ generation'[p] = generation[p] + 1
        BY <2>n, <3>4 DEF Begins, Live
      <4>2. LiveGenerations(p)' = {generation[p] + 1}
        BY <1>8, <4>1
      <4> QED
        BY <2>0, <3>1, <4>1, <4>2
    <3> QED
      BY <3>2, <3>3, <3>4
  <2> QED
    BY <2>1, <2>2
<1>10. \A e, f \in archived' : e.pid = f.pid /\ e.generation = f.generation => e = f
  <2> SUFFICES ASSUME NEW e \in archived', NEW f \in archived',
                      e.pid = f.pid, e.generation = f.generation
               PROVE  e = f
    OBVIOUS
  <2>1. \A x \in archived, y \in New : ~(x.pid = y.pid /\ x.generation = y.generation)
    <3> SUFFICES ASSUME NEW x \in archived, NEW y \in New,
                        x.pid = y.pid, x.generation = y.generation
                 PROVE  FALSE
      OBVIOUS
    <3>1. y.pid \in Gone /\ y.pid \in Pids /\ y.generation = states[y.pid].generation
      BY <1>4 DEF Live
    <3>2. x.generation \in ArchivedGenerations(y.pid)
      BY DEF ArchivedGenerations
    <3>3. y.generation \in LiveGenerations(y.pid)
      BY <1>7, <3>1
    <3>4. ArchivedGenerations(y.pid) \cap LiveGenerations(y.pid) = {}
      BY <3>1 DEF CorrelationInv, GenerationsAccountedFor
    <3> QED
      BY <3>2, <3>3, <3>4
  <2>2. CASE e \in archived /\ f \in archived
    BY <2>2 DEF CorrelationInv, GenerationsAccountedFor
  <2>3. CASE e \in New /\ f \in New
    BY <1>4, <2>3
  <2> QED
    BY <1>3, <2>1, <2>2, <2>3
<1> QED
  BY <1>9, <1>10 DEF GenerationsAccountedFor

\* Every step shape keeps parent links to generations that existed.
LEMMA ParentLinksPreserved ==
  ASSUME CorrelationInv, StepShape
  PROVE  ParentLinksReal'
<1>1. PICK Gone \in SUBSET Live(states) : \E why \in [Gone -> Reasons] : Accounting(Gone, why)
  BY DEF StepShape
<1>2. PICK why \in [Gone -> Reasons] : Accounting(Gone, why)
  BY <1>1
<1>3. \A q \in Pids : /\ generation[q] \in Nat /\ generation'[q] \in Nat
                      /\ generation[q] <= generation'[q]
  BY <1>2 DEF Accounting, Stays, Ends, Begins, CorrelationInv, StepInv, TypeOK
<1> SUFFICES ASSUME NEW p \in Live(states')
             PROVE  /\ states'[p].parent[1] # NoPid =>
                         /\ states'[p].parent[1] # p
                         /\ states'[p].parent[2] \in 1..generation'[states'[p].parent[1]]
                    /\ states'[p].rule_occurrences["CHILD_PROCESS_EXEC"] > 0 =>
                         states'[p].parent[1] # NoPid
  BY DEF ParentLinksReal
<1>4. p \in Pids /\ states'[p] # NoState
  BY DEF Live
<1>5. CASE p \in Live(states) \ Gone
  <2>1. /\ states'[p].parent = states[p].parent
        /\ states'[p].rule_occurrences["CHILD_PROCESS_EXEC"]
             = states[p].rule_occurrences["CHILD_PROCESS_EXEC"]
    BY <1>2, <1>4, <1>5 DEF Accounting, Stays, Grows
  <2>2. /\ states[p].parent[1] # NoPid =>
             /\ states[p].parent[1] # p
             /\ states[p].parent[2] \in 1..generation[states[p].parent[1]]
        /\ states[p].rule_occurrences["CHILD_PROCESS_EXEC"] > 0 =>
             states[p].parent[1] # NoPid
    BY <1>5 DEF CorrelationInv, ParentLinksReal
  <2>3. states[p].parent[1] \in Pids \cup {NoPid} /\ states[p].parent[2] \in Nat
    BY <1>4, <1>5 DEF CorrelationInv, StepInv, TypeOK, Live, ExecutionState
  <2>4. states[p].parent[1] # NoPid =>
          states[p].parent[2] \in 1..generation'[states[p].parent[1]]
    BY <1>3, <2>2, <2>3
  <2> QED
    BY <2>1, <2>2, <2>4
<1>6. CASE p \notin Live(states) \ Gone
  <2>1. Begins(p)
    BY <1>2, <1>4, <1>6 DEF Accounting, Ends
  <2>2. CASE states'[p].parent = <<NoPid, 0>>
    BY <2>1, <2>2 DEF Begins
  <2>3. CASE \E q \in Live(states) \ {p} : states'[p].parent = <<q, states[q].generation>>
    <3>1. PICK q \in Live(states) \ {p} : states'[p].parent = <<q, states[q].generation>>
      BY <2>3
    <3>2. states[q].generation \in 1..generation[q] /\ q \in Pids
      BY LiveGenerationBounded DEF Live
    <3>3. states[q].generation \in 1..generation'[q]
      BY <1>3, <3>2
    <3> QED
      BY <2>1, <3>1, <3>3 DEF Begins
  <2> QED
    BY <2>1, <2>2, <2>3 DEF Begins, ParentOf
<1> QED
  BY <1>5, <1>6

\* CorrelationInv is inductive.
LEMMA NextInv ==
  ASSUME CorrelationInv, [Next]_vars
  PROVE  CorrelationInv'
<1>1. StepShape
  BY NextStep DEF CorrelationInv
<1> QED
  BY <1>1, StepInvPreserved, GenerationsPreserved, ParentLinksPreserved DEF CorrelationInv

\* CorrelationInv implies the invariants the runs check.
LEMMA InvImplies ==
  ASSUME CorrelationInv
  PROVE  VerdictIsCurrent /\ EvidenceCountedOnce /\ ResultsMatchExecution
BY DEF CorrelationInv, StepInv, AllSound, Sound, Consistent,
       VerdictIsCurrent, EvidenceCountedOnce, ResultsMatchExecution

\* A step that keeps the execution of a PID only lets it grow.
LEMMA SameExecutionStays ==
  ASSUME CorrelationInv, [Next]_vars, NEW p \in Pids, SameExecution(p)
  PROVE  Stays(p) /\ p \in Live(states)
<1>1. PICK Gone \in SUBSET Live(states) : \E why \in [Gone -> Reasons] : Accounting(Gone, why)
  BY NextStep DEF StepShape, CorrelationInv
<1>2. PICK why \in [Gone -> Reasons] : Accounting(Gone, why)
  BY <1>1
<1>3. p \in Live(states) /\ states'[p] # NoState
  BY DEF SameExecution, Live
<1>4. states[p].generation \in 1..generation[p] /\ generation[p] \in Nat
  BY <1>3, LiveGenerationBounded DEF CorrelationInv, StepInv, TypeOK
<1>5. ~Begins(p)
  BY <1>4 DEF Begins, SameExecution
<1> QED
  BY <1>2, <1>3, <1>5 DEF Accounting, Ends

\* Type correctness of the correlation engine.
THEOREM TypeCorrect == Spec => []TypeOK
<1>1. CorrelationInv => TypeOK
  BY DEF CorrelationInv, StepInv
<1> QED
  BY InitInv, NextInv, <1>1, PTL DEF Spec

\* The stored scores and recommendation are always what the counted evidence
\* calls for, for every policy, table size and set of inputs.
THEOREM VerdictCorrect == Spec => []VerdictIsCurrent
BY InitInv, NextInv, InvImplies, PTL DEF Spec

\* Each distinct key counts once, up to the cap of its rule.
THEOREM EvidenceCorrect == Spec => []EvidenceCountedOnce
BY InitInv, NextInv, InvImplies, PTL DEF Spec

\* A response result is only attached to the execution it was decided for.
THEOREM ResultsCorrect == Spec => []ResultsMatchExecution
BY InitInv, NextInv, InvImplies, PTL DEF Spec

\* The table never exceeds max_states.
THEOREM TableCorrect == Spec => []TableBounded
<1>1. CorrelationInv => TableBounded
  BY DEF CorrelationInv, StepInv
<1> QED
  BY InitInv, NextInv, <1>1, PTL DEF Spec

\* Every generation of every PID is live or archived, exactly once.
THEOREM AccountingCorrect == Spec => []GenerationsAccountedFor
<1>1. CorrelationInv => GenerationsAccountedFor
  BY DEF CorrelationInv
<1> QED
  BY InitInv, NextInv, <1>1, PTL DEF Spec

\* Parent links name real generations and justify the child execution rule.
THEOREM ParentLinksCorrect == Spec => []ParentLinksReal
<1>1. CorrelationInv => ParentLinksReal
  BY DEF CorrelationInv
<1> QED
  BY InitInv, NextInv, <1>1, PTL DEF Spec

\* Within one execution the verdict never weakens and the score never falls.
THEOREM VerdictMonotone == Spec => VerdictNeverWeakens
<1>1. ASSUME CorrelationInv, [Next]_vars, NEW p \in Pids, SameExecution(p)
      PROVE  /\ ActionRank[states'[p].recommended_action]
                  >= ActionRank[states[p].recommended_action]
             /\ states'[p].combined_score >= states[p].combined_score
  <2> DEFINE st == states[p]
             t == states'[p]
  <2>1. Stays(p) /\ p \in Live(states)
    BY <1>1, SameExecutionStays
  <2>2. Sound(st) /\ Sound(t) /\ Grows(st, t)
    BY <1>1, <2>1 DEF Stays, CorrelationInv, StepInv, AllSound
  <2>3. st \in ExecutionState /\ t \in ExecutionState
    BY <2>2 DEF Sound, Consistent
  <2>4. st.pre_score <= t.pre_score /\ st.pre_score \in Nat /\ t.pre_score \in Nat
    BY <2>1, <2>3 DEF Stays, Keeps, ExecutionState, ScoreMaximum
  <2> DEFINE u == IndicatorWeight(st.rule_occurrences)
             v == IndicatorWeight(t.rule_occurrences)
  <2>5. u <= v /\ u \in Nat /\ v \in Nat
    <3>1. /\ st.rule_occurrences \in [Rules -> Nat]
          /\ t.rule_occurrences \in [Rules -> Nat]
          /\ \A r \in Rules : st.rule_occurrences[r] <= t.rule_occurrences[r]
      BY <2>2, <2>3 DEF Grows, ExecutionState
    <3> QED
      BY ONLY <3>1, WeightIsNat, WeightIsMonotone
  <2>6. /\ st.combined_score = Lesser(ScoreMaximum, st.pre_score + Lesser(ScoreMaximum, u))
        /\ t.combined_score = Lesser(ScoreMaximum, t.pre_score + Lesser(ScoreMaximum, v))
    BY <2>2 DEF Sound, VerdictExplained
  <2> HIDE DEF st, t, u, v
  <2>7. t.combined_score >= st.combined_score
    BY <2>4, <2>5, <2>6 DEF Lesser, ScoreMaximum
  <2> QED
    BY <2>2, <2>7 DEF Grows, st, t
<1>2. CorrelationInv /\ [Next]_vars =>
        [\A p \in Pids : SameExecution(p) =>
           /\ ActionRank[states'[p].recommended_action]
                >= ActionRank[states[p].recommended_action]
           /\ states'[p].combined_score >= states[p].combined_score]_vars
  BY <1>1
<1> QED
  BY InitInv, NextInv, <1>2, PTL DEF Spec, VerdictNeverWeakens

\* A bound fanotify verdict is never overwritten within its execution.
THEOREM PreExecutionCorrect == Spec => PreExecutionBoundOnce
<1>1. CorrelationInv /\ [Next]_vars =>
        [\A p \in Pids : SameExecution(p) /\ states[p].source # "RUNTIME_ONLY" =>
           /\ states'[p].source = states[p].source
           /\ states'[p].pre_score = states[p].pre_score]_vars
  BY SameExecutionStays DEF Stays, Keeps
<1> QED
  BY InitInv, NextInv, <1>1, PTL DEF Spec, PreExecutionBoundOnce
=============================================================================
