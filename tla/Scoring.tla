------------------------------ MODULE Scoring ------------------------------
(***************************************************************************)
(* The pre-execution scoring engine (src/elyra/scoring/engine.py): a pure  *)
(* function of the status of a scan and of the rules its evidence          *)
(* triggers.  A policy is whatever ScoringPolicy.validate accepts; it need *)
(* not contain every rule the engine asks for.                             *)
(*                                                                         *)
(* A definition just before another of nearly the same name is a plausible *)
(* defect, used only to test that the properties notice it.                *)
(***************************************************************************)
EXTENDS Integers

Categories == {"entropy", "static", "context"}

EntropyRules == {"HIGH_WHOLE_FILE_ENTROPY", "HIGH_ENTROPY_BLOCK_RATIO"}
ElfRules     == {"WRITABLE_EXECUTABLE_SECTION", "WRITABLE_EXECUTABLE_SEGMENT",
                 "ELF_ENTRY_POINT_ZERO", "ELF_NO_SECTION_HEADERS"}
StaticRules  == {"MIME_EXTENSION_INCONSISTENT", "MALFORMED_ELF", "SUID_BIT_SET",
                 "SGID_BIT_SET", "WORLD_WRITABLE", "WORLD_WRITABLE_AND_EXECUTABLE"} \cup ElfRules
ContextRules == {"TEMPORARY_DIRECTORY", "DOWNLOAD_DIRECTORY", "REMOVABLE_OR_MOUNTED_MEDIA",
                 "HIDDEN_PATH_COMPONENT"}
EngineRules  == EntropyRules \cup StaticRules \cup ContextRules

CONSTANTS
  PolicyRules,     \* the rules the policy defines
  Category,        \* PolicyRules -> Categories
  Weight,          \* PolicyRules -> 0..100
  Cap,             \* category_caps
  AllowMonitorMin, WarnMin, DenyMin, DenyMinStatic   \* decision_thresholds

\* What ScoringPolicy.validate enforces.
ValidPolicy ==
  /\ Category \in [PolicyRules -> Categories]
  /\ Weight \in [PolicyRules -> 0..100]
  /\ Cap \in [Categories -> 0..100]
  /\ {AllowMonitorMin, WarnMin, DenyMin, DenyMinStatic} \subseteq Int
  /\ 0 < AllowMonitorMin /\ AllowMonitorMin < WarnMin /\ WarnMin < DenyMin /\ DenyMin <= 100
  /\ 0 <= DenyMinStatic /\ DenyMinStatic <= Cap["static"]

ASSUME PolicyAssumption == ValidPolicy

Lesser(a, b) == IF a <= b THEN a ELSE b

\* What a rule among the indicators ind adds to the raw score of category c.
Points(r, c, ind) == IF r \in ind /\ Category[r] = c THEN Weight[r] ELSE 0

RawEntropyRules(c, ind) ==
  Points("HIGH_WHOLE_FILE_ENTROPY", c, ind) + Points("HIGH_ENTROPY_BLOCK_RATIO", c, ind)

RawStaticRules(c, ind) ==
    Points("MIME_EXTENSION_INCONSISTENT", c, ind) + Points("MALFORMED_ELF", c, ind)
  + Points("WRITABLE_EXECUTABLE_SECTION", c, ind) + Points("WRITABLE_EXECUTABLE_SEGMENT", c, ind)
  + Points("ELF_ENTRY_POINT_ZERO", c, ind) + Points("ELF_NO_SECTION_HEADERS", c, ind)
  + Points("SUID_BIT_SET", c, ind) + Points("SGID_BIT_SET", c, ind)
  + Points("WORLD_WRITABLE_AND_EXECUTABLE", c, ind) + Points("WORLD_WRITABLE", c, ind)

RawContextRules(c, ind) ==
    Points("TEMPORARY_DIRECTORY", c, ind) + Points("DOWNLOAD_DIRECTORY", c, ind)
  + Points("REMOVABLE_OR_MOUNTED_MEDIA", c, ind) + Points("HIDDEN_PATH_COMPONENT", c, ind)

RawScore(c, ind) == RawEntropyRules(c, ind) + RawStaticRules(c, ind) + RawContextRules(c, ind)

CategoryScore(c, ind) == Lesser(RawScore(c, ind), Cap[c])

\* score_minimum is 0 and no addend is negative, so the lower clamp never acts.
Score(ind) ==
  Lesser(100, CategoryScore("entropy", ind) + CategoryScore("static", ind)
                                            + CategoryScore("context", ind))

\* Reads the gate off the raw sum of all evidence.
DecisionUngated(ind) ==
  CASE Score(ind) >= DenyMin /\ Score(ind) >= DenyMinStatic -> "DENY"
    [] Score(ind) >= WarnMin /\ Score(ind) < DenyMin -> "WARN"
    [] Score(ind) >= AllowMonitorMin /\ Score(ind) < WarnMin -> "ALLOW_MONITOR"
    [] OTHER -> "ALLOW"

\* Without enough static evidence a score above deny_min is only a warning.
Decision(ind) ==
  CASE Score(ind) >= DenyMin /\ CategoryScore("static", ind) >= DenyMinStatic -> "DENY"
    [] Score(ind) >= WarnMin /\ (Score(ind) < DenyMin \/ CategoryScore("static", ind) < DenyMinStatic) -> "WARN"
    [] Score(ind) >= AllowMonitorMin /\ Score(ind) < WarnMin -> "ALLOW_MONITOR"
    [] OTHER -> "ALLOW"

DecisionRank(d) == CASE d = "ALLOW" -> 0 [] d = "ALLOW_MONITOR" -> 1 [] d = "WARN" -> 2 [] OTHER -> 3

\* _indicator and _threshold raise when the policy lacks a rule they need; both
\* entropy thresholds are read by every scoring.
Raises(ind) == ~(ind \cup EntropyRules \subseteq PolicyRules)

\* The notes of a result that the properties and the GUI tell apart.
EntropyOnly(ind) == /\ CategoryScore("entropy", ind) > 0
                    /\ CategoryScore("static", ind) = 0 /\ CategoryScore("context", ind) = 0

Degraded == [score |-> 0, decision |-> "ALLOW_MONITOR", status |-> "DEGRADED", entropyOnly |-> FALSE]

ScoreOf(status, ind) ==
  IF status = "ERROR" \/ Raises(ind)
  THEN Degraded
  ELSE [score |-> Score(ind), decision |-> Decision(ind), status |-> "OK",
        entropyOnly |-> EntropyOnly(ind)]

\* _score_scan of the pre-execution adapter: an incomplete scan never denies.
ScoreScan(status, ind) ==
  LET result == ScoreOf(status, ind) IN
  IF status = "PARTIAL" /\ ~Raises(ind)
  THEN [result EXCEPT !.decision = "ALLOW_MONITOR", !.status = "INCONCLUSIVE"]
  ELSE result
=============================================================================
