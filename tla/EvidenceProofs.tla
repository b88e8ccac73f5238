-------------------------- MODULE EvidenceProofs --------------------------
(***************************************************************************)
(* Theorems about the evidence Elyra collects: the scoring engine and the  *)
(* verdicts of StaticAnalysis, for every policy that                       *)
(* ScoringPolicy.validate accepts, and the run-time records of Telemetry.  *)
(***************************************************************************)
EXTENDS StaticAnalysis, Telemetry, FiniteSetTheorems, SequenceTheorems, WellFoundedInduction, TLAPS

\* What one rule adds is a number, and more evidence never adds less.
LEMMA PointsType ==
  ASSUME NEW ind, ind \subseteq PolicyRules, NEW r, NEW c \in Categories
  PROVE  Points(r, c, ind) \in Nat
BY PolicyAssumption DEF Points, ValidPolicy

\* More evidence never lowers what a rule adds.
LEMMA PointsMonotone ==
  ASSUME NEW ind, ind \subseteq PolicyRules, NEW part, part \subseteq ind,
         NEW r, NEW c \in Categories
  PROVE  Points(r, c, part) <= Points(r, c, ind)
BY PolicyAssumption DEF Points, ValidPolicy

\* The raw score of a category is a number.
LEMMA RawType ==
  ASSUME NEW ind, ind \subseteq PolicyRules, NEW c \in Categories
  PROVE  RawScore(c, ind) \in Nat
<1>1. RawEntropyRules(c, ind) \in Nat
  BY PointsType DEF RawEntropyRules
<1>2. RawStaticRules(c, ind) \in Nat
  BY PointsType DEF RawStaticRules
<1>3. RawContextRules(c, ind) \in Nat
  BY PointsType DEF RawContextRules
<1> QED BY <1>1, <1>2, <1>3 DEF RawScore

\* The raw score of a category grows with the evidence.
LEMMA RawMonotone ==
  ASSUME NEW ind, ind \subseteq PolicyRules, NEW part, part \subseteq ind, NEW c \in Categories
  PROVE  RawScore(c, part) <= RawScore(c, ind)
<1>0. part \subseteq PolicyRules OBVIOUS
<1>1. RawEntropyRules(c, part) <= RawEntropyRules(c, ind)
  BY <1>0, PointsType, PointsMonotone DEF RawEntropyRules
<1>2. RawStaticRules(c, part) <= RawStaticRules(c, ind)
  BY <1>0, PointsType, PointsMonotone DEF RawStaticRules
<1>3. RawContextRules(c, part) <= RawContextRules(c, ind)
  BY <1>0, PointsType, PointsMonotone DEF RawContextRules
<1>4. \A i \in {part, ind} : /\ RawEntropyRules(c, i) \in Nat
                             /\ RawStaticRules(c, i) \in Nat
                             /\ RawContextRules(c, i) \in Nat
  BY <1>0, PointsType DEF RawEntropyRules, RawStaticRules, RawContextRules
<1> QED BY ONLY <1>1, <1>2, <1>3, <1>4 DEF RawScore

\* A category score is a number up to its cap and grows with the evidence.
LEMMA CategoryScores ==
  ASSUME NEW ind, ind \subseteq PolicyRules, NEW part, part \subseteq ind, NEW c \in Categories
  PROVE  /\ CategoryScore(c, ind) \in 0..Cap[c]
         /\ CategoryScore(c, part) \in 0..Cap[c]
         /\ CategoryScore(c, part) <= CategoryScore(c, ind)
<1>1. /\ RawScore(c, ind) \in Nat
      /\ RawScore(c, part) \in Nat
      /\ RawScore(c, part) <= RawScore(c, ind)
  BY RawType, RawMonotone
<1>2. Cap[c] \in Nat
  BY PolicyAssumption DEF ValidPolicy
<1> QED BY ONLY <1>1, <1>2 DEF CategoryScore, Lesser

\* The score is always in 0..100 and grows with the evidence: _decision never sees
\* a number the thresholds do not cover.
THEOREM ScoreInRange ==
  ASSUME NEW ind, ind \subseteq PolicyRules, NEW part, part \subseteq ind
  PROVE  Score(ind) \in 0..100 /\ Score(part) \in 0..100 /\ Score(part) <= Score(ind)
<1>1. /\ CategoryScore("entropy", ind) \in Nat
      /\ CategoryScore("entropy", part) \in Nat
      /\ CategoryScore("entropy", part) <= CategoryScore("entropy", ind)
  BY CategoryScores DEF Categories
<1>2. /\ CategoryScore("static", ind) \in Nat
      /\ CategoryScore("static", part) \in Nat
      /\ CategoryScore("static", part) <= CategoryScore("static", ind)
  BY CategoryScores DEF Categories
<1>3. /\ CategoryScore("context", ind) \in Nat
      /\ CategoryScore("context", part) \in Nat
      /\ CategoryScore("context", part) <= CategoryScore("context", ind)
  BY CategoryScores DEF Categories
<1> DEFINE e == CategoryScore("entropy", part)
           f == CategoryScore("entropy", ind)
           s == CategoryScore("static", part)
           t == CategoryScore("static", ind)
           c == CategoryScore("context", part)
           d == CategoryScore("context", ind)
<1>4. Score(ind) = Lesser(100, f + t + d) /\ Score(part) = Lesser(100, e + s + c)
  BY DEF Score
<1>5. /\ e \in Nat /\ f \in Nat /\ s \in Nat /\ t \in Nat /\ c \in Nat /\ d \in Nat
      /\ e <= f /\ s <= t /\ c <= d
  BY <1>1, <1>2, <1>3
<1> HIDE DEF e, f, s, t, c, d
<1>6. /\ Lesser(100, f + t + d) \in 0..100
      /\ Lesser(100, e + s + c) \in 0..100
      /\ Lesser(100, e + s + c) <= Lesser(100, f + t + d)
  BY ONLY <1>5 DEF Lesser
<1> QED BY ONLY <1>4, <1>6

\* More evidence never leads to a weaker decision, although the denial gate turns
\* some high scores into warnings.
THEOREM DecisionMonotone ==
  ASSUME NEW ind, ind \subseteq PolicyRules, NEW part, part \subseteq ind
  PROVE  DecisionRank(Decision(part)) <= DecisionRank(Decision(ind))
<1>1. Score(ind) \in 0..100 /\ Score(part) \in 0..100 /\ Score(part) <= Score(ind)
  BY ScoreInRange
<1>2. /\ CategoryScore("static", ind) \in Nat
      /\ CategoryScore("static", part) \in Nat
      /\ CategoryScore("static", part) <= CategoryScore("static", ind)
  BY CategoryScores DEF Categories
<1>3. /\ {AllowMonitorMin, WarnMin, DenyMin, DenyMinStatic} \subseteq Int
      /\ 0 < AllowMonitorMin /\ AllowMonitorMin < WarnMin /\ WarnMin < DenyMin
  BY PolicyAssumption DEF ValidPolicy
<1> QED BY ONLY <1>1, <1>2, <1>3 DEF Decision, DecisionRank

\* Without a rule of the static category there is no static score.
LEMMA NoStaticRules ==
  ASSUME NEW ind, ind \subseteq PolicyRules, \A r \in ind : Category[r] # "static"
  PROVE  CategoryScore("static", ind) = 0
<1>1. \A r : Points(r, "static", ind) = 0
  BY DEF Points
<1>2. RawScore("static", ind) = 0
  BY <1>1 DEF RawScore, RawEntropyRules, RawStaticRules, RawContextRules
<1>3. Cap["static"] \in Nat
  BY PolicyAssumption DEF ValidPolicy, Categories
<1> QED BY ONLY <1>2, <1>3 DEF CategoryScore, Lesser

\* Where the gate asks for static evidence, a denial has some.
THEOREM DenialNeedsStaticEvidence ==
  ASSUME NEW ind, ind \subseteq PolicyRules, GateMeaningful, Decision(ind) = "DENY"
  PROVE  ind \cap StaticRules # {}
<1> SUFFICES ASSUME ind \cap StaticRules = {} PROVE FALSE
  OBVIOUS
<1>1. \A r \in ind : Category[r] # "static"
  BY DEF GateMeaningful
<1>2. CategoryScore("static", ind) = 0
  BY <1>1, NoStaticRules
<1>3. DenyMinStatic \in Int /\ DenyMinStatic > 0
  BY PolicyAssumption DEF ValidPolicy, GateMeaningful
<1>4. ~(CategoryScore("static", ind) >= DenyMinStatic)
  BY ONLY <1>2, <1>3
<1> QED BY ONLY <1>4, Decision(ind) = "DENY" DEF Decision
-----------------------------------------------------------------------------
(* The verdict of a scan.                                                  *)

\* The fields of a scan, its status, and the one step that writes its result: the
\* result of a scan that is done is the score of what it has collected.
ScoredInv ==
  /\ DOMAIN scan = DOMAIN NoScan
  /\ scan.status \in {"ERROR", "PARTIAL", "OK"}
  /\ Done => scan.result = ScoreScan(scan.status, scan.indicators)

\* A step that only collects evidence keeps the invariant: it does not end the scan.
LEMMA ScoredStep ==
  ASSUME ScoredInv, [ScanNext]_scanVars
  PROVE  ScoredInv'
<1>0. DOMAIN scan = {"pc", "trusted", "fd", "ext", "identity", "indicators", "errors", "head",
                     "mime", "pe", "status", "result"}
  BY DEF ScoredInv, NoScan
<1>1. CASE ScoreResult
  BY <1>0, <1>1 DEF ScoreResult, ScoredInv, Done, At, NoScan
<1>2. CASE Replace
  BY <1>2 DEF Replace, ScoredInv, Done, At
<1>3. CASE Rewrite
  BY <1>3 DEF Rewrite, ScoredInv, Done, At
<1>4. CASE UNCHANGED scanVars
  BY <1>4 DEF scanVars, ScoredInv, Done, At
<1>5. CASE Begin
  BY <1>0, <1>5 DEF Begin, ScoredInv, Done, At, NoScan
<1>6. CASE Stat
  BY <1>0, <1>6 DEF Stat, Fail, ScoredInv, Done, At, NoScan
<1>7. CASE ReadHead
  BY <1>0, <1>7 DEF ReadHead, Fail, ScoredInv, Done, At, NoScan
<1>8. CASE DetectMime
  BY <1>0, <1>8 DEF DetectMime, ScoredInv, Done, At, NoScan
<1>9. CASE SkipElf
  BY <1>0, <1>9 DEF SkipElf, Goto, ScoredInv, Done, At, NoScan
<1>10. CASE AnalyzeElf
  BY <1>0, <1>10 DEF AnalyzeElf, Fail, ScoredInv, Done, At, NoScan
<1>11. CASE InspectPe
  BY <1>0, <1>11 DEF InspectPe, ScoredInv, Done, At, NoScan
<1>12. CASE EntropyStat
  BY <1>0, <1>12 DEF EntropyStat, Goto, Fail, ScoredInv, Done, At, NoScan
<1>13. CASE EntropyOpen
  BY <1>0, <1>13 DEF EntropyOpen, Goto, Fail, ScoredInv, Done, At, NoScan
<1>14. CASE EntropyRead
  BY <1>14 DEF EntropyRead, ScoredInv, Done, At
<1>15. CASE EntropyEnd
  BY <1>0, <1>15 DEF EntropyEnd, Fail, ScoredInv, Done, At, NoScan
<1>16. CASE EntropyFails
  BY <1>0, <1>16 DEF EntropyFails, Fail, ScoredInv, Done, At, NoScan
<1>17. CASE Conclude
  BY <1>0, <1>17 DEF Conclude, ScoredInv, Done, At, NoScan
<1> QED BY <1>1, <1>2, <1>3, <1>4, <1>5, <1>6, <1>7, <1>8, <1>9, <1>10, <1>11, <1>12, <1>13,
           <1>14, <1>15, <1>16, <1>17 DEF ScanNext, Scan

\* What the invariant says of the verdict.
LEMMA ScoredJustifies ==
  ASSUME ScoredInv
  PROVE  VerdictJustified
<1> SUFFICES ASSUME Done
             PROVE  /\ scan.result.decision = "DENY" =>
                         /\ scan.status = "OK"
                         /\ GateMeaningful => scan.indicators \cap StaticRules # {}
                    /\ scan.result.status = "OK" =>
                         \A part \in SUBSET scan.indicators :
                           DecisionRank(Decision(part)) <= DecisionRank(scan.result.decision)
  BY DEF VerdictJustified
<1> DEFINE ind == scan.indicators
<1>1. scan.result = ScoreScan(scan.status, ind) /\ scan.status \in {"ERROR", "PARTIAL", "OK"}
  BY DEF ScoredInv
<1>2. CASE scan.status = "ERROR" \/ Raises(ind)
  <2>1. scan.result = Degraded
    BY <1>1, <1>2 DEF ScoreScan, ScoreOf
  <2> QED BY <2>1 DEF Degraded
<1>3. CASE scan.status = "PARTIAL" /\ ~Raises(ind)
  <2>1. scan.result.decision = "ALLOW_MONITOR" /\ scan.result.status = "INCONCLUSIVE"
    BY <1>1, <1>3 DEF ScoreScan, ScoreOf
  <2> QED BY <2>1
<1>4. CASE scan.status = "OK" /\ ~Raises(ind)
  <2>1. scan.result.decision = Decision(ind)
    BY <1>1, <1>4 DEF ScoreScan, ScoreOf
  <2>2. ind \subseteq PolicyRules
    BY <1>4 DEF Raises
  <2>3. Decision(ind) = "DENY" /\ GateMeaningful => ind \cap StaticRules # {}
    BY <2>2, DenialNeedsStaticEvidence
  <2>4. \A part \in SUBSET ind : DecisionRank(Decision(part)) <= DecisionRank(Decision(ind))
    BY <2>2, DecisionMonotone
  <2> QED BY <1>4, <2>1, <2>3, <2>4
<1> QED BY <1>1, <1>2, <1>3, <1>4

\* Every verdict the pre-execution adapter returns is justified, for every valid
\* policy, every file and whatever programs do to it during the scan.
THEOREM VerdictsCorrect == ScanSpec => []VerdictJustified
<1>1. ScanInit => ScoredInv
  BY DEF ScanInit, NoScan, ScoredInv, Done, At
<1>2. ScoredInv /\ [ScanNext]_scanVars => ScoredInv'
  BY ScoredStep
<1>3. ScoredInv => VerdictJustified
  BY ScoredJustifies
<1> QED BY <1>1, <1>2, <1>3, PTL DEF ScanSpec
-----------------------------------------------------------------------------
(***************************************************************************)
(* The evidence of a trusted scan.                                         *)
(***************************************************************************)
ScanFields == {"pc", "trusted", "fd", "ext", "identity", "indicators", "errors", "head",
               "mime", "pe", "status", "result"}
StreamFields == {"file", "size", "read", "carry", "blocks", "reported", "seen", "complete"}

\* A trusted scan opens nothing but the file of its event, for the entropy stream too.
OneFileInv ==
  /\ DOMAIN scan = ScanFields /\ DOMAIN stream = StreamFields
  /\ At("start") => sources = {} /\ stream.file = None
  /\ ~At("start") /\ scan.trusted => sources \subseteq {scan.fd} /\ stream.file \in {None, scan.fd}

\* A read of the target by a scan that goes on keeps the evidence together.
LEMMA OneFileRead ==
  ASSUME OneFileInv, ~At("start"), DOMAIN scan' = ScanFields, scan'.pc # "start",
         scan'.trusted = scan.trusted, scan'.fd = scan.fd,
         From(Target) \/ From(stream.file) \/ UNCHANGED sources,
         DOMAIN stream' = StreamFields, stream'.file \in {Target, stream.file}
  PROVE  OneFileInv'
<1>1. scan.trusted => Target = scan.fd
  BY DEF Target
<1>2. scan.trusted => sources' \subseteq {scan.fd} /\ stream'.file \in {None, scan.fd}
  BY <1>1 DEF OneFileInv, From
<1> QED BY <1>2 DEF OneFileInv, At

\* Every step does.
LEMMA OneFileStep ==
  ASSUME OneFileInv, [ScanNext]_scanVars
  PROVE  OneFileInv'
<1>0. DOMAIN scan = ScanFields /\ DOMAIN stream = StreamFields
  BY DEF OneFileInv
<1>1. CASE Begin
  BY <1>0, <1>1 DEF Begin, OneFileInv, At, ScanFields
<1>2. CASE Stat
  BY <1>0, <1>2, OneFileRead DEF Stat, Fail, At, ScanFields
<1>3. CASE ReadHead
  BY <1>0, <1>3, OneFileRead DEF ReadHead, Fail, At, ScanFields
<1>4. CASE DetectMime
  BY <1>0, <1>4, OneFileRead DEF DetectMime, At, ScanFields
<1>5. CASE SkipElf
  BY <1>0, <1>5, OneFileRead DEF SkipElf, Goto, At, ScanFields
<1>6. CASE AnalyzeElf
  BY <1>0, <1>6, OneFileRead DEF AnalyzeElf, Fail, At, ScanFields
<1>7. CASE InspectPe
  BY <1>0, <1>7, OneFileRead DEF InspectPe, At, ScanFields
<1>8. CASE EntropyStat
  BY <1>0, <1>8, OneFileRead DEF EntropyStat, Goto, Fail, At, ScanFields, StreamFields
<1>9. CASE EntropyOpen
  BY <1>0, <1>9, OneFileRead DEF EntropyOpen, Goto, Fail, At, ScanFields, StreamFields
<1>10. CASE EntropyRead
  <2>1. DOMAIN stream' = StreamFields /\ stream'.file = stream.file
    BY <1>0, <1>10 DEF EntropyRead, StreamFields
  <2>2. scan' = scan /\ From(stream.file) /\ At("entropy")
    BY <1>10 DEF EntropyRead
  <2> QED BY <1>0, <2>1, <2>2, OneFileRead DEF At
<1>11. CASE EntropyEnd
  <2>1. DOMAIN stream' = StreamFields /\ stream'.file = stream.file
    BY <1>0, <1>11 DEF EntropyEnd, StreamFields
  <2>2. /\ DOMAIN scan' = ScanFields /\ scan'.pc # "start" /\ scan'.trusted = scan.trusted
        /\ scan'.fd = scan.fd /\ sources' = sources /\ At("entropy")
    BY <1>0, <1>11 DEF EntropyEnd, Fail, ScanFields
  <2> QED BY <1>0, <2>1, <2>2, OneFileRead DEF At
<1>12. CASE EntropyFails
  BY <1>0, <1>12, OneFileRead DEF EntropyFails, Fail, At, ScanFields
<1>13. CASE Conclude
  BY <1>0, <1>13, OneFileRead DEF Conclude, At, ScanFields
<1>14. CASE ScoreResult
  BY <1>0, <1>14, OneFileRead DEF ScoreResult, At, ScanFields
<1>15. CASE Replace \/ Rewrite \/ UNCHANGED scanVars
  BY <1>15 DEF Replace, Rewrite, scanVars, OneFileInv, At
<1> QED BY <1>1, <1>2, <1>3, <1>4, <1>5, <1>6, <1>7, <1>8, <1>9, <1>10, <1>11, <1>12, <1>13,
           <1>14, <1>15 DEF ScanNext, Scan

\* The evidence of a fanotify scan is that of the file of the event, whatever is put
\* at its path between any two of the six reads (EvidenceOfOneFile).
THEOREM EvidenceIsOfOneFile == ScanSpec => []EvidenceOfOneFile
<1>1. ScanInit => OneFileInv
  BY DEF ScanInit, NoScan, NoStream, OneFileInv, ScanFields, StreamFields, At
<1>2. OneFileInv /\ [ScanNext]_scanVars => OneFileInv'
  BY OneFileStep
<1>3. OneFileInv => EvidenceOfOneFile
  BY DEF OneFileInv, EvidenceOfOneFile, Done, At
<1> QED BY <1>1, <1>2, <1>3, PTL DEF ScanSpec
-----------------------------------------------------------------------------
(***************************************************************************)
(* Counting blocks.                                                        *)
(***************************************************************************)
\* Multiplication is monotone.
LEMMA TimesMonotone ==
  ASSUME NEW a \in Int, NEW c \in Int, NEW b \in Nat, a <= c PROVE a * b <= c * b
  OBVIOUS

\* Quotient and remainder.
LEMMA QuotientRemainder ==
  ASSUME NEW a \in Nat, NEW b \in Nat \ {0}
  PROVE /\ a \div b \in Nat /\ a % b \in 0..(b-1) /\ a = (a \div b) * b + (a % b)
  OBVIOUS

\* They are the only ones.
LEMMA QuotientUnique ==
  ASSUME NEW a \in Nat, NEW b \in Nat \ {0}, NEW q \in Nat, NEW r \in 0..(b-1), a = q * b + r
  PROVE a \div b = q /\ a % b = r
  BY QuotientRemainder, TimesMonotone

\* The rounded quotient is the number of pieces that cover a whole.
LEMMA Covering ==
  ASSUME NEW a \in Nat, NEW b \in Nat \ {0}
  PROVE CeilDiv(a,b) \in Nat /\ a <= CeilDiv(a,b) * b /\ CeilDiv(a,b) * b < a + b
<1>1. a + b - 1 \in Nat
  OBVIOUS
<1> DEFINE n == a + b - 1
           q == n \div b
<1>2. q \in Nat /\ n % b \in 0..(b - 1) /\ n = q * b + (n % b)
  BY <1>1, QuotientRemainder
<1>3. CeilDiv(a, b) = q
  BY DEF CeilDiv
<1>4. a <= q * b /\ q * b < a + b
  <2> DEFINE m == q * b
  <2>1. m \in Int /\ n = m + (n % b)
    BY <1>2
  <2> HIDE DEF m, q
  <2>2. a <= m /\ m < a + b
    BY <1>2, <2>1
  <2> QED BY <2>2 DEF m
<1> QED BY <1>2, <1>3, <1>4

\* It is the only such number.
LEMMA CoveringUnique ==
  ASSUME NEW a \in Nat, NEW b \in Nat \ {0}, NEW q \in Nat, a <= q * b, q * b < a + b
  PROVE CeilDiv(a,b) = q
<1>1. a + b - 1 \in Nat /\ a + b - 1 = q * b + (a + b - 1 - q * b) /\ a + b - 1 - q * b \in 0..(b - 1)
  OBVIOUS
<1> QED BY ONLY <1>1, QuotientUnique, b \in Nat \ {0}, q \in Nat DEF CeilDiv

\* Counting the sampled blocks piece by piece counts them all: how many multiples of
\* the stride lie below an index does not depend on how the way there was split.
LEMMA SampledCount ==
  ASSUME NEW first \in Nat, NEW last \in Nat, first <= last, NEW stride \in Nat \ {0}
  PROVE CeilDiv(first, stride) + Sampled(first, last, stride) = CeilDiv(last, stride)
<1> DEFINE lo == CeilDiv(first, stride)
           hi == CeilDiv(last, stride)
           K == lo..(hi - 1)
           S == {i \in first..(last - 1) : i % stride = 0}
           f == [k \in K |-> k * stride]
<1>1. /\ lo \in Nat /\ first <= lo * stride /\ lo * stride < first + stride
      /\ hi \in Nat /\ last <= hi * stride /\ hi * stride < last + stride
  BY Covering
<1> HIDE DEF lo, hi
<1>2. lo <= hi
  <2> SUFFICES ASSUME hi + 1 <= lo PROVE FALSE
    BY <1>1
  <2>1. (hi + 1) * stride <= lo * stride
    BY <1>1, TimesMonotone
  <2> QED BY <1>1, <2>1
<1>3. \A k \in K : k * stride \in S
  <2> SUFFICES ASSUME NEW k \in K PROVE k * stride \in S
    OBVIOUS
  <2>1. k \in Nat /\ lo <= k /\ k + 1 <= hi
    BY <1>1
  <2>2. lo * stride <= k * stride /\ (k + 1) * stride <= hi * stride
    BY <1>1, <2>1, TimesMonotone
  <2>3. k * stride \in first..(last - 1)
    BY <1>1, <2>1, <2>2
  <2>4. (k * stride) % stride = 0
    BY <2>1, <2>3, QuotientUnique
  <2> QED BY <2>3, <2>4
<1>4. \A i \in S : \E k \in K : k * stride = i
  <2> SUFFICES ASSUME NEW i \in S PROVE \E k \in K : k * stride = i
    OBVIOUS
  <2>1. i \in Nat /\ first <= i /\ i < last /\ i % stride = 0
    OBVIOUS
  <2> DEFINE k == i \div stride
  <2>2. k \in Nat /\ k * stride = i
    BY <2>1, QuotientRemainder
  <2> HIDE DEF k
  <2>3. lo <= k
    <3> SUFFICES ASSUME k + 1 <= lo PROVE FALSE
      BY <1>1, <2>2
    <3>1. (k + 1) * stride <= lo * stride
      BY <1>1, <2>2, TimesMonotone
    <3> QED BY <1>1, <2>1, <2>2, <3>1
  <2>4. k + 1 <= hi
    <3> SUFFICES ASSUME hi <= k PROVE FALSE
      BY <1>1, <2>2
    <3>1. hi * stride <= k * stride
      BY <1>1, <2>2, TimesMonotone
    <3> QED BY <1>1, <2>1, <2>2, <3>1
  <2> QED BY <1>1, <2>2, <2>3, <2>4
<1>5. \A j, k \in K : j * stride = k * stride => j = k
  BY <1>1
<1>6. f \in Bijection(K, S)
  BY <1>3, <1>4, <1>5 DEF Bijection, Injection, Surjection, IsInjective
<1>7. IsFiniteSet(K) /\ Cardinality(K) = hi - lo
  <2>1. hi - 1 \in Int /\ lo \in Int
    BY <1>1
  <2>2. IsFiniteSet(K) /\ Cardinality(K) = IF lo > hi - 1 THEN 0 ELSE (hi - 1) - lo + 1
    BY <2>1, FS_Interval
  <2> HIDE DEF K
  <2> QED BY ONLY <1>1, <1>2, <2>2
<1>8. Cardinality(S) = hi - lo
  BY <1>6, <1>7, FS_Bijection DEF ExistsBijection
<1> QED BY <1>1, <1>2, <1>8 DEF Sampled, lo, hi

\* The blocks counted so far are the whole blocks of the bytes read, and the sample
\* is what an even sample of that many blocks has.
Counted ==
  /\ stream.carry < BlockSize
  /\ stream.read = stream.blocks * BlockSize + stream.carry
  /\ stream.reported = CeilDiv(stream.blocks, Stride(stream.size))

Complete ==
  /\ stream.blocks = CeilDiv(stream.size, BlockSize)
  /\ stream.reported = CeilDiv(stream.blocks, Stride(stream.size))
  /\ stream.reported <= MaxReported

BeforeEntropy == {"start", "stat", "head", "mime", "elf", "pe", "entropyStat"}

CountInv ==
  /\ DOMAIN scan = ScanFields /\ DOMAIN stream = StreamFields
  /\ path \in Files \cup {None} /\ scan.fd \in Files \cup {None} /\ disk \in [Files -> Contents]
  /\ {stream.size, stream.read, stream.carry, stream.blocks, stream.reported} \subseteq Nat
  /\ scan.pc \in BeforeEntropy \cup {"entropyOpen"} =>
        stream.read = 0 /\ stream.carry = 0 /\ stream.blocks = 0 /\ stream.reported = 0
  /\ scan.pc = "entropy" => stream.file \in Files
  /\ scan.pc \in BeforeEntropy \cup {"entropyOpen", "entropy"} => ~stream.complete /\ Counted
  /\ stream.complete => Complete

\* The configuration EntropyConfig accepts.
LEMMA Units ==
  /\ BlockSize \in Nat \ {0} /\ ReadChunk \in Nat /\ MaxReported \in Nat \ {0}
  /\ \A c \in Contents : c.size \in Nat
BY AnalysisAssumption DEF ValidEntropyConfig, Content

\* Every stride samples, and no more blocks than may be reported.
LEMMA StrideFits ==
  ASSUME NEW size \in Nat
  PROVE  /\ Stride(size) \in Nat \ {0}
         /\ CeilDiv(CeilDiv(size, BlockSize), Stride(size)) <= MaxReported
<1> DEFINE b == CeilDiv(size, BlockSize)
           n == CeilDiv(b, MaxReported)
           s == Stride(size)
<1>1. b \in Nat
  BY Units, Covering
<1> HIDE DEF b
<1>2. n \in Nat /\ b <= n * MaxReported
  BY <1>1, Units, Covering
<1>3. s = IF n < 1 THEN 1 ELSE n
  BY DEF Stride, b
<1> HIDE DEF n, s
<1>4. s \in Nat \ {0} /\ n <= s
  BY <1>2, <1>3
<1>5. n * MaxReported <= s * MaxReported
  BY <1>2, <1>4, TimesMonotone, Units
<1> DEFINE k == CeilDiv(b, s)
<1>6. k \in Nat /\ k * s < b + s
  BY <1>1, <1>4, Covering
<1> HIDE DEF k
<1>7. k <= MaxReported
  <2> SUFFICES ASSUME MaxReported + 1 <= k PROVE FALSE
    BY <1>6, Units
  <2>1. (MaxReported + 1) * s <= k * s
    BY <1>4, <1>6, TimesMonotone, Units
  <2>2. (MaxReported + 1) * s = s * MaxReported + s
    BY <1>4, Units
  <2>3. s * MaxReported \in Nat /\ n * MaxReported \in Nat /\ k * s \in Nat
    BY <1>2, <1>4, <1>6, Units
  <2> QED BY <1>1, <1>2, <1>4, <1>5, <1>6, <2>1, <2>2, <2>3
<1> QED BY <1>4, <1>7 DEF b, s, k

\* One read: the carried bytes and the chunk are whole blocks and a new carry.
LEMMA ReadCounts ==
  ASSUME NEW carry \in Nat, NEW n \in Nat, NEW blocks \in Nat, carry < BlockSize
  PROVE  /\ BlocksOf(carry, n).blocks \in Nat
         /\ BlocksOf(carry, n).carry \in Nat /\ BlocksOf(carry, n).carry < BlockSize
         /\ blocks * BlockSize + carry + n
              = (blocks + BlocksOf(carry, n).blocks) * BlockSize + BlocksOf(carry, n).carry
<1> DEFINE q == (carry + n) \div BlockSize
           r == (carry + n) % BlockSize
<1>1. carry + n \in Nat
  OBVIOUS
<1>2. q \in Nat /\ r \in 0..(BlockSize - 1) /\ carry + n = q * BlockSize + r
  BY <1>1, QuotientRemainder, Units
<1>3. BlocksOf(carry, n).blocks = q /\ BlocksOf(carry, n).carry = r
  BY DEF BlocksOf
<1> HIDE DEF q, r
<1>4. (blocks + q) * BlockSize = blocks * BlockSize + q * BlockSize
  BY <1>2, Units
<1>5. blocks * BlockSize \in Nat /\ q * BlockSize \in Nat
  BY <1>2, Units
<1> QED BY <1>2, <1>3, <1>4, <1>5, Units

\* The last, partial block makes the count that of the whole file.
LEMMA LastCounts ==
  ASSUME NEW carry \in Nat, NEW blocks \in Nat, carry < BlockSize
  PROVE  CeilDiv(blocks * BlockSize + carry, BlockSize) = blocks + (IF carry > 0 THEN 1 ELSE 0)
<1> DEFINE last == blocks + (IF carry > 0 THEN 1 ELSE 0)
           a == blocks * BlockSize
<1>1. last \in Nat /\ a \in Nat /\ a + carry \in Nat
  BY Units
<1>2. last * BlockSize = a + (IF carry > 0 THEN BlockSize ELSE 0)
  BY Units
<1>3. a + carry <= last * BlockSize /\ last * BlockSize < a + carry + BlockSize
  <2> HIDE DEF a
  <2> DEFINE m == last * BlockSize
  <2>1. m = a + (IF carry > 0 THEN BlockSize ELSE 0)
    BY <1>2
  <2> HIDE DEF m, last
  <2>2. a + carry <= m /\ m < a + carry + BlockSize
    BY <1>1, <2>1, Units
  <2> QED BY <2>2 DEF m
<1> HIDE DEF last, a
<1>4. CeilDiv(a + carry, BlockSize) = last
  BY <1>1, <1>3, CoveringUnique, Units
<1> QED BY <1>4 DEF last, a

\* A step that leaves the stream alone and goes on.
LEMMA CountQuiet ==
  ASSUME CountInv, DOMAIN scan' = ScanFields, stream' = stream,
         path' \in Files \cup {None}, scan'.fd \in Files \cup {None}, disk' \in [Files -> Contents],
         \/ scan'.pc = scan.pc
         \/ scan.pc \in BeforeEntropy /\ scan'.pc \in BeforeEntropy
         \/ scan'.pc \in {"conclude", "score", "done"}
  PROVE  CountInv'
<1>1. \/ scan'.pc = scan.pc
      \/ scan.pc \in BeforeEntropy /\ scan'.pc \in BeforeEntropy
      \/ scan'.pc \notin BeforeEntropy \cup {"entropyOpen", "entropy"}
  BY DEF BeforeEntropy
<1>2. (Counted' <=> Counted) /\ (Complete' <=> Complete)
  BY DEF Counted, Complete
<1>3. "entropy" \notin BeforeEntropy
  BY DEF BeforeEntropy
<1> HIDE DEF Counted, Complete, BeforeEntropy
<1> QED BY <1>1, <1>2, <1>3 DEF CountInv

\* The steps before the stream is opened, and after it is closed.
LEMMA CountOutside ==
  ASSUME CountInv,
         \/ Begin \/ Stat \/ ReadHead \/ DetectMime \/ SkipElf \/ AnalyzeElf \/ InspectPe
         \/ EntropyFails \/ Conclude \/ ScoreResult \/ Replace \/ Rewrite \/ UNCHANGED scanVars
  PROVE  CountInv'
<1>0. /\ DOMAIN scan = ScanFields /\ path \in Files \cup {None} /\ scan.fd \in Files \cup {None}
      /\ disk \in [Files -> Contents] /\ Rewrites \subseteq Contents
  BY AnalysisAssumption DEF CountInv
<1>1. CASE Begin
  BY <1>0, <1>1, CountQuiet DEF Begin, At, ScanFields, BeforeEntropy
<1>2. CASE Stat
  BY <1>0, <1>2, CountQuiet DEF Stat, Fail, At, ScanFields, BeforeEntropy
<1>3. CASE ReadHead
  BY <1>0, <1>3, CountQuiet DEF ReadHead, Fail, At, ScanFields, BeforeEntropy
<1>4. CASE DetectMime
  BY <1>0, <1>4, CountQuiet DEF DetectMime, At, ScanFields, BeforeEntropy
<1>5. CASE SkipElf
  BY <1>0, <1>5, CountQuiet DEF SkipElf, Goto, At, ScanFields, BeforeEntropy
<1>6. CASE AnalyzeElf
  BY <1>0, <1>6, CountQuiet DEF AnalyzeElf, Fail, At, ScanFields, BeforeEntropy
<1>7. CASE InspectPe
  BY <1>0, <1>7, CountQuiet DEF InspectPe, At, ScanFields, BeforeEntropy
<1>8. CASE EntropyFails
  BY <1>0, <1>8, CountQuiet DEF EntropyFails, Fail, ScanFields
<1>9. CASE Conclude
  BY <1>0, <1>9, CountQuiet DEF Conclude, ScanFields
<1>10. CASE ScoreResult
  BY <1>0, <1>10, CountQuiet DEF ScoreResult, ScanFields
<1>11. CASE Replace
  BY <1>0, <1>11, CountQuiet DEF Replace
<1>12. CASE Rewrite
  <2>1. disk' \in [Files -> Contents] /\ scan' = scan /\ stream' = stream /\ path' = path
    BY <1>0, <1>12 DEF Rewrite
  <2> QED BY <1>0, <2>1, CountQuiet
<1>13. CASE UNCHANGED scanVars
  BY <1>0, <1>13, CountQuiet DEF scanVars
<1> QED BY <1>1, <1>2, <1>3, <1>4, <1>5, <1>6, <1>7, <1>8, <1>9, <1>10, <1>11, <1>12, <1>13

\* The stream is opened on a file that is there.
LEMMA CountOpen ==
  ASSUME CountInv, EntropyStat \/ EntropyOpen
  PROVE  CountInv'
<1>0. /\ DOMAIN scan = ScanFields /\ DOMAIN stream = StreamFields
      /\ path \in Files \cup {None} /\ scan.fd \in Files \cup {None} /\ disk \in [Files -> Contents]
      /\ path' = path /\ disk' = disk /\ Target \in Files \cup {None}
  BY DEF CountInv, EntropyStat, EntropyOpen, Target
<1>1. "entropyStat" \in BeforeEntropy /\ "entropyOpen" \notin BeforeEntropy /\ "entropy" \notin BeforeEntropy
      /\ "conclude" \notin BeforeEntropy
  BY DEF BeforeEntropy
<1>2. CASE Fail("conclude") /\ UNCHANGED stream
  BY <1>0, <1>2, CountQuiet DEF Fail, ScanFields
<1>3. CASE EntropyStat /\ ~NotRegular(Holds(Target))
  <2>1. /\ scan.pc = "entropyStat" /\ scan' = [scan EXCEPT !.pc = "entropyOpen"]
        /\ stream' = [stream EXCEPT !.size = disk[Target].size]
    BY <1>3 DEF EntropyStat, Goto, At
  <2>2. Target \in Files
    BY <1>0, <1>3 DEF NotRegular, Holds
  <2>3. disk[Target].size \in Nat
    BY <1>0, <2>2, Units
  <2>4. /\ stream'.size \in Nat /\ stream'.read = stream.read /\ stream'.carry = stream.carry
        /\ stream'.blocks = stream.blocks /\ stream'.reported = stream.reported
        /\ stream'.complete = stream.complete /\ DOMAIN stream' = StreamFields
    BY <1>0, <2>1, <2>3 DEF StreamFields
  <2>5. scan'.pc = "entropyOpen" /\ scan'.fd = scan.fd /\ DOMAIN scan' = ScanFields
    BY <1>0, <2>1 DEF ScanFields
  <2>6. /\ stream'.read = 0 /\ stream'.carry = 0 /\ stream'.blocks = 0 /\ stream'.reported = 0
        /\ ~stream'.complete
    BY <1>1, <2>1, <2>4 DEF CountInv
  <2>7. Stride(stream'.size) \in Nat \ {0}
    BY <2>4, StrideFits
  <2>8. CeilDiv(0, Stride(stream'.size)) = 0
    BY <2>7, CoveringUnique
  <2>9. 0 * BlockSize = 0
    BY Units
  <2>10. Counted'
    BY <2>6, <2>8, <2>9, Units DEF Counted
  <2> HIDE DEF Counted
  <2> QED BY <1>0, <1>1, <2>4, <2>5, <2>6, <2>10 DEF CountInv
<1>4. CASE EntropyOpen /\ ~Unreadable(Holds(Target))
  <2>1. /\ scan.pc = "entropyOpen" /\ scan' = [scan EXCEPT !.pc = "entropy"]
        /\ stream' = [stream EXCEPT !.file = Target]
    BY <1>4 DEF EntropyOpen, Goto, At
  <2>2. Target \in Files
    BY <1>0, <1>4 DEF Unreadable, Holds
  <2>3. /\ stream'.size = stream.size /\ stream'.read = stream.read /\ stream'.carry = stream.carry
        /\ stream'.blocks = stream.blocks /\ stream'.reported = stream.reported
        /\ stream'.complete = stream.complete /\ DOMAIN stream' = StreamFields
        /\ stream'.file \in Files
    BY <1>0, <2>1, <2>2 DEF StreamFields
  <2>4. scan'.pc = "entropy" /\ scan'.fd = scan.fd /\ DOMAIN scan' = ScanFields
    BY <1>0, <2>1 DEF ScanFields
  <2>5. Counted /\ ~stream.complete
    BY <2>1 DEF CountInv
  <2>6. Counted'
    BY <2>3, <2>5 DEF Counted
  <2> HIDE DEF Counted
  <2> QED BY <1>0, <1>1, <2>3, <2>4, <2>5, <2>6 DEF CountInv
<1> QED BY <1>2, <1>3, <1>4 DEF EntropyStat, EntropyOpen

\* A read adds its whole blocks and its share of the sample.
LEMMA CountRead ==
  ASSUME CountInv, EntropyRead
  PROVE  CountInv'
<1> DEFINE st == Stride(stream.size)
<1>0. /\ scan.pc = "entropy" /\ DOMAIN stream = StreamFields /\ stream.file \in Files /\ Counted
      /\ disk \in [Files -> Contents] /\ ~stream.complete
      /\ stream.size \in Nat /\ stream.read \in Nat /\ stream.carry \in Nat /\ stream.blocks \in Nat
      /\ stream.reported \in Nat
  BY DEF CountInv, EntropyRead, At
<1>1. disk[stream.file].size \in Nat
  BY <1>0, Units
<1>2. PICK n \in 1..Lesser(ReadChunk, disk[stream.file].size - stream.read) :
        stream' = [stream EXCEPT !.read = @ + n, !.carry = BlocksOf(stream.carry, n).carry,
                     !.blocks = @ + BlocksOf(stream.carry, n).blocks,
                     !.reported = @ + Sampled(stream.blocks, stream.blocks + BlocksOf(stream.carry, n).blocks, st),
                     !.seen = @ \cup {disk[stream.file]}]
  BY DEF EntropyRead
<1>3. n \in Nat
  <2>1. Lesser(ReadChunk, disk[stream.file].size - stream.read) \in Int
    BY <1>0, <1>1, Units DEF Lesser
  <2> QED BY <2>1
<1> DEFINE more == BlocksOf(stream.carry, n).blocks
           rest == BlocksOf(stream.carry, n).carry
           blocks == stream.blocks + more
<1>4. /\ more \in Nat /\ rest \in Nat /\ rest < BlockSize
      /\ stream.blocks * BlockSize + stream.carry + n = blocks * BlockSize + rest
  BY <1>0, <1>3, ReadCounts DEF Counted
<1>5. /\ stream'.read = stream.read + n /\ stream'.carry = rest /\ stream'.blocks = blocks
      /\ stream'.reported = stream.reported + Sampled(stream.blocks, blocks, st)
      /\ stream'.size = stream.size /\ stream'.file = stream.file /\ stream'.complete = stream.complete
      /\ DOMAIN stream' = StreamFields
  BY <1>0, <1>2 DEF StreamFields
<1> HIDE DEF more, rest
<1>6. blocks \in Nat /\ stream.blocks <= blocks
  BY <1>0, <1>4
<1> HIDE DEF blocks, st
<1>7. st \in Nat \ {0}
  BY <1>0, StrideFits DEF st
<1>8. CeilDiv(stream.blocks, st) + Sampled(stream.blocks, blocks, st) = CeilDiv(blocks, st)
  BY <1>0, <1>6, <1>7, SampledCount
<1>9. CeilDiv(blocks, st) \in Nat
  BY <1>6, <1>7, Covering
<1>10. stream'.reported = CeilDiv(blocks, st)
  BY <1>0, <1>5, <1>8 DEF Counted, st
<1>11. stream'.read = blocks * BlockSize + rest
  BY <1>0, <1>4, <1>5 DEF Counted
<1>12. Counted'
  BY <1>4, <1>5, <1>10, <1>11 DEF Counted, st
<1>13. {stream'.size, stream'.read, stream'.carry, stream'.blocks, stream'.reported} \subseteq Nat
  BY <1>0, <1>3, <1>4, <1>5, <1>6, <1>9, <1>10
<1>14. /\ scan' = scan /\ path' = path /\ disk' = disk
  BY DEF EntropyRead
<1>15. "entropy" \notin BeforeEntropy
  BY DEF BeforeEntropy
<1> HIDE DEF Counted
<1> QED BY <1>0, <1>5, <1>12, <1>13, <1>14, <1>15 DEF CountInv

\* At the end of the file the carried bytes are one more block.
LEMMA CountEnd ==
  ASSUME CountInv, EntropyEnd
  PROVE  CountInv'
<1> DEFINE st == Stride(stream.size)
           last == stream.blocks + (IF stream.carry > 0 THEN 1 ELSE 0)
<1>0. /\ scan.pc = "entropy" /\ DOMAIN stream = StreamFields /\ Counted /\ DOMAIN scan = ScanFields
      /\ stream.size \in Nat /\ stream.read \in Nat /\ stream.carry \in Nat /\ stream.blocks \in Nat
      /\ stream.reported \in Nat
  BY DEF CountInv, EntropyEnd, At
<1>1. stream' = [stream EXCEPT !.blocks = last, !.carry = 0, !.complete = stream.read = stream.size,
                   !.reported = @ + Sampled(stream.blocks, last, st)]
  BY DEF EntropyEnd
<1>2. /\ stream'.blocks = last /\ stream'.carry = 0 /\ stream'.complete = (stream.read = stream.size)
      /\ stream'.reported = stream.reported + Sampled(stream.blocks, last, st)
      /\ stream'.size = stream.size /\ stream'.read = stream.read /\ DOMAIN stream' = StreamFields
  BY <1>0, <1>1 DEF StreamFields
<1>3. last \in Nat /\ stream.blocks <= last
  BY <1>0
<1>4. CeilDiv(stream.read, BlockSize) = last
  BY <1>0, LastCounts DEF Counted
<1> HIDE DEF last, st
<1>5. st \in Nat \ {0}
  BY <1>0, StrideFits DEF st
<1>6. stream'.reported = CeilDiv(last, st) /\ CeilDiv(last, st) \in Nat
  BY <1>0, <1>2, <1>3, <1>5, SampledCount, Covering DEF Counted, st
<1>7. stream'.complete => Complete'
  <2> SUFFICES ASSUME stream'.complete PROVE Complete'
    OBVIOUS
  <2>1. stream.read = stream.size
    BY <1>2
  <2>2. last = CeilDiv(stream.size, BlockSize)
    BY <1>4, <2>1
  <2>3. CeilDiv(last, st) <= MaxReported
    BY <1>0, <2>2, StrideFits DEF st
  <2> QED BY <1>2, <1>6, <2>2, <2>3 DEF Complete, st
<1>8. /\ path' = path /\ disk' = disk /\ scan'.pc = "conclude" /\ scan'.fd = scan.fd
      /\ DOMAIN scan' = ScanFields
  BY <1>0 DEF EntropyEnd, Fail, ScanFields
<1>9. "conclude" \notin BeforeEntropy \cup {"entropyOpen", "entropy"}
  BY DEF BeforeEntropy
<1>10. {stream'.size, stream'.read, stream'.carry, stream'.blocks, stream'.reported} \subseteq Nat
  BY <1>0, <1>2, <1>3, <1>6
<1> HIDE DEF Complete
<1> QED BY <1>2, <1>7, <1>8, <1>9, <1>10 DEF CountInv

\* A complete entropy report counts every block of the file exactly once, for every
\* file size, block size and chunk size and however the reads split the file, and its
\* sample is even and fits max_reported_blocks (BlocksCounted).
THEOREM BlocksCorrect == ScanSpec => []BlocksCounted
<1>1. ScanInit => CountInv
  <2> SUFFICES ASSUME ScanInit PROVE CountInv
    OBVIOUS
  <2>1. DOMAIN scan = ScanFields /\ DOMAIN stream = StreamFields /\ scan.fd = None /\ scan.pc = "start"
    BY DEF ScanInit, NoScan, NoStream, ScanFields, StreamFields
  <2>2. /\ stream.size = 0 /\ stream.read = 0 /\ stream.carry = 0 /\ stream.blocks = 0
        /\ stream.reported = 0 /\ stream.complete = FALSE
    BY DEF ScanInit, NoStream
  <2>3. path \in Files /\ disk \in [Files -> Contents]
    BY AnalysisAssumption DEF ScanInit
  <2>4. Stride(0) \in Nat \ {0}
    BY StrideFits
  <2>5. CeilDiv(0, Stride(0)) = 0 /\ 0 * BlockSize = 0
    BY <2>4, CoveringUnique, Units
  <2>6. Counted
    BY <2>2, <2>5, Units DEF Counted
  <2> HIDE DEF Counted
  <2> QED BY <2>1, <2>2, <2>3, <2>6 DEF CountInv
<1>2. CountInv /\ [ScanNext]_scanVars => CountInv'
  BY CountOutside, CountOpen, CountRead, CountEnd DEF ScanNext, Scan
<1>3. CountInv => BlocksCounted
  BY DEF CountInv, Complete, BlocksCounted
<1> QED BY <1>1, <1>2, <1>3, PTL DEF ScanSpec

-----------------------------------------------------------------------------
(***************************************************************************)
(* Least elements and induction.                                           *)
(***************************************************************************)
\* A set of naturals has a least element.
LEMMA Least ==
  ASSUME NEW T, T \subseteq Nat, T # {}
  PROVE  \E m \in T : \A k \in T : m <= k
<1> DEFINE R == {ss \in Nat \X Nat : ss[1] < ss[2]}
<1>1. IsWellFoundedOn(R, Nat)
  BY NatLessThanWellFounded DEF OpToRel
<1> HIDE DEF R
<1>2. PICK x \in T : \A y \in T : ~(<<y, x>> \in R)
  BY <1>1, WFMin
<1>3. ASSUME NEW k \in T PROVE x <= k
  <2>1. x \in Nat /\ k \in Nat /\ ~(<<k, x>> \in R)
    BY <1>2
  <2>2. ~(k < x)
    BY <2>1 DEF R
  <2> QED BY <2>1, <2>2
<1> QED BY <1>3

\* Induction, with the predicate as a set.
LEMMA Induction ==
  ASSUME NEW A, A \subseteq Nat, 0 \in A, \A n \in A : n + 1 \in A
  PROVE  A = Nat
<1> SUFFICES ASSUME Nat \ A # {} PROVE FALSE
  OBVIOUS
<1>1. PICK m \in Nat \ A : \A k \in Nat \ A : m <= k
  <2> DEFINE T == Nat \ A
  <2>1. T \subseteq Nat /\ T # {}
    OBVIOUS
  <2> HIDE DEF T
  <2>2. \E m \in T : \A k \in T : m <= k
    BY <2>1, Least
  <2> QED BY <2>2 DEF T
<1>2. m - 1 \in Nat /\ m - 1 \notin Nat \ A
  BY <1>1
<1> QED BY <1>1, <1>2
-----------------------------------------------------------------------------
(***************************************************************************)
(* The PE inspection.                                                      *)
(***************************************************************************)
\* The fields of a header.
LEMMA HeaderFields ==
  ASSUME NEW h \in PeHeader
  PROVE  /\ h.lfanew \in Nat /\ h.signature \in BOOLEAN /\ h.optional \in Nat /\ h.supported \in BOOLEAN
         /\ h.directories \in Nat /\ h.headers \in Nat /\ h.sections \in Seq(Section)
         /\ h.certificate.offset \in Nat /\ h.certificate.size \in Nat
         /\ Len(h.sections) \in Nat /\ DOMAIN h.sections = 1..Len(h.sections)
         /\ \A i \in DOMAIN h.sections : h.sections[i].offset \in Nat /\ h.sections[i].size \in Nat
<1>1. h.sections \in Seq(Section) /\ h.certificate \in [offset : Nat, size : Nat]
  BY DEF PeHeader
<1>2. \A i \in DOMAIN h.sections : h.sections[i] \in Section
  BY <1>1
<1> QED BY <1>1, <1>2 DEF PeHeader, Section

\* The next section: of the sections after i in the order of the sort one comes first.
LEMMA NextSection ==
  ASSUME NEW h \in PeHeader, NEW i \in RawSections(h), NEW j \in RawSections(h), SortsBefore(h, i, j)
  PROVE  \E n \in RawSections(h) :
           /\ SortsBefore(h, i, n)
           /\ ~\E k \in RawSections(h) : SortsBefore(h, i, k) /\ SortsBefore(h, k, n)
           /\ h.sections[n].offset <= h.sections[j].offset
<1> DEFINE off(k) == h.sections[k].offset
           sz(k) == h.sections[k].size
           Later == {k \in RawSections(h) : SortsBefore(h, i, k)}
<1>1. \A k \in RawSections(h) : k \in Nat /\ off(k) \in Nat /\ sz(k) \in Nat
  BY HeaderFields DEF RawSections
<1>2. j \in Later /\ \A k \in Later : k \in RawSections(h)
  OBVIOUS
<1>o. PICK o \in {off(k) : k \in Later} : \A x \in {off(k) : k \in Later} : o <= x
  <2> DEFINE T == {off(k) : k \in Later}
  <2>1. T \subseteq Nat /\ T # {}
    BY <1>1, <1>2
  <2> HIDE DEF T
  <2>2. \E m \in T : \A k \in T : m <= k
    BY <2>1, Least
  <2> QED BY <2>2 DEF T
<1> DEFINE L1 == {k \in Later : off(k) = o}
<1>s. PICK s \in {sz(k) : k \in L1} : \A x \in {sz(k) : k \in L1} : s <= x
  <2> DEFINE T == {sz(k) : k \in L1}
  <2>1. T \subseteq Nat /\ T # {}
    BY <1>1, <1>2, <1>o
  <2> HIDE DEF T
  <2>2. \E m \in T : \A k \in T : m <= k
    BY <2>1, Least
  <2> QED BY <2>2 DEF T
<1> DEFINE L2 == {k \in L1 : sz(k) = s}
<1>n. PICK n \in L2 : \A x \in L2 : n <= x
  <2>1. L2 \subseteq Nat /\ L2 # {}
    BY <1>1, <1>2, <1>s
  <2> HIDE DEF L2
  <2> QED BY <2>1, Least
<1>3. n \in RawSections(h) /\ SortsBefore(h, i, n) /\ off(n) = o /\ sz(n) = s
  OBVIOUS
<1>4. o <= off(j)
  BY <1>2, <1>o
<1>5. ASSUME NEW k \in RawSections(h), SortsBefore(h, i, k), SortsBefore(h, k, n) PROVE FALSE
  <2>1. k \in Later
    BY <1>5
  <2>2. o <= off(k)
    BY <2>1, <1>o
  <2>3. off(k) = o => s <= sz(k)
    BY <2>1, <1>s
  <2>4. off(k) = o /\ sz(k) = s => n <= k
    BY <2>1, <1>n
  <2>5. \/ off(k) < off(n)
        \/ off(k) = off(n) /\ sz(k) < sz(n)
        \/ off(k) = off(n) /\ sz(k) = sz(n) /\ k < n
    BY <1>5 DEF SortsBefore
  <2>6. k \in Nat /\ off(k) \in Nat /\ sz(k) \in Nat /\ n \in Nat /\ off(n) \in Nat /\ sz(n) \in Nat
    BY <1>1, <1>3
  <2> HIDE DEF off, sz, Later, L1, L2
  <2> QED BY ONLY <2>2, <2>3, <2>4, <2>5, <2>6, <1>3
<1> QED BY <1>3, <1>4, <1>5

\* Comparing neighbours of the sorted sections compares them all: where no two
\* neighbours overlap, no two sections do, and the other way round.
LEMMA NeighboursSuffice ==
  ASSUME NEW h \in PeHeader
  PROVE  ~AdjacentOverlap(h) <=> \A i, j \in RawSections(h) : i # j => Disjoint(h.sections[i], h.sections[j])
<1>1. \A k \in RawSections(h) : /\ k \in Nat /\ h.sections[k].offset \in Nat
                                /\ h.sections[k].size \in Nat /\ h.sections[k].size > 0
  BY HeaderFields DEF RawSections
<1>2. ASSUME NEW i \in RawSections(h), NEW j \in RawSections(h), SortsBefore(h, i, j), ~AdjacentOverlap(h)
      PROVE  h.sections[i].offset + h.sections[i].size <= h.sections[j].offset
  <2>1. PICK n \in RawSections(h) :
           /\ SortsBefore(h, i, n)
           /\ ~\E k \in RawSections(h) : SortsBefore(h, i, k) /\ SortsBefore(h, k, n)
           /\ h.sections[n].offset <= h.sections[j].offset
    BY <1>2, NextSection
  <2>2. ~RunsInto(h, i, n)
    BY <1>2, <2>1 DEF AdjacentOverlap
  <2> QED BY <1>1, <2>1, <2>2 DEF RunsInto
<1>3. ASSUME ~AdjacentOverlap(h), NEW i \in RawSections(h), NEW j \in RawSections(h), i # j
      PROVE  Disjoint(h.sections[i], h.sections[j])
  <2>1. SortsBefore(h, i, j) \/ SortsBefore(h, j, i)
    BY <1>1, <1>3 DEF SortsBefore
  <2> QED BY <1>2, <1>3, <2>1 DEF Disjoint
<1>4. ASSUME AdjacentOverlap(h)
      PROVE  \E i, j \in RawSections(h) : i # j /\ ~Disjoint(h.sections[i], h.sections[j])
  <2>1. PICK i \in RawSections(h), j \in RawSections(h) : SortsBefore(h, i, j) /\ RunsInto(h, i, j)
    BY <1>4 DEF AdjacentOverlap
  <2>2. i # j
    BY <1>1, <2>1 DEF SortsBefore
  <2>3. ~Disjoint(h.sections[i], h.sections[j])
    BY <1>1, <2>1 DEF SortsBefore, RunsInto, Disjoint
  <2> QED BY <2>2, <2>3
<1> QED BY <1>3, <1>4

\* A quotient bounds exactly what its multiple bounds.
LEMMA DividesInto ==
  ASSUME NEW a \in Nat, NEW b \in Nat \ {0}, NEW d \in Nat
  PROVE  d > a \div b <=> ~(d * b <= a)
<1> DEFINE q == a \div b
<1>1. q \in Nat /\ a % b \in 0..(b - 1) /\ a = q * b + (a % b)
  BY QuotientRemainder
<1> HIDE DEF q
<1>2. ASSUME d > q PROVE ~(d * b <= a)
  <2>1. (q + 1) * b <= d * b
    BY <1>1, <1>2, TimesMonotone
  <2>2. (q + 1) * b = q * b + b
    BY <1>1
  <2> DEFINE x == q * b
             y == d * b
  <2>3. x \in Int /\ y \in Int /\ a = x + (a % b) /\ x + b <= y
    BY <1>1, <2>1, <2>2
  <2> HIDE DEF x, y
  <2>4. ~(y <= a)
    BY <1>1, <2>3
  <2> QED BY <2>4 DEF y
<1>3. ASSUME d <= q PROVE d * b <= a
  <2>1. d * b <= q * b
    BY <1>1, <1>3, TimesMonotone
  <2> QED BY <1>1, <2>1
<1>4. d > q \/ d <= q
  BY <1>1
<1> QED BY <1>2, <1>3, <1>4 DEF q

\* No check of _inspect fails.
Passes(h, size) == \A i \in DOMAIN PeChecks(h, size) : ~PeChecks(h, size)[i].fails

\* The headers and section table, as _inspect reads them one after the other.
HeaderPasses(h, size) ==
  /\ ~(size < DosSize)
  /\ ~(h.lfanew < DosSize \/ h.lfanew + CoffSize > size)
  /\ ~(h.lfanew > MaxPeOffset)
  /\ h.signature
  /\ ~(Len(h.sections) = 0)
  /\ ~(Len(h.sections) > MaxSections)
  /\ ~(h.optional < MagicSize)
  /\ ~(h.optional > MaxOptional)
  /\ ~(TableOffset(h) > size)
  /\ h.supported
  /\ ~(h.optional < BaseSize)
  /\ ~(h.directories > (h.optional - BaseSize) \div DirSize)
  /\ ~(TableEnd(h) > size)
  /\ ~(h.headers < TableEnd(h) \/ h.headers > size)

\* The raw data and the certificate.
DataPasses(h, size) ==
  /\ ~\E i \in RawSections(h) :
        h.sections[i].offset < h.headers \/ h.sections[i].offset + h.sections[i].size > size
  /\ ~AdjacentOverlap(h)
  /\ ~BadCertificate(h, size)
  /\ ~CertificateOverlap(h)

\* There are eighteen checks, none of which reports a COMPLETE image when it fails.
LEMMA ChecksListed ==
  ASSUME NEW h, NEW size
  PROVE  /\ DOMAIN PeChecks(h, size) = 1..18
         /\ \A i \in 1..18 : PeChecks(h, size)[i].code \in {"INCOMPLETE", "UNSUPPORTED"}
BY DEF PeChecks

\* The checks are the two groups.
LEMMA PassesGroups ==
  ASSUME NEW h \in PeHeader, NEW size
  PROVE  Passes(h, size) <=> HeaderPasses(h, size) /\ DataPasses(h, size)
<1> DEFINE c == PeChecks(h, size)
<1>1. Passes(h, size) <=> \A i \in 1..18 : ~c[i].fails
  BY ChecksListed DEF Passes
<1>2. \A i \in 1..18 : \/ i = 1 \/ i = 2 \/ i = 3 \/ i = 4 \/ i = 5 \/ i = 6 \/ i = 7 \/ i = 8 \/ i = 9
                       \/ i = 10 \/ i = 11 \/ i = 12 \/ i = 13 \/ i = 14 \/ i = 15 \/ i = 16 \/ i = 17 \/ i = 18
  OBVIOUS
<1>3. (\A i \in 1..18 : ~c[i].fails) <=>
        /\ ~c[1].fails /\ ~c[2].fails /\ ~c[3].fails /\ ~c[4].fails /\ ~c[5].fails /\ ~c[6].fails
        /\ ~c[7].fails /\ ~c[8].fails /\ ~c[9].fails /\ ~c[10].fails /\ ~c[11].fails /\ ~c[12].fails
        /\ ~c[13].fails /\ ~c[14].fails /\ ~c[15].fails /\ ~c[16].fails /\ ~c[17].fails /\ ~c[18].fails
  <2> HIDE DEF c
  <2> QED BY <1>2
<1>4. /\ c[1].fails = (size < DosSize)
      /\ c[2].fails = (h.lfanew < DosSize \/ h.lfanew + CoffSize > size)
      /\ c[3].fails = (h.lfanew > MaxPeOffset)
      /\ c[4].fails = ~h.signature
      /\ c[5].fails = (Len(h.sections) = 0)
      /\ c[6].fails = (Len(h.sections) > MaxSections)
      /\ c[7].fails = (h.optional < MagicSize)
      /\ c[8].fails = (h.optional > MaxOptional)
      /\ c[9].fails = (TableOffset(h) > size)
      /\ c[10].fails = ~h.supported
      /\ c[11].fails = (h.optional < BaseSize)
      /\ c[12].fails = (h.directories > (h.optional - BaseSize) \div DirSize)
      /\ c[13].fails = (TableEnd(h) > size)
      /\ c[14].fails = (h.headers < TableEnd(h) \/ h.headers > size)
      /\ c[15].fails = \E i \in RawSections(h) :
                 LET s == h.sections[i] IN s.offset < h.headers \/ s.offset + s.size > size
      /\ c[16].fails = AdjacentOverlap(h)
      /\ c[17].fails = BadCertificate(h, size)
      /\ c[18].fails = CertificateOverlap(h)
  BY DEF PeChecks
<1> HIDE DEF c
<1>5. HeaderPasses(h, size) <=>
        /\ ~c[1].fails /\ ~c[2].fails /\ ~c[3].fails /\ ~c[4].fails /\ ~c[5].fails /\ ~c[6].fails
        /\ ~c[7].fails /\ ~c[8].fails /\ ~c[9].fails /\ ~c[10].fails /\ ~c[11].fails /\ ~c[12].fails
        /\ ~c[13].fails /\ ~c[14].fails
  BY <1>4 DEF HeaderPasses
<1>6. DataPasses(h, size) <=> ~c[15].fails /\ ~c[16].fails /\ ~c[17].fails /\ ~c[18].fails
  BY <1>4 DEF DataPasses
<1> QED BY ONLY <1>1, <1>3, <1>5, <1>6

\* What a well-formed image asks of its headers.
WellFormedHeader(h, size) ==
  /\ h.signature /\ h.supported
  /\ h.lfanew \in DosSize..MaxPeOffset /\ h.optional \in BaseSize..MaxOptional
  /\ Len(h.sections) \in 1..MaxSections
  /\ BaseSize + h.directories * DirSize <= h.optional
  /\ TableEnd(h) <= h.headers /\ h.headers <= size

\* The constants of pe.py are sizes.
LEMMA PeUnits ==
  /\ DosSize \in Nat \ {0} /\ CoffSize \in Nat \ {0} /\ MagicSize \in Nat \ {0} /\ BaseSize \in Nat \ {0}
  /\ DirSize \in Nat \ {0} /\ SectionSize \in Nat \ {0} /\ MaxPeOffset \in Nat /\ MaxOptional \in Nat
  /\ MaxSections \in Nat /\ MagicSize <= BaseSize
BY AnalysisAssumption

\* The section table lies after the headers before it.
LEMMA TablePlace ==
  ASSUME NEW h \in PeHeader
  PROVE  /\ TableOffset(h) \in Nat /\ TableEnd(h) \in Nat /\ TableOffset(h) <= TableEnd(h)
         /\ h.lfanew + CoffSize <= TableOffset(h)
<1> DEFINE m == Len(h.sections) * SectionSize
<1>1. m \in Nat
  BY HeaderFields, PeUnits
<1>2. TableEnd(h) = TableOffset(h) + m /\ TableOffset(h) = h.lfanew + CoffSize + h.optional
  BY DEF TableEnd, TableOffset
<1> HIDE DEF m
<1> QED BY <1>1, <1>2, HeaderFields, PeUnits

\* The header checks ask for just that.
LEMMA HeaderExact ==
  ASSUME NEW h \in PeHeader, NEW size \in Nat
  PROVE  HeaderPasses(h, size) <=> WellFormedHeader(h, size)
<1> DEFINE n == Len(h.sections)
           d == h.directories * DirSize
           o == TableOffset(h)
           e == TableEnd(h)
<1>1. /\ h.lfanew \in Nat /\ h.signature \in BOOLEAN /\ h.optional \in Nat /\ h.supported \in BOOLEAN
      /\ h.directories \in Nat /\ h.headers \in Nat /\ n \in Nat
  BY HeaderFields
<1>2. o \in Nat /\ e \in Nat /\ o <= e /\ h.lfanew + CoffSize <= o
  BY TablePlace
<1>3. d \in Nat
  BY <1>1, PeUnits
<1>4. h.optional >= BaseSize =>
        (h.directories > (h.optional - BaseSize) \div DirSize <=> ~(d <= h.optional - BaseSize))
  <2> SUFFICES ASSUME h.optional >= BaseSize
               PROVE  h.directories > (h.optional - BaseSize) \div DirSize <=> ~(d <= h.optional - BaseSize)
    OBVIOUS
  <2> DEFINE a == h.optional - BaseSize
  <2>1. a \in Nat
    BY <1>1, PeUnits
  <2> HIDE DEF a
  <2>2. h.directories > a \div DirSize <=> ~(h.directories * DirSize <= a)
    BY <1>1, <2>1, PeUnits, DividesInto
  <2> QED BY <2>2 DEF a
<1>5. HeaderPasses(h, size) <=>
        /\ ~(size < DosSize)
        /\ ~(h.lfanew < DosSize \/ h.lfanew + CoffSize > size)
        /\ ~(h.lfanew > MaxPeOffset)
        /\ h.signature
        /\ ~(n = 0) /\ ~(n > MaxSections)
        /\ ~(h.optional < MagicSize) /\ ~(h.optional > MaxOptional)
        /\ ~(o > size)
        /\ h.supported
        /\ ~(h.optional < BaseSize)
        /\ ~(h.directories > (h.optional - BaseSize) \div DirSize)
        /\ ~(e > size)
        /\ ~(h.headers < e \/ h.headers > size)
  BY DEF HeaderPasses
<1>6. WellFormedHeader(h, size) <=>
        /\ h.signature /\ h.supported
        /\ h.lfanew \in DosSize..MaxPeOffset /\ h.optional \in BaseSize..MaxOptional
        /\ n \in 1..MaxSections
        /\ BaseSize + d <= h.optional
        /\ e <= h.headers /\ h.headers <= size
  BY DEF WellFormedHeader
<1> DEFINE bad == h.directories > (h.optional - BaseSize) \div DirSize
<1>7. h.optional >= BaseSize => (bad <=> ~(d <= h.optional - BaseSize))
  BY <1>4
<1>8. HeaderPasses(h, size) <=>
        /\ ~(size < DosSize)
        /\ ~(h.lfanew < DosSize \/ h.lfanew + CoffSize > size)
        /\ ~(h.lfanew > MaxPeOffset)
        /\ h.signature
        /\ ~(n = 0) /\ ~(n > MaxSections)
        /\ ~(h.optional < MagicSize) /\ ~(h.optional > MaxOptional)
        /\ ~(o > size)
        /\ h.supported
        /\ ~(h.optional < BaseSize)
        /\ ~bad
        /\ ~(e > size)
        /\ ~(h.headers < e \/ h.headers > size)
  BY <1>5
<1> HIDE DEF n, d, o, e, bad
<1> QED BY ONLY <1>1, <1>2, <1>3, <1>6, <1>7, <1>8, PeUnits, size \in Nat

\* The ranges of a well-formed image.
WellFormedData(h, size) ==
  /\ h.certificate.offset > 0 <=> h.certificate.size > 0
  /\ \A i \in DOMAIN Ranges(h) : Ranges(h)[i].offset + Ranges(h)[i].size <= size
  /\ \A i, j \in DOMAIN Ranges(h) : i # j => Disjoint(Ranges(h)[i], Ranges(h)[j])

\* A range is that of the headers, of a section with raw data or of a certificate.
LEMMA RangesListed ==
  ASSUME NEW h \in PeHeader
  PROVE  /\ \A i : i \in DOMAIN Ranges(h) <=>
                   \/ i = 0 \/ i \in RawSections(h)
                   \/ i = Len(h.sections) + 1 /\ h.certificate.size > 0
         /\ Ranges(h)[0].offset = 0 /\ Ranges(h)[0].size = h.headers
         /\ \A i \in RawSections(h) : /\ i # 0 /\ i # Len(h.sections) + 1
                                      /\ Ranges(h)[i] = h.sections[i]
         /\ Len(h.sections) + 1 # 0
         /\ h.certificate.size > 0 => Ranges(h)[Len(h.sections) + 1] = h.certificate
<1> DEFINE cert == Len(h.sections) + 1
<1>1. cert \in Nat /\ cert # 0 /\ \A i \in RawSections(h) : i \in Nat /\ i # 0 /\ i # cert
  BY HeaderFields DEF RawSections
<1>2. Ranges(h) = [i \in {0} \cup RawSections(h) \cup {k \in {cert} : h.certificate.size > 0} |->
                     IF i = 0 THEN [offset |-> 0, size |-> h.headers]
                     ELSE IF i = cert THEN h.certificate ELSE h.sections[i]]
  BY DEF Ranges
<1> HIDE DEF cert
<1>3. /\ \A i : i \in DOMAIN Ranges(h) <=>
                     i = 0 \/ i \in RawSections(h) \/ (i = cert /\ h.certificate.size > 0)
      /\ Ranges(h)[0] = [offset |-> 0, size |-> h.headers]
      /\ \A i \in RawSections(h) : i # 0 /\ i # cert /\ Ranges(h)[i] = h.sections[i]
      /\ h.certificate.size > 0 => Ranges(h)[cert] = h.certificate
  BY ONLY <1>1, <1>2
<1> QED BY <1>1, <1>3 DEF cert

\* Given headers within the file, the range checks ask for just that.
LEMMA DataExact ==
  ASSUME NEW h \in PeHeader, NEW size \in Nat, h.headers <= size, h.headers > 0
  PROVE  DataPasses(h, size) <=> WellFormedData(h, size)
<1> DEFINE cert == Len(h.sections) + 1
           c == h.certificate
           sec(i) == h.sections[i]
<1>0. /\ h.headers \in Nat /\ c.offset \in Nat /\ c.size \in Nat
      /\ \A i \in RawSections(h) : sec(i).offset \in Nat /\ sec(i).size \in Nat /\ sec(i).size > 0
  BY HeaderFields DEF RawSections
<1>1. /\ \A i : i \in DOMAIN Ranges(h) <=> i = 0 \/ i \in RawSections(h) \/ (i = cert /\ c.size > 0)
      /\ Ranges(h)[0].offset = 0 /\ Ranges(h)[0].size = h.headers
      /\ \A i \in RawSections(h) : i # 0 /\ i # cert /\ Ranges(h)[i] = sec(i)
      /\ cert # 0
      /\ c.size > 0 => Ranges(h)[cert] = c
  BY RangesListed
<1> HIDE DEF cert
<1>2. ASSUME DataPasses(h, size) PROVE WellFormedData(h, size)
  <2>1. \A i \in RawSections(h) : h.headers <= sec(i).offset /\ sec(i).offset + sec(i).size <= size
    BY <1>0, <1>2 DEF DataPasses
  <2>2. \A i, j \in RawSections(h) : i # j => Disjoint(sec(i), sec(j))
    BY <1>2, NeighboursSuffice DEF DataPasses
  <2>3. \/ c.offset = 0 /\ c.size = 0
        \/ c.offset > 0 /\ c.size > 0 /\ h.headers <= c.offset /\ c.offset + c.size <= size
    BY <1>0, <1>2 DEF DataPasses, BadCertificate
  <2>4. c.size > 0 => \A i \in RawSections(h) : Disjoint(c, sec(i)) /\ Disjoint(sec(i), c)
    BY <1>0, <1>2 DEF DataPasses, CertificateOverlap, Disjoint
  <2>5. \A i \in DOMAIN Ranges(h) : Ranges(h)[i].offset + Ranges(h)[i].size <= size
    BY <1>0, <1>1, <2>1, <2>3
  <2>6. ASSUME NEW i \in DOMAIN Ranges(h), NEW j \in DOMAIN Ranges(h), i # j
        PROVE  Disjoint(Ranges(h)[i], Ranges(h)[j])
    <3>1. CASE i = 0
      BY <1>0, <1>1, <2>1, <2>3, <2>6, <3>1 DEF Disjoint
    <3>2. CASE j = 0
      BY <1>0, <1>1, <2>1, <2>3, <2>6, <3>2 DEF Disjoint
    <3>3. CASE i \in RawSections(h) /\ j \in RawSections(h)
      BY <1>1, <2>2, <2>6, <3>3
    <3>4. CASE i = cert /\ j \in RawSections(h)
      BY <1>1, <2>4, <3>4
    <3>5. CASE j = cert /\ i \in RawSections(h)
      BY <1>1, <2>4, <3>5
    <3> QED BY <1>1, <2>6, <3>1, <3>2, <3>3, <3>4, <3>5
  <2> QED BY <2>3, <2>5, <2>6 DEF WellFormedData
<1>3. ASSUME WellFormedData(h, size) PROVE DataPasses(h, size)
  <2>1. ASSUME NEW i \in RawSections(h)
        PROVE  h.headers <= sec(i).offset /\ sec(i).offset + sec(i).size <= size
    <3>1. 0 \in DOMAIN Ranges(h) /\ i \in DOMAIN Ranges(h) /\ i # 0
      BY <1>1
    <3>2. Disjoint(Ranges(h)[0], Ranges(h)[i]) /\ Ranges(h)[i].offset + Ranges(h)[i].size <= size
      BY <1>3, <3>1 DEF WellFormedData
    <3> QED BY <1>0, <1>1, <3>2 DEF Disjoint
  <2>2. \A i, j \in RawSections(h) : i # j => Disjoint(sec(i), sec(j))
    BY <1>1, <1>3 DEF WellFormedData
  <2>3. ~AdjacentOverlap(h)
    BY <2>2, NeighboursSuffice
  <2>4. c.offset > 0 <=> c.size > 0
    BY <1>3 DEF WellFormedData
  <2>5. c.size > 0 => h.headers <= c.offset /\ c.offset + c.size <= size
    <3> SUFFICES ASSUME c.size > 0 PROVE h.headers <= c.offset /\ c.offset + c.size <= size
      OBVIOUS
    <3>1. 0 \in DOMAIN Ranges(h) /\ cert \in DOMAIN Ranges(h) /\ cert # 0
      BY <1>1
    <3>2. Disjoint(Ranges(h)[0], Ranges(h)[cert]) /\ Ranges(h)[cert].offset + Ranges(h)[cert].size <= size
      BY <1>3, <3>1 DEF WellFormedData
    <3> QED BY <1>0, <1>1, <3>2 DEF Disjoint
  <2>6. ~BadCertificate(h, size)
    BY <1>0, <2>4, <2>5 DEF BadCertificate
  <2>7. ~CertificateOverlap(h)
    <3> SUFFICES ASSUME c.size > 0, NEW i \in RawSections(h)
                 PROVE  ~(c.offset < sec(i).offset + sec(i).size /\ sec(i).offset < c.offset + c.size)
      BY DEF CertificateOverlap
    <3>1. cert \in DOMAIN Ranges(h) /\ i \in DOMAIN Ranges(h) /\ i # cert
      BY <1>1
    <3>2. Disjoint(Ranges(h)[cert], Ranges(h)[i])
      BY <1>3, <3>1 DEF WellFormedData
    <3> QED BY <1>0, <1>1, <3>2 DEF Disjoint
  <2>8. ~\E i \in RawSections(h) :
           h.sections[i].offset < h.headers \/ h.sections[i].offset + h.sections[i].size > size
    BY <1>0, <2>1
  <2> QED BY <2>3, <2>6, <2>7, <2>8 DEF DataPasses
<1> QED BY <1>2, <1>3

\* _inspect reports COMPLETE exactly for the well-formed images, whatever their
\* number of sections and in whatever order the table lists them.
THEOREM InspectExact ==
  ASSUME NEW h \in PeHeader, NEW size \in Nat
  PROVE  Inspect(h, size).status = "COMPLETE" <=> WellFormed(h, size)
<1> DEFINE failing == {i \in DOMAIN PeChecks(h, size) : PeChecks(h, size)[i].fails}
           first == CHOOSE i \in failing : \A j \in failing : i <= j
<1>1. failing \subseteq 1..18 /\ (failing = {} <=> Passes(h, size))
  BY ChecksListed DEF Passes
<1>2. Inspect(h, size) = IF failing = {} THEN [status |-> "COMPLETE", isPe |-> TRUE]
                         ELSE [status |-> PeChecks(h, size)[first].code, isPe |-> first > 4]
  BY DEF Inspect
<1>3. failing # {} => PeChecks(h, size)[first].code # "COMPLETE"
  <2> SUFFICES ASSUME failing # {} PROVE PeChecks(h, size)[first].code # "COMPLETE"
    OBVIOUS
  <2> HIDE DEF failing
  <2>1. \E m \in failing : \A k \in failing : m <= k
    <3>1. failing \subseteq Nat
      BY <1>1
    <3> QED BY <3>1, Least
  <2>2. first \in failing
    BY <2>1
  <2> HIDE DEF first
  <2>3. PeChecks(h, size)[first].code \in {"INCOMPLETE", "UNSUPPORTED"}
    BY <1>1, <2>2, ChecksListed
  <2> QED BY <2>3
<1> HIDE DEF failing, first
<1>4. Inspect(h, size).status = "COMPLETE" <=> Passes(h, size)
  BY <1>1, <1>2, <1>3
<1>5. WellFormedHeader(h, size) => h.headers > 0
  BY HeaderFields, TablePlace, PeUnits DEF WellFormedHeader
<1>6. Passes(h, size) <=> WellFormedHeader(h, size) /\ WellFormedData(h, size)
  <2>1. WellFormedHeader(h, size) => h.headers <= size
    BY DEF WellFormedHeader
  <2> QED BY <1>5, <2>1, PassesGroups, HeaderExact, DataExact
<1>7. WellFormedHeader(h, size) /\ WellFormedData(h, size) <=> WellFormed(h, size)
  <2>1. WellFormed(h, size) => h.headers <= size
    <3> SUFFICES ASSUME WellFormed(h, size) PROVE h.headers <= size
      OBVIOUS
    <3>1. 0 \in DOMAIN Ranges(h) /\ Ranges(h)[0].offset = 0 /\ Ranges(h)[0].size = h.headers
      BY RangesListed
    <3>2. Ranges(h)[0].offset + Ranges(h)[0].size <= size
      BY <3>1 DEF WellFormed
    <3> QED BY <3>1, <3>2, HeaderFields
  <2> QED BY <2>1 DEF WellFormed, WellFormedHeader, WellFormedData
<1> QED BY <1>4, <1>6, <1>7

Unread == {"start", "stat", "head"}
Uninspected == {"mime", "elf", "pe"}

\* While nobody changes a file, its event's descriptor shows the bytes of the head, and
\* the inspection once made is that of the whole file.
PeInv ==
  /\ DOMAIN scan = ScanFields /\ disk \in [Files -> Contents] /\ changes \in Nat
  /\ path \in Files \cup {None} /\ scan.fd \in Files \cup {None}
  /\ scan.pc \in Unread => scan.head = "OTHER"
  /\ scan.trusted /\ changes = 0 /\ scan.head = "MZ" =>
       /\ scan.fd \in Files /\ scan.fd # None
       /\ disk[scan.fd].magic = "MZ" /\ ~Unreadable(disk[scan.fd])
       /\ scan.pc \notin Uninspected =>
            scan.pe = Inspect(disk[scan.fd].pe, disk[scan.fd].size)

\* A step that reads neither the head nor the image.
LEMMA PeQuiet ==
  ASSUME PeInv, DOMAIN scan' = ScanFields, disk' = disk, path' = path, changes' = changes,
         scan'.trusted = scan.trusted, scan'.fd = scan.fd, scan'.head = scan.head, scan'.pe = scan.pe,
         scan'.pc \notin Unread \/ scan.pc \in Unread,
         scan'.pc \in Uninspected \/ scan.pc \notin Uninspected
  PROVE  PeInv'
BY DEF PeInv

\* What other programs do ends the claim.
LEMMA PeChanged ==
  ASSUME PeInv, Replace \/ Rewrite
  PROVE  PeInv'
<1>0. /\ scan' = scan /\ changes' \in Nat /\ changes' # 0 /\ path' \in Files \cup {None}
  BY DEF PeInv, Replace, Rewrite
<1>1. disk' \in [Files -> Contents]
  <2>1. Rewrites \subseteq Contents
    BY AnalysisAssumption
  <2> QED BY <2>1 DEF PeInv, Replace, Rewrite
<1> QED BY <1>0, <1>1 DEF PeInv

\* Every step keeps the invariant.
LEMMA PeStep ==
  ASSUME PeInv, [ScanNext]_scanVars
  PROVE  PeInv'
<1>0. /\ DOMAIN scan = ScanFields /\ path \in Files \cup {None} /\ scan.fd \in Files \cup {None}
      /\ (scan.pc \in Unread => scan.head = "OTHER")
  BY DEF PeInv
<1>1. CASE Begin
  <2>1. /\ DOMAIN scan' = ScanFields /\ scan'.pc = "stat" /\ scan'.head = "OTHER"
        /\ scan'.fd \in Files \cup {None}
    BY <1>0, <1>1 DEF Begin, At, ScanFields, Unread
  <2>2. path' = path /\ disk' = disk /\ changes' = changes
    BY <1>1 DEF Begin
  <2> QED BY <1>0, <2>1, <2>2 DEF PeInv
<1>2. CASE Stat
  BY <1>0, <1>2, PeQuiet DEF Stat, Fail, At, ScanFields, Unread, Uninspected
<1>3. CASE ReadHead
  <2>1. CASE Unreadable(Holds(Target))
    BY <1>0, <1>3, <2>1, PeQuiet DEF ReadHead, Fail, At, ScanFields, Unread, Uninspected
  <2>2. CASE ~Unreadable(Holds(Target))
    <3>1. /\ DOMAIN scan' = ScanFields /\ scan'.pc = "mime" /\ scan'.head = disk[Target].magic
          /\ scan'.fd = scan.fd /\ scan'.trusted = scan.trusted
      BY <1>0, <1>3, <2>2 DEF ReadHead, ScanFields
    <3>2. path' = path /\ disk' = disk /\ changes' = changes
      BY <1>3 DEF ReadHead
    <3>3. Target # None /\ ~Unreadable(disk[Target])
      BY <2>2 DEF Holds, Unreadable
    <3>4. scan.trusted => Target = scan.fd
      BY DEF Target
    <3>5. "mime" \notin Unread /\ "mime" \in Uninspected
      BY DEF Unread, Uninspected
    <3>6. Unreadable(disk[scan.fd])' = Unreadable(disk[scan.fd])
      BY <3>1, <3>2 DEF Unreadable
    <3> QED BY <1>0, <3>1, <3>2, <3>3, <3>4, <3>5, <3>6 DEF PeInv
  <2> QED BY <2>1, <2>2
<1>4. CASE DetectMime
  BY <1>0, <1>4, PeQuiet DEF DetectMime, At, ScanFields, Unread, Uninspected
<1>5. CASE SkipElf
  BY <1>0, <1>5, PeQuiet DEF SkipElf, Goto, At, ScanFields, Unread, Uninspected
<1>6. CASE AnalyzeElf
  BY <1>0, <1>6, PeQuiet DEF AnalyzeElf, Fail, At, ScanFields, Unread, Uninspected
<1>7. CASE InspectPe
  <2>1. /\ DOMAIN scan' = ScanFields /\ scan'.pc = "entropyStat" /\ scan'.head = scan.head
        /\ scan'.fd = scan.fd /\ scan'.trusted = scan.trusted
        /\ scan'.pe = AnalyzePe(scan.head, Holds(Target))
    BY <1>0, <1>7 DEF InspectPe, ScanFields
  <2>2. path' = path /\ disk' = disk /\ changes' = changes
    BY <1>7 DEF InspectPe
  <2>3. "entropyStat" \notin Unread
    BY DEF Unread
  <2>4. ASSUME scan.trusted, changes = 0, scan.head = "MZ"
        PROVE  scan'.pe = Inspect(disk[scan.fd].pe, disk[scan.fd].size)
    <3>1. /\ scan.fd \in Files /\ scan.fd # None
          /\ disk[scan.fd].magic = "MZ" /\ ~Unreadable(disk[scan.fd])
      BY <2>4 DEF PeInv
    <3>2. Holds(Target) = disk[scan.fd]
      BY <2>4, <3>1 DEF Holds, Target
    <3>3. AnalyzePe("MZ", disk[scan.fd]) = Inspect(disk[scan.fd].pe, disk[scan.fd].size)
      BY <3>1 DEF AnalyzePe
    <3> QED BY <2>1, <2>4, <3>2, <3>3
  <2>5. Unreadable(disk[scan.fd])' = Unreadable(disk[scan.fd])
    BY <2>1, <2>2 DEF Unreadable
  <2>6. Inspect(disk[scan.fd].pe, disk[scan.fd].size)' = Inspect(disk[scan.fd].pe, disk[scan.fd].size)
    BY <2>1, <2>2
  <2> QED BY <2>1, <2>2, <2>3, <2>4, <2>5, <2>6 DEF PeInv
<1>8. CASE EntropyStat
  BY <1>0, <1>8, PeQuiet DEF EntropyStat, Goto, Fail, At, ScanFields, Unread, Uninspected
<1>9. CASE EntropyOpen
  BY <1>0, <1>9, PeQuiet DEF EntropyOpen, Goto, Fail, At, ScanFields, Unread, Uninspected
<1>10. CASE EntropyRead
  <2>1. scan' = scan /\ disk' = disk /\ path' = path /\ changes' = changes
    BY <1>10 DEF EntropyRead
  <2> QED BY <1>0, <2>1, PeQuiet
<1>11. CASE EntropyEnd
  <2>1. /\ DOMAIN scan' = ScanFields /\ scan'.pc = "conclude" /\ scan'.trusted = scan.trusted
        /\ scan'.fd = scan.fd /\ scan'.head = scan.head /\ scan'.pe = scan.pe /\ scan.pc = "entropy"
        /\ disk' = disk /\ path' = path /\ changes' = changes
    BY <1>0, <1>11 DEF EntropyEnd, Fail, At, ScanFields
  <2> QED BY <1>0, <2>1, PeQuiet DEF Unread, Uninspected
<1>12. CASE EntropyFails
  BY <1>0, <1>12, PeQuiet DEF EntropyFails, Fail, At, ScanFields, Unread, Uninspected
<1>13. CASE Conclude
  BY <1>0, <1>13, PeQuiet DEF Conclude, At, ScanFields, Unread, Uninspected
<1>14. CASE ScoreResult
  BY <1>0, <1>14, PeQuiet DEF ScoreResult, At, ScanFields, Unread, Uninspected
<1>15. CASE UNCHANGED scanVars
  BY <1>0, <1>15, PeQuiet DEF scanVars
<1> QED BY <1>1, <1>2, <1>3, <1>4, <1>5, <1>6, <1>7, <1>8, <1>9, <1>10, <1>11, <1>12, <1>13,
           <1>14, <1>15, PeChanged DEF ScanNext, Scan

\* An MZ file that nobody changes during a fanotify scan is reported COMPLETE exactly
\* when its headers, sections and certificate lie within the file and are disjoint
\* (PeReportExact).
THEOREM PeReportsCorrect == ScanSpec => []PeReportExact
<1>1. ScanInit => PeInv
  <2> SUFFICES ASSUME ScanInit PROVE PeInv
    OBVIOUS
  <2>1. DOMAIN scan = ScanFields /\ scan.fd = None /\ scan.head = "OTHER" /\ changes = 0
    BY DEF ScanInit, NoScan, ScanFields
  <2>2. path \in Files /\ disk \in [Files -> Contents]
    BY AnalysisAssumption DEF ScanInit
  <2> QED BY <2>1, <2>2 DEF PeInv
<1>2. PeInv /\ [ScanNext]_scanVars => PeInv'
  BY PeStep
<1>3. PeInv => PeReportExact
  <2> SUFFICES ASSUME PeInv, Done, scan.trusted, changes = 0, scan.head = "MZ"
               PROVE  scan.pe.status = "COMPLETE" <=> WellFormed(disk[scan.fd].pe, disk[scan.fd].size)
    BY DEF PeReportExact
  <2> DEFINE c == disk[scan.fd]
  <2>1. scan.pc \notin Uninspected
    BY DEF Done, At, Uninspected
  <2>2. /\ scan.fd \in Files /\ c.magic = "MZ" /\ scan.pe = Inspect(c.pe, c.size)
        /\ disk \in [Files -> Contents]
    BY <2>1 DEF PeInv
  <2>3. c \in Contents
    BY <2>2
  <2> HIDE DEF c
  <2>4. c.pe \in PeHeader /\ c \in Content
    BY <2>2, <2>3, AnalysisAssumption
  <2>5. c.size \in Nat
    BY <2>4 DEF Content
  <2>6. scan.pe.status = "COMPLETE" <=> WellFormed(c.pe, c.size)
    BY <2>2, <2>4, <2>5, InspectExact
  <2> QED BY <2>6 DEF c
<1> QED BY <1>1, <1>2, <1>3, PTL DEF ScanSpec

-----------------------------------------------------------------------------
(***************************************************************************)
(* Telemetry: the types of its variables and the limits of its containers. *)
(***************************************************************************)
Tgids    == {a.tgid : a \in Activity}
Notices  == [kind : {"LOST"}, count : Nat]
Items    == Records \cup Notices
Entries  == [fp : {Fingerprint(e) : e \in Records}, ts : Nat]
Parents  == [tgid : {e.tgid : e \in Records}, ppid : {e.ppid : e \in Records}]
Verdicts == [e : Records, passed : BOOLEAN]
Fed      == [e : Records, at : Nat, evicted : Tgids \cup {Null}]

KernelTyped ==
  /\ clock \in 1..MaxClock /\ emitted \in 0..MaxEvents /\ dropped \in Nat
  /\ rings \in [Cpus -> Seq(Items)] /\ overrun \in [Cpus -> Nat]
  /\ \A c \in Cpus : Cardinality(Ids(rings[c])) <= RingSize

FiltersTyped ==
  /\ recent \in Seq(Entries)
  /\ ancestry \in Seq(Parents) /\ Len(ancestry) <= MaxTracked
  /\ queue \in Seq(Records) /\ Len(queue) <= QueueSize
  /\ renames \in Seq(Verdicts)
  /\ discarded \subseteq Nat

SinkTyped ==
  /\ ingested \in Seq(Fed) /\ \A i \in 1..Len(ingested) : ingested[i].at <= clock
  /\ DOMAIN states \subseteq Tgids /\ IsFiniteSet(DOMAIN states)
  /\ Cardinality(DOMAIN states) <= MaxStates
  /\ \A t \in DOMAIN states : states[t].seen \in Nat

DataTyped == KernelTyped /\ FiltersTyped /\ SinkTyped

\* The limits are numbers.
LEMMA Limits ==
  /\ MaxTracked \in Nat \ {0} /\ QueueSize \in Nat \ {0} /\ RingSize \in Nat \ {0}
  /\ MaxStates \in Nat \ {0} /\ MaxFiles \in Nat \ {0}
  /\ Window \in Nat /\ Ttl \in Nat /\ MaxEvents \in Nat /\ MaxClock \in Nat \ {0}
  /\ Null \notin Nat /\ Tgids \subseteq Nat /\ Null \notin Tgids
<1>1. Tgids \subseteq Nat
  BY LimitsAssumption DEF Tgids
<1> QED BY <1>1, LimitsAssumption

\* The fields of a record, and of a loss notice.
LEMMA RecordFields ==
  ASSUME NEW e \in Records
  PROVE  /\ ~IsNotice(e) /\ e.kind \in Kinds /\ e.tgid \in Tgids
         /\ e.ts \in 1..MaxClock /\ e.id \in 1..MaxEvents
<1>1. e.kind \in Kinds /\ e.tgid \in Tgids /\ e.ts \in 1..MaxClock /\ e.id \in 1..MaxEvents
  BY DEF Records, Tgids
<1> QED BY <1>1 DEF IsNotice, Kinds

\* An item of a buffer is one or the other.
LEMMA ItemSplit ==
  ASSUME NEW x \in Items
  PROVE  /\ IsNotice(x) => x.count \in Nat
         /\ ~IsNotice(x) => x \in Records
<1>1. CASE x \in Records
  BY <1>1, RecordFields
<1>2. CASE x \in Notices
  BY <1>2 DEF Notices, IsNotice
<1> QED BY <1>1, <1>2 DEF Items

\* What the probe submits is a record.
LEMMA SampleTyped ==
  ASSUME NEW a \in Activity, clock \in 1..MaxClock, emitted \in 0..MaxEvents, emitted < MaxEvents
  PROVE  /\ Sample(a) \in Records /\ Sample(a).id = emitted + 1
         /\ Sample(a).ts = clock
<1>1. emitted + 1 \in 1..MaxEvents
  BY Limits
<1>2. a.kind \in Kinds
  BY LimitsAssumption
<1> QED BY <1>1, <1>2 DEF Sample, Records

\* The records of a buffer when an item arrives.
LEMMA IdsAppend ==
  ASSUME NEW s \in Seq(Items), NEW x \in Items
  PROVE  /\ Append(s, x) \in Seq(Items)
         /\ Ids(Append(s, x)) = IF IsNotice(x) THEN Ids(s) ELSE Ids(s) \cup {x.id}
<1> DEFINE t == Append(s, x)
<1>1. /\ t \in Seq(Items) /\ Len(t) = Len(s) + 1 /\ Len(s) \in Nat
      /\ \A i \in 1..Len(s) : t[i] = s[i]
      /\ t[Len(s) + 1] = x
  BY AppendProperties, LenProperties
<1> HIDE DEF t
<1>2. \A y : y \in Ids(t) <=> \E i \in 1..Len(t) : ~IsNotice(t[i]) /\ y = t[i].id
  BY DEF Ids
<1>3. \A y : y \in Ids(s) <=> \E i \in 1..Len(s) : ~IsNotice(s[i]) /\ y = s[i].id
  BY DEF Ids
<1>4. \A i \in 1..Len(t) : i \in 1..Len(s) \/ i = Len(s) + 1
  BY <1>1
<1>5. \A i \in 1..Len(s) : i \in 1..Len(t)
  BY <1>1
<1>6. Len(s) + 1 \in 1..Len(t)
  BY <1>1
<1>7. \A y : y \in Ids(t) <=> y \in Ids(s) \/ (~IsNotice(x) /\ y = x.id)
  BY ONLY <1>1, <1>2, <1>3, <1>4, <1>5, <1>6
<1> QED BY <1>1, <1>7 DEF t

\* The records of a buffer when its first item is read.
LEMMA IdsTail ==
  ASSUME NEW s \in Seq(Items), s # << >>
  PROVE  /\ Head(s) \in Items /\ Tail(s) \in Seq(Items)
         /\ Ids(s) = IF IsNotice(Head(s)) THEN Ids(Tail(s)) ELSE Ids(Tail(s)) \cup {Head(s).id}
<1> DEFINE t == Tail(s)
<1>1. /\ Head(s) \in Items /\ t \in Seq(Items) /\ Len(t) = Len(s) - 1
      /\ \A i \in 1..Len(t) : t[i] = s[i + 1]
  BY HeadTailProperties
<1>2. Len(s) \in Nat \ {0} /\ Head(s) = s[1]
  BY EmptySeq
<1> HIDE DEF t
<1>3. \A y : y \in Ids(t) <=> \E i \in 1..Len(t) : ~IsNotice(t[i]) /\ y = t[i].id
  BY DEF Ids
<1>4. \A y : y \in Ids(s) <=> \E i \in 1..Len(s) : ~IsNotice(s[i]) /\ y = s[i].id
  BY DEF Ids
<1>5. ASSUME NEW i \in 1..Len(s) PROVE i = 1 \/ \E j \in 1..Len(t) : i = j + 1
  <2>1. i = 1 \/ (i - 1 \in 1..Len(t) /\ i = (i - 1) + 1)
    BY <1>1, <1>2
  <2> QED BY <2>1
<1>6. \A j \in 1..Len(t) : j + 1 \in 1..Len(s)
  BY <1>1, <1>2
<1>7. 1 \in 1..Len(s)
  BY <1>2
<1>8. ASSUME NEW y \in Ids(s) PROVE y \in Ids(t) \/ (~IsNotice(Head(s)) /\ y = Head(s).id)
  <2>1. PICK i \in 1..Len(s) : ~IsNotice(s[i]) /\ y = s[i].id
    BY <1>4
  <2>2. CASE i = 1
    BY <1>2, <2>1, <2>2
  <2>3. CASE \E j \in 1..Len(t) : i = j + 1
    <3>1. PICK j \in 1..Len(t) : i = j + 1
      BY <2>3
    <3>2. t[j] = s[i]
      BY <1>1, <3>1
    <3> QED BY <1>3, <2>1, <3>2
  <2> QED BY <1>5, <2>2, <2>3
<1>9. ASSUME NEW y \in Ids(t) PROVE y \in Ids(s)
  <2>1. PICK j \in 1..Len(t) : ~IsNotice(t[j]) /\ y = t[j].id
    BY <1>3
  <2> QED BY <1>1, <1>4, <1>6, <2>1
<1>10. ~IsNotice(Head(s)) => Head(s).id \in Ids(s)
  BY <1>2, <1>4, <1>7
<1> QED BY <1>1, <1>8, <1>9, <1>10 DEF t

\* A buffer holds finitely many records.
LEMMA IdsFinite ==
  ASSUME NEW s \in Seq(Items)
  PROVE  IsFiniteSet(Ids(s)) /\ Ids(s) \subseteq 1..MaxEvents
<1>1. ASSUME NEW i \in 1..Len(s), ~IsNotice(s[i]) PROVE s[i].id \in 1..MaxEvents
  <2>1. s[i] \in Items
    BY ElementOfSeq
  <2> QED BY <1>1, <2>1, ItemSplit, RecordFields
<1>2. Ids(s) \subseteq 1..MaxEvents
  BY <1>1 DEF Ids
<1>3. IsFiniteSet(1..MaxEvents)
  BY FS_Interval, Limits
<1>4. IsFiniteSet(Ids(s))
  BY <1>2, <1>3, FS_Subset
<1> QED BY <1>2, <1>4

\* The entries of an ordered dictionary.
Held(s) == {s[i] : i \in 1..Len(s)}

\* An ordered dictionary without one of its entries keeps the others.
LEMMA PopEntries ==
  ASSUME NEW S, NEW s \in Seq(S), NEW hits, hits \subseteq 1..Len(s)
  PROVE  /\ Pop(s, hits) \in Seq(S) /\ Len(Pop(s, hits)) <= Len(s)
         /\ Held(Pop(s, hits)) \subseteq Held(s)
         /\ \A i \in 1..Len(s) : i \in hits \/ s[i] \in Held(Pop(s, hits))
<1>0. Len(s) \in Nat /\ \A i \in 1..Len(s) : s[i] \in S
  BY LenProperties, ElementOfSeq
<1>1. CASE hits = {}
  <2>1. Pop(s, hits) = s
    BY <1>1 DEF Pop
  <2> QED BY <1>0, <2>1 DEF Held
<1>2. CASE hits # {}
  <2> DEFINE h == CHOOSE x \in hits : TRUE
             a == SubSeq(s, 1, h - 1)
             b == SubSeq(s, h + 1, Len(s))
             t == a \o b
  <2>1. Pop(s, hits) = t
    BY <1>2 DEF Pop
  <2>2. h \in hits /\ h \in 1..Len(s)
    BY <1>2
  <2> HIDE DEF h
  <2>3. a \in Seq(S) /\ Len(a) = h - 1 /\ \A i \in 1..(h - 1) : a[i] = s[i]
    <3>1. \A i \in 1..(h - 1) : s[i] \in S
      BY <1>0, <2>2
    <3>2. /\ a \in Seq(S) /\ Len(a) = IF 1 <= h - 1 THEN h - 1 - 1 + 1 ELSE 0
          /\ \A i \in 1..(h - 1 - 1 + 1) : a[i] = s[1 + i - 1]
      <4>1. 1 \in Int /\ h - 1 \in Int
        BY <2>2
      <4> QED BY <3>1, <4>1, SubSeqProperties
    <3> QED BY <2>2, <3>2
  <2>4. b \in Seq(S) /\ Len(b) = Len(s) - h /\ \A i \in 1..(Len(s) - h) : b[i] = s[h + i]
    <3>1. \A i \in (h + 1)..Len(s) : s[i] \in S
      BY <1>0, <2>2
    <3>2. /\ b \in Seq(S) /\ Len(b) = IF h + 1 <= Len(s) THEN Len(s) - (h + 1) + 1 ELSE 0
          /\ \A i \in 1..(Len(s) - (h + 1) + 1) : b[i] = s[(h + 1) + i - 1]
      <4>1. h + 1 \in Int /\ Len(s) \in Int
        BY <1>0, <2>2
      <4> QED BY <3>1, <4>1, SubSeqProperties
    <3>3. Len(s) - (h + 1) + 1 = Len(s) - h
      BY <1>0, <2>2
    <3>4. ASSUME NEW i \in 1..(Len(s) - h) PROVE (h + 1) + i - 1 = h + i
      BY <1>0, <2>2
    <3>5. Len(b) = Len(s) - h
      <4> HIDE DEF b
      <4> QED BY <1>0, <2>2, <3>2
    <3>6. ASSUME NEW i \in 1..(Len(s) - h) PROVE b[i] = s[h + i]
      <4>1. b[i] = s[(h + 1) + i - 1]
        BY <3>2, <3>3
      <4> QED BY <3>4, <4>1
    <3> QED BY <3>2, <3>5, <3>6
  <2> HIDE DEF a, b
  <2>5. /\ t \in Seq(S) /\ Len(t) = Len(a) + Len(b)
        /\ \A i \in 1..(Len(a) + Len(b)) : t[i] = IF i <= Len(a) THEN a[i] ELSE b[i - Len(a)]
    BY <2>3, <2>4, ConcatProperties
  <2> HIDE DEF t
  <2>6. Len(t) = Len(s) - 1
    BY <1>0, <2>2, <2>3, <2>4, <2>5
  <2>7. ASSUME NEW p \in 1..Len(t) PROVE \E i \in 1..Len(s) : t[p] = s[i]
    <3>1. CASE p <= h - 1
      <4>1. p \in 1..(h - 1) /\ p \in 1..Len(s) /\ t[p] = a[p]
        BY <1>0, <2>2, <2>3, <2>4, <2>5, <2>6, <3>1
      <4> QED BY <2>3, <4>1
    <3>2. CASE p > h - 1
      <4>1. t[p] = b[p - Len(a)]
        BY <2>2, <2>3, <2>5, <3>2
      <4>2. p - Len(a) \in 1..(Len(s) - h) /\ h + (p - Len(a)) = p + 1 /\ p + 1 \in 1..Len(s)
        BY <1>0, <2>2, <2>3, <2>6, <3>2
      <4> QED BY <2>4, <4>1, <4>2
    <3> QED BY <2>2, <3>1, <3>2
  <2>8. ASSUME NEW i \in 1..Len(s), i # h PROVE \E p \in 1..Len(t) : t[p] = s[i]
    <3>1. CASE i < h
      <4>1. i \in 1..(h - 1) /\ i \in 1..Len(t) /\ t[i] = a[i]
        BY <1>0, <2>2, <2>3, <2>4, <2>5, <2>6, <3>1
      <4> QED BY <2>3, <4>1
    <3>2. CASE i > h
      <4> DEFINE p == i - 1
                 q == i - h
      <4>1. /\ p \in 1..Len(t) /\ ~(p <= Len(a)) /\ p - Len(a) = q
            /\ q \in 1..(Len(s) - h) /\ h + q = i
        BY <1>0, <2>2, <2>3, <2>6, <2>8, <3>2
      <4> HIDE DEF p, q
      <4>2. t[p] = b[q]
        BY <2>5, <4>1
      <4>3. b[q] = s[i]
        BY <2>4, <4>1
      <4> QED BY <4>1, <4>2, <4>3
    <3> QED BY <2>2, <2>8, <3>1, <3>2
  <2>9. Held(t) \subseteq Held(s)
    BY <2>7 DEF Held
  <2>10. \A i \in 1..Len(s) : i \in hits \/ s[i] \in Held(t)
    BY <2>2, <2>8 DEF Held
  <2> QED BY <1>0, <2>1, <2>5, <2>6, <2>9, <2>10
<1> QED BY <1>1, <1>2

\* The rename table after a rename passes: its entry is there, every other entry was,
\* and an entry that left had the same fingerprint or was older than the window.
LEMMA RememberEntries ==
  ASSUME recent \in Seq(Entries), NEW e \in Records
  PROVE  LET entry == [fp |-> Fingerprint(e), ts |-> e.ts] IN
         /\ Remember(e) \in Seq(Entries)
         /\ Held(Remember(e)) \subseteq Held(recent) \cup {entry}
         /\ entry \in Held(Remember(e))
         /\ \A r \in Held(recent) : \/ r.fp = Fingerprint(e)
                                    \/ r.ts < e.ts - Window
                                    \/ r \in Held(Remember(e))
<1> DEFINE hits == {i \in 1..Len(recent) : recent[i].fp = Fingerprint(e)}
           others == Pop(recent, hits)
           entry == [fp |-> Fingerprint(e), ts |-> e.ts]
           all == Append(others, entry)
           n == Len(all)
           kept == {i \in 1..n : all[i].ts >= e.ts - Window}
           first == CHOOSE i \in kept : \A j \in kept : i <= j
           new == SubSeq(all, first, n)
<1>1. Remember(e) = new
  BY DEF Remember
<1>2. e.ts \in Nat /\ Window \in Nat
  BY RecordFields, Limits
<1>3. entry \in Entries /\ entry.ts = e.ts
  BY <1>2 DEF Entries
<1> HIDE DEF entry
<1>4. recent \in Seq(Entries) /\ hits \subseteq 1..Len(recent)
  OBVIOUS
<1> HIDE DEF hits
<1>5. /\ others \in Seq(Entries) /\ Held(others) \subseteq Held(recent)
      /\ \A i \in 1..Len(recent) : i \in hits \/ recent[i] \in Held(others)
  BY <1>4, PopEntries
<1> HIDE DEF others
<1>6. /\ all \in Seq(Entries) /\ n = Len(others) + 1 /\ Len(others) \in Nat
      /\ \A i \in 1..Len(others) : all[i] = others[i]
      /\ all[n] = entry
  BY <1>3, <1>5, AppendProperties, LenProperties
<1> HIDE DEF all, n
<1>7. \A i \in 1..n : all[i] \in Entries /\ all[i].ts \in Nat
  <2>1. n = Len(all)
    BY DEF n
  <2>2. \A i \in 1..n : all[i] \in Entries
    BY <1>6, <2>1, ElementOfSeq
  <2> QED BY <2>2 DEF Entries
<1>8. n \in kept /\ n \in Nat \ {0}
  BY <1>2, <1>3, <1>6
<1>9. first \in kept /\ \A j \in kept : first <= j
  <2>1. kept \subseteq Nat /\ kept # {}
    BY <1>8
  <2> HIDE DEF kept
  <2>2. \E m \in kept : \A k \in kept : m <= k
    BY <2>1, Least
  <2> QED BY <2>2
<1> HIDE DEF first
<1>10. first \in 1..n
  BY <1>9
<1>11. /\ new \in Seq(Entries) /\ Len(new) = n - first + 1
       /\ \A i \in 1..(n - first + 1) : new[i] = all[first + i - 1]
  <2>1. \A i \in first..n : all[i] \in Entries
    BY <1>7, <1>10
  <2>2. first \in Int /\ n \in Int /\ first <= n
    BY <1>8, <1>10
  <2>3. /\ new \in Seq(Entries) /\ Len(new) = IF first <= n THEN n - first + 1 ELSE 0
        /\ \A i \in 1..(n - first + 1) : new[i] = all[first + i - 1]
    BY <2>1, <2>2, SubSeqProperties
  <2> QED BY <2>2, <2>3
<1> HIDE DEF new
<1>12. ASSUME NEW q \in 1..n, first <= q PROVE all[q] \in Held(new)
  <2> DEFINE p == q - first + 1
  <2>1. p \in 1..(n - first + 1) /\ first + p - 1 = q
    BY <1>8, <1>10, <1>12
  <2> HIDE DEF p
  <2> QED BY <1>11, <2>1 DEF Held
<1>13. ASSUME NEW q \in 1..n PROVE all[q] \in Held(recent) \cup {entry}
  <2>1. CASE q = n
    BY <1>6, <2>1
  <2>2. CASE q # n
    <3>1. q \in 1..Len(others)
      BY <1>6, <2>2
    <3>2. all[q] \in Held(others)
      BY <1>6, <3>1 DEF Held
    <3> QED BY <1>5, <3>2
  <2> QED BY <2>1, <2>2
<1>14. Held(new) \subseteq Held(recent) \cup {entry}
  <2> SUFFICES ASSUME NEW p \in 1..Len(new) PROVE new[p] \in Held(recent) \cup {entry}
    BY DEF Held
  <2>1. first + p - 1 \in 1..n /\ new[p] = all[first + p - 1]
    BY <1>8, <1>10, <1>11
  <2> QED BY <1>13, <2>1
<1>15. entry \in Held(new)
  <2>1. n \in 1..n /\ first <= n
    BY <1>8, <1>10
  <2> QED BY <1>6, <1>12, <2>1
<1>16. ASSUME NEW r \in Held(recent), r.fp # Fingerprint(e), ~(r.ts < e.ts - Window)
       PROVE  r \in Held(new)
  <2>1. PICK i \in 1..Len(recent) : r = recent[i]
    BY DEF Held
  <2>2. i \notin hits
    BY <1>16, <2>1 DEF hits
  <2>3. PICK q \in 1..Len(others) : others[q] = r
    BY <1>5, <2>1, <2>2 DEF Held
  <2>4. q \in 1..n /\ all[q] = r
    BY <1>6, <2>3
  <2>5. all[q].ts >= e.ts - Window
    BY <1>2, <1>7, <1>16, <2>4
  <2>6. first <= q
    BY <1>9, <2>4, <2>5
  <2> QED BY <1>12, <2>4, <2>6
<1> QED BY <1>1, <1>11, <1>14, <1>15, <1>16 DEF entry

\* The ancestry table stays within max_tracked_processes.
LEMMA TrackTyped ==
  ASSUME ancestry \in Seq(Parents), Len(ancestry) <= MaxTracked, NEW e \in Records
  PROVE  /\ Track(e) \in Seq(Parents) /\ Len(Track(e)) <= MaxTracked
<1> DEFINE known == Untrack(ancestry, e.tgid)
           entry == [tgid |-> e.tgid, ppid |-> e.ppid]
           all == Append(known, entry)
<1>1. known \in Seq(Parents) /\ Len(known) <= Len(ancestry)
  BY PopEntries DEF Untrack
<1> HIDE DEF known
<1>2. entry \in Parents
  BY DEF Parents
<1> HIDE DEF entry
<1>3. all \in Seq(Parents) /\ all # << >> /\ Len(all) = Len(known) + 1
  BY <1>1, <1>2, AppendProperties
<1>4. Len(known) \in Nat /\ Len(ancestry) \in Nat
  BY <1>1, LenProperties
<1>5. Track(e) = IF Len(all) > MaxTracked THEN Tail(all) ELSE all
  BY DEF Track, known, entry
<1> HIDE DEF all
<1>6. Tail(all) \in Seq(Parents) /\ Len(Tail(all)) = Len(all) - 1
  BY <1>3, HeadTailProperties
<1> QED BY <1>1, <1>3, <1>4, <1>5, <1>6, Limits

\* Removing a process from it does too.
LEMMA UntrackTyped ==
  ASSUME NEW known \in Seq(Parents), Len(known) <= MaxTracked, NEW t
  PROVE  Untrack(known, t) \in Seq(Parents) /\ Len(Untrack(known, t)) <= MaxTracked
<1>1. Untrack(known, t) \in Seq(Parents) /\ Len(Untrack(known, t)) <= Len(known)
  BY PopEntries DEF Untrack
<1>2. Len(known) \in Nat /\ Len(Untrack(known, t)) \in Nat
  BY <1>1, LenProperties
<1> QED BY <1>1, <1>2, Limits

\* What is neither a record nor a summary: the rest of the collector and the daemon.
Quiet == UNCHANGED <<kernel, filters, sink>>

\* The steps that matter to the records.
LEMMA DataSteps ==
  ASSUME [Next]_vars
  PROVE  \/ Quiet \/ Tick \/ Consume
         \/ \E c \in Cpus, a \in Activity : Emit(c, a)
         \/ \E c \in Cpus : Receive(c) \/ ReportLoss(c)
BY DEF Next, vars, Quiet, Load, AttachProbes, Start, Stop, StopDaemon, PollExit, PollFail, ConsumerExit

\* One record of a buffer is suppressed as a duplicate, or published.
LEMMA ReceiveFacts ==
  ASSUME KernelTyped, NEW c \in Cpus, Receive(c)
  PROVE  LET e == Head(rings[c]) IN
         /\ rings[c] \in Seq(Items) /\ rings[c] # << >> /\ e \in Records
         /\ rings' = [rings EXCEPT ![c] = Tail(rings[c])]
         /\ UNCHANGED <<clock, emitted, overrun, sink>>
         /\ \/ e.kind = "FILE_RENAME" /\ Duplicate(e) /\ Suppress(e)
            \/ ~(e.kind = "FILE_RENAME" /\ Duplicate(e)) /\ Publish(e)
<1>1. rings[c] \in Seq(Items) /\ rings[c] # << >> /\ ~IsNotice(Head(rings[c]))
  BY DEF KernelTyped, Receive
<1>2. Head(rings[c]) \in Items
  BY <1>1, HeadTailProperties
<1>3. Head(rings[c]) \in Records
  BY <1>1, <1>2, ItemSplit
<1> QED BY <1>1, <1>3 DEF Receive

\* A published record is queued, counted as dropped or discarded.
LEMMA PublishFacts ==
  ASSUME NEW e, Publish(e)
  PROVE  \/ queue' = Append(queue, e) /\ Len(queue) < QueueSize /\ dropped' = dropped /\ discarded' = discarded
         \/ queue' = queue /\ dropped' = dropped + 1 /\ discarded' = discarded
         \/ queue' = queue /\ dropped' = dropped /\ discarded' = discarded \cup {e.id}
BY DEF Publish, Enqueue

\* A record enters a full buffer's count or the buffer itself.
LEMMA EmitFacts ==
  ASSUME KernelTyped, NEW c \in Cpus, NEW a \in Activity, Emit(c, a)
  PROVE  LET e == Sample(a)
             notice == [kind |-> "LOST", count |-> overrun[c]]
             noted == IF overrun[c] > 0 THEN Append(rings[c], notice) ELSE rings[c]
         IN /\ e \in Records /\ e.id = emitted + 1 /\ emitted' = emitted + 1 /\ emitted < MaxEvents
            /\ notice \in Notices /\ noted \in Seq(Items)
            /\ rings[c] \in Seq(Items) /\ overrun[c] \in Nat
            /\ Ids(noted) = Ids(rings[c])
            /\ UNCHANGED <<clock, filters, sink>>
            /\ \/ rings' = rings /\ overrun' = [overrun EXCEPT ![c] = overrun[c] + 1]
               \/ /\ Cardinality(Ids(rings[c])) < RingSize
                  /\ rings' = [rings EXCEPT ![c] = Append(noted, e)]
                  /\ overrun' = [overrun EXCEPT ![c] = 0]
<1> DEFINE e == Sample(a)
           notice == [kind |-> "LOST", count |-> overrun[c]]
           noted == IF overrun[c] > 0 THEN Append(rings[c], notice) ELSE rings[c]
<1>1. e \in Records /\ e.id = emitted + 1
  BY SampleTyped DEF Emit, KernelTyped
<1>2. rings[c] \in Seq(Items) /\ overrun[c] \in Nat
  BY DEF KernelTyped
<1>3. notice \in Notices /\ IsNotice(notice)
  BY <1>2 DEF Notices, IsNotice
<1>4. notice \in Items
  BY <1>3 DEF Items
<1> HIDE DEF notice
<1>5. noted \in Seq(Items) /\ Ids(noted) = Ids(rings[c])
  BY <1>2, <1>3, <1>4, IdsAppend
<1>6. Cardinality(Ids(rings[c])) \in Nat
  BY <1>2, IdsFinite, FS_CardinalityType
<1>7. \/ rings' = rings /\ overrun' = [overrun EXCEPT ![c] = overrun[c] + 1]
      \/ /\ Cardinality(Ids(rings[c])) < RingSize
         /\ rings' = [rings EXCEPT ![c] = Append(noted, e)]
         /\ overrun' = [overrun EXCEPT ![c] = 0]
  BY <1>6, Limits DEF Emit, Submit, notice
<1>8. emitted' = emitted + 1 /\ emitted < MaxEvents /\ UNCHANGED <<clock, filters, sink>>
  BY DEF Emit
<1> QED BY <1>1, <1>2, <1>3, <1>5, <1>7, <1>8 DEF notice

\* A full buffer takes no further record.
LEMMA KernelStep ==
  ASSUME DataTyped, [Next]_vars
  PROVE  KernelTyped'
<1>0. KernelTyped /\ FiltersTyped
  BY DEF DataTyped
<1>1. /\ clock \in 1..MaxClock /\ emitted \in 0..MaxEvents /\ dropped \in Nat
      /\ rings \in [Cpus -> Seq(Items)] /\ overrun \in [Cpus -> Nat]
      /\ \A c \in Cpus : Cardinality(Ids(rings[c])) <= RingSize
  BY <1>0 DEF KernelTyped
<1>2. CASE Quiet
  BY <1>1, <1>2 DEF Quiet, kernel, filters, KernelTyped
<1>3. CASE Tick
  <2>1. clock' \in 1..MaxClock
    BY <1>1, <1>3, Limits DEF Tick
  <2>2. UNCHANGED <<emitted, rings, overrun, dropped>>
    BY <1>3 DEF Tick, filters
  <2> QED BY <1>1, <2>1, <2>2 DEF KernelTyped
<1>4. CASE Consume
  BY <1>1, <1>4 DEF Consume, kernel, KernelTyped
<1>5. ASSUME NEW c \in Cpus, NEW a \in Activity, Emit(c, a) PROVE KernelTyped'
  <2> DEFINE e == Sample(a)
             notice == [kind |-> "LOST", count |-> overrun[c]]
             noted == IF overrun[c] > 0 THEN Append(rings[c], notice) ELSE rings[c]
  <2>1. /\ e \in Records /\ emitted' = emitted + 1 /\ emitted < MaxEvents /\ noted \in Seq(Items)
        /\ Ids(noted) = Ids(rings[c]) /\ UNCHANGED <<clock, filters, sink>>
        /\ overrun[c] \in Nat /\ rings[c] \in Seq(Items)
        /\ \/ rings' = rings /\ overrun' = [overrun EXCEPT ![c] = overrun[c] + 1]
           \/ /\ Cardinality(Ids(rings[c])) < RingSize
              /\ rings' = [rings EXCEPT ![c] = Append(noted, e)]
              /\ overrun' = [overrun EXCEPT ![c] = 0]
    BY <1>0, <1>5, EmitFacts
  <2> HIDE DEF e, noted
  <2>2. clock' = clock /\ dropped' = dropped /\ emitted' \in 0..MaxEvents
    BY <1>1, <2>1, Limits DEF filters
  <2>3. CASE rings' = rings /\ overrun' = [overrun EXCEPT ![c] = overrun[c] + 1]
    <3>1. overrun' \in [Cpus -> Nat]
      BY <1>1, <2>1, <2>3
    <3> QED BY <1>1, <2>2, <2>3, <3>1 DEF KernelTyped
  <2>4. CASE /\ Cardinality(Ids(rings[c])) < RingSize
             /\ rings' = [rings EXCEPT ![c] = Append(noted, e)]
             /\ overrun' = [overrun EXCEPT ![c] = 0]
    <3>1. e \in Items /\ ~IsNotice(e)
      BY <2>1, RecordFields DEF Items
    <3>2. Append(noted, e) \in Seq(Items) /\ Ids(Append(noted, e)) = Ids(rings[c]) \cup {e.id}
      BY <2>1, <3>1, IdsAppend
    <3>3. Cardinality(Ids(rings[c]) \cup {e.id}) <= RingSize
      <4>1. IsFiniteSet(Ids(rings[c]))
        BY <2>1, IdsFinite
      <4>2. Cardinality(Ids(rings[c])) \in Nat
        BY <4>1, FS_CardinalityType
      <4>3. Cardinality(Ids(rings[c]) \cup {e.id}) =
              IF e.id \in Ids(rings[c]) THEN Cardinality(Ids(rings[c])) ELSE Cardinality(Ids(rings[c])) + 1
        BY <4>1, FS_AddElement
      <4> QED BY <2>4, <4>2, <4>3, Limits
    <3>4. rings' \in [Cpus -> Seq(Items)] /\ overrun' \in [Cpus -> Nat]
      BY <1>1, <2>4, <3>2
    <3>5. ASSUME NEW d \in Cpus PROVE Cardinality(Ids(rings'[d])) <= RingSize
      BY <1>1, <2>4, <3>2, <3>3
    <3> QED BY <1>1, <2>2, <3>4, <3>5 DEF KernelTyped
  <2> QED BY <2>1, <2>3, <2>4
<1>6. ASSUME NEW c \in Cpus, rings' = [rings EXCEPT ![c] = Tail(rings[c])], rings[c] # << >>,
             dropped' \in Nat, UNCHANGED <<clock, emitted, overrun>>
      PROVE  KernelTyped'
  <2>1. rings[c] \in Seq(Items)
    BY <1>1
  <2>2. Tail(rings[c]) \in Seq(Items) /\ Ids(Tail(rings[c])) \subseteq Ids(rings[c])
    BY <1>6, <2>1, IdsTail
  <2>3. Cardinality(Ids(Tail(rings[c]))) <= RingSize
    <3>1. IsFiniteSet(Ids(rings[c])) /\ IsFiniteSet(Ids(Tail(rings[c])))
      BY <2>1, <2>2, IdsFinite
    <3>2. Cardinality(Ids(Tail(rings[c]))) <= Cardinality(Ids(rings[c]))
      BY <2>2, <3>1, FS_Subset
    <3>3. Cardinality(Ids(rings[c])) \in Nat /\ Cardinality(Ids(Tail(rings[c]))) \in Nat
      BY <3>1, FS_CardinalityType
    <3>4. Cardinality(Ids(rings[c])) <= RingSize
      BY <1>1
    <3> QED BY <3>2, <3>3, <3>4, Limits
  <2>4. rings' \in [Cpus -> Seq(Items)]
    BY <1>1, <1>6, <2>2
  <2>5. ASSUME NEW d \in Cpus PROVE Cardinality(Ids(rings'[d])) <= RingSize
    BY <1>1, <1>6, <2>3
  <2> QED BY <1>1, <1>6, <2>4, <2>5 DEF KernelTyped
<1>7. ASSUME NEW c \in Cpus, Receive(c) PROVE KernelTyped'
  <2>1. /\ rings[c] # << >> /\ rings' = [rings EXCEPT ![c] = Tail(rings[c])]
        /\ UNCHANGED <<clock, emitted, overrun>>
        /\ (Suppress(Head(rings[c])) \/ Publish(Head(rings[c])))
    BY <1>0, <1>7, ReceiveFacts
  <2>2. dropped' \in {dropped, dropped + 1}
    BY <2>1, PublishFacts DEF Suppress
  <2>3. dropped' \in Nat
    BY <1>1, <2>2
  <2> QED BY <1>6, <2>1, <2>3
<1>8. ASSUME NEW c \in Cpus, ReportLoss(c) PROVE KernelTyped'
  <2>1. /\ rings[c] # << >> /\ IsNotice(Head(rings[c])) /\ rings' = [rings EXCEPT ![c] = Tail(rings[c])]
        /\ dropped' = dropped + Head(rings[c]).count /\ UNCHANGED <<clock, emitted, overrun>>
    BY <1>8 DEF ReportLoss
  <2>2. Head(rings[c]).count \in Nat
    BY <1>1, <2>1, IdsTail, ItemSplit
  <2>3. dropped' \in Nat
    BY <1>1, <2>1, <2>2
  <2> QED BY <1>6, <2>1, <2>3
<1> QED BY <1>2, <1>3, <1>4, <1>5, <1>7, <1>8, DataSteps

\* The queue and the ancestry table stay within their limits.
LEMMA FiltersStep ==
  ASSUME DataTyped, [Next]_vars
  PROVE  FiltersTyped'
<1>0. /\ recent \in Seq(Entries) /\ ancestry \in Seq(Parents) /\ Len(ancestry) <= MaxTracked
      /\ queue \in Seq(Records) /\ Len(queue) <= QueueSize /\ renames \in Seq(Verdicts)
      /\ discarded \subseteq Nat /\ KernelTyped
  BY DEF DataTyped, FiltersTyped
<1>1. ASSUME UNCHANGED filters PROVE FiltersTyped'
  BY <1>0, <1>1 DEF filters, FiltersTyped
<1>2. CASE Consume
  <2>1. queue # << >> /\ queue' = Tail(queue)
    BY <1>2 DEF Consume
  <2>2. queue' \in Seq(Records) /\ Len(queue') = Len(queue) - 1 /\ Len(queue) \in Nat
    BY <1>0, <2>1, HeadTailProperties, LenProperties
  <2>3. UNCHANGED <<recent, ancestry, renames, discarded>>
    BY <1>2 DEF Consume
  <2> QED BY <1>0, <2>2, <2>3, Limits DEF FiltersTyped
<1>3. ASSUME NEW c \in Cpus, Receive(c) PROVE FiltersTyped'
  <2> DEFINE e == Head(rings[c])
  <2>1. e \in Records /\ (Suppress(e) \/ Publish(e))
    BY <1>0, <1>3, ReceiveFacts
  <2> HIDE DEF e
  <2>2. e.id \in Nat
    BY <2>1, RecordFields, Limits
  <2>3. ASSUME NEW p \in BOOLEAN PROVE Append(renames, [e |-> e, passed |-> p]) \in Seq(Verdicts)
    <3>1. [e |-> e, passed |-> p] \in Verdicts
      BY <2>1 DEF Verdicts
    <3> QED BY <1>0, <3>1, AppendProperties
  <2>4. CASE Suppress(e)
    <3>1. renames' = Append(renames, [e |-> e, passed |-> FALSE]) /\ discarded' = discarded \cup {e.id}
          /\ UNCHANGED <<recent, ancestry, queue>>
      BY <2>4 DEF Suppress
    <3>2. renames' \in Seq(Verdicts)
      BY <2>3, <3>1
    <3> QED BY <1>0, <2>2, <3>1, <3>2 DEF FiltersTyped
  <2>5. CASE Publish(e)
    <3>1. recent' \in Seq(Entries)
      BY <1>0, <2>1, <2>5, RememberEntries DEF Publish
    <3>2. renames' \in Seq(Verdicts)
      <4>1. renames' = Append(renames, [e |-> e, passed |-> TRUE]) \/ renames' = renames
        BY <2>5 DEF Publish
      <4> QED BY <1>0, <2>3, <4>1
    <3>3. ancestry' \in Seq(Parents) /\ Len(ancestry') <= MaxTracked
      <4> DEFINE known == IF e.kind = "PROCESS_EXEC" THEN Track(e) ELSE ancestry
      <4>1. known \in Seq(Parents) /\ Len(known) <= MaxTracked
        BY <1>0, <2>1, TrackTyped
      <4>2. ancestry' = IF e.kind = "PROCESS_EXIT" THEN Untrack(known, e.tgid) ELSE known
        BY <2>5 DEF Publish
      <4> HIDE DEF known
      <4> QED BY <4>1, <4>2, UntrackTyped
    <3>4. queue' \in Seq(Records) /\ Len(queue') <= QueueSize
      <4>1. /\ Append(queue, e) \in Seq(Records) /\ Len(Append(queue, e)) = Len(queue) + 1
            /\ Len(queue) \in Nat
        BY <1>0, <2>1, AppendProperties, LenProperties
      <4>2. queue' = queue \/ (queue' = Append(queue, e) /\ Len(queue) < QueueSize)
        BY <2>5, PublishFacts
      <4>3. CASE queue' = queue
        BY <1>0, <4>3
      <4>4. CASE queue' = Append(queue, e) /\ Len(queue) < QueueSize
        <5>1. Len(queue) + 1 <= QueueSize
          BY <4>1, <4>4, Limits
        <5> QED BY <4>1, <4>4, <5>1
      <4> QED BY <4>2, <4>3, <4>4
    <3>5. discarded' \subseteq Nat
      BY <1>0, <2>2, <2>5, PublishFacts
    <3> QED BY <3>1, <3>2, <3>3, <3>4, <3>5 DEF FiltersTyped
  <2> QED BY <2>1, <2>4, <2>5
<1>4. CASE Quiet \/ Tick
  BY <1>1, <1>4 DEF Quiet, Tick
<1>5. ASSUME NEW c \in Cpus, NEW a \in Activity, Emit(c, a) PROVE FiltersTyped'
  BY <1>1, <1>5 DEF Emit
<1>6. ASSUME NEW c \in Cpus, ReportLoss(c) PROVE FiltersTyped'
  BY <1>0, <1>6 DEF ReportLoss, FiltersTyped
<1> QED BY <1>2, <1>3, <1>4, <1>5, <1>6, DataSteps

\* What expiry and the eviction of v leave, and the summary an event of e's process
\* starts from.
Room(v) == Forget(Fresh(states), {v})
Old(e, v) == IF e.tgid \in DOMAIN Room(v) THEN Room(v)[e.tgid]
             ELSE [seen |-> clock, count |-> 0, files |-> {}, conns |-> 0]

\* Expiry and eviction, as sets of processes.
LEMMA RoomFacts ==
  ASSUME NEW v
  PROVE  /\ DOMAIN Fresh(states) = {t \in DOMAIN states : clock - states[t].seen <= Ttl}
         /\ \A t \in DOMAIN Fresh(states) : Fresh(states)[t] = states[t]
         /\ DOMAIN Room(v) = DOMAIN Fresh(states) \ {v}
         /\ \A t \in DOMAIN Room(v) : Room(v)[t] = states[t]
BY DEF Fresh, Forget, Room

\* The event that makes room for a process does not evict that process, and nobody is
\* evicted while there is room.
LEMMA VictimFacts ==
  ASSUME DataTyped, NEW e \in Records, NEW v \in Victims(Fresh(states), e.tgid)
  PROVE  /\ v \in Tgids \cup {Null} /\ v # e.tgid
         /\ \/ v \in DOMAIN Fresh(states)
            \/ v = Null /\ e.tgid \in DOMAIN Fresh(states)
            \/ v = Null /\ Cardinality(DOMAIN Fresh(states)) < MaxStates
<1> DEFINE F == Fresh(states)
<1>1. DOMAIN F \subseteq Tgids
  <2>1. DOMAIN F \subseteq DOMAIN states
    BY RoomFacts
  <2> QED BY <2>1 DEF DataTyped, SinkTyped
<1>2. e.tgid \in Tgids /\ Null \notin Tgids
  BY RecordFields, Limits
<1>3. CASE e.tgid \in DOMAIN F \/ Cardinality(DOMAIN F) < MaxStates
  BY <1>2, <1>3 DEF Victims
<1>4. CASE ~(e.tgid \in DOMAIN F \/ Cardinality(DOMAIN F) < MaxStates)
  <2>1. v \in DOMAIN F
    BY <1>4 DEF Victims
  <2> QED BY <1>1, <1>4, <2>1
<1> QED BY <1>3, <1>4

\* What the aggregator keeps after an event.
LEMMA IngestFacts ==
  ASSUME NEW e, NEW v
  PROVE  /\ e.kind = "PROCESS_EXIT" =>
              /\ DOMAIN Ingest(e, v) = DOMAIN Room(v) \ {e.tgid}
              /\ \A t \in DOMAIN Ingest(e, v) : Ingest(e, v)[t] = states[t]
         /\ e.kind # "PROCESS_EXIT" =>
              /\ DOMAIN Ingest(e, v) = DOMAIN Room(v) \cup {e.tgid}
              /\ Ingest(e, v)[e.tgid] = Summary(Old(e, v), e)
              /\ \A t \in DOMAIN Room(v) : t # e.tgid => Ingest(e, v)[t] = states[t]
<1>1. \A t \in DOMAIN Room(v) : Room(v)[t] = states[t]
  BY RoomFacts
<1>2. Ingest(e, v) = IF e.kind = "PROCESS_EXIT" THEN Forget(Room(v), {e.tgid})
                     ELSE [t \in DOMAIN Room(v) \cup {e.tgid} |->
                             IF t = e.tgid THEN Summary(Old(e, v), e) ELSE Room(v)[t]]
  BY DEF Ingest, Room, Old
<1> QED BY <1>1, <1>2 DEF Forget

\* One event is taken from the queue and fed to the aggregator.
LEMMA ConsumeFacts ==
  ASSUME DataTyped, Consume
  PROVE  LET e == Head(queue) IN
         /\ e \in Records /\ queue # << >> /\ queue' = Tail(queue)
         /\ UNCHANGED <<kernel, recent, ancestry, dropped, renames, discarded>>
         /\ \E v \in Victims(Fresh(states), e.tgid) :
              /\ states' = Ingest(e, v)
              /\ ingested' = Append(ingested, [e |-> e, at |-> clock, evicted |-> v])
              /\ [e |-> e, at |-> clock, evicted |-> v] \in Fed
<1>1. queue \in Seq(Records) /\ queue # << >> /\ clock \in Nat
  BY Limits DEF DataTyped, KernelTyped, FiltersTyped, Consume
<1>2. Head(queue) \in Records
  BY <1>1, HeadTailProperties
<1>3. PICK v \in Victims(Fresh(states), Head(queue).tgid) :
              /\ states' = Ingest(Head(queue), v)
              /\ ingested' = Append(ingested, [e |-> Head(queue), at |-> clock, evicted |-> v])
  BY DEF Consume
<1>4. v \in Tgids \cup {Null}
  BY <1>2, VictimFacts
<1>5. [e |-> Head(queue), at |-> clock, evicted |-> v] \in Fed
  BY <1>1, <1>2, <1>4 DEF Fed
<1>6. queue' = Tail(queue) /\ UNCHANGED <<kernel, recent, ancestry, dropped, renames, discarded>>
  BY DEF Consume
<1> QED BY <1>1, <1>2, <1>3, <1>5, <1>6

\* The summaries stay within max_states.
LEMMA SinkConsume ==
  ASSUME DataTyped, Consume
  PROVE  SinkTyped'
<1> DEFINE e == Head(queue)
<1>1. e \in Records /\ UNCHANGED kernel
  BY ConsumeFacts
<1>2. PICK v \in Victims(Fresh(states), e.tgid) :
              /\ states' = Ingest(e, v)
              /\ ingested' = Append(ingested, [e |-> e, at |-> clock, evicted |-> v])
              /\ [e |-> e, at |-> clock, evicted |-> v] \in Fed
  BY ConsumeFacts
<1> HIDE DEF e
<1>3. /\ ingested \in Seq(Fed) /\ \A i \in 1..Len(ingested) : ingested[i].at <= clock
      /\ DOMAIN states \subseteq Tgids /\ IsFiniteSet(DOMAIN states)
      /\ Cardinality(DOMAIN states) <= MaxStates
      /\ \A t \in DOMAIN states : states[t].seen \in Nat
      /\ clock \in Nat
  BY Limits DEF DataTyped, SinkTyped, KernelTyped
<1>4. clock' = clock
  BY <1>1 DEF kernel
<1>5. ingested' \in Seq(Fed) /\ \A i \in 1..Len(ingested') : ingested'[i].at <= clock
  <2> DEFINE x == [e |-> e, at |-> clock, evicted |-> v]
  <2>0. x \in Fed /\ ingested' = Append(ingested, x) /\ x.at = clock
    BY <1>2
  <2> HIDE DEF x
  <2>1. /\ ingested' \in Seq(Fed) /\ Len(ingested') = Len(ingested) + 1 /\ Len(ingested) \in Nat
        /\ \A i \in 1..Len(ingested) : ingested'[i] = ingested[i]
        /\ ingested'[Len(ingested) + 1] = x
    BY <1>3, <2>0, AppendProperties, LenProperties
  <2>2. \A i \in 1..Len(ingested') : i \in 1..Len(ingested) \/ i = Len(ingested) + 1
    BY <2>1
  <2> QED BY <1>3, <2>0, <2>1, <2>2
<1> DEFINE F == DOMAIN Fresh(states)
           R == DOMAIN Room(v)
           D == DOMAIN Ingest(e, v)
<1>6. F \subseteq DOMAIN states /\ R = F \ {v}
  BY RoomFacts
<1>7. \A t \in R : t \in DOMAIN states /\ Room(v)[t] = states[t]
  BY <1>6, RoomFacts
<1>8. e.tgid \in Tgids
  BY <1>1, RecordFields
<1>9. D \subseteq R \cup {e.tgid} /\ D \subseteq Tgids
  <2>1. D = R \ {e.tgid} \/ D = R \cup {e.tgid}
    BY IngestFacts
  <2> HIDE DEF D, R
  <2> QED BY <1>3, <1>6, <1>8, <2>1
<1>10. \A t \in D : Ingest(e, v)[t].seen \in Nat
  <2> SUFFICES ASSUME NEW t \in D PROVE Ingest(e, v)[t].seen \in Nat
    OBVIOUS
  <2>1. CASE e.kind = "PROCESS_EXIT"
    <3>0. D = R \ {e.tgid}
      BY <2>1, IngestFacts
    <3>i. \A u \in D : Ingest(e, v)[u] = states[u]
      BY <2>1, IngestFacts
    <3>1. D = R \ {e.tgid} /\ Ingest(e, v)[t] = states[t]
      BY <3>0, <3>i
    <3>2. t \in DOMAIN states
      <4> HIDE DEF D, R
      <4> QED BY <1>7, <3>1
    <3> QED BY <1>3, <3>1, <3>2
  <2>2. CASE e.kind # "PROCESS_EXIT" /\ t = e.tgid
    <3>1. \E old : Ingest(e, v)[t] = Summary(old, e)
      BY <2>2, IngestFacts
    <3> QED BY <1>3, <3>1 DEF Summary
  <2>3. CASE e.kind # "PROCESS_EXIT" /\ t # e.tgid
    <3>1. t \in R
      BY <1>9, <2>3
    <3>2. Ingest(e, v)[t] = states[t]
      BY <2>3, <3>1, IngestFacts
    <3> QED BY <1>3, <1>7, <3>1, <3>2
  <2> QED BY <2>1, <2>2, <2>3
<1>11. IsFiniteSet(F) /\ Cardinality(F) <= MaxStates /\ Cardinality(F) \in Nat
  <2>1. IsFiniteSet(F) /\ Cardinality(F) <= Cardinality(DOMAIN states)
    BY <1>3, <1>6, FS_Subset
  <2>2. Cardinality(F) \in Nat /\ Cardinality(DOMAIN states) \in Nat
    BY <1>3, <2>1, FS_CardinalityType
  <2> QED BY <1>3, <2>1, <2>2, Limits
<1>12. \/ v \in F
       \/ e.tgid \in F
       \/ Cardinality(F) < MaxStates
  BY <1>1, VictimFacts
<1> HIDE DEF F, R, D
<1>13. IsFiniteSet(R) /\ Cardinality(R) = IF v \in F THEN Cardinality(F) - 1 ELSE Cardinality(F)
  BY <1>6, <1>11, FS_RemoveElement
<1>14. IsFiniteSet(R \cup {e.tgid}) /\ Cardinality(R \cup {e.tgid}) <= MaxStates
  <2>1. /\ IsFiniteSet(R \cup {e.tgid})
        /\ Cardinality(R \cup {e.tgid}) = IF e.tgid \in R THEN Cardinality(R) ELSE Cardinality(R) + 1
    BY <1>13, FS_AddElement
  <2>2. e.tgid # v
    BY <1>1, VictimFacts
  <2>3. e.tgid \in F => e.tgid \in R
    BY <1>6, <2>2
  <2> QED BY <1>11, <1>12, <1>13, <2>1, <2>3, Limits
<1>15. IsFiniteSet(D) /\ Cardinality(D) <= MaxStates
  <2>1. IsFiniteSet(D) /\ Cardinality(D) <= Cardinality(R \cup {e.tgid})
    BY <1>9, <1>14, FS_Subset
  <2>2. Cardinality(D) \in Nat /\ Cardinality(R \cup {e.tgid}) \in Nat
    BY <1>14, <2>1, FS_CardinalityType
  <2> QED BY <1>14, <2>1, <2>2, Limits
<1> QED BY <1>2, <1>4, <1>5, <1>9, <1>10, <1>15 DEF SinkTyped, D

\* The other steps do not touch them; time passes.
LEMMA SinkStep ==
  ASSUME DataTyped, [Next]_vars
  PROVE  SinkTyped'
<1>1. ASSUME UNCHANGED <<clock, sink>> PROVE SinkTyped'
  BY <1>1 DEF DataTyped, SinkTyped, sink
<1>2. CASE Tick
  <2>1. clock \in Nat /\ clock' = clock + 1 /\ UNCHANGED sink
    BY <1>2, Limits DEF DataTyped, KernelTyped, Tick
  <2>2. \A i \in 1..Len(ingested) : ingested[i].at \in Nat /\ ingested[i].at <= clock
    <3>1. ingested \in Seq(Fed) /\ \A i \in 1..Len(ingested) : ingested[i].at <= clock
      BY DEF DataTyped, SinkTyped
    <3>2. \A i \in 1..Len(ingested) : ingested[i] \in Fed
      BY <3>1, ElementOfSeq
    <3> QED BY <3>1, <3>2 DEF Fed
  <2>3. \A i \in 1..Len(ingested) : ingested[i].at <= clock + 1
    BY <2>1, <2>2
  <2> QED BY <2>1, <2>3 DEF DataTyped, SinkTyped, sink
<1>3. CASE Quiet
  BY <1>1, <1>3 DEF Quiet, kernel
<1>4. ASSUME NEW c \in Cpus, NEW a \in Activity, Emit(c, a) PROVE SinkTyped'
  BY <1>1, <1>4 DEF Emit
<1>5. ASSUME NEW c \in Cpus, Receive(c) \/ ReportLoss(c) PROVE SinkTyped'
  BY <1>1, <1>5 DEF Receive, ReportLoss
<1> QED BY <1>2, <1>3, <1>4, <1>5, SinkConsume, DataSteps

\* Nothing is recorded, queued or summarised before the first event.
LEMMA DataInit == Init => DataTyped
<1> SUFFICES ASSUME Init PROVE DataTyped
  OBVIOUS
<1>1. /\ \A S : << >> \in Seq(S)
      /\ Len(<< >>) = 0
  BY EmptySeq
<1>2. Ids(<< >>) = {}
  BY <1>1 DEF Ids
<1>3. KernelTyped
  <2>1. \A c \in Cpus : rings[c] = << >>
    BY DEF Init
  <2>2. Cardinality({}) = 0
    BY FS_EmptySet
  <2>3. \A c \in Cpus : Cardinality(Ids(rings[c])) <= RingSize
    <3> SUFFICES ASSUME NEW c \in Cpus PROVE Cardinality(Ids(rings[c])) <= RingSize
      OBVIOUS
    <3>1. Ids(rings[c]) = {}
      BY <1>2, <2>1
    <3>2. Cardinality(Ids(rings[c])) = 0 /\ 0 <= RingSize
      BY <2>2, <3>1, Limits
    <3> QED BY <3>2
  <2>4. rings \in [Cpus -> Seq(Items)] /\ overrun \in [Cpus -> Nat]
    BY <1>1 DEF Init
  <2>5. clock \in 1..MaxClock /\ emitted \in 0..MaxEvents /\ dropped \in Nat
    BY Limits DEF Init
  <2> QED BY <2>3, <2>4, <2>5 DEF KernelTyped
<1>4. FiltersTyped
  BY <1>1, Limits DEF Init, FiltersTyped
<1>5. SinkTyped
  <2>1. DOMAIN states = {}
    BY DEF Init
  <2>2. IsFiniteSet({}) /\ Cardinality({}) = 0
    BY FS_EmptySet
  <2> QED BY <1>1, <2>1, <2>2, Limits DEF Init, SinkTyped
<1> QED BY <1>3, <1>4, <1>5 DEF DataTyped

\* The lifecycle of the collector and its threads.
LifecycleTyped ==
  /\ bpf \in {"none", "loaded", "attached", "open"} /\ maps \in BOOLEAN
  /\ degraded \in LoadFailures \cup {Null, "PROBE_ATTACH_FAILED", "PERF_BUFFER_OPEN_FAILED",
                                     "PERF_POLL_FAILED"}
  /\ stopping \in BOOLEAN /\ active \in BOOLEAN /\ halted \in BOOLEAN
  /\ poll \in {"none", "polling", "exited"}
  /\ consumer \in {"none", "running", "exited", "dead"}

\* Every step moves it between its states.
LEMMA LifecycleStep ==
  ASSUME LifecycleTyped, [Next]_vars
  PROVE  LifecycleTyped'
<1>1. ASSUME UNCHANGED <<lifecycle, poll, consumer>> PROVE LifecycleTyped'
  BY <1>1 DEF LifecycleTyped, lifecycle
<1>2. ASSUME NEW c \in Cpus, NEW a \in Activity, Emit(c, a) PROVE LifecycleTyped'
  BY <1>1, <1>2 DEF Emit
<1>3. ASSUME NEW c \in Cpus, Receive(c) \/ ReportLoss(c) PROVE LifecycleTyped'
  BY <1>1, <1>3 DEF Receive, ReportLoss
<1>4. CASE Tick \/ UNCHANGED vars
  BY <1>1, <1>4 DEF Tick, vars
<1>5. CASE Load
  BY <1>5 DEF Load, ConfigureMaps, LifecycleTyped
<1>6. CASE AttachProbes
  BY <1>6 DEF AttachProbes, LifecycleTyped
<1>7. CASE Start
  BY <1>7 DEF Start, LifecycleTyped
<1>8. CASE Stop \/ StopDaemon
  BY <1>8 DEF Stop, StopDaemon, LifecycleTyped
<1>9. CASE PollExit \/ ConsumerExit
  BY <1>9 DEF PollExit, ConsumerExit, LifecycleTyped, lifecycle
<1>10. CASE PollFail
  BY <1>10 DEF PollFail, LifecycleTyped
<1>11. CASE Consume
  BY <1>11 DEF Consume, LifecycleTyped, lifecycle
<1> QED BY <1>2, <1>3, <1>4, <1>5, <1>6, <1>7, <1>8, <1>9, <1>10, <1>11 DEF Next

\* The invariant implies what TypeOK says.
LEMMA TypedImpliesTypeOK ==
  ASSUME DataTyped, LifecycleTyped
  PROVE  TypeOK
<1>1. ASSUME NEW c \in Cpus
      PROVE  /\ Cardinality(Ids(rings[c])) <= RingSize /\ overrun[c] \in Nat
             /\ \A i \in 1..Len(rings[c]) : IsNotice(rings[c][i]) \/ rings[c][i] \in Records
  <2>1. rings[c] \in Seq(Items) /\ Cardinality(Ids(rings[c])) <= RingSize /\ overrun[c] \in Nat
    BY DEF DataTyped, KernelTyped
  <2>2. \A i \in 1..Len(rings[c]) : rings[c][i] \in Items
    BY <2>1, ElementOfSeq
  <2> QED BY <2>1, <2>2, ItemSplit
<1>2. \A i \in 1..Len(queue) : queue[i] \in Records
  BY ElementOfSeq DEF DataTyped, FiltersTyped
<1>3. /\ clock \in 1..MaxClock /\ emitted \in 0..MaxEvents /\ dropped \in Nat
      /\ Len(ancestry) <= MaxTracked /\ Len(queue) <= QueueSize
      /\ Cardinality(DOMAIN states) <= MaxStates
  BY DEF DataTyped, KernelTyped, FiltersTyped, SinkTyped
<1> QED BY <1>1, <1>2, <1>3 DEF TypeOK, LifecycleTyped

\* The perf buffers, the queue, the ancestry table and the summaries stay within the
\* limits of their configuration for every configuration and however events arrive,
\* and every variable keeps its type (TypeOK).
THEOREM TelemetryWithinLimits == Spec => []TypeOK
<1>1. Init => LifecycleTyped
  BY DEF Init, LifecycleTyped
<1>2. DataTyped /\ LifecycleTyped /\ [Next]_vars => (DataTyped /\ LifecycleTyped)'
  BY KernelStep, FiltersStep, SinkStep, LifecycleStep DEF DataTyped
<1>3. DataTyped /\ LifecycleTyped => TypeOK
  BY TypedImpliesTypeOK
<1> QED BY <1>1, <1>2, <1>3, DataInit, PTL DEF Spec
-----------------------------------------------------------------------------
(***************************************************************************)
(* Rename deduplication.                                                   *)
(***************************************************************************)
\* The verdict on the i-th rename is the one RenamesDeduplicated asks for.
Judged(s, i) ==
  LET r == s[i]
      late == \E j \in 1..(i - 1) : s[j].e.ts > r.e.ts
      twin == \E j \in 1..(i - 1) :
                  /\ s[j].passed
                  /\ Fingerprint(s[j].e) = Fingerprint(r.e)
                  /\ r.e.ts - s[j].e.ts <= Window
  IN ~late => (r.passed <=> ~twin)

\* Every entry of the table is a rename that passed.
EntriesPassed ==
  \A r \in Held(recent) : \E j \in 1..Len(renames) :
    renames[j].passed /\ Fingerprint(renames[j].e) = r.fp /\ renames[j].e.ts = r.ts

\* A rename that passed is in the table, itself or as a later equivalent one, or some
\* rename was processed from more than a window after it.
Remembered(j) ==
  \/ \E r \in Held(recent) : r.fp = Fingerprint(renames[j].e) /\ renames[j].e.ts <= r.ts
  \/ \E k \in 1..Len(renames) : renames[j].e.ts < renames[k].e.ts - Window

RenameInv ==
  /\ EntriesPassed
  /\ \A j \in 1..Len(renames) : renames[j].passed => Remembered(j)
  /\ \A i \in 1..Len(renames) : Judged(renames, i)

\* One more verdict.
LEMMA VerdictAppended ==
  ASSUME NEW s \in Seq(Verdicts), NEW x \in Verdicts
  PROVE  /\ Len(s) \in Nat /\ Len(Append(s, x)) = Len(s) + 1 /\ Append(s, x)[Len(s) + 1] = x
         /\ \A i \in 1..Len(s) : Append(s, x)[i] = s[i] /\ i \in 1..(Len(s) + 1)
         /\ \A i \in 1..(Len(s) + 1) : i \in 1..Len(s) \/ i = Len(s) + 1
         /\ Len(s) + 1 \in 1..(Len(s) + 1)
<1>1. Len(s) \in Nat /\ Len(Append(s, x)) = Len(s) + 1 /\ Append(s, x)[Len(s) + 1] = x
  BY AppendProperties, LenProperties
<1>2. \A i \in 1..Len(s) : Append(s, x)[i] = s[i]
  BY AppendProperties
<1>3. /\ \A i \in 1..Len(s) : i \in 1..(Len(s) + 1)
      /\ \A i \in 1..(Len(s) + 1) : i \in 1..Len(s) \/ i = Len(s) + 1
      /\ Len(s) + 1 \in 1..(Len(s) + 1)
  BY <1>1
<1> QED BY <1>1, <1>2, <1>3

\* It leaves the judgement of earlier renames alone.
LEMMA JudgedBefore ==
  ASSUME NEW s \in Seq(Verdicts), NEW x \in Verdicts, NEW i \in 1..Len(s), Judged(s, i)
  PROVE  Judged(Append(s, x), i)
<1> DEFINE t == Append(s, x)
<1>1. \A j \in 1..Len(s) : t[j] = s[j]
  BY VerdictAppended
<1>2. \A j \in 1..(i - 1) : j \in 1..Len(s)
  BY VerdictAppended
<1> HIDE DEF t
<1>3. t[i] = s[i] /\ \A j \in 1..(i - 1) : t[j] = s[j]
  BY <1>1, <1>2
<1>4. Judged(t, i)
  BY <1>3 DEF Judged
<1> QED BY <1>4 DEF t

\* Times of verdicts are numbers.
LEMMA VerdictFields ==
  ASSUME NEW s \in Seq(Verdicts), NEW i \in 1..Len(s)
  PROVE  s[i] \in Verdicts /\ s[i].e \in Records /\ s[i].e.ts \in Nat /\ s[i].passed \in BOOLEAN
<1>1. s[i] \in Verdicts
  BY ElementOfSeq
<1>2. s[i].e \in Records /\ s[i].passed \in BOOLEAN
  BY <1>1 DEF Verdicts
<1> QED BY <1>1, <1>2, RecordFields, Limits

\* Entries have numbers for times.
LEMMA EntryFields ==
  ASSUME recent \in Seq(Entries), NEW r \in Held(recent)
  PROVE  r.ts \in Nat
<1>1. r \in Entries
  BY ElementOfSeq DEF Held
<1> QED BY <1>1 DEF Entries

\* The table decides as the history does.
LEMMA DuplicateMeansTwin ==
  ASSUME DataTyped, RenameInv, NEW e \in Records, NEW p \in BOOLEAN, p <=> ~Duplicate(e)
  PROVE  Judged(Append(renames, [e |-> e, passed |-> p]), Len(renames) + 1)
<1> DEFINE n == Len(renames)
           x == [e |-> e, passed |-> p]
           t == Append(renames, x)
<1>0. /\ renames \in Seq(Verdicts) /\ recent \in Seq(Entries) /\ x \in Verdicts /\ e.ts \in Nat
      /\ x.e = e /\ (x.passed <=> ~Duplicate(e)) /\ Window \in Nat
  BY RecordFields, Limits DEF DataTyped, FiltersTyped, Verdicts
<1> HIDE DEF x
<1>1. n \in Nat /\ t[n + 1] = x /\ \A i \in 1..n : t[i] = renames[i]
  BY <1>0, VerdictAppended
<1>2. (n + 1) - 1 = n
  BY <1>1
<1> HIDE DEF t
<1>3. ASSUME Duplicate(e)
      PROVE  \E j \in 1..n : /\ renames[j].passed
                             /\ Fingerprint(renames[j].e) = Fingerprint(e)
                             /\ e.ts - renames[j].e.ts <= Window
  <2>1. PICK r \in Held(recent) : r.fp = Fingerprint(e) /\ e.ts - r.ts <= Window
    BY <1>3 DEF Duplicate, Held
  <2>2. PICK j \in 1..n : renames[j].passed /\ Fingerprint(renames[j].e) = r.fp /\ renames[j].e.ts = r.ts
    BY <2>1 DEF RenameInv, EntriesPassed
  <2> QED BY <2>1, <2>2
<1>4. ASSUME NEW j \in 1..n, renames[j].passed, Fingerprint(renames[j].e) = Fingerprint(e),
             e.ts - renames[j].e.ts <= Window, ~\E k \in 1..n : renames[k].e.ts > e.ts
      PROVE  Duplicate(e)
  <2>0. Remembered(j) /\ \A k \in 1..n : renames[k].e.ts \in Nat
    BY <1>0, <1>4, VerdictFields DEF RenameInv
  <2>1. CASE \E k \in 1..n : renames[j].e.ts < renames[k].e.ts - Window
    <3>1. PICK k \in 1..n : renames[j].e.ts < renames[k].e.ts - Window
      BY <2>1
    <3>2. renames[k].e.ts <= e.ts /\ renames[k].e.ts \in Nat /\ renames[j].e.ts \in Nat
      BY <1>0, <1>4, <2>0
    <3> QED BY <1>0, <1>4, <3>1, <3>2
  <2>2. CASE \E r \in Held(recent) : r.fp = Fingerprint(renames[j].e) /\ renames[j].e.ts <= r.ts
    <3>1. PICK r \in Held(recent) : r.fp = Fingerprint(renames[j].e) /\ renames[j].e.ts <= r.ts
      BY <2>2
    <3>2. r.ts \in Nat /\ renames[j].e.ts \in Nat
      BY <1>0, <2>0, EntryFields
    <3>3. r.fp = Fingerprint(e) /\ e.ts - r.ts <= Window
      BY <1>0, <1>4, <3>1, <3>2
    <3> QED BY <3>3 DEF Duplicate, Held
  <2> QED BY <2>0, <2>1, <2>2 DEF Remembered
<1>5. ASSUME ~\E k \in 1..n : renames[k].e.ts > e.ts
      PROVE  Duplicate(e) <=> \E j \in 1..n : /\ renames[j].passed
                                              /\ Fingerprint(renames[j].e) = Fingerprint(e)
                                              /\ e.ts - renames[j].e.ts <= Window
  BY <1>3, <1>4, <1>5
<1>6. Judged(t, n + 1)
  <2> SUFFICES ASSUME ~\E j \in 1..((n + 1) - 1) : t[j].e.ts > t[n + 1].e.ts
               PROVE  t[n + 1].passed <=>
                        ~\E j \in 1..((n + 1) - 1) :
                            /\ t[j].passed
                            /\ Fingerprint(t[j].e) = Fingerprint(t[n + 1].e)
                            /\ t[n + 1].e.ts - t[j].e.ts <= Window
    BY DEF Judged
  <2>1. ~\E k \in 1..n : renames[k].e.ts > e.ts
    BY <1>0, <1>1, <1>2
  <2>2. (\E j \in 1..n : /\ t[j].passed
                         /\ Fingerprint(t[j].e) = Fingerprint(e)
                         /\ e.ts - t[j].e.ts <= Window) <=> Duplicate(e)
    BY <1>1, <1>5, <2>1
  <2> QED BY <1>0, <1>1, <1>2, <2>2
<1> QED BY <1>6 DEF t, x

\* A suppressed rename adds a verdict and nothing else.
LEMMA RenameSuppressed ==
  ASSUME DataTyped, RenameInv, NEW e \in Records, Duplicate(e), Suppress(e)
  PROVE  RenameInv'
<1> DEFINE n == Len(renames)
           x == [e |-> e, passed |-> FALSE]
<1>0. renames \in Seq(Verdicts) /\ x \in Verdicts /\ x.passed = FALSE
  BY DEF DataTyped, FiltersTyped, Verdicts
<1>1. recent' = recent /\ renames' = Append(renames, x)
  BY DEF Suppress
<1>2. Judged(Append(renames, x), n + 1)
  BY DuplicateMeansTwin
<1> HIDE DEF x
<1>3. /\ n \in Nat /\ Len(renames') = n + 1 /\ renames'[n + 1] = x
      /\ \A i \in 1..n : renames'[i] = renames[i] /\ i \in 1..(n + 1)
      /\ \A i \in 1..(n + 1) : i \in 1..n \/ i = n + 1
  BY <1>0, <1>1, VerdictAppended
<1>4. \A i \in 1..n : Judged(renames', i)
  BY <1>0, <1>1, JudgedBefore DEF RenameInv
<1>5. EntriesPassed'
  BY <1>1, <1>3 DEF RenameInv, EntriesPassed
<1>6. ASSUME NEW j \in 1..n, renames[j].passed PROVE Remembered(j)'
  <2>1. Remembered(j)
    BY <1>6 DEF RenameInv
  <2> QED BY <1>1, <1>3, <2>1 DEF Remembered
<1>7. \A j \in 1..Len(renames') : renames'[j].passed => Remembered(j)'
  BY <1>0, <1>3, <1>6
<1>8. \A i \in 1..Len(renames') : Judged(renames', i)
  BY <1>1, <1>2, <1>3, <1>4
<1> HIDE DEF n
<1> QED BY <1>5, <1>7, <1>8 DEF RenameInv

\* A rename that passes refreshes its entry; what expires is too old to matter.
LEMMA RenamePassed ==
  ASSUME DataTyped, RenameInv, NEW e \in Records, ~Duplicate(e),
         recent' = Remember(e), renames' = Append(renames, [e |-> e, passed |-> TRUE])
  PROVE  RenameInv'
<1> DEFINE n == Len(renames)
           x == [e |-> e, passed |-> TRUE]
           entry == [fp |-> Fingerprint(e), ts |-> e.ts]
<1>0. /\ renames \in Seq(Verdicts) /\ recent \in Seq(Entries) /\ x \in Verdicts
      /\ x.passed = TRUE /\ x.e = e /\ entry.fp = Fingerprint(e) /\ entry.ts = e.ts
      /\ e.ts \in Nat /\ Window \in Nat
  BY RecordFields, Limits DEF DataTyped, FiltersTyped, Verdicts
<1>1. /\ Held(recent') \subseteq Held(recent) \cup {entry} /\ entry \in Held(recent')
      /\ \A r \in Held(recent) : r.fp = Fingerprint(e) \/ r.ts < e.ts - Window \/ r \in Held(recent')
  BY <1>0, RememberEntries
<1>2. renames' = Append(renames, x) /\ Judged(Append(renames, x), n + 1)
  BY DuplicateMeansTwin
<1> HIDE DEF x, entry
<1>3. /\ n \in Nat /\ Len(renames') = n + 1 /\ renames'[n + 1] = x /\ n + 1 \in 1..(n + 1)
      /\ \A i \in 1..n : renames'[i] = renames[i] /\ i \in 1..(n + 1)
      /\ \A i \in 1..(n + 1) : i \in 1..n \/ i = n + 1
  BY <1>0, <1>2, VerdictAppended
<1>4. \A i \in 1..n : Judged(renames', i)
  BY <1>0, <1>2, JudgedBefore DEF RenameInv
<1>5. EntriesPassed'
  <2> SUFFICES ASSUME NEW r \in Held(recent')
               PROVE  \E j \in 1..Len(renames') :
                        renames'[j].passed /\ Fingerprint(renames'[j].e) = r.fp /\ renames'[j].e.ts = r.ts
    BY DEF EntriesPassed, Held
  <2>1. CASE r = entry
    BY <1>0, <1>3, <2>1
  <2>2. CASE r \in Held(recent)
    <3>1. PICK j \in 1..n : renames[j].passed /\ Fingerprint(renames[j].e) = r.fp /\ renames[j].e.ts = r.ts
      BY <2>2 DEF RenameInv, EntriesPassed
    <3> QED BY <1>3, <3>1
  <2> QED BY <1>1, <2>1, <2>2
<1>6. ASSUME NEW r \in Held(recent), r.fp = Fingerprint(e) PROVE r.ts < e.ts /\ r.ts \in Nat
  <2>1. r.ts \in Nat
    BY <1>0, EntryFields
  <2>2. ~(e.ts - r.ts <= Window)
    BY <1>6 DEF Duplicate, Held
  <2> QED BY <1>0, <2>1, <2>2
<1>7. ASSUME NEW j \in 1..n, renames[j].passed PROVE Remembered(j)'
  <2>0. Remembered(j) /\ renames'[j] = renames[j] /\ renames[j].e.ts \in Nat
    BY <1>0, <1>3, <1>7, VerdictFields DEF RenameInv
  <2>1. CASE \E k \in 1..n : renames[j].e.ts < renames[k].e.ts - Window
    <3>1. PICK k \in 1..n : renames[j].e.ts < renames[k].e.ts - Window
      BY <2>1
    <3>2. renames'[k] = renames[k] /\ k \in 1..Len(renames')
      BY <1>3
    <3> QED BY <2>0, <3>1, <3>2 DEF Remembered
  <2>2. CASE \E r \in Held(recent) : r.fp = Fingerprint(renames[j].e) /\ renames[j].e.ts <= r.ts
    <3>1. PICK r \in Held(recent) : r.fp = Fingerprint(renames[j].e) /\ renames[j].e.ts <= r.ts
      BY <2>2
    <3>2. r.ts \in Nat
      BY <1>0, EntryFields
    <3>3. CASE r \in Held(recent')
      BY <2>0, <3>1, <3>3 DEF Remembered, Held
    <3>4. CASE r.fp = Fingerprint(e)
      <4>1. r.ts < e.ts
        BY <1>6, <3>4
      <4>2. renames[j].e.ts <= e.ts
        BY <1>0, <2>0, <3>1, <3>2, <4>1
      <4>3. \E s \in Held(recent') : s.fp = Fingerprint(renames'[j].e) /\ renames'[j].e.ts <= s.ts
        BY <1>0, <1>1, <2>0, <3>1, <3>4, <4>2
      <4> QED BY <4>3 DEF Remembered, Held
    <3>5. CASE r.ts < e.ts - Window
      <4>1. renames[j].e.ts < e.ts - Window
        BY <1>0, <2>0, <3>1, <3>2, <3>5
      <4>2. n + 1 \in 1..Len(renames') /\ renames'[n + 1].e.ts = e.ts
        BY <1>0, <1>3
      <4>3. \E k \in 1..Len(renames') : renames'[j].e.ts < renames'[k].e.ts - Window
        BY <2>0, <4>1, <4>2
      <4> QED BY <4>3 DEF Remembered
    <3> QED BY <1>1, <3>1, <3>3, <3>4, <3>5
  <2> QED BY <2>0, <2>1, <2>2 DEF Remembered
<1>8. ASSUME NEW k, k = n + 1 PROVE Remembered(k)'
  <2>1. \E r \in Held(recent') : r.fp = Fingerprint(renames'[k].e) /\ renames'[k].e.ts <= r.ts
    BY <1>0, <1>1, <1>3, <1>8
  <2> QED BY <2>1 DEF Remembered, Held
<1>9. ASSUME NEW j \in 1..Len(renames'), renames'[j].passed PROVE Remembered(j)'
  <2>1. j \in 1..n \/ j = n + 1
    BY <1>3
  <2>2. CASE j \in 1..n
    BY <1>3, <1>7, <1>9, <2>2
  <2>3. CASE j = n + 1
    BY <1>8, <2>3
  <2> QED BY <2>1, <2>2, <2>3
<1>10. \A i \in 1..Len(renames') : Judged(renames', i)
  BY <1>2, <1>3, <1>4
<1> HIDE DEF n
<1> QED BY <1>5, <1>9, <1>10 DEF RenameInv

\* Every step keeps the invariant.
LEMMA RenameStep ==
  ASSUME DataTyped, RenameInv, [Next]_vars
  PROVE  RenameInv'
<1>1. ASSUME UNCHANGED <<recent, renames>> PROVE RenameInv'
  BY <1>1 DEF RenameInv, EntriesPassed, Remembered, Judged, Held
<1>2. CASE Quiet \/ Tick
  BY <1>1, <1>2 DEF Quiet, Tick, filters
<1>3. CASE Consume
  BY <1>1, <1>3 DEF Consume
<1>4. ASSUME NEW c \in Cpus, NEW a \in Activity, Emit(c, a) PROVE RenameInv'
  BY <1>1, <1>4 DEF Emit, filters
<1>5. ASSUME NEW c \in Cpus, ReportLoss(c) PROVE RenameInv'
  BY <1>1, <1>5 DEF ReportLoss
<1>6. ASSUME NEW c \in Cpus, Receive(c) PROVE RenameInv'
  <2> DEFINE e == Head(rings[c])
  <2>1. /\ e \in Records
        /\ \/ e.kind = "FILE_RENAME" /\ Duplicate(e) /\ Suppress(e)
           \/ ~(e.kind = "FILE_RENAME" /\ Duplicate(e)) /\ Publish(e)
    BY <1>6, ReceiveFacts DEF DataTyped
  <2> HIDE DEF e
  <2>2. CASE Duplicate(e) /\ Suppress(e)
    BY <2>1, <2>2, RenameSuppressed
  <2>3. CASE e.kind # "FILE_RENAME" /\ Publish(e)
    BY <1>1, <2>3 DEF Publish
  <2>4. CASE e.kind = "FILE_RENAME" /\ ~Duplicate(e) /\ Publish(e)
    <3>1. recent' = Remember(e) /\ renames' = Append(renames, [e |-> e, passed |-> TRUE])
      BY <2>4 DEF Publish
    <3> QED BY <2>1, <2>4, <3>1, RenamePassed
  <2> QED BY <2>1, <2>2, <2>3, <2>4
<1> QED BY <1>2, <1>3, <1>4, <1>5, <1>6, DataSteps

\* A rename that is not late is suppressed exactly when an equivalent rename passed at
\* most one window before it, for every window, number of CPUs and order of arrival,
\* although the table forgets entries in processing order (RenamesDeduplicated).
THEOREM RenamesCorrect == Spec => []RenamesDeduplicated
<1>1. Init => RenameInv
  <2> SUFFICES ASSUME Init PROVE RenameInv
    OBVIOUS
  <2>1. recent = << >> /\ renames = << >> /\ Len(<< >>) = 0
    BY EmptySeq DEF Init
  <2>2. Held(recent) = {} /\ 1..Len(renames) = {}
    BY <2>1 DEF Held
  <2> QED BY <2>2 DEF RenameInv, EntriesPassed
<1>2. DataTyped /\ RenameInv /\ [Next]_vars => (DataTyped /\ RenameInv)'
  BY KernelStep, FiltersStep, SinkStep, RenameStep DEF DataTyped
<1>3. RenameInv => RenamesDeduplicated
  BY DEF RenameInv, Judged, RenamesDeduplicated
<1> QED BY <1>1, <1>2, <1>3, DataInit, PTL DEF Spec

-----------------------------------------------------------------------------
(***************************************************************************)
(* Telemetry: no record is lost uncounted.                                 *)
(***************************************************************************)
\* What one item of a buffer announces, and the running totals over its first n items.
AnnouncedBy(x) == IF IsNotice(x) THEN x.count ELSE 0
Totals(s, f, n) == f = [i \in 0..n |-> IF i = 0 THEN 0 ELSE f[i - 1] + AnnouncedBy(s[i])]

\* There are such totals, so that the recursion in Announced defines a function.
LEMMA TotalsExist ==
  ASSUME NEW s, NEW n \in Nat
  PROVE  \E f : Totals(s, f, n)
<1> DEFINE A == {m \in Nat : \E f : Totals(s, f, m)}
<1>1. 0 \in A
  <2> DEFINE f == [i \in 0..0 |-> 0]
  <2>1. \A i \in 0..0 : i = 0
    OBVIOUS
  <2>2. Totals(s, f, 0)
    BY <2>1 DEF Totals
  <2> QED BY <2>2
<1>2. ASSUME NEW m \in A PROVE m + 1 \in A
  <2>1. m \in Nat
    OBVIOUS
  <2>2. PICK f : Totals(s, f, m)
    OBVIOUS
  <2> DEFINE g == [i \in 0..(m + 1) |-> IF i = m + 1 THEN f[m] + AnnouncedBy(s[m + 1]) ELSE f[i]]
  <2>3. \A i \in 0..m : f[i] = IF i = 0 THEN 0 ELSE f[i - 1] + AnnouncedBy(s[i])
    BY <2>2 DEF Totals
  <2>4. ASSUME NEW i \in 0..(m + 1) PROVE g[i] = IF i = 0 THEN 0 ELSE g[i - 1] + AnnouncedBy(s[i])
    <3>1. CASE i = m + 1
      <4>1. i - 1 = m /\ m \in 0..(m + 1) /\ m # m + 1 /\ i # 0
        BY <2>1, <3>1
      <4>2. g[i] = f[m] + AnnouncedBy(s[m + 1]) /\ g[m] = f[m]
        BY <3>1, <4>1
      <4> QED BY <3>1, <4>1, <4>2
    <3>2. CASE i # m + 1
      <4>1. i \in 0..m
        BY <2>1, <3>2
      <4>2. g[i] = f[i]
        BY <3>2
      <4>3. i # 0 => i - 1 \in 0..(m + 1) /\ i - 1 # m + 1
        BY <2>1, <4>1
      <4>4. i # 0 => g[i - 1] = f[i - 1]
        BY <4>3
      <4> QED BY <2>3, <4>1, <4>2, <4>4
    <3> QED BY <3>1, <3>2
  <2>5. Totals(s, g, m + 1)
    BY <2>4 DEF Totals
  <2> QED BY <2>1, <2>5
<1> HIDE DEF A
<1>3. A \subseteq Nat
  BY DEF A
<1>4. n \in A
  BY <1>1, <1>2, <1>3, Induction
<1> QED BY <1>4 DEF A

\* Totals are natural numbers.
LEMMA TotalsTyped ==
  ASSUME NEW s \in Seq(Items), NEW f, Totals(s, f, Len(s))
  PROVE  f[0] = 0 /\ \A i \in 0..Len(s) : f[i] \in Nat
<1>0. Len(s) \in Nat
  BY LenProperties
<1>1. ASSUME NEW i \in 1..Len(s) PROVE AnnouncedBy(s[i]) \in Nat
  <2>1. s[i] \in Items
    BY ElementOfSeq
  <2> QED BY <2>1, ItemSplit DEF AnnouncedBy
<1>2. \A i \in 0..Len(s) : f[i] = IF i = 0 THEN 0 ELSE f[i - 1] + AnnouncedBy(s[i])
  BY DEF Totals
<1>3. f[0] = 0
  BY <1>0, <1>2
<1> DEFINE A == {m \in Nat : m <= Len(s) => f[m] \in Nat}
<1>4. 0 \in A
  BY <1>3
<1>5. ASSUME NEW m \in A PROVE m + 1 \in A
  <2> SUFFICES ASSUME m + 1 <= Len(s) PROVE f[m + 1] \in Nat
    OBVIOUS
  <2>1. m \in Nat /\ m + 1 \in 1..Len(s) /\ m + 1 \in 0..Len(s) /\ (m + 1) - 1 = m /\ m + 1 # 0
    BY <1>0
  <2>2. f[m] \in Nat
    BY <1>0
  <2>3. f[m + 1] = f[m] + AnnouncedBy(s[m + 1])
    BY <1>2, <2>1
  <2> QED BY <1>1, <2>1, <2>2, <2>3
<1>6. A \subseteq Nat
  OBVIOUS
<1> HIDE DEF A
<1>7. A = Nat
  BY <1>4, <1>5, <1>6, Induction
<1> QED BY <1>0, <1>3, <1>7 DEF A

\* The totals over a part of a buffer.
LEMMA TotalsShift ==
  ASSUME NEW s \in Seq(Items), NEW f, Totals(s, f, Len(s)),
         NEW t \in Seq(Items), NEW g, Totals(t, g, Len(t)),
         NEW d \in Nat, NEW n \in Nat, n <= Len(t), d + n <= Len(s),
         \A i \in 1..n : t[i] = s[d + i]
  PROVE  f[d + n] = f[d] + g[n]
<1>0. Len(s) \in Nat /\ Len(t) \in Nat
  BY LenProperties
<1>1. g[0] = 0 /\ (\A i \in 0..Len(s) : f[i] \in Nat) /\ (\A i \in 0..Len(t) : g[i] \in Nat)
  BY TotalsTyped
<1>2. \A i \in 0..Len(s) : f[i] = IF i = 0 THEN 0 ELSE f[i - 1] + AnnouncedBy(s[i])
  BY DEF Totals
<1>3. \A i \in 0..Len(t) : g[i] = IF i = 0 THEN 0 ELSE g[i - 1] + AnnouncedBy(t[i])
  BY DEF Totals
<1> DEFINE A == {m \in Nat : m <= n => f[d + m] = f[d] + g[m]}
<1>4. 0 \in A
  <2>1. d + 0 = d /\ d \in 0..Len(s)
    BY <1>0
  <2> QED BY <1>1, <2>1
<1>5. ASSUME NEW m \in A PROVE m + 1 \in A
  <2> SUFFICES ASSUME m + 1 <= n PROVE f[d + (m + 1)] = f[d] + g[m + 1]
    OBVIOUS
  <2>1. m \in Nat /\ f[d + m] = f[d] + g[m]
    OBVIOUS
  <2> DEFINE p == m + 1
             q == d + p
  <2>2. /\ p \in 1..n /\ p \in 0..Len(t) /\ p # 0 /\ p - 1 = m
        /\ q \in 0..Len(s) /\ q # 0 /\ q - 1 = d + m /\ q \in 1..Len(s)
        /\ m \in 0..Len(t) /\ d \in 0..Len(s)
    BY <1>0, <2>1
  <2> HIDE DEF p, q
  <2>3. g[p] = g[m] + AnnouncedBy(t[p])
    BY <1>3, <2>2
  <2>4. f[q] = f[d + m] + AnnouncedBy(s[q])
    BY <1>2, <2>2
  <2>5. t[p] = s[q]
    BY <2>2 DEF q
  <2>6. AnnouncedBy(s[q]) \in Nat
    <3>1. s[q] \in Items
      BY <2>2, ElementOfSeq
    <3> QED BY <3>1, ItemSplit DEF AnnouncedBy
  <2>7. g[m] \in Nat /\ f[d] \in Nat
    BY <1>1, <2>2
  <2>8. f[q] = f[d] + g[p]
    BY <2>1, <2>3, <2>4, <2>5, <2>6, <2>7
  <2> QED BY <2>8 DEF p, q
<1>6. A \subseteq Nat
  OBVIOUS
<1> HIDE DEF A
<1>7. A = Nat
  BY <1>4, <1>5, <1>6, Induction
<1>8. n \in A /\ n <= n
  BY <1>7
<1> QED BY <1>8 DEF A

\* Announced is the last of the totals.
LEMMA AnnouncedTotals ==
  ASSUME NEW s \in Seq(Items)
  PROVE  \E f : Totals(s, f, Len(s)) /\ Announced(s) = f[Len(s)]
<1> DEFINE total == CHOOSE f : Totals(s, f, Len(s))
<1>1. Len(s) \in Nat
  BY LenProperties
<1>2. Totals(s, total, Len(s))
  BY <1>1, TotalsExist
<1>3. Announced(s) = total[Len(s)]
  BY DEF Announced, Totals, AnnouncedBy
<1> QED BY <1>2, <1>3

\* The losses a buffer announces when an item arrives, and when one is read.
LEMMA AnnouncedAppend ==
  ASSUME NEW s \in Seq(Items), NEW x \in Items
  PROVE  /\ Announced(s) \in Nat
         /\ Announced(Append(s, x)) = Announced(s) + AnnouncedBy(x)
<1> DEFINE t == Append(s, x)
           n == Len(s)
<1>1. /\ t \in Seq(Items) /\ Len(t) = n + 1 /\ n \in Nat
      /\ \A i \in 1..n : t[i] = s[i]
      /\ t[n + 1] = x
  BY AppendProperties, LenProperties
<1>2. PICK f : Totals(s, f, n) /\ Announced(s) = f[n]
  BY AnnouncedTotals
<1> HIDE DEF t
<1>3. PICK g : Totals(t, g, Len(t)) /\ Announced(t) = g[Len(t)]
  BY <1>1, AnnouncedTotals
<1>4. f[n] \in Nat
  <2>1. \A i \in 0..n : f[i] \in Nat
    BY <1>2, TotalsTyped
  <2> QED BY <1>1, <2>1
<1>5. g[0] = 0
  BY <1>1, <1>3, TotalsTyped
<1>6. g[n] = f[n]
  <2>0. PICK d \in Nat : d = 0
    OBVIOUS
  <2>1. n \in Nat /\ n <= Len(s) /\ d + n <= Len(t) /\ d + n = n
    BY <1>1, <2>0
  <2>2. \A i \in 1..n : i = d + i /\ t[i] = s[i]
    BY <1>1, <2>0
  <2>3. \A i \in 1..n : s[i] = t[d + i]
    BY <2>2
  <2>4. Totals(s, f, Len(s)) /\ Totals(t, g, Len(t)) /\ s \in Seq(Items) /\ t \in Seq(Items) /\ d \in Nat
    BY <1>1, <1>2, <1>3
  <2> HIDE DEF n
  <2>5. g[d + n] = g[d] + f[n]
    BY ONLY <2>1, <2>3, <2>4, TotalsShift
  <2> QED BY <1>4, <1>5, <2>0, <2>1, <2>5
<1>7. g[n + 1] = g[n] + AnnouncedBy(t[n + 1])
  <2>1. n + 1 \in 0..Len(t) /\ n + 1 # 0 /\ (n + 1) - 1 = n
    BY <1>1
  <2>2. \A i \in 0..Len(t) : g[i] = IF i = 0 THEN 0 ELSE g[i - 1] + AnnouncedBy(t[i])
    BY <1>3 DEF Totals
  <2> QED BY <2>1, <2>2
<1> QED BY <1>1, <1>2, <1>3, <1>4, <1>6, <1>7 DEF t

\* The same when the first item is read.
LEMMA AnnouncedTail ==
  ASSUME NEW s \in Seq(Items), s # << >>
  PROVE  /\ Announced(Tail(s)) \in Nat /\ AnnouncedBy(Head(s)) \in Nat
         /\ Announced(s) = AnnouncedBy(Head(s)) + Announced(Tail(s))
<1> DEFINE t == Tail(s)
           n == Len(t)
<1>1. /\ Head(s) \in Items /\ t \in Seq(Items) /\ Len(t) = Len(s) - 1
      /\ \A i \in 1..Len(t) : t[i] = s[i + 1]
  BY HeadTailProperties
<1>2. Len(s) \in Nat \ {0} /\ Head(s) = s[1]
  BY EmptySeq
<1> HIDE DEF t
<1>3. n \in Nat /\ 1 + n = Len(s)
  BY <1>1, <1>2
<1>4. PICK f : Totals(s, f, Len(s)) /\ Announced(s) = f[Len(s)]
  BY AnnouncedTotals
<1>5. PICK g : Totals(t, g, n) /\ Announced(t) = g[n]
  BY <1>1, AnnouncedTotals
<1>6. \A i \in 1..n : t[i] = s[1 + i]
  BY <1>1
<1>7. f[1 + n] = f[1] + g[n]
  <2>0. PICK d \in Nat : d = 1
    OBVIOUS
  <2>1. n \in Nat /\ n <= Len(t) /\ d + n <= Len(s) /\ \A i \in 1..n : t[i] = s[d + i]
    BY <1>3, <1>6, <2>0
  <2>2. Totals(s, f, Len(s)) /\ Totals(t, g, Len(t)) /\ s \in Seq(Items) /\ t \in Seq(Items) /\ d \in Nat
    BY <1>1, <1>4, <1>5
  <2> HIDE DEF n
  <2>3. f[d + n] = f[d] + g[n]
    BY ONLY <2>1, <2>2, TotalsShift
  <2> QED BY <2>0, <2>3
<1>8. f[1] = AnnouncedBy(s[1])
  <2>1. f[0] = 0 /\ 1 \in 0..Len(s) /\ 0 \in Nat
    BY <1>2, <1>4, TotalsTyped
  <2>2. \A i \in 0..Len(s) : f[i] = IF i = 0 THEN 0 ELSE f[i - 1] + AnnouncedBy(s[i])
    BY <1>4 DEF Totals
  <2>3. f[1] = f[0] + AnnouncedBy(s[1])
    BY <2>1, <2>2
  <2>4. AnnouncedBy(s[1]) \in Nat
    BY <1>1, <1>2, ItemSplit DEF AnnouncedBy
  <2> QED BY <2>1, <2>3, <2>4
<1>9. g[n] \in Nat
  <2>1. \A i \in 0..n : g[i] \in Nat
    BY <1>1, <1>5, TotalsTyped
  <2> QED BY <1>3, <2>1
<1>10. AnnouncedBy(Head(s)) \in Nat
  BY <1>1, ItemSplit DEF AnnouncedBy
<1> QED BY <1>2, <1>3, <1>4, <1>5, <1>7, <1>8, <1>9, <1>10 DEF t

\* The losses that are known to the kernel only: p[c] of them on CPU c.
Pending(p) == UNION {{c} \X (1..p[c]) : c \in Cpus}

\* Its elements.
LEMMA PendingElements ==
  ASSUME NEW p, NEW c, NEW k
  PROVE  <<c, k>> \in Pending(p) <=> c \in Cpus /\ k \in 1..p[c]
BY DEF Pending

\* The pairs with a given first element.
LEMMA Column ==
  ASSUME NEW c, NEW S, NEW P, \A j \in S : <<c, j>> \in P
  PROVE  {c} \X S \subseteq P
OBVIOUS

\* One more loss.
LEMMA PendingGrows ==
  ASSUME NEW p \in [Cpus -> Nat], NEW q \in [Cpus -> Nat], NEW c \in Cpus, NEW k \in Nat,
         q[c] = p[c] + k, \A d \in Cpus : d # c => q[d] = p[d], IsFiniteSet(Pending(p))
  PROVE  /\ IsFiniteSet(Pending(q))
         /\ Cardinality(Pending(q)) = Cardinality(Pending(p)) + k
<1> DEFINE T == (p[c] + 1)..(p[c] + k)
           new == {c} \X T
<1>0. p[c] \in Nat /\ q[c] = p[c] + k /\ \A d \in Cpus : d # c => q[d] = p[d]
  OBVIOUS
<1>1. IsFiniteSet(T) /\ Cardinality(T) = k
  <2>1. p[c] + 1 \in Int /\ p[c] + k \in Int
    BY <1>0
  <2>2. /\ IsFiniteSet(T)
        /\ Cardinality(T) = IF p[c] + 1 > p[c] + k THEN 0 ELSE (p[c] + k) - (p[c] + 1) + 1
    BY <2>1, FS_Interval
  <2> HIDE DEF T
  <2> QED BY <1>0, <2>2
<1>2. IsFiniteSet(new) /\ Cardinality(new) = k
  <2>1. IsFiniteSet({c}) /\ Cardinality({c}) = 1
    BY FS_Singleton
  <2> HIDE DEF T
  <2>2. IsFiniteSet(new) /\ Cardinality(new) = Cardinality({c}) * Cardinality(T)
    BY <1>1, <2>1, FS_Product
  <2> HIDE DEF new
  <2>3. Cardinality(new) = 1 * k
    BY <1>1, <2>1, <2>2
  <2> QED BY <2>2, <2>3
<1>3. Pending(q) = Pending(p) \cup new
  <2>1. ASSUME NEW d \in Cpus PROVE {d} \X (1..q[d]) \subseteq Pending(p) \cup new
    <3> SUFFICES ASSUME NEW j \in 1..q[d] PROVE <<d, j>> \in Pending(p) \cup new
      BY Column
    <3>1. CASE d = c /\ j > p[c]
      BY <1>0, <3>1
    <3>2. CASE ~(d = c /\ j > p[c])
      <4>1. j \in 1..p[d]
        BY <1>0, <3>2
      <4>2. <<d, j>> \in Pending(p)
        BY <4>1, PendingElements
      <4> QED BY <4>2
    <3> QED BY <3>1, <3>2
  <2>2. ASSUME NEW d \in Cpus PROVE {d} \X (1..p[d]) \subseteq Pending(q)
    <3> SUFFICES ASSUME NEW j \in 1..p[d] PROVE <<d, j>> \in Pending(q)
      BY Column
    <3>1. j \in 1..q[d]
      BY <1>0
    <3> QED BY <3>1, PendingElements
  <2>3. new \subseteq Pending(q)
    <3> SUFFICES ASSUME NEW j \in T PROVE <<c, j>> \in Pending(q)
      BY Column
    <3>1. j \in 1..q[c]
      BY <1>0
    <3> QED BY <3>1, PendingElements
  <2>4. Pending(q) \subseteq Pending(p) \cup new
    <3> HIDE DEF new
    <3>1. Pending(q) = UNION {{d} \X (1..q[d]) : d \in Cpus}
      BY DEF Pending
    <3> QED BY <2>1, <3>1
  <2>5. Pending(p) \subseteq Pending(q)
    <3>1. Pending(p) = UNION {{d} \X (1..p[d]) : d \in Cpus}
      BY DEF Pending
    <3> QED BY <2>2, <3>1
  <2> QED BY <2>3, <2>4, <2>5
<1>4. Pending(p) \cap new = {}
  <2> SUFFICES ASSUME NEW j \in T, <<c, j>> \in Pending(p) PROVE FALSE
    OBVIOUS
  <2>1. j \in 1..p[c]
    BY PendingElements
  <2> QED BY <1>0, <2>1
<1> HIDE DEF new
<1>5. /\ IsFiniteSet(Pending(p) \cup new)
      /\ Cardinality(Pending(p) \cup new) = Cardinality(Pending(p)) + Cardinality(new) - Cardinality(Pending(p) \cap new)
  BY <1>2, FS_Union
<1>6. Cardinality({}) = 0 /\ Cardinality(Pending(p)) \in Nat
  BY FS_EmptySet, FS_CardinalityType
<1>7. Cardinality(Pending(q)) = Cardinality(Pending(p)) + k - 0
  BY <1>2, <1>3, <1>4, <1>5, <1>6
<1>8. Cardinality(Pending(q)) = Cardinality(Pending(p)) + k
  BY ONLY <1>6, <1>7, k \in Nat
<1> QED BY <1>3, <1>5, <1>8

\* Losses that become known to the collector: there were finitely many before.
LEMMA PendingShrinks ==
  ASSUME NEW p \in [Cpus -> Nat], NEW q \in [Cpus -> Nat], NEW c \in Cpus, NEW k \in Nat,
         p[c] = q[c] + k, \A d \in Cpus : d # c => p[d] = q[d], IsFiniteSet(Pending(p))
  PROVE  /\ IsFiniteSet(Pending(q))
         /\ Cardinality(Pending(p)) = Cardinality(Pending(q)) + k
<1>1. Pending(q) \subseteq Pending(p)
  <2>1. ASSUME NEW d \in Cpus PROVE {d} \X (1..q[d]) \subseteq Pending(p)
    <3> SUFFICES ASSUME NEW j \in 1..q[d] PROVE <<d, j>> \in Pending(p)
      BY Column
    <3>0. q[d] \in Nat /\ p[d] \in Nat /\ q[d] <= p[d]
      OBVIOUS
    <3>1. j \in 1..p[d]
      BY <3>0
    <3> QED BY <3>1, PendingElements
  <2>2. Pending(q) = UNION {{d} \X (1..q[d]) : d \in Cpus}
    BY DEF Pending
  <2> QED BY <2>1, <2>2
<1>2. IsFiniteSet(Pending(q))
  BY <1>1, FS_Subset
<1>3. Cardinality(Pending(p)) = Cardinality(Pending(q)) + k
  BY ONLY <1>2, PendingGrows, p \in [Cpus -> Nat], q \in [Cpus -> Nat], c \in Cpus, k \in Nat,
     p[c] = q[c] + k, \A d \in Cpus : d # c => p[d] = q[d]
<1> QED BY <1>2, <1>3

\* No record is in a buffer twice.
Distinct(s) == \A i, j \in 1..Len(s) :
                 ~IsNotice(s[i]) /\ ~IsNotice(s[j]) /\ s[i].id = s[j].id => i = j

\* It stays so when a new record, or a notice, arrives.
LEMMA DistinctAppend ==
  ASSUME NEW s \in Seq(Items), Distinct(s), NEW x \in Items, IsNotice(x) \/ x.id \notin Ids(s)
  PROVE  Distinct(Append(s, x))
<1> DEFINE t == Append(s, x)
<1>1. /\ Len(t) = Len(s) + 1 /\ Len(s) \in Nat
      /\ \A i \in 1..Len(s) : t[i] = s[i]
      /\ t[Len(s) + 1] = x
  BY AppendProperties, LenProperties
<1> HIDE DEF t
<1>2. \A i \in 1..Len(s) : ~IsNotice(s[i]) => s[i].id \in Ids(s)
  BY DEF Ids
<1>3. \A i \in 1..Len(t) : i \in 1..Len(s) \/ i = Len(s) + 1
  BY <1>1
<1>4. \A i, j \in 1..Len(s) :
                 ~IsNotice(s[i]) /\ ~IsNotice(s[j]) /\ s[i].id = s[j].id => i = j
  BY DEF Distinct
<1>5. Distinct(t)
  <2> SUFFICES ASSUME NEW i \in 1..Len(t), NEW j \in 1..Len(t),
                      ~IsNotice(t[i]), ~IsNotice(t[j]), t[i].id = t[j].id
               PROVE  i = j
    BY DEF Distinct
  <2> QED BY <1>1, <1>2, <1>3, <1>4
<1> QED BY <1>5 DEF t

\* And when the first is read, which is then no longer there.
LEMMA DistinctTail ==
  ASSUME NEW s \in Seq(Items), s # << >>, Distinct(s)
  PROVE  /\ Distinct(Tail(s))
         /\ ~IsNotice(Head(s)) => Head(s).id \notin Ids(Tail(s))
<1> DEFINE t == Tail(s)
<1>1. t \in Seq(Items) /\ Len(t) = Len(s) - 1 /\ \A i \in 1..Len(t) : t[i] = s[i + 1]
  BY HeadTailProperties
<1>2. Len(s) \in Nat \ {0} /\ Head(s) = s[1]
  BY EmptySeq
<1> HIDE DEF t
<1>3. \A i \in 1..Len(t) : i + 1 \in 1..Len(s) /\ i + 1 # 1
  BY <1>1, <1>2
<1>4. 1 \in 1..Len(s)
  BY <1>2
<1>5. \A i, j \in 1..Len(s) :
                 ~IsNotice(s[i]) /\ ~IsNotice(s[j]) /\ s[i].id = s[j].id => i = j
  BY DEF Distinct
<1>6. Distinct(t)
  <2> SUFFICES ASSUME NEW i \in 1..Len(t), NEW j \in 1..Len(t),
                      ~IsNotice(t[i]), ~IsNotice(t[j]), t[i].id = t[j].id
               PROVE  i = j
    BY DEF Distinct
  <2>1. i + 1 = j + 1
    BY <1>1, <1>3, <1>5
  <2> QED BY <2>1
<1>7. ASSUME ~IsNotice(Head(s)), Head(s).id \in Ids(t) PROVE FALSE
  <2>1. PICK i \in 1..Len(t) : ~IsNotice(t[i]) /\ t[i].id = s[1].id
    BY <1>2, <1>7 DEF Ids
  <2>2. i + 1 = 1
    BY <1>1, <1>2, <1>3, <1>4, <1>5, <1>7, <2>1
  <2> QED BY <1>3, <2>2
<1> QED BY <1>6, <1>7 DEF t

\* The records in the buffers, the records that were taken from them and not dropped,
\* those that are nowhere, and the losses on each CPU that nobody was told of.
RingIds   == UNION {Ids(rings[c]) : c \in Cpus}
Elsewhere == Ids(queue) \cup {ingested[i].e.id : i \in 1..Len(ingested)} \cup discarded
Missing   == (1..emitted) \ (RingIds \cup Elsewhere)
Owed      == [c \in Cpus |-> Announced(rings[c]) + overrun[c]]

\* A record is in one place only.
Placed ==
  /\ RingIds \subseteq 1..emitted /\ Elsewhere \subseteq 1..emitted
  /\ \A c \in Cpus : Distinct(rings[c]) /\ Ids(rings[c]) \cap Elsewhere = {}
  /\ \A c, d \in Cpus : c # d => Ids(rings[c]) \cap Ids(rings[d]) = {}

\* Each missing record is counted once, by the collector or by the kernel.
Balanced ==
  /\ IsFiniteSet(Pending(Owed))
  /\ Cardinality(Missing) = dropped + Cardinality(Pending(Owed))

\* A buffer announces a number of losses, and Owed is one for each CPU.
LEMMA AnnouncedTyped ==
  ASSUME NEW s \in Seq(Items)
  PROVE  Announced(s) \in Nat
<1>1. PICK f : Totals(s, f, Len(s)) /\ Announced(s) = f[Len(s)]
  BY AnnouncedTotals
<1>2. \A i \in 0..Len(s) : f[i] \in Nat
  BY <1>1, TotalsTyped
<1>3. Len(s) \in 0..Len(s)
  BY LenProperties
<1> QED BY <1>1, <1>2, <1>3

\* Owed is a number for each CPU.
LEMMA OwedTyped ==
  ASSUME NEW r \in [Cpus -> Seq(Items)], NEW o \in [Cpus -> Nat]
  PROVE  [c \in Cpus |-> Announced(r[c]) + o[c]] \in [Cpus -> Nat]
<1>1. ASSUME NEW c \in Cpus PROVE Announced(r[c]) + o[c] \in Nat
  <2>1. Announced(r[c]) \in Nat /\ o[c] \in Nat
    BY AnnouncedTyped
  <2> QED BY <2>1
<1> QED BY <1>1

\* There are finitely many missing records.
LEMMA MissingFinite ==
  ASSUME emitted \in Nat
  PROVE  IsFiniteSet(Missing) /\ Cardinality(Missing) \in Nat
<1>1. IsFiniteSet(1..emitted)
  BY FS_Interval
<1>2. IsFiniteSet(Missing)
  BY <1>1, FS_Subset DEF Missing
<1> QED BY <1>2, FS_CardinalityType

\* A record that leaves no trace is counted where it is lost.
LEMMA LossEmit ==
  ASSUME DataTyped, DataTyped', Placed, Balanced, NEW c \in Cpus, NEW a \in Activity, Emit(c, a)
  PROVE  Placed' /\ Balanced'
<1> DEFINE e == Sample(a)
           notice == [kind |-> "LOST", count |-> overrun[c]]
           noted == IF overrun[c] > 0 THEN Append(rings[c], notice) ELSE rings[c]
           n == emitted + 1
<1>0. KernelTyped /\ rings \in [Cpus -> Seq(Items)] /\ overrun \in [Cpus -> Nat] /\ dropped \in Nat
  BY DEF DataTyped, KernelTyped
<1>1. /\ e \in Records /\ e.id = n /\ emitted' = n /\ notice \in Notices /\ noted \in Seq(Items)
      /\ Ids(noted) = Ids(rings[c]) /\ UNCHANGED <<clock, filters, sink>>
      /\ overrun[c] \in Nat /\ rings[c] \in Seq(Items)
      /\ \/ rings' = rings /\ overrun' = [overrun EXCEPT ![c] = overrun[c] + 1]
         \/ /\ rings' = [rings EXCEPT ![c] = Append(noted, e)]
            /\ overrun' = [overrun EXCEPT ![c] = 0]
  BY <1>0, EmitFacts
<1>2. UNCHANGED <<queue, dropped, discarded, ingested>>
  BY <1>1 DEF filters, sink
<1>3. Elsewhere' = Elsewhere
  BY <1>2 DEF Elsewhere
<1>4. emitted \in Nat /\ n \in Nat /\ 1..n = (1..emitted) \cup {n} /\ n \notin 1..emitted
  <2>1. emitted \in Nat
    BY Limits DEF DataTyped, KernelTyped
  <2> QED BY <2>1
<1>5. IsFiniteSet(Missing) /\ Cardinality(Missing) \in Nat
  BY <1>4, MissingFinite
<1>6. Owed \in [Cpus -> Nat] /\ Owed' \in [Cpus -> Nat]
  <2>1. rings' \in [Cpus -> Seq(Items)] /\ overrun' \in [Cpus -> Nat]
    BY DEF DataTyped, KernelTyped
  <2>2. Owed' = [d \in Cpus |-> Announced(rings'[d]) + overrun'[d]]
    BY DEF Owed
  <2> QED BY <1>0, <2>1, <2>2, OwedTyped DEF Owed
<1>7. /\ RingIds \subseteq 1..emitted /\ Elsewhere \subseteq 1..emitted
      /\ \A d \in Cpus : Distinct(rings[d]) /\ Ids(rings[d]) \cap Elsewhere = {}
      /\ \A d, b \in Cpus : d # b => Ids(rings[d]) \cap Ids(rings[b]) = {}
  BY DEF Placed
<1>8. \A d \in Cpus : Ids(rings[d]) \subseteq RingIds
  BY DEF RingIds
<1>9. IsFiniteSet(Pending(Owed)) /\ Cardinality(Missing) = dropped + Cardinality(Pending(Owed))
      /\ Cardinality(Pending(Owed)) \in Nat
  BY FS_CardinalityType DEF Balanced
<1> HIDE DEF e, notice, noted, n
<1>10. CASE rings' = rings /\ overrun' = [overrun EXCEPT ![c] = overrun[c] + 1]
  <2>1. RingIds' = RingIds
    BY <1>10 DEF RingIds
  <2>2. Placed'
    <3>1. RingIds' \subseteq 1..n /\ Elsewhere' \subseteq 1..n
      BY <1>3, <1>4, <1>7, <2>1
    <3> QED BY <1>1, <1>3, <1>7, <1>10, <3>1 DEF Placed
  <2>3. Missing' = Missing \cup {n}
    <3>1. n \notin RingIds \cup Elsewhere
      BY <1>4, <1>7
    <3>2. Missing' = (1..n) \ (RingIds \cup Elsewhere)
      BY <1>1, <1>3, <2>1 DEF Missing
    <3> QED BY <1>4, <3>1, <3>2 DEF Missing
  <2>4. Cardinality(Missing') = Cardinality(Missing) + 1
    <3>1. n \notin Missing
      BY <1>4 DEF Missing
    <3> QED BY <1>5, <2>3, <3>1, FS_AddElement
  <2>5. IsFiniteSet(Pending(Owed')) /\ Cardinality(Pending(Owed')) = Cardinality(Pending(Owed)) + 1
    <3>1. overrun'[c] = overrun[c] + 1 /\ \A d \in Cpus : d # c => overrun'[d] = overrun[d]
      BY <1>0, <1>10
    <3>2. \A d \in Cpus : Owed'[d] = Announced(rings[d]) + overrun'[d]
      BY <1>10 DEF Owed
    <3>3. \A d \in Cpus : Owed[d] = Announced(rings[d]) + overrun[d]
      BY DEF Owed
    <3>4. Owed'[c] = Owed[c] + 1
      <4>1. Announced(rings[c]) \in Nat
        BY <1>1, AnnouncedTyped
      <4> QED BY <1>1, <3>1, <3>2, <3>3, <4>1
    <3>5. \A d \in Cpus : d # c => Owed'[d] = Owed[d]
      BY <3>1, <3>2, <3>3
    <3> QED BY <1>6, <1>9, <3>4, <3>5, PendingGrows
  <2>6. Cardinality(Missing') = dropped' + Cardinality(Pending(Owed'))
    BY <1>0, <1>2, <1>9, <2>4, <2>5
  <2>7. Balanced'
    BY <2>5, <2>6 DEF Balanced
  <2> QED BY <2>2, <2>7
<1>11. CASE rings' = [rings EXCEPT ![c] = Append(noted, e)] /\ overrun' = [overrun EXCEPT ![c] = 0]
  <2>0. rings'[c] = Append(noted, e) /\ \A d \in Cpus : d # c => rings'[d] = rings[d]
    BY <1>0, <1>11
  <2>1. notice \in Items /\ IsNotice(notice) /\ notice.count = overrun[c] /\ e \in Items /\ ~IsNotice(e)
    BY <1>1, RecordFields DEF Items, notice, IsNotice
  <2>2. Ids(rings'[c]) = Ids(rings[c]) \cup {n}
    <3>1. Ids(Append(noted, e)) = Ids(noted) \cup {e.id}
      BY <1>1, <2>1, IdsAppend
    <3> QED BY <1>1, <2>0, <3>1
  <2>3. RingIds' = RingIds \cup {n}
    <3>1. RingIds' = UNION {Ids(rings'[d]) : d \in Cpus}
      BY DEF RingIds
    <3>2. \A d \in Cpus : d # c => Ids(rings'[d]) = Ids(rings[d])
      BY <2>0
    <3> QED BY <2>2, <3>1, <3>2 DEF RingIds
  <2>4. Distinct(rings'[c])
    <3>1. Distinct(noted)
      BY <1>1, <1>7, <2>1, DistinctAppend DEF noted
    <3>2. n \notin Ids(noted)
      BY <1>1, <1>4, <1>7, <1>8
    <3> QED BY <1>1, <2>0, <2>1, <3>1, <3>2, DistinctAppend
  <2>5. n \notin RingIds /\ n \notin Elsewhere
    BY <1>4, <1>7
  <2>6. Placed'
    <3>1. RingIds' \subseteq 1..n /\ Elsewhere' \subseteq 1..n
      BY <1>3, <1>4, <1>7, <2>3
    <3>2. ASSUME NEW d \in Cpus PROVE Distinct(rings'[d]) /\ Ids(rings'[d]) \cap Elsewhere' = {}
      BY <1>3, <1>7, <2>0, <2>2, <2>4, <2>5
    <3>3. ASSUME NEW d \in Cpus, NEW b \in Cpus, d # b PROVE Ids(rings'[d]) \cap Ids(rings'[b]) = {}
      <4>1. Ids(rings[d]) \cap Ids(rings[b]) = {} /\ n \notin Ids(rings[d]) /\ n \notin Ids(rings[b])
        BY <1>7, <1>8, <2>5, <3>3
      <4>2. Ids(rings'[d]) \subseteq Ids(rings[d]) \cup {n} /\ Ids(rings'[b]) \subseteq Ids(rings[b]) \cup {n}
        BY <2>0, <2>2
      <4>3. d # c \/ b # c
        BY <3>3
      <4>4. n \notin Ids(rings'[d]) \/ n \notin Ids(rings'[b])
        BY <2>0, <4>1, <4>3
      <4> QED BY ONLY <4>1, <4>2, <4>4
    <3> QED BY <1>1, <3>1, <3>2, <3>3 DEF Placed
  <2>7. Missing' = Missing
    <3>1. Missing' = (1..n) \ (RingIds \cup {n} \cup Elsewhere)
      BY <1>1, <1>3, <2>3 DEF Missing
    <3> QED BY <1>4, <3>1 DEF Missing
  <2>8. Owed' = Owed
    <3>1. Announced(rings[c]) \in Nat
      BY <1>1, AnnouncedTyped
    <3>2. Announced(noted) = Announced(rings[c]) + overrun[c]
      <4>1. CASE overrun[c] > 0
        <5>1. AnnouncedBy(notice) = overrun[c]
          BY <2>1 DEF AnnouncedBy
        <5>2. Announced(Append(rings[c], notice)) = Announced(rings[c]) + AnnouncedBy(notice)
          BY <1>1, <2>1, AnnouncedAppend
        <5> QED BY <4>1, <5>1, <5>2 DEF noted
      <4>2. CASE ~(overrun[c] > 0)
        <5>1. overrun[c] = 0 /\ noted = rings[c]
          BY <1>1, <4>2 DEF noted
        <5> QED BY <3>1, <5>1
      <4> QED BY <4>1, <4>2
    <3>3. Announced(rings'[c]) = Announced(noted)
      <4>1. AnnouncedBy(e) = 0
        BY <2>1 DEF AnnouncedBy
      <4>2. Announced(Append(noted, e)) = Announced(noted) + AnnouncedBy(e) /\ Announced(noted) \in Nat
        BY <1>1, <2>1, AnnouncedAppend
      <4> QED BY <2>0, <4>1, <4>2
    <3>4. overrun'[c] = 0 /\ \A d \in Cpus : d # c => overrun'[d] = overrun[d]
      BY <1>0, <1>11
    <3>5. Owed' = [d \in Cpus |-> Announced(rings'[d]) + overrun'[d]]
      BY DEF Owed
    <3>6. Announced(rings'[c]) + overrun'[c] = Announced(rings[c]) + overrun[c]
      BY <1>1, <3>1, <3>2, <3>3, <3>4
    <3>7. \A d \in Cpus : Announced(rings'[d]) + overrun'[d] = Announced(rings[d]) + overrun[d]
      BY <2>0, <3>4, <3>6
    <3> QED BY <3>5, <3>7 DEF Owed
  <2>9. Balanced'
    BY <1>2, <1>9, <2>7, <2>8 DEF Balanced
  <2> QED BY <2>6, <2>9
<1> QED BY <1>1, <1>10, <1>11

\* The buffers when the polling thread reads the first item of one of them.
LEMMA RingsPop ==
  ASSUME DataTyped, Placed, NEW c \in Cpus, rings[c] # << >>,
         rings' = [rings EXCEPT ![c] = Tail(rings[c])]
  PROVE  /\ rings'[c] = Tail(rings[c]) /\ \A d \in Cpus : d # c => rings'[d] = rings[d]
         /\ \A d \in Cpus : Distinct(rings'[d]) /\ Ids(rings'[d]) \subseteq Ids(rings[d])
         /\ \A d, b \in Cpus : d # b => Ids(rings'[d]) \cap Ids(rings'[b]) = {}
         /\ IsNotice(Head(rings[c])) => RingIds' = RingIds
         /\ ~IsNotice(Head(rings[c])) =>
              /\ RingIds = RingIds' \cup {Head(rings[c]).id}
              /\ Head(rings[c]).id \notin RingIds' /\ Head(rings[c]).id \notin Elsewhere
<1> DEFINE x == Head(rings[c])
<1>0. rings \in [Cpus -> Seq(Items)] /\ rings[c] \in Seq(Items)
  BY DEF DataTyped, KernelTyped
<1>1. rings'[c] = Tail(rings[c]) /\ \A d \in Cpus : d # c => rings'[d] = rings[d]
  BY <1>0
<1>2. /\ \A d \in Cpus : Distinct(rings[d]) /\ Ids(rings[d]) \cap Elsewhere = {}
      /\ \A d, b \in Cpus : d # b => Ids(rings[d]) \cap Ids(rings[b]) = {}
  BY DEF Placed
<1>3. Ids(rings[c]) = IF IsNotice(x) THEN Ids(rings'[c]) ELSE Ids(rings'[c]) \cup {x.id}
  BY <1>0, <1>1, IdsTail
<1>4. Distinct(rings'[c]) /\ (~IsNotice(x) => x.id \notin Ids(rings'[c]))
  BY <1>0, <1>1, <1>2, DistinctTail
<1> HIDE DEF x
<1>5. \A d \in Cpus : Distinct(rings'[d]) /\ Ids(rings'[d]) \subseteq Ids(rings[d])
  BY <1>1, <1>2, <1>3, <1>4
<1>6. \A d, b \in Cpus : d # b => Ids(rings'[d]) \cap Ids(rings'[b]) = {}
  <2> SUFFICES ASSUME NEW d \in Cpus, NEW b \in Cpus, d # b PROVE Ids(rings'[d]) \cap Ids(rings'[b]) = {}
    OBVIOUS
  <2>1. Ids(rings[d]) \cap Ids(rings[b]) = {}
    BY <1>2
  <2>2. Ids(rings'[d]) \subseteq Ids(rings[d]) /\ Ids(rings'[b]) \subseteq Ids(rings[b])
    BY <1>5
  <2> QED BY ONLY <2>1, <2>2
<1>7. \A y : y \in RingIds <=> \E d \in Cpus : y \in Ids(rings[d])
  BY DEF RingIds
<1>8. \A y : y \in RingIds' <=> \E d \in Cpus : y \in Ids(rings'[d])
  BY DEF RingIds
<1>9. CASE IsNotice(x)
  <2>1. \A d \in Cpus : Ids(rings'[d]) = Ids(rings[d])
    BY <1>1, <1>3, <1>9
  <2>2. RingIds' = RingIds
    BY <1>7, <1>8, <2>1
  <2> QED BY <1>1, <1>5, <1>6, <1>9, <2>2 DEF x
<1>10. CASE ~IsNotice(x)
  <2>1. Ids(rings[c]) = Ids(rings'[c]) \cup {x.id} /\ x.id \in Ids(rings[c])
    BY <1>3, <1>10
  <2>2. \A d \in Cpus : d # c => Ids(rings'[d]) = Ids(rings[d])
    BY <1>1
  <2>3. \A d \in Cpus : d # c => x.id \notin Ids(rings[d])
    BY <1>2, <2>1
  <2>4. x.id \notin RingIds'
    <3>1. \A d \in Cpus : x.id \notin Ids(rings'[d])
      BY <1>4, <1>10, <2>2, <2>3
    <3> QED BY <1>8, <3>1
  <2>5. x.id \notin Elsewhere
    BY <1>2, <2>1
  <2>6. \A y : y \in RingIds <=> y \in RingIds' \/ y = x.id
    BY <1>7, <1>8, <2>1, <2>2
  <2> QED BY <1>1, <1>5, <1>6, <1>10, <2>4, <2>5, <2>6 DEF x
<1> QED BY <1>9, <1>10

\* A loss that a notice reports is counted by the collector from then on.
LEMMA LossReport ==
  ASSUME DataTyped, DataTyped', Placed, Balanced, NEW c \in Cpus, ReportLoss(c)
  PROVE  Placed' /\ Balanced'
<1> DEFINE x == Head(rings[c])
<1>0. rings \in [Cpus -> Seq(Items)] /\ rings[c] \in Seq(Items) /\ overrun \in [Cpus -> Nat] /\ dropped \in Nat
  BY DEF DataTyped, KernelTyped
<1>1. /\ rings[c] # << >> /\ IsNotice(x) /\ rings' = [rings EXCEPT ![c] = Tail(rings[c])]
      /\ dropped' = dropped + x.count
      /\ UNCHANGED <<emitted, overrun, queue, discarded, ingested>>
  BY DEF ReportLoss, sink
<1>2. Elsewhere' = Elsewhere
  BY <1>1 DEF Elsewhere
<1>3. /\ rings'[c] = Tail(rings[c]) /\ \A d \in Cpus : d # c => rings'[d] = rings[d]
      /\ \A d \in Cpus : Distinct(rings'[d]) /\ Ids(rings'[d]) \subseteq Ids(rings[d])
      /\ \A d, b \in Cpus : d # b => Ids(rings'[d]) \cap Ids(rings'[b]) = {}
      /\ RingIds' = RingIds
  BY <1>1, RingsPop
<1>4. Missing' = Missing
  BY <1>1, <1>2, <1>3 DEF Missing
<1>5. Placed'
  <2>1. RingIds \subseteq 1..emitted /\ Elsewhere \subseteq 1..emitted
        /\ \A d \in Cpus : Ids(rings[d]) \cap Elsewhere = {}
    BY DEF Placed
  <2>2. RingIds' \subseteq 1..emitted' /\ Elsewhere' \subseteq 1..emitted'
    BY <1>1, <1>2, <1>3, <2>1
  <2>3. \A d \in Cpus : Ids(rings'[d]) \cap Elsewhere' = {}
    BY <1>2, <1>3, <2>1
  <2> QED BY <1>3, <2>2, <2>3 DEF Placed
<1>6. /\ Announced(Tail(rings[c])) \in Nat /\ AnnouncedBy(x) \in Nat
      /\ Announced(rings[c]) = AnnouncedBy(x) + Announced(Tail(rings[c]))
  BY <1>0, <1>1, AnnouncedTail
<1> HIDE DEF x
<1>7. AnnouncedBy(x) = x.count
  BY <1>1 DEF AnnouncedBy
<1>8. Owed \in [Cpus -> Nat] /\ Owed' \in [Cpus -> Nat]
  <2>1. rings' \in [Cpus -> Seq(Items)] /\ overrun' \in [Cpus -> Nat]
    BY DEF DataTyped, KernelTyped
  <2>2. Owed' = [d \in Cpus |-> Announced(rings'[d]) + overrun'[d]]
    BY DEF Owed
  <2> QED BY <1>0, <2>1, <2>2, OwedTyped DEF Owed
<1>9. /\ \A d \in Cpus : Owed'[d] = Announced(rings'[d]) + overrun[d]
      /\ \A d \in Cpus : Owed[d] = Announced(rings[d]) + overrun[d]
  BY <1>1 DEF Owed
<1>10. Owed[c] = Owed'[c] + x.count
  <2>1. Owed'[c] = Announced(Tail(rings[c])) + overrun[c] /\ Owed[c] = Announced(rings[c]) + overrun[c] /\ overrun[c] \in Nat
    BY <1>0, <1>3, <1>9
  <2> QED BY ONLY <1>6, <1>7, <2>1
<1>11. \A d \in Cpus : d # c => Owed[d] = Owed'[d]
  BY <1>3, <1>9
<1>12. IsFiniteSet(Pending(Owed)) /\ Cardinality(Missing) = dropped + Cardinality(Pending(Owed))
  BY DEF Balanced
<1>13. /\ IsFiniteSet(Pending(Owed'))
       /\ Cardinality(Pending(Owed)) = Cardinality(Pending(Owed')) + x.count
  BY <1>6, <1>7, <1>8, <1>10, <1>11, <1>12, PendingShrinks
<1>14. Cardinality(Pending(Owed')) \in Nat
  BY <1>13, FS_CardinalityType
<1>15. Cardinality(Missing') = dropped' + Cardinality(Pending(Owed'))
  BY <1>0, <1>1, <1>4, <1>6, <1>7, <1>12, <1>13, <1>14
<1> QED BY <1>5, <1>13, <1>15 DEF Balanced

\* A record that is read is queued, discarded or counted.
LEMMA LossReceive ==
  ASSUME DataTyped, Placed, Balanced, NEW c \in Cpus, Receive(c)
  PROVE  Placed' /\ Balanced'
<1> DEFINE e == Head(rings[c])
<1>0. /\ rings[c] \in Seq(Items) /\ overrun \in [Cpus -> Nat] /\ dropped \in Nat
      /\ queue \in Seq(Records) /\ KernelTyped /\ emitted \in Nat
  BY Limits DEF DataTyped, KernelTyped, FiltersTyped
<1>1. /\ rings[c] # << >> /\ e \in Records /\ rings' = [rings EXCEPT ![c] = Tail(rings[c])]
      /\ UNCHANGED <<emitted, overrun, sink>> /\ (Suppress(e) \/ Publish(e))
  BY <1>0, ReceiveFacts
<1>2. ~IsNotice(e)
  BY <1>1, RecordFields
<1>3. /\ rings'[c] = Tail(rings[c]) /\ \A d \in Cpus : d # c => rings'[d] = rings[d]
      /\ \A d \in Cpus : Distinct(rings'[d]) /\ Ids(rings'[d]) \subseteq Ids(rings[d])
      /\ \A d, b \in Cpus : d # b => Ids(rings'[d]) \cap Ids(rings'[b]) = {}
  BY <1>1, RingsPop
<1>4. RingIds = RingIds' \cup {e.id} /\ e.id \notin RingIds' /\ e.id \notin Elsewhere
  BY <1>1, <1>2, RingsPop
<1>5. Owed' = Owed
  <2>1. Announced(Tail(rings[c])) \in Nat /\ Announced(rings[c]) = AnnouncedBy(e) + Announced(Tail(rings[c]))
    BY <1>0, <1>1, AnnouncedTail
  <2>2. AnnouncedBy(e) = 0
    BY <1>2 DEF AnnouncedBy
  <2>3. \A d \in Cpus : Announced(rings'[d]) = Announced(rings[d])
    BY <1>3, <2>1, <2>2
  <2>4. Owed' = [d \in Cpus |-> Announced(rings'[d]) + overrun'[d]]
    BY DEF Owed
  <2> QED BY <1>1, <2>3, <2>4 DEF Owed
<1> HIDE DEF e
<1>6. \/ Elsewhere' = Elsewhere \cup {e.id} /\ dropped' = dropped
      \/ Elsewhere' = Elsewhere /\ dropped' = dropped + 1
  <2>1. ingested' = ingested
    BY <1>1 DEF sink
  <2>2. \/ queue' = Append(queue, e) /\ dropped' = dropped /\ discarded' = discarded
        \/ queue' = queue /\ dropped' = dropped + 1 /\ discarded' = discarded
        \/ queue' = queue /\ dropped' = dropped /\ discarded' = discarded \cup {e.id}
    BY <1>1, PublishFacts DEF Suppress
  <2>3. Ids(Append(queue, e)) = Ids(queue) \cup {e.id}
    <3>1. queue \in Seq(Items) /\ e \in Items
      BY <1>0, <1>1 DEF Items
    <3> QED BY <1>2, <3>1, IdsAppend
  <2> QED BY <2>1, <2>2, <2>3 DEF Elsewhere
<1>7. /\ RingIds \subseteq 1..emitted /\ Elsewhere \subseteq 1..emitted
      /\ \A d \in Cpus : Ids(rings[d]) \cap Elsewhere = {}
  BY DEF Placed
<1>8. \A d \in Cpus : Ids(rings'[d]) \subseteq RingIds'
  BY DEF RingIds
<1>9. Placed'
  <2>1. RingIds' \subseteq 1..emitted' /\ Elsewhere' \subseteq 1..emitted'
    BY <1>1, <1>4, <1>6, <1>7
  <2>2. \A d \in Cpus : Ids(rings'[d]) \cap Elsewhere' = {}
    <3> SUFFICES ASSUME NEW d \in Cpus PROVE Ids(rings'[d]) \cap Elsewhere' = {}
      OBVIOUS
    <3>1. Ids(rings'[d]) \cap Elsewhere = {} /\ e.id \notin Ids(rings'[d])
      BY <1>3, <1>4, <1>7, <1>8
    <3> QED BY <1>6, <3>1
  <2> QED BY <1>3, <2>1, <2>2 DEF Placed
<1>10. IsFiniteSet(Missing) /\ Cardinality(Missing) \in Nat
  BY <1>0, MissingFinite
<1>11. /\ IsFiniteSet(Pending(Owed)) /\ Cardinality(Missing) = dropped + Cardinality(Pending(Owed))
       /\ Cardinality(Pending(Owed)) \in Nat
  BY FS_CardinalityType DEF Balanced
<1>12. CASE Elsewhere' = Elsewhere \cup {e.id} /\ dropped' = dropped
  <2>1. RingIds' \cup Elsewhere' = RingIds \cup Elsewhere
    BY <1>4, <1>12
  <2>2. Missing' = Missing
    BY <1>1, <2>1 DEF Missing
  <2> QED BY <1>5, <1>9, <1>11, <1>12, <2>2 DEF Balanced
<1>13. CASE Elsewhere' = Elsewhere /\ dropped' = dropped + 1
  <2>1. e.id \in 1..emitted
    BY <1>4, <1>7
  <2>2. Missing' = Missing \cup {e.id} /\ e.id \notin Missing
    <3>1. Missing' = (1..emitted) \ (RingIds' \cup Elsewhere)
      BY <1>1, <1>13 DEF Missing
    <3>2. Missing = (1..emitted) \ (RingIds \cup Elsewhere)
      BY DEF Missing
    <3> QED BY ONLY <1>4, <2>1, <3>1, <3>2
  <2>3. Cardinality(Missing') = Cardinality(Missing) + 1
    BY <1>10, <2>2, FS_AddElement
  <2>4. Cardinality(Missing') = dropped' + Cardinality(Pending(Owed'))
    BY <1>0, <1>5, <1>11, <1>13, <2>3
  <2> QED BY <1>5, <1>9, <1>11, <2>4 DEF Balanced
<1> QED BY <1>6, <1>12, <1>13

\* A record that is consumed moves from the queue to the aggregator.
LEMMA LossConsume ==
  ASSUME DataTyped, Placed, Balanced, Consume
  PROVE  Placed' /\ Balanced'
<1> DEFINE e == Head(queue)
           seen == {ingested[i].e.id : i \in 1..Len(ingested)}
           after == {ingested'[i].e.id : i \in 1..Len(ingested')}
<1>0. queue \in Seq(Records) /\ ingested \in Seq(Fed)
  BY DEF DataTyped, FiltersTyped, SinkTyped
<1>1. queue # << >> /\ queue' = Tail(queue) /\ e \in Records /\ UNCHANGED <<kernel, dropped, discarded>>
  BY ConsumeFacts
<1>2. PICK v : LET x == [e |-> e, at |-> clock, evicted |-> v]
               IN ingested' = Append(ingested, x) /\ x \in Fed
  BY ConsumeFacts
<1>3. ~IsNotice(e)
  BY <1>1, RecordFields
<1>4. Ids(queue) = Ids(queue') \cup {e.id}
  <2>1. queue \in Seq(Items)
    BY <1>0 DEF Items
  <2> QED BY <1>1, <1>3, <2>1, IdsTail
<1> HIDE DEF e
<1>5. after = seen \cup {e.id}
  <2> DEFINE x == [e |-> e, at |-> clock, evicted |-> v]
  <2>1. x \in Fed /\ ingested' = Append(ingested, x) /\ x.e = e
    BY <1>2
  <2> HIDE DEF x
  <2>2. /\ Len(ingested') = Len(ingested) + 1 /\ Len(ingested) \in Nat
        /\ \A i \in 1..Len(ingested) : ingested'[i] = ingested[i]
        /\ ingested'[Len(ingested) + 1] = x
    BY <1>0, <2>1, AppendProperties, LenProperties
  <2>3. \A i \in 1..Len(ingested') : i \in 1..Len(ingested) \/ i = Len(ingested) + 1
    BY <2>2
  <2>4. \A i \in 1..Len(ingested) : i \in 1..Len(ingested')
    BY <2>2
  <2>5. Len(ingested) + 1 \in 1..Len(ingested')
    BY <2>2
  <2> QED BY ONLY <2>1, <2>2, <2>3, <2>4, <2>5
<1>6. Elsewhere = Ids(queue) \cup seen \cup discarded /\ Elsewhere' = Ids(queue') \cup after \cup discarded
  BY <1>1 DEF Elsewhere
<1> HIDE DEF seen, after
<1>7. Elsewhere' = Elsewhere
  BY <1>4, <1>5, <1>6
<1>8. UNCHANGED <<emitted, rings, overrun, dropped>>
  BY <1>1 DEF kernel
<1>9. RingIds' = RingIds /\ Owed' = Owed
  BY <1>8 DEF RingIds, Owed
<1>10. Missing' = Missing
  BY <1>7, <1>8, <1>9 DEF Missing
<1>11. Placed'
  BY <1>7, <1>8, <1>9 DEF Placed
<1> QED BY <1>8, <1>9, <1>10, <1>11 DEF Balanced

\* Nothing is missing at first.
LEMMA LossInit == Init => Placed /\ Balanced
<1> SUFFICES ASSUME Init PROVE Placed /\ Balanced
  OBVIOUS
<1>1. /\ << >> \in Seq(Items) /\ Len(<< >>) = 0
      /\ \A c \in Cpus : rings[c] = << >> /\ overrun[c] = 0
      /\ queue = << >> /\ ingested = << >> /\ discarded = {} /\ emitted = 0 /\ dropped = 0
  BY EmptySeq DEF Init
<1>2. Ids(<< >>) = {} /\ Distinct(<< >>)
  BY <1>1 DEF Ids, Distinct
<1>3. RingIds = {} /\ Elsewhere = {}
  BY <1>1, <1>2 DEF RingIds, Elsewhere
<1>4. Missing = {}
  BY <1>1 DEF Missing
<1>5. Announced(<< >>) = 0
  <2>1. PICK f : Totals(<< >>, f, Len(<< >>)) /\ Announced(<< >>) = f[Len(<< >>)]
    BY <1>1, AnnouncedTotals
  <2>2. f[0] = 0
    BY <1>1, <2>1, TotalsTyped
  <2> QED BY <1>1, <2>1, <2>2
<1>6. \A c \in Cpus : Owed[c] = 0
  BY <1>1, <1>5 DEF Owed
<1>7. Pending(Owed) = {}
  <2>1. \A c \in Cpus : {c} \X (1..Owed[c]) = {}
    BY <1>6
  <2> QED BY <2>1 DEF Pending
<1>8. IsFiniteSet({}) /\ Cardinality({}) = 0
  BY FS_EmptySet
<1>9. Placed
  BY <1>1, <1>2, <1>3 DEF Placed
<1> QED BY <1>1, <1>4, <1>7, <1>8, <1>9 DEF Balanced

\* Every step keeps the account.
LEMMA LossStep ==
  ASSUME DataTyped, DataTyped', Placed, Balanced, [Next]_vars
  PROVE  Placed' /\ Balanced'
<1>1. CASE Quiet \/ Tick
  <2>1. UNCHANGED <<emitted, rings, overrun, queue, dropped, discarded, ingested>>
    BY <1>1 DEF Quiet, Tick, kernel, filters, sink
  <2>2. UNCHANGED <<RingIds, Elsewhere, Missing, Owed>>
    BY <2>1 DEF RingIds, Elsewhere, Missing, Owed
  <2> QED BY <2>1, <2>2 DEF Placed, Balanced
<1> QED BY <1>1, DataSteps, LossEmit, LossReceive, LossReport, LossConsume

\* No telemetry record disappears without being counted (collector.py, _on_lost_events
\* and the queue.Full branch), for every number of CPUs, activity and configuration:
\* whatever is emitted, read, reported or consumed in whatever order, the records that
\* are nowhere are as many as dropped_events says together with the losses the kernel
\* has yet to announce (LossAccounted).
THEOREM LossesCorrect == Spec => []LossAccounted
<1>1. DataTyped /\ Placed /\ Balanced /\ [Next]_vars => (DataTyped /\ Placed /\ Balanced)'
  <2>1. DataTyped /\ [Next]_vars => DataTyped'
    BY KernelStep, FiltersStep, SinkStep DEF DataTyped
  <2> QED BY <2>1, LossStep
<1>2. Placed /\ Balanced => LossAccounted
  <2> SUFFICES ASSUME Balanced PROVE LossAccounted
    OBVIOUS
  <2> DEFINE inFlight == (UNION {Ids(rings[c]) : c \in Cpus}) \cup Ids(queue)
             seen == {ingested[i].e.id : i \in 1..Len(ingested)}
             missing == (1..emitted) \ (inFlight \cup seen \cup discarded)
             pending == UNION {{c} \X (1..(Announced(rings[c]) + overrun[c])) : c \in Cpus}
  <2>1. missing = Missing
    <3>1. inFlight = RingIds \cup Ids(queue)
      BY Zenon DEF RingIds
    <3>2. Elsewhere = Ids(queue) \cup seen \cup discarded
      BY Zenon DEF Elsewhere
    <3> HIDE DEF inFlight, seen
    <3> QED BY <3>1, <3>2 DEF Missing
  <2>2. pending = Pending(Owed)
    <3>1. \A c \in Cpus : Owed[c] = Announced(rings[c]) + overrun[c]
      BY DEF Owed
    <3> QED BY <3>1 DEF Pending
  <2>3. Cardinality(missing) = dropped + Cardinality(pending)
    BY <2>1, <2>2 DEF Balanced
  <2> QED BY <2>3 DEF LossAccounted
<1> QED BY <1>1, <1>2, DataInit, LossInit, PTL DEF Spec
-----------------------------------------------------------------------------
(***************************************************************************)
(* Telemetry: the summaries agree with the history.                        *)
(***************************************************************************)
\* Covered, for a history h: event j does not end what event i of process t began.
Alive(h, t, i, j) ==
  /\ ~(h[j].e.tgid = t /\ h[j].e.kind = "PROCESS_EXIT")
  /\ h[j].evicted # t
  /\ j > i => \E k \in i..(j - 1) : h[k].e.tgid = t /\ h[j].at - h[k].at <= Ttl

CoveredIn(h, t) ==
  {i \in 1..Len(h) : h[i].e.tgid = t /\ \A j \in i..Len(h) : Alive(h, t, i, j)}

\* What a summary says of the events S.
KeysOf(h, S) == {FileKey(h[i].e) : i \in S} \ {Null}
Conns(h, S)  == {i \in S : h[i].e.kind = "NETWORK_CONNECT"}

Accounts(old, h, S) ==
  /\ old.count = Cardinality(S)
  /\ old.conns = Cardinality(Conns(h, S))
  /\ old.files \subseteq KeysOf(h, S)
  /\ Cardinality(old.files) = IF Cardinality(KeysOf(h, S)) < MaxFiles
                              THEN Cardinality(KeysOf(h, S)) ELSE MaxFiles

\* Process t was active at time m, at event i or later.
ActiveAt(h, t, i, m) == \E k \in i..Len(h) : h[k].e.tgid = t /\ h[k].at = m

\* The summary of t is right, and it was seen last when its last event arrived.
Tracks(t) ==
  /\ t \in DOMAIN states <=> CoveredIn(ingested, t) # {}
  /\ t \in DOMAIN states =>
       /\ Accounts(states[t], ingested, CoveredIn(ingested, t))
       /\ \A k \in 1..Len(ingested) : ingested[k].e.tgid = t => ingested[k].at <= states[t].seen
       /\ \A i \in CoveredIn(ingested, t) : ActiveAt(ingested, t, i, states[t].seen)

\* A later event does not change what happened between two earlier ones.
LEMMA AliveSame ==
  ASSUME NEW h, NEW g, NEW n \in Nat, \A k \in 1..n : g[k] = h[k],
         NEW t, NEW i \in 1..n, NEW j \in i..n
  PROVE  Alive(g, t, i, j) <=> Alive(h, t, i, j)
<1>1. j \in 1..n /\ \A k \in i..(j - 1) : k \in 1..n
  OBVIOUS
<1>2. g[j] = h[j] /\ \A k \in i..(j - 1) : g[k] = h[k]
  BY <1>1
<1>3. (\E k \in i..(j - 1) : g[k].e.tgid = t /\ g[j].at - g[k].at <= Ttl) <=>
      (\E k \in i..(j - 1) : h[k].e.tgid = t /\ h[j].at - h[k].at <= Ttl)
  BY <1>2
<1> QED BY <1>2, <1>3 DEF Alive

\* The events that are covered after one more event: earlier ones unless it ends them,
\* and the event itself.
LEMMA CoveredEarlier ==
  ASSUME NEW h, NEW g, NEW n \in Nat, Len(h) = n, Len(g) = n + 1,
         \A k \in 1..n : g[k] = h[k], NEW t, NEW i \in 1..n
  PROVE  i \in CoveredIn(g, t) <=> i \in CoveredIn(h, t) /\ Alive(g, t, i, n + 1)
<1>1. i \in CoveredIn(g, t) <=> g[i].e.tgid = t /\ \A j \in i..(n + 1) : Alive(g, t, i, j)
  <2>1. i \in 1..(n + 1)
    OBVIOUS
  <2> QED BY <2>1 DEF CoveredIn
<1>2. i \in CoveredIn(h, t) <=> h[i].e.tgid = t /\ \A j \in i..n : Alive(h, t, i, j)
  BY DEF CoveredIn
<1>3. \A j \in i..n : Alive(g, t, i, j) <=> Alive(h, t, i, j)
  BY AliveSame
<1>4. \A j : j \in i..(n + 1) <=> j \in i..n \/ j = n + 1
  OBVIOUS
<1>5. g[i] = h[i]
  OBVIOUS
<1> QED BY ONLY <1>1, <1>2, <1>3, <1>4, <1>5

\* The event itself is covered unless it is an exit or evicts its own process.
LEMMA CoveredNew ==
  ASSUME NEW g, NEW n \in Nat, Len(g) = n + 1, NEW t
  PROVE  /\ n + 1 \in CoveredIn(g, t) <=>
              g[n + 1].e.tgid = t /\ g[n + 1].e.kind # "PROCESS_EXIT" /\ g[n + 1].evicted # t
         /\ CoveredIn(g, t) \subseteq 1..(n + 1)
<1>1. n + 1 \in 1..Len(g) /\ \A j \in (n + 1)..Len(g) : j = n + 1
  OBVIOUS
<1>2. n + 1 \in (n + 1)..Len(g)
  OBVIOUS
<1>3. n + 1 \in CoveredIn(g, t) <=> g[n + 1].e.tgid = t /\ Alive(g, t, n + 1, n + 1)
  BY <1>1, <1>2 DEF CoveredIn
<1>4. ~(n + 1 > n + 1)
  OBVIOUS
<1>5. Alive(g, t, n + 1, n + 1) <=>
        ~(g[n + 1].e.tgid = t /\ g[n + 1].e.kind = "PROCESS_EXIT") /\ g[n + 1].evicted # t
  BY <1>4 DEF Alive
<1>6. CoveredIn(g, t) \subseteq 1..(n + 1)
  BY DEF CoveredIn
<1> QED BY <1>3, <1>5, <1>6

\* The keys of finitely many events are finitely many.
LEMMA KeysFinite ==
  ASSUME NEW h, NEW S, IsFiniteSet(S)
  PROVE  IsFiniteSet(KeysOf(h, S)) /\ Cardinality(KeysOf(h, S)) \in Nat
<1> DEFINE f == [i \in S |-> FileKey(h[i].e)]
           T == {f[i] : i \in S}
<1>1. f \in Surjection(S, T)
  BY DEF Surjection
<1> HIDE DEF T
<1>2. IsFiniteSet(T)
  BY <1>1, FS_Surjection
<1>3. KeysOf(h, S) \subseteq T
  BY DEF KeysOf, T
<1>4. IsFiniteSet(KeysOf(h, S))
  BY <1>2, <1>3, FS_Subset
<1> QED BY <1>4, FS_CardinalityType

\* A summary that the event does not concern.
LEMMA AccountsSame ==
  ASSUME NEW h, NEW g, NEW S, \A i \in S : g[i] = h[i], NEW old, Accounts(old, h, S)
  PROVE  Accounts(old, g, S)
<1>1. KeysOf(g, S) = KeysOf(h, S)
  <2>1. \A i \in S : FileKey(g[i].e) = FileKey(h[i].e)
    OBVIOUS
  <2> QED BY <2>1 DEF KeysOf
<1>2. Conns(g, S) = Conns(h, S)
  BY DEF Conns
<1> QED BY <1>1, <1>2 DEF Accounts

\* A summary that covers one event more (ingest).
LEMMA AccountsAdd ==
  ASSUME NEW h, NEW S, NEW n, n \notin S, IsFiniteSet(S), NEW old, Accounts(old, h, S)
  PROVE  Accounts(Summary(old, h[n].e), h, S \cup {n})
<1> DEFINE e == h[n].e
           k == FileKey(e)
           K == KeysOf(h, S)
           L == KeysOf(h, S \cup {n})
           F == old.files
           new == Summary(old, e)
<1>1. /\ old.count = Cardinality(S) /\ old.conns = Cardinality(Conns(h, S)) /\ F \subseteq K
      /\ Cardinality(F) = IF Cardinality(K) < MaxFiles THEN Cardinality(K) ELSE MaxFiles
  BY DEF Accounts
<1>2. /\ new.count = old.count + 1
      /\ new.files = IF k # Null /\ Cardinality(F) < MaxFiles THEN F \cup {k} ELSE F
      /\ new.conns = old.conns + (IF e.kind = "NETWORK_CONNECT" THEN 1 ELSE 0)
  BY DEF Summary
<1> HIDE DEF new
<1>3. new.count = Cardinality(S \cup {n})
  <2>1. Cardinality(S \cup {n}) = Cardinality(S) + 1
    BY FS_AddElement
  <2> QED BY ONLY <1>1, <1>2, <2>1
<1>4. new.conns = Cardinality(Conns(h, S \cup {n}))
  <2>1. Conns(h, S) \subseteq S
    BY DEF Conns
  <2>2. IsFiniteSet(Conns(h, S)) /\ n \notin Conns(h, S)
    BY <2>1, FS_Subset
  <2>3. Cardinality(Conns(h, S)) \in Nat
    BY <2>2, FS_CardinalityType
  <2>4. CASE e.kind = "NETWORK_CONNECT"
    <3>1. Conns(h, S \cup {n}) = Conns(h, S) \cup {n}
      BY <2>4 DEF Conns
    <3>2. Cardinality(Conns(h, S) \cup {n}) = Cardinality(Conns(h, S)) + 1
      BY <2>2, FS_AddElement
    <3> QED BY ONLY <1>1, <1>2, <2>4, <3>1, <3>2
  <2>5. CASE e.kind # "NETWORK_CONNECT"
    <3>1. Conns(h, S \cup {n}) = Conns(h, S)
      BY <2>5 DEF Conns
    <3> QED BY <1>1, <1>2, <2>3, <2>5, <3>1
  <2> QED BY <2>4, <2>5
<1>5. L = IF k = Null THEN K ELSE K \cup {k}
  BY DEF KeysOf
<1>6. IsFiniteSet(K) /\ Cardinality(K) \in Nat /\ IsFiniteSet(L) /\ Cardinality(L) \in Nat
  <2>1. IsFiniteSet(S \cup {n})
    BY FS_AddElement
  <2> QED BY <2>1, KeysFinite
<1>7. MaxFiles \in Nat
  BY Limits
<1> HIDE DEF k, K, L, F
<1>8. /\ new.files \subseteq L
      /\ Cardinality(new.files) = IF Cardinality(L) < MaxFiles THEN Cardinality(L) ELSE MaxFiles
  <2>1. CASE k = Null
    BY <1>1, <1>2, <1>5, <2>1
  <2>2. CASE k # Null /\ Cardinality(F) < MaxFiles
    <3>1. Cardinality(K) = Cardinality(F)
      BY <1>1, <1>6, <1>7, <2>2
    <3>2. K = F
      BY <1>1, <1>6, <3>1, FS_Subset
    <3>3. new.files = L
      BY <1>2, <1>5, <2>2, <3>2
    <3>4. Cardinality(L) = Cardinality(K) \/ Cardinality(L) = Cardinality(K) + 1
      BY <1>5, <1>6, <2>2, FS_AddElement
    <3>5. Cardinality(L) <= MaxFiles
      BY <1>6, <1>7, <2>2, <3>1, <3>4
    <3> QED BY <1>6, <1>7, <3>3, <3>5
  <2>3. CASE k # Null /\ ~(Cardinality(F) < MaxFiles)
    <3>1. Cardinality(F) = MaxFiles /\ Cardinality(K) >= MaxFiles
      BY <1>1, <1>6, <1>7, <2>3
    <3>2. K \subseteq L /\ new.files = F
      BY <1>2, <1>5, <2>3
    <3>3. Cardinality(K) <= Cardinality(L)
      BY <1>6, <3>2, FS_Subset
    <3>4. Cardinality(L) >= MaxFiles
      BY ONLY <1>6, <1>7, <3>1, <3>3
    <3> QED BY <1>1, <1>6, <1>7, <3>1, <3>2, <3>4
  <2> QED BY <2>1, <2>2, <2>3
<1> QED BY <1>3, <1>4, <1>8 DEF Accounts, new, L

\* Expiry compares with the time the process was seen last, Covered with its last event
\* before each other one: the same events survive.
LEMMA CoveredConsume ==
  ASSUME DataTyped, NEW t \in Tgids, Tracks(t), NEW e \in Records,
         NEW v \in Victims(Fresh(states), e.tgid),
         NEW g, NEW n \in Nat, Len(ingested) = n, Len(g) = n + 1, \A k \in 1..n : g[k] = ingested[k],
         g[n + 1].e = e, g[n + 1].at = clock, g[n + 1].evicted = v, NEW i \in 1..n
  PROVE  i \in CoveredIn(g, t) <=>
           /\ i \in CoveredIn(ingested, t) /\ t \in DOMAIN Room(v)
           /\ ~(e.tgid = t /\ e.kind = "PROCESS_EXIT")
<1>0. /\ ingested \in Seq(Fed) /\ clock \in Nat /\ Ttl \in Nat
      /\ \A u \in DOMAIN states : states[u].seen \in Nat
  BY Limits DEF DataTyped, SinkTyped, KernelTyped
<1>1. n \in Nat /\ Len(ingested) = n /\ Len(g) = n + 1 /\ \A k \in 1..n : g[k] = ingested[k]
  OBVIOUS
<1>2. i \in CoveredIn(g, t) <=> i \in CoveredIn(ingested, t) /\ Alive(g, t, i, n + 1)
  BY <1>1, CoveredEarlier
<1>3. \A k \in i..n : ingested[k].at \in Nat /\ k \in 1..n /\ g[k] = ingested[k]
  <2> SUFFICES ASSUME NEW k \in i..n PROVE ingested[k].at \in Nat /\ k \in 1..n /\ g[k] = ingested[k]
    OBVIOUS
  <2>1. k \in 1..n
    BY <1>1
  <2>2. ingested[k] \in Fed
    BY <1>0, <2>1, ElementOfSeq
  <2> QED BY <1>1, <2>1, <2>2 DEF Fed
<1>4. Alive(g, t, i, n + 1) <=>
        /\ ~(e.tgid = t /\ e.kind = "PROCESS_EXIT") /\ v # t
        /\ \E k \in i..n : ingested[k].e.tgid = t /\ clock - ingested[k].at <= Ttl
  <2>1. n + 1 > i /\ (n + 1) - 1 = n
    BY <1>1
  <2>2. g[n + 1].e = e /\ g[n + 1].at = clock /\ g[n + 1].evicted = v
    OBVIOUS
  <2>3. (\E k \in i..((n + 1) - 1) : g[k].e.tgid = t /\ g[n + 1].at - g[k].at <= Ttl)
          <=> \E k \in i..n : ingested[k].e.tgid = t /\ clock - ingested[k].at <= Ttl
    BY <1>1, <1>3, <2>1, <2>2
  <2> QED BY <1>1, <2>1, <2>2, <2>3 DEF Alive
<1>5. t \in DOMAIN Room(v) <=> t \in DOMAIN states /\ clock - states[t].seen <= Ttl /\ t # v
  BY RoomFacts
<1>6. CASE i \in CoveredIn(ingested, t)
  <2>1. t \in DOMAIN states
    BY <1>6 DEF Tracks
  <2>2. states[t].seen \in Nat
    BY <1>0, <2>1
  <2>3. \A k \in 1..n : ingested[k].e.tgid = t => ingested[k].at <= states[t].seen
    BY <2>1 DEF Tracks
  <2>4. PICK m \in i..n : ingested[m].e.tgid = t /\ ingested[m].at = states[t].seen
    BY <1>6, <2>1 DEF Tracks, ActiveAt
  <2>5. (\E k \in i..n : ingested[k].e.tgid = t /\ clock - ingested[k].at <= Ttl)
          <=> clock - states[t].seen <= Ttl
    <3>1. ASSUME NEW k \in i..n, ingested[k].e.tgid = t, clock - ingested[k].at <= Ttl
          PROVE  clock - states[t].seen <= Ttl
      <4>1. ingested[k].at \in Nat /\ ingested[k].at <= states[t].seen
        BY <1>3, <2>3, <3>1
      <4> QED BY <1>0, <2>2, <3>1, <4>1
    <3>2. ASSUME clock - states[t].seen <= Ttl
          PROVE  \E k \in i..n : ingested[k].e.tgid = t /\ clock - ingested[k].at <= Ttl
      BY <2>4, <3>2
    <3> QED BY <3>1, <3>2
  <2> QED BY <1>2, <1>4, <1>5, <1>6, <2>1, <2>5
<1> QED BY <1>2, <1>6

\* The summaries after an event.
LEMMA TracksConsume ==
  ASSUME DataTyped, NEW t \in Tgids, Tracks(t), Consume
  PROVE  Tracks(t)'
<1> DEFINE e == Head(queue)
           h == ingested
           g == ingested'
           n == Len(ingested)
           N == n + 1
           S == CoveredIn(h, t)
           T == CoveredIn(g, t)
<1>1. e \in Records
  BY ConsumeFacts
<1>2. PICK v \in Victims(Fresh(states), e.tgid) :
              /\ states' = Ingest(e, v)
              /\ ingested' = Append(ingested, [e |-> e, at |-> clock, evicted |-> v])
              /\ [e |-> e, at |-> clock, evicted |-> v] \in Fed
  BY ConsumeFacts
<1> HIDE DEF e
<1>3. PICK x \in Fed : x = [e |-> e, at |-> clock, evicted |-> v] /\ g = Append(h, x)
  BY <1>2
<1>4. x.e = e /\ x.at = clock /\ x.evicted = v
  BY <1>3
<1>5. /\ h \in Seq(Fed) /\ clock \in Nat /\ \A k \in 1..n : h[k].at <= clock
  BY Limits DEF DataTyped, SinkTyped, KernelTyped
<1>6. /\ n \in Nat /\ Len(g) = N /\ g[N] = x /\ \A k \in 1..n : g[k] = h[k]
      /\ N \in T <=> x.e.tgid = t /\ x.e.kind # "PROCESS_EXIT" /\ x.evicted # t
      /\ T \subseteq 1..N /\ S \subseteq 1..n
  <2>1. n \in Nat /\ Len(g) = n + 1 /\ g[n + 1] = x /\ \A k \in 1..n : g[k] = h[k]
    BY <1>3, <1>5, AppendProperties, LenProperties
  <2>2. S \subseteq 1..n
    BY DEF CoveredIn
  <2> HIDE DEF h, g, n, S
  <2>3. /\ n + 1 \in CoveredIn(g, t) <=>
              g[n + 1].e.tgid = t /\ g[n + 1].e.kind # "PROCESS_EXIT" /\ g[n + 1].evicted # t
        /\ CoveredIn(g, t) \subseteq 1..(n + 1)
    BY <2>1, CoveredNew
  <2> QED BY <2>1, <2>2, <2>3
<1>7. v # e.tgid
  BY <1>1, VictimFacts
<1>8. N \in T <=> e.tgid = t /\ e.kind # "PROCESS_EXIT"
  BY <1>4, <1>6, <1>7
<1> DEFINE Stays == t \in DOMAIN Room(v) /\ ~(e.tgid = t /\ e.kind = "PROCESS_EXIT")
<1>9. \A i \in 1..n : i \in T <=> i \in S /\ Stays
  <2>1. /\ n \in Nat /\ Len(ingested) = n /\ Len(g) = n + 1 /\ \A k \in 1..n : g[k] = ingested[k]
        /\ g[n + 1].e = e /\ g[n + 1].at = clock /\ g[n + 1].evicted = v
    BY <1>4, <1>6
  <2> HIDE DEF g, n
  <2>2. \A i \in 1..n : i \in CoveredIn(g, t) <=> i \in CoveredIn(ingested, t) /\ Stays
    BY <1>1, <2>1, CoveredConsume
  <2> QED BY <2>2
<1>10. \A i \in 1..N : i \in 1..n \/ i = N
  BY <1>6
<1>11. N \notin 1..n
  BY <1>6
<1>12. IsFiniteSet(S)
  <2>1. IsFiniteSet(1..n)
    BY <1>6, FS_Interval
  <2> QED BY <1>6, <2>1, FS_Subset
<1>13. /\ t \in DOMAIN states <=> S # {}
       /\ t \in DOMAIN states =>
            /\ Accounts(states[t], h, S)
            /\ \A k \in 1..n : h[k].e.tgid = t => h[k].at <= states[t].seen
            /\ \A i \in S : ActiveAt(h, t, i, states[t].seen)
  BY DEF Tracks
<1>14. /\ DOMAIN Room(v) \subseteq DOMAIN states
       /\ \A u \in DOMAIN Room(v) : Room(v)[u] = states[u]
  BY RoomFacts
<1> HIDE DEF S, T, h, g, n, N
<1>15. SUFFICES
         /\ t \in DOMAIN states' <=> T # {}
         /\ t \in DOMAIN states' =>
              /\ Accounts(states'[t], g, T)
              /\ \A k \in 1..N : g[k].e.tgid = t => g[k].at <= states'[t].seen
              /\ \A i \in T : ActiveAt(g, t, i, states'[t].seen)
  BY <1>6 DEF Tracks, T, g
<1>16. CASE t # e.tgid /\ t \in DOMAIN Room(v)
  <2>1. T = S
    BY <1>6, <1>8, <1>9, <1>10, <1>16
  <2>2. t \in DOMAIN states' /\ states'[t] = states[t]
    <3>1. CASE e.kind = "PROCESS_EXIT"
      <4>1. /\ DOMAIN Ingest(e, v) = DOMAIN Room(v) \ {e.tgid}
            /\ \A u \in DOMAIN Ingest(e, v) : Ingest(e, v)[u] = states[u]
        BY <3>1, IngestFacts
      <4> QED BY <1>2, <1>16, <4>1
    <3>2. CASE e.kind # "PROCESS_EXIT"
      <4>1. /\ DOMAIN Ingest(e, v) = DOMAIN Room(v) \cup {e.tgid}
            /\ \A u \in DOMAIN Room(v) : u # e.tgid => Ingest(e, v)[u] = states[u]
        BY <3>2, IngestFacts
      <4> QED BY <1>2, <1>16, <4>1
    <3> QED BY <3>1, <3>2
  <2>3. t \in DOMAIN states
    BY <1>14, <1>16
  <2>4. \A i \in S : g[i] = h[i]
    BY <1>6
  <2>5. Accounts(states[t], g, S)
    BY <1>13, <2>3, <2>4, AccountsSame
  <2>6. \A k \in 1..N : g[k].e.tgid = t => g[k].at <= states[t].seen
    BY <1>4, <1>6, <1>10, <1>13, <1>16, <2>3
  <2>7. ASSUME NEW i \in S PROVE ActiveAt(g, t, i, states[t].seen)
    <3>1. PICK k \in i..n : h[k].e.tgid = t /\ h[k].at = states[t].seen
      BY <1>13, <2>3 DEF ActiveAt, h, n
    <3>2. i \in 1..n
      BY <1>6
    <3>3. k \in 1..n /\ k \in i..Len(g)
      BY <1>6, <3>2 DEF N
    <3> QED BY <1>6, <3>1, <3>3 DEF ActiveAt
  <2> QED BY <1>13, <2>1, <2>2, <2>3, <2>5, <2>6, <2>7
<1>17. CASE t # e.tgid /\ t \notin DOMAIN Room(v)
  <2>1. T = {}
    BY <1>6, <1>8, <1>9, <1>10, <1>17
  <2>2. t \notin DOMAIN states'
    <3>1. DOMAIN Ingest(e, v) \subseteq DOMAIN Room(v) \cup {e.tgid}
      <4>1. e.kind = "PROCESS_EXIT" => DOMAIN Ingest(e, v) = DOMAIN Room(v) \ {e.tgid}
        BY IngestFacts
      <4>2. e.kind # "PROCESS_EXIT" => DOMAIN Ingest(e, v) = DOMAIN Room(v) \cup {e.tgid}
        BY IngestFacts
      <4> QED BY <4>1, <4>2
    <3> QED BY <1>2, <1>17, <3>1
  <2> QED BY <2>1, <2>2
<1>18. CASE t = e.tgid /\ e.kind = "PROCESS_EXIT"
  <2>1. T = {}
    BY <1>6, <1>8, <1>9, <1>10, <1>18
  <2>2. t \notin DOMAIN states'
    <3>1. DOMAIN Ingest(e, v) = DOMAIN Room(v) \ {e.tgid}
      BY <1>18, IngestFacts
    <3> QED BY <1>2, <1>18, <3>1
  <2> QED BY <2>1, <2>2
<1>19. CASE t = e.tgid /\ e.kind # "PROCESS_EXIT"
  <2> DEFINE B == IF t \in DOMAIN Room(v) THEN S ELSE {}
             old == Old(e, v)
  <2>1. T = B \cup {N}
    <3>1. N \in T
      BY <1>8, <1>19
    <3>2. \A i \in 1..n : i \in T <=> i \in B
      BY <1>9, <1>19
    <3>3. B \subseteq 1..n
      BY <1>6
    <3> HIDE DEF B
    <3> QED BY <1>6, <1>10, <3>1, <3>2, <3>3
  <2>2. t \in DOMAIN states' /\ states'[t] = Summary(old, e)
    BY <1>2, <1>19, IngestFacts
  <2>3. B \subseteq 1..n /\ IsFiniteSet(B) /\ N \notin B
    <3>1. B \subseteq S
      OBVIOUS
    <3>2. IsFiniteSet(B)
      BY <1>12, <3>1, FS_Subset
    <3> QED BY <1>6, <1>11, <3>1, <3>2
  <2>4. Accounts(old, h, B)
    <3>1. CASE t \in DOMAIN Room(v)
      <4>1. old = states[t] /\ t \in DOMAIN states
        BY <1>14, <1>19, <3>1 DEF Old
      <4> QED BY <1>13, <3>1, <4>1
    <3>2. CASE t \notin DOMAIN Room(v)
      <4>1. old.count = 0 /\ old.files = {} /\ old.conns = 0
        BY <1>19, <3>2 DEF Old
      <4>2. B = {} /\ KeysOf(h, {}) = {} /\ Conns(h, {}) = {}
        BY <3>2 DEF KeysOf, Conns
      <4>3. Cardinality({}) = 0
        BY FS_EmptySet
      <4>4. 0 < MaxFiles
        BY Limits
      <4> HIDE DEF old, B
      <4> QED BY <4>1, <4>2, <4>3, <4>4 DEF Accounts
    <3> QED BY <3>1, <3>2
  <2> HIDE DEF B, old
  <2>5. \A i \in B : g[i] = h[i]
    BY <1>6, <2>3
  <2>6. Accounts(old, g, B)
    BY <2>4, <2>5, AccountsSame
  <2>7. Accounts(Summary(old, g[N].e), g, B \cup {N})
    BY <2>3, <2>6, AccountsAdd
  <2>8. Accounts(states'[t], g, T)
    BY <1>4, <1>6, <2>1, <2>2, <2>7
  <2>9. states'[t].seen = clock
    BY <2>2 DEF Summary
  <2>10. \A k \in 1..N : g[k].at <= clock
    <3>1. g[N].at = clock /\ clock <= clock
      BY <1>4, <1>5, <1>6
    <3>2. \A k \in 1..n : g[k].at <= clock
      <4>1. \A k \in 1..n : h[k].at <= clock
        BY <1>5 DEF h, n
      <4> QED BY <1>6, <4>1
    <3> QED BY <1>10, <3>1, <3>2
  <2>11. ASSUME NEW i \in T PROVE ActiveAt(g, t, i, clock)
    <3>1. i \in 1..N
      BY <1>6
    <3>2. N \in i..Len(g)
      BY <1>6, <3>1 DEF N
    <3> QED BY <1>4, <1>6, <1>19, <3>2 DEF ActiveAt
  <2> QED BY <2>1, <2>2, <2>8, <2>9, <2>10, <2>11
<1> QED BY <1>16, <1>17, <1>18, <1>19

\* The other steps change neither the summaries nor what they cover.
LEMMA TracksStep ==
  ASSUME DataTyped, NEW t \in Tgids, Tracks(t), [Next]_vars
  PROVE  Tracks(t)'
<1>1. CASE Consume
  BY <1>1, TracksConsume
<1>2. CASE ~Consume
  <2>1. UNCHANGED <<states, ingested>>
    BY <1>2, DataSteps DEF Quiet, Tick, Emit, Receive, ReportLoss, sink
  <2> QED BY <2>1 DEF Tracks
<1> QED BY <1>1, <1>2

\* The aggregator's incremental summaries (ingest, expire and the eviction of the least
\* recently seen process) agree with their definition over the whole history, for every
\* limit and every stream of events: a process has a summary exactly when some of its
\* events are still covered, and it counts just those (SummariesMatchHistory).
THEOREM SummariesCorrect == Spec => []SummariesMatchHistory
<1> DEFINE Right == \A t \in Tgids : Tracks(t)
<1>1. Init => Right
  <2> SUFFICES ASSUME Init, NEW t \in Tgids PROVE Tracks(t)
    OBVIOUS
  <2>1. DOMAIN states = {} /\ ingested = << >> /\ Len(<< >>) = 0
    BY EmptySeq DEF Init
  <2>2. CoveredIn(ingested, t) = {}
    BY <2>1 DEF CoveredIn
  <2> QED BY <2>1, <2>2 DEF Tracks
<1>2. DataTyped /\ Right /\ [Next]_vars => (DataTyped /\ Right)'
  <2>1. DataTyped /\ [Next]_vars => DataTyped'
    BY KernelStep, FiltersStep, SinkStep DEF DataTyped
  <2>2. ASSUME DataTyped, Right, [Next]_vars, NEW t \in Tgids PROVE Tracks(t)'
    BY <2>2, TracksStep
  <2> QED BY <2>1, <2>2
<1>3. Right => SummariesMatchHistory
  <2> SUFFICES ASSUME Right, NEW t \in Tgids
               PROVE  LET cov == Covered(t)
                          keys == {FileKey(ingested[i].e) : i \in cov} \ {Null}
                      IN /\ (t \in DOMAIN states) <=> (cov # {})
                         /\ t \in DOMAIN states =>
                              /\ states[t].count = Cardinality(cov)
                              /\ states[t].conns = Cardinality({i \in cov :
                                                      ingested[i].e.kind = "NETWORK_CONNECT"})
                              /\ states[t].files \subseteq keys
                              /\ Cardinality(states[t].files) = IF Cardinality(keys) < MaxFiles
                                                                THEN Cardinality(keys) ELSE MaxFiles
    BY DEF SummariesMatchHistory, Tgids
  <2>1. Covered(t) = CoveredIn(ingested, t)
    BY DEF Covered, CoveredIn, Alive
  <2>2. Tracks(t)
    OBVIOUS
  <2> HIDE DEF Right
  <2> QED BY <2>1, <2>2 DEF Tracks, Accounts, KeysOf, Conns
<1> HIDE DEF Right
<1> QED BY <1>1, <1>2, <1>3, DataInit, PTL DEF Spec
=============================================================================
