------------------------- MODULE ScenarioReportProofs -------------------------
(***************************************************************************)
(* For every data set the generator can draw: the ground truth counts each *)
(* prevented completion once, two queries of one file agree, and what the  *)
(* rules report of it charges no more than was lost, blames no gap, and    *)
(* finds the faults that were injected.  What ReportPipeline promises of   *)
(* any context carries over to the contexts built from data sets.          *)
(***************************************************************************)
EXTENDS ScenarioReport, ReportPipelineProofs

\* The counts of a period: whoever reached a stage reached those before it.
\* (False of a period with withheld stages, which the report calls missing.)
IsFunnel(n) ==
  /\ n \in [FunnelStages -> Nat]
  /\ \A s \in 2 .. 9 : n[s] <= n[s - 1]

-----------------------------------------------------------------------------
(* Rounding.                                                               *)

\* The quotient and the remainder.
LEMMA Division ==
  ASSUME NEW a \in Nat, NEW b \in Nat \ {0}
  PROVE  /\ a \div b \in Nat /\ a % b \in 0 .. b - 1
         /\ a = b * (a \div b) + (a % b)
OBVIOUS

\* Rounding never goes past a whole number of b.
LEMMA RoundBounded ==
  ASSUME NEW a \in Nat, NEW b \in Nat \ {0}, NEW k \in Nat, a <= k * b
  PROVE  Round(a, b) \in 0 .. k
<1> DEFINE q == a \div b
           r == a % b
<1>1. q \in Nat /\ r \in 0 .. b - 1 /\ a = b * q + r
  BY Division
<1>2. q <= k
  <2> SUFFICES ASSUME q >= k + 1 PROVE FALSE
    BY <1>1
  <2>1. b * q >= b * (k + 1)
    BY <1>1
  <2>2. b * (k + 1) = k * b + b
    OBVIOUS
  <2> QED BY <1>1, <2>1, <2>2
<1>3. CASE q = k
  <2>1. b * q = k * b
    BY <1>3
  <2>2. r = 0
    BY <1>1, <2>1
  <2> QED BY <1>1, <1>3, <2>2 DEF Round
<1>4. CASE q < k
  BY <1>1, <1>4 DEF Round
<1> QED BY <1>1, <1>2, <1>3, <1>4

-----------------------------------------------------------------------------
(* The loss of a transition and the sum over all of them.                  *)

\* A transition is charged at most the intents that failed it.
LEMMA TransitionLoss ==
  ASSUME NEW b, NEW i, IsFunnel(b), IsFunnel(i), NEW s \in 2 .. 9
  PROVE  EstimatedLost(b, i, s) \in 0 .. i[s - 1] - i[s]
<1>1. /\ b[s] \in Nat /\ b[s - 1] \in Nat /\ b[s] <= b[s - 1]
      /\ i[s] \in Nat /\ i[s - 1] \in Nat /\ i[s] <= i[s - 1]
  BY DEF IsFunnel, FunnelStages
<1>2. CASE ~(IsAnomalous(b, i, s) /\ Shortfall(b, i, s) > 0)
  BY <1>1, <1>2 DEF EstimatedLost
<1>3. CASE IsAnomalous(b, i, s) /\ Shortfall(b, i, s) > 0
  <2>1. b[s - 1] # 0
    BY <1>3 DEF IsAnomalous, HasStepRates
  <2>2. b[s] * i[s - 1] <= b[s - 1] * i[s - 1]
    BY <1>1
  <2>3. b[s - 1] * i[s - 1] - i[s] * b[s - 1] = (i[s - 1] - i[s]) * b[s - 1]
    BY <1>1
  <2>4. Shortfall(b, i, s) \in Nat /\ Shortfall(b, i, s) <= (i[s - 1] - i[s]) * b[s - 1]
    <3>1. b[s] * i[s - 1] \in Nat /\ i[s] * b[s - 1] \in Nat /\ b[s - 1] * i[s - 1] \in Nat
      BY <1>1
    <3> QED BY <1>3, <2>2, <2>3, <3>1 DEF Shortfall
  <2>5. Round(Shortfall(b, i, s), b[s - 1]) \in 0 .. i[s - 1] - i[s]
    <3>1. i[s - 1] - i[s] \in Nat /\ b[s - 1] \in Nat \ {0}
      BY <1>1, <2>1
    <3> QED BY <2>4, <3>1, RoundBounded
  <2> QED BY <1>3, <2>5 DEF EstimatedLost
<1> QED BY <1>2, <1>3

\* The losses of get_funnel are disjoint: for any counts of the two periods, all
\* transitions together are charged no more intents than did not complete.
THEOREM LossesAreDisjoint ==
  ASSUME NEW b, NEW i, IsFunnel(b), IsFunnel(i)
  PROVE  FunnelLoss(b, i) \in 0 .. i[Confirmed] - i[Completed]
<1>1. \A s \in 1 .. 9 : i[s] \in Nat
  BY DEF IsFunnel, FunnelStages
<1>2. EstimatedLost(b, i, 1) = 0
  BY DEF EstimatedLost, IsAnomalous, HasStepRates
<1>3. \A s \in 2 .. 9 : EstimatedLost(b, i, s) \in 0 .. i[s - 1] - i[s]
  BY TransitionLoss
<1>4. /\ EstimatedLost(b, i, 2) \in 0 .. i[1] - i[2]
      /\ EstimatedLost(b, i, 3) \in 0 .. i[2] - i[3]
      /\ EstimatedLost(b, i, 4) \in 0 .. i[3] - i[4]
      /\ EstimatedLost(b, i, 5) \in 0 .. i[4] - i[5]
  BY <1>3, 2 - 1 = 1, 3 - 1 = 2, 4 - 1 = 3, 5 - 1 = 4
<1>5. /\ EstimatedLost(b, i, 6) \in 0 .. i[5] - i[6]
      /\ EstimatedLost(b, i, 7) \in 0 .. i[6] - i[7]
      /\ EstimatedLost(b, i, 8) \in 0 .. i[7] - i[8]
      /\ EstimatedLost(b, i, 9) \in 0 .. i[8] - i[9]
  BY <1>3, 6 - 1 = 5, 7 - 1 = 6, 8 - 1 = 7, 9 - 1 = 8
<1> QED BY <1>1, <1>2, <1>4, <1>5 DEF FunnelLoss, Confirmed, Completed

\* The same for a value of a dimension: its row is charged no more than the
\* intents with that value that did not complete.
THEOREM RowLossBounded ==
  ASSUME NEW b \in [first : Nat, last : Nat], NEW i \in [first : Nat, last : Nat],
         b.last <= b.first, i.last <= i.first
  PROVE  RowLoss(b, i) \in 0 .. i.first - i.last
<1> DEFINE lost == b.last * i.first - i.last * b.first
<1>1. /\ b.first \in Nat /\ b.last \in Nat /\ i.first \in Nat /\ i.last \in Nat
      /\ i.first - i.last \in Nat
  OBVIOUS
<1>2. CASE b.first = 0 \/ i.first = 0 \/ b.last * i.first <= i.last * b.first
  BY <1>1, <1>2 DEF RowLoss
<1>3. CASE ~(b.first = 0 \/ i.first = 0 \/ b.last * i.first <= i.last * b.first)
  <2>1. /\ b.last * i.first \in Nat /\ i.last * b.first \in Nat
        /\ b.last * i.first <= b.first * i.first
        /\ b.first * i.first - i.last * b.first = (i.first - i.last) * b.first
    BY <1>1
  <2>2. lost \in Nat /\ lost <= (i.first - i.last) * b.first
    BY <1>1, <1>3, <2>1
  <2>3. Round(lost, b.first) \in 0 .. i.first - i.last
    <3>1. b.first \in Nat \ {0}
      BY <1>1, <1>3
    <3> HIDE DEF lost
    <3> QED BY <1>1, <2>2, <3>1, RoundBounded
  <2> QED BY <1>3, <2>3 DEF RowLoss
<1> QED BY <1>2, <1>3

-----------------------------------------------------------------------------
(* The ground truth.                                                       *)

\* Of every intent: it counts as lost to the fault exactly when it would have
\* completed and does not, whatever faults befell it together.
THEOREM LostMeansKeptFromCompleting ==
  ASSUME NEW x, x.walked \in FunnelStages, x.cancelled \in BOOLEAN, x.reordered \in BOOLEAN,
         x.timedOut \in BOOLEAN
  PROVE  /\ Reached(x) \in 1 .. x.walked
         /\ FaultRemovedCompletion(x) <=> WouldHaveCompleted(x) /\ Reached(x) # Completed
BY DEF Reached, FaultRemovedCompletion, WouldHaveCompleted, FunnelStages, Completed,
       MethodSelected, Authenticated, ChannelSucceeded

-----------------------------------------------------------------------------
(* What the generator can draw.                                            *)

Shapes ==
  [gap : Nat, method : Elements(PaymentMethods), channel : Elements(PaymentChannels),
   noBenefit : BOOLEAN, walked : FunnelStages, cancelled : BOOLEAN, reordered : BOOLEAN,
   switched : BOOLEAN, timedOut : BOOLEAN]

\* An intent before any fault: a shape that nothing has been done to.
LEMMA BaseShape ==
  ASSUME NEW x \in BaseIntents
  PROVE  x \in Shapes /\ ~x.cancelled /\ ~x.reordered /\ ~x.timedOut
<1>1. Gaps \subseteq Nat
  BY ScenarioAssumption
<1> QED BY <1>1 DEF BaseIntents, Shapes

\* The friction leaves the timeouts alone, and only who cancels orders again.
LEMMA FrictionShape ==
  ASSUME NEW x \in BaseIntents, NEW y \in ApplyBenefitFriction(x)
  PROVE  y \in Shapes /\ ~y.timedOut /\ (y.reordered => y.cancelled)
<1>1. x \in Shapes /\ ~x.cancelled /\ ~x.reordered /\ ~x.timedOut
  BY BaseShape
<1> DEFINE shifted == [x EXCEPT !.gap = @ + GapShift]
<1>2. /\ shifted \in Shapes /\ ~shifted.cancelled /\ ~shifted.reordered
      /\ ~shifted.timedOut
  BY <1>1 DEF Shapes, GapShift
<1>3. \/ y = shifted
      \/ \E r \in BOOLEAN : y = [shifted EXCEPT !.cancelled = TRUE, !.reordered = r]
      \/ \E m \in Elements(PaymentMethods) : y = [shifted EXCEPT !.switched = TRUE, !.method = m]
  BY DEF ApplyBenefitFriction
<1> HIDE DEF shifted
<1>4. CASE y = shifted
  BY <1>2, <1>4
<1>5. ASSUME NEW r \in BOOLEAN, y = [shifted EXCEPT !.cancelled = TRUE, !.reordered = r]
      PROVE  y \in Shapes /\ ~y.timedOut /\ (y.reordered => y.cancelled)
  BY <1>2, <1>5 DEF Shapes
<1>6. ASSUME NEW m \in Elements(PaymentMethods),
             y = [shifted EXCEPT !.switched = TRUE, !.method = m]
      PROVE  y \in Shapes /\ ~y.timedOut /\ (y.reordered => y.cancelled)
  BY <1>2, <1>6 DEF Shapes
<1> QED BY <1>3, <1>4, <1>5, <1>6

\* A timeout leaves the cancellation alone.
LEMMA TimeoutShape ==
  ASSUME NEW x \in Shapes, NEW y \in ApplyChannelTimeout(x)
  PROVE  y \in Shapes /\ y.cancelled = x.cancelled /\ y.reordered = x.reordered
<1>1. y = x \/ y = [x EXCEPT !.timedOut = TRUE]
  BY DEF ApplyChannelTimeout
<1> QED BY <1>1 DEF Shapes

\* An intent of either period: only who cancelled orders again, and what its
\* kind of scenario does not inject did not befall it.
LEMMA Drawn ==
  ASSUME NEW d, IsDataset(d), NEW p \in Periods, NEW x \in DOMAIN d[p]
  PROVE  /\ x \in Shapes
         /\ x.reordered => x.cancelled
         /\ p = "baseline" \/ d.kind \notin FrictionKinds => ~x.cancelled
         /\ p = "baseline" \/ d.kind \notin TimeoutKinds => ~x.timedOut
<1>1. d.kind \in Kinds /\ x \in Drawable[d.kind][p]
  BY DEF IsDataset
<1>2. CASE p = "baseline"
  <2>1. x \in BaseIntents
    BY <1>1, <1>2 DEF Drawable, Periods
  <2> QED BY <2>1, BaseShape
<1>3. CASE p # "baseline"
  <2>1. PICK w \in BaseIntents : x \in Injected(d.kind, w)
    BY <1>1, <1>3 DEF Drawable, Periods
  <2>2. w \in Shapes /\ ~w.cancelled /\ ~w.reordered /\ ~w.timedOut
    BY BaseShape
  <2>3. CASE d.kind = "data_gap"
    <3>1. x = w \/ x = [w EXCEPT !.noBenefit = TRUE]
      BY <2>1, <2>3 DEF Injected, LoseBenefit
    <3>2. [w EXCEPT !.noBenefit = TRUE] \in Shapes
      BY <2>2 DEF Shapes
    <3>3. x \in Shapes /\ ~x.cancelled /\ ~x.reordered /\ ~x.timedOut
      BY <2>2, <3>1, <3>2 DEF Shapes
    <3> QED BY <3>3
  <2>4. CASE d.kind # "data_gap"
    <3> DEFINE shifted == IF d.kind \in FrictionKinds THEN ApplyBenefitFriction(w) ELSE {w}
    <3>1. PICK y \in shifted : IF d.kind \in TimeoutKinds THEN x \in ApplyChannelTimeout(y)
                               ELSE x = y
      BY <2>1, <2>4 DEF Injected
    <3>2. /\ y \in Shapes /\ ~y.timedOut /\ (y.reordered => y.cancelled)
          /\ d.kind \notin FrictionKinds => ~y.cancelled
      BY <2>2, <3>1, FrictionShape
    <3>3. CASE d.kind \in TimeoutKinds
      <4>1. x \in Shapes /\ x.cancelled = y.cancelled /\ x.reordered = y.reordered
        BY <3>1, <3>2, <3>3, TimeoutShape
      <4> QED BY <1>3, <3>2, <3>3, <4>1
    <3>4. CASE d.kind \notin TimeoutKinds
      BY <1>3, <3>1, <3>2, <3>4
    <3> QED BY <3>3, <3>4
  <2> QED BY <2>3, <2>4
<1> QED BY <1>2, <1>3

\* A period is a bag.
LEMMA PeriodIsBag ==
  ASSUME NEW d, IsDataset(d), NEW p \in Periods
  PROVE  /\ IsFiniteSet(DOMAIN d[p])
         /\ \A x \in DOMAIN d[p] : d[p][x] \in Nat /\ d[p][x] \in Int /\ d[p][x] > 0
BY DEF IsDataset

\* A part of a period, as a number of intents.
LEMMA PartCounts ==
  ASSUME NEW d, IsDataset(d), NEW p \in Periods, NEW S \in SUBSET DOMAIN d[p]
  PROVE  /\ IsFiniteSet(S) /\ SumFunctionOnSet(d[p], S) \in Nat
         /\ \A T \in SUBSET S : SumFunctionOnSet(d[p], T) <= SumFunctionOnSet(d[p], S)
         /\ SumFunctionOnSet(d[p], S) = 0 => S = {}
<1>1. IsFiniteSet(S) /\ \A x \in S : d[p][x] \in Nat /\ d[p][x] > 0
  BY PeriodIsBag, FS_Subset
<1>2. SumFunctionOnSet(d[p], S) \in Nat
  BY <1>1, SumNat
<1>3. \A T \in SUBSET S : SumFunctionOnSet(d[p], T) <= SumFunctionOnSet(d[p], S)
  BY <1>1, SumPart
<1>4. \A x \in S : d[p][x] <= SumFunctionOnSet(d[p], S)
  BY <1>1, SumMember
<1> QED BY <1>1, <1>2, <1>3, <1>4

\* Two parts without an intent in common.
LEMMA PartsAdd ==
  ASSUME NEW d, IsDataset(d), NEW p \in Periods,
         NEW S \in SUBSET DOMAIN d[p], NEW T \in SUBSET DOMAIN d[p], S \cap T = {}
  PROVE  SumFunctionOnSet(d[p], S \cup T)
           = SumFunctionOnSet(d[p], S) + SumFunctionOnSet(d[p], T)
<1>1. IsFiniteSet(S) /\ IsFiniteSet(T) /\ \A x \in S \cup T : d[p][x] \in Int
  BY PeriodIsBag, FS_Subset
<1> QED BY <1>1, SumSplit

\* The loss the ground truth names: each intent counts once, as lost or as
\* completed, if it would have completed.
THEOREM TruthCountsOnce ==
  ASSUME NEW d, IsDataset(d)
  PROVE  ExpectedLostIntents(d) + Count(d.incident, LAMBDA x : Reached(x) = Completed)
           = Count(d.incident, WouldHaveCompleted)
<1> DEFINE all  == DOMAIN d.incident
           lost == {x \in all : FaultRemovedCompletion(x)}
           done == {x \in all : Reached(x) = Completed}
           due  == {x \in all : WouldHaveCompleted(x)}
<1>0. "incident" \in Periods
  BY DEF Periods
<1>1. \A x \in all : x \in Shapes
  BY <1>0, Drawn
<1>2. ASSUME NEW x \in all
      PROVE  /\ Reached(x) \in 1 .. x.walked /\ x.walked \in FunnelStages
             /\ FaultRemovedCompletion(x) <=> WouldHaveCompleted(x) /\ Reached(x) # Completed
  <2>1. /\ x.walked \in FunnelStages /\ x.cancelled \in BOOLEAN /\ x.reordered \in BOOLEAN
        /\ x.timedOut \in BOOLEAN
    BY <1>1 DEF Shapes
  <2> QED BY <2>1, LostMeansKeptFromCompleting
<1>3. ASSUME NEW x \in all, Reached(x) = Completed
      PROVE  WouldHaveCompleted(x)
  BY <1>2, <1>3 DEF WouldHaveCompleted, FunnelStages, Completed
<1>4. due = lost \cup done /\ lost \cap done = {}
  BY <1>2, <1>3
<1>5. lost \in SUBSET all /\ done \in SUBSET all
  OBVIOUS
<1> HIDE DEF lost, done, due
<1>6. SumFunctionOnSet(d.incident, due)
        = SumFunctionOnSet(d.incident, lost) + SumFunctionOnSet(d.incident, done)
  BY <1>0, <1>4, <1>5, PartsAdd
<1> QED BY <1>6 DEF ExpectedLostIntents, Count, lost, done, due

-----------------------------------------------------------------------------
(* The tools that read one file.                                           *)

\* A sum over the gap buckets is a sum of three.
LEMMA ThreeBuckets ==
  ASSUME NEW f, DOMAIN f = GapBuckets, \A b \in GapBuckets : f[b] \in Nat
  PROVE  SumFunction(f) = f["0-300"] + f["300-1000"] + f[">=1000"]
<1>1. \A b \in GapBuckets : f[b] \in Int
  OBVIOUS
<1>2. /\ SumFunctionOnSet(f, {"0-300"}) = f["0-300"]
      /\ IsFiniteSet({"0-300"}) /\ IsFiniteSet({"0-300"} \cup {"300-1000"})
  BY <1>1, SumSingle, FS_Singleton, FS_AddElement DEF GapBuckets
<1>3. SumFunctionOnSet(f, {"0-300"} \cup {"300-1000"}) = f["300-1000"] + f["0-300"]
  BY <1>1, <1>2, SumAdd DEF GapBuckets
<1>4. SumFunctionOnSet(f, ({"0-300"} \cup {"300-1000"}) \cup {">=1000"})
        = f[">=1000"] + (f["300-1000"] + f["0-300"])
  <2>1. ">=1000" \notin {"0-300"} \cup {"300-1000"}
    OBVIOUS
  <2>2. \A b \in ({"0-300"} \cup {"300-1000"}) \cup {">=1000"} : f[b] \in Int
    BY <1>1 DEF GapBuckets
  <2>3. SumFunctionOnSet(f, ({"0-300"} \cup {"300-1000"}) \cup {">=1000"})
          = f[">=1000"] + SumFunctionOnSet(f, {"0-300"} \cup {"300-1000"})
    BY <1>2, <2>1, <2>2, SumAdd
  <2> QED BY <1>3, <2>3
<1>5. ({"0-300"} \cup {"300-1000"}) \cup {">=1000"} = GapBuckets
  BY DEF GapBuckets
<1>6. f["0-300"] \in Nat /\ f["300-1000"] \in Nat /\ f[">=1000"] \in Nat
  BY DEF GapBuckets
<1>7. SumFunction(f) = SumFunctionOnSet(f, ({"0-300"} \cup {"300-1000"}) \cup {">=1000"})
  BY <1>5, Zenon DEF SumFunction
<1> DEFINE sum == SumFunctionOnSet(f, ({"0-300"} \cup {"300-1000"}) \cup {">=1000"})
<1>8. SumFunction(f) = sum /\ sum = f[">=1000"] + (f["300-1000"] + f["0-300"])
  BY <1>4, <1>7
<1> HIDE DEF sum
<1> QED BY <1>6, <1>8

\* Every gap is in one bucket.
LEMMA BucketsDivide ==
  ASSUME NEW d, IsDataset(d), NEW p \in Periods, NEW S \in SUBSET DOMAIN d[p]
  PROVE  LET In(b) == SumFunctionOnSet(d[p], {x \in S : InBucket(x, b)}) IN
         /\ \A b \in GapBuckets : In(b) \in Nat
         /\ SumFunction([b \in GapBuckets |-> In(b)]) = SumFunctionOnSet(d[p], S)
<1> DEFINE Low  == {x \in S : InBucket(x, "0-300")}
           Mid  == {x \in S : InBucket(x, "300-1000")}
           High == {x \in S : InBucket(x, ">=1000")}
           In(b) == SumFunctionOnSet(d[p], {x \in S : InBucket(x, b)})
           f == [b \in GapBuckets |-> In(b)]
<1>1. \A x \in S : x.gap \in Nat
  BY Drawn DEF Shapes
<1>2. ASSUME NEW x \in S
      PROVE  /\ InBucket(x, "0-300") <=> x.gap < 300
             /\ InBucket(x, "300-1000") <=> 300 <= x.gap /\ x.gap < 1000
             /\ InBucket(x, ">=1000") <=> x.gap >= 1000
  BY <1>1 DEF InBucket
<1>3. /\ S = (Low \cup Mid) \cup High
      /\ Low \cap Mid = {} /\ (Low \cup Mid) \cap High = {}
  BY <1>1, <1>2
<1>10. /\ Low \in SUBSET DOMAIN d[p] /\ Mid \in SUBSET DOMAIN d[p]
       /\ High \in SUBSET DOMAIN d[p] /\ Low \cup Mid \in SUBSET DOMAIN d[p]
  OBVIOUS
<1>4. \A b \in GapBuckets : In(b) \in Nat
  <2>1. ASSUME NEW b PROVE In(b) \in Nat
    <3>1. {x \in S : InBucket(x, b)} \in SUBSET DOMAIN d[p]
      OBVIOUS
    <3> QED BY <3>1, PartCounts
  <2> QED BY <2>1
<1>5. /\ In("0-300") = SumFunctionOnSet(d[p], Low)
      /\ In("300-1000") = SumFunctionOnSet(d[p], Mid)
      /\ In(">=1000") = SumFunctionOnSet(d[p], High)
  OBVIOUS
<1> HIDE DEF Low, Mid, High, In, f
<1>6. SumFunction(f) = In("0-300") + In("300-1000") + In(">=1000")
  <2>1. DOMAIN f = GapBuckets /\ \A b \in GapBuckets : f[b] \in Nat /\ f[b] = In(b)
    BY <1>4 DEF f
  <2>2. SumFunction(f) = f["0-300"] + f["300-1000"] + f[">=1000"]
    BY <2>1, ThreeBuckets
  <2> QED BY <2>1, <2>2 DEF GapBuckets
<1>11. \A U, V \in SUBSET DOMAIN d[p] : U \cap V = {} =>
         SumFunctionOnSet(d[p], U \cup V) = SumFunctionOnSet(d[p], U) + SumFunctionOnSet(d[p], V)
  BY PartsAdd
<1>7. SumFunctionOnSet(d[p], (Low \cup Mid) \cup High)
        = SumFunctionOnSet(d[p], Low \cup Mid) + SumFunctionOnSet(d[p], High)
  <2>1. (Low \cup Mid) \cap High = {}
    BY <1>3
  <2> QED BY <1>10, <1>11, <2>1
<1>8. SumFunctionOnSet(d[p], Low \cup Mid)
        = SumFunctionOnSet(d[p], Low) + SumFunctionOnSet(d[p], Mid)
  <2>1. Low \cap Mid = {}
    BY <1>3
  <2> QED BY <1>10, <1>11, <2>1
<1>9. SumFunction(f) = SumFunctionOnSet(d[p], S)
  BY <1>3, <1>5, <1>6, <1>7, <1>8
<1> QED BY <1>4, <1>9 DEF In, f

\* Of every data set: the buckets of the benefit query divide what the trace
\* counts, and recoveries are re-orders, which are cancellations.
THEOREM QueriesAgreeOnAll ==
  ASSUME NEW d, IsDataset(d), NEW p \in Periods
  PROVE  LET trace == CancelReorderMetrics(d, p)
             Total(field) == SumFunction([b \in GapBuckets |-> BucketStats(d, p, b)[field]])
         IN  /\ Total("intents") = trace.total
             /\ Total("cancels") = trace.cancelled
             /\ Total("reorders") = trace.reordered
             /\ Total("recoveries") = trace.recovered
             /\ trace.recovered <= trace.reordered /\ trace.reordered <= trace.cancelled
<1> DEFINE all == DOMAIN d[p]
           cancelled == {x \in all : x.cancelled}
           reordered == {x \in all : x.reordered}
           recovered == {x \in all : Recovered(d, p, x)}
           In(S, b)  == SumFunctionOnSet(d[p], {x \in S : InBucket(x, b)})
           trace == CancelReorderMetrics(d, p)
           Stats(b) == BucketStats(d, p, b)
<1>1. recovered \in SUBSET reordered /\ reordered \in SUBSET cancelled
  BY Drawn DEF Recovered
<1>2. cancelled \in SUBSET all /\ reordered \in SUBSET all /\ recovered \in SUBSET all
  OBVIOUS
<1>3. /\ trace.total = SumFunctionOnSet(d[p], {x \in all : TRUE})
      /\ trace.cancelled = SumFunctionOnSet(d[p], cancelled)
      /\ trace.reordered = SumFunctionOnSet(d[p], reordered)
      /\ trace.recovered = SumFunctionOnSet(d[p], recovered)
  BY DEF CancelReorderMetrics, Size, Count
<1>4. trace.total = SumFunctionOnSet(d[p], all)
  <2>1. {x \in all : TRUE} = all
    OBVIOUS
  <2> QED BY <1>3, <2>1
<1>5. ASSUME NEW b
      PROVE  /\ Stats(b)["intents"] = In(all, b)
             /\ Stats(b)["cancels"] = In(cancelled, b)
             /\ Stats(b)["reorders"] = In(reordered, b)
             /\ Stats(b)["recoveries"] = In(recovered, b)
  <2>1. /\ Stats(b)["intents"] = SumFunctionOnSet(d[p], {x \in all : InBucket(x, b)})
        /\ Stats(b)["cancels"]
             = SumFunctionOnSet(d[p], {x \in all : InBucket(x, b) /\ x.cancelled})
        /\ Stats(b)["reorders"]
             = SumFunctionOnSet(d[p], {x \in all : InBucket(x, b) /\ x.reordered})
        /\ Stats(b)["recoveries"]
             = SumFunctionOnSet(d[p], {x \in all : InBucket(x, b) /\ Recovered(d, p, x)})
    BY DEF BucketStats, Count
  <2>2. /\ {x \in all : InBucket(x, b) /\ x.cancelled} = {x \in cancelled : InBucket(x, b)}
        /\ {x \in all : InBucket(x, b) /\ x.reordered} = {x \in reordered : InBucket(x, b)}
        /\ {x \in all : InBucket(x, b) /\ Recovered(d, p, x)}
             = {x \in recovered : InBucket(x, b)}
    OBVIOUS
  <2> QED BY <2>1, <2>2
<1>6. \A S \in SUBSET all :
        SumFunction([b \in GapBuckets |-> In(S, b)]) = SumFunctionOnSet(d[p], S)
  BY BucketsDivide
<1> HIDE DEF trace, Stats, In, cancelled, reordered, recovered
<1>7. /\ [b \in GapBuckets |-> Stats(b)["intents"]] = [b \in GapBuckets |-> In(all, b)]
      /\ [b \in GapBuckets |-> Stats(b)["cancels"]] = [b \in GapBuckets |-> In(cancelled, b)]
      /\ [b \in GapBuckets |-> Stats(b)["reorders"]] = [b \in GapBuckets |-> In(reordered, b)]
      /\ [b \in GapBuckets |-> Stats(b)["recoveries"]]
           = [b \in GapBuckets |-> In(recovered, b)]
  BY <1>5
<1>8. /\ SumFunction([b \in GapBuckets |-> Stats(b)["intents"]]) = trace.total
      /\ SumFunction([b \in GapBuckets |-> Stats(b)["cancels"]]) = trace.cancelled
      /\ SumFunction([b \in GapBuckets |-> Stats(b)["reorders"]]) = trace.reordered
      /\ SumFunction([b \in GapBuckets |-> Stats(b)["recoveries"]]) = trace.recovered
  BY <1>2, <1>3, <1>4, <1>6, <1>7
<1>9. trace.recovered <= trace.reordered /\ trace.reordered <= trace.cancelled
  BY <1>1, <1>2, <1>3, PartCounts
<1> QED BY <1>8, <1>9 DEF trace, Stats

-----------------------------------------------------------------------------
(* The evidence of the fixed workflow.                                     *)

Degraded == "FUNNEL_STAGE_DEGRADATION"

ChargedCodes(e) == {n \in DOMAIN e : e[n].type = Degraded}

\* What the records of the funnel charge.
Charged(e) == SumFunctionOnSet([n \in DOMAIN e |-> e[n].loss], ChargedCodes(e))

\* What a report charges for is never negative.
LEMMA ChargedNat == ASSUME NEW e \in Seq(Records) PROVE Charged(e) \in Nat
<1> DEFINE f == [n \in DOMAIN e |-> e[n].loss]
<1>1. IsFiniteSet(DOMAIN e) /\ DOMAIN e = 1 .. Len(e) /\ \A n \in DOMAIN e : e[n] \in Records
  BY FS_Interval
<1>2. IsFiniteSet(ChargedCodes(e)) /\ \A n \in ChargedCodes(e) : f[n] \in Nat
  <2>1. ChargedCodes(e) \in SUBSET DOMAIN e
    BY DEF ChargedCodes
  <2> QED BY <1>1, <2>1, FS_Subset DEF Records
<1> HIDE DEF f
<1>3. SumFunctionOnSet(f, ChargedCodes(e)) \in Nat
  BY <1>2, SumNat
<1> QED BY <1>3 DEF Charged, f

\* Records of other types charge nothing.
LEMMA OthersAdd ==
  ASSUME NEW e \in Seq(Records), NEW t \in Seq(Records), \A n \in DOMAIN t : t[n].type # Degraded
  PROVE  e \o t \in Seq(Records) /\ Charged(e \o t) = Charged(e)
<1> DEFINE u == e \o t
           f == [n \in DOMAIN e |-> e[n].loss]
           g == [n \in DOMAIN u |-> u[n].loss]
           codes == ChargedCodes(e)
<1>1. /\ u \in Seq(Records) /\ DOMAIN e = 1 .. Len(e) /\ DOMAIN t = 1 .. Len(t)
      /\ DOMAIN u = 1 .. Len(e) + Len(t) /\ Len(e) \in Nat /\ Len(t) \in Nat
      /\ \A n \in DOMAIN e : u[n] = e[n]
      /\ \A n \in DOMAIN u \ DOMAIN e : n - Len(e) \in DOMAIN t /\ u[n] = t[n - Len(e)]
  OBVIOUS
<1> HIDE DEF u
<1>2. ChargedCodes(u) = codes
  <2>1. DOMAIN e \subseteq DOMAIN u
    BY <1>1
  <2>2. \A n \in DOMAIN u : u[n].type = Degraded <=> n \in DOMAIN e /\ e[n].type = Degraded
    BY <1>1
  <2> QED BY <2>1, <2>2 DEF ChargedCodes
<1>3. IsFiniteSet(codes)
  <2>1. codes \in SUBSET DOMAIN e /\ IsFiniteSet(DOMAIN e)
    BY <1>1, FS_Interval DEF ChargedCodes
  <2> QED BY <2>1, FS_Subset
<1>4. \A n \in codes : f[n] = g[n]
  BY <1>1 DEF ChargedCodes
<1> HIDE DEF f, g, codes
<1>5. SumFunctionOnSet(f, codes) = SumFunctionOnSet(g, codes)
  BY <1>3, <1>4, SumSame
<1>6. Charged(u) = Charged(e)
  BY <1>2, <1>5 DEF Charged, f, g, codes
<1> QED BY <1>1, <1>6 DEF u

\* A record of the funnel charges its loss.
LEMMA ChargeAdds ==
  ASSUME NEW e \in Seq(Records), NEW r \in Records, r.type = Degraded
  PROVE  e \o <<r>> \in Seq(Records) /\ Charged(e \o <<r>>) = Charged(e) + r.loss
<1> DEFINE u == e \o <<r>>
           f == [n \in DOMAIN e |-> e[n].loss]
           g == [n \in DOMAIN u |-> u[n].loss]
           codes == ChargedCodes(e)
           last  == Len(e) + 1
<1>1. /\ u \in Seq(Records) /\ DOMAIN e = 1 .. Len(e)
      /\ DOMAIN u = 1 .. last /\ Len(e) \in Nat
      /\ \A n \in DOMAIN e : u[n] = e[n]
      /\ u[last] = r
  OBVIOUS
<1> HIDE DEF u
<1>2. ChargedCodes(u) = codes \cup {last} /\ last \notin codes
  <2>1. DOMAIN u = DOMAIN e \cup {last} /\ last \notin DOMAIN e
    BY <1>1
  <2> QED BY <1>1, <2>1 DEF ChargedCodes
<1>3. IsFiniteSet(codes)
  <2>1. codes \in SUBSET DOMAIN e /\ IsFiniteSet(DOMAIN e)
    BY <1>1, FS_Interval DEF ChargedCodes
  <2> QED BY <2>1, FS_Subset
<1>4. /\ \A n \in codes : f[n] = g[n] /\ g[n] \in Int
      /\ g[last] = r.loss /\ r.loss \in Nat
  <2>1. r.loss \in Nat /\ \A n \in DOMAIN e : e[n].loss \in Nat
    <3>1. \A n \in DOMAIN e : e[n] \in Records
      BY <1>1
    <3>2. \A x \in Records : x.loss \in Nat
      BY DEF Records
    <3> QED BY <3>1, <3>2
  <2>2. \A n \in DOMAIN u : g[n] = u[n].loss
    OBVIOUS
  <2>3. last \in DOMAIN u /\ DOMAIN e \subseteq DOMAIN u
    BY <1>1
  <2>4. \A n \in codes : n \in DOMAIN e
    BY DEF ChargedCodes
  <2>5. \A n \in DOMAIN e : f[n] = e[n].loss
    OBVIOUS
  <2> HIDE DEF f, g, codes, last
  <2>6. \A n \in codes : f[n] = g[n] /\ g[n] \in Int
    BY <1>1, <2>1, <2>2, <2>3, <2>4, <2>5
  <2>7. g[last] = r.loss
    BY <1>1, <2>2, <2>3
  <2> QED BY <2>1, <2>6, <2>7
<1> HIDE DEF f, g, codes, last
<1>5. SumFunctionOnSet(f, codes) = SumFunctionOnSet(g, codes)
  BY <1>3, <1>4, SumSame
<1>6. SumFunctionOnSet(g, codes \cup {last}) = g[last] + SumFunctionOnSet(g, codes)
  <2>1. last \notin codes /\ \A n \in codes \cup {last} : g[n] \in Int
    BY <1>2, <1>4
  <2> QED BY <1>3, <2>1, SumAdd
<1>7. /\ Charged(u) = SumFunctionOnSet(g, codes \cup {last})
      /\ Charged(e) = SumFunctionOnSet(f, codes)
  BY <1>2 DEF Charged, f, g, codes
<1>8. Charged(u) = Charged(e) + r.loss
  BY <1>4, <1>5, <1>6, <1>7, ChargedNat
<1> QED BY <1>1, <1>8 DEF u

\* One stage adds its loss, which is 0 where it is not flagged.
LEMMA StageAdds ==
  ASSUME NEW b \in [FunnelStages -> Nat], NEW i \in [FunnelStages -> Nat],
         NEW s \in FunnelStages, NEW e \in Seq(Records)
  PROVE  /\ e \o StageEvidence(b, i, s) \in Seq(Records)
         /\ Charged(e \o StageEvidence(b, i, s)) = Charged(e) + EstimatedLost(b, i, s)
<1>1. EstimatedLost(b, i, s) \in Nat
  <2>1. CASE ~(IsAnomalous(b, i, s) /\ Shortfall(b, i, s) > 0)
    BY <2>1 DEF EstimatedLost
  <2>2. CASE IsAnomalous(b, i, s) /\ Shortfall(b, i, s) > 0
    <3>1. s - 1 \in FunnelStages /\ b[s - 1] # 0
      BY <2>2 DEF IsAnomalous, HasStepRates, FunnelStages
    <3>2. b[s - 1] \in Nat \ {0} /\ b[s] \in Nat /\ i[s] \in Nat /\ i[s - 1] \in Nat
      BY <3>1
    <3>3. b[s] * i[s - 1] \in Nat /\ i[s] * b[s - 1] \in Nat
      BY <3>2
    <3>4. Shortfall(b, i, s) \in Nat
      BY <2>2, <3>3 DEF Shortfall
    <3>5. /\ Shortfall(b, i, s) \div b[s - 1] \in Nat
          /\ Shortfall(b, i, s) % b[s - 1] \in 0 .. b[s - 1] - 1
      BY <3>2, <3>4, Division
    <3>6. Round(Shortfall(b, i, s), b[s - 1]) \in Nat
      BY <3>5 DEF Round
    <3> QED BY <2>2, <3>6 DEF EstimatedLost
  <2> QED BY <2>1, <2>2
<1>2. CASE IsAnomalous(b, i, s)
  <2> DEFINE r == EvidenceDraft(Degraded, StageName(s), EstimatedLost(b, i, s))
  <2>1. r \in Records /\ r.type = Degraded /\ r.loss = EstimatedLost(b, i, s)
    <3>1. StageName(s) \in Stages
      BY DEF StageName, Stages
    <3> QED BY <1>1, <3>1 DEF EvidenceDraft, Records, Degraded, EvidenceTypes, Generic
  <2>2. StageEvidence(b, i, s) = <<r>>
    BY <1>2 DEF StageEvidence, Degraded
  <2> HIDE DEF r
  <2> QED BY <2>1, <2>2, ChargeAdds
<1>3. CASE ~IsAnomalous(b, i, s)
  <2>1. StageEvidence(b, i, s) = <<>> /\ EstimatedLost(b, i, s) = 0
    BY <1>3 DEF StageEvidence, EstimatedLost
  <2>2. e \o <<>> = e
    OBVIOUS
  <2> QED BY <2>1, <2>2, ChargedNat
<1> QED BY <1>2, <1>3

\* A tool that finds something other than a degraded stage.
LEMMA RaisedOther ==
  ASSUME NEW condition, NEW type \in EvidenceTypes, type # Degraded
  PROVE  /\ Raised(condition, type) \in Seq(Records)
         /\ \A n \in DOMAIN Raised(condition, type) : Raised(condition, type)[n].type # Degraded
<1> DEFINE r == EvidenceDraft(type, "none", 0)
<1>1. r \in Records /\ r.type # Degraded
  BY DEF EvidenceDraft, Records, Stages
<1> HIDE DEF r
<1>2. Raised(condition, type) = <<r>> \/ Raised(condition, type) = <<>>
  BY DEF Raised, r
<1>3. CASE Raised(condition, type) = <<>>
  BY <1>3
<1>4. CASE Raised(condition, type) = <<r>>
  BY <1>1, <1>4
<1> QED BY <1>2, <1>3, <1>4

\* Some list of a finite set.
LEMMA Listed ==
  ASSUME NEW S, IsFiniteSet(S)
  PROVE  SetToSeq(S) \in Seq(S)
<1>1. Cardinality(S) \in Nat /\ ExistsBijection(1 .. Cardinality(S), S)
  BY FS_CardinalityType
<1>2. PICK f \in [1 .. Cardinality(S) -> S] : IsInjective(f)
  BY <1>1 DEF ExistsBijection, Bijection, Injection, IsInjective
<1>3. SetToSeq(S) \in [1 .. Cardinality(S) -> S]
  BY <1>2 DEF SetToSeq
<1> QED BY <1>1, <1>3

\* Drafts of one other type.
LEMMA DraftsOther ==
  ASSUME NEW k \in Nat, NEW e, e = [n \in 1 .. k |-> e[n]],
         NEW type \in EvidenceTypes, type # Degraded,
         \A n \in 1 .. k : \E loss \in Nat : e[n] = EvidenceDraft(type, "none", loss)
  PROVE  e \in Seq(Records) /\ \A n \in DOMAIN e : e[n].type # Degraded
<1>1. ASSUME NEW n \in 1 .. k PROVE e[n] \in Records /\ e[n].type # Degraded
  <2>1. PICK loss \in Nat : e[n] = EvidenceDraft(type, "none", loss)
    OBVIOUS
  <2> QED BY <2>1 DEF EvidenceDraft, Records, Stages
<1>2. e \in [1 .. k -> Records] /\ DOMAIN e = 1 .. k
  BY <1>1
<1> QED BY <1>1, <1>2

\* The same of a list of a set.
LEMMA ListedBounds ==
  ASSUME NEW S, IsFiniteSet(S)
  PROVE  \E k \in Nat : /\ DOMAIN SetToSeq(S) = 1 .. k
                        /\ \A n \in 1 .. k : SetToSeq(S)[n] \in S
<1>1. SetToSeq(S) \in Seq(S)
  BY Listed
<1> DEFINE listed == SetToSeq(S)
<1>2. listed \in Seq(S)
  BY <1>1
<1> HIDE DEF listed
<1>3. Len(listed) \in Nat /\ DOMAIN listed = 1 .. Len(listed)
  BY <1>2
<1>4. \A n \in 1 .. Len(listed) : listed[n] \in S
  BY <1>2
<1>5. \E k \in Nat : DOMAIN listed = 1 .. k /\ \A n \in 1 .. k : listed[n] \in S
  BY <1>3, <1>4
<1> QED BY <1>5 DEF listed

\* Whoever completed was confirmed, also where stages between are withheld.
LEMMA ConversionCounts ==
  ASSUME NEW d, IsDataset(d), NEW p \in Periods, NEW dim, NEW v
  PROVE  /\ Conversion(d, p, dim, v) \in [first : Nat, last : Nat]
         /\ Conversion(d, p, dim, v).last <= Conversion(d, p, dim, v).first
<1> DEFINE dropped == DropStages(d.kind, p)
           At(s) == {x \in DOMAIN d[p] : x[dim] = v /\ s \in Progressed(x, dropped)}
<1>1. Conversion(d, p, dim, v) = [first |-> SumFunctionOnSet(d[p], At(Confirmed)),
                                  last  |-> SumFunctionOnSet(d[p], At(Completed))]
  BY DEF Conversion, Count
<1>2. At(Confirmed) \in SUBSET DOMAIN d[p] /\ At(Completed) \in SUBSET At(Confirmed)
  <2>1. ASSUME NEW x \in DOMAIN d[p], Completed \in Progressed(x, dropped)
        PROVE  Confirmed \in Progressed(x, dropped)
    <3>1. x.walked \in FunnelStages /\ x.cancelled \in BOOLEAN /\ x.reordered \in BOOLEAN
          /\ x.timedOut \in BOOLEAN
      BY Drawn DEF Shapes
    <3>2. Reached(x) \in 1 .. x.walked
      BY <3>1, LostMeansKeptFromCompleting
    <3>3. Confirmed \in 1 .. Reached(x)
      BY <3>1, <3>2 DEF Confirmed, FunnelStages
    <3>4. Confirmed \notin dropped
      BY DEF DropStages, Confirmed, Authenticated, ChannelSucceeded
    <3> QED BY <3>3, <3>4 DEF Progressed
  <2> QED BY <2>1
<1> HIDE DEF At
<1>3. /\ SumFunctionOnSet(d[p], At(Confirmed)) \in Nat
      /\ SumFunctionOnSet(d[p], At(Completed)) <= SumFunctionOnSet(d[p], At(Confirmed))
      /\ SumFunctionOnSet(d[p], At(Completed)) \in Nat
  <2>1. At(Completed) \in SUBSET DOMAIN d[p]
    BY <1>2
  <2> QED BY <1>2, <2>1, PartCounts
<1> QED BY <1>1, <1>3

\* The rows of a breakdown.
LEMMA BreakdownOther ==
  ASSUME NEW d, IsDataset(d), NEW dim
  PROVE  /\ BreakdownEvidence(d, dim) \in Seq(Records)
         /\ \A n \in DOMAIN BreakdownEvidence(d, dim) :
              BreakdownEvidence(d, dim)[n].type # Degraded
<1> DEFINE Lost(v) == RowLoss(Conversion(d, "baseline", dim, v), Conversion(d, "incident", dim, v))
           S == {v \in Elements(ValuesOf(dim)) :
                   RowDegraded(Conversion(d, "baseline", dim, v), Conversion(d, "incident", dim, v))
                     /\ Lost(v) > 0}
           e == BreakdownEvidence(d, dim)
<1>1. IsFiniteSet(S)
  <2>1. IsFiniteSet(Elements(ValuesOf(dim)))
    BY ScenarioAssumption DEF ValuesOf
  <2> QED BY <2>1, FS_Subset
<1>2. PICK k \in Nat : /\ DOMAIN SetToSeq(S) = 1 .. k
                       /\ \A n \in 1 .. k : SetToSeq(S)[n] \in S
  BY <1>1, ListedBounds
<1>3. e = [n \in DOMAIN SetToSeq(S) |->
             EvidenceDraft("DIMENSION_CONTRIBUTION", "none", Lost(SetToSeq(S)[n]))]
  BY DEF BreakdownEvidence, Drafted
<1>4. ASSUME NEW v \in S PROVE Lost(v) \in Nat
  <2>1. "baseline" \in Periods /\ "incident" \in Periods
    BY DEF Periods
  <2> DEFINE b == Conversion(d, "baseline", dim, v)
             i == Conversion(d, "incident", dim, v)
  <2>2. /\ b \in [first : Nat, last : Nat] /\ b.last <= b.first
        /\ i \in [first : Nat, last : Nat] /\ i.last <= i.first
    BY <2>1, ConversionCounts
  <2> HIDE DEF b, i
  <2>3. RowLoss(b, i) \in 0 .. i.first - i.last
    BY <2>2, RowLossBounded
  <2> QED BY <2>2, <2>3 DEF b, i
<1> HIDE DEF S, Lost, e
<1>5. e = [n \in 1 .. k |-> e[n]]
  BY <1>2, <1>3
<1>6. \A n \in 1 .. k : \E loss \in Nat : e[n] = EvidenceDraft("DIMENSION_CONTRIBUTION", "none", loss)
  BY <1>2, <1>3, <1>4
<1>7. "DIMENSION_CONTRIBUTION" \in EvidenceTypes /\ "DIMENSION_CONTRIBUTION" # Degraded
  BY DEF EvidenceTypes, Generic, Degraded
<1>8. e \in Seq(Records) /\ \A n \in DOMAIN e : e[n].type # Degraded
  BY <1>5, <1>6, <1>7, DraftsOther
<1> QED BY <1>8 DEF e

\* The changes of the configuration.
LEMMA ConfigOther ==
  ASSUME NEW d
  PROVE  /\ ConfigEvidence(d) \in Seq(Records)
         /\ \A n \in DOMAIN ConfigEvidence(d) : ConfigEvidence(d)[n].type # Degraded
<1> DEFINE S == Elements(ConfigChangeTypes(d.kind)) \cap PaymentRelevant
           e == ConfigEvidence(d)
<1>1. IsFiniteSet(S)
  <2>1. IsFiniteSet({"promo_rule"} \cup {"routing"} \cup {"risk_control"})
    BY FS_Singleton, FS_AddElement
  <2>2. S \in SUBSET ({"promo_rule"} \cup {"routing"} \cup {"risk_control"})
    BY DEF PaymentRelevant
  <2> QED BY <2>1, <2>2, FS_Subset
<1>2. PICK k \in Nat : DOMAIN SetToSeq(S) = 1 .. k
  BY <1>1, ListedBounds
<1>3. e = [n \in DOMAIN SetToSeq(S) |-> EvidenceDraft("CONFIG_CHANGE", "none", 0)]
  BY DEF ConfigEvidence, Drafted
<1> HIDE DEF S, e
<1>4. e = [n \in 1 .. k |-> e[n]]
  BY <1>2, <1>3
<1>5. \A n \in 1 .. k : \E loss \in Nat : e[n] = EvidenceDraft("CONFIG_CHANGE", "none", loss)
  BY <1>2, <1>3
<1>6. "CONFIG_CHANGE" \in EvidenceTypes /\ "CONFIG_CHANGE" # Degraded
  BY DEF EvidenceTypes, Observational, Degraded
<1>7. e \in Seq(Records) /\ \A n \in DOMAIN e : e[n].type # Degraded
  BY <1>4, <1>5, <1>6, DraftsOther
<1> QED BY <1>7 DEF e

\* The counts of a period are numbers, each of those whose intents came so far.
LEMMA CountsOf ==
  ASSUME NEW d, IsDataset(d), NEW p \in Periods
  PROVE  /\ ReachedCounts(d, p) \in [FunnelStages -> Nat]
         /\ \A s \in FunnelStages :
              ReachedCounts(d, p)[s] =
                SumFunctionOnSet(d[p], {x \in DOMAIN d[p] :
                                          s \in Progressed(x, DropStages(d.kind, p))})
<1> DEFINE N(s) == SumFunctionOnSet(d[p], {x \in DOMAIN d[p] :
                                             s \in Progressed(x, DropStages(d.kind, p))})
<1>1. ReachedCounts(d, p) = <<N(1), N(2), N(3), N(4), N(5), N(6), N(7), N(8), N(9)>>
  BY DEF ReachedCounts, Count
<1>2. ASSUME NEW s PROVE N(s) \in Nat
  <2>1. {x \in DOMAIN d[p] : s \in Progressed(x, DropStages(d.kind, p))} \in SUBSET DOMAIN d[p]
    OBVIOUS
  <2> QED BY <2>1, PartCounts
<1> HIDE DEF N
<1>3. \A s \in FunnelStages : ReachedCounts(d, p)[s] = N(s)
  BY <1>1 DEF FunnelStages
<1>4. DOMAIN ReachedCounts(d, p) = FunnelStages
  BY <1>1 DEF FunnelStages
<1>5. ReachedCounts(d, p) \in [FunnelStages -> Nat]
  <2>1. ReachedCounts(d, p) \in Seq(Nat)
    BY <1>1, <1>2
  <2> QED BY <1>4, <2>1
<1> QED BY <1>3, <1>5 DEF N

\* The records of the funnel charge the losses of all transitions.
LEMMA FunnelCharges ==
  ASSUME NEW b \in [FunnelStages -> Nat], NEW i \in [FunnelStages -> Nat]
  PROVE  FunnelEvidence(b, i) \in Seq(Records) /\ Charged(FunnelEvidence(b, i)) = FunnelLoss(b, i)
<1> DEFINE E(s) == StageEvidence(b, i, s)
           L(s) == EstimatedLost(b, i, s)
           stable == Raised(AnomalousStages(b, i) = {}, "FUNNEL_BASELINE_STABLE")
<1>1. \A s \in FunnelStages, e \in Seq(Records) :
        e \o E(s) \in Seq(Records) /\ Charged(e \o E(s)) = Charged(e) + L(s)
  BY StageAdds
<1>2. \A s \in FunnelStages : <<>> \o E(s) = E(s)
  BY DEF StageEvidence
<1>3. <<>> \in Seq(Records) /\ Charged(<<>>) = 0
  <2> DEFINE f == [n \in DOMAIN <<>> |-> <<>>[n].loss]
  <2>1. ChargedCodes(<<>>) = {}
    BY DEF ChargedCodes
  <2>2. Charged(<<>>) = SumFunctionOnSet(f, {})
    BY <2>1 DEF Charged
  <2> HIDE DEF f
  <2> QED BY <2>2, SumEmpty
<1>4. stable \in Seq(Records) /\ \A n \in DOMAIN stable : stable[n].type # Degraded
  <2>1. "FUNNEL_BASELINE_STABLE" \in EvidenceTypes /\ "FUNNEL_BASELINE_STABLE" # Degraded
    BY DEF EvidenceTypes, Negative, Degraded
  <2> QED BY <2>1, RaisedOther
<1>5. \A e \in Seq(Records) : e \o stable \in Seq(Records) /\ Charged(e \o stable) = Charged(e)
  BY <1>4, OthersAdd
<1>6. FunnelEvidence(b, i) = E(1) \o E(2) \o E(3) \o E(4) \o E(5) \o E(6) \o E(7) \o E(8) \o E(9)
                               \o stable
  BY DEF FunnelEvidence
<1>7. FunnelLoss(b, i) = L(1) + L(2) + L(3) + L(4) + L(5) + L(6) + L(7) + L(8) + L(9)
  BY DEF FunnelLoss
<1>8. \A s \in FunnelStages : s \in 1 .. 9
  BY DEF FunnelStages
<1> HIDE DEF E, L, stable
<1>9. E(1) \in Seq(Records) /\ Charged(E(1)) = 0 + L(1)
  <2>1. 1 \in FunnelStages
    BY DEF FunnelStages
  <2>2. <<>> \o E(1) \in Seq(Records) /\ Charged(<<>> \o E(1)) = Charged(<<>>) + L(1)
    BY <1>1, <1>3, <2>1
  <2>3. <<>> \o E(1) = E(1)
    BY <1>2, <2>1
  <2> QED BY <1>3, <2>2, <2>3
<1> DEFINE e2 == E(1) \o E(2)
           e3 == e2 \o E(3)
           e4 == e3 \o E(4)
           e5 == e4 \o E(5)
           e6 == e5 \o E(6)
           e7 == e6 \o E(7)
           e8 == e7 \o E(8)
           e9 == e8 \o E(9)
<1>10. e2 \in Seq(Records) /\ Charged(e2) = Charged(E(1)) + L(2)
  BY <1>1, <1>9 DEF FunnelStages
<1> HIDE DEF e2
<1>11. e3 \in Seq(Records) /\ Charged(e3) = Charged(e2) + L(3)
  BY <1>1, <1>10 DEF FunnelStages
<1> HIDE DEF e3
<1>12. e4 \in Seq(Records) /\ Charged(e4) = Charged(e3) + L(4)
  BY <1>1, <1>11 DEF FunnelStages
<1> HIDE DEF e4
<1>13. e5 \in Seq(Records) /\ Charged(e5) = Charged(e4) + L(5)
  BY <1>1, <1>12 DEF FunnelStages
<1> HIDE DEF e5
<1>14. e6 \in Seq(Records) /\ Charged(e6) = Charged(e5) + L(6)
  BY <1>1, <1>13 DEF FunnelStages
<1> HIDE DEF e6
<1>15. e7 \in Seq(Records) /\ Charged(e7) = Charged(e6) + L(7)
  BY <1>1, <1>14 DEF FunnelStages
<1> HIDE DEF e7
<1>16. e8 \in Seq(Records) /\ Charged(e8) = Charged(e7) + L(8)
  BY <1>1, <1>15 DEF FunnelStages
<1> HIDE DEF e8
<1>17. e9 \in Seq(Records) /\ Charged(e9) = Charged(e8) + L(9)
  BY <1>1, <1>16 DEF FunnelStages
<1>18. FunnelEvidence(b, i) = e9 \o stable
  BY <1>6 DEF e2, e3, e4, e5, e6, e7, e8
<1> HIDE DEF e9
<1>19. FunnelEvidence(b, i) \in Seq(Records) /\ Charged(FunnelEvidence(b, i)) = Charged(e9)
  BY <1>5, <1>17, <1>18
<1>20. Charged(e9) = 0 + L(1) + L(2) + L(3) + L(4) + L(5) + L(6) + L(7) + L(8) + L(9)
  BY <1>9, <1>10, <1>11, <1>12, <1>13, <1>14, <1>15, <1>16, <1>17
<1>21. Charged(e9) \in Nat /\ L(1) \in Int
  <2>1. Charged(E(1)) \in Nat
    BY <1>9, ChargedNat
  <2>2. L(1) = 0
    BY DEF L, EstimatedLost, IsAnomalous, HasStepRates
  <2> QED BY <1>17, <2>2, ChargedNat
<1> QED BY <1>7, <1>19, <1>20, <1>21

\* The evidence of a data set charges what the funnel of its counts does.
LEMMA ToolsCharge ==
  ASSUME NEW d, IsDataset(d)
  PROVE  /\ ToolEvidence(d) \in Seq(Records)
         /\ TotalLost(BuildContext(d))
              = FunnelLoss(ReachedCounts(d, "baseline"), ReachedCounts(d, "incident"))
<1> DEFINE b == ReachedCounts(d, "baseline")
           i == ReachedCounts(d, "incident")
           gaps     == Raised(GapShifted(d), "BENEFIT_GAP_FRICTION")
           timeouts == Raised(TimeoutsSeen(d), "CHANNEL_TIMEOUT")
           cancels  == Raised(CancelsRose(d), "CANCEL_REORDER_FLOW")
           configs  == ConfigEvidence(d)
           channels == BreakdownEvidence(d, "channel")
           methods  == BreakdownEvidence(d, "method")
           rows     == IF AnomalousStages(b, i) = {} THEN <<>> ELSE channels \o methods
           Other(t) == t \in Seq(Records) /\ \A n \in DOMAIN t : t[n].type # Degraded
<1>1. b \in [FunnelStages -> Nat] /\ i \in [FunnelStages -> Nat]
  BY CountsOf DEF Periods
<1>2. Other(gaps) /\ Other(timeouts) /\ Other(cancels)
  <2>1. /\ "BENEFIT_GAP_FRICTION" \in EvidenceTypes /\ "BENEFIT_GAP_FRICTION" # Degraded
        /\ "CHANNEL_TIMEOUT" \in EvidenceTypes /\ "CHANNEL_TIMEOUT" # Degraded
        /\ "CANCEL_REORDER_FLOW" \in EvidenceTypes /\ "CANCEL_REORDER_FLOW" # Degraded
    BY DEF EvidenceTypes, Observational, Degraded
  <2> QED BY <2>1, RaisedOther
<1>3. Other(configs) /\ Other(channels) /\ Other(methods)
  BY ConfigOther, BreakdownOther
<1>4. Other(rows)
  <2>1. ASSUME NEW s, Other(s), NEW t, Other(t) PROVE Other(s \o t)
    <3>1. s \o t \in Seq(Records) /\ Len(s) \in Nat /\ DOMAIN s = 1 .. Len(s)
      BY <2>1
    <3>2. ASSUME NEW n \in DOMAIN (s \o t)
          PROVE  \/ n \in DOMAIN s /\ (s \o t)[n] = s[n]
                 \/ n - Len(s) \in DOMAIN t /\ (s \o t)[n] = t[n - Len(s)]
      BY <2>1
    <3> QED BY <2>1, <3>1, <3>2
  <2>2. Other(channels \o methods)
    BY <1>3, <2>1
  <2>3. Other(<<>>)
    OBVIOUS
  <2> HIDE DEF Other, channels, methods
  <2> QED BY <2>2, <2>3
<1>5. ToolEvidence(d) = FunnelEvidence(b, i) \o gaps \o timeouts \o cancels \o configs \o rows
  BY DEF ToolEvidence
<1>6. ASSUME NEW e \in Seq(Records), NEW t, Other(t)
      PROVE  e \o t \in Seq(Records) /\ Charged(e \o t) = Charged(e)
  BY <1>6, OthersAdd
<1>7. FunnelEvidence(b, i) \in Seq(Records) /\ Charged(FunnelEvidence(b, i)) = FunnelLoss(b, i)
  BY <1>1, FunnelCharges
<1> DEFINE funnel == FunnelEvidence(b, i)
           e1 == funnel \o gaps
           e2 == e1 \o timeouts
           e3 == e2 \o cancels
           e4 == e3 \o configs
<1> HIDE DEF Other, funnel, gaps, timeouts, cancels, configs, rows, b, i
<1>8. e1 \in Seq(Records) /\ Charged(e1) = Charged(funnel)
  BY <1>2, <1>6, <1>7 DEF funnel
<1> HIDE DEF e1
<1>9. e2 \in Seq(Records) /\ Charged(e2) = Charged(e1)
  BY <1>2, <1>6, <1>8
<1> HIDE DEF e2
<1>10. e3 \in Seq(Records) /\ Charged(e3) = Charged(e2)
  BY <1>2, <1>6, <1>9
<1> HIDE DEF e3
<1>11. e4 \in Seq(Records) /\ Charged(e4) = Charged(e3)
  BY <1>3, <1>6, <1>10
<1> HIDE DEF e4
<1>12. e4 \o rows \in Seq(Records) /\ Charged(e4 \o rows) = Charged(e4)
  BY <1>4, <1>6, <1>11
<1>13. ToolEvidence(d) = e4 \o rows
  BY <1>5 DEF funnel, e1, e2, e3, e4
<1>14. Charged(ToolEvidence(d)) = FunnelLoss(b, i)
  BY <1>7, <1>8, <1>9, <1>10, <1>11, <1>12, <1>13 DEF funnel
<1>15. TotalLost(BuildContext(d)) = Charged(ToolEvidence(d))
  BY DEF TotalLost, LossIn, CodesOf, BuildContext, Charged, ChargedCodes, Degraded
<1> QED BY <1>12, <1>13, <1>14, <1>15 DEF b, i

-----------------------------------------------------------------------------
(* Withheld stages.                                                        *)

\* There are intents in either period, and each came to the first stage.
LEMMA PeriodsAreInhabited ==
  ASSUME NEW d, IsDataset(d), NEW p \in Periods
  PROVE  DOMAIN d[p] # {}
<1>1. /\ Size(d[p]) = SumFunctionOnSet(d[p], {x \in DOMAIN d[p] : TRUE})
      /\ Size(d[p]) > 0
  BY DEF Size, Count, IsDataset, Periods
<1>2. ASSUME DOMAIN d[p] = {} PROVE FALSE
  <2>1. {x \in DOMAIN d[p] : TRUE} = {}
    BY <1>2
  <2> QED BY <1>1, <2>1, SumEmpty
<1> QED BY <1>2

\* Whoever has an intent confirmed it, withheld stages or not: the funnel
\* starts with everybody.
LEMMA EverybodyStarts ==
  ASSUME NEW d, IsDataset(d), NEW p \in Periods, NEW x \in DOMAIN d[p]
  PROVE  /\ x.walked \in FunnelStages /\ Reached(x) \in 1 .. x.walked
         /\ Reached(x) \in FunnelStages
         /\ Confirmed \in Progressed(x, DropStages(d.kind, p))
<1>1. x.walked \in FunnelStages /\ x.cancelled \in BOOLEAN /\ x.reordered \in BOOLEAN
      /\ x.timedOut \in BOOLEAN
  BY Drawn DEF Shapes
<1>2. Reached(x) \in 1 .. x.walked
  BY <1>1, LostMeansKeptFromCompleting
<1>3. Reached(x) \in FunnelStages /\ Confirmed \in 1 .. Reached(x)
  BY <1>1, <1>2 DEF Confirmed, FunnelStages
<1>4. Confirmed \notin DropStages(d.kind, p)
  BY DEF DropStages, Confirmed, Authenticated, ChannelSucceeded
<1> QED BY <1>1, <1>2, <1>3, <1>4 DEF Progressed

\* Two stages withheld in the incident alone are found missing, whoever else
\* reached them in the baseline.
LEMMA GapsAreMissing ==
  ASSUME NEW d, IsDataset(d), d.kind = "data_gap"
  PROVE  BuildContext(d).missing
<1>1. "incident" \in Periods
  BY DEF Periods
<1>2. PICK x \in DOMAIN d["incident"] : TRUE
  BY <1>1, PeriodsAreInhabited
<1>3. Confirmed \in Progressed(x, DropStages(d.kind, "incident"))
  BY <1>1, EverybodyStarts
<1>4. Confirmed \in Present(d, "incident")
  BY <1>3 DEF Present, Confirmed, FunnelStages
<1>5. Authenticated \notin Present(d, "incident") /\ Authenticated \in FunnelStages
  BY DEF Present, Progressed, DropStages, Authenticated, FunnelStages
<1>6. MissingStages(d) = {"stages"}
  BY <1>1, <1>4, <1>5 DEF MissingStages
<1> QED BY <1>6 DEF Warnings, BuildContext

\* Where nothing is withheld, the counts are those of a funnel.
LEMMA CountsAreFunnels ==
  ASSUME NEW d, IsDataset(d), d.kind # "data_gap", NEW p \in Periods
  PROVE  IsFunnel(ReachedCounts(d, p))
<1> DEFINE At(s) == {x \in DOMAIN d[p] : s \in Progressed(x, DropStages(d.kind, p))}
           n == ReachedCounts(d, p)
<1>1. n \in [FunnelStages -> Nat]
      /\ \A s \in FunnelStages : n[s] = SumFunctionOnSet(d[p], At(s))
  BY CountsOf
<1>2. ASSUME NEW s \in 2 .. 9 PROVE n[s] <= n[s - 1]
  <2>1. DropStages(d.kind, p) = {}
    BY DEF DropStages
  <2>2. At(s) \in SUBSET At(s - 1)
    <3>1. ASSUME NEW x \in DOMAIN d[p], s \in Progressed(x, {}) PROVE s - 1 \in Progressed(x, {})
      <4>1. Reached(x) \in FunnelStages
        BY EverybodyStarts
      <4> QED BY <3>1, <4>1 DEF Progressed, FunnelStages
    <3> QED BY <2>1, <3>1
  <2>3. At(s - 1) \in SUBSET DOMAIN d[p]
    OBVIOUS
  <2>4. s \in FunnelStages /\ s - 1 \in FunnelStages
    BY DEF FunnelStages
  <2> HIDE DEF At, n
  <2>5. SumFunctionOnSet(d[p], At(s)) <= SumFunctionOnSet(d[p], At(s - 1))
    BY <2>2, <2>3, PartCounts
  <2> QED BY <1>1, <2>4, <2>5
<1> QED BY <1>1, <1>2 DEF IsFunnel

-----------------------------------------------------------------------------
(* The faults alone.                                                       *)

\* A whole number of b is not rounded.
LEMMA RoundExact ==
  ASSUME NEW b \in Nat \ {0}, NEW k \in Nat
  PROVE  Round(k * b, b) = k
<1> DEFINE a == k * b
           q == a \div b
           r == a % b
<1>1. a \in Nat
  OBVIOUS
<1>2. q \in Nat /\ r \in 0 .. b - 1 /\ a = b * q + r
  BY <1>1, Division
<1>3. a = k * b
  OBVIOUS
<1>4. Round(k * b, b) = IF 2 * r < b \/ (2 * r = b /\ q % 2 = 0) THEN q ELSE q + 1
  BY DEF Round
<1> HIDE DEF a, q, r
<1>5. CASE q < k
  <2>1. b * (q + 1) <= b * k
    BY <1>2, <1>5
  <2>2. b * (q + 1) = b * q + b /\ b * k = k * b /\ b * q \in Nat
    BY <1>2
  <2> QED BY <1>2, <1>3, <2>1, <2>2
<1>6. CASE q > k
  <2>1. b * q >= b * (k + 1)
    BY <1>2, <1>6
  <2>2. b * (k + 1) = k * b + b /\ b * q \in Nat /\ k * b \in Nat
    BY <1>2
  <2> QED BY <1>2, <1>3, <2>1, <2>2
<1>7. CASE q = k
  <2>1. b * q = k * b /\ k * b \in Nat
    BY <1>7
  <2>2. r = 0
    BY <1>2, <1>3, <2>1
  <2> QED BY <1>4, <1>7, <2>2
<1> QED BY <1>2, <1>5, <1>6, <1>7

StoppedByFriction(x) == x.cancelled /\ ~x.reordered

\* How far an intent that would have completed came.
LEMMA AloneReached ==
  ASSUME NEW d, IsDataset(d), d.kind # "data_gap", NEW p \in Periods, NEW x \in DOMAIN d[p],
         WouldHaveCompleted(x), NEW s \in FunnelStages
  PROVE  s \in Progressed(x, DropStages(d.kind, p)) <=>
           \/ s <= 4
           \/ s <= 6 /\ ~StoppedByFriction(x)
           \/ ~FaultRemovedCompletion(x)
<1>1. x.walked \in FunnelStages /\ x.cancelled \in BOOLEAN /\ x.reordered \in BOOLEAN
      /\ x.timedOut \in BOOLEAN
  BY Drawn DEF Shapes
<1>2. DropStages(d.kind, p) = {}
  BY DEF DropStages
<1>3. s \in Progressed(x, {}) <=> s <= Reached(x)
  <2>1. Reached(x) \in FunnelStages
    BY EverybodyStarts
  <2> QED BY <2>1 DEF Progressed, FunnelStages
<1> QED BY <1>1, <1>2, <1>3
        DEF Reached, WouldHaveCompleted, FaultRemovedCompletion, StoppedByFriction, FunnelStages,
            Completed, MethodSelected, Authenticated, ChannelSucceeded

\* The intents of the incident that an unrepaired cancellation stopped.
Stopped(d) == SumFunctionOnSet(d["incident"], {x \in DOMAIN d["incident"] : StoppedByFriction(x)})

EveryoneWould(d) == \A p \in Periods : \A x \in DOMAIN d[p] : WouldHaveCompleted(x)

\* The counts are those of three steps: all, all but the stopped, all but the lost.
LEMMA AloneCounts ==
  ASSUME NEW d, IsDataset(d), d.kind # "data_gap", EveryoneWould(d)
  PROVE  LET N == Size(d["incident"])
             C == Stopped(d)
             L == ExpectedLostIntents(d)
             b == ReachedCounts(d, "baseline")
             i == ReachedCounts(d, "incident")
         IN  /\ N \in Nat /\ N > 0 /\ C \in Nat /\ L \in Nat /\ C <= L /\ L <= N
             /\ \A s \in FunnelStages : b[s] = N
             /\ \A s \in FunnelStages :
                  i[s] = IF s <= 4 THEN N ELSE IF s <= 6 THEN N - C ELSE N - L
             /\ d.kind \notin FrictionKinds => C = 0
             /\ d.kind \notin TimeoutKinds => L = C
             /\ L > C => TimeoutsSeen(d)
             /\ d.kind \notin TimeoutKinds => ~TimeoutsSeen(d)
<1> DEFINE all  == DOMAIN d["incident"]
           base == DOMAIN d["baseline"]
           stop == {x \in all : StoppedByFriction(x)}
           lost == {x \in all : FaultRemovedCompletion(x)}
           Sum(S) == SumFunctionOnSet(d["incident"], S)
           N == Size(d["incident"])
           At(p, s) == {x \in DOMAIN d[p] : s \in Progressed(x, DropStages(d.kind, p))}
           b == ReachedCounts(d, "baseline")
           i == ReachedCounts(d, "incident")
<1>0. "incident" \in Periods /\ "baseline" \in Periods
  BY DEF Periods
<1>1. /\ N = Sum(all) /\ N = SumFunctionOnSet(d["baseline"], base) /\ N > 0
  <2>1. {x \in all : TRUE} = all /\ {x \in base : TRUE} = base
    OBVIOUS
  <2>2. /\ Size(d["incident"]) = Sum(all)
        /\ Size(d["baseline"]) = SumFunctionOnSet(d["baseline"], base)
    BY <2>1 DEF Size, Count
  <2>3. Size(d.baseline) = Size(d.incident) /\ Size(d.baseline) > 0
    BY DEF IsDataset
  <2> QED BY <2>2, <2>3
<1>2. /\ Stopped(d) = Sum(stop)
      /\ ExpectedLostIntents(d) = Sum(lost)
  BY DEF Stopped, ExpectedLostIntents, Count
<1>3. \A x \in all : WouldHaveCompleted(x) /\ x.timedOut \in BOOLEAN
  BY <1>0, Drawn DEF EveryoneWould, Shapes
<1>4. \A x \in all : FaultRemovedCompletion(x) <=> x.timedOut \/ StoppedByFriction(x)
  BY <1>3 DEF FaultRemovedCompletion, StoppedByFriction
<1>5. stop \in SUBSET lost /\ lost \in SUBSET all /\ stop \in SUBSET all /\ all \in SUBSET all
  BY <1>4
<1>6. /\ Sum(all) \in Nat /\ Sum(lost) \in Nat /\ Sum(stop) \in Nat
      /\ Sum(stop) <= Sum(lost) /\ Sum(lost) <= Sum(all)
  <2> HIDE DEF all, lost, stop
  <2>1. \A S \in SUBSET all :
          /\ SumFunctionOnSet(d["incident"], S) \in Nat
          /\ \A T \in SUBSET S : SumFunctionOnSet(d["incident"], T)
                                   <= SumFunctionOnSet(d["incident"], S)
    BY <1>0, PartCounts DEF all
  <2> QED BY <1>5, <2>1
<1>7. ASSUME NEW S \in SUBSET all PROVE Sum(all \ S) = Sum(all) - Sum(S)
  <2>1. \A U, V \in SUBSET all : U \cap V = {} => Sum(U \cup V) = Sum(U) + Sum(V)
    BY <1>0, PartsAdd
  <2>2. (all \ S) \cup S = all /\ (all \ S) \cap S = {}
        /\ all \ S \in SUBSET all
    OBVIOUS
  <2>3. Sum(all \ S) \in Nat /\ Sum(S) \in Nat
    BY <1>0, <2>2, PartCounts
  <2> HIDE DEF Sum, all
  <2>4. Sum((all \ S) \cup S) = Sum(all \ S) + Sum(S)
    BY <2>1, <2>2
  <2>5. Sum((all \ S) \cup S) = Sum(all)
    BY <2>2, Zenon
  <2>6. Sum(all) = Sum(all \ S) + Sum(S)
    BY <2>4, <2>5
  <2> DEFINE u == Sum(all \ S)
             v == Sum(S)
             w == Sum(all)
  <2>7. u \in Nat /\ v \in Nat /\ w = u + v
    BY <2>3, <2>6
  <2> HIDE DEF u, v, w
  <2>8. u = w - v
    BY <2>7
  <2> QED BY <2>8 DEF u, v, w
<1>8. ASSUME NEW s \in FunnelStages PROVE b[s] = N
  <2>1. b[s] = SumFunctionOnSet(d["baseline"], At("baseline", s))
    BY <1>0, CountsOf
  <2>2. ASSUME NEW x \in base PROVE s \in Progressed(x, DropStages(d.kind, "baseline"))
    <3>1. ~FaultRemovedCompletion(x)
      BY <1>0, Drawn DEF FaultRemovedCompletion
    <3>2. WouldHaveCompleted(x)
      BY <1>0 DEF EveryoneWould
    <3> QED BY <1>0, <3>1, <3>2, AloneReached
  <2>3. At("baseline", s) = base
    BY <2>2
  <2> QED BY <1>1, <2>1, <2>3
<1>9. ASSUME NEW s \in FunnelStages
      PROVE  At("incident", s) = IF s <= 4 THEN all ELSE IF s <= 6 THEN all \ stop ELSE all \ lost
  <2>1. \A x \in all : s \in Progressed(x, DropStages(d.kind, "incident")) <=>
                          \/ s <= 4
                          \/ s <= 6 /\ ~StoppedByFriction(x)
                          \/ ~FaultRemovedCompletion(x)
    BY <1>0, <1>3, AloneReached
  <2>2. \A x \in all : StoppedByFriction(x) => FaultRemovedCompletion(x)
    BY <1>4
  <2>3. CASE s <= 4
    BY <2>1, <2>3
  <2>4. CASE ~(s <= 4) /\ s <= 6
    BY <2>1, <2>2, <2>4
  <2>5. CASE ~(s <= 4) /\ ~(s <= 6)
    BY <2>1, <2>5
  <2> QED BY <2>3, <2>4, <2>5
<1>10. ASSUME NEW s \in FunnelStages
       PROVE  i[s] = IF s <= 4 THEN N ELSE IF s <= 6 THEN N - Stopped(d)
                     ELSE N - ExpectedLostIntents(d)
  <2>1. i[s] = Sum(At("incident", s))
    BY <1>0, CountsOf
  <2>2. Sum(all \ stop) = Sum(all) - Sum(stop) /\ Sum(all \ lost) = Sum(all) - Sum(lost)
    BY <1>5, <1>7
  <2> HIDE DEF i, N, Sum, all, stop, lost, At
  <2> QED BY <1>1, <1>2, <1>9, <2>1, <2>2
<1>11. ASSUME d.kind \notin FrictionKinds PROVE Stopped(d) = 0
  <2>1. stop = {}
    BY <1>0, <1>11, Drawn DEF StoppedByFriction
  <2> QED BY <1>2, <2>1, SumEmpty
<1>12. ASSUME d.kind \notin TimeoutKinds PROVE ~TimeoutsSeen(d)
  BY <1>0, <1>12, Drawn DEF TimeoutsSeen
<1>13. ASSUME ~TimeoutsSeen(d) PROVE ExpectedLostIntents(d) = Stopped(d)
  <2>1. lost = stop
    BY <1>4, <1>13 DEF TimeoutsSeen
  <2> QED BY <1>2, <2>1
<1> HIDE DEF N, Sum, i, b, all, lost, stop
<1>14. N \in Nat /\ Stopped(d) \in Nat /\ ExpectedLostIntents(d) \in Nat
       /\ Stopped(d) <= ExpectedLostIntents(d) /\ ExpectedLostIntents(d) <= N
  BY <1>1, <1>2, <1>6
<1>15. ExpectedLostIntents(d) > Stopped(d) => TimeoutsSeen(d)
  BY <1>13, <1>14
<1> QED BY <1>1, <1>8, <1>10, <1>11, <1>12, <1>13, <1>14, <1>15 DEF N, i, b

\* With such counts, only the stage after the friction and that of the channel can
\* be flagged, and a flagged one is charged what stopped before it.
LEMMA AloneFunnel ==
  ASSUME NEW d, IsDataset(d), d.kind # "data_gap", EveryoneWould(d)
  PROVE  LET C == Stopped(d)
             L == ExpectedLostIntents(d)
             b == ReachedCounts(d, "baseline")
             i == ReachedCounts(d, "incident")
         IN  /\ AnomalousStages(b, i) \subseteq {Initiated, ChannelSucceeded}
             /\ Initiated \in AnomalousStages(b, i) => C > 0
             /\ ChannelSucceeded \in AnomalousStages(b, i) => L > C
             /\ FunnelLoss(b, i) =
                  (IF Initiated \in AnomalousStages(b, i) THEN C ELSE 0)
                    + (IF ChannelSucceeded \in AnomalousStages(b, i) THEN L - C ELSE 0)
<1> DEFINE N == Size(d["incident"])
           C == Stopped(d)
           L == ExpectedLostIntents(d)
           b == ReachedCounts(d, "baseline")
           i == ReachedCounts(d, "incident")
<1>0. /\ N \in Nat /\ N > 0 /\ C \in Nat /\ L \in Nat /\ C <= L /\ L <= N
      /\ \A s \in FunnelStages : b[s] = N
      /\ \A s \in FunnelStages : i[s] = IF s <= 4 THEN N ELSE IF s <= 6 THEN N - C ELSE N - L
  BY AloneCounts
<1> HIDE DEF N, C, L, b, i
<1>1. /\ i[1] = N /\ i[2] = N /\ i[3] = N /\ i[4] = N /\ i[5] = N - C /\ i[6] = N - C
      /\ i[7] = N - L /\ i[8] = N - L /\ i[9] = N - L
  BY <1>0 DEF FunnelStages
<1>2. /\ b[1] = N /\ b[2] = N /\ b[3] = N /\ b[4] = N /\ b[5] = N /\ b[6] = N
      /\ b[7] = N /\ b[8] = N /\ b[9] = N
  BY <1>0 DEF FunnelStages
<1>3. /\ N - C \in Nat /\ N - L \in Nat /\ L - C \in Nat
      /\ N * N \in Nat /\ N * (N - C) \in Nat /\ N * (N - L) \in Nat
      /\ (N - C) * N = N * (N - C) /\ (N - L) * N = N * (N - L)
  BY <1>0
<1>4. /\ Shortfall(b, i, 2) = 0 /\ Shortfall(b, i, 3) = 0 /\ Shortfall(b, i, 4) = 0
      /\ Shortfall(b, i, 6) = 0 /\ Shortfall(b, i, 8) = 0 /\ Shortfall(b, i, 9) = 0
  <2>1. /\ 2 - 1 = 1 /\ 3 - 1 = 2 /\ 4 - 1 = 3 /\ 6 - 1 = 5 /\ 8 - 1 = 7 /\ 9 - 1 = 8
    OBVIOUS
  <2> QED BY <1>1, <1>2, <1>3, <2>1 DEF Shortfall
<1>5. Shortfall(b, i, 5) = C * N /\ Shortfall(b, i, 7) = (L - C) * N
  <2>1. /\ 5 - 1 = 4 /\ 7 - 1 = 6
    OBVIOUS
  <2>2. N * N - (N - C) * N = C * N
    BY <1>0
  <2>3. N * (N - C) - (N - L) * N = (L - C) * N
    BY <1>0
  <2> QED BY <1>1, <1>2, <2>1, <2>2, <2>3 DEF Shortfall
<1>6. ASSUME NEW s \in {1, 2, 3, 4, 6, 8, 9}
      PROVE  ~IsAnomalous(b, i, s) /\ EstimatedLost(b, i, s) = 0
  <2>1. CASE s = 1
    BY <2>1 DEF IsAnomalous, HasStepRates, EstimatedLost
  <2>2. CASE s # 1
    <3>1. Shortfall(b, i, s) = 0
      BY <1>4, <2>2
    <3>2. b[s - 1] * i[s - 1] \in Nat
      <4>1. b[s - 1] = N
        BY <1>0, <2>2 DEF FunnelStages
      <4>2. i[s - 1] \in Nat
        BY <1>0, <1>1, <1>3, <2>2
      <4> QED BY <1>0, <4>1, <4>2
    <3>3. ~IsAnomalous(b, i, s)
      <4> DEFINE product == b[s - 1] * i[s - 1]
      <4>1. product \in Nat
        BY <3>2
      <4>2. IsAnomalous(b, i, s) => 20 * 0 > product \/ 20 * 0 < -product
        BY <3>1 DEF IsAnomalous
      <4> HIDE DEF product
      <4> QED BY <1>0, <4>1, <4>2
    <3> QED BY <3>3 DEF EstimatedLost
  <2> QED BY <2>1, <2>2
<1>7. ASSUME NEW s \in {5, 7}, NEW k \in Nat, Shortfall(b, i, s) = k * N
      PROVE  /\ IsAnomalous(b, i, s) => k > 0
             /\ EstimatedLost(b, i, s) = IF IsAnomalous(b, i, s) THEN k ELSE 0
  <2>1. b[s - 1] = N /\ i[s - 1] \in Nat
    BY <1>0, <1>1, <1>2, <1>3
  <2>2. IsAnomalous(b, i, s) => k > 0
    <3> SUFFICES ASSUME IsAnomalous(b, i, s), k = 0 PROVE FALSE
      OBVIOUS
    <3> DEFINE product == b[s - 1] * i[s - 1]
    <3>1. product \in Nat
      BY <1>0, <2>1
    <3>2. Shortfall(b, i, s) = 0
      BY <1>0, <1>7
    <3>3. 20 * 0 > product \/ 20 * 0 < -product
      BY <3>2 DEF IsAnomalous
    <3> HIDE DEF product
    <3> QED BY <3>1, <3>3
  <2>3. k > 0 => Shortfall(b, i, s) > 0
    BY <1>0, <1>7
  <2>4. Round(k * N, N) = k
    <3>1. N \in Nat \ {0}
      BY <1>0
    <3> QED BY <3>1, RoundExact
  <2> QED BY <1>7, <2>1, <2>2, <2>3, <2>4 DEF EstimatedLost
<1>8. /\ IsAnomalous(b, i, 5) => C > 0
      /\ EstimatedLost(b, i, 5) = IF IsAnomalous(b, i, 5) THEN C ELSE 0
  BY <1>0, <1>5, <1>7
<1>9. /\ IsAnomalous(b, i, 7) => L - C > 0
      /\ EstimatedLost(b, i, 7) = IF IsAnomalous(b, i, 7) THEN L - C ELSE 0
  BY <1>3, <1>5, <1>7
<1>10. /\ 5 \in AnomalousStages(b, i) <=> IsAnomalous(b, i, 5)
       /\ 7 \in AnomalousStages(b, i) <=> IsAnomalous(b, i, 7)
  BY DEF AnomalousStages, FunnelStages
<1>11. AnomalousStages(b, i) \subseteq {5, 7}
  <2>1. ASSUME NEW s \in FunnelStages, s \notin {5, 7} PROVE ~IsAnomalous(b, i, s)
    <3>1. s \in {1, 2, 3, 4, 6, 8, 9}
      BY <2>1 DEF FunnelStages
    <3> QED BY <1>6, <3>1
  <2> QED BY <2>1 DEF AnomalousStages
<1>12. FunnelLoss(b, i) = EstimatedLost(b, i, 5) + EstimatedLost(b, i, 7)
  <2>1. /\ EstimatedLost(b, i, 1) = 0 /\ EstimatedLost(b, i, 2) = 0 /\ EstimatedLost(b, i, 3) = 0
        /\ EstimatedLost(b, i, 4) = 0 /\ EstimatedLost(b, i, 6) = 0 /\ EstimatedLost(b, i, 8) = 0
        /\ EstimatedLost(b, i, 9) = 0
    BY <1>6
  <2>2. EstimatedLost(b, i, 5) \in Int /\ EstimatedLost(b, i, 7) \in Int
    BY <1>0, <1>3, <1>8, <1>9
  <2> QED BY <2>1, <2>2 DEF FunnelLoss
<1>13. L - C > 0 => L > C
  BY <1>0
<1> QED BY <1>8, <1>9, <1>10, <1>11, <1>12, <1>13 DEF Initiated, ChannelSucceeded, C, L, b, i

\* The gaps of a period, added up.
LEMMA WeightsOf ==
  ASSUME NEW d, IsDataset(d), NEW p \in Periods, NEW f, NEW k \in Int,
         \A x \in DOMAIN d[p] : f[x] = d[p][x] * x.gap + k * d[p][x],
         DOMAIN f = DOMAIN d[p]
  PROVE  /\ Weighted(d[p], LAMBDA x : x.gap) \in Int
         /\ SumFunction(f) = Weighted(d[p], LAMBDA x : x.gap) + k * Size(d[p])
<1> DEFINE g == [x \in DOMAIN d[p] |-> d[p][x] * x.gap]
           all == DOMAIN d[p]
           bag == d[p]
<1>1. IsFiniteSet(all) /\ \A x \in all : bag[x] \in Int /\ x.gap \in Int
  BY PeriodIsBag, Drawn DEF Shapes
<1>2. \A x \in all : bag[x] * x.gap \in Int
  BY <1>1
<1>3. \A x \in all : g[x] \in Int /\ bag[x] \in Int /\ f[x] = g[x] + k * bag[x]
  BY <1>1, <1>2
<1>4. Weighted(d[p], LAMBDA x : x.gap) = SumFunctionOnSet(g, all)
  BY DEF Weighted, SumFunction
<1>5. Size(d[p]) = SumFunctionOnSet(bag, all)
  <2>1. {x \in all : TRUE} = all
    OBVIOUS
  <2> QED BY <2>1 DEF Size, Count
<1>6. SumFunction(f) = SumFunctionOnSet(f, all)
  BY DEF SumFunction
<1> HIDE DEF g, all, bag
<1>7. SumFunctionOnSet(f, all) = SumFunctionOnSet(g, all) + k * SumFunctionOnSet(bag, all)
  <2>1. IsFiniteSet(all)
    BY <1>1
  <2>2. \A u, v, w : (\A x \in all : u[x] \in Int /\ v[x] \in Int /\ w[x] = u[x] + k * v[x])
          => SumFunctionOnSet(w, all) = SumFunctionOnSet(u, all) + k * SumFunctionOnSet(v, all)
    BY <2>1, SumLinear
  <2> QED BY <1>3, <2>2
<1>8. SumFunctionOnSet(g, all) \in Int
  BY <1>1, <1>3, SumInt
<1> QED BY <1>4, <1>5, <1>6, <1>7, <1>8

\* Where the faults are all that sets the periods apart, the tool sees a shift of
\* the gaps exactly if one was injected.
LEMMA ShiftSeen ==
  ASSUME NEW d, IsDataset(d), FaultsAlone(d)
  PROVE  GapShifted(d) <=> d.kind \in FrictionKinds
<1> DEFINE inc  == d["incident"]
           k    == IF d.kind \in FrictionKinds THEN -GapShift ELSE 0
           f    == [x \in DOMAIN inc |->
                      inc[x] * (IF d.kind \in FrictionKinds THEN x.gap - GapShift ELSE x.gap)]
           gI   == Weighted(d["incident"], LAMBDA x : x.gap)
           gB   == Weighted(d["baseline"], LAMBDA x : x.gap)
           N    == Size(d["incident"])
<1>0. "incident" \in Periods /\ "baseline" \in Periods
  BY DEF Periods
<1>1. k \in Int
  BY DEF GapShift
<1>2. SumFunction(f) = gB
  BY DEF FaultsAlone, Weighted
<1>3. ASSUME NEW x \in DOMAIN inc PROVE f[x] = inc[x] * x.gap + k * inc[x]
  <2>1. inc[x] \in Int /\ x.gap \in Int
    BY <1>0, PeriodIsBag, Drawn DEF Shapes
  <2>2. CASE d.kind \in FrictionKinds
    <3>1. f[x] = inc[x] * (x.gap - 1200) /\ k = -1200
      BY <2>2 DEF GapShift
    <3> QED BY <2>1, <3>1
  <2>3. CASE d.kind \notin FrictionKinds
    <3>1. f[x] = inc[x] * x.gap /\ k = 0
      BY <2>3
    <3> QED BY <2>1, <3>1
  <2> QED BY <2>2, <2>3
<1>4. gI \in Int /\ SumFunction(f) = gI + k * N
  <2>1. DOMAIN f = DOMAIN inc
    OBVIOUS
  <2> HIDE DEF f, k
  <2> QED BY <1>0, <1>1, <1>3, <2>1, WeightsOf
<1>5. N = Size(d["baseline"]) /\ N \in Nat /\ N > 0
  <2>1. Size(d["baseline"]) = Size(d["incident"]) /\ Size(d["baseline"]) > 0
    BY DEF IsDataset
  <2>2. {x \in DOMAIN inc : TRUE} \in SUBSET DOMAIN inc
    OBVIOUS
  <2>3. N \in Nat
    BY <1>0, <2>2, PartCounts DEF Size, Count
  <2> QED BY <2>1, <2>3
<1>6. GapShifted(d) <=> gI * N - gB * N > 100 * N * N
  <2>1. GapShifted(d) <=> gI * Size(d["baseline"]) - gB * Size(d["incident"])
                            > 100 * Size(d["baseline"]) * Size(d["incident"])
    BY DEF GapShifted
  <2> QED BY <1>5, <2>1
<1>7. gB = gI + k * N
  BY <1>2, <1>4
<1>8. k = IF d.kind \in FrictionKinds THEN -1200 ELSE 0
  BY DEF GapShift
<1> HIDE DEF gI, gB, N, k, f
<1>9. N * N \in Nat /\ N * N > 0 /\ 100 * N * N = 100 * (N * N)
  BY <1>5
<1>10. CASE d.kind \in FrictionKinds
  <2>1. gB = gI - 1200 * N
    BY <1>4, <1>5, <1>7, <1>8, <1>10
  <2>2. gI * N - gB * N = 1200 * (N * N)
    BY <1>4, <1>5, <2>1
  <2> QED BY <1>6, <1>9, <1>10, <2>2
<1>11. CASE d.kind \notin FrictionKinds
  <2>1. gB = gI
    BY <1>4, <1>5, <1>7, <1>8, <1>11
  <2>2. gI * N - gB * N = 0
    BY <1>4, <1>5, <2>1
  <2> QED BY <1>6, <1>9, <1>11, <2>2
<1> QED BY <1>10, <1>11

-----------------------------------------------------------------------------
(* The types among the evidence.                                           *)

TypesOf(e) == {e[n].type : n \in DOMAIN e}

\* The types among joined evidence are those of its parts.
LEMMA TypesAdd ==
  ASSUME NEW s \in Seq(Records), NEW t \in Seq(Records)
  PROVE  TypesOf(s \o t) = TypesOf(s) \cup TypesOf(t)
<1> DEFINE u == s \o t
<1>1. /\ DOMAIN s = 1 .. Len(s) /\ DOMAIN t = 1 .. Len(t) /\ Len(s) \in Nat /\ Len(t) \in Nat
      /\ DOMAIN u = 1 .. Len(s) + Len(t)
      /\ \A n \in DOMAIN s : n \in DOMAIN u /\ u[n] = s[n]
      /\ \A n \in DOMAIN t : n + Len(s) \in DOMAIN u /\ u[n + Len(s)] = t[n]
      /\ \A n \in DOMAIN u \ DOMAIN s : n - Len(s) \in DOMAIN t /\ u[n] = t[n - Len(s)]
  OBVIOUS
<1> HIDE DEF u
<1>2. TypesOf(s) \subseteq TypesOf(u)
  BY <1>1 DEF TypesOf
<1>3. TypesOf(t) \subseteq TypesOf(u)
  BY <1>1 DEF TypesOf
<1>4. TypesOf(u) \subseteq TypesOf(s) \cup TypesOf(t)
  <2> SUFFICES ASSUME NEW n \in DOMAIN u PROVE u[n].type \in TypesOf(s) \cup TypesOf(t)
    BY DEF TypesOf
  <2>1. CASE n \in DOMAIN s
    BY <1>1, <2>1 DEF TypesOf
  <2>2. CASE n \notin DOMAIN s
    BY <1>1, <2>2 DEF TypesOf
  <2> QED BY <2>1, <2>2
<1> QED BY <1>2, <1>3, <1>4 DEF u

\* A record raised on a condition adds its type when the condition holds.
LEMMA TypesRaised ==
  ASSUME NEW condition \in BOOLEAN, NEW type
  PROVE  TypesOf(Raised(condition, type)) = IF condition THEN {type} ELSE {}
BY DEF TypesOf, Raised, EvidenceDraft

\* A stage adds DEGRADED when it is flagged, and nothing otherwise.
LEMMA TypesOfStage ==
  ASSUME NEW b, NEW i, NEW s
  PROVE  TypesOf(StageEvidence(b, i, s)) = IF IsAnomalous(b, i, s) THEN {Degraded} ELSE {}
BY DEF TypesOf, StageEvidence, EvidenceDraft, Degraded

\* Breakdowns and config changes raise one type each.
LEMMA TypesOfDrafts ==
  ASSUME NEW d
  PROVE  /\ TypesOf(ConfigEvidence(d)) \subseteq {"CONFIG_CHANGE"}
         /\ \A dim : TypesOf(BreakdownEvidence(d, dim)) \subseteq {"DIMENSION_CONTRIBUTION"}
BY DEF TypesOf, ConfigEvidence, BreakdownEvidence, Drafted, EvidenceDraft

\* The funnel raises a degraded stage or says that it is stable; with no
\* stage flagged it says that and nothing else.
LEMMA FunnelTypes ==
  ASSUME NEW b \in [FunnelStages -> Nat], NEW i \in [FunnelStages -> Nat]
  PROVE  /\ TypesOf(FunnelEvidence(b, i)) \subseteq {Degraded, "FUNNEL_BASELINE_STABLE"}
         /\ AnomalousStages(b, i) = {} =>
              TypesOf(FunnelEvidence(b, i)) = {"FUNNEL_BASELINE_STABLE"}
<1> DEFINE E(s) == StageEvidence(b, i, s)
           stable == Raised(AnomalousStages(b, i) = {}, "FUNNEL_BASELINE_STABLE")
           Fits(e) == /\ e \in Seq(Records) /\ TypesOf(e) \subseteq {Degraded}
                      /\ AnomalousStages(b, i) = {} => TypesOf(e) = {}
<1>1. \A s \in FunnelStages, e \in Seq(Records) : e \o E(s) \in Seq(Records)
  BY StageAdds
<1>2. \A s \in FunnelStages : E(s) \in Seq(Records) /\ Fits(E(s))
  <2> SUFFICES ASSUME NEW s \in FunnelStages PROVE E(s) \in Seq(Records) /\ Fits(E(s))
    OBVIOUS
  <2>1. <<>> \in Seq(Records) /\ <<>> \o E(s) = E(s)
    BY DEF StageEvidence
  <2>2. E(s) \in Seq(Records)
    BY <1>1, <2>1
  <2>3. TypesOf(E(s)) = IF IsAnomalous(b, i, s) THEN {Degraded} ELSE {}
    BY TypesOfStage
  <2>4. AnomalousStages(b, i) = {} => ~IsAnomalous(b, i, s)
    BY DEF AnomalousStages
  <2> QED BY <2>2, <2>3, <2>4
<1>3. \A s \in FunnelStages : \A e : Fits(e) => Fits(e \o E(s))
  <2> SUFFICES ASSUME NEW s \in FunnelStages, NEW e, Fits(e) PROVE Fits(e \o E(s))
    OBVIOUS
  <2>1. e \o E(s) \in Seq(Records)
    BY <1>1
  <2>2. TypesOf(e \o E(s)) = TypesOf(e) \cup TypesOf(E(s))
    BY <1>2, TypesAdd
  <2> QED BY <1>2, <2>1, <2>2
<1>4. stable \in Seq(Records)
      /\ TypesOf(stable) = IF AnomalousStages(b, i) = {} THEN {"FUNNEL_BASELINE_STABLE"} ELSE {}
  <2>1. "FUNNEL_BASELINE_STABLE" \in EvidenceTypes /\ "FUNNEL_BASELINE_STABLE" # Degraded
    BY DEF EvidenceTypes, Negative, Degraded
  <2> QED BY <2>1, RaisedOther, TypesRaised
<1> DEFINE e1 == E(1)
           e2 == e1 \o E(2)
           e3 == e2 \o E(3)
           e4 == e3 \o E(4)
           e5 == e4 \o E(5)
           e6 == e5 \o E(6)
           e7 == e6 \o E(7)
           e8 == e7 \o E(8)
           e9 == e8 \o E(9)
<1> HIDE DEF E, stable, Fits
<1>5. Fits(e1)
  BY <1>2 DEF FunnelStages
<1> HIDE DEF e1
<1>6. Fits(e2)
  BY <1>3, <1>5 DEF FunnelStages
<1> HIDE DEF e2
<1>7. Fits(e3)
  BY <1>3, <1>6 DEF FunnelStages
<1> HIDE DEF e3
<1>8. Fits(e4)
  BY <1>3, <1>7 DEF FunnelStages
<1> HIDE DEF e4
<1>9. Fits(e5)
  BY <1>3, <1>8 DEF FunnelStages
<1> HIDE DEF e5
<1>10. Fits(e6)
  BY <1>3, <1>9 DEF FunnelStages
<1> HIDE DEF e6
<1>11. Fits(e7)
  BY <1>3, <1>10 DEF FunnelStages
<1> HIDE DEF e7
<1>12. Fits(e8)
  BY <1>3, <1>11 DEF FunnelStages
<1> HIDE DEF e8
<1>13. Fits(e9)
  BY <1>3, <1>12 DEF FunnelStages
<1> HIDE DEF e9
<1>14. FunnelEvidence(b, i) = e9 \o stable
  BY DEF FunnelEvidence, e1, e2, e3, e4, e5, e6, e7, e8, e9, E, stable
<1>15. TypesOf(e9 \o stable) = TypesOf(e9) \cup TypesOf(stable)
  BY <1>4, <1>13, TypesAdd DEF Fits
<1> QED BY <1>4, <1>13, <1>14, <1>15 DEF Fits

\* Which types the tools raise, as far as the rules and the score ask.
LEMMA ToolTypes ==
  ASSUME NEW d, IsDataset(d)
  PROVE  LET c == BuildContext(d)
             none == AnomalousStages(ReachedCounts(d, "baseline"), ReachedCounts(d, "incident")) = {}
         IN  /\ "CHANNEL_TIMEOUT" \in TypesIn(c) <=> TimeoutsSeen(d)
             /\ "BENEFIT_GAP_FRICTION" \in TypesIn(c) <=> GapShifted(d)
             /\ none => /\ "FUNNEL_BASELINE_STABLE" \in TypesIn(c)
                        /\ Degraded \notin TypesIn(c)
                        /\ "DIMENSION_CONTRIBUTION" \notin TypesIn(c)
<1> DEFINE b == ReachedCounts(d, "baseline")
           i == ReachedCounts(d, "incident")
           none == AnomalousStages(b, i) = {}
           funnel   == FunnelEvidence(b, i)
           gaps     == Raised(GapShifted(d), "BENEFIT_GAP_FRICTION")
           timeouts == Raised(TimeoutsSeen(d), "CHANNEL_TIMEOUT")
           cancels  == Raised(CancelsRose(d), "CANCEL_REORDER_FLOW")
           configs  == ConfigEvidence(d)
           channels == BreakdownEvidence(d, "channel")
           methods  == BreakdownEvidence(d, "method")
           rows     == IF none THEN <<>> ELSE channels \o methods
<1>1. b \in [FunnelStages -> Nat] /\ i \in [FunnelStages -> Nat]
  BY CountsOf DEF Periods
<1>2. /\ gaps \in Seq(Records) /\ timeouts \in Seq(Records) /\ cancels \in Seq(Records)
      /\ configs \in Seq(Records) /\ channels \in Seq(Records) /\ methods \in Seq(Records)
  <2>1. /\ "BENEFIT_GAP_FRICTION" \in EvidenceTypes /\ "BENEFIT_GAP_FRICTION" # Degraded
        /\ "CHANNEL_TIMEOUT" \in EvidenceTypes /\ "CHANNEL_TIMEOUT" # Degraded
        /\ "CANCEL_REORDER_FLOW" \in EvidenceTypes /\ "CANCEL_REORDER_FLOW" # Degraded
    BY DEF EvidenceTypes, Observational, Degraded
  <2> QED BY <2>1, RaisedOther, ConfigOther, BreakdownOther
<1>3. funnel \in Seq(Records)
  BY <1>1, FunnelCharges
<1>4. /\ TypesOf(gaps) = IF GapShifted(d) THEN {"BENEFIT_GAP_FRICTION"} ELSE {}
      /\ TypesOf(timeouts) = IF TimeoutsSeen(d) THEN {"CHANNEL_TIMEOUT"} ELSE {}
      /\ TypesOf(cancels) \subseteq {"CANCEL_REORDER_FLOW"}
  <2>1. /\ GapShifted(d) \in BOOLEAN /\ TimeoutsSeen(d) \in BOOLEAN /\ CancelsRose(d) \in BOOLEAN
    BY DEF GapShifted, TimeoutsSeen, CancelsRose
  <2>2. TypesOf(cancels) = IF CancelsRose(d) THEN {"CANCEL_REORDER_FLOW"} ELSE {}
    BY <2>1, TypesRaised
  <2> QED BY <2>1, <2>2, TypesRaised
<1>5. /\ TypesOf(funnel) \subseteq {Degraded, "FUNNEL_BASELINE_STABLE"}
      /\ none => TypesOf(funnel) = {"FUNNEL_BASELINE_STABLE"}
  BY <1>1, FunnelTypes
<1>6. TypesOf(configs) \subseteq {"CONFIG_CHANGE"}
  BY TypesOfDrafts
<1>7. /\ rows \in Seq(Records) /\ TypesOf(rows) \subseteq {"DIMENSION_CONTRIBUTION"}
      /\ none => TypesOf(rows) = {}
  <2>1. channels \o methods \in Seq(Records)
    BY <1>2
  <2>2. TypesOf(channels \o methods) = TypesOf(channels) \cup TypesOf(methods)
    BY <1>2, TypesAdd
  <2>3. TypesOf(channels) \subseteq {"DIMENSION_CONTRIBUTION"}
        /\ TypesOf(methods) \subseteq {"DIMENSION_CONTRIBUTION"}
    BY TypesOfDrafts
  <2>4. <<>> \in Seq(Records) /\ TypesOf(<<>>) = {}
    BY DEF TypesOf
  <2> HIDE DEF channels, methods, none
  <2> QED BY <2>1, <2>2, <2>3, <2>4
<1>8. ToolEvidence(d) = funnel \o gaps \o timeouts \o cancels \o configs \o rows
  BY DEF ToolEvidence
<1>9. TypesIn(BuildContext(d)) = TypesOf(ToolEvidence(d))
  BY DEF TypesIn, BuildContext, TypesOf
<1> HIDE DEF funnel, gaps, timeouts, cancels, configs, rows, none
<1>10. TypesOf(ToolEvidence(d)) = TypesOf(funnel) \cup TypesOf(gaps) \cup TypesOf(timeouts)
                                    \cup TypesOf(cancels) \cup TypesOf(configs) \cup TypesOf(rows)
  <2> DEFINE e1 == funnel \o gaps
             e2 == e1 \o timeouts
             e3 == e2 \o cancels
             e4 == e3 \o configs
  <2>1. e1 \in Seq(Records) /\ TypesOf(e1) = TypesOf(funnel) \cup TypesOf(gaps)
    BY <1>2, <1>3, TypesAdd
  <2> HIDE DEF e1
  <2>2. e2 \in Seq(Records) /\ TypesOf(e2) = TypesOf(e1) \cup TypesOf(timeouts)
    BY <1>2, <2>1, TypesAdd
  <2> HIDE DEF e2
  <2>3. e3 \in Seq(Records) /\ TypesOf(e3) = TypesOf(e2) \cup TypesOf(cancels)
    BY <1>2, <2>2, TypesAdd
  <2> HIDE DEF e3
  <2>4. e4 \in Seq(Records) /\ TypesOf(e4) = TypesOf(e3) \cup TypesOf(configs)
    BY <1>2, <2>3, TypesAdd
  <2> HIDE DEF e4
  <2>5. TypesOf(e4 \o rows) = TypesOf(e4) \cup TypesOf(rows)
    BY <1>7, <2>4, TypesAdd
  <2>6. ToolEvidence(d) = e4 \o rows
    BY <1>8 DEF e1, e2, e3, e4
  <2> QED BY <2>1, <2>2, <2>3, <2>4, <2>5, <2>6
<1>11. Degraded = "FUNNEL_STAGE_DEGRADATION"
  BY DEF Degraded
<1>12. "CHANNEL_TIMEOUT" \in TypesIn(BuildContext(d)) <=> TimeoutsSeen(d)
  BY <1>4, <1>5, <1>6, <1>7, <1>9, <1>10, <1>11
<1>13. "BENEFIT_GAP_FRICTION" \in TypesIn(BuildContext(d)) <=> GapShifted(d)
  BY <1>4, <1>5, <1>6, <1>7, <1>9, <1>10, <1>11
<1>14. none => /\ "FUNNEL_BASELINE_STABLE" \in TypesIn(BuildContext(d))
               /\ Degraded \notin TypesIn(BuildContext(d))
               /\ "DIMENSION_CONTRIBUTION" \notin TypesIn(BuildContext(d))
  BY <1>4, <1>5, <1>6, <1>7, <1>9, <1>10, <1>11
<1> QED BY <1>12, <1>13, <1>14 DEF none

-----------------------------------------------------------------------------
(* Composition.                                                            *)

\* A run over a data set is a run of ReportPipeline.
THEOREM DatasetRunsAreRuns == ScenarioSpec => Spec
<1>1. ScenarioInit => Init
  BY DEF ScenarioInit
<1>2. [ScenarioNext]_dataVars => [Next]_vars
  BY DEF ScenarioNext, dataVars
<1> QED BY <1>1, <1>2, PTL DEF ScenarioSpec, Spec

\* Hence what is proved of every evidence holds of that of generated data: a
\* fault the report asserts rests on evidence of the run, and what the contract
\* changes is noted.
THEOREM DatasetReportsBacked == ScenarioSpec => [](SupportedIsBacked /\ NothingSilentlyAltered)
BY DatasetRunsAreRuns, FaultsBacked, AlterationsNoted, PTL

\* What the balance of the losses, the fallback and the typing claim of every
\* evidence, they claim of that of generated data.
THEOREM DatasetReportsBalance ==
  ScenarioSpec => [](TypeOK /\ ClaimsBalance /\ RulesKeepContract /\ ChargedOnce)
BY DatasetRunsAreRuns, TypeCorrect, LossesBalance, RulesArePublished, RulesCharge, PTL

\* The evidence is that of the data set the run reads.
FromData ==
  /\ data \in Datasets \cup {NoData}
  /\ data # NoData => ctx = BuildContext(data)

\* The evidence of a run stays that of its data set.
LEMMA EvidenceOfData == ScenarioSpec => []FromData
<1>1. ScenarioInit => FromData
  BY DEF ScenarioInit, FromData
<1>2. FromData /\ [ScenarioNext]_dataVars => FromData'
  <2> SUFFICES ASSUME FromData, [ScenarioNext]_dataVars PROVE FromData'
    OBVIOUS
  <2>1. data' = data /\ ctx' = ctx
    BY DEF ScenarioNext, dataVars, vars, Next, Correct, Accept, Publish
  <2> QED BY <2>1 DEF FromData
<1> QED BY <1>1, <1>2, PTL DEF ScenarioSpec

\* What a finished run of the rules over a data set has published.
LEMMA RulesOnData ==
  ASSUME FromData, RulesKeepContract, Finished
  PROVE  /\ IsDataset(data) /\ ctx = BuildContext(data)
         /\ pc = "published" /\ report = RuleReport(ctx)
         /\ report.total = FunnelLoss(Baseline, Incident)
<1>1. IsDataset(data) /\ ctx = BuildContext(data)
  BY DatasetsAssumption DEF FromData, Finished
<1>2. pc = "published" /\ report = RuleReport(ctx)
  BY DEF RulesKeepContract, Finished
<1>3. report.total = TotalLost(ctx)
  BY <1>2 DEF RuleReport
<1>4. TotalLost(ctx) = FunnelLoss(Baseline, Incident)
  BY <1>1, ToolsCharge DEF Baseline, Incident
<1> QED BY <1>1, <1>2, <1>3, <1>4

\* The funnel the page shows and the report charge the same.
LEMMA FunnelAgrees == FromData /\ RulesKeepContract => FunnelAgreesWithReport
BY RulesOnData DEF FunnelAgreesWithReport

\* The tools agree on every data set, before any report is written.
LEMMA QueriesAgreeOnData == FromData => QueriesAgree
<1>1. ASSUME FromData, data # NoData PROVE IsDataset(data)
  BY <1>1, DatasetsAssumption DEF FromData
<1> QED BY <1>1, QueriesAgreeOnAll DEF QueriesAgree

\* The generator's ground truth, for the data set at hand.
LEMMA TruthOnData == FromData => TruthIsCounterfactual
<1>1. ASSUME FromData, data # NoData PROVE IsDataset(data)
  BY <1>1, DatasetsAssumption DEF FromData
<1> QED BY <1>1, TruthCountsOnce DEF TruthIsCounterfactual

\* A gap in the data keeps every cause out of the rules' report.
LEMMA GapsOnData == FromData /\ RulesKeepContract => GapNeverBlamed
<1> SUFFICES ASSUME FromData, RulesKeepContract, Finished, data.kind = "data_gap"
             PROVE  pc = "published" /\ report.status = "NEEDS_DATA" /\ report.causes = <<>>
  BY DEF GapNeverBlamed
<1>1. /\ IsDataset(data) /\ ctx = BuildContext(data)
      /\ pc = "published" /\ report = RuleReport(ctx)
  BY RulesOnData
<1>2. ctx.missing
  BY <1>1, GapsAreMissing
<1> QED BY <1>1, <1>2 DEF RuleReport

\* The rules' report and the breakdowns charge no more than was lost.
LEMMA AttritionOnData == FromData /\ RulesKeepContract => LossWithinAttrition
<1> SUFFICES ASSUME FromData, RulesKeepContract, Finished, ~ctx.missing
             PROVE  /\ report.total <= Incident[Confirmed] - Incident[Completed]
                    /\ \A dim \in {"channel", "method"} : \A v \in Elements(ValuesOf(dim)) :
                         LET row == Conversion(data, "incident", dim, v) IN
                         RowLoss(Conversion(data, "baseline", dim, v), row) <= row.first - row.last
  BY DEF LossWithinAttrition
<1>1. /\ IsDataset(data) /\ ctx = BuildContext(data)
      /\ report.total = FunnelLoss(Baseline, Incident)
  BY RulesOnData
<1>2. "baseline" \in Periods /\ "incident" \in Periods
  BY DEF Periods
<1>3. data.kind # "data_gap"
  BY <1>1, GapsAreMissing
<1>4. IsFunnel(Baseline) /\ IsFunnel(Incident)
  BY <1>1, <1>2, <1>3, CountsAreFunnels DEF Baseline, Incident
<1>5. Incident[Confirmed] \in Nat /\ Incident[Completed] \in Nat
  BY <1>4 DEF IsFunnel, FunnelStages, Confirmed, Completed
<1>6. FunnelLoss(Baseline, Incident) \in 0 .. Incident[Confirmed] - Incident[Completed]
  BY <1>4, LossesAreDisjoint
<1>7. ASSUME NEW dim, NEW v
      PROVE  LET row == Conversion(data, "incident", dim, v) IN
             RowLoss(Conversion(data, "baseline", dim, v), row) <= row.first - row.last
  <2> DEFINE b == Conversion(data, "baseline", dim, v)
             i == Conversion(data, "incident", dim, v)
  <2>1. /\ b \in [first : Nat, last : Nat] /\ b.last <= b.first
        /\ i \in [first : Nat, last : Nat] /\ i.last <= i.first
    BY <1>1, <1>2, ConversionCounts
  <2> HIDE DEF b, i
  <2>2. RowLoss(b, i) \in 0 .. i.first - i.last
    BY <2>1, RowLossBounded
  <2> QED BY <2>1, <2>2 DEF b, i
<1> QED BY <1>1, <1>5, <1>6, <1>7

\* What the rules claim of a data set that the faults alone disturb, where every
\* stage the truth expects is flagged: the injected faults or, without any, none.
LEMMA AloneCauses ==
  ASSUME NEW d, IsDataset(d), d.kind # "data_gap", NEW c, c = BuildContext(d), IsContext(c),
         TimeoutsSeen(d) <=> d.kind \in TimeoutKinds,
         GapShifted(d) <=> d.kind \in FrictionKinds,
         FlaggedStages(d) \subseteq ExpectedStages(d.kind)
  PROVE  /\ {RuleCauses(c)[n].label : n \in DOMAIN RuleCauses(c)} = ExpectedRootCauses(d.kind)
         /\ \A n \in DOMAIN RuleCauses(c) : RuleCauses(c)[n].support # "UNKNOWN"
<1> DEFINE f == "CHANNEL_TIMEOUT" \in TypesIn(c)
           g == "BENEFIT_GAP_FRICTION" \in TypesIn(c)
           T == TimeoutClaim(c)
           B == BenefitClaim(c)
           M == NormalClaim(c)
           causes == RuleCauses(c)
           Good == /\ {causes[n].label : n \in DOMAIN causes} = ExpectedRootCauses(d.kind)
                   /\ \A n \in DOMAIN causes : causes[n].support # "UNKNOWN"
<1>1. (f <=> d.kind \in TimeoutKinds) /\ (g <=> d.kind \in FrictionKinds)
  BY ToolTypes
<1>2. /\ f => T.support # "UNKNOWN"
      /\ g => B.support # "UNKNOWN"
      /\ T.label = "CHANNEL_TIMEOUT" /\ B.label = "BENEFIT_SELECTION_FRICTION"
  BY FaultClaimsStand
<1>3. /\ f /\ g => causes = <<T, B>>
      /\ f /\ ~g => causes = <<T>>
      /\ ~f /\ g => causes = <<B>>
  BY RuleCausesAre
<1>4. ASSUME ~f, ~g PROVE causes = <<M>> /\ M.label = "NORMAL_PAYMENT_FAILURE" /\ M.support # "UNKNOWN"
  <2>1. FlaggedStages(d) = {}
    BY <1>1, <1>4 DEF ExpectedStages
  <2>2. /\ "FUNNEL_BASELINE_STABLE" \in TypesIn(c)
        /\ "FUNNEL_STAGE_DEGRADATION" \notin TypesIn(c)
        /\ "DIMENSION_CONTRIBUTION" \notin TypesIn(c)
    BY <2>1, ToolTypes DEF FlaggedStages, Degraded
  <2>3. causes = <<M>>
    BY <1>4, <2>2, NothingFoundIsNormal
  <2> QED BY <2>2, <2>3, NormalClaimStands
<1>5. ExpectedRootCauses(d.kind) =
        (IF g THEN {"BENEFIT_SELECTION_FRICTION"} ELSE {}) \cup (IF f THEN {"CHANNEL_TIMEOUT"} ELSE {})
          \cup (IF f \/ g THEN {} ELSE {"NORMAL_PAYMENT_FAILURE"})
  BY <1>1 DEF ExpectedRootCauses
<1> HIDE DEF f, g, T, B, M, causes
<1>6. CASE f /\ g
  <2>1. causes = <<T, B>>
    BY <1>3, <1>6
  <2>2. {causes[n].label : n \in DOMAIN causes} = {T.label, B.label}
        /\ \A n \in DOMAIN causes : causes[n] = T \/ causes[n] = B
    BY <2>1
  <2> QED BY <1>2, <1>5, <1>6, <2>2 DEF causes
<1>7. CASE f /\ ~g
  <2>1. causes = <<T>>
    BY <1>3, <1>7
  <2>2. {causes[n].label : n \in DOMAIN causes} = {T.label}
        /\ \A n \in DOMAIN causes : causes[n] = T
    BY <2>1
  <2> QED BY <1>2, <1>5, <1>7, <2>2 DEF causes
<1>8. CASE ~f /\ g
  <2>1. causes = <<B>>
    BY <1>3, <1>8
  <2>2. {causes[n].label : n \in DOMAIN causes} = {B.label}
        /\ \A n \in DOMAIN causes : causes[n] = B
    BY <2>1
  <2> QED BY <1>2, <1>5, <1>8, <2>2 DEF causes
<1>9. CASE ~f /\ ~g
  <2>1. causes = <<M>> /\ M.label = "NORMAL_PAYMENT_FAILURE" /\ M.support # "UNKNOWN"
    BY <1>4, <1>9
  <2>2. {causes[n].label : n \in DOMAIN causes} = {M.label}
        /\ \A n \in DOMAIN causes : causes[n] = M
    BY <2>1
  <2> QED BY <1>5, <1>9, <2>1, <2>2 DEF causes
<1> QED BY <1>6, <1>7, <1>8, <1>9

\* A diagnosis with the expected stages, causes and loss has nothing to be scored down for.
LEMMA NothingScoredDown ==
  ASSUME NEW d, NEW r, d.kind # "data_gap",
         FlaggedStages(d) = ExpectedStages(d.kind),
         PredictedCauses(r) = ExpectedRootCauses(d.kind),
         \A n \in DOMAIN r.causes : r.causes[n].support # "UNKNOWN",
         r.total = ExpectedLostIntents(d), ExpectedLostIntents(d) \in Nat
  PROVE  Badcases(d, r) = {}
<1>1. ~LossMisjudged(r.total, ExpectedLostIntents(d))
  BY DEF LossMisjudged, Larger
<1>2. ExpectedGaps(d.kind) = {}
  BY DEF ExpectedGaps
<1>3. ~\E n \in DOMAIN r.causes : r.causes[n].support = "UNKNOWN"
  OBVIOUS
<1>4. /\ ExpectedStages(d.kind) \subseteq FlaggedStages(d)
      /\ FlaggedStages(d) \subseteq ExpectedStages(d.kind)
      /\ ExpectedRootCauses(d.kind) \subseteq PredictedCauses(r)
      /\ PredictedCauses(r) \subseteq ExpectedRootCauses(d.kind)
      /\ ExpectedGaps(d.kind) \subseteq IF r.missing THEN Warnings(d) ELSE {}
  BY <1>2
<1> QED BY <1>1, <1>3, <1>4 DEF Badcases

\* With the faults alone in the data, the rules' report charges them and
\* nothing else.
LEMMA FaultsOnData == FromData /\ RulesKeepContract => FaultsAreFound
<1> SUFFICES ASSUME FromData, RulesKeepContract, Finished, ~ctx.missing, FaultsAlone(data)
             PROVE  /\ FlaggedStages(data) \subseteq ExpectedStages(data.kind)
                    /\ report.total <= ExpectedLostIntents(data)
                    /\ ExpectedStages(data.kind) \subseteq FlaggedStages(data) =>
                         /\ Badcases(data, report) = {}
                         /\ report.total = ExpectedLostIntents(data)
  BY DEF FaultsAreFound
<1> DEFINE N == Size(data["incident"])
           C == Stopped(data)
           L == ExpectedLostIntents(data)
           A == FlaggedStages(data)
<1>1. /\ IsDataset(data) /\ ctx = BuildContext(data) /\ report = RuleReport(ctx)
      /\ report.total = FunnelLoss(Baseline, Incident)
  BY RulesOnData
<1>2. IsContext(ctx)
  BY <1>1, DatasetsAssumption, PipelineAssumption DEF FromData, Finished
<1>3. data.kind # "data_gap"
  BY <1>1, GapsAreMissing
<1>4. EveryoneWould(data)
  BY DEF FaultsAlone, EveryoneWould
<1>5. /\ N \in Nat /\ N > 0 /\ C \in Nat /\ L \in Nat /\ C <= L /\ L <= N
      /\ \A s \in FunnelStages : Baseline[s] = N
      /\ \A s \in FunnelStages :
           Incident[s] = IF s <= 4 THEN N ELSE IF s <= 6 THEN N - C ELSE N - L
      /\ data.kind \notin FrictionKinds => C = 0
      /\ data.kind \notin TimeoutKinds => L = C
      /\ L > C => TimeoutsSeen(data)
      /\ data.kind \notin TimeoutKinds => ~TimeoutsSeen(data)
  BY <1>1, <1>3, <1>4, AloneCounts DEF Baseline, Incident
<1>6. A = AnomalousStages(Baseline, Incident)
  BY DEF FlaggedStages, Baseline, Incident
<1> HIDE DEF N, C, L, A
<1>7. /\ A \subseteq {Initiated, ChannelSucceeded}
      /\ Initiated \in A => C > 0
      /\ ChannelSucceeded \in A => L > C
      /\ FunnelLoss(Baseline, Incident) = (IF Initiated \in A THEN C ELSE 0)
                                         + (IF ChannelSucceeded \in A THEN L - C ELSE 0)
  BY <1>1, <1>3, <1>4, AloneFunnel DEF A, C, L, FlaggedStages, Baseline, Incident
<1>8. A \subseteq ExpectedStages(data.kind)
  BY <1>5, <1>7 DEF ExpectedStages
<1>9. report.total <= L
  BY <1>1, <1>5, <1>7
<1>10. ASSUME ExpectedStages(data.kind) \subseteq A
       PROVE  Badcases(data, report) = {} /\ report.total = L
  <2>1. /\ data.kind \in FrictionKinds => Initiated \in A
        /\ data.kind \in TimeoutKinds => ChannelSucceeded \in A
    BY <1>10 DEF ExpectedStages
  <2>2. report.total = L
    BY <1>1, <1>5, <1>7, <2>1
  <2>3. TimeoutsSeen(data) <=> data.kind \in TimeoutKinds
    BY <1>5, <1>7, <2>1
  <2>4. GapShifted(data) <=> data.kind \in FrictionKinds
    BY <1>1, ShiftSeen
  <2>5. report.causes = RuleCauses(ctx)
    BY <1>1, <1>2, RuleReportTyped
  <2>6. /\ {RuleCauses(ctx)[n].label : n \in DOMAIN RuleCauses(ctx)} = ExpectedRootCauses(data.kind)
        /\ \A n \in DOMAIN RuleCauses(ctx) : RuleCauses(ctx)[n].support # "UNKNOWN"
    <3>1. FlaggedStages(data) \subseteq ExpectedStages(data.kind)
      BY <1>8 DEF A
    <3> QED BY <1>1, <1>2, <1>3, <2>3, <2>4, <3>1, AloneCauses
  <2>7. PredictedCauses(report) = ExpectedRootCauses(data.kind)
    BY <2>5, <2>6 DEF PredictedCauses
  <2>8. FlaggedStages(data) = ExpectedStages(data.kind)
    BY <1>8, <1>10 DEF A
  <2>9. \A n \in DOMAIN report.causes : report.causes[n].support # "UNKNOWN"
    BY <2>5, <2>6
  <2>10. Badcases(data, report) = {}
    BY <1>3, <1>5, <2>2, <2>7, <2>8, <2>9, NothingScoredDown DEF L
  <2> QED BY <2>2, <2>10
<1> QED BY <1>8, <1>9, <1>10 DEF A, L

\* Of every data set, in every state of a run: the tools that read it agree, and
\* so do the funnel of the page and the report.
THEOREM DatasetViewsAgree == ScenarioSpec => []ViewsAgree
<1>1. FromData /\ RulesKeepContract => ViewsAgree
  BY FunnelAgrees, QueriesAgreeOnData DEF ViewsAgree
<1> QED BY <1>1, EvidenceOfData, DatasetReportsBalance, PTL

\* The loss of the ground truth is the counterfactual one.
THEOREM DatasetTruth == ScenarioSpec => []TruthIsCounterfactual
BY TruthOnData, EvidenceOfData, PTL

\* Withheld events make the report ask for data and blame nobody.
THEOREM DatasetGaps == ScenarioSpec => []GapNeverBlamed
BY GapsOnData, EvidenceOfData, DatasetReportsBalance, PTL

\* The losses of a report are no more than the intents that did not complete.
THEOREM DatasetLosses == ScenarioSpec => []LossWithinAttrition
BY AttritionOnData, EvidenceOfData, DatasetReportsBalance, PTL

\* Where the faults alone disturb a data set of any size and any rates, the
\* diagnosis of the rules flags no stage but theirs and charges no more than they
\* took; where they reach the threshold, it is right in every scored respect.
THEOREM DatasetFaults == ScenarioSpec => []FaultsAreFound
BY FaultsOnData, EvidenceOfData, DatasetReportsBalance, PTL

=============================================================================
