----------------------------- MODULE ScenarioData -----------------------------
(***************************************************************************)
(* The scenario generator.  A data set holds the intents of a baseline and *)
(* of an incident period; an intent is what the generator drew for it, and *)
(* its events follow from that.  A period is a bag: the order of its       *)
(* intents, their times and their amounts reach no query.  Pseudo-random   *)
(* draws are choices, so a rate is any rate the bag may have.              *)
(***************************************************************************)
EXTENDS Integers, SequencesExt

CONSTANTS
  PaymentMethods, PaymentChannels,  \* lists, as in the code
  FaultyChannel,  \* the channel that times out
  Gaps            \* selected minus best payable amount of an undisturbed intent

Elements(list) == {list[n] : n \in DOMAIN list}

ASSUME ScenarioAssumption ==
  /\ IsFiniteSet(Elements(PaymentMethods)) /\ IsFiniteSet(Elements(PaymentChannels))
  /\ FaultyChannel \in Elements(PaymentChannels)
  /\ Gaps \subseteq 0 .. 300

Kinds == {"normal", "benefit_friction", "channel_timeout", "mixed_failure", "data_gap",
          "adversarial_irrelevant_config", "adversarial_noise"}

FrictionKinds == {"benefit_friction", "mixed_failure"}
TimeoutKinds  == {"channel_timeout", "mixed_failure"}

Periods == {"baseline", "incident"}

\* A funnel stage is its place in FUNNEL_STAGE_ORDER.
FunnelStages     == 1 .. 9
Confirmed        == 1
MethodSelected   == 4
Initiated        == 5
Authenticated    == 6
ChannelSucceeded == 7
Completed        == 9

-----------------------------------------------------------------------------
(* One intent.                                                             *)

BaseIntents ==
  [gap : Gaps, method : Elements(PaymentMethods), channel : Elements(PaymentChannels),
   noBenefit : BOOLEAN, walked : FunnelStages, cancelled : {FALSE}, reordered : {FALSE},
   switched : {FALSE}, timedOut : {FALSE}]

GapShift == 1200
HighGap  == 1000

\* A user who meets a high gap may cancel, order again after that, or switch.
ApplyBenefitFriction(x) ==
  LET shifted == [x EXCEPT !.gap = @ + GapShift] IN
  {shifted} \cup
  IF shifted.gap < HighGap THEN {}
  ELSE {[shifted EXCEPT !.cancelled = TRUE, !.reordered = r] : r \in BOOLEAN}
       \cup {[shifted EXCEPT !.switched = TRUE, !.method = m] :
                m \in Elements(PaymentMethods) \ {x.method}}

ApplyChannelTimeout(x) ==
  {x} \cup (IF x.channel = FaultyChannel THEN {[x EXCEPT !.timedOut = TRUE]} ELSE {})

LoseBenefit(x) == {x, [x EXCEPT !.noBenefit = TRUE]}

\* What the injected parameters of a kind make of an intent of the incident.
Injected(kind, x) ==
  IF kind = "data_gap" THEN LoseBenefit(x)
  ELSE LET shifted == IF kind \in FrictionKinds THEN ApplyBenefitFriction(x) ELSE {x}
       IN  IF kind \in TimeoutKinds THEN UNION {ApplyChannelTimeout(y) : y \in shifted}
           ELSE shifted

Drawable ==
  [kind \in Kinds |->
    [period \in Periods |->
      IF period = "baseline" THEN BaseIntents
      ELSE UNION {Injected(kind, x) : x \in BaseIntents}]]

WouldHaveCompleted(x) == x.walked = Completed

\* A fault: the cancelled intent is capped one stage late.
ReachedLate(x) ==
  LET afterTimeout == IF x.timedOut /\ x.walked >= ChannelSucceeded THEN Authenticated
                      ELSE x.walked
  IN  IF x.cancelled /\ ~x.reordered /\ afterTimeout > Initiated THEN Initiated
      ELSE afterTimeout

\* How far the intent came: a timeout stops it before the channel, an unrepaired
\* cancellation where the friction is.
Reached(x) ==
  LET afterTimeout == IF x.timedOut /\ x.walked >= ChannelSucceeded THEN Authenticated
                      ELSE x.walked
  IN  IF x.cancelled /\ ~x.reordered /\ afterTimeout > MethodSelected THEN MethodSelected
      ELSE afterTimeout

\* A fault: drop-outs that were going to happen anyway are counted.
RemovedRegardless(x) == x.timedOut \/ (x.cancelled /\ ~x.reordered)

FaultRemovedCompletion(x) ==
  WouldHaveCompleted(x) /\ (x.timedOut \/ (x.cancelled /\ ~x.reordered))

\* The stages whose events are withheld.
DropStages(kind, period) ==
  IF kind = "data_gap" /\ period = "incident" THEN {Authenticated, ChannelSucceeded} ELSE {}

Progressed(x, dropped) == 1 .. Reached(x) \ dropped

One(b) == IF b THEN 1 ELSE 0

\* The progression of the intent and its branch events.
EventCount(x, dropped) ==
  Cardinality(Progressed(x, dropped))
    + One(x.cancelled) + One(x.reordered) + One(x.switched) + One(x.timedOut)

-----------------------------------------------------------------------------
(* A data set, and what its scenario expects of a diagnosis.               *)

Weighted(bag, Weight(_)) == SumFunction([x \in DOMAIN bag |-> bag[x] * Weight(x)])

Count(bag, Test(_)) == SumFunctionOnSet(bag, {x \in DOMAIN bag : Test(x)})

Size(bag) == Count(bag, LAMBDA x : TRUE)

\* Both periods have num_intents intents.
IsDataset(d) ==
  /\ d.kind \in Kinds
  /\ \A p \in Periods : /\ DOMAIN d[p] \subseteq Drawable[d.kind][p]
                        /\ IsFiniteSet(DOMAIN d[p])
                        /\ \A x \in DOMAIN d[p] : d[p][x] \in Nat \ {0}
  /\ Size(d.baseline) = Size(d.incident)
  /\ Size(d.baseline) > 0

ConfigChangeTypes(kind) ==
  CASE kind = "benefit_friction" -> <<"promo_rule">>
    [] kind = "channel_timeout"  -> <<"routing">>
    [] kind = "mixed_failure"    -> <<"promo_rule", "routing">>
    [] kind = "adversarial_irrelevant_config" -> <<"version_upgrade">>
    [] OTHER -> <<>>

ExpectedStages(kind) ==
  (IF kind \in FrictionKinds THEN {Initiated} ELSE {})
    \cup (IF kind \in TimeoutKinds THEN {ChannelSucceeded} ELSE {})

ExpectedLostIntents(d) == Count(d.incident, FaultRemovedCompletion)

=============================================================================
