--------------------------- MODULE MCScenarioReport ---------------------------
(***************************************************************************)
(* Finite instances of ScenarioReport for TLC.                             *)
(***************************************************************************)
EXTENDS ScenarioReport

MCMethods  == <<"card", "wallet">>
MCChannels == <<"channel_a", "channel_b">>
MCGaps     == {0, 300}

-----------------------------------------------------------------------------
(* Data sets: 36 intents that all complete, and two groups of 4 and 2.  A   *)
(* stage that loses 4 of 42 is flagged, one that loses 2 of 42 is not, and  *)
(* one that loses 2 of 38 is.                                              *)

BagOf(many, some, few) ==
  [x \in {many, some, few} |-> (IF x = many THEN 36 ELSE 0) + (IF x = some THEN 4 ELSE 0)
                                 + (IF x = few THEN 2 ELSE 0)]

Undisturbed(gap, channel, walked, noBenefit) ==
  [gap |-> gap, method |-> "card", channel |-> channel, noBenefit |-> noBenefit,
   walked |-> walked, cancelled |-> FALSE, reordered |-> FALSE, switched |-> FALSE,
   timedOut |-> FALSE]

Crowd(noBenefit) == Undisturbed(0, "channel_a", Completed, noBenefit)

Baselines ==
  {BagOf(Crowd(FALSE), Undisturbed(0, "channel_b", Completed, FALSE),
         Undisturbed(300, "channel_a", Completed, FALSE)),
   BagOf(Crowd(FALSE), Undisturbed(0, "channel_b", 8, FALSE),
         Undisturbed(300, "channel_a", Authenticated, FALSE)),
   BagOf(Crowd(TRUE), Undisturbed(300, "channel_b", Completed, FALSE),
         Undisturbed(300, "channel_a", 2, TRUE))}

Shifted(kind, x) == IF kind \in FrictionKinds THEN [x EXCEPT !.gap = @ + GapShift] ELSE x

Some(kind) == {x \in Drawable[kind]["incident"] :
                 x.gap \in {0, GapShift} /\ x.walked \in {MethodSelected, Completed}
                   /\ x.channel = "channel_b" /\ ~x.noBenefit}

Few(kind) == {x \in Drawable[kind]["incident"] :
                x.gap \in {300, 300 + GapShift} /\ x.walked \in {Authenticated, Completed}
                  /\ x.method = "wallet" /\ (x.noBenefit => kind = "data_gap")}

EveryDataset ==
  UNION {{[kind |-> kind, baseline |-> baseline,
           incident |-> BagOf(Shifted(kind, Crowd(kind \in {"data_gap", "normal"})), some, few)] :
            baseline \in Baselines, some \in Some(kind), few \in Few(kind)} : kind \in Kinds}

-----------------------------------------------------------------------------
(* Evidence without a data set: one record of each kind the tools produce.  *)
(* A stage that improved is flagged too, with no loss; a breakdown row      *)
(* always has one.                                                         *)

Catalogue == <<
  EvidenceDraft("CHANNEL_TIMEOUT", "none", 0),
  EvidenceDraft("ERROR_CODE_CONCENTRATION", "none", 0),
  EvidenceDraft("BENEFIT_GAP_FRICTION", "none", 0),
  EvidenceDraft("CANCEL_REORDER_FLOW", "none", 0),
  EvidenceDraft("CONFIG_CHANGE", "none", 0),
  EvidenceDraft("FUNNEL_BASELINE_STABLE", "none", 0),
  EvidenceDraft("FUNNEL_STAGE_DEGRADATION", "CHANNEL_SUCCEEDED", 2),
  EvidenceDraft("FUNNEL_STAGE_DEGRADATION", "PAYMENT_METHOD_SELECTED", 0),
  EvidenceDraft("FUNNEL_STAGE_DEGRADATION", "PAYMENT_INITIATED", 3),
  EvidenceDraft("FUNNEL_STAGE_DEGRADATION", "OTHER", 1),
  EvidenceDraft("DIMENSION_CONTRIBUTION", "none", 3),
  EvidenceDraft("DIMENSION_CONTRIBUTION", "none", 2)>>

ContextOf(codes, missing) ==
  [evidence |-> [e \in codes |-> Catalogue[e]], missing |-> missing]

\* The funnel either reports a stage or that all are stable, and the breakdown
\* is asked for only when it reports a stage.
Producible(codes) ==
  /\ 6 \in codes <=> codes \cap 7 .. 10 = {}
  /\ codes \cap {11, 12} # {} => codes \cap 7 .. 10 # {}

ToolContexts == {ContextOf(codes, missing) :
                   codes \in {s \in SUBSET DOMAIN Catalogue : Producible(s)},
                   missing \in BOOLEAN}

EveryContext == UNION {ToolContexts, {BuildContext(d) : d \in EveryDataset}}

FewContexts == {ContextOf(codes, FALSE) : codes \in {{6}, {1, 3, 6}, {1, 3, 5, 7, 9}}}

ClaimOf(label, codes, support, loss) ==
  [label |-> label, codes |-> codes, repeated |-> codes = {7, 9},
   confidence |-> IF codes = {1} THEN "HIGH" ELSE "LOW", loss |-> loss, support |-> support]

\* 99 is a code no run has.
SomeClaims == {ClaimOf(label, codes, support, loss) :
   label \in {"CHANNEL_TIMEOUT", "BENEFIT_SELECTION_FRICTION", "NORMAL_PAYMENT_FAILURE",
              "UNKNOWN"},
   codes \in {{}, {1}, {3, 5}, {6}, {7, 9}, {99}}, support \in {"SUPPORTED", "UNKNOWN"},
   loss \in {2, NoLoss}}

SomeDrafts == {[status |-> status, causes |-> causes, total |-> total, explained |-> explained,
                unexplained |-> 1, missing |-> missing] :
   status \in {"SUCCEEDED", "NEEDS_DATA"}, total \in {5, -1}, explained \in {0, 4},
   missing \in BOOLEAN,
   causes \in {<<>>} \cup {<<c>> : c \in SomeClaims}
     \cup {<<c, ClaimOf("CALLBACK_FAILURE", {1}, "PARTIAL", 1)>> : c \in SomeClaims}
     \cup {<<c, ClaimOf("BAD_LABEL", {3}, "SUPPORTED", -1)>> : c \in SomeClaims}}

-----------------------------------------------------------------------------
(* Values of the constants.  TLC evaluates a definition such as EveryContext *)
(* once, but what stands for a constant at each of its uses.                *)

MCDatasets == EveryDataset
MCContexts == EveryContext

\* The rules in every context, a model as well in a few.
MCDrafts == [c \in EveryContext |-> IF c \in FewContexts THEN SomeDrafts ELSE {}]

=============================================================================
