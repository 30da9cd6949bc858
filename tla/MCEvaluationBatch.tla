--------------------------- MODULE MCEvaluationBatch ---------------------------
EXTENDS EvaluationBatch

\* A funnel, a second query of the same tool, and the config changes.
MCPipeline == <<[tool |-> "funnel", filter |-> "none"], [tool |-> "config_changes", filter |-> "none"]>>

MCProbes == {[tool |-> "funnel", filter |-> "payment_channel"]}

\* A kind is asked for twice, behind another one.
MCTwoKinds == <<"channel_timeout", "normal", "channel_timeout">>

\* A request and a run that interfere with an evaluation without a model; two
\* requests that interfere with each other, and the run that reads what they leave;
\* all the modes, over two scenarios; and one evaluation after another.
MCSetups ==
  LET first == Evaluations \cap {"e1"} IN
  {[clients |-> {CHOOSE c \in Clients : TRUE}, modes |-> {"B0"}, orders |-> {MCTwoKinds},
    evaluations |-> first, agent |-> "B2"],
   [clients |-> Clients, modes |-> {}, orders |-> {}, evaluations |-> {}, agent |-> "B0"],
   [clients |-> {}, modes |-> Modes, orders |-> {MCTwoKinds}, evaluations |-> first, agent |-> "B2"],
   [clients |-> {}, modes |-> {"B2"}, orders |-> {<<"normal">>},
    evaluations |-> Evaluations, agent |-> "B2"]}

\* No definition tells the data apart, nor do the properties, none of which is a
\* liveness property.
MCSymmetry == Permutations(Data)

=============================================================================
