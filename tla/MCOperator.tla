----------------------------- MODULE MCOperator -----------------------------
(* An instance of Operator for TLC. *)
EXTENDS Operator, TLC

CONSTANTS b1, b2

\* Two pods of one boost, one of another.
SmallBoosts == {b1, b2}
SmallTasks == {<<b1, "p1">>, <<b1, "p2">>, <<b2, "p3">>}

Sample(name, stage, value) == [name |-> name, stage |-> stage, value |-> value]

NoVariables == [v \in {} |-> "true"]
Electing == "LEADER_ELECTION" :> "true"

Modern == {Sample("InPlacePodVerticalScaling", "ALPHA", 0),
           Sample("InPlacePodVerticalScaling", "BETA", 1),
           Sample("PodLevelResources", "BETA", 1), Sample("", "BETA", 1)}
Dated == {Sample("InPlacePodVerticalScaling", "ALPHA", 0),
          Sample("PodLevelResources", "none", 1)}

Rollout(env, samples, elects) == [env |-> env, samples |-> samples, elects |-> elects]

\* As installed by default, without leader election, with it introduced; and
\* starts that fail, or that a malformed variable does not stop.
SmallRollouts ==
    {Rollout(Electing, Modern, TRUE), Rollout(NoVariables, Modern, FALSE),
     Rollout(NoVariables, Dated, FALSE),
     Rollout("VALIDATE_FEATURE_ENABLED" :> "malformed", Dated, TRUE),
     Rollout("VALIDATE_FEATURE_ENABLED" :> "false" @@ "HTTP2" :> "malformed", Dated, TRUE)}
=============================================================================
