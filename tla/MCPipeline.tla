----------------------------- MODULE MCPipeline -----------------------------
(* The shapes of queries for checking Pipeline, and how many answers each    *)
(* needs for its interesting cases.                                          *)
EXTENDS Pipeline, TLC

\* No computable literal, one, two that depend on each other, two that do not.
AllPlans == {<<>>, <<1>>, <<2>>, <<1, 1>>}
TwoGroups == {<<1, 1>>}

\* One group: two queries overlap in a stage. A chain: both queries of the first
\* step give work to the second. Two groups: one has two answers, the other one.
AllInputs == <<>> :> 2 @@ <<1>> :> 2 @@ <<2>> :> 1 @@ <<1, 1>> :> 1
AllAnswers == <<>> :> 0 @@ <<1>> :> 2 @@ <<2>> :> 2 @@ <<1, 1>> :> 3

One == <<1, 1>> :> 1
=============================================================================
