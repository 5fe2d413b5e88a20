-------------------------- MODULE MCPolicyRouting --------------------------
(* Values of the constants of PolicyRouting for model checking. *)
EXTENDS PolicyRouting, TLC

CONSTANTS small, middle, large, low, high, p, q

MCModels == {small, middle, large}
MCLabels == {low, high}
MCProviders == {p, q}

\* Small is cheap and narrow, middle sees pictures and answers briefly, large does
\* all it is asked.
MCProfile ==
    small :> [can |-> {}, window |-> 2, ceiling |-> 2, input |-> 1, output |-> 1,
              quality |-> 2, priority |-> 0] @@
    middle :> [can |-> {"vision"}, window |-> 4, ceiling |-> 1, input |-> 2,
               output |-> 1, quality |-> 5, priority |-> 0] @@
    large :> [can |-> {"vision"}, window |-> Unlimited, ceiling |-> Unlimited,
              input |-> 4, output |-> 4, quality |-> 9, priority |-> 0]

\* A short question, a picture, and a picture with a long answer: longer than
\* middle gives, and with its question too long for small.
MCFacts ==
    {[needs |-> {}, tokens |-> 1, output |-> 1],
     [needs |-> {"vision"}, tokens |-> 1, output |-> 1],
     [needs |-> {"vision"}, tokens |-> 1, output |-> 2]}

\* The policy the catalogs below vary: low lists small and middle, high lists
\* middle, which is disabled, and large.
Sticky ==
    [order |-> small :> 1 @@ middle :> 2 @@ large :> 3,
     enabled |-> {small, large}, selected |-> MCModels, default |-> None,
     labels |-> <<low, high>>,
     listed |-> low :> (small :> 1 @@ middle :> 2) @@ high :> (middle :> 1 @@ large :> 2),
     explicit |-> low :> FALSE @@ high :> FALSE,
     tagged |-> low :> {} @@ high :> {},
     mode |-> "sticky", selection |-> "cheapest_adequate",
     breakOn |-> HardReasons, minTurns |-> 1, cooldown |-> 1, maxSwitches |-> 2,
     maxFailures |-> 1, maxTruncations |-> 1, maxCost |-> 1, pressure |-> 75,
     kind |-> "policy", choices |-> {}, fallback |-> [label |-> None, selection |-> None],
     decisionEnabled |-> FALSE, providers |-> <<p, q>>, onlyProvider |-> None,
     firstProvider |-> None]

\* Every model is there, and outcomes move the session.
Escalating ==
    [Sticky EXCEPT !.mode = "escalate", !.enabled = MCModels, !.pressure = 100,
                   !.selection = "quality_first"]

\* A classifier decides the label of the first turn; high has its models by tag.
Cached ==
    [Sticky EXCEPT !.mode = "cached", !.enabled = {small, middle}, !.kind = "decision",
                   !.maxSwitches = 1,
                   !.breakOn = HardReasons \cup {"upstream_failures"},
                   !.listed = low :> (small :> 1) @@ high :> <<>>,
                   !.tagged = low :> {} @@ high :> {middle, large},
                   !.decisionEnabled = TRUE,
                   !.choices = {[label |-> high, selection |-> None]}]

\* A matrix decides the label and the rule of every turn; high has no models, so
\* that the global default stands for it.
Matrix ==
    [Sticky EXCEPT !.mode = "fresh", !.kind = "decision_matrix", !.default = large,
                   !.selection = "balanced",
                   !.listed = low :> (small :> 1) @@ high :> <<>>,
                   !.decisionEnabled = TRUE, !.firstProvider = q,
                   !.choices = {[label |-> high, selection |-> "quality_first"]}]

MCCatalogs == {Sticky, Escalating, Cached, Matrix}

\* One model, with the default policy.
MCOneModel ==
    {[Sticky EXCEPT !.enabled = {small}, !.listed = low :> (small :> 1) @@ high :> (small :> 1)]}

=============================================================================
