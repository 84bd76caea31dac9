--------------------------- MODULE MixtureConfigs ---------------------------
(***************************************************************************)
(* Mixtures for SamplePlan: one source under every budget, and mixtures of *)
(* two under every strategy, with buckets that fail, that have no window   *)
(* and that have episodes without one; `none` is no budget.                *)
(***************************************************************************)
EXTENDS Naturals

Bucket(lengths, fails) == [lengths |-> lengths, fails |-> fails]
Large   == Bucket(<<5, 1, 3>>, "no")
Middle  == Bucket(<<4, 2>>, "no")
Small   == Bucket(<<2>>, "no")
Empty   == Bucket(<<1>>, "no")
Absent  == Bucket(<<3>>, "environment")
Broken  == Bucket(<<3>>, "contract")

Root(buckets, budget, strict) == [buckets |-> buckets, budget |-> budget, strict |-> strict]
Mixture(sources, strategy, weights, epochs) ==
    [sources |-> sources, strategy |-> strategy, weights |-> weights, epochs |-> epochs]

Budgets(none) == {none} \cup 1 .. 17
Alone(none) ==
    {Mixture(<<Root(buckets, budget, strict)>>, "proportional", <<1>>, 0) :
        buckets \in {<<Large, Middle, Small>>, <<Large, Empty, Middle>>, <<Absent, Middle, Large>>,
                     <<Broken, Middle>>, <<Empty>>},
        budget \in Budgets(none), strict \in BOOLEAN}
Mixed(none) ==
    {Mixture(<<Root(<<Large, Small>>, budget, FALSE), Root(<<Middle>>, none, FALSE)>>, strategy, <<3, w>>, 2) :
        budget \in {none, 4}, strategy \in {"proportional", "uniform", "inverse_size", "manual"}, w \in {0, 1}}
Weightless(none) == Mixture(<<Root(<<Middle>>, none, FALSE)>>, "manual", <<0>>, 2)
ManyConfigs(none) == Alone(none) \cup Mixed(none) \cup {Weightless(none)}

Uneven(none) == {c \in Mixed(none) : c.strategy = "inverse_size"}
=============================================================================
