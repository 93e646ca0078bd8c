-------------------------- MODULE MCResearchCampaign -------------------------
EXTENDS ResearchCampaign

\* Opening prices of 36 sessions: both classes everywhere, moves of one and of
\* four percent so that a higher cost changes some targets.
Path(a, b) ==
    [i \in 1..36 |->
        [session |-> i, open |-> 100 + (CASE i % a = 0 -> 4 [] i % a = 1 -> 0 [] OTHER -> 1)
                                     + (IF i % b = 0 THEN 3 ELSE 0)]]

MCBatches == {[checksum |-> "first", rows |-> SubSeq(Path(4, 7), 1, 24)],
              [checksum |-> "second", rows |-> SubSeq(Path(3, 5), 1, 24)]}
\* Opening prices that rise or fall over a label's two sessions in a pattern
\* without long runs, so that most windows of a fold have both classes.
Rises(shift, i) == <<0, 1, 1, 0, 1, 0, 0, 1>>[((i + shift) % 8) + 1] = 1
Parent(shift, n) ==
    LET open[i \in 1..n] ==
            IF i <= 2 THEN 100
            ELSE IF Rises(shift, i) THEN open[i - 2] + 3 ELSE open[i - 2] - 3
    IN [checksum |-> "parent", rows |-> [i \in 1..n |-> [session |-> i, open |-> open[i]]]]
MCCosts == {[commission |-> 0, slippage |-> 0], [commission |-> 0, slippage |-> 1]}
Window(a, b, c, d, e) ==
    [train |-> <<a, b>>, validation |-> <<b + 1, c>>, test |-> <<d, e>>]
MCSpecs == {Window(2, 9, 16, 17, 22), Window(2, 9, 15, 17, 23), Window(3, 8, 14, 15, 24),
            Window(2, 9, 16, 15, 22),
            Window(2, 10, 17, 18, 24), Window(2, 8, 15, 18, 24), Window(4, 11, 17, 18, 23)}
MCSkills ==
    {[i \in 1..36 |-> 2], [i \in 1..36 |-> i % 5], [i \in 1..36 |-> (i * 3) % 5],
     [i \in 1..36 |-> IF i % 3 = 0 THEN 4 ELSE 1], [i \in 1..36 |-> IF i % 4 = 0 THEN 1 ELSE 3]}
MCLogPenalty == [p \in 0..4 |-> <<9, 4, 2, 1, 0>>[p + 1]]
MCMinimums == [train |-> <<3, 1, 1>>, validation |-> <<1, 0, 0>>, test |-> <<2, 1, 1>>]
MCFoldPolicy == [train |-> 11, assess |-> 3, step |-> 2, least |-> 2]

\* What feature sets, models and calibrations add to discrimination, what models
\* add to the losses beyond that, and what comes and goes with the fold.
Even == [features |-> <<0, 1, -1>>, models |-> <<0, 1, 4, 2>>, methods |-> <<0, 1, -1>>,
         calm |-> <<0, 0, 0, 0>>, swing |-> <<0, 0, 0, 1>>]
Close == [Even EXCEPT !.features = <<0, 1, 1>>, !.models = <<0, 3, 3, 3>>, !.swing = <<0, 1, -1, 0>>]
Lucky == [Even EXCEPT !.models = <<1, 0, -1, 3>>, !.methods = <<0, 3, 4>>, !.swing = <<-2, 1, 6, 0>>]
Torn == [Even EXCEPT !.features = <<2, 0, 1>>, !.models = <<0, 0, 4, 9>>, !.methods = <<0, -3, -3>>,
                     !.calm = <<0, 0, 9, 0>>]

MethodIndex(method) == CHOOSE i \in 1..3 : Methods[i] = method
Gain(t, c, k) ==
    t.features[c.features] + t.models[c.model] + t.methods[MethodIndex(c.method)]
      + (IF k % 2 = 0 THEN t.swing[c.model] ELSE 0)
MCScore(t, c, k) ==
    [auc |-> 52 + k + Gain(t, c, k), loss |-> 70 - Gain(t, c, k) - t.calm[c.model],
     brier |-> 25 - (Gain(t, c, k) \div 2) + k]
MCPrevalence(t, k) == [loss |-> 69, brier |-> 24 + k]

\* Parents with one, two, two and three folds, each under a table of its own.
MCStudies ==
    {[parent |-> Parent(3, 29), scores |-> Even], [parent |-> Parent(3, 30), scores |-> Close],
     [parent |-> Parent(3, 32), scores |-> Lucky], [parent |-> Parent(3, 33), scores |-> Torn]}
MCCampaignCosts == [commission |-> 0, slippage |-> 0]
MCAblations == <<"baseline", "all", "simpler">>
MCModels == <<"logistic_regression", "gradient_boosting", "hist_gradient_boosting", "extra_trees">>
MCColumns == <<5, 8, 3>>
MCComplexity == <<10, 40, 50, 70>>
============================================================================
