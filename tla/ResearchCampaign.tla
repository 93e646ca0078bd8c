-------------------------- MODULE ResearchCampaign --------------------------
(***************************************************************************)
(* The development campaign of the research package (research/runner.py):  *)
(* a slice of the data that stays out of the benchmark's final test, folds *)
(* over it, candidates evaluated fold by fold, a feature set selected, the *)
(* models on it ranked, the calibrations of the first one ranked, and the  *)
(* evidence written to a directory named after the campaign's identity.    *)
(*                                                                         *)
(* A campaign is one process.  It may be killed, a write may fail, and any *)
(* fold of any candidate may fail (memory, convergence), which is recorded *)
(* and passed over.  Then it is started again, and finds what an earlier   *)
(* run left in the directory.  The identity covers data, configuration and *)
(* runtime but not created_at.  Campaigns of other identities write to     *)
(* other directories, so one identity is followed, and the V1 chain of     *)
(* ModelPipeline runs before it in the same interpreter.                   *)
(*                                                                         *)
(* How well a candidate scores on a fold is a fixed table: fits are        *)
(* deterministic.  Which folds it completed is what the run decides.       *)
(***************************************************************************)
EXTENDS ModelPipeline, WalkForward

CONSTANTS
    Studies,           \* [parent, scores]: market data and how candidates score on it
    CampaignCosts,     \* the cost assumptions of the campaign's labels
    Timestamps,        \* values of created_at
    Ablations,         \* feature sets in order, the baseline first
    Models,            \* model definitions in order, the fixed phase 2 ones first
    Columns,           \* columns of a feature set
    Complexity,        \* model_complexity of a model
    Score(_, _, _),    \* [auc, loss, brier] of a candidate on a fold under a table
    Prevalence(_, _),  \* [loss, brier] of the training-prevalence baseline
    MinimumFolds,      \* minimum_valid_fold_count (3)
    Tolerance,         \* materially_different_tolerance (0.005)
    MaterialDelta,     \* material_roc_auc_delta (0.01)
    MaxInterrupts,     \* interruptions
    MaxAccidents       \* candidates with folds that fail

ASSUME CampaignAssumption ==
    /\ MinimumFolds \in Nat \ {0} /\ Tolerance \in Nat \ {0} /\ MaterialDelta \in Nat \ {0}
    /\ \A s \in Studies : s.parent.rows \in Seq([session : Nat, open : Nat])
    /\ Ablations \in Seq(ToSet(Ablations)) /\ Len(Ablations) >= 1
    /\ Models \in Seq(ToSet(Models)) /\ Len(Models) >= 2
    /\ MaxInterrupts \in Nat /\ MaxAccidents \in Nat

VARIABLES
    study,       \* the identity followed: [of, runtime], or Nothing
    directory,   \* its artifacts: name -> content
    faults       \* [interrupts, accidents] still to come

campaignVars == <<held, runtime, ran, fits, study, directory, faults>>

\* _calibration_policies, _calibration_simplicity_offset
Methods == <<"none", "sigmoid", "isotonic">>
Offset == <<0, 5, 10>>

InitialArtifacts ==
    <<"experiment_manifest", "fold_manifest", "feature_registry", "model_registry">>
ResultArtifacts ==
    <<"hyperparameter_trials", "classification_results", "calibration_results",
      "regime_drift_results", "selection_report">>
Artifacts == InitialArtifacts \o ResultArtifacts \o <<"artifact_index">>

---------------------------------------------------------------------------
(* Aggregates over the folds a candidate completed *)

Candidate(features, model, method) ==
    [features |-> features, model |-> model, method |-> method]

\* Columns and complexities are counted, and a completed fold has all its metrics.
ASSUME ScoreAssumption ==
    /\ DOMAIN Columns = DOMAIN Ablations /\ \A i \in DOMAIN Columns : Columns[i] \in Nat
    /\ DOMAIN Complexity = DOMAIN Models /\ \A i \in DOMAIN Complexity : Complexity[i] \in Nat
    /\ \A s \in Studies : \A features \in DOMAIN Ablations, model \in DOMAIN Models,
          method \in ToSet(Methods), k \in 0..Len(s.parent.rows) :
          Score(s.scores, Candidate(features, model, method), k)
            \in [auc : Int, loss : Int, brier : Int]

\* statistics.median and statistics.fmean, in halves of a unit: exact for up to
\* eight folds.
Average(values, folds) == (2 * SumFunctionOnSet(values, folds)) \div Cardinality(folds)

\* A finite set in a strict total order: at n, the member that n - 1 others precede.
\* It is SetToSortSeq, in a form that the proofs can open.
Sorted(S, Before(_, _)) ==
    [n \in 1..Cardinality(S) |->
        CHOOSE x \in S : Cardinality({y \in S : Before(y, x)}) = n - 1]

Ascending(values) ==
    Sorted(DOMAIN values,
        LAMBDA i, j : values[i] < values[j] \/ (values[i] = values[j] /\ i < j))

Median(values) ==
    LET order == Ascending(values) n == Len(order) IN
    Average(values, {order[(n + 1) \div 2], order[n \div 2 + 1]})

WorstQuartile(values) ==
    LET order == Ascending(values) IN
    Average(values, {order[i] : i \in 1..((Len(order) + 3) \div 4)})

\* candidate_summary over the folds completed; without any there are no metrics
Summary(candidate, completed, simplicity) ==
    LET Metric(name) == [k \in completed |-> Score(study.of.scores, candidate, k)[name]] IN
    IF completed = {} THEN [completed |-> {}]
    ELSE [completed |-> completed, simplicity |-> simplicity,
          auc |-> Median(Metric("auc")), loss |-> Median(Metric("loss")),
          brier |-> Median(Metric("brier")), worst |-> WorstQuartile(Metric("auc"))]

---------------------------------------------------------------------------
(* Ranking *)

Precedes(x, y) ==
    \E i \in DOMAIN x : x[i] < y[i] /\ \A j \in 1..(i - 1) : x[j] = y[j]

\* Losses before discrimination.
Key_LossFirst(s, position) == <<s.loss, -s.auc, s.brier, -s.worst, s.simplicity, position>>

\* _compare_candidates; sorted is stable
Key(s, position) == <<-s.auc, s.loss, s.brier, -s.worst, s.simplicity, position>>

Ranked(summaries, among) ==
    Sorted(among, LAMBDA i, j : Precedes(Key(summaries[i], i), Key(summaries[j], j)))

Near(x, y) == x - y \in -(2 * Tolerance)..(2 * Tolerance)

Comparable(s, leader) ==
    Near(s.auc, leader.auc) /\ Near(s.loss, leader.loss) /\ Near(s.brier, leader.brier)

\* _prefer_simpler_when_not_materially_different, and the end of
\* rank_feature_set_candidates: the simplest that is as good as the first
Preferred(summaries, ranked) ==
    LET Simplicity(k) == <<summaries[ranked[k]].simplicity, k>>
        near == {k \in DOMAIN ranked :
                   Comparable(summaries[ranked[k]], summaries[Head(ranked)])}
    IN ranked[CHOOSE k \in near : \A l \in near \ {k} : Precedes(Simplicity(k), Simplicity(l))]

\* _candidate_is_rankable
Rankable(summaries) ==
    {i \in DOMAIN summaries : Cardinality(summaries[i].completed) >= MinimumFolds}

\* The fixed phase 2 models as the campaign evaluated them, if they have a median.
BaselineAuc(models) == {models[i].auc : i \in {k \in 1..2 : models[k].completed # {}}}

\* _promotion_allowed
PromotionAllowed(s, models, folds) ==
    LET Baseline(name) == Median([k \in folds |-> Prevalence(study.of.scores, k)[name]]) IN
    /\ s.loss < Baseline("loss") \/ s.brier < Baseline("brier")
    /\ BaselineAuc(models) # {}
    /\ \A auc \in BaselineAuc(models) : s.auc - auc >= 2 * MaterialDelta

\* rank_classification_candidates
Classification(summaries, models, folds) ==
    LET ranked == Ranked(summaries, Rankable(summaries)) IN
    IF Rankable(summaries) = {} THEN [ranked |-> <<>>, promoted |-> {}]
    ELSE [ranked |-> ranked,
          promoted |-> {i \in {Preferred(summaries, ranked)} :
                          PromotionAllowed(summaries[i], models, folds)}]

\* final_selection: among the calibrations, or without any among the models
FinalSelection(models, variants, folds) ==
    Classification(IF variants = <<>> THEN models ELSE variants, models, folds)

---------------------------------------------------------------------------
(* The run *)

\* What is written under a name.  Of the trials it is how often each model failed,
\* not in which folds; the report prints whether there is a promotion, not which.
Content(name) ==
    LET Figures(summaries, metrics) ==
            [i \in DOMAIN summaries |->
                IF summaries[i].completed = {} THEN <<>>
                ELSE [m \in metrics |-> summaries[i][m]]]
        Failures == [i \in DOMAIN held.models |->
                        Cardinality(held.indexes \ held.models[i].completed)]
    IN CASE name = "experiment_manifest" -> held.created
         [] name = "fold_manifest" -> held.indexes
         [] name \in {"feature_registry", "model_registry"} -> study
         [] name = "hyperparameter_trials" -> Failures
         [] name = "classification_results" ->
                [ablations |-> held.ablations, models |-> held.models,
                 uncalibrated |-> held.uncalibrated, final |-> held.final]
         [] name = "calibration_results" -> held.variants
         [] name = "regime_drift_results" -> <<held.ablations, held.models, held.variants>>
         [] name = "selection_report" ->
                [features |-> held.features, promotion |-> held.final.promoted # {},
                 models |-> Figures(held.models, {"auc", "loss", "brier"}),
                 variants |-> Figures(held.variants, {"loss", "brier"})]
         [] name = "artifact_index" -> held.written

CampaignInit ==
    /\ Init
    /\ study = Nothing
    /\ directory = <<>>
    /\ faults = [interrupts |-> MaxInterrupts, accidents |-> MaxAccidents]

\* The V1 chain, in an interpreter that has not begun a campaign.
Chain ==
    /\ study = Nothing
    /\ Next
    /\ UNCHANGED <<study, directory, faults>>

\* run_development_campaign up to its folds: the slice, its features, labels and
\* dataset, the leakage contract, the folds, and the isolation of both.
StartCampaign ==
    /\ held = Nothing
    /\ \E s \in Studies, created \in Timestamps :
       /\ study \in {Nothing, [of |-> s, runtime |-> runtime]}
       /\ study' = [of |-> s, runtime |-> runtime]
       /\ \E boundary \in ExclusionBoundaries(s.parent) :
          LET slice == SliceMarketData(s.parent, boundary) IN
          \E fs \in ResearchFeatures(slice), ls \in build_forward_label_set(slice, CampaignCosts) :
          \E d \in ResearchDataset(fs, ls) :
          \E folds \in construct_walk_forward_manifest(d, slice) :
             /\ LeakageContractHolds(d) /\ DatasetIsolated(boundary, d)
             /\ \A f \in folds : FoldIsolated(boundary, f)
             /\ held' = [kind |-> "campaign", stage |-> "initial", created |-> created,
                         boundary |-> boundary, dataset |-> d, folds |-> folds,
                         indexes |-> {f.index : f \in folds}, written |-> <<>>,
                         ablations |-> <<>>, features |-> 0, models |-> <<>>,
                         uncalibrated |-> Nothing, variants |-> <<>>, final |-> Nothing]
    /\ ran' = {runtime}
    /\ fits' = {}
    /\ UNCHANGED <<runtime, directory, faults>>

At(stage) == held.kind = "campaign" /\ held.stage = stage

\* The process ends, by itself or not; what it held is gone.
End ==
    /\ held' = Nothing
    /\ ran' = {} /\ fits' = {}

\* What a candidate fits in a fold; nothing if that fails by itself.
FoldFits(method, fold) ==
    IF method = "none" THEN ModelFits(held.dataset, fold)
    ELSE CalibratedFits(held.dataset, fold, held.boundary)

\* The loop over the folds; in an accident, any of them fail.
EvaluateFolds(results, candidate, simplicity) ==
    \E failed \in (IF faults.accidents > 0 THEN SUBSET held.indexes ELSE {{}}) :
        LET completed == {f \in held.folds :
                            f.index \notin failed /\ FoldFits(candidate.method, f) # {}} IN
        /\ held' = [held EXCEPT ![results] =
                        Append(@, Summary(candidate, {f.index : f \in completed}, simplicity))]
        /\ fits' = fits \cup {Fit(x.reads, RowsAt(held.dataset.features, x.assessed)) :
                               x \in UNION {FoldFits(candidate.method, f) : f \in completed}}
        /\ faults' = [faults EXCEPT !.accidents = @ - (IF failed = {} THEN 0 ELSE 1)]
        /\ UNCHANGED <<runtime, ran, study, directory>>

\* _run_feature_ablations, one feature set: the fixed logistic regression on it
EvaluateAblation ==
    LET i == Len(held.ablations) + 1 IN
    /\ At("ablations")
    /\ i \in DOMAIN Ablations
    /\ EvaluateFolds("ablations", Candidate(i, 1, "none"), Columns[i])

\* rank_feature_set_candidates.  Before it ablation_status needs the median of
\* every feature set: one without a completed fold ends the campaign.
SelectFeatures ==
    /\ At("ablations") /\ Len(held.ablations) = Len(Ablations)
    /\ IF \E i \in DOMAIN held.ablations : held.ablations[i].completed = {} THEN End
       ELSE /\ held' = [held EXCEPT !.stage = "models",
                           !.features = Preferred(held.ablations,
                                            Ranked(held.ablations, DOMAIN held.ablations))]
            /\ UNCHANGED <<ran, fits>>
    /\ UNCHANGED <<runtime, study, directory, faults>>

\* _run_model_campaign, one model on the selected features
EvaluateModel ==
    LET i == Len(held.models) + 1 IN
    /\ At("models")
    /\ i \in DOMAIN Models
    /\ EvaluateFolds("models", Candidate(held.features, i, "none"),
                     Complexity[i] + Columns[held.features])

RankModels ==
    /\ At("models") /\ Len(held.models) = Len(Models)
    /\ held' = [held EXCEPT !.stage = "calibration",
                   !.uncalibrated = Classification(held.models, held.models, held.indexes)]
    /\ UNCHANGED <<runtime, ran, fits, study, directory, faults>>

\* _run_calibration_substudy, one policy for the first of the ranking
EvaluateVariant ==
    LET i == Len(held.variants) + 1
        top == Head(held.uncalibrated.ranked)
    IN /\ At("calibration")
       /\ held.uncalibrated.ranked # <<>> /\ i \in DOMAIN Methods
       /\ EvaluateFolds("variants", Candidate(held.features, top, Methods[i]),
                        Complexity[top] + Columns[held.features] + Offset[i])

Decide ==
    /\ At("calibration")
    /\ held.uncalibrated.ranked = <<>> \/ Len(held.variants) = Len(Methods)
    /\ held' = [held EXCEPT !.stage = "results",
                   !.final = FinalSelection(held.models, held.variants, held.indexes)]
    /\ UNCHANGED <<runtime, ran, fits, study, directory, faults>>

\* The artifacts with one more.
Adding(artifacts, name, content) ==
    [n \in DOMAIN artifacts \cup {name} |-> IF n = name THEN content ELSE artifacts[n]]

\* The campaign goes on: to the evaluation after the last initial artifact, to
\* its end after the index.
Written(name, content) ==
    IF name = "artifact_index" THEN End
    ELSE /\ held' = [held EXCEPT !.written = Adding(@, name, content),
                        !.stage = IF name = "model_registry" THEN "ablations" ELSE @]
         /\ UNCHANGED <<ran, fits>>

\* An artifact that is there is taken for the one to be written.
WriteArtifact_AnyContent ==
    LET name == Artifacts[Cardinality(DOMAIN held.written) + 1] IN
    /\ At("initial") \/ At("results")
    /\ directory' = IF name \in DOMAIN directory THEN directory
                    ELSE Adding(directory, name, Content(name))
    /\ Written(name, Content(name))
    /\ UNCHANGED <<runtime, study, faults>>

\* write_bytes: what is there with other content is a conflict and ends the run.
WriteArtifact ==
    LET name == Artifacts[Cardinality(DOMAIN held.written) + 1] IN
    /\ At("initial") \/ At("results")
    /\ IF name \in DOMAIN directory
       THEN /\ IF directory[name] = Content(name) THEN Written(name, Content(name)) ELSE End
            /\ UNCHANGED directory
       ELSE /\ directory' = Adding(directory, name, Content(name))
            /\ Written(name, Content(name))
    /\ UNCHANGED <<runtime, study, faults>>

\* The process is killed, or an operation outside the folds raises.
Interrupt ==
    /\ held.kind = "campaign"
    /\ faults.interrupts > 0
    /\ faults' = [faults EXCEPT !.interrupts = @ - 1]
    /\ End
    /\ UNCHANGED <<runtime, study, directory>>

CampaignNext ==
    \/ Chain
    \/ StartCampaign
    \/ EvaluateAblation
    \/ SelectFeatures
    \/ EvaluateModel
    \/ RankModels
    \/ EvaluateVariant
    \/ Decide
    \/ WriteArtifact
    \/ Interrupt

CampaignSpec == CampaignInit /\ [][CampaignNext]_campaignVars

---------------------------------------------------------------------------
(* Properties *)

\* The directory holds artifacts of the campaign only, and a campaign runs under
\* the runtime of its identity.
CampaignTypeOK ==
    /\ TypeOK
    /\ DOMAIN directory \subseteq ToSet(Artifacts)
    /\ faults \in [interrupts : 0..MaxInterrupts, accidents : 0..MaxAccidents]
    /\ held.kind = "campaign" => study # Nothing /\ study.runtime = runtime

\* The final test the benchmark makes of a campaign's parent batch.
BenchmarkTests(parent) ==
    UNION {UNION {{s.test : s \in construct_phase2_split(d)} :
                    d \in build_supervised_dataset(fs, ls)} :
             fs \in build_trailing_feature_set(parent),
             ls \in build_forward_label_set(parent, CampaignCosts)}

\* DevelopmentNeverReadsTheFinalTest: no date behind a feature or a label of the
\* dataset that a campaign begins with, and keeps, reaches the final test that the
\* benchmark, computing its own split of the same data, evaluates on
\* (phase2_isolation.py).
DevelopmentNeverReadsTheFinalTest ==
    At("initial") =>
        \A test \in BenchmarkTests(study.of.parent) :
            \A date \in FitReads(held.dataset, Sessions(held.dataset.labels)) :
                date < test.first

Stored(name) == name \in DOMAIN directory

\* IndexedEvidenceReplays: once there is an index, every artifact is there as it
\* says, ranking the stored results again gives the selection stored with them, and
\* the stored report announces a promotion only and always when that selection has
\* one, although several interrupted runs with different failures may have written
\* them (_write_result_artifacts, _write_artifact_index).
IndexedEvidenceReplays ==
    Stored("artifact_index") =>
        /\ \A name \in ToSet(Artifacts) \ {"artifact_index"} :
              Stored(name) /\ directory["artifact_index"][name] = directory[name]
        /\ LET results == directory["classification_results"] IN
           /\ results.final = FinalSelection(results.models, directory["calibration_results"],
                                             directory["fold_manifest"])
           /\ directory["selection_report"].promotion = (results.final.promoted # {})

\* PromotionIsEarned: a promoted variant beats both fixed phase 2 models on the
\* same features by the material delta; and if its uncalibrated rerun completed
\* the folds that the first evaluation did, no rankable model of the campaign
\* discriminates better by more than the tolerance, although only the
\* calibrations of one model were compared (research/selection.py).
PromotionIsEarned ==
    Stored("artifact_index") =>
        LET results == directory["classification_results"]
            variants == directory["calibration_results"]
        IN \A i \in results.final.promoted :
              /\ \A auc \in BaselineAuc(results.models) :
                    variants[i].auc >= auc + 2 * MaterialDelta
              /\ variants[1].completed
                    = results.models[Head(results.uncalibrated.ranked)].completed =>
                    \A k \in Rankable(results.models) :
                        results.models[k].auc <= variants[i].auc + 2 * Tolerance
============================================================================
