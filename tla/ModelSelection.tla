--------------------------- MODULE ModelSelection ---------------------------
(***************************************************************************)
(* Candidate training, validation-only selection, the locked refit and the *)
(* final test evaluation (modeling/), and the signals made from it         *)
(* (strategies/).  Each artifact is a record and each of its validators a  *)
(* predicate; every constructor is the set of the artifacts it may return, *)
(* empty when the code raises.  `version` is the scikit-learn version of   *)
(* the running interpreter.                                                *)
(*                                                                         *)
(* The estimators are external: a fitted one assigns some probability of   *)
(* Skills to every session.  What the model keeps of a fit is what it was  *)
(* fitted on: the sessions, every date a value of them was read from       *)
(* ("reads") and the batch.  A probability is a numerator over Scale; a    *)
(* log-loss term is an entry of LogPenalty, both sums are not divided by   *)
(* the row count, and the ROC AUC is twice the pairs ranked right plus the *)
(* pairs tied, so that equal scores are equal and nothing rounds.          *)
(***************************************************************************)
EXTENDS SupervisedData

CONSTANTS
    Scale,        \* probabilities are 0..Scale
    Long,         \* STRATEGY_LONG_PROBABILITY_THRESHOLD as a numerator
    LogPenalty,   \* [0..Scale -> Nat], decreasing: minus log of the probability
    Skills,       \* the probabilities a fitted estimator may assign
    Seeds         \* random seeds

ASSUME ModelAssumption ==
    /\ Scale \in Nat \ {0} /\ Long \in 0..Scale
    /\ LogPenalty \in [0..Scale -> Nat]
    /\ \A p \in 1..Scale : LogPenalty[p] < LogPenalty[p - 1]

MODEL_NAMES == <<"logistic_regression", "gradient_boosting">>
LOGISTIC == MODEL_NAMES[1]
BOOSTING == MODEL_NAMES[2]

UnionOver(frame, f) == UNION {f[i] : i \in DOMAIN frame}

\* The version is recorded and never compared.
RuntimeHolds_Any(recorded, version) == TRUE

\* validate_runtime_sklearn_version, and every comparison with sklearn.__version__
RuntimeHolds(recorded, version) == recorded = version

ThresholdHolds(t) == 0 < t /\ t < Scale
ConfigHolds(config) == config.seed >= 0 /\ ThresholdHolds(config.threshold)

fixed_model_parameters(model, seed) == [model |-> model, random_state |-> seed]
ParametersHold(ps) == ps.model \in ToSet(MODEL_NAMES)

Lineage(a) == [source |-> a.source, spec |-> a.spec]

---------------------------------------------------------------------------
(* Partitions as model inputs *)

\* validate_modeling_partition
ModelingPartition(p, name) ==
    PartitionHolds(p) /\ p.name = name /\ Targets(p.labels) = {0, 1}

\* validate_partition_lineage_and_order
LineageInOrder(earlier, later) ==
    Lineage(earlier) = Lineage(later) /\ earlier.last < later.first

\* Every session a value of the partition was computed from.
ReadBy(p) ==
    UnionOver(p.features, [i \in DOMAIN p.features |-> p.features[i].window])
      \cup UnionOver(p.labels, [i \in DOMAIN p.labels |-> p.labels[i].reads])

---------------------------------------------------------------------------
(* Estimators *)

build_candidate_estimator(model, seed) == [model |-> model, random_state |-> seed]

\* _fit_estimator: fitting either raises or learns from every row it is given.
FitEstimator(estimator, partitions) ==
    {[spec |-> estimator,
      sessions |-> UNION {ToSet(Sessions(p.labels)) : p \in partitions},
      reads |-> UNION {ReadBy(p) : p \in partitions},
      sources |-> {p.source : p \in partitions},
      classes |-> UNION {Targets(p.labels) : p \in partitions},
      skill |-> skill] : skill \in Skills}

LogisticSpecHolds(e, seed) == e.spec = [model |-> LOGISTIC, random_state |-> seed]
BoostingSpecHolds(e, seed) == e.spec = [model |-> BOOSTING, random_state |-> seed]

\* validate_fitted_estimator_spec
FittedEstimatorHolds(e, model, seed) ==
    /\ IF model = LOGISTIC THEN LogisticSpecHolds(e, seed) ELSE BoostingSpecHolds(e, seed)
    /\ e.classes = {0, 1}

positive_class_probabilities(e, frame) == [i \in DOMAIN frame |-> e.skill[frame[i].session]]

---------------------------------------------------------------------------
(* Predictions and their metrics *)

PredictionSetHolds(ps) ==
    LET s == Sessions(ps.data) IN
    /\ ps.model \in ToSet(MODEL_NAMES) /\ ps.partition \in PARTITION_NAMES
    /\ ThresholdHolds(ps.threshold)
    /\ ps.row_count >= 1 /\ Len(ps.data) = ps.row_count
    /\ StrictlyIncreasing(s) /\ ps.first = Head(s) /\ ps.last = Last(s)
    /\ \A i \in DOMAIN ps.data :
          /\ ps.data[i].probability \in 0..Scale
          /\ ps.data[i].target \in {0, 1}
          /\ ps.data[i].predicted = IF ps.data[i].probability >= ps.threshold THEN 1 ELSE 0

build_prediction_set_from_probabilities(p, probabilities, model, config) ==
    {ps \in {[model |-> model, partition |-> p.name, threshold |-> config.threshold,
              data |-> [i \in DOMAIN p.labels |->
                          [session |-> p.labels[i].session, probability |-> probabilities[i],
                           predicted |-> IF probabilities[i] >= config.threshold
                                         THEN 1 ELSE 0,
                           target |-> p.labels[i].target]],
              row_count |-> Len(p.labels), first |-> Head(p.labels).session,
              last |-> Last(p.labels).session]} :
        ConfigHolds(config) /\ PredictionSetHolds(ps)}

\* Rows of one class, and of one cell of the confusion matrix.
Of(data, target) == {i \in DOMAIN data : data[i].target = target}
Cell(data, target, predicted) ==
    Cardinality({i \in Of(data, target) : data[i].predicted = predicted})

RocAuc(data) ==
    LET pairs == Of(data, 1) \X Of(data, 0) IN
    2 * Cardinality({c \in pairs : data[c[1]].probability > data[c[2]].probability})
      + Cardinality({c \in pairs : data[c[1]].probability = data[c[2]].probability})

LogLoss(data) ==
    SumFunction([i \in DOMAIN data |->
        LogPenalty[IF data[i].target = 1 THEN data[i].probability
                   ELSE Scale - data[i].probability]])

BrierScore(data) ==
    SumFunction([i \in DOMAIN data |->
        (data[i].probability - Scale * data[i].target)
          * (data[i].probability - Scale * data[i].target)])

MetricsHold(m) ==
    /\ ThresholdHolds(m.threshold)
    /\ m.rows > 0 /\ m.positive + m.negative = m.rows
    /\ m.positive > 0 /\ m.negative > 0
    /\ m.tn + m.fp = m.negative /\ m.fn + m.tp = m.positive
    /\ m.log_loss >= 0
    /\ m.brier >= 0 /\ m.brier <= m.rows * Scale * Scale
    /\ m.auc >= 0 /\ m.auc <= 2 * m.positive * m.negative

calculate_classification_metrics(ps) ==
    {m \in {[model |-> ps.model, partition |-> ps.partition, threshold |-> ps.threshold,
             rows |-> Len(ps.data), positive |-> Cardinality(Of(ps.data, 1)),
             negative |-> Cardinality(Of(ps.data, 0)),
             log_loss |-> LogLoss(ps.data), brier |-> BrierScore(ps.data),
             auc |-> RocAuc(ps.data),
             tn |-> Cell(ps.data, 0, 0), fp |-> Cell(ps.data, 0, 1),
             fn |-> Cell(ps.data, 1, 0), tp |-> Cell(ps.data, 1, 1)]} :
        PredictionSetHolds(ps) /\ Targets(ps.data) = {0, 1} /\ MetricsHold(m)}

prediction_target_counts(ps) ==
    <<Len(ps.data), Cardinality(Of(ps.data, 1)), Cardinality(Of(ps.data, 0))>>
MetricCounts(m) == <<m.rows, m.positive, m.negative>>

---------------------------------------------------------------------------
(* Candidates *)

\* CandidateModelResult: its parts belong together ...
CandidatePartsHold(c) ==
    LET tp == c.train_predictions vp == c.validation_predictions
        tm == c.train_metrics vm == c.validation_metrics IN
    /\ ParametersHold(c.parameters)
    /\ c.parameters = fixed_model_parameters(c.model, c.seed)
    /\ FittedEstimatorHolds(c.estimator, c.model, c.seed)
    /\ PredictionSetHolds(tp) /\ PredictionSetHolds(vp) /\ MetricsHold(tm) /\ MetricsHold(vm)
    /\ {tp.model, vp.model, tm.model, vm.model} = {c.model}
    /\ {tp.partition, tm.partition} = {"train"}
    /\ {vp.partition, vm.partition} = {"validation"}

\* ... and agree in threshold, counts, windows and runtime.
CandidateHolds(c, version) ==
    LET tp == c.train_predictions vp == c.validation_predictions
        tm == c.train_metrics vm == c.validation_metrics IN
    /\ CandidatePartsHold(c)
    /\ Cardinality({tp.threshold, vp.threshold, tm.threshold, vm.threshold}) = 1
    /\ prediction_target_counts(tp) = MetricCounts(tm)
    /\ prediction_target_counts(vp) = MetricCounts(vm)
    /\ c.spec.train[1] <= tp.first /\ tp.last <= c.spec.train[2]
    /\ c.spec.validation[1] <= vp.first /\ vp.last <= c.spec.validation[2]
    /\ tp.last < vp.first
    /\ RuntimeHolds(c.version, version)

\* One partition's predictions by a fitted estimator, and their metrics.
Scored(e, p, model, config) ==
    UNION {{[predictions |-> ps, metrics |-> m] : m \in calculate_classification_metrics(ps)} :
             ps \in build_prediction_set_from_probabilities(
                      p, positive_class_probabilities(e, p.features), model, config)}

\* _candidate_result
CandidateResults(model, train, validation, config, version) ==
    {c \in UNION {{[model |-> model, estimator |-> e,
                    parameters |-> fixed_model_parameters(model, config.seed),
                    train_predictions |-> t.predictions, train_metrics |-> t.metrics,
                    validation_predictions |-> v.predictions, validation_metrics |-> v.metrics,
                    source |-> train.source, spec |-> train.spec,
                    seed |-> config.seed, version |-> version] :
                      t \in Scored(e, train, model, config),
                      v \in Scored(e, validation, model, config)} :
                    e \in FitEstimator(build_candidate_estimator(model, config.seed), {train})} :
        CandidateHolds(c, version)}

---------------------------------------------------------------------------
(* Selection *)

Snapshot(m) ==
    [model |-> m.model, rows |-> m.rows, positive |-> m.positive, negative |-> m.negative,
     log_loss |-> m.log_loss, brier |-> m.brier, auc |-> m.auc]

SnapshotHolds(s) ==
    /\ s.rows >= 1 /\ s.positive >= 1 /\ s.negative >= 1
    /\ s.positive + s.negative = s.rows
    /\ s.log_loss >= 0 /\ s.brier >= 0 /\ s.auc >= 0

Decision(model, ties) ==
    [selected |-> model, auc_tie |-> ties > 0, log_loss_tie |-> ties > 0, brier_tie |-> ties > 1]

\* choose_model_by_metric_snapshots: the ROC AUC, then the log loss, then the
\* Brier score, then logistic regression.  Equal here is within SELECTION_TIE_TOLERANCE
\* there: two ROC AUCs of one partition that differ do so by at least half a pair, and
\* losses are in units of more than 1e-12.
Choose(l, g) ==
    CASE l.auc # g.auc -> Decision(IF l.auc > g.auc THEN LOGISTIC ELSE BOOSTING, 0)
      [] l.auc = g.auc /\ l.log_loss # g.log_loss ->
            Decision(IF l.log_loss < g.log_loss THEN LOGISTIC ELSE BOOSTING, 1)
      [] l.auc = g.auc /\ l.log_loss = g.log_loss /\ l.brier # g.brier ->
            Decision(IF l.brier < g.brier THEN LOGISTIC ELSE BOOSTING, 2)
      [] OTHER -> Decision(LOGISTIC, 2)

\* choose_model_by_validation_metrics
Decisions(lm, gm) ==
    {Choose(l, g) : l \in {s \in {Snapshot(lm)} : SnapshotHolds(s)},
                    g \in {s \in {Snapshot(gm)} : SnapshotHolds(s)}}

ChooseByValidation(lm, gm) ==
    IF /\ MetricsHold(lm) /\ MetricsHold(gm)
       /\ lm.model = LOGISTIC /\ gm.model = BOOSTING
       /\ lm.partition = "validation" /\ gm.partition = "validation"
    THEN Decisions(lm, gm) ELSE {}

\* LockedModelSelection: what it was chosen from ...
LockEvidenceHolds(k) ==
    /\ [i \in 1..Len(k.snapshots) |-> k.snapshots[i].model] = MODEL_NAMES
    /\ [i \in 1..Len(k.parameters) |-> k.parameters[i].model] = MODEL_NAMES
    /\ k.train_rows >= 1 /\ k.validation_rows >= 1
    /\ \A i \in DOMAIN k.snapshots :
          SnapshotHolds(k.snapshots[i]) /\ k.snapshots[i].rows = k.validation_rows
    /\ Cardinality({k.snapshots[i].positive : i \in DOMAIN k.snapshots}) = 1
    /\ Cardinality({k.snapshots[i].negative : i \in DOMAIN k.snapshots}) = 1

\* ... and where it stands: bounds, canonical parameters, the recomputed decision.
LockHolds(k, version) ==
    /\ LockEvidenceHolds(k)
    /\ k.train_first <= k.train_last /\ k.validation_first <= k.validation_last
    /\ k.train_last < k.validation_first
    /\ k.spec.train[1] <= k.train_first /\ k.train_last <= k.spec.train[2]
    /\ k.spec.validation[1] <= k.validation_first
    /\ k.validation_last <= k.spec.validation[2]
    /\ k.parameters = [i \in 1..2 |-> fixed_model_parameters(MODEL_NAMES[i], k.seed)]
    /\ k.decision = Choose(k.snapshots[1], k.snapshots[2])
    /\ ThresholdHolds(k.threshold)
    /\ RuntimeHolds(k.version, version)

CandidatesAgree(l, g, config) ==
    /\ Lineage(l) = Lineage(g) /\ l.seed = g.seed /\ l.version = g.version
    /\ l.seed = config.seed
    /\ \A c \in {l, g} :
          /\ {c.train_predictions.threshold, c.validation_predictions.threshold,
              c.train_metrics.threshold, c.validation_metrics.threshold} = {config.threshold}
          /\ c.parameters = fixed_model_parameters(c.model, config.seed)

LockOf(l, g, decision, config) ==
    [decision |-> decision,
     snapshots |-> <<Snapshot(l.validation_metrics), Snapshot(g.validation_metrics)>>,
     parameters |-> [i \in 1..2 |-> fixed_model_parameters(MODEL_NAMES[i], config.seed)],
     source |-> l.source, spec |-> l.spec,
     train_rows |-> l.train_predictions.row_count,
     validation_rows |-> l.validation_predictions.row_count,
     train_first |-> l.train_predictions.first, train_last |-> l.train_predictions.last,
     validation_first |-> l.validation_predictions.first,
     validation_last |-> l.validation_predictions.last,
     seed |-> config.seed, threshold |-> config.threshold, version |-> l.version]

select_locked_model(l, g, config, version) ==
    {k \in {LockOf(l, g, d, config) :
              d \in ChooseByValidation(l.validation_metrics, g.validation_metrics)} :
        /\ CandidateHolds(l, version) /\ CandidateHolds(g, version) /\ ConfigHolds(config)
        /\ l.model = LOGISTIC /\ g.model = BOOSTING
        /\ CandidatesAgree(l, g, config)
        /\ LockHolds(k, version)}

---------------------------------------------------------------------------
(* The comparison that training returns *)

\* CandidateModelComparison: one lineage ...
ComparisonLineageHolds(c, version) ==
    /\ CandidateHolds(c.logistic, version) /\ CandidateHolds(c.boosting, version)
    /\ LockHolds(c.lock, version) /\ ConfigHolds(c.config)
    /\ c.logistic.model = LOGISTIC /\ c.boosting.model = BOOSTING
    /\ \A a \in {c.logistic, c.boosting, c.lock} :
          Lineage(a) = Lineage(c) /\ a.seed = c.config.seed /\ a.version = c.version

\* ... and the lock states what the candidates scored.
ComparisonHolds(c, version) ==
    LET k == c.lock IN
    /\ ComparisonLineageHolds(c, version)
    /\ k.threshold = c.config.threshold
    /\ CandidatesAgree(c.logistic, c.boosting, c.config)
    /\ \A r \in {c.logistic, c.boosting} :
          /\ r.train_predictions.row_count = k.train_rows
          /\ r.validation_predictions.row_count = k.validation_rows
          /\ r.train_predictions.first = k.train_first
          /\ r.train_predictions.last = k.train_last
          /\ r.validation_predictions.first = k.validation_first
          /\ r.validation_predictions.last = k.validation_last
    /\ k.snapshots = <<Snapshot(c.logistic.validation_metrics),
                       Snapshot(c.boosting.validation_metrics)>>
    /\ k.parameters = <<c.logistic.parameters, c.boosting.parameters>>

train_candidate_models(train, validation, config, version) ==
    IF /\ ConfigHolds(config)
       /\ ModelingPartition(train, "train") /\ ModelingPartition(validation, "validation")
       /\ LineageInOrder(train, validation)
    THEN {c \in UNION {{[logistic |-> l, boosting |-> g, lock |-> k, config |-> config,
                         source |-> train.source, spec |-> train.spec, version |-> version] :
                           k \in select_locked_model(l, g, config, version)} :
                         l \in CandidateResults(LOGISTIC, train, validation, config, version),
                         g \in CandidateResults(BOOSTING, train, validation, config, version)} :
             ComparisonHolds(c, version)}
    ELSE {}

---------------------------------------------------------------------------
(* The locked refit *)

\* The lineage of the partitions is not compared with the lock's.
LockMatchesPartitions_AnySource(k, train, validation, version) ==
    /\ k.spec = train.spec /\ k.spec = validation.spec
    /\ k.train_rows = train.row_count /\ k.validation_rows = validation.row_count
    /\ k.train_first = train.first /\ k.train_last = train.last
    /\ k.validation_first = validation.first /\ k.validation_last = validation.last
    /\ RuntimeHolds(k.version, version)

\* _verify_locked_selection_matches_partitions
LockMatchesPartitions(k, train, validation, version) ==
    /\ Lineage(k) = Lineage(train) /\ Lineage(k) = Lineage(validation)
    /\ k.train_rows = train.row_count /\ k.validation_rows = validation.row_count
    /\ k.train_first = train.first /\ k.train_last = train.last
    /\ k.validation_first = validation.first /\ k.validation_last = validation.last
    /\ RuntimeHolds(k.version, version)

\* LockedModelBundle: the lock's model and lineage ...
BundleLineageHolds(b, version) ==
    /\ LockHolds(b.lock, version) /\ ParametersHold(b.parameters)
    /\ b.lock.decision.selected = b.model /\ b.parameters.model = b.model
    /\ Lineage(b.lock) = Lineage(b)

\* ... refitted on the lock's rows, with its seed, threshold and runtime.
BundleHolds(b, version) ==
    LET k == b.lock IN
    /\ BundleLineageHolds(b, version)
    /\ b.train_rows + b.validation_rows = b.combined_rows
    /\ b.train_rows = k.train_rows /\ b.validation_rows = k.validation_rows
    /\ b.train_last < b.validation_first
    /\ b.combined_first = b.train_first /\ b.combined_last = b.validation_last
    /\ b.train_first = k.train_first /\ b.train_last = k.train_last
    /\ b.validation_first = k.validation_first /\ b.validation_last = k.validation_last
    /\ b.seed = k.seed /\ b.parameters = fixed_model_parameters(b.model, b.seed)
    /\ ThresholdHolds(b.threshold) /\ b.threshold = k.threshold
    /\ RuntimeHolds(b.version, version) /\ b.version = k.version
    /\ FittedEstimatorHolds(b.estimator, b.model, b.seed)

BundleOf(e, k, train, validation, version) ==
    [model |-> k.decision.selected, estimator |-> e, lock |-> k,
     parameters |-> fixed_model_parameters(k.decision.selected, k.seed),
     source |-> k.source, spec |-> k.spec,
     train_rows |-> train.row_count, validation_rows |-> validation.row_count,
     combined_rows |-> train.row_count + validation.row_count,
     train_first |-> train.first, train_last |-> train.last,
     validation_first |-> validation.first, validation_last |-> validation.last,
     combined_first |-> train.first, combined_last |-> validation.last,
     seed |-> k.seed, threshold |-> k.threshold, version |-> version]

fit_locked_model_on_train_validation(train, validation, k, version) ==
    IF /\ LockHolds(k, version)
       /\ ModelingPartition(train, "train") /\ ModelingPartition(validation, "validation")
       /\ LineageInOrder(train, validation)
       /\ LockMatchesPartitions(k, train, validation, version)
       /\ StrictlyIncreasing(Sessions(train.labels) \o Sessions(validation.labels))
       /\ Targets(train.labels) \cup Targets(validation.labels) = {0, 1}
       /\ fixed_model_parameters(k.decision.selected, k.seed) \in ToSet(k.parameters)
    THEN {b \in {BundleOf(e, k, train, validation, version) :
                   e \in FitEstimator(build_candidate_estimator(k.decision.selected, k.seed),
                                      {train, validation})} :
             BundleHolds(b, version)}
    ELSE {}

---------------------------------------------------------------------------
(* The final test evaluation *)

\* FinalTestEvaluation: the lock's model and lineage ...
EvaluationLineageHolds(v, version) ==
    LET k == v.lock ps == v.predictions m == v.metrics IN
    /\ LockHolds(k, version) /\ PredictionSetHolds(ps) /\ MetricsHold(m)
    /\ k.decision.selected = v.model /\ ps.model = v.model /\ m.model = v.model
    /\ ps.partition = "test" /\ m.partition = "test"
    /\ Lineage(v) = Lineage(k)

\* ... on later sessions, inside the test window, counted alike.
EvaluationHolds(v, version) ==
    LET k == v.lock ps == v.predictions m == v.metrics IN
    /\ EvaluationLineageHolds(v, version)
    /\ v.test_rows >= 1 /\ v.test_first <= v.test_last
    /\ v.spec.test[1] <= v.test_first /\ v.test_last <= v.spec.test[2]
    /\ ps.row_count = v.test_rows /\ m.rows = v.test_rows
    /\ ps.first = v.test_first /\ ps.last = v.test_last
    /\ k.validation_last < v.test_first
    /\ v.seed = k.seed
    /\ ThresholdHolds(v.threshold) /\ v.threshold = k.threshold
    /\ ps.threshold = v.threshold /\ m.threshold = v.threshold
    /\ prediction_target_counts(ps) = MetricCounts(m)
    /\ RuntimeHolds(v.version, version) /\ v.version = k.version

evaluate_locked_model_on_test(b, test, version) ==
    IF /\ BundleHolds(b, version)
       /\ ModelingPartition(test, "test")
       /\ Lineage(test) = Lineage(b)
       /\ b.validation_last < test.first
       /\ RuntimeHolds(b.version, version)
    THEN {v \in {[model |-> b.model, lock |-> b.lock,
                  predictions |-> s.predictions, metrics |-> s.metrics,
                  source |-> b.source, spec |-> b.spec,
                  test_rows |-> s.predictions.row_count, test_first |-> s.predictions.first,
                  test_last |-> s.predictions.last, seed |-> b.seed,
                  threshold |-> b.threshold, version |-> b.version] :
                    s \in Scored(b.estimator, test, b.model,
                                 [seed |-> b.seed, threshold |-> b.threshold])} :
             EvaluationHolds(v, version)}
    ELSE {}

---------------------------------------------------------------------------
(* Signals *)

IndexOf(sessions, s) == CHOOSE i \in DOMAIN sessions : sessions[i] = s

\* StrategySignalSet: each row is executed in the session after its own ...
SignalRowsHold(ss) ==
    LET n == ss.market_sessions IN
    \A i \in DOMAIN ss.data :
        LET row == ss.data[i] IN
        /\ row.session < row.entry
        /\ {row.session, row.entry} \subseteq ToSet(n)
        /\ IndexOf(n, row.entry) = IndexOf(n, row.session) + 1
        /\ ss.spec.test[1] <= row.session /\ row.entry <= ss.spec.test[2]
        /\ row.probability \in 0..Scale
        /\ row.position = IF row.probability >= Long THEN 1 ELSE 0

\* ... and the frame is what its metadata says.
SignalSetHolds(ss, version) ==
    /\ ss.market_sessions # <<>> /\ StrictlyIncreasing(ss.market_sessions)
    /\ RuntimeHolds(ss.version, version)
    /\ ss.row_count > 0 /\ Len(ss.data) = ss.row_count
    /\ StrictlyIncreasing(Sessions(ss.data)) /\ StrictlyIncreasing(Entries(ss.data))
    /\ SignalRowsHold(ss)

\* build_long_cash_strategy_signals; a signal's "entry" is its execution session.
build_long_cash_strategy_signals(v, batch, version) ==
    LET n == [i \in DOMAIN batch.rows |-> batch.rows[i].session]
        data == v.predictions.data
        Following(s) == n[IndexOf(n, s) + 1]
    IN IF /\ EvaluationHolds(v, version)
          /\ batch.checksum = v.source
          /\ StrictlyIncreasing(n)
          /\ \A i \in DOMAIN data :
                /\ data[i].session \in ToSet(n)
                /\ IndexOf(n, data[i].session) + 1 <= Len(n)
                /\ Following(data[i].session) <= v.spec.test[2]
                /\ v.spec.test[1] <= data[i].session
       THEN {ss \in {[data |-> [i \in DOMAIN data |->
                          [session |-> data[i].session, entry |-> Following(data[i].session),
                           probability |-> data[i].probability,
                           position |-> IF data[i].probability >= Long THEN 1 ELSE 0]],
                      model |-> v.model, source |-> v.source, spec |-> v.spec,
                      market_sessions |-> n, row_count |-> Len(data),
                      version |-> v.version]} :
                SignalSetHolds(ss, version)}
       ELSE {}
============================================================================
