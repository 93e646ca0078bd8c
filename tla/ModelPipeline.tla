---------------------------- MODULE ModelPipeline ----------------------------
(***************************************************************************)
(* The learning pipeline as a caller drives it.  The caller holds one      *)
(* derived artifact at a time and passes it to the next function together  *)
(* with raw inputs of any provenance: batches, cost assumptions and split  *)
(* specifications it has lying around.  Between two calls the interpreter  *)
(* may be restarted with another scikit-learn (artifacts survive in the    *)
(* V1 database and come back through the reconstruct functions).           *)
(*                                                                         *)
(* This is the V1 chain train, select, refit, evaluate, signal.  The       *)
(* development campaign of the research package is in ResearchCampaign.    *)
(***************************************************************************)
EXTENDS ModelSelection

CONSTANTS
    Batches,         \* market-data batches of the V1 chain
    Costs,           \* TradingCostAssumptions
    Specs,           \* chronological split specifications
    Thresholds,      \* classification thresholds
    Versions         \* scikit-learn versions, installed in increasing order

ASSUME PipelineAssumption ==
    /\ \A batch \in Batches : batch.rows \in Seq([session : Nat, open : Nat])
    /\ \A a, b \in Batches : a.checksum = b.checksum => a = b   \* SHA-256 of the rows
    /\ \A spec \in Specs, name \in PARTITION_NAMES : spec[name] \in Nat \X Nat
    /\ Thresholds \subseteq Nat /\ 1 \in Versions /\ Versions \subseteq Nat

VARIABLES
    held,       \* the artifact in the caller's hands
    runtime,    \* the scikit-learn version of the interpreter
    ran,        \* versions that fitted or predicted for the artifact held
    fits        \* what was fitted for it, on what, and what it then scored

vars == <<held, runtime, ran, fits>>

Nothing == [kind |-> "nothing"]
Kinds == {"nothing", "comparison", "bundle", "evaluation", "signals", "campaign"}

\* Everything split_supervised_dataset can return, with the costs of its labels.
Splits ==
    UNION {UNION {UNION {{[costs |-> c, parts |-> s] : s \in split_supervised_dataset(d, spec)} :
                           d \in build_supervised_dataset(fs, ls)} :
                    fs \in build_trailing_feature_set(batch),
                    ls \in build_forward_label_set(batch, c)} :
             batch \in Batches, c \in Costs, spec \in Specs}

\* A fit, the first session it scored, and the sessions behind each row scored.
Fit(reads, frame) ==
    [reads |-> reads, before |-> Head(frame).session,
     inputs |-> {[session |-> frame[i].session, window |-> frame[i].window] :
                    i \in DOMAIN frame}]

Init ==
    /\ held = Nothing
    /\ runtime = 1
    /\ ran = {}
    /\ fits = {}

\* Both programs start from raw inputs only: nothing held matters to them.
Train ==
    /\ held = Nothing
    /\ \E s \in Splits, threshold \in Thresholds, seed \in Seeds :
       \E c \in train_candidate_models(s.parts.train, s.parts.validation,
                   [seed |-> seed, threshold |-> threshold], runtime) :
          /\ held' = [kind |-> "comparison", is |-> c]
          /\ ran' = {runtime}
          /\ fits' = {Fit(r.estimator.reads, s.parts.validation.features) :
                        r \in {c.logistic, c.boosting}}
    /\ UNCHANGED runtime

FitLocked ==
    /\ held.kind = "comparison"
    /\ \E s \in Splits :
       \E b \in fit_locked_model_on_train_validation(
                    s.parts.train, s.parts.validation, held.is.lock, runtime) :
          /\ held' = [kind |-> "bundle", is |-> b]
          /\ ran' = ran \cup {runtime}
          /\ fits' = {}
    /\ UNCHANGED runtime

Evaluate ==
    /\ held.kind = "bundle"
    /\ \E s \in Splits :
       \E v \in evaluate_locked_model_on_test(held.is, s.parts.test, runtime) :
          /\ held' = [kind |-> "evaluation", is |-> v]
          /\ ran' = ran \cup {runtime}
          /\ fits' = {Fit(held.is.estimator.reads, s.parts.test.features)}
    /\ UNCHANGED runtime

BuildSignals ==
    /\ held.kind = "evaluation"
    /\ \E batch \in Batches :
       \E ss \in build_long_cash_strategy_signals(held.is, batch, runtime) :
          held' = [kind |-> "signals", is |-> ss]
    /\ UNCHANGED <<runtime, ran, fits>>

\* The interpreter is restarted with a later scikit-learn.
Upgrade ==
    /\ runtime + 1 \in Versions
    /\ runtime' = runtime + 1
    /\ UNCHANGED <<held, ran, fits>>

Next ==
    \/ Train
    \/ FitLocked
    \/ Evaluate
    \/ BuildSignals
    \/ Upgrade

Spec == Init /\ [][Next]_vars

---------------------------------------------------------------------------
(* Properties *)

TypeOK ==
    /\ held.kind \in Kinds
    /\ runtime \in Versions
    /\ ran \subseteq Versions
    /\ \A f \in fits : f.before \in Nat /\ f.reads \subseteq Nat /\ f.inputs # {}

\* NoLookAhead: nothing that is fitted, by the V1 chain or in a fold of a
\* campaign, estimator or calibrator, is scored on a session at or before any
\* date behind a feature or a label it was fitted on: the purge covers the label
\* horizon.  No row is scored on features that were not known when its session
\* closed (datasets/splits.py, included_mask; research/folds.py, calibration.py).
NoLookAhead ==
    \A f \in fits :
        /\ \A date \in f.reads : date < f.before
        /\ \A row \in f.inputs : \A date \in row.window : date <= row.session

\* OneRuntime: the candidates, the refit and the test predictions behind an
\* evaluation or its signals were computed by one scikit-learn version
\* (validate_runtime_sklearn_version in every validator).
OneRuntime == Cardinality(ran) <= 1

\* RefitOnSelectionData: the locked model is refitted on exactly the batch and
\* the sessions its selection was made on, whatever partitions the caller hands
\* in (_verify_locked_selection_matches_partitions).
RefitOnSelectionData ==
    [][(held.kind = "comparison" /\ held'.kind = "bundle") =>
         LET l == held.is.logistic e == held'.is.estimator IN
         /\ e.sources = {held.is.source}
         /\ e.sessions = ToSet(Sessions(l.train_predictions.data))
                           \cup ToSet(Sessions(l.validation_predictions.data))]_vars
============================================================================
