----------------------------- MODULE WalkForward ----------------------------
(***************************************************************************)
(* The positional phase 2 split (benchmark/splits.py), the slice that      *)
(* keeps development research out of its final test                        *)
(* (research/phase2_isolation.py), the expanding-window folds              *)
(* (research/folds.py), the calibration split inside a fold                *)
(* (research/calibration.py) and the scopes a fit may have                 *)
(* (research/leakage.py).  Constructors are sets, empty when the code      *)
(* raises, as in SupervisedData.                                           *)
(***************************************************************************)
EXTENDS SupervisedData

CONSTANTS
    GlobalWarmup,    \* global_feature_warmup_rows of the campaign (60)
    Minimums,        \* [rows, positives, negatives] of each partition
    FoldPolicy,      \* [train, assess, step, least]: rows of a fold
    CalibrationRows  \* calibration_window_rows (126)

ASSUME FoldAssumption ==
    /\ GlobalWarmup \in Nat /\ GlobalWarmup >= TRAILING_WARMUP_ROWS
    /\ FoldPolicy \in [train : Nat \ {0}, assess : Nat, step : Nat, least : Nat \ {0}]
    /\ CalibrationRows \in Nat

\* The code's two constants, 6 and 6: the purge is the label horizon.
BOUNDARY_EXCLUSION_SESSIONS == EXIT_OFFSET_SESSIONS

\* Rows first+1 .. last of a frame: frame.iloc[first:last].
Slice(frame, first, last) ==
    SubSeq(frame, first + 1, IF last < Len(frame) THEN last ELSE Len(frame))

---------------------------------------------------------------------------
(* The frozen phase 2 split *)

\* phase2_split_layout_from_prediction_sessions: the 0-based slices
SplitLayout(sessions) ==
    LET n == Len(sessions)
        assignable == n - 2 * BOUNDARY_EXCLUSION_SESSIONS
        train == (assignable * 70) \div 100
        validation == (assignable * 15) \div 100
        from == train + BOUNDARY_EXCLUSION_SESSIONS
        final == from + validation + BOUNDARY_EXCLUSION_SESSIONS
    IN IF n = 0 \/ ~StrictlyIncreasing(sessions) \/ assignable <= 0 THEN {}
       ELSE {l \in {[train |-> <<0, train>>, validation |-> <<from, from + validation>>,
                     test |-> <<final, n>>, sessions |-> sessions]} :
               final + (assignable - train - validation) = n /\ final < n}

FinalTestSessions(layout) == Slice(layout.sessions, layout.test[1], layout.test[2])

\* _assert_minimums
MinimumsHold(name, window) ==
    LET positives == Len(SelectSeq(window, LAMBDA row : row.target = 1)) IN
    /\ Len(window) >= Minimums[name][1]
    /\ positives >= Minimums[name][2]
    /\ Len(window) - positives >= Minimums[name][3]

\* construct_phase2_split
construct_phase2_split(d) ==
    LET Window(l, name) == Slice(d.labels, l[name][1], l[name][2])
        Bounds(l, name) == <<Head(Window(l, name)).session, Last(Window(l, name)).exit>>
        Spec(l) == [name \in PARTITION_NAMES |-> Bounds(l, name)]
    IN UNION {{s \in split_supervised_dataset(d, Spec(l)) :
                 \A name \in PARTITION_NAMES :
                    Sessions(s[name].labels) = Sessions(Window(l, name))} :
              l \in {k \in SplitLayout(Sessions(d.labels)) :
                       \A name \in PARTITION_NAMES :
                          Window(k, name) # <<>> /\ MinimumsHold(name, Window(k, name))}}

---------------------------------------------------------------------------
(* The development slice *)

\* The campaign's own warm-up used in its place.
PredictionUniverse_GlobalWarmup(sessions) ==
    Slice(sessions, GlobalWarmup, Len(sessions) - EXIT_OFFSET_SESSIONS)

\* The prediction sessions the phase 2 split was made on.
PredictionUniverse(sessions) ==
    Slice(sessions, TRAILING_WARMUP_ROWS, Len(sessions) - EXIT_OFFSET_SESSIONS)

BoundaryHolds(b) ==
    /\ b.protected # <<>> /\ StrictlyIncreasing(b.protected)
    /\ b.source_first <= b.source_last
    /\ b.development_first <= b.development_last
    /\ b.development_last < Head(b.protected)
    /\ b.eligible + b.excluded = b.parent_rows

\* derive_phase2_final_test_exclusion_boundary.  The parent comes with the
\* manifest it was verified against (verify_manifest_artifacts), so rows, sessions and
\* symbol agree and _validate_parent_lineage has nothing to refuse.
ExclusionBoundaries(batch) ==
    LET s == Sessions(batch.rows)
        Eligible(layout) == SelectInSeq(s, LAMBDA x : x = Head(FinalTestSessions(layout))) - 1
        Development(layout) ==
            Slice(s, GlobalWarmup, Eligible(layout) - EXIT_OFFSET_SESSIONS)
    IN IF ~StrictlyIncreasing(s) \/ Len(s) <= TRAILING_WARMUP_ROWS + EXIT_OFFSET_SESSIONS
       THEN {}
       ELSE {b \in {[protected |-> FinalTestSessions(l), eligible |-> Eligible(l),
                     excluded |-> Len(s) - Eligible(l), parent_rows |-> Len(s),
                     source_first |-> Head(s), source_last |-> s[Eligible(l)],
                     development_first |-> Head(Development(l)),
                     development_last |-> Last(Development(l)),
                     parent |-> batch.checksum, slice |-> <<batch.checksum, Eligible(l)>>] :
                       l \in {k \in SplitLayout(PredictionUniverse(s)) :
                                Eligible(k) > GlobalWarmup + EXIT_OFFSET_SESSIONS}} :
               BoundaryHolds(b)}

\* _slice_market_data: the eligible rows under a checksum of their own.
SliceMarketData(batch, boundary) ==
    [checksum |-> boundary.slice, rows |-> SubSeq(batch.rows, 1, boundary.eligible)]

\* build_research_feature_matrix: trailing features after the global warm-up.
ResearchFeatures(batch) ==
    IF Len(batch.rows) <= GlobalWarmup \/ ~StrictlyIncreasing(Sessions(batch.rows)) THEN {}
    ELSE {fs \in {[data |-> [i \in 1..(Len(batch.rows) - GlobalWarmup) |->
                     [session |-> batch.rows[i + GlobalWarmup].session,
                      window |-> {batch.rows[j].session : j \in i..(i + GlobalWarmup)}]],
                   source |-> batch.checksum,
                   first |-> batch.rows[GlobalWarmup + 1].session,
                   last |-> Last(batch.rows).session]} : FeatureSetHolds(fs)}

\* build_research_supervised_dataset: the inner join on the session
ResearchDataset(fs, ls) ==
    LET features == RowsAt(fs.data, Sessions(ls.data))
    IN IF fs.source # ls.source \/ features = <<>> THEN {}
       ELSE {[features |-> features, labels |-> RowsAt(ls.data, Sessions(fs.data)),
              source |-> fs.source, row_count |-> Len(features),
              first |-> Head(features).session, last |-> Last(features).session]}

\* validate_supervised_leakage_contract
LeakageContractHolds(d) ==
    \A i \in DOMAIN d.labels :
        d.labels[i].session < d.labels[i].entry /\ d.labels[i].entry < d.labels[i].exit

Touches(sessions, boundary) == ToSet(sessions) \cap ToSet(boundary.protected) # {}

\* validate_phase2_session_isolation of a supervised dataset ...
DatasetIsolated(boundary, d) ==
    /\ \A column \in {Sessions(d.labels), Entries(d.labels), Exits(d.labels)} :
          ~Touches(column, boundary)
    /\ \A i \in DOMAIN d.labels : d.labels[i].exit < Head(boundary.protected)

\* ... and of a fold.
FoldIsolated(boundary, fold) ==
    /\ fold.source = boundary.slice
    /\ \A column \in {Sessions(fold.training), Entries(fold.training), Exits(fold.training),
                      fold.boundary, Sessions(fold.assessment), Entries(fold.assessment),
                      Exits(fold.assessment)} : ~Touches(column, boundary)
    /\ Last(fold.assessment).exit < Head(boundary.protected)

---------------------------------------------------------------------------
(* Walk-forward folds *)

FoldPolicyHolds ==
    FoldPolicy.assess >= FoldPolicy.least /\ FoldPolicy.step > 0

\* SessionWindow and _session_window
WindowHolds(window, least) ==
    /\ window # <<>> /\ Len(window) >= least
    /\ StrictlyIncreasing(Sessions(window)) /\ StrictlyIncreasing(Entries(window))
    /\ StrictlyIncreasing(Exits(window))

\* WalkForwardFold
FoldHolds(fold) ==
    /\ fold.index >= 0
    /\ Len(fold.boundary) = BOUNDARY_EXCLUSION_SESSIONS /\ StrictlyIncreasing(fold.boundary)
    /\ Last(fold.training).session < Head(fold.boundary)
    /\ Head(fold.boundary) < Last(fold.boundary)
    /\ Last(fold.boundary) < Head(fold.assessment).session
    /\ Last(fold.training).exit = Last(fold.boundary)
    /\ Last(fold.training).exit < Head(fold.assessment).session

TrainRows(index) == FoldPolicy.train + index * FoldPolicy.step
AssessedFrom(index) == TrainRows(index) + BOUNDARY_EXCLUSION_SESSIONS

\* _build_fold
BuildFold(d, index) ==
    LET fold == [index |-> index, source |-> d.source,
                 training |-> Slice(d.labels, 0, TrainRows(index)),
                 boundary |-> Sessions(Slice(d.labels, TrainRows(index), AssessedFrom(index))),
                 assessment |-> Slice(d.labels, AssessedFrom(index),
                                      AssessedFrom(index) + FoldPolicy.assess)]
    IN {f \in {fold} :
          /\ Len(f.boundary) = BOUNDARY_EXCLUSION_SESSIONS
          /\ WindowHolds(f.training, FoldPolicy.train)
          /\ WindowHolds(f.assessment, FoldPolicy.least)
          /\ Targets(f.training) = {0, 1} /\ Targets(f.assessment) = {0, 1}
          /\ FoldHolds(f)}

\* construct_walk_forward_manifest: every index with rows enough to assess
FoldIndexes(d) ==
    {k \in 0..Len(d.labels) : Len(d.labels) - AssessedFrom(k) >= FoldPolicy.least}

ManifestHolds(folds, d) ==
    /\ folds # {}
    /\ {f.index : f \in folds} = 0..(Cardinality(folds) - 1)
    /\ \A f \in folds : f.source = d.source

\* _validated_labels
LabelsHold(d, batch) ==
    /\ d.source = batch.checksum
    /\ Head(batch.rows).session <= d.first /\ d.last <= Last(batch.rows).session
    /\ Len(d.features) = Len(d.labels)
    /\ StrictlyIncreasing(Sessions(d.labels))

construct_walk_forward_manifest(d, batch) ==
    IF /\ FoldPolicyHolds /\ LabelsHold(d, batch)
       /\ 0 \in FoldIndexes(d)
       /\ \A k \in FoldIndexes(d) : BuildFold(d, k) # {}
    THEN {m \in {UNION {BuildFold(d, k) : k \in FoldIndexes(d)}} : ManifestHolds(m, d)}
    ELSE {}

---------------------------------------------------------------------------
(* Fits inside a fold *)

\* _validate_calibration_lineage
CalibrationLineageHolds(d, fold) ==
    /\ d.source = fold.source
    /\ \A i \in DOMAIN fold.training :
          /\ Cardinality({k \in DOMAIN d.features :
                            d.features[k].session = fold.training[i].session}) = 1
          /\ Cardinality({k \in DOMAIN d.labels :
                            d.labels[k].session = fold.training[i].session}) = 1

\* CalibrationSplit
CalibrationSplitHolds(split) ==
    /\ split.estimator # <<>> /\ split.calibration # <<>>
    /\ Len(split.inner) = BOUNDARY_EXCLUSION_SESSIONS
    /\ Len(split.outer) = BOUNDARY_EXCLUSION_SESSIONS
    /\ Last(split.estimator) < Head(split.inner) /\ Head(split.inner) < Last(split.inner)
    /\ Last(split.inner) < Head(split.calibration)
    /\ Head(split.calibration) < Last(split.calibration)
    /\ Last(split.calibration) < Head(split.outer)

\* _validate_inner_label_purge
InnerPurgeHolds(d, split) ==
    LET exit == Last(RowsAt(d.labels, split.estimator)).exit IN
    exit = Last(split.inner) /\ exit < Head(split.calibration)

build_calibration_split(d, fold) ==
    LET s == Sessions(fold.training)
        fitted == Len(s) - BOUNDARY_EXCLUSION_SESSIONS - CalibrationRows
    IN IF ~CalibrationLineageHolds(d, fold) \/ fitted <= 0 THEN {}
       ELSE {split \in {[estimator |-> Slice(s, 0, fitted),
                         inner |-> Slice(s, fitted, fitted + BOUNDARY_EXCLUSION_SESSIONS),
                         calibration |-> Slice(s, fitted + BOUNDARY_EXCLUSION_SESSIONS, Len(s)),
                         outer |-> fold.boundary]} :
               /\ InnerPurgeHolds(d, split)
               /\ Len(split.calibration) >= FoldPolicy.least
               /\ Targets(RowsAt(d.labels, split.estimator)) = {0, 1}
               /\ Targets(RowsAt(d.labels, split.calibration)) = {0, 1}
               /\ CalibrationSplitHolds(split)}

CalibrationIsolated(boundary, split) ==
    /\ \A part \in {split.estimator, split.inner, split.calibration, split.outer} :
          ~Touches(part, boundary)
    /\ Last(split.calibration) < Head(boundary.protected)

\* TransformationFitRecord and validate_training_only_fit_scope
FitScopeHolds(fold, sessions) ==
    /\ sessions # <<>> /\ StrictlyIncreasing(sessions)
    /\ ToSet(sessions) \cap ToSet(Sessions(fold.assessment)) = {}
    /\ ToSet(sessions) \cap ToSet(fold.boundary) = {}
    /\ ToSet(sessions) \subseteq ToSet(Sessions(fold.training))

\* What a fit on these sessions reads: the sessions behind every feature and label.
FitReads(d, sessions) ==
    LET features == RowsAt(d.features, sessions) labels == RowsAt(d.labels, sessions) IN
    UNION ({features[i].window : i \in DOMAIN features}
             \cup {labels[i].reads : i \in DOMAIN labels})

\* evaluate_model_candidate, one fold: fitted on its training window
ModelFits(d, fold) ==
    {[sessions |-> s, reads |-> FitReads(d, s), assessed |-> Sessions(fold.assessment),
      fitted_before |-> Head(fold.assessment).session] :
        s \in {w \in {Sessions(fold.training)} : FitScopeHolds(fold, w)}}

\* evaluate_calibration_variant, one fold: an estimator, then a calibrator on
\* its predictions of later rows, then the assessment
CalibratedFits(d, fold, boundary) ==
    UNION {{[sessions |-> s.estimator, reads |-> FitReads(d, s.estimator),
             assessed |-> s.calibration, fitted_before |-> Head(s.calibration)],
            [sessions |-> s.calibration, reads |-> FitReads(d, s.calibration),
             assessed |-> Sessions(fold.assessment),
             fitted_before |-> Head(fold.assessment).session]} :
           s \in {c \in build_calibration_split(d, fold) :
                    /\ CalibrationIsolated(boundary, c)
                    /\ FitScopeHolds(fold, c.estimator)
                    /\ FitScopeHolds(fold, c.calibration)}}
============================================================================
