------------------------ MODULE ResearchCampaignProofs ------------------------
(***************************************************************************)
(* Proofs about the learning pipeline and the campaign after it, for any   *)
(* market data, bounds, score tables, feature sets, models, interruptions  *)
(* and failing folds.  First: one scikit-learn version computes what an    *)
(* evaluation rests on, and an index stands for evidence that replays.     *)
(* Then: nothing that is fitted has seen what it is scored on.  Last: what *)
(* the stored report promotes is as good as it has to be.                  *)
(***************************************************************************)
EXTENDS ResearchCampaign, FunctionTheorems, FiniteSetTheorems, WellFoundedInduction, TLAPS

Index == "artifact_index"
Names(n) == {Artifacts[i] : i \in 1..n}
Stages == {"initial", "ablations", "models", "calibration", "results"}
Fields == {"kind", "stage", "created", "boundary", "dataset", "folds", "indexes", "written",
           "ablations", "features", "models", "uncalibrated", "variants", "final"}

(***************************************************************************)
(* One runtime.  The lock in the caller's hands carries the version that   *)
(* computed everything so far, and every constructor compares it with the  *)
(* interpreter's before it computes anything (RuntimeOfLock).              *)
(***************************************************************************)
RuntimeOfLock ==
    /\ held.kind \in {"comparison", "bundle"} => ran = {held.is.lock.version}
    /\ \E v : ran \subseteq {v}

\* A campaign in memory keeps its fields.
FieldsOK == held.kind = "campaign" => DOMAIN held = Fields

(***************************************************************************)
(* The evidence.  A run has written the artifacts in their order, all of   *)
(* them as the directory has them (InOrder, AsStored), the result artifacts*)
(* state what it decided (Decided); a directory without a campaign behind  *)
(* it is empty (Fresh).  So who writes the index has compared everything.  *)
(***************************************************************************)
Fresh == study = Nothing => DOMAIN directory = {} /\ held.kind # "campaign"

InOrder ==
    held.kind = "campaign" =>
      /\ held.stage \in Stages
      /\ \E n \in 0..9 :
            /\ DOMAIN held.written = Names(n)
            /\ held.stage = "initial" => n < 4
            /\ held.stage = "results" => n >= 4
            /\ held.stage \notin {"initial", "results"} => n = 4

AsStored ==
    held.kind = "campaign" =>
      \A a \in DOMAIN held.written : a \in DOMAIN directory /\ directory[a] = held.written[a]

Decided ==
    held.kind = "campaign" =>
      LET w == held.written IN
      /\ "fold_manifest" \in DOMAIN w => w["fold_manifest"] = held.indexes
      /\ held.stage = "results" =>
           /\ held.final = FinalSelection(held.models, held.variants, held.indexes)
           /\ "classification_results" \in DOMAIN w =>
                /\ w["classification_results"].models = held.models
                /\ w["classification_results"].final = held.final
           /\ "calibration_results" \in DOMAIN w => w["calibration_results"] = held.variants
           /\ "selection_report" \in DOMAIN w =>
                w["selection_report"].promotion = (held.final.promoted # {})

EvidenceInv == FieldsOK /\ Fresh /\ InOrder /\ AsStored /\ Decided /\ IndexedEvidenceReplays

---------------------------------------------------------------------------
(* Lemmas about names and constructors *)

LEMMA ArtifactNames ==
    /\ Artifacts[1] = "experiment_manifest" /\ Artifacts[2] = "fold_manifest"
    /\ Artifacts[3] = "feature_registry" /\ Artifacts[4] = "model_registry"
    /\ Artifacts[5] = "hyperparameter_trials" /\ Artifacts[6] = "classification_results"
    /\ Artifacts[7] = "calibration_results" /\ Artifacts[8] = "regime_drift_results"
    /\ Artifacts[9] = "selection_report" /\ Artifacts[10] = Index
    BY DEF Artifacts, InitialArtifacts, ResultArtifacts, Index

LEMMA AllNames == ToSet(Artifacts) = Names(10)
    <1>1. DOMAIN Artifacts = 1..10
        BY DEF Artifacts, InitialArtifacts, ResultArtifacts
    <1> QED
        BY <1>1 DEF Names, ToSet

LEMMA NamesDiffer == \A i, j \in 1..10 : Artifacts[i] = Artifacts[j] => i = j
    <1> DEFINE Distinct(i) == \A j \in 1..10 : Artifacts[i] = Artifacts[j] => i = j
    <1>1. \A j \in 1..10 : j \in {1, 2, 3, 4, 5, 6, 7, 8, 9, 10}
        OBVIOUS
    <1>2. Distinct(1) /\ Distinct(2) /\ Distinct(3) /\ Distinct(4) /\ Distinct(5)
        BY <1>1, ArtifactNames DEF Index
    <1>3. Distinct(6) /\ Distinct(7) /\ Distinct(8) /\ Distinct(9) /\ Distinct(10)
        BY <1>1, ArtifactNames DEF Index
    <1>4. \A i \in {1, 2, 3, 4, 5, 6, 7, 8, 9, 10} : Distinct(i)
        <2> HIDE DEF Distinct
        <2> QED
            BY <1>2, <1>3
    <1> QED
        BY <1>1, <1>4

LEMMA NamesCount == \A n \in 0..9 : Cardinality(Names(n)) = n
    <1> SUFFICES ASSUME NEW n \in 0..9 PROVE Cardinality(Names(n)) = n
        OBVIOUS
    <1>1. Cardinality(1..n) = n /\ IsFiniteSet(1..n)
        <2>1. /\ IsFiniteSet(1..n)
              /\ Cardinality(1..n) = IF 1 > n THEN 0 ELSE n - 1 + 1
            BY FS_Interval
        <2> QED
            BY <2>1
    <1> DEFINE f == [i \in 1..n |-> Artifacts[i]]
    <1>2. f \in Bijection(1..n, Names(n))
        <2>1. f \in [1..n -> Names(n)]
            BY DEF Names
        <2>2. \A i, j \in 1..n : f[i] = f[j] => i = j
            BY NamesDiffer
        <2>3. \A a \in Names(n) : \E i \in 1..n : f[i] = a
            BY DEF Names
        <2> QED
            BY <2>1, <2>2, <2>3, Fun_IsBij
    <1>3. ExistsBijection(1..n, Names(n))
        BY <1>2 DEF ExistsBijection
    <1> QED
        BY <1>1, <1>3, FS_Bijection

\* What training and refitting return carries the version they ran under.
LEMMA TrainedUnder ==
    ASSUME NEW t, NEW v, NEW config, NEW version,
           NEW c \in train_candidate_models(t, v, config, version)
    PROVE  c.lock.version = version
    BY DEF train_candidate_models, ComparisonHolds, ComparisonLineageHolds, LockHolds, RuntimeHolds

LEMMA RefittedUnder ==
    ASSUME NEW t, NEW v, NEW lock, NEW version,
           NEW b \in fit_locked_model_on_train_validation(t, v, lock, version)
    PROVE  lock.version = version /\ b.lock.version = version
    BY DEF fit_locked_model_on_train_validation, BundleHolds, BundleLineageHolds, LockHolds,
       RuntimeHolds

LEMMA EvaluatedUnder ==
    ASSUME NEW b, NEW t, NEW version, NEW e \in evaluate_locked_model_on_test(b, t, version)
    PROVE  b.lock.version = version
    BY DEF evaluate_locked_model_on_test, BundleHolds, BundleLineageHolds, LockHolds, RuntimeHolds

\* A decision follows from what was ranked and the score table.
LEMMA SameDecision ==
    ASSUME study' = study, NEW models, NEW variants, NEW folds
    PROVE  FinalSelection(models, variants, folds)' = FinalSelection(models, variants, folds)
    BY DEF FinalSelection, Classification, PromotionAllowed

---------------------------------------------------------------------------
(* The pipeline before a campaign *)

\* The chain holds V1 artifacts and keeps to one runtime.
LEMMA ChainStep ==
    ASSUME RuntimeOfLock, FieldsOK, Next
    PROVE  RuntimeOfLock' /\ (held.kind # "campaign" => held'.kind # "campaign")
    <1>1. CASE Train
        <2>1. PICK t, v, config, c :
                 /\ c \in train_candidate_models(t, v, config, runtime)
                 /\ held' = [kind |-> "comparison", is |-> c] /\ ran' = {runtime}
            BY <1>1 DEF Train
        <2> QED
            BY <2>1, TrainedUnder DEF RuntimeOfLock
    <1>2. CASE FitLocked
        <2>1. PICK t, v, b : /\ b \in fit_locked_model_on_train_validation(t, v, held.is.lock, runtime)
                             /\ held' = [kind |-> "bundle", is |-> b] /\ ran' = ran \cup {runtime}
            BY <1>2 DEF FitLocked
        <2>2. held.is.lock.version = runtime /\ b.lock.version = runtime
            BY <2>1, RefittedUnder
        <2>3. ran' = {runtime}
            BY <1>2, <2>1, <2>2 DEF FitLocked, RuntimeOfLock
        <2> QED
            BY <2>1, <2>2, <2>3 DEF RuntimeOfLock
    <1>3. CASE Evaluate
        <2>1. PICK t, e : /\ e \in evaluate_locked_model_on_test(held.is, t, runtime)
                          /\ held' = [kind |-> "evaluation", is |-> e] /\ ran' = ran \cup {runtime}
            BY <1>3 DEF Evaluate
        <2>2. held.is.lock.version = runtime
            BY <2>1, EvaluatedUnder
        <2>3. ran' = {runtime}
            BY <1>3, <2>1, <2>2 DEF Evaluate, RuntimeOfLock
        <2> QED
            BY <2>1, <2>3 DEF RuntimeOfLock
    <1>4. CASE BuildSignals
        <2>1. held'.kind = "signals" /\ UNCHANGED ran
            BY <1>4 DEF BuildSignals
        <2> QED
            BY <2>1 DEF RuntimeOfLock
    <1>5. CASE Upgrade
        BY <1>5 DEF Upgrade, RuntimeOfLock
    <1> QED
        BY <1>1, <1>2, <1>3, <1>4, <1>5 DEF Next

---------------------------------------------------------------------------
(* The campaign *)

\* An evaluation adds to the results in memory and leaves the evidence alone.
LEMMA EvaluationKeeps ==
    ASSUME EvidenceInv, held.kind = "campaign", held.stage \notin {"initial", "results"},
           UNCHANGED <<study, directory>>,
           NEW change \in SUBSET {"stage", "ablations", "features", "models", "uncalibrated",
                                  "variants", "final"},
           DOMAIN held' = Fields,
           \A x \in Fields \ change : held'[x] = held[x],
           held'.stage \in Stages \ {"initial"},
           held'.stage = "results" =>
             held'.final = FinalSelection(held'.models, held'.variants, held'.indexes)
    PROVE  EvidenceInv'
    <1>1. /\ held'.kind = "campaign" /\ held'.written = held.written
          /\ held'.indexes = held.indexes
        BY DEF Fields
    <1>2. FieldsOK' /\ Fresh'
        BY <1>1 DEF EvidenceInv, FieldsOK, Fresh
    <1>3. DOMAIN held.written = Names(4)
        BY DEF EvidenceInv, InOrder
    <1>4. InOrder' /\ AsStored'
        BY <1>1, <1>3 DEF EvidenceInv, InOrder, AsStored, Stages
    <1>5. {"classification_results", "calibration_results", "selection_report"} \cap Names(4) = {}
        BY ArtifactNames, NamesDiffer DEF Names
    <1>6. FinalSelection(held'.models, held'.variants, held'.indexes)
            = FinalSelection(held.models, held.variants, held.indexes)'
        BY DEF FinalSelection, Classification, PromotionAllowed
    <1>7. Decided'
        BY <1>1, <1>3, <1>5, <1>6 DEF EvidenceInv, Decided
    <1>8. IndexedEvidenceReplays'
        BY DEF EvidenceInv, IndexedEvidenceReplays, Stored, FinalSelection, Classification,
           PromotionAllowed
    <1> QED
        BY <1>2, <1>4, <1>7, <1>8 DEF EvidenceInv

\* The name written next: the first that has not been written.
LEMMA NextName ==
    ASSUME EvidenceInv, At("initial") \/ At("results")
    PROVE  \E n \in 0..9 : /\ DOMAIN held.written = Names(n)
                           /\ Artifacts[Cardinality(DOMAIN held.written) + 1] = Artifacts[n + 1]
                           /\ Artifacts[n + 1] \notin Names(n)
                           /\ Names(n + 1) = Names(n) \cup {Artifacts[n + 1]}
                           /\ held.stage = "initial" => n < 4
                           /\ held.stage = "results" => n >= 4
    <1>1. PICK n \in 0..9 : /\ DOMAIN held.written = Names(n)
                            /\ held.stage = "initial" => n < 4
                            /\ held.stage = "results" => n >= 4
        BY DEF EvidenceInv, InOrder, At
    <1>2. Artifacts[n + 1] \notin Names(n)
        BY NamesDiffer DEF Names
    <1>3. Names(n + 1) = Names(n) \cup {Artifacts[n + 1]}
        BY DEF Names
    <1> QED
        BY <1>1, <1>2, <1>3, NamesCount

\* What a run writes under the names the index vouches for.
LEMMA ContentOf ==
    /\ Content("fold_manifest") = held.indexes
    /\ Content("classification_results").models = held.models
    /\ Content("classification_results").final = held.final
    /\ Content("calibration_results") = held.variants
    /\ Content("selection_report").promotion = (held.final.promoted # {})
    /\ Content(Index) = held.written
    BY DEF Content, Index

\* A campaign that ends leaves the directory as it is.
LEMMA EndKeeps ==
    ASSUME EvidenceInv, End, UNCHANGED study, UNCHANGED directory
    PROVE  EvidenceInv' /\ RuntimeOfLock'
    <1>1. held'.kind = "nothing" /\ ran' = {}
        BY DEF End, Nothing
    <1>2. IndexedEvidenceReplays'
        BY DEF EvidenceInv, IndexedEvidenceReplays, Stored, FinalSelection, Classification,
           PromotionAllowed
    <1> QED
        BY <1>1, <1>2 DEF EvidenceInv, FieldsOK, Fresh, InOrder, AsStored, Decided, RuntimeOfLock

\* An index that is there stays true; one that is written has been earned.
LEMMA IndexEarned ==
    ASSUME EvidenceInv, At("initial") \/ At("results"), NEW n \in 0..9,
           DOMAIN held.written = Names(n), held.stage = "initial" => n < 4,
           UNCHANGED study,
           \/ UNCHANGED directory
           \/ /\ Artifacts[n + 1] \notin DOMAIN directory
              /\ directory' = Adding(directory, Artifacts[n + 1], Content(Artifacts[n + 1]))
    PROVE  IndexedEvidenceReplays'
    <1> DEFINE name == Artifacts[n + 1]
    <1>1. name \in ToSet(Artifacts) /\ Index \in ToSet(Artifacts)
        BY AllNames, ArtifactNames DEF Names
    <1>2. CASE UNCHANGED directory
        BY <1>2 DEF EvidenceInv, IndexedEvidenceReplays, Stored, FinalSelection, Classification,
           PromotionAllowed
    <1>3. CASE Stored(Index)
        <2>1. name \in DOMAIN directory
            BY <1>1, <1>3 DEF EvidenceInv, IndexedEvidenceReplays, Stored, Index
        <2> QED
            BY <2>1, <1>2
    <1>4. CASE /\ name \notin DOMAIN directory /\ ~Stored(Index)
               /\ directory' = Adding(directory, name, Content(name))
        <2>1. CASE name # Index
            <3>1. ~Stored(Index)'
                BY <1>4, <2>1 DEF Stored, Adding
            <3> QED
                BY <3>1 DEF IndexedEvidenceReplays, Index
        <2>2. CASE name = Index
            <3>1. n = 9 /\ held.stage = "results"
                BY <2>2, NamesDiffer, ArtifactNames DEF At
            <3>2. ToSet(Artifacts) \ {Index} = DOMAIN held.written
                BY <3>1, AllNames, NamesDiffer, ArtifactNames DEF Names
            <3>3. directory'[Index] = held.written /\ Stored(Index)'
                BY <1>4, <2>2, ContentOf DEF Adding, Stored
            <3>4. \A a \in DOMAIN held.written : /\ a \in DOMAIN directory' /\ a # Index
                                                 /\ directory'[a] = held.written[a]
                BY <1>4, <2>2, <3>2 DEF EvidenceInv, AsStored, Adding, At
            <3>5. {"fold_manifest", "classification_results", "calibration_results",
                   "selection_report"} \subseteq DOMAIN held.written
                BY <3>2, AllNames, ArtifactNames DEF Names, Index
            <3>6. /\ directory'["fold_manifest"] = held.indexes
                  /\ directory'["classification_results"].models = held.models
                  /\ directory'["classification_results"].final = held.final
                  /\ directory'["calibration_results"] = held.variants
                  /\ directory'["selection_report"].promotion = (held.final.promoted # {})
                  /\ held.final = FinalSelection(held.models, held.variants, held.indexes)
                BY <3>1, <3>4, <3>5 DEF EvidenceInv, Decided, At
            <3>7. FinalSelection(directory["classification_results"].models,
                                 directory["calibration_results"], directory["fold_manifest"])'
                    = FinalSelection(held.models, held.variants, held.indexes)
                BY <3>6 DEF FinalSelection, Classification, PromotionAllowed
            <3> QED
                BY <3>2, <3>3, <3>4, <3>6, <3>7 DEF IndexedEvidenceReplays, Stored, Index
        <2> QED
            BY <2>1, <2>2
    <1> QED
        BY <1>2, <1>3, <1>4

LEMMA WriteKeeps ==
    ASSUME EvidenceInv, RuntimeOfLock, WriteArtifact
    PROVE  EvidenceInv' /\ RuntimeOfLock'
    <1>1. held.kind = "campaign" /\ study # Nothing /\ UNCHANGED study
        BY DEF WriteArtifact, At, EvidenceInv, Fresh
    <1>2. PICK n \in 0..9 : /\ DOMAIN held.written = Names(n)
                            /\ Artifacts[Cardinality(DOMAIN held.written) + 1] = Artifacts[n + 1]
                            /\ Artifacts[n + 1] \notin Names(n)
                            /\ Names(n + 1) = Names(n) \cup {Artifacts[n + 1]}
                            /\ held.stage = "initial" => n < 4
                            /\ held.stage = "results" => n >= 4
        BY NextName DEF WriteArtifact
    <1> DEFINE name == Artifacts[n + 1] content == Content(name)
    <1>3. At("initial") \/ At("results")
        BY DEF WriteArtifact
    <1>4. \/ End /\ UNCHANGED directory
          \/ /\ name \in DOMAIN directory /\ directory[name] = content /\ UNCHANGED directory
             /\ Written(name, content)
          \/ /\ name \notin DOMAIN directory /\ directory' = Adding(directory, name, content)
             /\ Written(name, content)
        BY <1>2 DEF WriteArtifact
    <1>5. CASE End /\ UNCHANGED directory
        BY <1>1, <1>5, EndKeeps
    <1>6. CASE /\ Written(name, content)
               /\ \/ UNCHANGED directory /\ name \in DOMAIN directory /\ directory[name] = content
                  \/ /\ name \notin DOMAIN directory
                     /\ directory' = Adding(directory, name, content)
        <2>1. IndexedEvidenceReplays'
            BY <1>1, <1>2, <1>3, <1>6, IndexEarned
        <2>2. /\ name \in DOMAIN directory' /\ directory'[name] = content
              /\ \A a \in DOMAIN directory : a \in DOMAIN directory' /\ directory'[a] = directory[a]
            BY <1>6 DEF Adding
        <2>3. CASE name = Index
            <3>1. held'.kind = "nothing" /\ ran' = {}
                BY <1>6, <2>3 DEF Written, End, Nothing, Index
            <3> QED
                BY <1>1, <2>1, <3>1
                DEF EvidenceInv, FieldsOK, Fresh, InOrder, AsStored, Decided, RuntimeOfLock
        <2>4. CASE name # Index
            <3>1. /\ held' = [held EXCEPT !.written = Adding(held.written, name, content),
                                          !.stage = IF name = "model_registry" THEN "ablations" ELSE @]
                  /\ UNCHANGED ran
                BY <1>6, <2>4 DEF Written, Index
            <3>2. DOMAIN held = Fields
                BY <1>1 DEF EvidenceInv, FieldsOK
            <3>3. /\ DOMAIN held' = Fields
                  /\ held'.written = Adding(held.written, name, content)
                  /\ held'.stage = IF name = "model_registry" THEN "ablations" ELSE held.stage
                  /\ \A x \in Fields \ {"written", "stage"} : held'[x] = held[x]
                BY <3>1, <3>2 DEF Fields
            <3>4. /\ held'.kind = "campaign" /\ held'.indexes = held.indexes
                  /\ held'.models = held.models /\ held'.variants = held.variants
                  /\ held'.final = held.final
                BY <1>1, <3>3 DEF Fields
            <3>5. /\ DOMAIN held'.written = Names(n + 1)
                  /\ held'.written[name] = content
                  /\ \A a \in Names(n) : held'.written[a] = held.written[a]
                BY <1>2, <3>3 DEF Adding
            <3>6. n # 9 /\ (n = 3 <=> name = "model_registry")
                BY <2>4, NamesDiffer, ArtifactNames
            <3>7. FieldsOK' /\ Fresh'
                BY <1>1, <3>3 DEF FieldsOK, Fresh
            <3>8. InOrder'
                BY <1>2, <1>3, <3>3, <3>4, <3>5, <3>6 DEF InOrder, Stages, At
            <3>9. AsStored'
                BY <1>1, <1>2, <2>2, <3>5 DEF EvidenceInv, AsStored
            <3>10. FinalSelection(held.models, held.variants, held.indexes)'
                     = FinalSelection(held.models, held.variants, held.indexes)
                BY <1>1, <3>4 DEF FinalSelection, Classification, PromotionAllowed
            <3>11. Decided'
                BY <1>1, <1>2, <1>3, <3>3, <3>4, <3>5, <3>6, <3>10, ContentOf
                DEF EvidenceInv, Decided, At
            <3> QED
                BY <2>1, <3>1, <3>4, <3>7, <3>8, <3>9, <3>11 DEF EvidenceInv, RuntimeOfLock
        <2> QED
            BY <2>3, <2>4
    <1> QED
        BY <1>4, <1>5, <1>6

\* A campaign that starts has written nothing; the directory is an earlier run's.
LEMMA StartKeeps ==
    ASSUME EvidenceInv, StartCampaign
    PROVE  EvidenceInv' /\ RuntimeOfLock'
    <1>1. /\ held'.kind = "campaign" /\ held'.stage = "initial" /\ held'.written = <<>>
          /\ DOMAIN held' = Fields
          /\ ran' = {runtime} /\ UNCHANGED directory
        BY DEF StartCampaign, Fields
    <1>2. study' # Nothing /\ (study' = study \/ study = Nothing)
        BY DEF StartCampaign, Nothing
    <1>3. DOMAIN held'.written = {} /\ Names(0) = {}
        BY <1>1 DEF Names
    <1>4. IndexedEvidenceReplays'
        <2>1. CASE study = Nothing
            BY <1>1, <2>1 DEF EvidenceInv, Fresh, IndexedEvidenceReplays, Stored
        <2>2. CASE study' = study
            BY <1>1, <2>2 DEF EvidenceInv, IndexedEvidenceReplays, Stored, FinalSelection,
               Classification, PromotionAllowed
        <2> QED
            BY <1>2, <2>1, <2>2
    <1>5. InOrder'
        BY <1>1, <1>3 DEF InOrder, Stages
    <1>6. FieldsOK' /\ Fresh' /\ AsStored' /\ Decided'
        BY <1>1, <1>2, <1>3 DEF FieldsOK, Fresh, AsStored, Decided
    <1> QED
        BY <1>1, <1>4, <1>5, <1>6 DEF EvidenceInv, RuntimeOfLock

\* One candidate over its folds.
LEMMA CandidateKeeps ==
    ASSUME EvidenceInv, RuntimeOfLock, EvaluateAblation \/ EvaluateModel \/ EvaluateVariant
    PROVE  EvidenceInv' /\ RuntimeOfLock'
    <1>1. PICK results \in {"ablations", "models", "variants"} :
             /\ \E value : held' = [held EXCEPT ![results] = value]
             /\ UNCHANGED <<ran, study, directory>>
        BY DEF EvaluateAblation, EvaluateModel, EvaluateVariant, EvaluateFolds
    <1>2. held.kind = "campaign" /\ held.stage \in {"ablations", "models", "calibration"}
        BY DEF EvaluateAblation, EvaluateModel, EvaluateVariant, At
    <1>3. /\ DOMAIN held = Fields /\ DOMAIN held' = Fields
          /\ \A x \in Fields \ {results} : held'[x] = held[x]
        BY <1>1, <1>2 DEF EvidenceInv, FieldsOK
    <1>4. held'.kind = "campaign" /\ held'.stage = held.stage
        BY <1>2, <1>3 DEF Fields
    <1>5. EvidenceInv'
        BY <1>1, <1>2, <1>3, <1>4, EvaluationKeeps DEF Stages
    <1> QED
        BY <1>1, <1>4, <1>5 DEF RuntimeOfLock

\* A selection, a ranking, the decision.
LEMMA RankingKeeps ==
    ASSUME EvidenceInv, RuntimeOfLock, SelectFeatures \/ RankModels \/ Decide
    PROVE  EvidenceInv' /\ RuntimeOfLock'
    <1>1. /\ held.kind = "campaign" /\ held.stage \in {"ablations", "models", "calibration"}
          /\ UNCHANGED <<study, directory>>
        BY DEF SelectFeatures, RankModels, Decide, At
    <1>2. DOMAIN held = Fields
        BY <1>1 DEF EvidenceInv, FieldsOK
    <1>3. CASE End
        BY <1>1, <1>3, EndKeeps
    <1>4. CASE /\ SelectFeatures /\ ~End
        <2>1. PICK choice :
                 held' = [held EXCEPT !.stage = "models", !.features = choice] /\ UNCHANGED ran
            BY <1>4 DEF SelectFeatures
        <2>2. /\ DOMAIN held' = Fields /\ held'.stage = "models"
              /\ \A x \in Fields \ {"stage", "features"} : held'[x] = held[x]
            BY <1>2, <2>1 DEF Fields
        <2>3. EvidenceInv'
            BY <1>1, <2>2, EvaluationKeeps DEF Stages
        <2> QED
            BY <1>1, <2>1, <2>2, <2>3 DEF RuntimeOfLock, Fields
    <1>5. CASE RankModels
        <2>1. PICK ranking :
                 /\ held' = [held EXCEPT !.stage = "calibration", !.uncalibrated = ranking]
                 /\ UNCHANGED ran
            BY <1>5 DEF RankModels
        <2>2. /\ DOMAIN held' = Fields /\ held'.stage = "calibration"
              /\ \A x \in Fields \ {"stage", "uncalibrated"} : held'[x] = held[x]
            BY <1>2, <2>1 DEF Fields
        <2>3. EvidenceInv'
            BY <1>1, <2>2, EvaluationKeeps DEF Stages
        <2> QED
            BY <1>1, <2>1, <2>2, <2>3 DEF RuntimeOfLock, Fields
    <1>6. CASE Decide
        <2> DEFINE decision == FinalSelection(held.models, held.variants, held.indexes)
        <2>1. /\ held' = [held EXCEPT !.stage = "results", !.final = decision]
              /\ UNCHANGED ran
            BY <1>6 DEF Decide
        <2> HIDE DEF decision
        <2>2. /\ DOMAIN held' = Fields /\ held'.stage = "results" /\ held'.final = decision
              /\ \A x \in Fields \ {"stage", "final"} : held'[x] = held[x]
            BY <1>2, <2>1 DEF Fields
        <2>3. /\ held'.models = held.models /\ held'.variants = held.variants
              /\ held'.indexes = held.indexes
            BY <2>2 DEF Fields
        <2>4. held'.final = FinalSelection(held'.models, held'.variants, held'.indexes)
            BY <2>2, <2>3 DEF decision
        <2>5. EvidenceInv'
            BY <1>1, <2>2, <2>4, EvaluationKeeps DEF Stages
        <2> QED
            BY <1>1, <2>1, <2>2, <2>5 DEF RuntimeOfLock, Fields
    <1> QED
        BY <1>3, <1>4, <1>5, <1>6

LEMMA InitKeeps == CampaignInit => RuntimeOfLock /\ EvidenceInv
    BY DEF CampaignInit, Init, Nothing, RuntimeOfLock, EvidenceInv, FieldsOK, Fresh, InOrder,
       AsStored, Decided, IndexedEvidenceReplays, Stored

LEMMA NextKeeps ==
    RuntimeOfLock /\ EvidenceInv /\ [CampaignNext]_campaignVars => RuntimeOfLock' /\ EvidenceInv'
    <1> SUFFICES ASSUME RuntimeOfLock, EvidenceInv, [CampaignNext]_campaignVars
                 PROVE  RuntimeOfLock' /\ EvidenceInv'
        OBVIOUS
    <1>1. CASE Chain
        <2>1. Next /\ held.kind # "campaign" /\ study = Nothing /\ UNCHANGED <<study, directory>>
            BY <1>1 DEF Chain, EvidenceInv, Fresh
        <2>2. RuntimeOfLock' /\ held'.kind # "campaign"
            BY <2>1, ChainStep DEF EvidenceInv
        <2> QED
            BY <2>1, <2>2 DEF EvidenceInv, FieldsOK, Fresh, InOrder, AsStored, Decided,
               IndexedEvidenceReplays, Stored
    <1>2. CASE StartCampaign
        BY <1>2, StartKeeps
    <1>3. CASE EvaluateAblation \/ EvaluateModel \/ EvaluateVariant
        BY <1>3, CandidateKeeps
    <1>4. CASE SelectFeatures \/ RankModels \/ Decide
        BY <1>4, RankingKeeps
    <1>5. CASE WriteArtifact
        BY <1>5, WriteKeeps
    <1>6. CASE Interrupt
        BY <1>6, EndKeeps DEF Interrupt
    <1>7. CASE UNCHANGED campaignVars
        BY <1>7 DEF campaignVars, RuntimeOfLock, EvidenceInv, FieldsOK, Fresh, InOrder, AsStored,
           Decided, IndexedEvidenceReplays, Stored, FinalSelection, Classification,
           PromotionAllowed
    <1> QED
        BY <1>1, <1>2, <1>3, <1>4, <1>5, <1>6, <1>7 DEF CampaignNext

---------------------------------------------------------------------------
(* Theorems *)

LEMMA AlwaysKept == CampaignSpec => [](RuntimeOfLock /\ EvidenceInv)
    BY InitKeeps, NextKeeps, PTL DEF CampaignSpec

\* Whatever is upgraded between two calls, one scikit-learn version computed the
\* candidates, the refit and the test predictions behind an evaluation
\* (validate_runtime_sklearn_version).
THEOREM OneRuntimeComputes == CampaignSpec => []OneRuntime
    <1>1. RuntimeOfLock => OneRuntime
        <2> SUFFICES ASSUME RuntimeOfLock PROVE Cardinality(ran) <= 1
            BY DEF OneRuntime
        <2>1. PICK v : ran \subseteq {v}
            BY DEF RuntimeOfLock
        <2>2. ran = {} \/ ran = {v}
            BY <2>1
        <2>3. Cardinality({}) = 0
            BY FS_EmptySet
        <2>4. Cardinality({v}) = 1
            BY FS_Singleton
        <2> QED
            BY <2>2, <2>3, <2>4
    <1> QED
        BY <1>1, AlwaysKept, PTL

\* Once there is an index, every artifact is as it says, and ranking the stored
\* results again gives the announced decision, however many interrupted runs
\* with different failures wrote them (_write_artifact_index).
THEOREM EvidenceReplays == CampaignSpec => []IndexedEvidenceReplays
    <1>1. EvidenceInv => IndexedEvidenceReplays
        BY DEF EvidenceInv
    <1> QED
        BY <1>1, AlwaysKept, PTL

(***************************************************************************)
(* What follows of a promotion from the replay alone: what the stored      *)
(* selection promotes beats, in the stored results, both fixed phase 2     *)
(* models by the material delta, and the training prevalence in one of the *)
(* losses.  The rest of PromotionIsEarned is at the end of the module.     *)
(***************************************************************************)
PromotionBeatsBaselines ==
    Stored(Index) =>
        LET results == directory["classification_results"]
            variants == directory["calibration_results"]
            ranked == IF variants = <<>> THEN results.models ELSE variants
            Prevailing(name) ==
                Median([k \in directory["fold_manifest"] |-> Prevalence(study.of.scores, k)[name]])
        IN \A i \in results.final.promoted :
              /\ \A auc \in BaselineAuc(results.models) : ranked[i].auc - auc >= 2 * MaterialDelta
              /\ ranked[i].loss < Prevailing("loss") \/ ranked[i].brier < Prevailing("brier")

\* No stored selection promotes a candidate that does not beat the baselines
\* (_promotion_allowed), whichever folds failed.
THEOREM PromotionsBeatBaselines == CampaignSpec => []PromotionBeatsBaselines
    <1> DEFINE results == directory["classification_results"]
               variants == directory["calibration_results"]
               folds == directory["fold_manifest"]
               ranked == IF variants = <<>> THEN results.models ELSE variants
    <1>1. ASSUME IndexedEvidenceReplays, Stored(Index), NEW i \in results.final.promoted
          PROVE  PromotionAllowed(ranked[i], results.models, folds)
        <2>1. results.final = Classification(ranked, results.models, folds)
            BY <1>1 DEF IndexedEvidenceReplays, FinalSelection, Index
        <2>2. i \in Classification(ranked, results.models, folds).promoted
            BY <1>1, <2>1
        <2> HIDE DEF ranked, results, folds
        <2> QED
            BY <2>2 DEF Classification
    <1>2. IndexedEvidenceReplays => PromotionBeatsBaselines
        BY <1>1 DEF PromotionBeatsBaselines, PromotionAllowed
    <1> QED
        BY <1>2, EvidenceReplays, PTL

---------------------------------------------------------------------------
(***************************************************************************)
(* What the rows know.  A mask keeps the order of a frame and exactly the  *)
(* rows asked for; so a partition, a fold and a calibration split have the *)
(* sessions their bounds say, and no value in them was read after a date   *)
(* the bounds allow.  The lemmas follow the constructors upwards: masks,   *)
(* frames, features and labels, partitions, the V1 chain, folds, the final *)
(* test, and then the steps.                                               *)
(***************************************************************************)

(***************************************************************************)
(* Induction over the naturals with the set in the place of the predicate. *)
(***************************************************************************)
Below == {pair \in Nat \X Nat : pair[1] < pair[2]}

LEMMA BelowIsWellFounded == IsWellFoundedOn(Below, Nat)
    BY NatLessThanWellFounded DEF OpToRel, Below

LEMMA LeastElement ==
    ASSUME NEW T, T \subseteq Nat, T # {}
    PROVE  \E x \in T : \A y \in T : x <= y
    <1>1. \E x \in T : \A y \in T : <<y, x>> \notin Below
        BY BelowIsWellFounded, WFMin
    <1>2. ASSUME NEW x \in Nat, NEW y \in Nat, ~(x <= y) PROVE <<y, x>> \in Below
        BY <1>2 DEF Below
    <1> QED
        BY <1>1, <1>2

LEMMA SetInduction ==
    ASSUME NEW S, 0 \in S, \A n \in Nat : n \in S => n + 1 \in S
    PROVE  Nat \subseteq S
    <1> SUFFICES ASSUME Nat \ S # {} PROVE FALSE
        OBVIOUS
    <1>1. PICK x \in Nat \ S : \A y \in Nat \ S : x <= y
        BY LeastElement
    <1>2. x # 0 /\ x - 1 \in Nat /\ ~(x <= x - 1) /\ x = (x - 1) + 1
        BY <1>1
    <1>3. x - 1 \in S
        BY <1>1, <1>2
    <1> QED
        BY <1>1, <1>2, <1>3

(***************************************************************************)
(* What a mask keeps.                                                      *)
(***************************************************************************)
Mask(f, frame, rows, n) ==
    f = [i \in 0..n |->
            IF i = 0 THEN <<>>
            ELSE IF frame[i] \in rows THEN Append(f[i - 1], frame[i]) ELSE f[i - 1]]

LEMMA MaskExists ==
    ASSUME NEW frame, NEW rows, NEW n \in Nat
    PROVE  \E f : Mask(f, frame, rows, n)
    <1> DEFINE S == {k \in Nat : \E f : Mask(f, frame, rows, k)}
    <1>1. 0 \in S
        <2> DEFINE f0 == [i \in 0..0 |-> <<>>]
        <2>1. Mask(f0, frame, rows, 0)
            BY DEF Mask
        <2> QED
            BY <2>1
    <1>2. ASSUME NEW k \in Nat, k \in S PROVE k + 1 \in S
        <2>1. PICK f : Mask(f, frame, rows, k)
            BY <1>2
        <2> DEFINE last == IF frame[k + 1] \in rows THEN Append(f[k], frame[k + 1]) ELSE f[k]
                   g == [i \in 0..(k + 1) |-> IF i = k + 1 THEN last ELSE f[i]]
        <2>2. DOMAIN f = 0..k
            BY <2>1 DEF Mask
        <2>3. ASSUME NEW i \in 0..(k + 1)
              PROVE g[i] = IF i = 0 THEN <<>>
                           ELSE IF frame[i] \in rows THEN Append(g[i - 1], frame[i]) ELSE g[i - 1]
            <3>1. CASE i = 0
                <4>1. f[0] = <<>>
                    BY <2>1 DEF Mask
                <4> QED
                    BY <3>1, <4>1
            <3>2. CASE i = k + 1
                <4>1. i # 0 /\ i - 1 = k /\ k \in 0..(k + 1) /\ k # k + 1
                    BY <3>2
                <4>2. g[i - 1] = f[k] /\ g[i] = last
                    BY <3>2, <4>1
                <4> QED
                    BY <3>2, <4>1, <4>2
            <3>3. CASE i # 0 /\ i # k + 1
                <4>1. i \in 0..k /\ i - 1 \in 0..k /\ i - 1 # k + 1 /\ i - 1 \in 0..(k + 1)
                    BY <3>3
                <4>2. g[i] = f[i] /\ g[i - 1] = f[i - 1]
                    BY <3>3, <4>1
                <4>3. f[i] = IF i = 0 THEN <<>>
                             ELSE IF frame[i] \in rows THEN Append(f[i - 1], frame[i]) ELSE f[i - 1]
                    BY <2>1, <4>1 DEF Mask
                <4> QED
                    BY <4>2, <4>3
            <3> QED
                BY <3>1, <3>2, <3>3
        <2> HIDE DEF last
        <2>4. Mask(g, frame, rows, k + 1)
            BY <2>3 DEF Mask
        <2> QED
            BY <2>4
    <1> HIDE DEF S
    <1>3. n \in S
        BY <1>1, <1>2, SetInduction
    <1> QED
        BY <1>3 DEF S

LEMMA WhereMask ==
    ASSUME NEW frame, NEW rows, Len(frame) \in Nat
    PROVE  \E f : Mask(f, frame, rows, Len(frame)) /\ Where(frame, rows) = f[Len(frame)]
    <1>1. \E f : Mask(f, frame, rows, Len(frame))
        BY MaskExists
    <1> QED
        BY <1>1 DEF Mask, Where

\* At n rows of the frame, out holds those of them that are among the rows, in
\* their order: g tells which.
Kept(g, out, frame, rows, n, R) ==
    /\ out \in Seq(R)
    /\ g \in [1..Len(out) -> 1..n]
    /\ \A i, j \in 1..Len(out) : i < j => g[i] < g[j]
    /\ \A i \in 1..Len(out) : out[i] = frame[g[i]] /\ out[i] \in rows
    /\ \A j \in 1..n : frame[j] \in rows => \E i \in 1..Len(out) : g[i] = j

LEMMA KeptOneMore ==
    ASSUME NEW R, NEW frame \in Seq(R), NEW rows, NEW n \in Nat, n + 1 <= Len(frame),
           NEW out, NEW g, Kept(g, out, frame, rows, n, R), frame[n + 1] \in rows
    PROVE  \E h : Kept(h, Append(out, frame[n + 1]), frame, rows, n + 1, R)
    <1> DEFINE m == Len(out)
               new == Append(out, frame[n + 1])
               h == [i \in 1..(m + 1) |-> IF i = m + 1 THEN n + 1 ELSE g[i]]
    <1>1. out \in Seq(R) /\ m \in Nat /\ n + 1 \in 1..Len(frame) /\ frame[n + 1] \in R
        BY DEF Kept
    <1>2. new \in Seq(R) /\ Len(new) = m + 1 /\ new[m + 1] = frame[n + 1]
          /\ \A i \in 1..m : new[i] = out[i]
        BY <1>1
    <1> HIDE DEF new, m
    <1>3. \A i \in 1..m : g[i] \in 1..n
        BY DEF Kept, m
    <1>4. h \in [1..(m + 1) -> 1..(n + 1)]
        BY <1>1, <1>3
    <1>5. \A i, j \in 1..(m + 1) : i < j => h[i] < h[j]
        <2> SUFFICES ASSUME NEW i \in 1..(m + 1), NEW j \in 1..(m + 1), i < j PROVE h[i] < h[j]
            OBVIOUS
        <2>1. i \in 1..m /\ h[i] = g[i] /\ g[i] \in 1..n
            BY <1>1, <1>3
        <2>2. CASE j = m + 1
            BY <2>1, <2>2
        <2>3. CASE j # m + 1
            <3>1. j \in 1..m /\ h[j] = g[j]
                BY <1>1, <2>3
            <3> QED
                BY <2>1, <3>1 DEF Kept, m
        <2> QED
            BY <2>2, <2>3
    <1>6. \A i \in 1..(m + 1) : new[i] = frame[h[i]] /\ new[i] \in rows
        <2> SUFFICES ASSUME NEW i \in 1..(m + 1) PROVE new[i] = frame[h[i]] /\ new[i] \in rows
            OBVIOUS
        <2>1. CASE i = m + 1
            BY <2>1, <1>2
        <2>2. CASE i # m + 1
            <3>1. i \in 1..m /\ h[i] = g[i] /\ new[i] = out[i]
                BY <1>1, <1>2, <2>2
            <3> QED
                BY <3>1 DEF Kept, m
        <2> QED
            BY <2>1, <2>2
    <1>7. \A j \in 1..(n + 1) : frame[j] \in rows => \E i \in 1..(m + 1) : h[i] = j
        <2> SUFFICES ASSUME NEW j \in 1..(n + 1), frame[j] \in rows
                     PROVE \E i \in 1..(m + 1) : h[i] = j
            OBVIOUS
        <2>1. CASE j = n + 1
            <3>1. m + 1 \in 1..(m + 1) /\ h[m + 1] = n + 1
                BY <1>1
            <3> QED
                BY <2>1, <3>1
        <2>2. CASE j # n + 1
            <3>1. j \in 1..n
                BY <2>2
            <3>2. PICK i \in 1..m : g[i] = j
                BY <3>1 DEF Kept, m
            <3>3. i \in 1..(m + 1) /\ i # m + 1 /\ h[i] = g[i]
                BY <1>1, <3>2
            <3> QED
                BY <3>2, <3>3
        <2> QED
            BY <2>1, <2>2
    <1> HIDE DEF h
    <1>8. Kept(h, new, frame, rows, n + 1, R)
        BY <1>2, <1>4, <1>5, <1>6, <1>7 DEF Kept
    <1> QED
        BY <1>8 DEF new

LEMMA KeptSame ==
    ASSUME NEW R, NEW frame, NEW rows, NEW n \in Nat, NEW out, NEW g,
           Kept(g, out, frame, rows, n, R), frame[n + 1] \notin rows
    PROVE  Kept(g, out, frame, rows, n + 1, R)
    <1>1. \A i \in 1..Len(out) : g[i] \in 1..(n + 1)
        BY DEF Kept
    <1>2. g \in [1..Len(out) -> 1..(n + 1)]
        BY <1>1 DEF Kept
    <1>3. \A j \in 1..(n + 1) : frame[j] \in rows => j \in 1..n
        OBVIOUS
    <1> QED
        BY <1>2, <1>3 DEF Kept

LEMMA WhereKept ==
    ASSUME NEW R, NEW frame \in Seq(R), NEW rows
    PROVE  \E g : Kept(g, Where(frame, rows), frame, rows, Len(frame), R)
    <1> DEFINE N == Len(frame)
    <1>0. N \in Nat
        OBVIOUS
    <1>1. PICK f : Mask(f, frame, rows, N) /\ Where(frame, rows) = f[N]
        BY <1>0, WhereMask
    <1> DEFINE S == {k \in Nat : k <= N => \E g : Kept(g, f[k], frame, rows, k, R)}
    <1> HIDE DEF N
    <1>2. 0 \in S
        <2>1. f[0] = <<>>
            BY <1>0, <1>1 DEF Mask
        <2> DEFINE g0 == [i \in 1..0 |-> 1]
        <2>2. Kept(g0, <<>>, frame, rows, 0, R)
            BY DEF Kept
        <2> QED
            BY <2>1, <2>2
    <1>3. ASSUME NEW k \in Nat, k \in S PROVE k + 1 \in S
        <2> SUFFICES ASSUME k + 1 <= N PROVE \E g : Kept(g, f[k + 1], frame, rows, k + 1, R)
            OBVIOUS
        <2>1. PICK g : Kept(g, f[k], frame, rows, k, R)
            BY <1>0, <1>3
        <2>2. f[k + 1] = IF frame[k + 1] \in rows THEN Append(f[k], frame[k + 1]) ELSE f[k]
            <3>1. k + 1 \in 0..N /\ k + 1 # 0 /\ (k + 1) - 1 = k
                BY <1>0
            <3> QED
                BY <1>1, <3>1 DEF Mask
        <2>3. CASE frame[k + 1] \in rows
            BY <2>1, <2>2, <2>3, KeptOneMore DEF N
        <2>4. CASE frame[k + 1] \notin rows
            BY <2>1, <2>2, <2>4, KeptSame
        <2> QED
            BY <2>3, <2>4
    <1> HIDE DEF S
    <1>4. N \in S
        BY <1>0, <1>2, <1>3, SetInduction
    <1> QED
        BY <1>0, <1>1, <1>4 DEF S, N

\* The rows a mask keeps are rows of the frame that were asked for, and all of them.
LEMMA WhereKeeps ==
    ASSUME NEW R, NEW frame \in Seq(R), NEW rows
    PROVE  /\ Where(frame, rows) \in Seq(R)
           /\ \A i \in 1..Len(Where(frame, rows)) :
                 /\ Where(frame, rows)[i] \in rows
                 /\ \E j \in 1..Len(frame) : Where(frame, rows)[i] = frame[j]
           /\ \A j \in 1..Len(frame) : frame[j] \in rows =>
                 \E i \in 1..Len(Where(frame, rows)) : Where(frame, rows)[i] = frame[j]
    <1>1. PICK g : Kept(g, Where(frame, rows), frame, rows, Len(frame), R)
        BY WhereKept
    <1> QED
        BY SMTT(30), <1>1 DEF Kept

(***************************************************************************)
(* Columns in increasing order.                                            *)
(***************************************************************************)
LEMMA Ordered ==
    ASSUME NEW s \in Seq(Nat), StrictlyIncreasing(s), NEW i \in 1..Len(s), NEW j \in 1..Len(s), i < j
    PROVE  s[i] < s[j]
    <1> DEFINE S == {k \in Nat : i + k + 1 <= Len(s) => s[i] < s[i + k + 1]}
    <1>0. Len(s) \in Nat /\ i \in Nat /\ j \in Nat /\ \A k \in 1..Len(s) : s[k] \in Nat
        OBVIOUS
    <1>1. 0 \in S
        BY <1>0 DEF StrictlyIncreasing
    <1>2. ASSUME NEW k \in Nat, k \in S PROVE k + 1 \in S
        <2> SUFFICES ASSUME i + (k + 1) + 1 <= Len(s) PROVE s[i] < s[i + (k + 1) + 1]
            OBVIOUS
        <2> DEFINE a == i + k + 1
        <2>1. a \in 1..(Len(s) - 1) /\ i + (k + 1) + 1 = a + 1 /\ a \in 1..Len(s)
              /\ a + 1 \in 1..Len(s)
            BY <1>0
        <2>2. s[a] < s[a + 1]
            BY <2>1 DEF StrictlyIncreasing
        <2>3. s[i] < s[a]
            BY <1>0, <1>2, <2>1
        <2> QED
            BY <1>0, <2>1, <2>2, <2>3
    <1> HIDE DEF S
    <1>3. j - i - 1 \in S
        <2>1. j - i - 1 \in Nat
            BY <1>0
        <2>2. Nat \subseteq S
            BY <1>1, <1>2, SetInduction
        <2> QED
            BY <2>1, <2>2
    <1>4. i + (j - i - 1) + 1 = j
        BY <1>0
    <1> QED
        BY <1>0, <1>3, <1>4 DEF S

\* A sequence, as one of its own elements.
Frame(s) == s \in Seq(ToSet(s))

LEMMA FrameFacts ==
    ASSUME NEW s, Frame(s)
    PROVE  /\ Len(s) \in Nat /\ DOMAIN s = 1..Len(s)
           /\ ToSet(s) = {s[i] : i \in 1..Len(s)}
           /\ s = <<>> <=> Len(s) = 0
    BY DEF Frame, ToSet

LEMMA FrameOf ==
    ASSUME NEW R, NEW s \in Seq(R)
    PROVE  Frame(s)
    <1>1. Len(s) \in Nat /\ DOMAIN s = 1..Len(s) /\ s = [i \in 1..Len(s) |-> s[i]]
        OBVIOUS
    <1>2. \A i \in 1..Len(s) : s[i] \in ToSet(s)
        BY <1>1 DEF ToSet
    <1> QED
        BY <1>1, <1>2 DEF Frame

LEMMA SequenceOf ==
    ASSUME NEW n \in Nat, NEW s, s = [i \in 1..n |-> s[i]]
    PROVE  Frame(s) /\ Len(s) = n /\ DOMAIN s = 1..n
    <1>1. DOMAIN s = 1..n
        OBVIOUS
    <1> DEFINE S == ToSet(s)
    <1>2. \A i \in 1..n : s[i] \in S
        BY <1>1 DEF ToSet
    <1> HIDE DEF S
    <1>3. s \in Seq(S)
        BY <1>1, <1>2
    <1>4. Len(s) = n
        BY <1>1, <1>3
    <1> QED
        BY <1>1, <1>3, <1>4 DEF Frame, S

LEMMA FrameSessions ==
    ASSUME NEW s, Frame(s)
    PROVE  /\ Frame(Sessions(s)) /\ Len(Sessions(s)) = Len(s)
           /\ \A i \in 1..Len(s) : Sessions(s)[i] = s[i].session
           /\ ToSet(Sessions(s)) = {r.session : r \in ToSet(s)}
    <1>1. Len(s) \in Nat /\ DOMAIN s = 1..Len(s)
        BY FrameFacts
    <1>2. Sessions(s) = [i \in 1..Len(s) |-> s[i].session]
        BY <1>1 DEF Sessions
    <1>3. Frame(Sessions(s)) /\ Len(Sessions(s)) = Len(s)
        BY <1>1, <1>2, SequenceOf
    <1>4. DOMAIN Sessions(s) = 1..Len(s)
        BY <1>2
    <1> QED
        BY <1>1, <1>2, <1>3, <1>4, FrameOf DEF ToSet

LEMMA WhereRows ==
    ASSUME NEW s, Frame(s), NEW rows
    PROVE  /\ Frame(Where(s, rows))
           /\ ToSet(Where(s, rows)) = ToSet(s) \cap rows
    <1> DEFINE w == Where(s, rows)
    <1>1. /\ w \in Seq(ToSet(s))
          /\ \A i \in 1..Len(w) : w[i] \in rows /\ \E j \in 1..Len(s) : w[i] = s[j]
          /\ \A j \in 1..Len(s) : s[j] \in rows => \E i \in 1..Len(w) : w[i] = s[j]
        BY WhereKeeps DEF Frame
    <1> HIDE DEF w
    <1>2. Frame(w)
        BY <1>1, FrameOf
    <1>3. ToSet(w) = {w[i] : i \in 1..Len(w)} /\ ToSet(s) = {s[i] : i \in 1..Len(s)}
        BY <1>2, FrameFacts
    <1>4. ToSet(w) = ToSet(s) \cap rows
        BY <1>1, <1>3
    <1> QED
        BY <1>2, <1>4 DEF w

\* Rows in session order.
Rising(s) ==
    /\ Frame(s) /\ StrictlyIncreasing(Sessions(s))
    /\ \A r \in ToSet(s) : r.session \in Nat

LEMMA RisingOrder ==
    ASSUME NEW s, Rising(s), NEW i \in 1..Len(s), NEW j \in 1..Len(s)
    PROVE  i < j <=> s[i].session < s[j].session
    <1>1. Frame(s) /\ Len(s) \in Nat /\ Sessions(s) \in Seq(Nat) /\ Len(Sessions(s)) = Len(s)
        <2>1. Frame(s) /\ ToSet(s) = {s[k] : k \in 1..Len(s)} /\ Len(s) \in Nat
              /\ DOMAIN s = 1..Len(s)
            BY FrameFacts DEF Rising
        <2>2. \A k \in 1..Len(s) : s[k].session \in Nat
            BY <2>1 DEF Rising
        <2>3. Sessions(s) = [k \in 1..Len(s) |-> s[k].session]
            BY <2>1 DEF Sessions
        <2>4. Sessions(s) \in Seq(Nat) /\ Len(Sessions(s)) = Len(s)
            BY <2>1, <2>2, <2>3
        <2> QED
            BY <2>1, <2>4
    <1>2. Sessions(s)[i] = s[i].session /\ Sessions(s)[j] = s[j].session
        BY <1>1, FrameSessions
    <1>3. Sessions(s)[i] \in Nat /\ Sessions(s)[j] \in Nat
        BY <1>1
    <1>4. i < j => Sessions(s)[i] < Sessions(s)[j]
        BY <1>1, Ordered DEF Rising
    <1>5. j < i => Sessions(s)[j] < Sessions(s)[i]
        BY <1>1, Ordered DEF Rising
    <1> QED
        BY <1>2, <1>3, <1>4, <1>5

LEMMA RisingUnique ==
    ASSUME NEW s, Rising(s), NEW a \in ToSet(s), NEW b \in ToSet(s), a.session = b.session
    PROVE  a = b
    <1>1. PICK i \in 1..Len(s), j \in 1..Len(s) : a = s[i] /\ b = s[j]
        BY FrameFacts DEF Rising
    <1>2. a.session \in Nat /\ Len(s) \in Nat
        BY FrameFacts DEF Rising
    <1>3. ~(i < j) /\ ~(j < i)
        BY <1>1, <1>2, RisingOrder
    <1>4. i = j
        BY <1>2, <1>3
    <1> QED
        BY <1>1, <1>4

\* A mask keeps the order.
LEMMA WhereRising ==
    ASSUME NEW s, Rising(s), NEW rows
    PROVE  Rising(Where(s, rows))
    <1> DEFINE w == Where(s, rows)
    <1>1. Frame(w) /\ ToSet(w) \subseteq ToSet(s)
        BY WhereRows DEF Rising
    <1>2. PICK g : Kept(g, w, s, rows, Len(s), ToSet(s))
        BY WhereKept DEF Rising, Frame
    <1> HIDE DEF w
    <1>3. Len(w) \in Nat
        BY <1>1, FrameFacts
    <1>4. ASSUME NEW i \in 1..(Len(w) - 1)
          PROVE Sessions(w)[i] < Sessions(w)[i + 1]
        <2>1. i \in 1..Len(w) /\ i + 1 \in 1..Len(w) /\ i < i + 1
            BY <1>3
        <2>2. g[i] \in 1..Len(s) /\ g[i + 1] \in 1..Len(s) /\ g[i] < g[i + 1]
              /\ w[i] = s[g[i]] /\ w[i + 1] = s[g[i + 1]]
            BY <1>2, <2>1 DEF Kept
        <2>3. s[g[i]].session < s[g[i + 1]].session
            BY <2>2, RisingOrder
        <2> QED
            BY <1>1, <2>1, <2>2, <2>3, FrameSessions
    <1>5. StrictlyIncreasing(Sessions(w))
        <2>1. Len(Sessions(w)) = Len(w)
            BY <1>1, FrameSessions
        <2> QED
            BY <1>4, <2>1 DEF StrictlyIncreasing
    <1>6. \A r \in ToSet(w) : r.session \in Nat
        BY <1>1 DEF Rising
    <1> QED
        BY <1>1, <1>5, <1>6 DEF Rising, w

LEMMA HeadIsFirst ==
    ASSUME NEW s, Rising(s), s # <<>>
    PROVE  Head(s) \in ToSet(s) /\ \A r \in ToSet(s) : Head(s).session <= r.session
    <1>1. Frame(s) /\ Len(s) \in Nat /\ Len(s) # 0 /\ ToSet(s) = {s[i] : i \in 1..Len(s)}
        BY FrameFacts DEF Rising
    <1>2. Head(s) = s[1] /\ 1 \in 1..Len(s)
        BY <1>1 DEF Frame
    <1>3. ASSUME NEW i \in 1..Len(s) PROVE s[1].session <= s[i].session
        <2>1. s[1].session \in Nat /\ s[i].session \in Nat
            BY <1>1, <1>2 DEF Rising
        <2>2. CASE i = 1
            BY <2>1, <2>2
        <2>3. CASE i # 1
            <3>1. 1 < i
                BY <2>3
            <3> QED
                BY <1>2, <2>1, <3>1, RisingOrder
        <2> QED
            BY <2>2, <2>3
    <1> QED
        BY <1>1, <1>2, <1>3

LEMMA LastIsLast ==
    ASSUME NEW s, Rising(s), s # <<>>
    PROVE  Last(s) \in ToSet(s) /\ \A r \in ToSet(s) : r.session <= Last(s).session
    <1>1. Frame(s) /\ Len(s) \in Nat /\ Len(s) # 0 /\ ToSet(s) = {s[i] : i \in 1..Len(s)}
        BY FrameFacts DEF Rising
    <1> DEFINE n == Len(s)
    <1>2. Last(s) = s[n] /\ n \in 1..n
        BY <1>1 DEF Last
    <1>3. ASSUME NEW i \in 1..n PROVE s[i].session <= s[n].session
        <2>1. s[n].session \in Nat /\ s[i].session \in Nat
            BY <1>1, <1>2 DEF Rising
        <2>2. CASE i = n
            BY <2>1, <2>2
        <2>3. CASE i # n
            <3>1. i < n
                BY <1>1, <2>3
            <3> QED
                BY <1>2, <2>1, <3>1, RisingOrder
        <2> QED
            BY <2>2, <2>3
    <1> QED
        BY <1>1, <1>2, <1>3

(***************************************************************************)
(* What rows may know.                                                     *)
(***************************************************************************)
MarketRows == Seq([session : Nat, open : Nat])

KnownFeatures(s) ==
    Rising(s) /\ \A r \in ToSet(s) : \A date \in r.window : date \in Nat /\ date <= r.session

KnownLabels(s) ==
    /\ Rising(s)
    /\ \A r \in ToSet(s) : /\ r.reads = {r.entry, r.exit} /\ r.entry \in Nat /\ r.exit \in Nat
                           /\ r.session < r.entry /\ r.entry < r.exit

LEMMA MarketSessions ==
    ASSUME NEW rows \in MarketRows
    PROVE  /\ Len(rows) \in Nat /\ Frame(rows)
           /\ \A i \in 1..Len(rows) : rows[i].session \in Nat
           /\ StrictlyIncreasing(Sessions(rows)) =>
                \A i, j \in 1..Len(rows) : i <= j => rows[i].session <= rows[j].session
    <1>1. Frame(rows) /\ Len(rows) \in Nat /\ \A i \in 1..Len(rows) : rows[i].session \in Nat
        <2> DEFINE R == [session : Nat, open : Nat]
        <2>1. \A r \in R : r.session \in Nat
            OBVIOUS
        <2>2. rows \in Seq(R)
            BY DEF MarketRows
        <2> HIDE DEF R
        <2>3. Len(rows) \in Nat /\ \A i \in 1..Len(rows) : rows[i] \in R
            BY <2>2
        <2> QED
            BY <2>1, <2>2, <2>3, FrameOf
    <1>2. ASSUME StrictlyIncreasing(Sessions(rows)), NEW i \in 1..Len(rows), NEW j \in 1..Len(rows),
                 i <= j
          PROVE rows[i].session <= rows[j].session
        <2>1. Rising(rows)
            BY <1>1, <1>2, FrameFacts DEF Rising
        <2>2. CASE i = j
            BY <1>1, <2>2
        <2>3. CASE i # j
            BY <1>1, <1>2, <2>1, <2>3, RisingOrder
        <2> QED
            BY <2>2, <2>3
    <1> QED
        BY <1>1, <1>2

LEMMA WarmupNat == TRAILING_WARMUP_ROWS \in Nat /\ EXIT_OFFSET_SESSIONS \in Nat
                   /\ EXIT_OFFSET_SESSIONS > 1 /\ ENTRY_OFFSET_SESSIONS = 1
    BY DataAssumption DEF DataAssumption, ENTRY_OFFSET_SESSIONS

LEMMA FeaturesKnown ==
    ASSUME NEW batch, batch.rows \in MarketRows, NEW fs \in build_trailing_feature_set(batch)
    PROVE  /\ KnownFeatures(fs.data) /\ fs.source = batch.checksum
           /\ ToSet(Sessions(fs.data)) =
                {batch.rows[i].session : i \in (TRAILING_WARMUP_ROWS + 1)..Len(batch.rows)}
    <1> DEFINE rows == batch.rows
               W == TRAILING_WARMUP_ROWS
               n == Len(rows) - W
    <1>1. ~(Len(rows) <= W) /\ StrictlyIncreasing(Sessions(rows))
          /\ fs.data = [i \in 1..n |-> FeatureRow(rows, i + W)]
          /\ fs.source = batch.checksum /\ FeatureSetHolds(fs)
        <2> DEFINE data == [i \in 1..n |-> FeatureRow(rows, i + W)]
                   whole == [data |-> data, source |-> batch.checksum,
                             first |-> Head(data).session, last |-> Last(data).session]
        <2>1. ~(Len(rows) <= W) /\ StrictlyIncreasing(Sessions(rows))
            BY Zenon DEF build_trailing_feature_set
        <2>2. fs \in {x \in {whole} : FeatureSetHolds(x)}
            BY <2>1, Zenon DEF build_trailing_feature_set
        <2>3. fs = whole /\ FeatureSetHolds(fs)
            BY <2>2
        <2> HIDE DEF data
        <2>4. fs.data = data /\ fs.source = batch.checksum
            BY <2>3
        <2> QED
            BY <2>1, <2>3, <2>4 DEF data
    <1>2. Len(rows) \in Nat /\ W \in Nat /\ n \in Nat
        BY <1>1, MarketSessions, WarmupNat
    <1>3. \A i \in 1..n : fs.data[i] = FeatureRow(rows, i + W)
        BY <1>1
    <1>4. Frame(fs.data) /\ Len(fs.data) = n
        <2>1. fs.data = [i \in 1..n |-> fs.data[i]]
            BY <1>1
        <2> QED
            BY <1>2, <2>1, SequenceOf
    <1>5. ToSet(fs.data) = {FeatureRow(rows, i + W) : i \in 1..n}
        BY <1>3, <1>4, FrameFacts
    <1>6. \A i \in 1..n : i + W \in 1..Len(rows) /\ rows[i + W].session \in Nat
        BY <1>1, <1>2, MarketSessions
    <1>7. Rising(fs.data)
        <2>1. StrictlyIncreasing(Sessions(fs.data))
            BY <1>1 DEF FeatureSetHolds
        <2> QED
            BY <1>4, <1>5, <1>6, <2>1 DEF Rising, FeatureRow
    <1>8. ASSUME NEW i \in 1..n, NEW date \in FeatureRow(rows, i + W).window
          PROVE date \in Nat /\ date <= FeatureRow(rows, i + W).session
        <2>1. PICK j \in ((i + W) - W)..(i + W) : date = rows[j].session
            BY <1>8 DEF FeatureRow
        <2>2. j \in 1..Len(rows) /\ j <= i + W
            BY <1>2, <2>1
        <2>3. FeatureRow(rows, i + W).session = rows[i + W].session
            BY DEF FeatureRow
        <2> QED
            BY <1>1, <1>6, <2>1, <2>2, <2>3, MarketSessions
    <1>9. KnownFeatures(fs.data)
        BY <1>5, <1>7, <1>8 DEF KnownFeatures
    <1>10. ToSet(Sessions(fs.data)) = {rows[i].session : i \in (W + 1)..Len(rows)}
        <2>1. ToSet(Sessions(fs.data)) = {rows[i + W].session : i \in 1..n}
            <3>1. ToSet(Sessions(fs.data)) = {r.session : r \in ToSet(fs.data)}
                BY <1>4, FrameSessions
            <3>2. \A i \in 1..n : FeatureRow(rows, i + W).session = rows[i + W].session
                BY DEF FeatureRow
            <3> HIDE DEF n
            <3> QED
                BY <1>5, <3>1, <3>2
        <2>2. \A i \in (W + 1)..Len(rows) : i - W \in 1..n /\ (i - W) + W = i
            BY <1>2
        <2>3. \A i \in 1..n : i + W \in (W + 1)..Len(rows)
            BY <1>2
        <2> QED
            BY <2>1, <2>2, <2>3
    <1> QED
        BY <1>1, <1>9, <1>10

LEMMA LabelsKnown ==
    ASSUME NEW batch, batch.rows \in MarketRows, NEW costs,
           NEW ls \in build_forward_label_set(batch, costs)
    PROVE  /\ KnownLabels(ls.data) /\ ls.source = batch.checksum
           /\ {<<r.session, r.exit>> : r \in ToSet(ls.data)} =
                {<<batch.rows[i].session, batch.rows[i + EXIT_OFFSET_SESSIONS].session>> :
                    i \in 1..(Len(batch.rows) - EXIT_OFFSET_SESSIONS)}
    <1> DEFINE rows == batch.rows
               X == EXIT_OFFSET_SESSIONS
               n == Len(rows) - X
    <1>1. ~(Len(rows) <= X)
          /\ ls.data = [i \in 1..n |-> LabelRow(rows, i, costs)]
          /\ ls.source = batch.checksum /\ LabelSetHolds(ls)
        <2> DEFINE data == [i \in 1..n |-> LabelRow(rows, i, costs)]
                   whole == [data |-> data, source |-> batch.checksum, costs |-> costs,
                             first |-> Head(data).session, last |-> Last(data).session]
        <2>1. ~(Len(rows) <= X)
            BY Zenon DEF build_forward_label_set
        <2>2. ls \in {x \in {whole} : LabelSetHolds(x)}
            BY <2>1, Zenon DEF build_forward_label_set
        <2>3. ls = whole /\ LabelSetHolds(ls)
            BY <2>2
        <2> HIDE DEF data
        <2>4. ls.data = data /\ ls.source = batch.checksum
            BY <2>3
        <2> QED
            BY <2>1, <2>3, <2>4 DEF data
    <1>2. Len(rows) \in Nat /\ X \in Nat /\ X > 1 /\ n \in Nat
        BY <1>1, MarketSessions, WarmupNat
    <1>3. \A i \in 1..n : ls.data[i] = LabelRow(rows, i, costs)
        BY <1>1
    <1>4. Frame(ls.data) /\ Len(ls.data) = n /\ DOMAIN ls.data = 1..n
        <2>1. ls.data = [i \in 1..n |-> ls.data[i]]
            BY <1>1
        <2> QED
            BY <1>2, <2>1, SequenceOf
    <1>5. ToSet(ls.data) = {LabelRow(rows, i, costs) : i \in 1..n}
        BY <1>3, <1>4, FrameFacts
    <1>6. \A i \in 1..n : i \in 1..Len(rows) /\ i + 1 \in 1..Len(rows) /\ i + X \in 1..Len(rows)
        BY <1>2
    <1>7. TimelineHolds(ls.data)
        BY <1>1 DEF LabelSetHolds
    <1>8. ASSUME NEW i \in 1..n
          PROVE LET r == LabelRow(rows, i, costs) IN
                /\ r.session = rows[i].session /\ r.entry = rows[i + 1].session
                /\ r.exit = rows[i + X].session /\ r.reads = {r.entry, r.exit}
                /\ r.session \in Nat /\ r.entry \in Nat /\ r.exit \in Nat
                /\ r.session < r.entry /\ r.entry < r.exit
        <2> DEFINE r == LabelRow(rows, i, costs)
        <2>1. r.session = rows[i].session /\ r.entry = rows[i + 1].session
              /\ r.exit = rows[i + X].session /\ r.reads = {r.entry, r.exit}
            BY WarmupNat DEF LabelRow
        <2>2. r.session \in Nat /\ r.entry \in Nat /\ r.exit \in Nat
            BY <1>6, <2>1, MarketSessions
        <2>3. Sessions(ls.data)[i] = r.session /\ Entries(ls.data)[i] = r.entry
              /\ Exits(ls.data)[i] = r.exit
            BY <1>3, <1>4 DEF Sessions, Entries, Exits
        <2>4. r.session < r.entry /\ r.entry < r.exit
            BY <1>4, <1>7, <2>3 DEF TimelineHolds
        <2> QED
            BY <2>1, <2>2, <2>4
    <1>9. KnownLabels(ls.data)
        <2>1. StrictlyIncreasing(Sessions(ls.data))
            BY <1>7 DEF TimelineHolds
        <2> HIDE DEF n
        <2>2. \A r \in ToSet(ls.data) :
                /\ r.session \in Nat /\ r.reads = {r.entry, r.exit}
                /\ r.entry \in Nat /\ r.exit \in Nat
                /\ r.session < r.entry /\ r.entry < r.exit
            BY <1>5, <1>8
        <2> QED
            BY <1>4, <2>1, <2>2 DEF KnownLabels, Rising
    <1>10. {<<r.session, r.exit>> : r \in ToSet(ls.data)} =
               {<<rows[i].session, rows[i + X].session>> : i \in 1..n}
        BY SMTT(30), <1>5, <1>8
    <1> QED
        BY <1>1, <1>9, <1>10

LEMMA MaskKnows ==
    ASSUME NEW s, NEW rows
    PROVE  /\ KnownFeatures(s) => KnownFeatures(Where(s, rows))
           /\ KnownLabels(s) => KnownLabels(Where(s, rows))
    BY WhereRows, WhereRising DEF KnownFeatures, KnownLabels, Rising

LEMMA DatasetKnown ==
    ASSUME NEW fs, KnownFeatures(fs.data), NEW ls, KnownLabels(ls.data),
           NEW d \in build_supervised_dataset(fs, ls)
    PROVE  /\ KnownFeatures(d.features) /\ KnownLabels(d.labels)
           /\ d.source = fs.source /\ fs.source = ls.source
           /\ ToSet(d.labels) = {r \in ToSet(ls.data) : r.session \in ToSet(Sessions(fs.data))}
    <1>1. /\ d.features = RowsAt(fs.data, Sessions(ls.data))
          /\ d.labels = RowsAt(ls.data, Sessions(fs.data))
          /\ d.source = fs.source /\ fs.source = ls.source
        BY DEF build_supervised_dataset
    <1>2. ToSet(d.labels) = {r \in ToSet(ls.data) : r.session \in ToSet(Sessions(fs.data))}
        BY <1>1, WhereRows DEF RowsAt, KnownLabels, Rising
    <1> QED
        BY <1>1, <1>2, MaskKnows DEF RowsAt

LEMMA PartitionKnown ==
    ASSUME NEW d, KnownFeatures(d.features), KnownLabels(d.labels), NEW spec, NEW name,
           NEW p \in build_partition(d, spec, name)
    PROVE  /\ KnownFeatures(p.features) /\ KnownLabels(p.labels)
           /\ p.name = name /\ p.spec = spec /\ p.source = d.source /\ PartitionHolds(p)
           /\ p.labels # <<>> /\ p.row_count = Len(p.labels)
           /\ ToSet(p.labels) =
                {r \in ToSet(d.labels) : Included(r, partition_bounds(spec, name))}
    <1> DEFINE labels == Where(d.labels, {r \in ToSet(d.labels) :
                                             Included(r, partition_bounds(spec, name))})
    <1>1. /\ p.labels = labels /\ labels # <<>>
          /\ p.features = RowsAt(d.features, Sessions(labels))
          /\ p.name = name /\ p.spec = spec /\ p.source = d.source
          /\ p.row_count = Len(labels) /\ PartitionHolds(p)
        BY DEF build_partition
    <1>2. ToSet(labels) = {r \in ToSet(d.labels) : Included(r, partition_bounds(spec, name))}
        BY WhereRows DEF KnownLabels, Rising
    <1>3. KnownFeatures(p.features) /\ KnownLabels(labels)
        BY <1>1, MaskKnows DEF RowsAt
    <1> QED
        BY <1>1, <1>2, <1>3

(***************************************************************************)
(* The V1 chain: partitions.                                               *)
(***************************************************************************)
\* The sessions a partition is labelled on, whatever the costs of the labels.
Selected(batch, bounds) ==
    {session \in Nat :
        /\ \E i \in (TRAILING_WARMUP_ROWS + 1)..Len(batch.rows) : batch.rows[i].session = session
        /\ \E i \in 1..(Len(batch.rows) - EXIT_OFFSET_SESSIONS) :
              /\ batch.rows[i].session = session
              /\ bounds[1] <= session /\ session <= bounds[2]
              /\ batch.rows[i + EXIT_OFFSET_SESSIONS].session <= bounds[2]}

Sound(p, batch, spec, name) ==
    /\ KnownFeatures(p.features) /\ KnownLabels(p.labels)
    /\ p.name = name /\ p.spec = spec /\ p.source = batch.checksum /\ PartitionHolds(p)
    /\ p.labels # <<>> /\ p.row_count = Len(p.labels)
    /\ ToSet(Sessions(p.labels)) = Selected(batch, partition_bounds(spec, name))

LEMMA PartitionSound ==
    ASSUME NEW batch, batch.rows \in MarketRows, NEW costs,
           NEW fs \in build_trailing_feature_set(batch),
           NEW ls \in build_forward_label_set(batch, costs),
           NEW d \in build_supervised_dataset(fs, ls), NEW spec, NEW name,
           NEW p \in build_partition(d, spec, name)
    PROVE  Sound(p, batch, spec, name)
    <1> DEFINE rows == batch.rows
               W == TRAILING_WARMUP_ROWS
               X == EXIT_OFFSET_SESSIONS
               bounds == partition_bounds(spec, name)
               F == {rows[i].session : i \in (W + 1)..Len(rows)}
               L == {<<rows[i].session, rows[i + X].session>> : i \in 1..(Len(rows) - X)}
    <1>1. /\ KnownFeatures(fs.data) /\ fs.source = batch.checksum /\ ToSet(Sessions(fs.data)) = F
        BY FeaturesKnown
    <1>2. KnownLabels(ls.data) /\ {<<r.session, r.exit>> : r \in ToSet(ls.data)} = L
        BY LabelsKnown
    <1>3. /\ KnownFeatures(d.features) /\ KnownLabels(d.labels) /\ d.source = batch.checksum
          /\ ToSet(d.labels) = {r \in ToSet(ls.data) : r.session \in F}
        BY <1>1, <1>2, DatasetKnown
    <1>4. /\ KnownFeatures(p.features) /\ KnownLabels(p.labels)
          /\ p.name = name /\ p.spec = spec /\ p.source = d.source /\ PartitionHolds(p)
          /\ p.labels # <<>> /\ p.row_count = Len(p.labels)
          /\ ToSet(p.labels) = {r \in ToSet(d.labels) : Included(r, bounds)}
        BY <1>3, PartitionKnown
    <1>5. ToSet(Sessions(p.labels)) =
              {r.session : r \in {x \in ToSet(ls.data) : x.session \in F /\ Included(x, bounds)}}
        BY <1>3, <1>4, FrameSessions DEF KnownLabels, Rising
    <1>6. ASSUME NEW session
          PROVE session \in ToSet(Sessions(p.labels)) <=>
                  /\ session \in F
                  /\ \E i \in 1..(Len(rows) - X) :
                        /\ rows[i].session = session
                        /\ bounds[1] <= session /\ session <= bounds[2]
                        /\ rows[i + X].session <= bounds[2]
        <2>1. ASSUME NEW r \in ToSet(ls.data), session = r.session, Included(r, bounds)
              PROVE \E i \in 1..(Len(rows) - X) :
                        /\ rows[i].session = session
                        /\ bounds[1] <= session /\ session <= bounds[2]
                        /\ rows[i + X].session <= bounds[2]
            <3>1. PICK i \in 1..(Len(rows) - X) :
                     <<r.session, r.exit>> = <<rows[i].session, rows[i + X].session>>
                BY <1>2
            <3> QED
                BY <2>1, <3>1 DEF Included
        <2>2. ASSUME NEW i \in 1..(Len(rows) - X), rows[i].session = session,
                     bounds[1] <= session /\ session <= bounds[2], rows[i + X].session <= bounds[2]
              PROVE \E r \in ToSet(ls.data) : r.session = session /\ Included(r, bounds)
            <3>1. PICK r \in ToSet(ls.data) :
                     <<r.session, r.exit>> = <<rows[i].session, rows[i + X].session>>
                BY <1>2
            <3> QED
                BY <2>2, <3>1 DEF Included
        <2> HIDE DEF F, bounds, X
        <2> QED
            BY <1>5, <2>1, <2>2
    <1>7. \A session \in ToSet(Sessions(p.labels)) : session \in Nat
        BY <1>4, FrameSessions DEF KnownLabels, Rising
    <1>8. ToSet(Sessions(p.labels)) = Selected(batch, bounds)
        <2> HIDE DEF bounds
        <2> QED
            BY <1>6, <1>7 DEF Selected
    <1> QED
        BY <1>3, <1>4, <1>8 DEF Sound

LEMMA SplitSound ==
    ASSUME NEW s \in Splits
    PROVE  \E batch \in Batches, spec \in Specs :
              /\ SplitSpecHolds(spec) /\ s.parts.spec = spec
              /\ Sound(s.parts.train, batch, spec, "train")
              /\ Sound(s.parts.validation, batch, spec, "validation")
              /\ Sound(s.parts.test, batch, spec, "test")
    <1>1. PICK batch \in Batches, c \in Costs, spec \in Specs :
             \E fs \in build_trailing_feature_set(batch), ls \in build_forward_label_set(batch, c) :
             \E d \in build_supervised_dataset(fs, ls) : \E parts \in split_supervised_dataset(d, spec) :
                s = [costs |-> c, parts |-> parts]
        BY DEF Splits
    <1>2. PICK fs \in build_trailing_feature_set(batch), ls \in build_forward_label_set(batch, c) :
             \E d \in build_supervised_dataset(fs, ls) : \E parts \in split_supervised_dataset(d, spec) :
                s = [costs |-> c, parts |-> parts]
        BY <1>1
    <1>3. PICK d \in build_supervised_dataset(fs, ls) :
             \E parts \in split_supervised_dataset(d, spec) : s = [costs |-> c, parts |-> parts]
        BY <1>2
    <1>4. s.parts \in split_supervised_dataset(d, spec)
        BY <1>3
    <1>5. /\ s.parts.train \in build_partition(d, spec, "train")
          /\ s.parts.validation \in build_partition(d, spec, "validation")
          /\ s.parts.test \in build_partition(d, spec, "test")
          /\ s.parts.spec = spec /\ SplitSpecHolds(spec)
        BY <1>4 DEF split_supervised_dataset
    <1>6. batch.rows \in MarketRows
        BY PipelineAssumption DEF PipelineAssumption, MarketRows
    <1> QED
        BY <1>5, <1>6, PartitionSound

LEMMA SpecOrder ==
    ASSUME NEW spec \in Specs, SplitSpecHolds(spec)
    PROVE  /\ \A name \in PARTITION_NAMES :
                 partition_bounds(spec, name)[1] \in Nat /\ partition_bounds(spec, name)[2] \in Nat
           /\ partition_bounds(spec, "train")[2] < partition_bounds(spec, "validation")[1]
           /\ partition_bounds(spec, "validation")[1] <= partition_bounds(spec, "validation")[2]
           /\ partition_bounds(spec, "validation")[2] < partition_bounds(spec, "test")[1]
    <1>1. /\ spec["train"] \in Nat \X Nat /\ spec["validation"] \in Nat \X Nat
          /\ spec["test"] \in Nat \X Nat
        BY PipelineAssumption DEF PipelineAssumption, PARTITION_NAMES
    <1>2. /\ partition_bounds(spec, "train") = spec.train
          /\ partition_bounds(spec, "validation") = spec.validation
          /\ partition_bounds(spec, "test") = spec.test
        BY DEF partition_bounds
    <1> QED
        BY <1>1, <1>2 DEF SplitSpecHolds, PARTITION_NAMES

\* A partition reads nothing after its window, and scores nothing before it.
LEMMA PartitionReads ==
    ASSUME NEW batch, NEW spec, NEW name, NEW p, Sound(p, batch, spec, name),
           partition_bounds(spec, name)[1] \in Nat, partition_bounds(spec, name)[2] \in Nat
    PROVE  /\ \A date \in ReadBy(p) : date \in Nat /\ date <= partition_bounds(spec, name)[2]
           /\ p.features # <<>>
           /\ Head(p.features).session \in Nat
           /\ partition_bounds(spec, name)[1] <= Head(p.features).session
    <1> DEFINE bounds == partition_bounds(spec, name)
    <1>1. /\ Frame(p.features) /\ Frame(p.labels)
          /\ Len(p.features) = Len(p.labels) /\ Sessions(p.features) = Sessions(p.labels)
          /\ \A i \in DOMAIN Sessions(p.features) :
                /\ bounds[1] <= Sessions(p.features)[i] /\ Sessions(p.features)[i] <= bounds[2]
                /\ p.labels[i].exit <= bounds[2]
        BY DEF Sound, PartitionHolds, KnownFeatures, KnownLabels, Rising
    <1> DEFINE n == Len(p.labels)
    <1>2. /\ n \in Nat /\ n # 0 /\ DOMAIN Sessions(p.features) = 1..n
          /\ DOMAIN p.features = 1..n /\ DOMAIN p.labels = 1..n
          /\ p.features # <<>>
          /\ ToSet(p.features) = {p.features[i] : i \in 1..n}
          /\ ToSet(p.labels) = {p.labels[i] : i \in 1..n}
        <2>1. n \in Nat /\ n # 0
            BY <1>1, FrameFacts DEF Sound
        <2>2. Frame(Sessions(p.features)) /\ Len(Sessions(p.features)) = n
            BY <1>1, FrameSessions
        <2> QED
            BY <1>1, <2>1, <2>2, FrameFacts
    <1>3. \A i \in 1..n : /\ p.features[i].session \in Nat
                          /\ bounds[1] <= p.features[i].session
                          /\ p.features[i].session <= bounds[2]
                          /\ p.labels[i].exit <= bounds[2]
        BY <1>1, <1>2, FrameSessions DEF Sound, KnownFeatures, Rising
    <1>4. ASSUME NEW date \in ReadBy(p)
          PROVE date \in Nat /\ date <= bounds[2]
        <2>1. \/ \E i \in 1..n : date \in p.features[i].window
              \/ \E i \in 1..n : date \in p.labels[i].reads
            BY <1>2 DEF ReadBy, UnionOver
        <2>2. ASSUME NEW i \in 1..n, date \in p.features[i].window
              PROVE date \in Nat /\ date <= bounds[2]
            <3>1. date \in Nat /\ date <= p.features[i].session
                BY <1>2, <2>2 DEF Sound, KnownFeatures
            <3> QED
                BY <1>3, <3>1
        <2>3. ASSUME NEW i \in 1..n, date \in p.labels[i].reads
              PROVE date \in Nat /\ date <= bounds[2]
            <3>1. /\ date \in {p.labels[i].entry, p.labels[i].exit}
                  /\ p.labels[i].entry \in Nat /\ p.labels[i].exit \in Nat
                  /\ p.labels[i].entry < p.labels[i].exit
                BY <1>2, <2>3 DEF Sound, KnownLabels
            <3> QED
                BY <1>3, <3>1
        <2> QED
            BY <2>1, <2>2, <2>3
    <1>5. Head(p.features) = p.features[1] /\ 1 \in 1..n
        BY <1>1, <1>2 DEF Frame
    <1> QED
        BY <1>2, <1>3, <1>4, <1>5

\* A fit that a later frame scores, without a look ahead.
Fair(f) ==
    /\ \A date \in f.reads : date < f.before
    /\ \A row \in f.inputs : \A date \in row.window : date <= row.session

LEMMA FitFair ==
    ASSUME NEW reads, NEW frame, KnownFeatures(frame),
           \A date \in reads : date < Head(frame).session
    PROVE  Fair(Fit(reads, frame))
    <1>1. DOMAIN frame = 1..Len(frame) /\ ToSet(frame) = {frame[i] : i \in 1..Len(frame)}
        BY FrameFacts DEF KnownFeatures, Rising
    <1>2. \A i \in DOMAIN frame : \A date \in frame[i].window : date <= frame[i].session
        BY <1>1 DEF KnownFeatures
    <1> QED
        BY <1>2 DEF Fair, Fit

---------------------------------------------------------------------------
(* The V1 chain: training, the refit and the final evaluation *)

\* What the artifact in the caller's hands was learned from.
Learned ==
    /\ held.kind = "comparison" =>
         \E batch \in Batches, spec \in Specs :
            /\ held.is.source = batch.checksum /\ held.is.spec = spec
            /\ held.is.lock.source = batch.checksum /\ held.is.lock.spec = spec
            /\ ToSet(Sessions(held.is.logistic.train_predictions.data))
                 = Selected(batch, partition_bounds(spec, "train"))
            /\ ToSet(Sessions(held.is.logistic.validation_predictions.data))
                 = Selected(batch, partition_bounds(spec, "validation"))
    /\ held.kind = "bundle" =>
         \A date \in held.is.estimator.reads :
            date \in Nat /\ date <= partition_bounds(held.is.spec, "validation")[2]

LEMMA ScoredRows ==
    ASSUME NEW e, NEW p, NEW model, NEW config, NEW x \in Scored(e, p, model, config)
    PROVE  Sessions(x.predictions.data) = Sessions(p.labels)
    <1> DEFINE probabilities == positive_class_probabilities(e, p.features)
    <1>1. PICK ps \in build_prediction_set_from_probabilities(p, probabilities, model, config) :
             \E m \in calculate_classification_metrics(ps) : x = [predictions |-> ps, metrics |-> m]
        BY DEF Scored
    <1> HIDE DEF probabilities
    <1>2. ps.data = [i \in DOMAIN p.labels |->
                          [session |-> p.labels[i].session, probability |-> probabilities[i],
                           predicted |-> IF probabilities[i] >= config.threshold
                                         THEN 1 ELSE 0,
                           target |-> p.labels[i].target]]
        BY <1>1 DEF build_prediction_set_from_probabilities
    <1>3. DOMAIN ps.data = DOMAIN p.labels
          /\ \A i \in DOMAIN p.labels : ps.data[i].session = p.labels[i].session
        BY <1>2
    <1>4. x.predictions = ps
        BY <1>1
    <1> QED
        BY <1>3, <1>4 DEF Sessions

LEMMA CandidateKnown ==
    ASSUME NEW model, NEW train, NEW validation, NEW config, NEW version,
           NEW c \in CandidateResults(model, train, validation, config, version)
    PROVE  /\ c.estimator.reads = ReadBy(train)
           /\ Sessions(c.train_predictions.data) = Sessions(train.labels)
           /\ Sessions(c.validation_predictions.data) = Sessions(validation.labels)
    <1> DEFINE estimators == FitEstimator(build_candidate_estimator(model, config.seed), {train})
    <1> DEFINE Result(e, t, v) ==
            [model |-> model, estimator |-> e,
             parameters |-> fixed_model_parameters(model, config.seed),
             train_predictions |-> t.predictions, train_metrics |-> t.metrics,
             validation_predictions |-> v.predictions, validation_metrics |-> v.metrics,
             source |-> train.source, spec |-> train.spec,
             seed |-> config.seed, version |-> version]
    <1>0. PICK e \in estimators :
             \E t \in Scored(e, train, model, config), v \in Scored(e, validation, model, config) :
                c = Result(e, t, v)
        BY DEF CandidateResults
    <1>1. PICK t \in Scored(e, train, model, config), v \in Scored(e, validation, model, config) :
             c = Result(e, t, v)
        BY <1>0
    <1>2. e.reads = UNION {ReadBy(p) : p \in {train}}
        BY DEF FitEstimator
    <1>3. e.reads = ReadBy(train)
        BY <1>2
    <1>4. /\ Sessions(t.predictions.data) = Sessions(train.labels)
          /\ Sessions(v.predictions.data) = Sessions(validation.labels)
        BY ScoredRows
    <1> HIDE DEF estimators
    <1> QED
        BY <1>1, <1>3, <1>4

LEMMA TrainingKnown ==
    ASSUME NEW train, NEW validation, NEW config, NEW version,
           NEW c \in train_candidate_models(train, validation, config, version)
    PROVE  /\ c.source = train.source /\ c.spec = train.spec
           /\ c.lock.source = train.source /\ c.lock.spec = train.spec
           /\ c.logistic.estimator.reads = ReadBy(train)
           /\ c.boosting.estimator.reads = ReadBy(train)
           /\ Sessions(c.logistic.train_predictions.data) = Sessions(train.labels)
           /\ Sessions(c.logistic.validation_predictions.data) = Sessions(validation.labels)
    <1>1. PICK l \in CandidateResults(LOGISTIC, train, validation, config, version),
               g \in CandidateResults(BOOSTING, train, validation, config, version) :
             \E k \in select_locked_model(l, g, config, version) :
                c = [logistic |-> l, boosting |-> g, lock |-> k, config |-> config,
                     source |-> train.source, spec |-> train.spec, version |-> version]
        BY DEF train_candidate_models
    <1>2. ComparisonHolds(c, version)
        BY DEF train_candidate_models
    <1>3. Lineage(c.lock) = Lineage(c)
        BY <1>2 DEF ComparisonHolds, ComparisonLineageHolds
    <1>4. c.lock.source = c.source /\ c.lock.spec = c.spec
        BY <1>3 DEF Lineage
    <1>5. /\ c.logistic = l /\ c.boosting = g /\ c.source = train.source /\ c.spec = train.spec
        BY <1>1
    <1> QED
        BY <1>4, <1>5, CandidateKnown

LEMMA RefitKnown ==
    ASSUME NEW train, NEW validation, NEW k, NEW version,
           NEW b \in fit_locked_model_on_train_validation(train, validation, k, version)
    PROVE  /\ Lineage(k) = Lineage(train) /\ Lineage(k) = Lineage(validation)
           /\ Lineage(b) = Lineage(k)
           /\ b.estimator.reads = ReadBy(train) \cup ReadBy(validation)
           /\ b.estimator.sources = {k.source}
           /\ b.estimator.sessions = ToSet(Sessions(train.labels))
                                       \cup ToSet(Sessions(validation.labels))
    <1> DEFINE estimators == FitEstimator(build_candidate_estimator(k.decision.selected, k.seed),
                                          {train, validation})
    <1>1. PICK e \in estimators : b = BundleOf(e, k, train, validation, version)
        BY DEF fit_locked_model_on_train_validation
    <1>2. /\ e.reads = UNION {ReadBy(p) : p \in {train, validation}}
          /\ e.sources = {p.source : p \in {train, validation}}
          /\ e.sessions = UNION {ToSet(Sessions(p.labels)) : p \in {train, validation}}
        BY DEF FitEstimator
    <1>3. LockMatchesPartitions(k, train, validation, version)
        BY DEF fit_locked_model_on_train_validation
    <1>4. Lineage(k) = Lineage(train) /\ Lineage(k) = Lineage(validation)
        BY <1>3 DEF LockMatchesPartitions
    <1>5. k.source = train.source /\ k.source = validation.source
        BY <1>4 DEF Lineage
    <1>6. b.estimator = e /\ b.source = k.source /\ b.spec = k.spec
        BY <1>1 DEF BundleOf
    <1>7. Lineage(b) = Lineage(k)
        BY <1>6 DEF Lineage
    <1> HIDE DEF estimators
    <1> QED
        BY <1>2, <1>4, <1>5, <1>6, <1>7

LEMMA TrainLearns ==
    ASSUME Train
    PROVE  Learned' /\ NoLookAhead'
    <1>1. PICK s \in Splits, threshold \in Thresholds, seed \in Seeds :
             \E c \in train_candidate_models(s.parts.train, s.parts.validation,
                        [seed |-> seed, threshold |-> threshold], runtime) :
                /\ held' = [kind |-> "comparison", is |-> c]
                /\ fits' = {Fit(r.estimator.reads, s.parts.validation.features) :
                              r \in {c.logistic, c.boosting}}
        BY DEF Train
    <1> DEFINE train == s.parts.train
               validation == s.parts.validation
               config == [seed |-> seed, threshold |-> threshold]
    <1> HIDE DEF config
    <1>2. PICK c \in train_candidate_models(train, validation, config, runtime) :
                /\ held' = [kind |-> "comparison", is |-> c]
                /\ fits' = {Fit(r.estimator.reads, validation.features) :
                              r \in {c.logistic, c.boosting}}
        BY <1>1 DEF config
    <1>3. PICK batch \in Batches, spec \in Specs :
              /\ SplitSpecHolds(spec)
              /\ Sound(train, batch, spec, "train") /\ Sound(validation, batch, spec, "validation")
        BY SplitSound
    <1> HIDE DEF train, validation
    <1>4. held'.kind = "comparison" /\ held'.is = c
        BY <1>2
    <1>5. Learned'
        <2>1. train.source = batch.checksum /\ train.spec = spec
              /\ ToSet(Sessions(train.labels)) = Selected(batch, partition_bounds(spec, "train"))
              /\ ToSet(Sessions(validation.labels))
                   = Selected(batch, partition_bounds(spec, "validation"))
            BY <1>3 DEF Sound
        <2> QED
            BY <1>4, <2>1, TrainingKnown DEF Learned
    <1>6. \A date \in ReadBy(train) : date < Head(validation.features).session
        <2>1. /\ \A date \in ReadBy(train) : date \in Nat /\ date <= partition_bounds(spec, "train")[2]
              /\ Head(validation.features).session \in Nat
              /\ partition_bounds(spec, "validation")[1] <= Head(validation.features).session
              /\ partition_bounds(spec, "train")[2] \in Nat
              /\ partition_bounds(spec, "validation")[1] \in Nat
              /\ partition_bounds(spec, "train")[2] < partition_bounds(spec, "validation")[1]
            BY <1>3, SpecOrder, PartitionReads DEF PARTITION_NAMES
        <2> QED
            BY <2>1
    <1>7. \A r \in {c.logistic, c.boosting} : Fair(Fit(r.estimator.reads, validation.features))
        <2>1. KnownFeatures(validation.features)
            BY <1>3 DEF Sound
        <2> QED
            BY <1>6, <2>1, TrainingKnown, FitFair
    <1>8. NoLookAhead'
        BY <1>2, <1>7 DEF NoLookAhead, Fair
    <1> QED
        BY <1>5, <1>8

\* The refit is on the batch and the sessions of the selection.
LEMMA RefitLearns ==
    ASSUME Learned, FitLocked
    PROVE  /\ Learned' /\ NoLookAhead'
           /\ held'.is.estimator.sources = {held.is.source}
           /\ held'.is.estimator.sessions
                = ToSet(Sessions(held.is.logistic.train_predictions.data))
                    \cup ToSet(Sessions(held.is.logistic.validation_predictions.data))
    <1> DEFINE k == held.is.lock
    <1>1. PICK s \in Splits :
             \E b \in fit_locked_model_on_train_validation(
                          s.parts.train, s.parts.validation, k, runtime) :
                held' = [kind |-> "bundle", is |-> b] /\ fits' = {}
        BY DEF FitLocked
    <1> DEFINE train == s.parts.train
               validation == s.parts.validation
    <1>2. PICK b \in fit_locked_model_on_train_validation(train, validation, k, runtime) :
             held' = [kind |-> "bundle", is |-> b] /\ fits' = {}
        BY <1>1
    <1>3. PICK batch \in Batches, spec \in Specs :
              /\ SplitSpecHolds(spec)
              /\ Sound(train, batch, spec, "train") /\ Sound(validation, batch, spec, "validation")
        BY SplitSound
    <1> HIDE DEF train, validation
    <1>4. held'.kind = "bundle" /\ held'.is = b
        BY <1>2
    <1>5. PICK batch0 \in Batches, spec0 \in Specs :
            /\ held.is.source = batch0.checksum
            /\ k.source = batch0.checksum /\ k.spec = spec0
            /\ ToSet(Sessions(held.is.logistic.train_predictions.data))
                 = Selected(batch0, partition_bounds(spec0, "train"))
            /\ ToSet(Sessions(held.is.logistic.validation_predictions.data))
                 = Selected(batch0, partition_bounds(spec0, "validation"))
        BY DEF Learned, FitLocked
    <1> HIDE DEF k
    <1>6. /\ k.source = batch.checksum /\ k.spec = spec
          /\ ToSet(Sessions(train.labels)) = Selected(batch, partition_bounds(spec, "train"))
          /\ ToSet(Sessions(validation.labels)) = Selected(batch, partition_bounds(spec, "validation"))
        <2>1. Lineage(k) = Lineage(train)
            BY RefitKnown
        <2>2. k.source = train.source /\ k.spec = train.spec
            BY <2>1 DEF Lineage
        <2> QED
            BY <1>3, <2>2 DEF Sound
    <1>7. batch0 = batch /\ spec0 = spec
        BY <1>5, <1>6, PipelineAssumption DEF PipelineAssumption
    <1>8. b.spec = spec
        <2>1. Lineage(b) = Lineage(k)
            BY RefitKnown
        <2>2. b.spec = k.spec
            BY <2>1 DEF Lineage
        <2> QED
            BY <1>6, <2>2
    <1>9. \A date \in ReadBy(train) \cup ReadBy(validation) :
             date \in Nat /\ date <= partition_bounds(spec, "validation")[2]
        <2>1. /\ \A date \in ReadBy(train) : date \in Nat /\ date <= partition_bounds(spec, "train")[2]
              /\ \A date \in ReadBy(validation) :
                    date \in Nat /\ date <= partition_bounds(spec, "validation")[2]
              /\ partition_bounds(spec, "train")[2] \in Nat
              /\ partition_bounds(spec, "validation")[1] \in Nat
              /\ partition_bounds(spec, "validation")[2] \in Nat
              /\ partition_bounds(spec, "train")[2] < partition_bounds(spec, "validation")[1]
              /\ partition_bounds(spec, "validation")[1] <= partition_bounds(spec, "validation")[2]
            BY <1>3, SpecOrder, PartitionReads DEF PARTITION_NAMES
        <2> QED
            BY <2>1
    <1>10. Learned'
        BY <1>4, <1>8, <1>9, RefitKnown DEF Learned
    <1>11. NoLookAhead'
        BY <1>2 DEF NoLookAhead
    <1> QED
        BY <1>4, <1>5, <1>6, <1>7, <1>10, <1>11, RefitKnown

LEMMA EvaluationLearns ==
    ASSUME Learned, Evaluate
    PROVE  Learned' /\ NoLookAhead'
    <1>1. PICK s \in Splits :
             \E v \in evaluate_locked_model_on_test(held.is, s.parts.test, runtime) :
                /\ held' = [kind |-> "evaluation", is |-> v]
                /\ fits' = {Fit(held.is.estimator.reads, s.parts.test.features)}
        BY DEF Evaluate
    <1> DEFINE test == s.parts.test
    <1>2. PICK v \in evaluate_locked_model_on_test(held.is, test, runtime) :
                /\ held' = [kind |-> "evaluation", is |-> v]
                /\ fits' = {Fit(held.is.estimator.reads, test.features)}
        BY <1>1
    <1>3. PICK batch \in Batches, spec \in Specs :
              SplitSpecHolds(spec) /\ Sound(test, batch, spec, "test")
        BY SplitSound
    <1> HIDE DEF test
    <1>4. Lineage(test) = Lineage(held.is)
        BY DEF evaluate_locked_model_on_test
    <1>5. held.is.spec = spec
        BY <1>3, <1>4 DEF Lineage, Sound
    <1>6. Learned'
        BY <1>2 DEF Learned
    <1>7. \A date \in held.is.estimator.reads : date < Head(test.features).session
        <2>1. /\ \A date \in held.is.estimator.reads :
                    date \in Nat /\ date <= partition_bounds(spec, "validation")[2]
              /\ Head(test.features).session \in Nat
              /\ partition_bounds(spec, "test")[1] <= Head(test.features).session
              /\ partition_bounds(spec, "validation")[2] \in Nat
              /\ partition_bounds(spec, "test")[1] \in Nat
              /\ partition_bounds(spec, "validation")[2] < partition_bounds(spec, "test")[1]
            BY <1>3, <1>5, SpecOrder, PartitionReads DEF PARTITION_NAMES, Learned, Evaluate
        <2> QED
            BY <2>1
    <1>8. Fair(Fit(held.is.estimator.reads, test.features))
        <2>1. KnownFeatures(test.features)
            BY <1>3 DEF Sound
        <2> QED
            BY <1>7, <2>1, FitFair
    <1>9. NoLookAhead'
        BY <1>2, <1>8 DEF NoLookAhead, Fair
    <1> QED
        BY <1>6, <1>9

LEMMA ChainLearns ==
    ASSUME Learned, NoLookAhead, Next
    PROVE  Learned' /\ NoLookAhead'
    <1>1. CASE BuildSignals
        <2>1. held'.kind = "signals" /\ UNCHANGED fits
            BY <1>1 DEF BuildSignals
        <2> QED
            BY <2>1 DEF Learned, NoLookAhead
    <1>2. CASE Upgrade
        BY <1>2 DEF Upgrade, Learned, NoLookAhead
    <1> QED
        BY <1>1, <1>2, TrainLearns, RefitLearns, EvaluationLearns DEF Next

---------------------------------------------------------------------------
(* Folds and calibration splits *)

LEMMA SliceRows ==
    ASSUME NEW R, NEW s \in Seq(R), NEW a \in Nat, NEW b \in Nat
    PROVE  /\ Slice(s, a, b) \in Seq(R)
           /\ \A i \in 1..Len(Slice(s, a, b)) : a + i \in 1..Len(s) /\ Slice(s, a, b)[i] = s[a + i]
           /\ b <= Len(s) /\ a <= b => Len(Slice(s, a, b)) = b - a
    <1> DEFINE n == IF b < Len(s) THEN b ELSE Len(s)
    <1>1. n \in Nat /\ n <= Len(s) /\ Len(s) \in Nat /\ Slice(s, a, b) = SubSeq(s, a + 1, n)
          /\ (b <= Len(s) => n = b)
        BY DEF Slice
    <1> HIDE DEF n
    <1>2. \A i \in (a + 1)..n : s[i] \in R
        BY <1>1
    <1>3. SubSeq(s, a + 1, n) \in Seq(R)
        BY <1>1, <1>2
    <1>4. Len(SubSeq(s, a + 1, n)) = IF a + 1 <= n THEN n - a ELSE 0
        BY <1>1
    <1>5. \A i \in 1..Len(SubSeq(s, a + 1, n)) : SubSeq(s, a + 1, n)[i] = s[a + i]
        BY <1>1, <1>4
    <1> QED
        BY <1>1, <1>3, <1>4, <1>5

\* A dataset of the campaign.
Aligned(d) ==
    /\ KnownFeatures(d.features) /\ KnownLabels(d.labels)
    /\ ToSet(Sessions(d.features)) = ToSet(Sessions(d.labels))

\* Nothing a fit on these sessions reads is after their last exit.
LEMMA ReadsUntil ==
    ASSUME NEW d, Aligned(d), NEW sessions, NEW last \in Nat,
           \A r \in ToSet(d.labels) : r.session \in ToSet(sessions) => r.exit <= last
    PROVE  \A date \in FitReads(d, sessions) : date \in Nat /\ date <= last
    <1> DEFINE features == RowsAt(d.features, sessions)
               labels == RowsAt(d.labels, sessions)
    <1>1. /\ Frame(features) /\ Frame(labels)
          /\ ToSet(features) = {r \in ToSet(d.features) : r.session \in ToSet(sessions)}
          /\ ToSet(labels) = {r \in ToSet(d.labels) : r.session \in ToSet(sessions)}
        BY WhereRows DEF RowsAt, Aligned, KnownFeatures, KnownLabels, Rising
    <1>2. /\ \A i \in DOMAIN features : features[i] \in ToSet(features)
          /\ \A i \in DOMAIN labels : labels[i] \in ToSet(labels)
        BY DEF ToSet
    <1> HIDE DEF features, labels
    <1>3. ASSUME NEW r \in ToSet(features), NEW date \in r.window
          PROVE date \in Nat /\ date <= last
        <2>1. date \in Nat /\ date <= r.session /\ r.session \in ToSet(sessions)
            BY <1>1, <1>3 DEF Aligned, KnownFeatures
        <2>2. PICK l \in ToSet(d.labels) : l.session = r.session
            <3>1. r.session \in ToSet(Sessions(d.features))
                BY <1>1, FrameSessions DEF Aligned, KnownFeatures, Rising
            <3> QED
                BY <3>1, FrameSessions DEF Aligned, KnownLabels, Rising
        <2>3. l.session \in Nat /\ l.entry \in Nat /\ l.exit \in Nat
              /\ l.session < l.entry /\ l.entry < l.exit /\ l.exit <= last
            BY <2>1, <2>2 DEF Aligned, KnownLabels, Rising
        <2> QED
            BY <2>1, <2>2, <2>3
    <1>4. ASSUME NEW r \in ToSet(labels), NEW date \in r.reads
          PROVE date \in Nat /\ date <= last
        <2>1. /\ date \in {r.entry, r.exit} /\ r.entry \in Nat /\ r.exit \in Nat
              /\ r.entry < r.exit /\ r.exit <= last
            BY <1>1, <1>4 DEF Aligned, KnownLabels
        <2> QED
            BY <2>1
    <1>5. ASSUME NEW date \in FitReads(d, sessions)
          PROVE \/ \E i \in DOMAIN features : date \in features[i].window
                \/ \E i \in DOMAIN labels : date \in labels[i].reads
        BY <1>5 DEF FitReads, features, labels
    <1> QED
        BY <1>2, <1>3, <1>4, <1>5

\* A fit that ends before every session it is scored on.
LEMMA ScoredLater ==
    ASSUME NEW d, Aligned(d), NEW reads, NEW assessed, NEW last \in Nat,
           \A date \in reads : date \in Nat /\ date <= last,
           ToSet(assessed) \subseteq ToSet(Sessions(d.labels)), ToSet(assessed) # {},
           \A session \in ToSet(assessed) : last < session
    PROVE  Fair(Fit(reads, RowsAt(d.features, assessed)))
    <1> DEFINE scored == RowsAt(d.features, assessed)
    <1>1. KnownFeatures(scored)
          /\ ToSet(scored) = {r \in ToSet(d.features) : r.session \in ToSet(assessed)}
        BY WhereRows, MaskKnows DEF RowsAt, Aligned, KnownFeatures, Rising
    <1> HIDE DEF scored
    <1>2. ToSet(scored) # {}
        <2>1. PICK session \in ToSet(assessed) : session \in ToSet(Sessions(d.features))
            BY DEF Aligned
        <2>2. PICK r \in ToSet(d.features) : r.session = session
            BY <2>1, FrameSessions DEF Aligned, KnownFeatures, Rising
        <2> QED
            BY <1>1, <2>1, <2>2
    <1>3. scored # <<>>
        <2>1. ToSet(<<>>) = {}
            BY DEF ToSet
        <2> QED
            BY <1>2, <2>1
    <1>4. Head(scored).session \in Nat /\ last < Head(scored).session
        <2>1. Rising(scored)
            BY <1>1 DEF KnownFeatures
        <2>2. Head(scored) \in ToSet(scored)
            BY <1>3, <2>1, HeadIsFirst
        <2> QED
            BY <1>1, <2>1, <2>2 DEF Rising
    <1>5. \A date \in reads : date < Head(scored).session
        BY <1>4
    <1>6. Fair(Fit(reads, scored))
        BY <1>1, <1>5, FitFair
    <1> QED
        BY <1>6 DEF scored

\* A window of labels in session order is in exit order.
LEMMA ExitsFollow ==
    ASSUME NEW w, Rising(w), \A r \in ToSet(w) : r.exit \in Nat, StrictlyIncreasing(Exits(w)),
           NEW a \in ToSet(w), NEW b \in ToSet(w), a.session <= b.session
    PROVE  a.exit <= b.exit
    <1>1. /\ Frame(w) /\ Len(w) \in Nat /\ DOMAIN w = 1..Len(w)
          /\ ToSet(w) = {w[i] : i \in 1..Len(w)}
        BY FrameFacts DEF Rising
    <1>2. PICK i \in 1..Len(w), j \in 1..Len(w) : a = w[i] /\ b = w[j]
        BY <1>1
    <1>3. Exits(w) = [k \in 1..Len(w) |-> w[k].exit] /\ \A k \in 1..Len(w) : w[k].exit \in Nat
        BY <1>1 DEF Exits
    <1>4. Exits(w) \in Seq(Nat) /\ Len(Exits(w)) = Len(w)
        BY <1>1, <1>3
    <1>5. ~(j < i)
        <2>1. a.session \in Nat /\ b.session \in Nat
            BY DEF Rising
        <2> QED
            BY <1>2, <2>1, RisingOrder
    <1>6. CASE i = j
        BY <1>2, <1>3, <1>6
    <1>7. CASE i < j
        <2>1. Exits(w)[i] < Exits(w)[j]
            BY <1>4, <1>7, Ordered
        <2> QED
            BY <1>2, <1>3, <2>1
    <1> QED
        BY <1>1, <1>5, <1>6, <1>7

\* A window of labels.
Window(w, d) ==
    /\ Rising(w) /\ w # <<>> /\ StrictlyIncreasing(Exits(w)) /\ ToSet(w) \subseteq ToSet(d.labels)

LEMMA FoldWindows ==
    ASSUME NEW d, Aligned(d), NEW k \in Nat, NEW f \in BuildFold(d, k)
    PROVE  /\ Window(f.training, d) /\ Window(f.assessment, d)
           /\ Last(f.training).exit < Head(f.assessment).session
           /\ f.index = k
    <1> DEFINE a == TrainRows(k) b == AssessedFrom(k) c == AssessedFrom(k) + FoldPolicy.assess
    <1>1. a \in Nat /\ b \in Nat /\ c \in Nat
        <2>1. FoldPolicy.train \in Nat /\ FoldPolicy.step \in Nat /\ FoldPolicy.assess \in Nat
            BY FoldAssumption DEF FoldAssumption
        <2> QED
            BY <2>1, WarmupNat DEF TrainRows, AssessedFrom, BOUNDARY_EXCLUSION_SESSIONS
    <1>2. /\ f.index = k
          /\ f.training = Slice(d.labels, 0, a) /\ f.assessment = Slice(d.labels, b, c)
          /\ WindowHolds(f.training, FoldPolicy.train) /\ WindowHolds(f.assessment, FoldPolicy.least)
          /\ FoldHolds(f)
        BY DEF BuildFold
    <1> HIDE DEF a, b, c
    <1>3. ASSUME NEW x \in Nat, NEW y \in Nat, NEW least, WindowHolds(Slice(d.labels, x, y), least)
          PROVE Window(Slice(d.labels, x, y), d)
        <2> DEFINE w == Slice(d.labels, x, y)
                   R == ToSet(d.labels)
        <2>1. d.labels \in Seq(R)
            BY DEF Aligned, KnownLabels, Rising, Frame
        <2>2. w \in Seq(R)
            BY <2>1, SliceRows
        <2> HIDE DEF w, R
        <2>3. Frame(w)
            BY <2>2, FrameOf
        <2>4. ToSet(w) \subseteq R
            BY <2>2, <2>3, FrameFacts
        <2>5. w # <<>> /\ StrictlyIncreasing(Sessions(w)) /\ StrictlyIncreasing(Exits(w))
            BY <1>3 DEF WindowHolds, w
        <2>6. Rising(w)
            BY <2>3, <2>4, <2>5 DEF Rising, Aligned, KnownLabels, R
        <2>7. Window(w, d)
            BY <2>4, <2>5, <2>6 DEF Window, R
        <2> QED
            BY <2>7 DEF w
    <1> QED
        BY <1>1, <1>2, <1>3 DEF FoldHolds

\* The exits of a set of sessions of a window: those of the whole window are over
\* with its last row.
LEMMA WindowEnds ==
    ASSUME NEW d, Aligned(d), NEW w, Window(w, d), NEW sessions,
           ToSet(sessions) \subseteq ToSet(Sessions(w))
    PROVE  /\ Last(w).exit \in Nat
           /\ \A r \in ToSet(d.labels) : r.session \in ToSet(sessions) =>
                r \in ToSet(w) /\ r.exit <= Last(w).exit
           /\ ToSet(sessions) \subseteq ToSet(Sessions(d.labels))
    <1>1. Rising(w) /\ w # <<>> /\ ToSet(w) \subseteq ToSet(d.labels)
        BY DEF Window
    <1>2. \A r \in ToSet(w) : r.exit \in Nat
        BY <1>1 DEF Aligned, KnownLabels
    <1>3. Last(w) \in ToSet(w) /\ \A r \in ToSet(w) : r.session <= Last(w).session
        BY <1>1, LastIsLast
    <1>4. \A r \in ToSet(w) : r.exit <= Last(w).exit
        BY <1>1, <1>2, <1>3, ExitsFollow DEF Window
    <1>5. ToSet(Sessions(w)) = {r.session : r \in ToSet(w)}
          /\ ToSet(Sessions(d.labels)) = {r.session : r \in ToSet(d.labels)}
        BY <1>1, FrameSessions DEF Rising, Aligned, KnownLabels
    <1>6. \A r \in ToSet(d.labels) : r.session \in ToSet(sessions) => r \in ToSet(w)
        BY <1>1, <1>5, RisingUnique DEF Aligned, KnownLabels
    <1> QED
        BY <1>1, <1>2, <1>3, <1>4, <1>5, <1>6

\* A fit on sessions of the training window, scored on the assessment.
LEMMA AssessmentFair ==
    ASSUME NEW d, Aligned(d), NEW k \in Nat, NEW f \in BuildFold(d, k), NEW sessions,
           ToSet(sessions) \subseteq ToSet(Sessions(f.training))
    PROVE  Fair(Fit(FitReads(d, sessions), RowsAt(d.features, Sessions(f.assessment))))
    <1> DEFINE last == Last(f.training).exit
               assessed == Sessions(f.assessment)
    <1>1. /\ Window(f.training, d) /\ Window(f.assessment, d)
          /\ last < Head(f.assessment).session
        BY FoldWindows
    <1>2. /\ last \in Nat
          /\ \A r \in ToSet(d.labels) : r.session \in ToSet(sessions) => r.exit <= last
        BY <1>1, WindowEnds
    <1>3. ToSet(assessed) \subseteq ToSet(Sessions(d.labels))
        BY <1>1, WindowEnds
    <1>4. ToSet(assessed) # {} /\ \A session \in ToSet(assessed) : last < session
        <2>1. Rising(f.assessment) /\ f.assessment # <<>>
            BY <1>1 DEF Window
        <2>2. /\ Head(f.assessment) \in ToSet(f.assessment)
              /\ \A r \in ToSet(f.assessment) : Head(f.assessment).session <= r.session
            BY <2>1, HeadIsFirst
        <2>3. ToSet(assessed) = {r.session : r \in ToSet(f.assessment)}
              /\ \A r \in ToSet(f.assessment) : r.session \in Nat
            BY <2>1, FrameSessions DEF Rising
        <2> HIDE DEF last, assessed
        <2> QED
            BY <1>1, <1>2, <2>2, <2>3
    <1> HIDE DEF last, assessed
    <1>5. \A date \in FitReads(d, sessions) : date \in Nat /\ date <= last
        BY <1>2, ReadsUntil
    <1>6. Fair(Fit(FitReads(d, sessions), RowsAt(d.features, assessed)))
        BY <1>2, <1>3, <1>4, <1>5, ScoredLater
    <1> QED
        BY <1>6 DEF assessed

LEMMA TrainingFair ==
    ASSUME NEW d, Aligned(d), NEW k \in Nat, NEW f \in BuildFold(d, k), NEW x \in ModelFits(d, f)
    PROVE  Fair(Fit(x.reads, RowsAt(d.features, x.assessed)))
    <1>1. /\ x.reads = FitReads(d, Sessions(f.training))
          /\ x.assessed = Sessions(f.assessment)
        BY DEF ModelFits
    <1> QED
        BY <1>1, AssessmentFair

\* The estimator behind a calibrator: its labels end before the calibration rows.
LEMMA EstimatorFair ==
    ASSUME NEW d, Aligned(d), NEW k \in Nat, NEW f \in BuildFold(d, k),
           NEW c \in build_calibration_split(d, f),
           FitScopeHolds(f, c.estimator), FitScopeHolds(f, c.calibration)
    PROVE  Fair(Fit(FitReads(d, c.estimator), RowsAt(d.features, c.calibration)))
    <1> DEFINE s == Sessions(f.training)
               w == f.training
               fitted == Len(s) - BOUNDARY_EXCLUSION_SESSIONS - CalibrationRows
               rows == RowsAt(d.labels, c.estimator)
               last == Last(rows).exit
    <1>1. Window(w, d)
        BY FoldWindows
    <1>2. /\ Rising(w) /\ s \in Seq(Nat) /\ Len(s) \in Nat
        <2>1. Rising(w)
            BY <1>1 DEF Window
        <2>2. Frame(s) /\ ToSet(s) = {r.session : r \in ToSet(w)}
            BY <2>1, FrameSessions DEF Rising
        <2>3. \A i \in 1..Len(s) : s[i] \in Nat
            BY <2>1, <2>2, FrameFacts DEF Rising
        <2>4. s \in Seq(Nat)
            BY <2>2, <2>3 DEF Frame
        <2> QED
            BY <2>1, <2>4
    <1>3. fitted \in Nat /\ fitted + BOUNDARY_EXCLUSION_SESSIONS \in Nat
          /\ c.estimator = Slice(s, 0, fitted)
          /\ c.calibration = Slice(s, fitted + BOUNDARY_EXCLUSION_SESSIONS, Len(s))
          /\ InnerPurgeHolds(d, c) /\ CalibrationSplitHolds(c)
        <2>1. ~(fitted <= 0)
            BY DEF build_calibration_split
        <2>2. /\ c.estimator = Slice(s, 0, fitted)
              /\ c.calibration = Slice(s, fitted + BOUNDARY_EXCLUSION_SESSIONS, Len(s))
              /\ InnerPurgeHolds(d, c) /\ CalibrationSplitHolds(c)
            BY DEF build_calibration_split
        <2> QED
            BY <1>2, <2>1, <2>2, WarmupNat, FoldAssumption
            DEF FoldAssumption, BOUNDARY_EXCLUSION_SESSIONS
    <1> HIDE DEF fitted
    <1>4. c.estimator \in Seq(Nat) /\ c.calibration \in Seq(Nat)
        BY <1>2, <1>3, SliceRows
    <1>5. c.estimator # <<>> /\ c.calibration # <<>> /\ last < Head(c.calibration)
        BY <1>3 DEF CalibrationSplitHolds, InnerPurgeHolds
    <1>6. /\ ToSet(c.estimator) \subseteq ToSet(s) /\ ToSet(c.calibration) \subseteq ToSet(s)
          /\ StrictlyIncreasing(c.calibration)
        BY DEF FitScopeHolds
    <1> HIDE DEF s
    <1>7. ToSet(c.calibration) # {} /\ \A session \in ToSet(c.calibration) :
                                           session \in Nat /\ Head(c.calibration) <= session
        <2> DEFINE z == c.calibration
        <2>1. z \in Seq(Nat) /\ z # <<>> /\ StrictlyIncreasing(z)
            BY <1>4, <1>5, <1>6
        <2> HIDE DEF z
        <2>2. Len(z) \in Nat /\ Len(z) # 0 /\ 1 \in 1..Len(z) /\ Head(z) = z[1]
              /\ ToSet(z) = {z[i] : i \in 1..Len(z)}
            BY <2>1 DEF ToSet
        <2>3. \A i \in 1..Len(z) : z[i] \in Nat /\ z[1] <= z[i]
            <3> SUFFICES ASSUME NEW i \in 1..Len(z) PROVE z[i] \in Nat /\ z[1] <= z[i]
                OBVIOUS
            <3>1. z[i] \in Nat /\ z[1] \in Nat
                BY <2>1, <2>2
            <3>2. CASE i = 1
                BY <3>1, <3>2
            <3>3. CASE i # 1
                <4>1. 1 < i
                    BY <3>3
                <4> QED
                    BY <2>1, <2>2, <3>1, <4>1, Ordered
            <3> QED
                BY <3>2, <3>3
        <2>4. ToSet(z) # {} /\ \A session \in ToSet(z) : session \in Nat /\ Head(z) <= session
            BY <2>2, <2>3
        <2> QED
            BY <2>4 DEF z
    <1>8. /\ Rising(rows)
          /\ ToSet(rows) = {r \in ToSet(d.labels) : r.session \in ToSet(c.estimator)}
        BY WhereRising, WhereRows DEF RowsAt, Aligned, KnownLabels, Rising
    <1>9. ToSet(rows) # {}
        <2>1. PICK session : session \in ToSet(c.estimator)
            <3>1. Len(c.estimator) # 0 /\ 1 \in DOMAIN c.estimator
                BY <1>4, <1>5
            <3> QED
                BY <3>1 DEF ToSet
        <2>2. session \in ToSet(Sessions(d.labels))
            BY <1>1, <1>6, <2>1, WindowEnds DEF s
        <2>3. PICK r \in ToSet(d.labels) : r.session = session
            BY <2>2, FrameSessions DEF Aligned, KnownLabels, Rising
        <2> HIDE DEF rows
        <2> QED
            BY <1>8, <2>1, <2>3
    <1>10. rows # <<>>
        <2>1. ToSet(<<>>) = {}
            BY DEF ToSet
        <2> QED
            BY <1>9, <2>1
    <1>11. \A r \in ToSet(d.labels) : r.session \in ToSet(c.estimator) => r \in ToSet(w)
        BY <1>1, <1>6, WindowEnds DEF s
    <1>12. last \in Nat
           /\ \A r \in ToSet(d.labels) : r.session \in ToSet(c.estimator) => r.exit <= last
        <2>1. Last(rows) \in ToSet(rows) /\ \A r \in ToSet(rows) : r.session <= Last(rows).session
            BY <1>8, <1>10, LastIsLast
        <2>2. \A r \in ToSet(w) : r.exit \in Nat
            BY <1>1 DEF Aligned, KnownLabels, Window
        <2> HIDE DEF rows
        <2>3. Last(rows) \in ToSet(w)
            BY <1>8, <1>11, <2>1
        <2>4. ASSUME NEW r \in ToSet(d.labels), r.session \in ToSet(c.estimator)
              PROVE r.exit <= last
            <3>1. r \in ToSet(w) /\ r \in ToSet(rows)
                BY <1>8, <1>11, <2>4
            <3> QED
                BY <1>1, <1>2, <2>1, <2>2, <2>3, <3>1, ExitsFollow DEF Window
        <2> QED
            BY <2>2, <2>3, <2>4
    <1>13. ToSet(c.calibration) \subseteq ToSet(Sessions(d.labels))
        BY <1>1, <1>6, WindowEnds DEF s
    <1> HIDE DEF last, rows
    <1>14. \A date \in FitReads(d, c.estimator) : date \in Nat /\ date <= last
        BY <1>12, ReadsUntil
    <1>15. \A session \in ToSet(c.calibration) : last < session
        <2>1. Head(c.calibration) \in Nat
            BY <1>4, <1>5
        <2> QED
            BY <1>5, <1>7, <1>12, <2>1
    <1> QED
        BY <1>7, <1>12, <1>13, <1>14, <1>15, ScoredLater

LEMMA CalibrationFair ==
    ASSUME NEW d, Aligned(d), NEW k \in Nat, NEW f \in BuildFold(d, k), NEW boundary,
           NEW x \in CalibratedFits(d, f, boundary)
    PROVE  Fair(Fit(x.reads, RowsAt(d.features, x.assessed)))
    <1>1. PICK c \in build_calibration_split(d, f) :
             /\ FitScopeHolds(f, c.estimator) /\ FitScopeHolds(f, c.calibration)
             /\ \/ x.reads = FitReads(d, c.estimator) /\ x.assessed = c.calibration
                \/ x.reads = FitReads(d, c.calibration) /\ x.assessed = Sessions(f.assessment)
        BY DEF CalibratedFits
    <1>2. ToSet(c.calibration) \subseteq ToSet(Sessions(f.training))
        BY <1>1 DEF FitScopeHolds
    <1> QED
        BY <1>1, <1>2, EstimatorFair, AssessmentFair

---------------------------------------------------------------------------
(* The beginning of a campaign *)

\* The features of a campaign are as trailing as the V1 ones.
LEMMA ResearchFeaturesKnown ==
    ASSUME NEW batch, batch.rows \in MarketRows, NEW fs \in ResearchFeatures(batch)
    PROVE  KnownFeatures(fs.data)
    <1> DEFINE rows == batch.rows
               W == GlobalWarmup
               n == Len(rows) - W
               Row(i) == [session |-> rows[i + W].session,
                          window |-> {rows[j].session : j \in i..(i + W)}]
    <1>1. ~(Len(rows) <= W) /\ StrictlyIncreasing(Sessions(rows))
          /\ fs.data = [i \in 1..n |-> Row(i)] /\ FeatureSetHolds(fs)
        <2> DEFINE data == [i \in 1..n |-> Row(i)]
                   whole == [data |-> data, source |-> batch.checksum,
                             first |-> rows[W + 1].session, last |-> Last(rows).session]
        <2>1. ~(Len(rows) <= W) /\ StrictlyIncreasing(Sessions(rows))
            BY Zenon DEF ResearchFeatures
        <2>2. fs \in {x \in {whole} : FeatureSetHolds(x)}
            BY <2>1, Zenon DEF ResearchFeatures
        <2>3. fs = whole /\ FeatureSetHolds(fs)
            BY <2>2
        <2> HIDE DEF data
        <2>4. fs.data = data
            BY <2>3
        <2> QED
            BY <2>1, <2>3, <2>4 DEF data
    <1>2. Len(rows) \in Nat /\ W \in Nat /\ n \in Nat
        BY <1>1, MarketSessions, FoldAssumption DEF FoldAssumption
    <1>3. \A i \in 1..n : fs.data[i] = Row(i)
        BY <1>1
    <1>4. Frame(fs.data) /\ Len(fs.data) = n
        <2>1. fs.data = [i \in 1..n |-> fs.data[i]]
            BY <1>1
        <2> QED
            BY <1>2, <2>1, SequenceOf
    <1>5. ToSet(fs.data) = {Row(i) : i \in 1..n}
        <2> HIDE DEF Row
        <2> QED
            BY <1>3, <1>4, FrameFacts
    <1>6. \A i \in 1..n : i + W \in 1..Len(rows) /\ rows[i + W].session \in Nat
        BY <1>1, <1>2, MarketSessions
    <1>7. Rising(fs.data)
        <2>1. StrictlyIncreasing(Sessions(fs.data))
            BY <1>1 DEF FeatureSetHolds
        <2> QED
            BY <1>4, <1>5, <1>6, <2>1 DEF Rising
    <1>8. ASSUME NEW i \in 1..n, NEW date \in Row(i).window
          PROVE date \in Nat /\ date <= Row(i).session
        <2>1. PICK j \in i..(i + W) : date = rows[j].session
            BY <1>8
        <2>2. j \in 1..Len(rows) /\ j <= i + W
            BY <1>2, <1>6, <2>1
        <2>3. Row(i).session = rows[i + W].session
            OBVIOUS
        <2> QED
            BY <1>1, <1>6, <2>1, <2>2, <2>3, MarketSessions
    <1> QED
        BY <1>5, <1>7, <1>8 DEF KnownFeatures

LEMMA ResearchDatasetAligned ==
    ASSUME NEW fs, KnownFeatures(fs.data), NEW ls, KnownLabels(ls.data),
           NEW d \in ResearchDataset(fs, ls)
    PROVE  Aligned(d)
    <1>1. /\ d.features = RowsAt(fs.data, Sessions(ls.data))
          /\ d.labels = RowsAt(ls.data, Sessions(fs.data))
        BY DEF ResearchDataset
    <1>2. /\ KnownFeatures(d.features)
          /\ ToSet(d.features) = {r \in ToSet(fs.data) : r.session \in ToSet(Sessions(ls.data))}
        BY <1>1, WhereRows, MaskKnows DEF RowsAt, KnownFeatures, Rising
    <1>3. /\ KnownLabels(d.labels)
          /\ ToSet(d.labels) = {r \in ToSet(ls.data) : r.session \in ToSet(Sessions(fs.data))}
        BY <1>1, WhereRows, MaskKnows DEF RowsAt, KnownLabels, Rising
    <1>4. /\ ToSet(Sessions(fs.data)) = {r.session : r \in ToSet(fs.data)}
          /\ ToSet(Sessions(ls.data)) = {r.session : r \in ToSet(ls.data)}
        BY FrameSessions DEF KnownFeatures, KnownLabels, Rising
    <1>5. /\ ToSet(Sessions(d.features)) = {r.session : r \in ToSet(d.features)}
          /\ ToSet(Sessions(d.labels)) = {r.session : r \in ToSet(d.labels)}
        BY <1>2, <1>3, FrameSessions DEF KnownFeatures, KnownLabels, Rising
    <1>6. ToSet(Sessions(d.features)) = ToSet(Sessions(d.labels))
        BY <1>2, <1>3, <1>4, <1>5
    <1> QED
        BY <1>2, <1>3, <1>6 DEF Aligned

LEMMA FirstIndex ==
    ASSUME NEW s, Len(s) \in Nat, NEW x, SelectInSeq(s, LAMBDA y : y = x) > 0
    PROVE  SelectInSeq(s, LAMBDA y : y = x) \in 1..Len(s) /\ s[SelectInSeq(s, LAMBDA y : y = x)] = x
    <1> DEFINE I == {i \in 1..Len(s) : s[i] = x}
               first == CHOOSE i \in I : \A j \in I : i <= j
    <1>1. SelectInSeq(s, LAMBDA y : y = x) = IF I # {} THEN first ELSE 0
        BY DEF SelectInSeq, Min
    <1>2. I # {}
        BY <1>1
    <1>3. \E i \in I : \A j \in I : i <= j
        <2>1. I \subseteq Nat
            OBVIOUS
        <2> HIDE DEF I
        <2> QED
            BY <1>2, <2>1, LeastElement
    <1>4. first \in I
        BY <1>3
    <1> QED
        BY <1>1, <1>2, <1>4

\* The slice of a campaign ends before the first protected session.
EndsBefore(batch, boundary) ==
    /\ StrictlyIncreasing(Sessions(batch.rows))
    /\ Len(batch.rows) > TRAILING_WARMUP_ROWS + EXIT_OFFSET_SESSIONS
    /\ boundary.eligible \in Nat /\ boundary.eligible + 1 \in 1..Len(batch.rows)
    /\ batch.rows[boundary.eligible + 1].session = Head(boundary.protected)
    /\ \E l \in SplitLayout(PredictionUniverse(Sessions(batch.rows))) :
          boundary.protected = FinalTestSessions(l)

LEMMA BoundaryEnds ==
    ASSUME NEW batch, batch.rows \in MarketRows, NEW boundary \in ExclusionBoundaries(batch)
    PROVE  EndsBefore(batch, boundary)
    <1> DEFINE s == Sessions(batch.rows)
               First(l) == SelectInSeq(s, LAMBDA x : x = Head(FinalTestSessions(l)))
    <1>1. StrictlyIncreasing(s) /\ ~(Len(s) <= TRAILING_WARMUP_ROWS + EXIT_OFFSET_SESSIONS)
        BY Zenon DEF ExclusionBoundaries
    <1>2. PICK l \in SplitLayout(PredictionUniverse(s)) :
             /\ First(l) - 1 > GlobalWarmup + EXIT_OFFSET_SESSIONS
             /\ boundary.protected = FinalTestSessions(l) /\ boundary.eligible = First(l) - 1
        <2> DEFINE Development(l) == Slice(s, GlobalWarmup, First(l) - 1 - EXIT_OFFSET_SESSIONS)
                   Boundary(l) ==
                      [protected |-> FinalTestSessions(l), eligible |-> First(l) - 1,
                       excluded |-> Len(s) - (First(l) - 1), parent_rows |-> Len(s),
                       source_first |-> Head(s), source_last |-> s[First(l) - 1],
                       development_first |-> Head(Development(l)),
                       development_last |-> Last(Development(l)),
                       parent |-> batch.checksum, slice |-> <<batch.checksum, First(l) - 1>>]
        <2>1. boundary \in {b \in {Boundary(l) : l \in {k \in SplitLayout(PredictionUniverse(s)) :
                                 First(k) - 1 > GlobalWarmup + EXIT_OFFSET_SESSIONS}} :
                               BoundaryHolds(b)}
            BY <1>1, Zenon DEF ExclusionBoundaries
        <2> HIDE DEF First, Development
        <2>2. \A k : /\ Boundary(k).protected = FinalTestSessions(k)
                     /\ Boundary(k).eligible = First(k) - 1
            OBVIOUS
        <2> HIDE DEF Boundary
        <2> QED
            BY <2>1, <2>2
    <1> DEFINE h == Head(FinalTestSessions(l))
               i == SelectInSeq(s, LAMBDA x : x = h)
    <1>3. Frame(batch.rows) /\ Len(batch.rows) \in Nat /\ Len(s) = Len(batch.rows)
          /\ \A j \in 1..Len(s) : s[j] = batch.rows[j].session
        BY MarketSessions, FrameSessions
    <1>4. i \in Int
        <2> DEFINE I == {j \in 1..Len(s) : s[j] = h}
                   first == CHOOSE a \in I : \A b \in I : a <= b
        <2>1. i = IF I # {} THEN first ELSE 0
            BY DEF SelectInSeq, Min
        <2>2. I # {} => first \in I
            <3>1. I \subseteq Nat
                BY <1>3
            <3> HIDE DEF I
            <3>2. I # {} => \E a \in I : \A b \in I : a <= b
                BY <3>1, LeastElement
            <3> QED
                BY <3>2
        <2>3. I \subseteq Int
            BY <1>3
        <2> HIDE DEF I, first
        <2> QED
            BY <2>1, <2>2, <2>3
    <1>5. i > 0 /\ i - 1 > GlobalWarmup + EXIT_OFFSET_SESSIONS
        BY <1>2, <1>4, WarmupNat, FoldAssumption DEF FoldAssumption
    <1>6. i \in 1..Len(s) /\ s[i] = h
        BY <1>3, <1>5, FirstIndex
    <1> HIDE DEF i
    <1>7. boundary.eligible = i - 1
        BY <1>2 DEF i
    <1> HIDE DEF s
    <1>8. boundary.eligible \in Nat /\ boundary.eligible + 1 = i
        BY <1>3, <1>6, <1>7
    <1>9. Len(batch.rows) > TRAILING_WARMUP_ROWS + EXIT_OFFSET_SESSIONS
        BY <1>1, <1>3, WarmupNat
    <1> QED
        BY <1>1, <1>2, <1>3, <1>6, <1>8, <1>9 DEF EndsBefore, s

LEMMA SliceKnown ==
    ASSUME NEW batch, batch.rows \in MarketRows, NEW boundary, EndsBefore(batch, boundary)
    PROVE  LET slice == SliceMarketData(batch, boundary) IN
           /\ slice.rows \in MarketRows /\ Len(slice.rows) = boundary.eligible
           /\ \A i \in 1..boundary.eligible : slice.rows[i] = batch.rows[i]
    <1> DEFINE R == [session : Nat, open : Nat]
               n == boundary.eligible
               rows == batch.rows
    <1>1. rows \in Seq(R) /\ n \in Nat /\ n <= Len(rows) /\ Len(rows) \in Nat
        BY DEF EndsBefore, MarketRows
    <1> HIDE DEF R, rows, n
    <1>2. /\ SubSeq(rows, 1, n) \in Seq(R) /\ Len(SubSeq(rows, 1, n)) = n
          /\ \A i \in 1..n : SubSeq(rows, 1, n)[i] = rows[i]
        BY <1>1
    <1> QED
        BY <1>2 DEF SliceMarketData, MarketRows, R, n, rows

\* What a campaign begins with.
Begun(d, folds) ==
    Aligned(d) /\ \A f \in folds : \E k \in Nat : f \in BuildFold(d, k)

LEMMA FoldsBegun ==
    ASSUME NEW d, Aligned(d), NEW slice, NEW folds \in construct_walk_forward_manifest(d, slice)
    PROVE  Begun(d, folds)
    <1>1. folds = UNION {BuildFold(d, k) : k \in FoldIndexes(d)}
        BY DEF construct_walk_forward_manifest
    <1>2. FoldIndexes(d) \subseteq Nat
        BY FrameFacts DEF FoldIndexes, Aligned, KnownLabels, Rising
    <1> QED
        BY <1>1, <1>2 DEF Begun

---------------------------------------------------------------------------
(* The benchmark's final test *)

\* Increasing sequences with the same elements do not come apart.
LEMMA NotBelow ==
    ASSUME NEW s \in Seq(Nat), NEW t \in Seq(Nat), StrictlyIncreasing(s), StrictlyIncreasing(t),
           ToSet(s) \subseteq ToSet(t), NEW i \in 1..Len(s),
           \A j \in 1..Len(s) : j < i => j \in 1..Len(t) /\ s[j] = t[j]
    PROVE  i \in 1..Len(t) /\ t[i] <= s[i]
    <1>1. Len(s) \in Nat /\ Len(t) \in Nat /\ s[i] \in Nat
        OBVIOUS
    <1>2. PICK j \in 1..Len(t) : t[j] = s[i]
        <2>1. s[i] \in ToSet(s)
            BY DEF ToSet
        <2>2. s[i] \in ToSet(t)
            BY <2>1
        <2> QED
            BY <2>2 DEF ToSet
    <1>3. ~(j < i)
        <2> SUFFICES ASSUME j < i PROVE FALSE
            OBVIOUS
        <2>1. j \in 1..Len(s)
            BY <1>1
        <2>2. s[j] = t[j]
            BY <2>1
        <2>3. s[j] < s[i]
            BY <2>1, Ordered
        <2> QED
            BY <1>1, <1>2, <2>2, <2>3
    <1>4. i \in 1..Len(t)
        BY <1>1, <1>3
    <1>5. CASE i = j
        BY <1>1, <1>2, <1>4, <1>5
    <1>6. CASE i < j
        <2>1. t[i] < t[j]
            BY <1>4, <1>6, Ordered
        <2>2. t[i] \in Nat
            BY <1>4
        <2> QED
            BY <1>1, <1>2, <1>4, <2>1, <2>2
    <1> QED
        BY <1>1, <1>3, <1>5, <1>6

\* Two increasing sequences with the same elements.
LEMMA SameSequence ==
    ASSUME NEW s \in Seq(Nat), NEW t \in Seq(Nat), StrictlyIncreasing(s), StrictlyIncreasing(t),
           ToSet(s) = ToSet(t)
    PROVE  s = t
    <1> DEFINE S == {n \in Nat : \A j \in 1..n : (j \in 1..Len(s) <=> j \in 1..Len(t))
                                                /\ (j \in 1..Len(s) => s[j] = t[j])}
    <1>1. Len(s) \in Nat /\ Len(t) \in Nat
        OBVIOUS
    <1>2. 0 \in S
        OBVIOUS
    <1>3. ASSUME NEW n \in Nat, n \in S PROVE n + 1 \in S
        <2> DEFINE i == n + 1
        <2>1. \A j \in 1..n : (j \in 1..Len(s) <=> j \in 1..Len(t))
                               /\ (j \in 1..Len(s) => s[j] = t[j])
            BY <1>3
        <2>2. ASSUME i \in 1..Len(s) PROVE i \in 1..Len(t) /\ t[i] <= s[i]
            <3>1. \A j \in 1..Len(s) : j < i => j \in 1..Len(t) /\ s[j] = t[j]
                BY <1>1, <2>1
            <3> QED
                BY <2>2, <3>1, NotBelow
        <2>3. ASSUME i \in 1..Len(t) PROVE i \in 1..Len(s) /\ s[i] <= t[i]
            <3>1. \A j \in 1..Len(t) : j < i => j \in 1..Len(s) /\ t[j] = s[j]
                BY <1>1, <2>1
            <3> QED
                BY <2>3, <3>1, NotBelow
        <2>4. i \in 1..Len(s) => s[i] = t[i]
            <3>1. ASSUME i \in 1..Len(s) PROVE s[i] \in Nat /\ t[i] \in Nat
                BY <2>2, <3>1
            <3> QED
                BY <2>2, <2>3, <3>1
        <2>5. \A j \in 1..(n + 1) : j \in 1..n \/ j = n + 1
            OBVIOUS
        <2> HIDE DEF i
        <2>6. \A j \in 1..(n + 1) : (j \in 1..Len(s) <=> j \in 1..Len(t))
                                     /\ (j \in 1..Len(s) => s[j] = t[j])
            BY <2>1, <2>2, <2>3, <2>4, <2>5 DEF i
        <2> QED
            BY <2>6
    <1> HIDE DEF S
    <1>4. Nat \subseteq S
        BY <1>2, <1>3, SetInduction
    <1>5. Len(s) \in S /\ Len(t) \in S
        BY <1>1, <1>4
    <1>6. Len(s) = Len(t) /\ \A j \in 1..Len(s) : s[j] = t[j]
        <2>1. \A j \in 1..Len(s) : j \in 1..Len(t) /\ s[j] = t[j]
            BY <1>5 DEF S
        <2>2. \A j \in 1..Len(t) : j \in 1..Len(s)
            BY <1>5 DEF S
        <2>3. Len(s) > 0 => Len(s) \in 1..Len(s)
            BY <1>1
        <2>4. Len(t) > 0 => Len(t) \in 1..Len(t)
            BY <1>1
        <2>5. Len(s) <= Len(t)
            BY <1>1, <2>1, <2>3
        <2>6. Len(t) <= Len(s)
            BY <1>1, <2>2, <2>4
        <2> QED
            BY <1>1, <2>1, <2>5, <2>6
    <1> QED
        BY SMTT(30), <1>6

\* The phase 2 layout of a sequence of sessions is the only one.
LEMMA LayoutOf ==
    ASSUME NEW u, Len(u) \in Nat, NEW l \in SplitLayout(u)
    PROVE  /\ \A k \in SplitLayout(u) : k = l
           /\ l.sessions = u /\ StrictlyIncreasing(u)
           /\ l.test[1] \in Nat /\ l.test[2] = Len(u) /\ l.test[1] < l.test[2]
    <1> DEFINE n == Len(u)
               assignable == n - 2 * BOUNDARY_EXCLUSION_SESSIONS
               train == (assignable * 70) \div 100
               validation == (assignable * 15) \div 100
               from == train + BOUNDARY_EXCLUSION_SESSIONS
               final == from + validation + BOUNDARY_EXCLUSION_SESSIONS
               layout == [train |-> <<0, train>>, validation |-> <<from, from + validation>>,
                          test |-> <<final, n>>, sessions |-> u]
    <1>1. StrictlyIncreasing(u) /\ ~(assignable <= 0)
          /\ \A k \in SplitLayout(u) : k = layout /\ final < n
        BY DEF SplitLayout
    <1>2. l.test = <<final, n>> /\ l.sessions = u
        BY <1>1
    <1>3. BOUNDARY_EXCLUSION_SESSIONS \in Nat
        BY WarmupNat DEF BOUNDARY_EXCLUSION_SESSIONS
    <1>4. train \in Nat /\ validation \in Nat
        BY <1>1, <1>3
    <1>5. final \in Nat
        <2> HIDE DEF train, validation
        <2> QED
            BY <1>3, <1>4
    <1> HIDE DEF final, layout, assignable, n
    <1> QED
        BY <1>1, <1>2, <1>5 DEF n

\* The sessions the benchmark's split is made on are the prediction universe.
LEMMA BenchmarkSessions ==
    ASSUME NEW batch, batch.rows \in MarketRows, StrictlyIncreasing(Sessions(batch.rows)),
           Len(batch.rows) > TRAILING_WARMUP_ROWS + EXIT_OFFSET_SESSIONS, NEW costs,
           NEW fs \in build_trailing_feature_set(batch),
           NEW ls \in build_forward_label_set(batch, costs),
           NEW d \in build_supervised_dataset(fs, ls),
           StrictlyIncreasing(PredictionUniverse(Sessions(batch.rows)))
    PROVE  Sessions(d.labels) = PredictionUniverse(Sessions(batch.rows))
    <1> DEFINE rows == batch.rows
               s == Sessions(rows)
               W == TRAILING_WARMUP_ROWS
               X == EXIT_OFFSET_SESSIONS
               N == Len(rows)
               u == PredictionUniverse(s)
               z == Sessions(d.labels)
               F == {rows[i].session : i \in (W + 1)..N}
               L == {<<rows[i].session, rows[i + X].session>> : i \in 1..(N - X)}
    <1>1. /\ KnownLabels(d.labels)
          /\ ToSet(d.labels) = {r \in ToSet(ls.data) : r.session \in F}
          /\ {<<r.session, r.exit>> : r \in ToSet(ls.data)} = L
        <2>1. KnownFeatures(fs.data) /\ ToSet(Sessions(fs.data)) = F
            BY FeaturesKnown
        <2>2. KnownLabels(ls.data) /\ {<<r.session, r.exit>> : r \in ToSet(ls.data)} = L
            BY LabelsKnown
        <2> HIDE DEF F, L
        <2> QED
            BY <2>1, <2>2, DatasetKnown
    <1>2. /\ N \in Nat /\ W \in Nat /\ X \in Nat /\ Frame(rows)
          /\ \A i \in 1..N : rows[i].session \in Nat
          /\ \A i, j \in 1..N : i <= j => rows[i].session <= rows[j].session
        BY MarketSessions, WarmupNat
    <1>3. s \in Seq(Nat) /\ Len(s) = N /\ \A i \in 1..N : s[i] = rows[i].session
        <2>1. s = [i \in 1..N |-> rows[i].session]
            BY <1>2, FrameFacts DEF Sessions
        <2> QED
            BY <1>2, <2>1
    <1>4. \A i, j \in 1..N : i < j => rows[i].session < rows[j].session
        BY <1>3, Ordered
    <1>5. /\ u \in Seq(Nat) /\ Len(u) = N - X - W
          /\ \A i \in 1..Len(u) : u[i] = rows[W + i].session
        <2> DEFINE b == N - X
        <2>1. b \in Nat /\ b <= Len(s) /\ W <= b /\ W \in Nat /\ s \in Seq(Nat)
            BY <1>2, <1>3
        <2>2. u = Slice(s, W, b)
            BY <1>3 DEF PredictionUniverse
        <2> HIDE DEF s, u, b, W
        <2>3. /\ Slice(s, W, b) \in Seq(Nat) /\ Len(Slice(s, W, b)) = b - W
              /\ \A i \in 1..Len(Slice(s, W, b)) :
                    W + i \in 1..Len(s) /\ Slice(s, W, b)[i] = s[W + i]
            BY <2>1, SliceRows
        <2>4. \A i \in 1..Len(u) : W + i \in 1..N /\ u[i] = rows[W + i].session
            BY <1>3, <2>2, <2>3
        <2> QED
            BY <2>2, <2>3, <2>4 DEF b
    <1>6. z \in Seq(Nat) /\ StrictlyIncreasing(z) /\ ToSet(z) = {r.session : r \in ToSet(d.labels)}
        <2>1. Frame(z) /\ ToSet(z) = {r.session : r \in ToSet(d.labels)} /\ StrictlyIncreasing(z)
              /\ \A r \in ToSet(d.labels) : r.session \in Nat
            BY <1>1, FrameSessions DEF KnownLabels, Rising
        <2>2. \A x \in ToSet(z) : x \in Nat
            BY <2>1
        <2> HIDE DEF z
        <2>3. z \in Seq(ToSet(z))
            BY <2>1 DEF Frame
        <2>4. z \in Seq(Nat)
            BY <2>2, <2>3
        <2> QED
            BY <2>1, <2>4
    <1>7. \A x \in ToSet(z) : x \in ToSet(u)
        <2> SUFFICES ASSUME NEW x \in ToSet(z) PROVE x \in ToSet(u)
            OBVIOUS
        <2>1. PICK r \in ToSet(ls.data) : r.session = x /\ x \in F
            BY <1>1, <1>6
        <2>2. PICK i \in 1..(N - X) : <<r.session, r.exit>> = <<rows[i].session, rows[i + X].session>>
            BY <1>1, <2>1
        <2>3. PICK j \in (W + 1)..N : x = rows[j].session
            BY <2>1
        <2>4. x = rows[i].session /\ i \in 1..N /\ j \in 1..N
            BY <1>2, <2>1, <2>2
        <2>5. i = j
            <3>1. rows[i].session \in Nat
                BY <1>2, <2>4
            <3>2. /\ i < j => rows[i].session < rows[j].session
                  /\ j < i => rows[j].session < rows[i].session
                BY <1>4, <2>4
            <3>3. rows[i].session = rows[j].session
                BY <2>3, <2>4
            <3> HIDE DEF F, L, u, z
            <3> QED
                BY <1>2, <2>4, <3>1, <3>2, <3>3
        <2>6. i - W \in 1..Len(u) /\ W + (i - W) = i
            BY <1>2, <1>5, <2>5
        <2> HIDE DEF u
        <2>7. u[i - W] = x /\ i - W \in DOMAIN u
            BY <1>5, <2>4, <2>6
        <2> QED
            BY <2>7 DEF ToSet
    <1>8. \A x \in ToSet(u) : x \in ToSet(z)
        <2> SUFFICES ASSUME NEW x \in ToSet(u) PROVE x \in ToSet(z)
            OBVIOUS
        <2> HIDE DEF u
        <2>1. PICK k \in 1..Len(u) : x = u[k]
            BY <1>5 DEF ToSet
        <2> DEFINE i == W + k
        <2>2. i \in 1..(N - X) /\ i \in (W + 1)..N /\ x = rows[i].session
            BY <1>2, <1>5, <2>1
        <2>3. x \in F /\ <<rows[i].session, rows[i + X].session>> \in L
            BY <2>2
        <2>4. PICK r \in ToSet(ls.data) : <<r.session, r.exit>> = <<rows[i].session, rows[i + X].session>>
            BY <1>1, <2>3
        <2> QED
            BY <1>1, <1>6, <2>2, <2>3, <2>4
    <1> HIDE DEF u, z
    <1>9. ToSet(u) = ToSet(z)
        BY <1>7, <1>8
    <1>10. z = u
        BY <1>5, <1>6, <1>9, SameSequence DEF u
    <1> QED
        BY <1>10 DEF u, z

\* The final test of the benchmark begins with the first protected session.
LEMMA TestIsProtected ==
    ASSUME NEW parent, parent.rows \in MarketRows, NEW boundary \in ExclusionBoundaries(parent),
           NEW test \in BenchmarkTests(parent)
    PROVE  test.first = Head(boundary.protected)
    <1> DEFINE s == Sessions(parent.rows)
               u == PredictionUniverse(s)
    <1>1. EndsBefore(parent, boundary)
        BY BoundaryEnds
    <1>2. PICK k \in SplitLayout(u) : boundary.protected = FinalTestSessions(k)
        BY <1>1 DEF EndsBefore
    <1>3. PICK fs \in build_trailing_feature_set(parent),
               ls \in build_forward_label_set(parent, CampaignCosts) :
             \E d \in build_supervised_dataset(fs, ls) :
                \E split \in construct_phase2_split(d) : test = split.test
        BY DEF BenchmarkTests
    <1>4. PICK d \in build_supervised_dataset(fs, ls) :
                \E split \in construct_phase2_split(d) : test = split.test
        BY <1>3
    <1>5. PICK split \in construct_phase2_split(d) : test = split.test
        BY <1>4
    <1> DEFINE z == Sessions(d.labels)
    <1>6. PICK l \in SplitLayout(z) :
             /\ \E spec : split \in split_supervised_dataset(d, spec)
             /\ Sessions(split.test.labels) = Sessions(Slice(d.labels, l.test[1], l.test[2]))
        <2>1. PICK l \in SplitLayout(z) :
                /\ \E spec : split \in split_supervised_dataset(d, spec)
                /\ \A name \in PARTITION_NAMES :
                      Sessions(split[name].labels) = Sessions(Slice(d.labels, l[name][1], l[name][2]))
            BY DEF construct_phase2_split
        <2> QED
            BY <2>1 DEF PARTITION_NAMES
    <1>7. PICK spec : split \in split_supervised_dataset(d, spec)
        BY <1>6
    <1>8. test \in build_partition(d, spec, "test")
        BY <1>5, <1>7 DEF split_supervised_dataset
    <1>9. KnownFeatures(d.features) /\ KnownLabels(d.labels)
        BY FeaturesKnown, LabelsKnown, DatasetKnown
    <1> HIDE DEF s, u, z
    <1>10. Len(u) \in Nat
        <2>1. /\ Frame(parent.rows) /\ Len(parent.rows) \in Nat
            BY MarketSessions
        <2>2. s \in Seq(ToSet(s)) /\ Len(s) = Len(parent.rows)
            BY <2>1, FrameSessions DEF s, Frame
        <2>3. Len(s) - EXIT_OFFSET_SESSIONS \in Nat /\ TRAILING_WARMUP_ROWS \in Nat
            BY <1>1, <2>1, <2>2, WarmupNat DEF EndsBefore
        <2>4. u \in Seq(ToSet(s))
            BY <2>2, <2>3, SliceRows DEF u, PredictionUniverse
        <2> QED
            BY <2>4
    <1>11. k.sessions = u /\ StrictlyIncreasing(u)
           /\ k.test[1] \in Nat /\ k.test[2] = Len(u) /\ k.test[1] < k.test[2]
           /\ \A x \in SplitLayout(u) : x = k
        BY <1>2, <1>10, LayoutOf
    <1>12. z = u
        BY <1>1, <1>11, BenchmarkSessions DEF EndsBefore, s, u, z
    <1>13. l = k
        BY <1>6, <1>11, <1>12
    <1> DEFINE a == k.test[1]
               n == k.test[2]
               w == Slice(d.labels, a, n)
    <1>14. /\ Frame(z) /\ Frame(d.labels) /\ Len(z) = Len(d.labels)
           /\ \A i \in 1..Len(z) : z[i] = d.labels[i].session
        BY <1>9, FrameSessions DEF z, KnownLabels, Rising
    <1>15. a \in Nat /\ n \in Nat /\ n = Len(z) /\ a < n
        BY <1>10, <1>11, <1>12
    <1> HIDE DEF a, n
    <1>16. Head(boundary.protected) = z[a + 1]
        <2> DEFINE p == Slice(z, a, n)
        <2>1. boundary.protected = p
            BY <1>2, <1>11, <1>12 DEF FinalTestSessions, a, n
        <2>2. z \in Seq(ToSet(z))
            BY <1>14 DEF Frame
        <2>3. p \in Seq(ToSet(z)) /\ Len(p) = n - a /\ \A i \in 1..Len(p) : p[i] = z[a + i]
            BY <1>15, <2>2, SliceRows
        <2> HIDE DEF p
        <2>4. 1 \in 1..Len(p) /\ Head(p) = p[1]
            BY <1>15, <2>3
        <2> QED
            BY <2>1, <2>3, <2>4
    <1>17. Sessions(w) = Sessions(test.labels)
        BY <1>5, <1>6, <1>13 DEF a, n
    <1>18. Frame(w) /\ Len(w) = n - a /\ \A i \in 1..Len(w) : w[i] = d.labels[a + i]
        <2> DEFINE R == ToSet(d.labels)
        <2> DEFINE y == d.labels
        <2>1. y \in Seq(R) /\ n <= Len(y) /\ a <= n
            BY <1>14, <1>15 DEF Frame
        <2> HIDE DEF R, y
        <2>a. a \in Nat /\ n \in Nat
            BY <1>15
        <2>b. /\ Slice(y, a, n) \in Seq(R)
              /\ \A i \in 1..Len(Slice(y, a, n)) : a + i \in 1..Len(y) /\ Slice(y, a, n)[i] = y[a + i]
              /\ n <= Len(y) /\ a <= n => Len(Slice(y, a, n)) = n - a
            BY <2>a, <2>1, SliceRows, Zenon
        <2>2. /\ Slice(y, a, n) \in Seq(R) /\ Len(Slice(y, a, n)) = n - a
              /\ \A i \in 1..Len(Slice(y, a, n)) : Slice(y, a, n)[i] = y[a + i]
            BY <2>1, <2>b
        <2>3. Frame(Slice(y, a, n))
            BY <2>2, FrameOf
        <2> QED
            BY <2>2, <2>3 DEF y
    <1> HIDE DEF w
    <1>19. Head(Sessions(w)) = z[a + 1]
        <2>1. Sessions(w) \in Seq(ToSet(Sessions(w))) /\ Len(Sessions(w)) = Len(w)
              /\ \A i \in 1..Len(w) : Sessions(w)[i] = w[i].session
            BY <1>18, FrameSessions DEF Frame
        <2>2. 1 \in 1..Len(w) /\ a + 1 \in 1..Len(z)
            BY <1>15, <1>18
        <2>3. Head(Sessions(w)) = Sessions(w)[1]
            BY <2>1, <2>2
        <2> QED
            BY <1>14, <1>18, <2>1, <2>2, <2>3
    <1>20. test.first = Head(Sessions(test.labels))
        BY <1>8, <1>9, PartitionKnown DEF PartitionHolds
    <1> QED
        BY <1>16, <1>17, <1>19, <1>20

\* A dataset isolated from the final test reads nothing of it.
LEMMA IsolatedReads ==
    ASSUME NEW d, Aligned(d), NEW boundary, DatasetIsolated(boundary, d),
           Head(boundary.protected) \in Nat
    PROVE  \A date \in FitReads(d, Sessions(d.labels)) : date < Head(boundary.protected)
    <1> DEFINE h == Head(boundary.protected)
               z == Sessions(d.labels)
    <1>1. DOMAIN d.labels = 1..Len(d.labels) /\ ToSet(d.labels) = {d.labels[i] : i \in 1..Len(d.labels)}
        BY FrameFacts DEF Aligned, KnownLabels, Rising
    <1>2. \A r \in ToSet(d.labels) : r.exit < h /\ r.exit \in Nat
        BY <1>1 DEF DatasetIsolated, Aligned, KnownLabels
    <1> HIDE DEF h, z
    <1>3. CASE h = 0
        <2>1. ToSet(d.labels) = {}
            BY <1>2, <1>3
        <2>2. \A r \in ToSet(d.labels) : r.session \in ToSet(z) => r.exit <= 0
            BY <2>1
        <2>3. ToSet(d.features) = {}
            <3>1. ToSet(Sessions(d.features)) = {r.session : r \in ToSet(d.features)}
                  /\ ToSet(Sessions(d.labels)) = {r.session : r \in ToSet(d.labels)}
                BY FrameSessions DEF Aligned, KnownFeatures, KnownLabels, Rising
            <3>2. {r.session : r \in ToSet(d.features)} = {}
                BY <2>1, <3>1 DEF Aligned
            <3> QED
                BY <3>2
        <2>4. RowsAt(d.features, z) = <<>> /\ RowsAt(d.labels, z) = <<>>
            <3>1. \A w : Frame(w) /\ ToSet(w) = {} => w = <<>>
                <4> SUFFICES ASSUME NEW w, Frame(w), ToSet(w) = {} PROVE w = <<>>
                    OBVIOUS
                <4>1. Len(w) \in Nat /\ ToSet(w) = {w[i] : i \in 1..Len(w)}
                    BY FrameFacts
                <4>2. ~(Len(w) > 0)
                    <5>1. Len(w) > 0 => 1 \in 1..Len(w)
                        BY <4>1
                    <5> QED
                        BY <4>1, <5>1
                <4>3. Len(w) = 0
                    BY <4>1, <4>2
                <4> QED
                    BY <4>3, FrameFacts
            <3>2. Frame(d.features) /\ Frame(d.labels)
                BY DEF Aligned, KnownFeatures, KnownLabels, Rising
            <3>3. /\ Frame(RowsAt(d.features, z)) /\ ToSet(RowsAt(d.features, z)) = {}
                  /\ Frame(RowsAt(d.labels, z)) /\ ToSet(RowsAt(d.labels, z)) = {}
                BY <2>1, <2>3, <3>2, WhereRows DEF RowsAt
            <3> QED
                BY <3>1, <3>3
        <2>5. FitReads(d, z) = {}
            BY <2>4 DEF FitReads
        <2> QED
            BY <2>5 DEF z, h
    <1>4. CASE h # 0
        <2>1. h - 1 \in Nat /\ \A r \in ToSet(d.labels) : r.session \in ToSet(z) => r.exit <= h - 1
            BY <1>2, <1>4 DEF h
        <2>2. \A date \in FitReads(d, z) : date \in Nat /\ date <= h - 1
            BY <2>1, ReadsUntil
        <2>3. \A date \in FitReads(d, z) : date < h
            BY <2>2 DEF h
        <2> QED
            BY <2>3 DEF h, z
    <1> QED
        BY <1>3, <1>4

---------------------------------------------------------------------------
(* Every step *)

\* The folds of a campaign in memory are those it began with.
FoldsOK == held.kind = "campaign" => Begun(held.dataset, held.folds)

\* Its dataset is outside a final test of its own parent batch.
ApartOK ==
    held.kind = "campaign" =>
      /\ study.of \in Studies
      /\ \E boundary \in ExclusionBoundaries(study.of.parent) :
            DatasetIsolated(boundary, held.dataset)

DataInv == Learned /\ FoldsOK /\ ApartOK /\ NoLookAhead

\* Nothing held, nothing fitted.
LEMMA EndLearns ==
    ASSUME End
    PROVE  DataInv'
    <1>1. held'.kind = "nothing" /\ fits' = {}
        BY DEF End, Nothing
    <1> QED
        BY <1>1 DEF DataInv, Learned, FoldsOK, ApartOK, NoLookAhead

\* A step that changes neither the dataset nor the folds of a campaign.
LEMMA SameFolds ==
    ASSUME DataInv, held.kind = "campaign", DOMAIN held = Fields, UNCHANGED study,
           NEW changed \in SUBSET (Fields \ {"kind", "dataset", "folds"}),
           DOMAIN held' = Fields,
           \A x \in Fields \ changed : held'[x] = held[x]
    PROVE  /\ Learned' /\ FoldsOK' /\ ApartOK'
           /\ UNCHANGED fits => NoLookAhead'
    <1>1. /\ held'.kind = "campaign" /\ held'.dataset = held.dataset
          /\ held'.folds = held.folds
        BY DEF Fields
    <1> QED
        BY <1>1 DEF DataInv, Learned, FoldsOK, ApartOK, NoLookAhead

LEMMA FoldFitsFair ==
    ASSUME FoldsOK, held.kind = "campaign", NEW method, NEW f \in held.folds,
           NEW x \in FoldFits(method, f)
    PROVE  Fair(Fit(x.reads, RowsAt(held.dataset.features, x.assessed)))
    <1> DEFINE d == held.dataset
    <1>1. Aligned(d)
        BY DEF FoldsOK, Begun
    <1>2. PICK k \in Nat : f \in BuildFold(d, k)
        BY DEF FoldsOK, Begun
    <1>3. x \in ModelFits(d, f) \/ x \in CalibratedFits(d, f, held.boundary)
        BY DEF FoldFits
    <1> HIDE DEF d
    <1>4. Fair(Fit(x.reads, RowsAt(d.features, x.assessed)))
        BY <1>1, <1>2, <1>3, TrainingFair, CalibrationFair
    <1> QED
        BY <1>4 DEF d

LEMMA CandidateLearns ==
    ASSUME EvidenceInv, DataInv, EvaluateAblation \/ EvaluateModel \/ EvaluateVariant
    PROVE  DataInv'
    <1>a. PICK results \in {"ablations", "models", "variants"} :
             \E candidate, simplicity : EvaluateFolds(results, candidate, simplicity)
        BY DEF EvaluateAblation, EvaluateModel, EvaluateVariant
    <1>1. PICK candidate, simplicity : EvaluateFolds(results, candidate, simplicity)
        BY <1>a
    <1>2. held.kind = "campaign" /\ DOMAIN held = Fields /\ UNCHANGED study
        BY <1>1 DEF EvaluateAblation, EvaluateModel, EvaluateVariant, EvaluateFolds, At,
           EvidenceInv, FieldsOK
    <1>3. PICK completed \in SUBSET held.folds :
             /\ \E value : held' = [held EXCEPT ![results] = value]
             /\ fits' = fits \cup {Fit(x.reads, RowsAt(held.dataset.features, x.assessed)) :
                                     x \in UNION {FoldFits(candidate.method, f) : f \in completed}}
        <2>1. PICK failed :
                LET completed == {f \in held.folds :
                                    f.index \notin failed /\ FoldFits(candidate.method, f) # {}} IN
                /\ \E value : held' = [held EXCEPT ![results] = value]
                /\ fits' = fits \cup {Fit(x.reads, RowsAt(held.dataset.features, x.assessed)) :
                                     x \in UNION {FoldFits(candidate.method, f) : f \in completed}}
            BY <1>1 DEF EvaluateFolds
        <2> DEFINE completed == {f \in held.folds :
                                    f.index \notin failed /\ FoldFits(candidate.method, f) # {}}
        <2> WITNESS completed \in SUBSET held.folds
        <2> QED
            BY <2>1
    <1>4. /\ DOMAIN held' = Fields
          /\ \A x \in Fields \ {results} : held'[x] = held[x]
        BY <1>2, <1>3 DEF Fields
    <1>5. Learned' /\ FoldsOK' /\ ApartOK'
        <2>1. {results} \in SUBSET (Fields \ {"kind", "dataset", "folds"})
            BY DEF Fields
        <2> QED
            BY <1>2, <1>4, <2>1, SameFolds
    <1>6. \A f \in held.folds : \A x \in FoldFits(candidate.method, f) :
             Fair(Fit(x.reads, RowsAt(held.dataset.features, x.assessed)))
        BY <1>2, FoldFitsFair DEF DataInv
    <1>7. \A f \in fits' : f \in fits \/ Fair(f)
        BY <1>3, <1>6
    <1>8. NoLookAhead'
        BY <1>7 DEF DataInv, NoLookAhead, Fair
    <1> QED
        BY <1>5, <1>8 DEF DataInv

LEMMA RankingLearns ==
    ASSUME EvidenceInv, DataInv, SelectFeatures \/ RankModels \/ Decide
    PROVE  DataInv'
    <1>1. held.kind = "campaign" /\ DOMAIN held = Fields /\ UNCHANGED study
        BY DEF SelectFeatures, RankModels, Decide, At, EvidenceInv, FieldsOK
    <1>2. \/ End
          \/ /\ UNCHANGED fits
             /\ \/ \E choice : held' = [held EXCEPT !.stage = "models", !.features = choice]
                \/ \E ranking : held' = [held EXCEPT !.stage = "calibration", !.uncalibrated = ranking]
                \/ \E decision : held' = [held EXCEPT !.stage = "results", !.final = decision]
        BY DEF SelectFeatures, RankModels, Decide
    <1>3. CASE /\ UNCHANGED fits
               /\ \/ \E choice : held' = [held EXCEPT !.stage = "models", !.features = choice]
                  \/ \E ranking : held' = [held EXCEPT !.stage = "calibration", !.uncalibrated = ranking]
                  \/ \E decision : held' = [held EXCEPT !.stage = "results", !.final = decision]
        <2> DEFINE changed == {"stage", "features", "uncalibrated", "final"}
        <2>1. /\ DOMAIN held' = Fields
              /\ \A x \in Fields \ changed : held'[x] = held[x]
            BY <1>1, <1>3 DEF Fields
        <2>2. changed \in SUBSET (Fields \ {"kind", "dataset", "folds"})
            BY DEF Fields
        <2> HIDE DEF changed
        <2> QED
            BY <1>1, <1>3, <2>1, <2>2, SameFolds DEF DataInv
    <1> QED
        BY <1>2, <1>3, EndLearns

LEMMA WriteLearns ==
    ASSUME EvidenceInv, DataInv, WriteArtifact
    PROVE  DataInv'
    <1>1. held.kind = "campaign" /\ DOMAIN held = Fields /\ UNCHANGED study
        BY DEF WriteArtifact, At, EvidenceInv, FieldsOK
    <1>2. PICK name, content : End \/ Written(name, content)
        BY DEF WriteArtifact
    <1>3. CASE /\ UNCHANGED fits
               /\ \E written, stage : held' = [held EXCEPT !.written = written, !.stage = stage]
        <2> DEFINE changed == {"stage", "written"}
        <2>1. /\ DOMAIN held' = Fields
              /\ \A x \in Fields \ changed : held'[x] = held[x]
            BY <1>1, <1>3 DEF Fields
        <2>2. changed \in SUBSET (Fields \ {"kind", "dataset", "folds"})
            BY DEF Fields
        <2> HIDE DEF changed
        <2> QED
            BY <1>1, <1>3, <2>1, <2>2, SameFolds DEF DataInv
    <1>4. \/ End
          \/ /\ UNCHANGED fits
             /\ \E written, stage : held' = [held EXCEPT !.written = written, !.stage = stage]
        BY <1>2 DEF Written
    <1> QED
        BY <1>3, <1>4, EndLearns

LEMMA StartLearns ==
    ASSUME StartCampaign
    PROVE  DataInv'
    <1>1. PICK s \in Studies, created \in Timestamps :
       \E boundary \in ExclusionBoundaries(s.parent) :
          LET slice == SliceMarketData(s.parent, boundary) IN
          \E fs \in ResearchFeatures(slice), ls \in build_forward_label_set(slice, CampaignCosts) :
          \E d \in ResearchDataset(fs, ls) :
          \E folds \in construct_walk_forward_manifest(d, slice) :
             /\ held'.kind = "campaign" /\ held'.dataset = d /\ held'.folds = folds
             /\ study'.of = s /\ DatasetIsolated(boundary, d)
        BY DEF StartCampaign
    <1>2. PICK boundary \in ExclusionBoundaries(s.parent) :
          LET slice == SliceMarketData(s.parent, boundary) IN
          \E fs \in ResearchFeatures(slice), ls \in build_forward_label_set(slice, CampaignCosts) :
          \E d \in ResearchDataset(fs, ls) :
          \E folds \in construct_walk_forward_manifest(d, slice) :
             /\ held'.kind = "campaign" /\ held'.dataset = d /\ held'.folds = folds
             /\ study'.of = s /\ DatasetIsolated(boundary, d)
        BY <1>1
    <1> DEFINE slice == SliceMarketData(s.parent, boundary)
    <1>3. PICK fs \in ResearchFeatures(slice), ls \in build_forward_label_set(slice, CampaignCosts) :
          \E d \in ResearchDataset(fs, ls) :
          \E folds \in construct_walk_forward_manifest(d, slice) :
             /\ held'.kind = "campaign" /\ held'.dataset = d /\ held'.folds = folds
             /\ study'.of = s /\ DatasetIsolated(boundary, d)
        BY <1>2
    <1>4. PICK d \in ResearchDataset(fs, ls) :
          \E folds \in construct_walk_forward_manifest(d, slice) :
             /\ held'.kind = "campaign" /\ held'.dataset = d /\ held'.folds = folds
             /\ study'.of = s /\ DatasetIsolated(boundary, d)
        BY <1>3
    <1>5. PICK folds \in construct_walk_forward_manifest(d, slice) :
             /\ held'.kind = "campaign" /\ held'.dataset = d /\ held'.folds = folds
             /\ study'.of = s /\ DatasetIsolated(boundary, d)
        BY <1>4
    <1>6. slice.rows \in MarketRows
        <2>1. s.parent.rows \in MarketRows
            BY CampaignAssumption DEF CampaignAssumption, MarketRows
        <2> QED
            BY <2>1, BoundaryEnds, SliceKnown
    <1> HIDE DEF slice
    <1>7. KnownFeatures(fs.data) /\ KnownLabels(ls.data)
        BY <1>6, ResearchFeaturesKnown, LabelsKnown
    <1>8. Begun(d, folds)
        BY <1>7, ResearchDatasetAligned, FoldsBegun
    <1>9. fits' = {}
        BY DEF StartCampaign
    <1> QED
        BY <1>5, <1>8, <1>9 DEF DataInv, Learned, FoldsOK, ApartOK, NoLookAhead

LEMMA DataInit == CampaignInit => DataInv
    BY DEF CampaignInit, Init, Nothing, DataInv, Learned, FoldsOK, ApartOK, NoLookAhead

LEMMA DataNext ==
    RuntimeOfLock /\ EvidenceInv /\ DataInv /\ [CampaignNext]_campaignVars => DataInv'
    <1> SUFFICES ASSUME RuntimeOfLock, EvidenceInv, DataInv, [CampaignNext]_campaignVars
                 PROVE  DataInv'
        OBVIOUS
    <1>1. CASE Chain
        <2>1. Next /\ held.kind # "campaign" /\ held'.kind # "campaign"
            BY <1>1, ChainStep DEF Chain, EvidenceInv, Fresh
        <2>2. Learned' /\ NoLookAhead'
            BY <2>1, ChainLearns DEF DataInv
        <2> QED
            BY <2>1, <2>2 DEF DataInv, FoldsOK, ApartOK
    <1>2. CASE StartCampaign
        BY <1>2, StartLearns
    <1>3. CASE EvaluateAblation \/ EvaluateModel \/ EvaluateVariant
        BY <1>3, CandidateLearns
    <1>4. CASE SelectFeatures \/ RankModels \/ Decide
        BY <1>4, RankingLearns
    <1>5. CASE WriteArtifact
        BY <1>5, WriteLearns
    <1>6. CASE Interrupt
        BY <1>6, EndLearns DEF Interrupt
    <1>7. CASE UNCHANGED campaignVars
        BY <1>7 DEF campaignVars, DataInv, Learned, FoldsOK, ApartOK, NoLookAhead
    <1> QED
        BY <1>1, <1>2, <1>3, <1>4, <1>5, <1>6, <1>7 DEF CampaignNext

---------------------------------------------------------------------------
(* Theorems about what was read *)

\* Nothing fitted, by the V1 chain or in a fold, estimator or calibrator, is
\* scored at or before a date it was fitted on, and no row is scored on later
\* features than its session (included_mask; the purges of folds.py and
\* calibration.py), for any market data and any bounds.
THEOREM NothingLooksAhead == CampaignSpec => []NoLookAhead
    <1>1. DataInv => NoLookAhead
        BY DEF DataInv
    <1> QED
        BY <1>1, DataInit, DataNext, AlwaysKept, PTL DEF CampaignSpec

\* Whatever partitions the caller hands in, the refit is on the batch and the
\* sessions of the selection (_verify_locked_selection_matches_partitions).
THEOREM RefittedOnItsSelection == CampaignSpec => RefitOnSelectionData
    <1>1. ASSUME EvidenceInv, DataInv, [CampaignNext]_campaignVars
          PROVE [(held.kind = "comparison" /\ held'.kind = "bundle") =>
                   LET l == held.is.logistic e == held'.is.estimator IN
                   /\ e.sources = {held.is.source}
                   /\ e.sessions = ToSet(Sessions(l.train_predictions.data))
                           \cup ToSet(Sessions(l.validation_predictions.data))]_vars
        <2> SUFFICES ASSUME held.kind = "comparison", held'.kind = "bundle"
                     PROVE LET l == held.is.logistic e == held'.is.estimator IN
                           /\ e.sources = {held.is.source}
                           /\ e.sessions = ToSet(Sessions(l.train_predictions.data))
                                   \cup ToSet(Sessions(l.validation_predictions.data))
            OBVIOUS
        <2>1. Chain
            <3>1. ~StartCampaign
                BY DEF StartCampaign
            <3>2. ~(EvaluateAblation \/ EvaluateModel \/ EvaluateVariant \/ SelectFeatures
                    \/ RankModels \/ Decide \/ WriteArtifact \/ Interrupt)
                BY DEF EvaluateAblation, EvaluateModel, EvaluateVariant, SelectFeatures, RankModels,
                   Decide, WriteArtifact, Interrupt, At
            <3>3. ~UNCHANGED campaignVars
                BY DEF campaignVars
            <3> QED
                BY <1>1, <3>1, <3>2, <3>3 DEF CampaignNext
        <2>2. FitLocked
            <3>1. Next
                BY <2>1 DEF Chain
            <3>2. ~Train
                <4>1. Train => held'.kind = "comparison"
                    BY DEF Train
                <4> QED
                    BY <4>1
            <3>3. ~Evaluate /\ ~BuildSignals /\ ~Upgrade
                BY DEF Evaluate, BuildSignals, Upgrade
            <3> QED
                BY <3>1, <3>2, <3>3 DEF Next
        <2> QED
            BY <1>1, <2>2, RefitLearns DEF DataInv
    <1> QED
        BY <1>1, DataInit, DataNext, AlwaysKept, PTL DEF CampaignSpec, RefitOnSelectionData

\* The dataset a campaign begins with was computed without a price of the final
\* test that the benchmark makes of the same data (phase2_isolation.py).
THEOREM DevelopmentStaysApart == CampaignSpec => []DevelopmentNeverReadsTheFinalTest
    <1>1. DataInv => DevelopmentNeverReadsTheFinalTest
        <2> SUFFICES ASSUME DataInv, At("initial"), NEW test \in BenchmarkTests(study.of.parent),
                            NEW date \in FitReads(held.dataset, Sessions(held.dataset.labels))
                     PROVE  date < test.first
            BY DEF DevelopmentNeverReadsTheFinalTest
        <2>1. Aligned(held.dataset)
            BY DEF DataInv, FoldsOK, Begun, At
        <2>2. study.of \in Studies
            BY DEF DataInv, ApartOK, At
        <2>3. PICK boundary \in ExclusionBoundaries(study.of.parent) :
                 DatasetIsolated(boundary, held.dataset)
            BY DEF DataInv, ApartOK, At
        <2> DEFINE parent == study.of.parent
        <2>4. parent.rows \in MarketRows
            BY <2>2, CampaignAssumption DEF CampaignAssumption, MarketRows
        <2> HIDE DEF parent
        <2>5. test.first = Head(boundary.protected)
            BY <2>3, <2>4, TestIsProtected DEF parent
        <2>6. Head(boundary.protected) \in Nat
            <3>1. EndsBefore(parent, boundary)
                BY <2>3, <2>4, BoundaryEnds DEF parent
            <3> QED
                BY <2>4, <3>1, MarketSessions DEF EndsBefore
        <2> QED
            BY <2>1, <2>3, <2>5, <2>6, IsolatedReads
    <1> QED
        BY <1>1, DataInit, DataNext, AlwaysKept, PTL DEF CampaignSpec

(***************************************************************************)
(* What is promoted.  PromotionIsEarned is about sorting: the first of a   *)
(* ranking discriminates best, because the keys order lexicographically,   *)
(* because the medians in them are integers.  So: what a strict total      *)
(* order sorts, sums and medians, and rankings; then an invariant of the   *)
(* steps (Weighed), that what is ranked comes from evaluations of the      *)
(* candidates; and at the index, the stored figures are those.             *)
(***************************************************************************)

---------------------------------------------------------------------------
(* Orders *)

\* A strict total order of a set, as a set of pairs.
Orders(R, S) ==
    /\ \A x \in S : <<x, x>> \notin R
    /\ \A x, y, z \in S : <<x, y>> \in R /\ <<y, z>> \in R => <<x, z>> \in R
    /\ \A x, y \in S : x # y => <<x, y>> \in R \/ <<y, x>> \in R

Under(R, S, x) == {y \in S : <<y, x>> \in R}

\* Every place is taken: the members have different ranks.
LEMMA Places ==
    ASSUME NEW S, IsFiniteSet(S), NEW R, Orders(R, S)
    PROVE  /\ Cardinality(S) \in Nat
           /\ \A n \in 1..Cardinality(S) : \E x \in S : Cardinality(Under(R, S, x)) = n - 1
    <1> DEFINE N == Cardinality(S)
               rank == [x \in S |-> Cardinality(Under(R, S, x)) + 1]
    <1>1. N \in Nat
        BY FS_CardinalityType
    <1>2. ASSUME NEW x \in S
          PROVE  /\ IsFiniteSet(Under(R, S, x)) /\ Cardinality(Under(R, S, x)) \in Nat
                 /\ Cardinality(Under(R, S, x)) < N
        <2>1. Under(R, S, x) \in SUBSET S /\ x \notin Under(R, S, x)
            BY DEF Under, Orders
        <2>2. /\ IsFiniteSet(Under(R, S, x)) /\ Cardinality(Under(R, S, x)) <= N
              /\ N = Cardinality(Under(R, S, x)) => S = Under(R, S, x)
            BY <2>1, FS_Subset
        <2>3. Cardinality(Under(R, S, x)) \in Nat
            BY <2>2, FS_CardinalityType
        <2> QED
            BY <1>1, <2>1, <2>2, <2>3
    <1>3. rank \in [S -> 1..N]
        BY <1>1, <1>2
    <1>4. ASSUME NEW x \in S, NEW y \in S, <<x, y>> \in R PROVE rank[x] # rank[y]
        <2>1. Under(R, S, x) \in SUBSET Under(R, S, y)
            BY <1>4 DEF Under, Orders
        <2>2. x \in Under(R, S, y) /\ x \notin Under(R, S, x)
            BY <1>4 DEF Under, Orders
        <2>3. Cardinality(Under(R, S, x)) # Cardinality(Under(R, S, y))
            BY <1>2, <2>1, <2>2, FS_Subset
        <2> QED
            BY <1>2, <2>3
    <1>5. rank \in Injection(S, 1..N)
        <2>1. \A x, y \in S : rank[x] = rank[y] => x = y
            BY <1>4 DEF Orders
        <2> QED
            BY <1>3, <2>1, Fun_IsInj
    <1>6. IsFiniteSet(1..N) /\ Cardinality(1..N) = N
        <2>1. /\ IsFiniteSet(1..N)
              /\ Cardinality(1..N) = IF 1 > N THEN 0 ELSE N - 1 + 1
            BY <1>1, FS_Interval
        <2> QED
            BY <1>1, <2>1
    <1>7. rank \in Surjection(S, 1..N)
        BY <1>5, <1>6, FS_Injection
    <1>8. ASSUME NEW n \in 1..N PROVE \E x \in S : Cardinality(Under(R, S, x)) = n - 1
        <2>1. PICK x \in S : rank[x] = n
            BY <1>7, Fun_IsSurj DEF Surjection
        <2> QED
            BY <1>1, <1>2, <2>1
    <1> QED
        BY <1>1, <1>8

\* What sorting returns: at each place a member, the first of them before all others.
SortedBy(s, S, R) ==
    /\ DOMAIN s = 1..Cardinality(S) /\ Cardinality(S) \in Nat
    /\ \A n \in 1..Cardinality(S) : s[n] \in S
    /\ S # {} => /\ Cardinality(S) >= 1
                 /\ \A x \in S : x = s[1] \/ <<s[1], x>> \in R

Placed(R, S) ==
    [n \in 1..Cardinality(S) |-> CHOOSE x \in S : Cardinality(Under(R, S, x)) = n - 1]

LEMMA PlacedSorted ==
    ASSUME NEW S, IsFiniteSet(S), NEW R, Orders(R, S)
    PROVE  SortedBy(Placed(R, S), S, R)
    <1> DEFINE N == Cardinality(S)
               s == Placed(R, S)
    <1>1. N \in Nat /\ \A n \in 1..N : \E x \in S : Cardinality(Under(R, S, x)) = n - 1
        BY Places
    <1>2. \A n \in 1..N : s[n] \in S /\ Cardinality(Under(R, S, s[n])) = n - 1
        BY <1>1 DEF Placed
    <1>3. ASSUME S # {} PROVE N >= 1 /\ \A x \in S : x = s[1] \/ <<s[1], x>> \in R
        <2>1. N # 0
            BY <1>3, FS_EmptySet
        <2>2. N >= 1 /\ 1 \in 1..N
            BY <1>1, <2>1
        <2>3. s[1] \in S /\ Cardinality(Under(R, S, s[1])) = 0
            BY <1>2, <2>2
        <2>4. Under(R, S, s[1]) = {}
            <3>1. Under(R, S, s[1]) \in SUBSET S
                BY DEF Under
            <3>2. IsFiniteSet(Under(R, S, s[1]))
                BY <3>1, FS_Subset
            <3> QED
                BY <2>3, <3>2, FS_EmptySet
        <2>5. ASSUME NEW x \in S, x # s[1] PROVE <<s[1], x>> \in R
            <3>1. <<x, s[1]>> \notin R
                BY <2>4 DEF Under
            <3> QED
                BY <2>3, <2>5, <3>1 DEF Orders
        <2> QED
            BY <2>2, <2>5
    <1>4. DOMAIN s = 1..N
        BY DEF Placed
    <1> QED
        BY <1>1, <1>2, <1>3, <1>4 DEF SortedBy

\* The lexicographic order of tuples of integers.
LEMMA PrecedesOrders ==
    ASSUME NEW n \in Nat, NEW a \in [1..n -> Int], NEW b \in [1..n -> Int]
    PROVE  /\ ~Precedes(a, a)
           /\ a # b => Precedes(a, b) \/ Precedes(b, a)
           /\ \A c \in [1..n -> Int] : Precedes(a, b) /\ Precedes(b, c) => Precedes(a, c)
    <1>1. /\ DOMAIN a = 1..n /\ DOMAIN b = 1..n
          /\ \A i \in 1..n : a[i] \in Int /\ b[i] \in Int
        OBVIOUS
    <1>2. ~Precedes(a, a)
        BY <1>1 DEF Precedes
    <1>3. ASSUME a # b PROVE Precedes(a, b) \/ Precedes(b, a)
        <2> DEFINE D == {i \in 1..n : a[i] # b[i]}
        <2>1. D # {} /\ D \subseteq Nat
            BY <1>3
        <2> HIDE DEF D
        <2>2. PICK i \in D : \A j \in D : i <= j
            BY <2>1, LeastElement
        <2>3. i \in 1..n /\ a[i] # b[i] /\ \A j \in 1..(i - 1) : a[j] = b[j]
            BY <2>2 DEF D
        <2>4. \A j \in 1..(i - 1) : b[j] = a[j]
            BY <2>3
        <2>5. CASE a[i] < b[i]
            BY <1>1, <2>3, <2>5 DEF Precedes
        <2>6. CASE b[i] < a[i]
            BY <1>1, <2>3, <2>4, <2>6 DEF Precedes
        <2>7. a[i] < b[i] \/ b[i] < a[i]
            BY <1>1, <2>3
        <2> QED
            BY <2>5, <2>6, <2>7
    <1>4. ASSUME NEW c \in [1..n -> Int], Precedes(a, b), Precedes(b, c)
          PROVE  Precedes(a, c)
        <2>1. PICK i \in 1..n : a[i] < b[i] /\ \A j \in 1..(i - 1) : a[j] = b[j]
            BY <1>1, <1>4 DEF Precedes
        <2>2. PICK k \in 1..n : b[k] < c[k] /\ \A j \in 1..(k - 1) : b[j] = c[j]
            BY <1>1, <1>4 DEF Precedes
        <2>3. \A j \in 1..n : a[j] \in Int /\ b[j] \in Int /\ c[j] \in Int
            OBVIOUS
        <2>4. CASE i <= k
            <3>1. a[i] < c[i]
                <4>1. b[i] <= c[i]
                    <5>1. CASE i = k
                        BY <2>2, <2>3, <5>1
                    <5>2. CASE i < k
                        BY <2>2, <2>3, <5>2
                    <5> QED
                        BY <2>4, <5>1, <5>2
                <4> QED
                    BY <2>1, <2>3, <4>1
            <3>2. \A j \in 1..(i - 1) : a[j] = c[j]
                BY <2>1, <2>2, <2>4
            <3> QED
                BY <1>1, <3>1, <3>2 DEF Precedes
        <2>5. CASE k < i
            <3>1. a[k] < c[k]
                BY <2>1, <2>2, <2>3, <2>5
            <3>2. \A j \in 1..(k - 1) : a[j] = c[j]
                BY <2>1, <2>2, <2>5
            <3> QED
                BY <1>1, <3>1, <3>2 DEF Precedes
        <2> QED
            BY <2>4, <2>5
    <1> QED
        BY <1>2, <1>3, <1>4

Lower(key, S) == {p \in S \X S : Precedes(key[p[1]], key[p[2]])}

LEMMA Lexicographic ==
    ASSUME NEW n \in Nat, NEW S, NEW key \in [S -> [1..n -> Int]],
           \A x, y \in S : key[x] = key[y] => x = y
    PROVE  /\ Orders(Lower(key, S), S)
           /\ \A x, y \in S : <<x, y>> \in Lower(key, S) <=> Precedes(key[x], key[y])
    <1>1. ASSUME NEW x \in S, NEW y \in S
          PROVE  <<x, y>> \in Lower(key, S) <=> Precedes(key[x], key[y])
        <2> DEFINE e == <<x, y>>
        <2>1. e \in S \X S /\ e[1] = x /\ e[2] = y
            OBVIOUS
        <2>2. e \in Lower(key, S) <=> Precedes(key[e[1]], key[e[2]])
            <3> HIDE DEF e
            <3> QED
                BY <2>1 DEF Lower
        <2> QED
            BY <2>1, <2>2
    <1>2. \A x \in S : key[x] \in [1..n -> Int]
        OBVIOUS
    <1>3. ASSUME NEW x \in S PROVE <<x, x>> \notin Lower(key, S)
        BY <1>1, <1>2, PrecedesOrders
    <1>4. ASSUME NEW x \in S, NEW y \in S, NEW z \in S,
                 <<x, y>> \in Lower(key, S), <<y, z>> \in Lower(key, S)
          PROVE  <<x, z>> \in Lower(key, S)
        <2>1. Precedes(key[x], key[y]) /\ Precedes(key[y], key[z])
            BY <1>1, <1>4
        <2>2. Precedes(key[x], key[z])
            BY <1>2, <2>1, PrecedesOrders
        <2> QED
            BY <1>1, <2>2
    <1>5. ASSUME NEW x \in S, NEW y \in S, x # y
          PROVE  <<x, y>> \in Lower(key, S) \/ <<y, x>> \in Lower(key, S)
        <2>1. key[x] # key[y]
            BY <1>5
        <2>2. Precedes(key[x], key[y]) \/ Precedes(key[y], key[x])
            BY <1>2, <2>1, PrecedesOrders
        <2> QED
            BY <1>1, <2>2
    <1> QED
        BY <1>1, <1>3, <1>4, <1>5 DEF Orders

---------------------------------------------------------------------------
(* Sums *)

OneOf(s) == CHOOSE x \in s : TRUE

\* The recursive function behind SumFunctionOnSet, on some subsets.
Tally(g, values, sets) ==
    g = [s \in sets |-> IF s = {} THEN 0 ELSE values[OneOf(s)] + g[s \ {OneOf(s)}]]

UpTo(F, n) == {s \in SUBSET F : Cardinality(s) <= n}

LEMMA OneLess ==
    ASSUME NEW F, IsFiniteSet(F), NEW n \in Nat, NEW s \in UpTo(F, n + 1), s # {}
    PROVE  OneOf(s) \in s /\ s \ {OneOf(s)} \in UpTo(F, n)
    <1>1. OneOf(s) \in s
        BY DEF OneOf
    <1>2. s \in SUBSET F /\ Cardinality(s) <= n + 1
        BY DEF UpTo
    <1>3. IsFiniteSet(s) /\ Cardinality(s) \in Nat
        BY <1>2, FS_Subset, FS_CardinalityType
    <1>4. Cardinality(s \ {OneOf(s)}) = Cardinality(s) - 1
        BY <1>1, <1>3, FS_RemoveElement
    <1>5. Cardinality(s \ {OneOf(s)}) <= n
        BY <1>2, <1>3, <1>4
    <1> QED
        BY <1>1, <1>2, <1>5 DEF UpTo

LEMMA TallyExists ==
    ASSUME NEW F, IsFiniteSet(F), NEW values, NEW n \in Nat
    PROVE  \E g : Tally(g, values, UpTo(F, n))
    <1> DEFINE S == {k \in Nat : \E g : Tally(g, values, UpTo(F, k))}
    <1>1. 0 \in S
        <2> DEFINE g == [s \in UpTo(F, 0) |-> 0]
        <2>1. \A s \in UpTo(F, 0) : s = {}
            <3> SUFFICES ASSUME NEW s \in UpTo(F, 0) PROVE s = {}
                OBVIOUS
            <3>1. s \in SUBSET F /\ Cardinality(s) <= 0
                BY DEF UpTo
            <3>2. IsFiniteSet(s) /\ Cardinality(s) \in Nat
                BY <3>1, FS_Subset, FS_CardinalityType
            <3>3. Cardinality(s) = 0
                BY <3>1, <3>2
            <3> QED
                BY <3>2, <3>3, FS_EmptySet
        <2>2. Tally(g, values, UpTo(F, 0))
            BY <2>1 DEF Tally
        <2> QED
            BY <2>2
    <1>2. ASSUME NEW k \in Nat, k \in S PROVE k + 1 \in S
        <2>1. PICK g : Tally(g, values, UpTo(F, k))
            BY <1>2
        <2> DEFINE Next1(s) == IF s = {} THEN 0 ELSE values[OneOf(s)] + g[s \ {OneOf(s)}]
                   h == [s \in UpTo(F, k + 1) |-> Next1(s)]
        <2>2. \A s \in UpTo(F, k) : s \in UpTo(F, k + 1) /\ g[s] = Next1(s)
            <3>1. \A s \in UpTo(F, k) : g[s] = Next1(s)
                BY <2>1 DEF Tally
            <3>2. ASSUME NEW s \in UpTo(F, k) PROVE s \in UpTo(F, k + 1)
                <4>1. s \in SUBSET F /\ Cardinality(s) <= k
                    BY DEF UpTo
                <4>2. Cardinality(s) \in Nat
                    BY <4>1, FS_Subset, FS_CardinalityType
                <4> QED
                    BY <4>1, <4>2 DEF UpTo
            <3> QED
                BY <3>1, <3>2
        <2>3. \A s \in UpTo(F, k) : h[s] = g[s]
            BY <2>2
        <2>4. ASSUME NEW s \in UpTo(F, k + 1), s # {}
              PROVE  Next1(s) = values[OneOf(s)] + h[s \ {OneOf(s)}]
            <3>1. s \ {OneOf(s)} \in UpTo(F, k)
                BY <2>4, OneLess
            <3>2. h[s \ {OneOf(s)}] = g[s \ {OneOf(s)}]
                BY <2>3, <3>1
            <3> QED
                BY <2>4, <3>2
        <2>5. \A s \in UpTo(F, k + 1) :
                 Next1(s) = IF s = {} THEN 0 ELSE values[OneOf(s)] + h[s \ {OneOf(s)}]
            BY <2>4
        <2>6. h = [s \in UpTo(F, k + 1) |->
                      IF s = {} THEN 0 ELSE values[OneOf(s)] + h[s \ {OneOf(s)}]]
            BY <2>5, Zenon
        <2> HIDE DEF h
        <2>7. Tally(h, values, UpTo(F, k + 1))
            BY <2>6 DEF Tally
        <2> QED
            BY <2>7
    <1> HIDE DEF S
    <1>3. n \in S
        BY <1>1, <1>2, SetInduction
    <1> QED
        BY <1>3 DEF S

LEMMA TallyInteger ==
    ASSUME NEW F, IsFiniteSet(F), NEW values, \A i \in F : values[i] \in Int,
           NEW m \in Nat, NEW g, Tally(g, values, UpTo(F, m)), NEW n \in Nat
    PROVE  n <= m => \A s \in UpTo(F, n) : g[s] \in Int
    <1> DEFINE S == {k \in Nat : k <= m => \A s \in UpTo(F, k) : g[s] \in Int}
    <1>0. ASSUME NEW k \in Nat, k <= m, NEW s \in UpTo(F, k)
          PROVE  s \in UpTo(F, m) /\ s \in SUBSET F
        <2>1. s \in SUBSET F /\ Cardinality(s) <= k
            BY DEF UpTo
        <2>2. Cardinality(s) \in Nat
            BY <2>1, FS_Subset, FS_CardinalityType
        <2> QED
            BY <1>0, <2>1, <2>2 DEF UpTo
    <1>1. 0 \in S
        <2> SUFFICES ASSUME NEW s \in UpTo(F, 0) PROVE g[s] \in Int
            OBVIOUS
        <2>1. s \in SUBSET F /\ Cardinality(s) <= 0
            BY DEF UpTo
        <2>2. IsFiniteSet(s) /\ Cardinality(s) \in Nat
            BY <2>1, FS_Subset, FS_CardinalityType
        <2>3. s = {}
            BY <2>1, <2>2, FS_EmptySet
        <2>4. s \in UpTo(F, m)
            BY <1>0
        <2> QED
            BY <2>3, <2>4 DEF Tally
    <1>2. ASSUME NEW k \in Nat, k \in S PROVE k + 1 \in S
        <2> SUFFICES ASSUME k + 1 <= m, NEW s \in UpTo(F, k + 1) PROVE g[s] \in Int
            OBVIOUS
        <2>1. s \in UpTo(F, m) /\ s \in SUBSET F
            BY <1>0
        <2>2. g[s] = IF s = {} THEN 0 ELSE values[OneOf(s)] + g[s \ {OneOf(s)}]
            BY <2>1 DEF Tally
        <2>3. CASE s = {}
            BY <2>2, <2>3
        <2>4. CASE s # {}
            <3>1. OneOf(s) \in F /\ s \ {OneOf(s)} \in UpTo(F, k)
                BY <2>1, <2>4, OneLess
            <3>2. g[s \ {OneOf(s)}] \in Int
                BY <1>2, <3>1
            <3>3. values[OneOf(s)] \in Int
                BY <3>1
            <3> QED
                BY <2>2, <2>4, <3>2, <3>3
        <2> QED
            BY <2>3, <2>4
    <1> HIDE DEF S
    <1>3. n \in S
        BY <1>1, <1>2, SetInduction
    <1> QED
        BY <1>3 DEF S

LEMMA SumInteger ==
    ASSUME NEW F, IsFiniteSet(F), NEW values, \A i \in F : values[i] \in Int
    PROVE  SumFunctionOnSet(values, F) \in Int
    <1> DEFINE n == Cardinality(F)
    <1>1. n \in Nat
        BY FS_CardinalityType
    <1>2. UpTo(F, n) = SUBSET F
        BY FS_Subset DEF UpTo
    <1>3. \E g : Tally(g, values, SUBSET F)
        <2> HIDE DEF n
        <2>1. \E g : Tally(g, values, UpTo(F, n))
            BY <1>1, TallyExists
        <2> QED
            BY <1>2, <2>1
    <1>4. PICK g : Tally(g, values, SUBSET F) /\ SumFunctionOnSet(values, F) = g[F]
        BY <1>3 DEF Tally, OneOf, SumFunctionOnSet, FoldFunctionOnSet, MapThenFoldSet
    <1>5. \A s \in UpTo(F, n) : g[s] \in Int
        <2>1. Tally(g, values, UpTo(F, n))
            BY <1>2, <1>4
        <2> HIDE DEF n
        <2> QED
            BY <1>1, <2>1, TallyInteger
    <1> QED
        BY <1>2, <1>4, <1>5

LEMMA AverageInteger ==
    ASSUME NEW F, IsFiniteSet(F), F # {}, NEW values, \A i \in F : values[i] \in Int
    PROVE  Average(values, F) \in Int
    <1>1. Cardinality(F) \in Nat /\ Cardinality(F) # 0
        BY FS_CardinalityType, FS_EmptySet
    <1>2. SumFunctionOnSet(values, F) \in Int
        BY SumInteger
    <1> DEFINE sum == SumFunctionOnSet(values, F) n == Cardinality(F)
    <1> HIDE DEF sum, n
    <1>3. sum \in Int /\ n \in Nat \ {0}
        BY <1>1, <1>2 DEF sum, n
    <1>4. (2 * sum) \div n \in Int
        BY <1>3
    <1> QED
        BY <1>4 DEF Average, sum, n

---------------------------------------------------------------------------
(* Aggregates *)

LEMMA AscendingSorted ==
    ASSUME NEW F, IsFiniteSet(F), F \subseteq Int, NEW values \in [F -> Int]
    PROVE  LET order == Ascending(values) IN
           /\ Cardinality(F) \in Nat /\ DOMAIN order = 1..Cardinality(F)
           /\ order \in Seq(F) /\ Len(order) = Cardinality(F)
    <1> DEFINE Before(i, j) == values[i] < values[j] \/ (values[i] = values[j] /\ i < j)
               R == {p \in F \X F : Before(p[1], p[2])}
    <1>1. ASSUME NEW x \in F, NEW y \in F PROVE <<x, y>> \in R <=> Before(x, y)
        OBVIOUS
    <1>2. \A x \in F : values[x] \in Int /\ x \in Int
        OBVIOUS
    <1>3. Orders(R, F)
        <2>1. \A x, y, z \in F : /\ ~Before(x, x)
                                 /\ Before(x, y) /\ Before(y, z) => Before(x, z)
                                 /\ x # y => Before(x, y) \/ Before(y, x)
            BY <1>2
        <2> HIDE DEF R, Before
        <2> QED
            BY <1>1, <2>1 DEF Orders
    <1> DEFINE order == Placed(R, F)
    <1>4. \A x \in F : {y \in F : Before(y, x)} = Under(R, F, x)
        BY <1>1 DEF Under
    <1>5. Ascending(values) = order
        <2>1. DOMAIN values = F
            OBVIOUS
        <2>2. Ascending(values) = [n \in 1..Cardinality(F) |->
                           CHOOSE x \in F : Cardinality({y \in F : Before(y, x)}) = n - 1]
            BY <2>1 DEF Ascending, Sorted
        <2> HIDE DEF R, Before
        <2>3. \A n : (CHOOSE x \in F : Cardinality({y \in F : Before(y, x)}) = n - 1)
                       = CHOOSE x \in F : Cardinality(Under(R, F, x)) = n - 1
            BY <1>4
        <2> QED
            BY <2>2, <2>3 DEF Placed
    <1> HIDE DEF R
    <1>6. SortedBy(order, F, R)
        BY <1>3, PlacedSorted
    <1> HIDE DEF order
    <1>7. /\ DOMAIN order = 1..Cardinality(F) /\ Cardinality(F) \in Nat
          /\ \A n \in 1..Cardinality(F) : order[n] \in F
        BY <1>6 DEF SortedBy
    <1>8. order = [n \in 1..Cardinality(F) |-> order[n]]
        BY <1>7 DEF order, Placed
    <1>9. order \in Seq(F) /\ Len(order) = Cardinality(F)
        BY <1>7, <1>8
    <1> QED
        BY <1>5, <1>7, <1>9

\* Integer metrics, when there are any.
Measured(s) ==
    /\ IsFiniteSet(s.completed)
    /\ s.completed # {} =>
         /\ s.auc \in Int /\ s.loss \in Int /\ s.brier \in Int
         /\ s.worst \in Int /\ s.simplicity \in Int

LEMMA MedianInteger ==
    ASSUME NEW F, IsFiniteSet(F), F # {}, F \subseteq Int, NEW values \in [F -> Int]
    PROVE  Median(values) \in Int /\ WorstQuartile(values) \in Int
    <1> DEFINE order == Ascending(values) N == Cardinality(F)
    <1>1. N \in Nat /\ N # 0
        BY FS_CardinalityType, FS_EmptySet
    <1>2. order \in Seq(F) /\ Len(order) = N
        BY AscendingSorted
    <1> HIDE DEF order, N
    <1>3. \A i \in 1..N : order[i] \in F
        BY <1>1, <1>2
    <1>4. Median(values) \in Int
        <2> DEFINE middle == {order[(N + 1) \div 2], order[N \div 2 + 1]}
        <2>1. (N + 1) \div 2 \in 1..N
            BY <1>1
        <2>2. N \div 2 + 1 \in 1..N
            BY <1>1
        <2>3. middle \subseteq F /\ middle # {}
            BY <1>3, <2>1, <2>2
        <2>4. IsFiniteSet(middle)
            BY <2>3, FS_Subset
        <2> HIDE DEF middle
        <2>5. \A i \in middle : values[i] \in Int
            BY <2>3
        <2>6. Average(values, middle) \in Int
            BY <2>3, <2>4, <2>5, AverageInteger
        <2> QED
            BY <1>2, <2>6 DEF Median, middle, order
    <1>5. WorstQuartile(values) \in Int
        <2> DEFINE worst == {order[i] : i \in 1..((N + 3) \div 4)}
        <2>1. (N + 3) \div 4 \in 1..N
            BY <1>1
        <2>2. worst \subseteq F /\ worst # {}
            <3>1. 1 \in 1..((N + 3) \div 4) /\ \A i \in 1..((N + 3) \div 4) : i \in 1..N
                BY <1>1, <2>1
            <3> QED
                BY <1>3, <3>1
        <2>3. IsFiniteSet(worst)
            BY <2>2, FS_Subset
        <2> HIDE DEF worst
        <2>4. \A i \in worst : values[i] \in Int
            BY <2>2
        <2>5. Average(values, worst) \in Int
            BY <2>2, <2>3, <2>4, AverageInteger
        <2> QED
            BY <1>2, <2>5 DEF WorstQuartile, worst, order
    <1> QED
        BY <1>4, <1>5

\* The discrimination of a candidate over the folds it completed.
Discrimination(candidate, completed) ==
    Median([k \in completed |-> Score(study.of.scores, candidate, k)["auc"]])

LEMMA SummarySound ==
    ASSUME study.of \in Studies, NEW features \in DOMAIN Ablations, NEW model \in DOMAIN Models,
           NEW method \in ToSet(Methods), NEW simplicity \in Int,
           NEW completed \in SUBSET (0..Len(study.of.parent.rows))
    PROVE  LET candidate == Candidate(features, model, method)
               s == Summary(candidate, completed, simplicity)
           IN /\ Measured(s) /\ s.completed = completed
              /\ completed # {} => s.auc = Discrimination(candidate, completed)
    <1> DEFINE candidate == Candidate(features, model, method)
               s == Summary(candidate, completed, simplicity)
               M(name) == [k \in completed |-> Score(study.of.scores, candidate, k)[name]]
    <1>1. Len(study.of.parent.rows) \in Nat
        BY CampaignAssumption DEF CampaignAssumption
    <1>2. IsFiniteSet(completed) /\ completed \subseteq Int
        <2> DEFINE n == Len(study.of.parent.rows)
        <2>1. completed \in SUBSET (0..n) /\ n \in Nat
            BY <1>1
        <2> HIDE DEF n
        <2>2. IsFiniteSet(0..n) /\ 0..n \subseteq Int
            BY <2>1, FS_Interval
        <2> QED
            BY <2>1, <2>2, FS_Subset
    <1>3. CASE completed = {}
        <2>1. s = [completed |-> {}]
            BY <1>3 DEF Summary
        <2> QED
            BY <1>2, <1>3, <2>1 DEF Measured
    <1>4. CASE completed # {}
        <2>1. \A k \in completed :
                 Score(study.of.scores, candidate, k) \in [auc : Int, loss : Int, brier : Int]
            BY ScoreAssumption DEF ScoreAssumption
        <2>2. /\ M("auc") \in [completed -> Int] /\ M("loss") \in [completed -> Int]
              /\ M("brier") \in [completed -> Int]
            BY <2>1
        <2>3. /\ Median(M("auc")) \in Int /\ Median(M("loss")) \in Int
              /\ Median(M("brier")) \in Int /\ WorstQuartile(M("auc")) \in Int
            <3> HIDE DEF M
            <3> QED
                BY <1>2, <1>4, <2>2, MedianInteger
        <2>4. s = [completed |-> completed, simplicity |-> simplicity,
                   auc |-> Median(M("auc")), loss |-> Median(M("loss")),
                   brier |-> Median(M("brier")), worst |-> WorstQuartile(M("auc"))]
            BY <1>4, Zenon DEF Summary
        <2>5. Median(M("auc")) = Discrimination(candidate, completed)
            BY Zenon DEF Discrimination
        <2> HIDE DEF s, M
        <2>6. /\ s.completed = completed /\ s.simplicity = simplicity
              /\ s.auc = Median(M("auc")) /\ s.loss = Median(M("loss"))
              /\ s.brier = Median(M("brier")) /\ s.worst = WorstQuartile(M("auc"))
            BY <2>4
        <2>7. Measured(s)
            BY <1>2, <2>3, <2>6 DEF Measured
        <2> QED
            BY <1>4, <2>5, <2>6, <2>7 DEF s
    <1> QED
        BY <1>3, <1>4

---------------------------------------------------------------------------
(* Rankings *)

\* A ranking holds the ranked, and none of them discriminates better than the first.
LEMMA RankedFirst ==
    ASSUME NEW summaries, NEW among, IsFiniteSet(among), among \subseteq Int, among # {},
           \A i \in among : Measured(summaries[i]) /\ summaries[i].completed # {}
    PROVE  LET ranked == Ranked(summaries, among) IN
           /\ Frame(ranked) /\ Len(ranked) >= 1 /\ \A k \in 1..Len(ranked) : ranked[k] \in among
           /\ \A i \in among : summaries[i].auc <= summaries[ranked[1]].auc
    <1> DEFINE key == [i \in among |-> Key(summaries[i], i)]
               R == Lower(key, among)
               ranked == Ranked(summaries, among)
    <1>1. ASSUME NEW i \in among
          PROVE  key[i] \in [1..6 -> Int] /\ key[i][1] = -summaries[i].auc /\ key[i][6] = i
        <2>1. /\ summaries[i].auc \in Int /\ summaries[i].loss \in Int /\ summaries[i].brier \in Int
              /\ summaries[i].worst \in Int /\ summaries[i].simplicity \in Int /\ i \in Int
            BY DEF Measured
        <2>2. key[i] = <<-summaries[i].auc, summaries[i].loss, summaries[i].brier,
                         -summaries[i].worst, summaries[i].simplicity, i>>
            BY DEF Key
        <2> QED
            BY <2>1, <2>2
    <1>2. key \in [among -> [1..6 -> Int]]
        BY <1>1
    <1>3. \A i, j \in among : key[i] = key[j] => i = j
        BY <1>1
    <1>4. /\ Orders(R, among)
          /\ \A i, j \in among : <<i, j>> \in R <=> Precedes(key[i], key[j])
        <2> HIDE DEF key
        <2> QED
            BY <1>2, <1>3, Lexicographic
    <1>5. ranked = Placed(R, among)
        <2>1. \A i \in among : Under(R, among, i)
                 = {j \in among : Precedes(Key(summaries[j], j), Key(summaries[i], i))}
            BY <1>4 DEF Under
        <2>2. ranked = [n \in 1..Cardinality(among) |-> CHOOSE i \in among :
                 Cardinality({j \in among :
                    Precedes(Key(summaries[j], j), Key(summaries[i], i))}) = n - 1]
            BY DEF Ranked, Sorted
        <2> HIDE DEF R, key
        <2>3. \A n : (CHOOSE i \in among :
                        Cardinality({j \in among :
                           Precedes(Key(summaries[j], j), Key(summaries[i], i))}) = n - 1)
                     = CHOOSE i \in among : Cardinality(Under(R, among, i)) = n - 1
            BY <2>1
        <2> QED
            BY <2>2, <2>3 DEF Placed
    <1> HIDE DEF R
    <1>6. SortedBy(ranked, among, R)
        BY <1>4, <1>5, PlacedSorted
    <1>7. Frame(ranked) /\ Len(ranked) = Cardinality(among)
        <2>1. ranked = [n \in 1..Cardinality(among) |-> ranked[n]]
            BY <1>5 DEF Placed
        <2>2. Cardinality(among) \in Nat
            BY <1>6 DEF SortedBy
        <2> HIDE DEF ranked
        <2> QED
            BY <2>1, <2>2, SequenceOf
    <1> HIDE DEF ranked
    <1>8. /\ Len(ranked) >= 1 /\ \A k \in 1..Len(ranked) : ranked[k] \in among
          /\ ranked[1] \in among
          /\ \A i \in among : i = ranked[1] \/ <<ranked[1], i>> \in R
        BY <1>6, <1>7 DEF SortedBy
    <1>9. ASSUME NEW i \in among PROVE summaries[i].auc <= summaries[ranked[1]].auc
        <2> DEFINE x == key[ranked[1]] y == key[i]
        <2>1. /\ x \in [1..6 -> Int] /\ y \in [1..6 -> Int]
              /\ x[1] = -summaries[ranked[1]].auc /\ y[1] = -summaries[i].auc
              /\ summaries[ranked[1]].auc \in Int /\ summaries[i].auc \in Int
            <3>1. summaries[ranked[1]].auc \in Int /\ summaries[i].auc \in Int
                BY <1>8 DEF Measured
            <3> HIDE DEF key
            <3> QED
                BY <1>1, <1>8, <3>1
        <2>2. ranked[1] # i => Precedes(x, y)
            BY <1>4, <1>8
        <2> HIDE DEF x, y
        <2>3. Precedes(x, y) => x[1] <= y[1]
            <3> SUFFICES ASSUME Precedes(x, y) PROVE x[1] <= y[1]
                OBVIOUS
            <3>1. PICK m \in 1..6 : x[m] < y[m] /\ \A j \in 1..(m - 1) : x[j] = y[j]
                BY <2>1 DEF Precedes
            <3>2. m = 1 \/ 1 \in 1..(m - 1)
                BY <3>1
            <3>3. x[1] \in Int /\ y[1] \in Int
                BY <2>1
            <3> QED
                BY <3>1, <3>2, <3>3
        <2> QED
            BY <2>1, <2>2, <2>3
    <1> QED
        BY <1>7, <1>8, <1>9 DEF ranked

\* What is preferred is ranked, and as good as the first.
LEMMA PreferredIsRanked ==
    ASSUME NEW summaries, NEW ranked, Frame(ranked), Len(ranked) >= 1,
           \A k \in 1..Len(ranked) :
              Measured(summaries[ranked[k]]) /\ summaries[ranked[k]].completed # {}
    PROVE  LET best == Preferred(summaries, ranked) IN
           /\ \E k \in 1..Len(ranked) : best = ranked[k]
           /\ Comparable(summaries[best], summaries[ranked[1]])
    <1> DEFINE near == {k \in DOMAIN ranked :
                          Comparable(summaries[ranked[k]], summaries[Head(ranked)])}
               key == [k \in near |-> <<summaries[ranked[k]].simplicity, k>>]
               R == Lower(key, near)
               First(k) == \A l \in near \ {k} : Precedes(<<summaries[ranked[k]].simplicity, k>>,
                                                          <<summaries[ranked[l]].simplicity, l>>)
    <1>1. Len(ranked) \in Nat /\ DOMAIN ranked = 1..Len(ranked) /\ Head(ranked) = ranked[1]
        BY FrameFacts DEF Frame
    <1>2. near \subseteq 1..Len(ranked) /\ IsFiniteSet(near)
        <2>1. IsFiniteSet(1..Len(ranked))
            BY <1>1, FS_Interval
        <2> QED
            BY <1>1, <2>1, FS_Subset
    <1>3. 1 \in near
        <2>1. 1 \in 1..Len(ranked)
            BY <1>1
        <2> DEFINE s == summaries[ranked[1]]
        <2>2. s.auc \in Int /\ s.loss \in Int /\ s.brier \in Int
            BY <2>1 DEF Measured
        <2>3. Tolerance \in Nat
            BY CampaignAssumption DEF CampaignAssumption
        <2> HIDE DEF s
        <2>4. Comparable(s, s)
            BY <2>2, <2>3 DEF Comparable, Near
        <2> QED
            BY <1>1, <2>1, <2>4 DEF s
    <1>4. ASSUME NEW k \in near
          PROVE  key[k] \in [1..2 -> Int] /\ key[k][2] = k
        <2>1. summaries[ranked[k]].simplicity \in Int /\ k \in Int
            BY <1>1, <1>2 DEF Measured
        <2> QED
            BY <2>1
    <1>5. /\ Orders(R, near)
          /\ \A k, l \in near : <<k, l>> \in R <=> Precedes(key[k], key[l])
        <2>1. key \in [near -> [1..2 -> Int]] /\ \A k, l \in near : key[k] = key[l] => k = l
            BY <1>4
        <2> HIDE DEF key
        <2> QED
            BY <2>1, Lexicographic
    <1>6. SortedBy(Placed(R, near), near, R)
        <2> HIDE DEF R, near
        <2> QED
            BY <1>2, <1>5, PlacedSorted
    <1>7. \E k \in near : First(k)
        <2> DEFINE first == Placed(R, near)[1]
        <2>1. first \in near /\ \A l \in near : l = first \/ <<first, l>> \in R
            <3> HIDE DEF R, near
            <3> QED
                BY <1>3, <1>6 DEF SortedBy
        <2>2. \A l \in near \ {first} : Precedes(key[first], key[l])
            BY <1>5, <2>1
        <2> HIDE DEF first
        <2>3. First(first)
            BY <2>1, <2>2
        <2> QED
            BY <2>1, <2>3
    <1>8. PICK k \in near : Preferred(summaries, ranked) = ranked[k]
        <2> DEFINE k == CHOOSE k \in near : First(k)
        <2>1. k \in near
            <3> HIDE DEF near, First
            <3> QED
                BY <1>7
        <2>2. Preferred(summaries, ranked) = ranked[k]
            BY DEF Preferred
        <2> HIDE DEF k
        <2> QED
            BY <2>1, <2>2
    <1> QED
        BY <1>1, <1>2, <1>8

---------------------------------------------------------------------------
(* What is ranked *)

Evaluated(summaries) ==
    Frame(summaries) /\ \A i \in 1..Len(summaries) : Measured(summaries[i])

\* What is ranked comes from evaluations of the candidates, in their order; the first
\* variant is the first of the ranking once more.
Weighed ==
    held.kind = "campaign" =>
      /\ held.indexes = {f.index : f \in held.folds}
      /\ held.indexes \subseteq 0..Len(study.of.parent.rows)
      /\ Evaluated(held.ablations) /\ 1..Len(held.ablations) \subseteq DOMAIN Ablations
      /\ Evaluated(held.models) /\ 1..Len(held.models) \subseteq DOMAIN Models
      /\ \A i \in 1..Len(held.models) : held.models[i].completed # {} =>
            held.models[i].auc
              = Discrimination(Candidate(held.features, i, "none"), held.models[i].completed)
      /\ Evaluated(held.variants)
      /\ held.stage \in {"initial", "ablations"} => held.models = <<>>
      /\ held.stage \in {"initial", "ablations", "models"} => held.variants = <<>>
      /\ held.stage \in {"models", "calibration", "results"} => held.features \in DOMAIN Ablations
      /\ held.stage \in {"calibration", "results"} =>
            /\ Len(held.models) >= 2
            /\ held.uncalibrated = Classification(held.models, held.models, held.indexes)
      /\ held.variants # <<>> =>
            /\ held.uncalibrated.ranked # <<>>
            /\ held.variants[1].completed # {} =>
                  held.variants[1].auc
                    = Discrimination(Candidate(held.features, Head(held.uncalibrated.ranked), "none"),
                                     held.variants[1].completed)
      /\ held.stage = "results" => held.variants # <<>> \/ held.uncalibrated.ranked = <<>>

\* The stored results name the ranking the variants were taken from.
RankingReported ==
    held.kind = "campaign" /\ held.stage = "results"
        /\ "classification_results" \in DOMAIN held.written =>
      held.written["classification_results"].uncalibrated = held.uncalibrated

---------------------------------------------------------------------------
(* Folds have indexes below the number of sessions. *)

LEMMA LabelCount ==
    ASSUME NEW batch, batch.rows \in MarketRows, NEW costs,
           NEW fs, KnownFeatures(fs.data),
           NEW ls \in build_forward_label_set(batch, costs), NEW d \in ResearchDataset(fs, ls)
    PROVE  Len(d.labels) \in Nat /\ Len(d.labels) <= Len(batch.rows)
    <1> DEFINE N == Len(batch.rows) M == Len(d.labels)
    <1>1. KnownLabels(ls.data) /\ Aligned(d) /\ N \in Nat /\ Len(ls.data) \in Nat
        BY LabelsKnown, ResearchDatasetAligned, MarketSessions, FrameFacts
        DEF KnownLabels, Rising
    <1>2. M \in Nat /\ Rising(d.labels) /\ ToSet(d.labels) = {d.labels[i] : i \in 1..M}
        BY <1>1, FrameFacts DEF Aligned, KnownLabels, Rising
    <1>3. ToSet(d.labels) \subseteq ToSet(ls.data)
        <2>1. d.labels = RowsAt(ls.data, Sessions(fs.data))
            BY DEF ResearchDataset
        <2> QED
            BY <1>1, <2>1, WhereRows DEF RowsAt, KnownLabels, Rising
    <1>4. \A r \in ToSet(ls.data) : \E j \in 1..N : batch.rows[j].session = r.session
        <2>1. {<<r.session, r.exit>> : r \in ToSet(ls.data)} =
                {<<batch.rows[i].session, batch.rows[i + EXIT_OFFSET_SESSIONS].session>> :
                    i \in 1..(N - EXIT_OFFSET_SESSIONS)}
            BY LabelsKnown
        <2>2. ASSUME NEW r \in ToSet(ls.data)
              PROVE \E j \in 1..N : batch.rows[j].session = r.session
            <3>1. PICK i \in 1..(N - EXIT_OFFSET_SESSIONS) :
                     <<r.session, r.exit>>
                       = <<batch.rows[i].session, batch.rows[i + EXIT_OFFSET_SESSIONS].session>>
                BY <2>1
            <3>2. i \in 1..N
                BY <1>1, WarmupNat
            <3> QED
                BY <3>1, <3>2
        <2> QED
            BY <2>2
    <1> DEFINE at == [i \in 1..M |-> CHOOSE j \in 1..N : batch.rows[j].session = d.labels[i].session]
    <1>5. \A i \in 1..M : at[i] \in 1..N /\ batch.rows[at[i]].session = d.labels[i].session
        <2>1. \A i \in 1..M : \E j \in 1..N : batch.rows[j].session = d.labels[i].session
            BY <1>2, <1>3, <1>4
        <2> HIDE DEF N, M
        <2> QED
            BY <2>1
    <1>6. \A i, k \in 1..M : at[i] = at[k] => i = k
        <2> SUFFICES ASSUME NEW i \in 1..M, NEW k \in 1..M, at[i] = at[k] PROVE i = k
            OBVIOUS
        <2>1. d.labels[i].session = d.labels[k].session
            BY <1>5
        <2>2. d.labels[i].session \in Nat
            BY <1>2 DEF Rising
        <2>3. ~(i < k) /\ ~(k < i)
            BY <1>2, <2>1, <2>2, RisingOrder
        <2> QED
            BY <1>2, <2>3
    <1> HIDE DEF N, M
    <1>7. at \in Injection(1..M, 1..N)
        <2>1. at \in [1..M -> 1..N]
            BY <1>5
        <2> HIDE DEF at
        <2> QED
            BY <1>6, <2>1, Fun_IsInj
    <1>8. /\ IsFiniteSet(1..N) /\ Cardinality(1..N) = N
          /\ IsFiniteSet(1..M) /\ Cardinality(1..M) = M
        <2>1. \A n \in Nat : /\ IsFiniteSet(1..n)
                             /\ Cardinality(1..n) = IF 1 > n THEN 0 ELSE n - 1 + 1
            BY FS_Interval
        <2>2. \A n \in Nat : IsFiniteSet(1..n) /\ Cardinality(1..n) = n
            BY <2>1
        <2> QED
            BY <1>1, <1>2, <2>2 DEF M, N
    <1>9. M <= N
        BY <1>7, <1>8, FS_Injection
    <1> QED
        BY <1>2, <1>9 DEF M, N

LEMMA FoldCount ==
    ASSUME NEW d, Aligned(d), NEW slice, NEW folds \in construct_walk_forward_manifest(d, slice)
    PROVE  {f.index : f \in folds} \subseteq 0..Len(d.labels)
    <1>1. folds = UNION {BuildFold(d, k) : k \in FoldIndexes(d)}
        BY DEF construct_walk_forward_manifest
    <1>2. ASSUME NEW k, NEW f \in BuildFold(d, k) PROVE f.index = k
        BY DEF BuildFold
    <1>3. FoldIndexes(d) \subseteq 0..Len(d.labels)
        BY DEF FoldIndexes
    <1> QED
        BY <1>1, <1>2, <1>3

LEMMA StartWeighed ==
    ASSUME StartCampaign
    PROVE  Weighed'
    <1>1. PICK s \in Studies, created \in Timestamps :
       /\ study'.of = s
       /\ \E boundary \in ExclusionBoundaries(s.parent) :
          LET slice == SliceMarketData(s.parent, boundary) IN
          \E fs \in ResearchFeatures(slice), ls \in build_forward_label_set(slice, CampaignCosts) :
          \E d \in ResearchDataset(fs, ls) :
          \E folds \in construct_walk_forward_manifest(d, slice) :
             /\ held'.kind = "campaign" /\ held'.stage = "initial" /\ held'.folds = folds
             /\ held'.indexes = {f.index : f \in folds} /\ held'.ablations = <<>>
             /\ held'.models = <<>> /\ held'.variants = <<>>
        BY DEF StartCampaign
    <1>2. PICK boundary \in ExclusionBoundaries(s.parent) :
          LET slice == SliceMarketData(s.parent, boundary) IN
          \E fs \in ResearchFeatures(slice), ls \in build_forward_label_set(slice, CampaignCosts) :
          \E d \in ResearchDataset(fs, ls) :
          \E folds \in construct_walk_forward_manifest(d, slice) :
             /\ held'.kind = "campaign" /\ held'.stage = "initial" /\ held'.folds = folds
             /\ held'.indexes = {f.index : f \in folds} /\ held'.ablations = <<>>
             /\ held'.models = <<>> /\ held'.variants = <<>>
        BY <1>1
    <1> DEFINE slice == SliceMarketData(s.parent, boundary)
    <1>a. PICK fs \in ResearchFeatures(slice), ls \in build_forward_label_set(slice, CampaignCosts) :
          \E d \in ResearchDataset(fs, ls) :
          \E folds \in construct_walk_forward_manifest(d, slice) :
             /\ held'.kind = "campaign" /\ held'.stage = "initial" /\ held'.folds = folds
             /\ held'.indexes = {f.index : f \in folds} /\ held'.ablations = <<>>
             /\ held'.models = <<>> /\ held'.variants = <<>>
        BY <1>2
    <1>b. PICK d \in ResearchDataset(fs, ls) :
          \E folds \in construct_walk_forward_manifest(d, slice) :
             /\ held'.kind = "campaign" /\ held'.stage = "initial" /\ held'.folds = folds
             /\ held'.indexes = {f.index : f \in folds} /\ held'.ablations = <<>>
             /\ held'.models = <<>> /\ held'.variants = <<>>
        BY <1>a
    <1>3. PICK folds \in construct_walk_forward_manifest(d, slice) :
             /\ held'.kind = "campaign" /\ held'.stage = "initial" /\ held'.folds = folds
             /\ held'.indexes = {f.index : f \in folds} /\ held'.ablations = <<>>
             /\ held'.models = <<>> /\ held'.variants = <<>>
        BY <1>b
    <1>4. slice.rows \in MarketRows /\ Len(slice.rows) \in Nat
          /\ Len(slice.rows) <= Len(s.parent.rows) /\ Len(s.parent.rows) \in Nat
        <2>1. s.parent.rows \in MarketRows
            BY CampaignAssumption DEF CampaignAssumption, MarketRows
        <2>2. EndsBefore(s.parent, boundary)
            BY <2>1, BoundaryEnds
        <2>3. slice.rows \in MarketRows /\ Len(slice.rows) = boundary.eligible
            BY <2>1, <2>2, SliceKnown
        <2> QED
            BY <2>1, <2>2, <2>3, MarketSessions DEF EndsBefore
    <1> HIDE DEF slice
    <1>5. KnownFeatures(fs.data) /\ KnownLabels(ls.data) /\ Aligned(d)
        BY <1>4, ResearchFeaturesKnown, LabelsKnown, ResearchDatasetAligned
    <1>6. {f.index : f \in folds} \subseteq 0..Len(s.parent.rows)
        <2>1. Len(d.labels) \in Nat /\ Len(d.labels) <= Len(slice.rows)
            BY <1>4, <1>5, LabelCount
        <2>2. {f.index : f \in folds} \subseteq 0..Len(d.labels)
            BY <1>5, FoldCount
        <2> DEFINE a == Len(d.labels) b == Len(slice.rows) c == Len(s.parent.rows)
        <2>3. a \in Nat /\ b \in Nat /\ c \in Nat /\ a <= b /\ b <= c
            BY <1>4, <2>1
        <2> HIDE DEF a, b, c
        <2>4. 0..a \subseteq 0..c
            BY <2>3
        <2> QED
            BY <2>2, <2>4 DEF a, c
    <1>7. /\ held'.indexes = {f.index : f \in held'.folds} /\ held'.folds = folds
          /\ held'.stage = "initial" /\ held'.ablations = <<>> /\ held'.models = <<>>
          /\ held'.variants = <<>>
        BY <1>3
    <1>8. Evaluated(<<>>) /\ Len(<<>>) = 0
        <2>1. <<>> \in Seq({}) /\ Len(<<>>) = 0
            OBVIOUS
        <2>2. Frame(<<>>)
            BY <2>1, FrameOf, Zenon
        <2>3. 1..Len(<<>>) = {}
            BY <2>1
        <2> QED
            BY <2>1, <2>2, <2>3, Zenon DEF Evaluated
    <1> QED
        BY <1>1, <1>6, <1>7, <1>8 DEF Weighed

---------------------------------------------------------------------------
(* The evaluations, the rankings and the decision *)

LEMMA OneMore ==
    ASSUME NEW s, Evaluated(s), NEW x, Measured(x)
    PROVE  LET t == Append(s, x) IN
           /\ Evaluated(t) /\ Len(t) = Len(s) + 1 /\ Len(s) \in Nat
           /\ t[Len(s) + 1] = x /\ \A i \in 1..Len(s) : t[i] = s[i]
    <1> DEFINE R == ToSet(s) \cup {x} n == Len(s) t == Append(s, x)
    <1>1. s \in Seq(ToSet(s)) /\ n \in Nat
        BY FrameFacts DEF Evaluated, Frame
    <1>2. ToSet(s) \subseteq R /\ x \in R
        OBVIOUS
    <1> HIDE DEF R
    <1>3. s \in Seq(R)
        BY <1>1, <1>2
    <1>4. /\ t \in Seq(R) /\ Len(t) = n + 1 /\ t[n + 1] = x
          /\ \A i \in 1..n : t[i] = s[i]
        BY <1>2, <1>3
    <1> HIDE DEF t, n
    <1>5. Frame(t)
        BY <1>4, FrameOf
    <1>6. ASSUME NEW i \in 1..Len(t) PROVE Measured(t[i])
        <2>1. i \in 1..n \/ i = n + 1
            BY <1>1, <1>4
        <2> QED
            BY <1>4, <2>1 DEF Evaluated, n
    <1> QED
        BY <1>1, <1>4, <1>5, <1>6 DEF Evaluated, t, n

\* The fields that the figures are in.
FigureFields == {"kind", "folds", "indexes", "ablations", "features", "models", "uncalibrated",
                 "variants"}

\* A step that evaluates and ranks nothing.
LEMMA SameFigures ==
    ASSUME Weighed, held.kind = "campaign", UNCHANGED study, \A x \in FigureFields : held'[x] = held[x],
           \/ held'.stage = held.stage
           \/ held.stage = "initial" /\ held'.stage = "ablations"
           \/ /\ held.stage = "calibration" /\ held'.stage = "results"
              /\ held.variants # <<>> \/ held.uncalibrated.ranked = <<>>
    PROVE  Weighed'
    <1>1. /\ held'.kind = held.kind /\ held'.folds = held.folds /\ held'.indexes = held.indexes
          /\ held'.ablations = held.ablations /\ held'.features = held.features
          /\ held'.models = held.models /\ held'.uncalibrated = held.uncalibrated
          /\ held'.variants = held.variants
        BY DEF FigureFields
    <1>2. \A candidate, completed :
             Discrimination(candidate, completed)' = Discrimination(candidate, completed)
        BY DEF Discrimination
    <1>3. \A models, folds : Classification(models, models, folds)' = Classification(models, models, folds)
        BY DEF Classification, PromotionAllowed
    <1> QED
        BY <1>1, <1>2, <1>3 DEF Weighed

LEMMA FoldsEvaluated ==
    ASSUME Weighed, held.kind = "campaign", DOMAIN held = Fields,
           NEW results \in {"ablations", "models", "variants"}, NEW candidate, NEW simplicity,
           EvaluateFolds(results, candidate, simplicity)
    PROVE  /\ UNCHANGED <<ran, study, directory>>
           /\ \A x \in Fields \ {results} : held'[x] = held[x]
           /\ DOMAIN held' = Fields
           /\ \E completed \in SUBSET (0..Len(study.of.parent.rows)) :
                held'[results] = Append(held[results], Summary(candidate, completed, simplicity))
    <1>1. PICK failed \in SUBSET held.indexes :
            LET completed == {f \in held.folds :
                                f.index \notin failed /\ FoldFits(candidate.method, f) # {}} IN
            /\ held' = [held EXCEPT ![results] =
                         Append(@, Summary(candidate, {f.index : f \in completed}, simplicity))]
            /\ UNCHANGED <<ran, study, directory>>
        <2>1. {} \in SUBSET held.indexes
            OBVIOUS
        <2> QED
            BY <2>1 DEF EvaluateFolds
    <1> DEFINE good == {f \in held.folds :
                          f.index \notin failed /\ FoldFits(candidate.method, f) # {}}
               completed == {f.index : f \in good}
    <1>2. completed \in SUBSET (0..Len(study.of.parent.rows))
        <2>1. completed \subseteq held.indexes
            BY DEF Weighed
        <2> HIDE DEF completed
        <2> QED
            BY <2>1 DEF Weighed
    <1>3. held' = [held EXCEPT ![results] =
                     Append(held[results], Summary(candidate, completed, simplicity))]
        BY <1>1
    <1> HIDE DEF completed
    <1>4. results \in DOMAIN held
        BY DEF Fields
    <1> QED
        BY <1>1, <1>2, <1>3, <1>4

LEMMA Sizes ==
    /\ \A i \in DOMAIN Ablations : Columns[i] \in Int
    /\ \A i \in DOMAIN Models : Complexity[i] \in Int
    /\ \A i \in 1..3 : Offset[i] \in Int /\ Methods[i] \in ToSet(Methods)
    /\ "none" \in ToSet(Methods) /\ Methods[1] = "none" /\ DOMAIN Methods = 1..3 /\ Len(Methods) = 3
    <1>1. /\ \A i \in DOMAIN Ablations : Columns[i] \in Int
          /\ \A i \in DOMAIN Models : Complexity[i] \in Int
        BY ScoreAssumption DEF ScoreAssumption
    <1>2. /\ Offset[1] = 0 /\ Offset[2] = 5 /\ Offset[3] = 10
          /\ Methods[1] = "none" /\ DOMAIN Methods = 1..3 /\ Len(Methods) = 3
        BY DEF Offset, Methods
    <1>3. \A i \in 1..3 : i = 1 \/ i = 2 \/ i = 3
        OBVIOUS
    <1> QED
        BY <1>1, <1>2, <1>3 DEF ToSet

LEMMA AblationWeighs ==
    ASSUME Weighed, study.of \in Studies, FieldsOK, EvaluateAblation
    PROVE  Weighed'
    <1> DEFINE i == Len(held.ablations) + 1
    <1>1. /\ held.kind = "campaign" /\ held.stage = "ablations" /\ DOMAIN held = Fields
          /\ i \in DOMAIN Ablations /\ EvaluateFolds("ablations", Candidate(i, 1, "none"), Columns[i])
        BY DEF EvaluateAblation, At, FieldsOK
    <1>2. PICK completed \in SUBSET (0..Len(study.of.parent.rows)) :
            held'.ablations
              = Append(held.ablations, Summary(Candidate(i, 1, "none"), completed, Columns[i]))
        BY <1>1, FoldsEvaluated
    <1>3. UNCHANGED study /\ \A x \in Fields \ {"ablations"} : held'[x] = held[x]
        BY <1>1, FoldsEvaluated
    <1>4. /\ held'.kind = held.kind /\ held'.folds = held.folds /\ held'.indexes = held.indexes
          /\ held'.features = held.features /\ held'.stage = held.stage
          /\ held'.models = held.models /\ held'.uncalibrated = held.uncalibrated
          /\ held'.variants = held.variants
        BY <1>3 DEF Fields
    <1>5. Measured(Summary(Candidate(i, 1, "none"), completed, Columns[i]))
        <2>1. 1 \in DOMAIN Models
            BY CampaignAssumption DEF CampaignAssumption
        <2> QED
            BY <1>1, <2>1, Sizes, SummarySound
    <1>6. /\ Evaluated(held'.ablations) /\ Len(held'.ablations) = i
          /\ Len(held.ablations) \in Nat
        BY <1>1, <1>2, <1>5, OneMore DEF Weighed
    <1>7. 1..Len(held'.ablations) \subseteq DOMAIN Ablations
        <2>1. \A j \in 1..i : j \in 1..Len(held.ablations) \/ j = i
            BY <1>6
        <2> QED
            BY <1>1, <1>6, <2>1 DEF Weighed
    <1>8. held'.models = <<>> /\ held'.variants = <<>> /\ held'.stage = "ablations"
        BY <1>1, <1>4 DEF Weighed
    <1>9. Evaluated(held'.models) /\ Evaluated(held'.variants)
        BY <1>1, <1>4 DEF Weighed
    <1> QED
        BY <1>1, <1>3, <1>4, <1>6, <1>7, <1>8, <1>9 DEF Weighed

LEMMA ModelWeighs ==
    ASSUME Weighed, study.of \in Studies, FieldsOK, EvaluateModel
    PROVE  Weighed'
    <1> DEFINE i == Len(held.models) + 1
               c == Candidate(held.features, i, "none")
               size == Complexity[i] + Columns[held.features]
    <1>1. /\ held.kind = "campaign" /\ held.stage = "models" /\ DOMAIN held = Fields
          /\ i \in DOMAIN Models /\ EvaluateFolds("models", c, size)
          /\ held.features \in DOMAIN Ablations
        BY DEF EvaluateModel, At, FieldsOK, Weighed
    <1>2. PICK completed \in SUBSET (0..Len(study.of.parent.rows)) :
            held'.models = Append(held.models, Summary(c, completed, size))
        BY <1>1, FoldsEvaluated
    <1>3. UNCHANGED study /\ \A x \in Fields \ {"models"} : held'[x] = held[x]
        BY <1>1, FoldsEvaluated
    <1>4. /\ held'.kind = held.kind /\ held'.folds = held.folds /\ held'.indexes = held.indexes
          /\ held'.features = held.features /\ held'.stage = held.stage
          /\ held'.ablations = held.ablations /\ held'.variants = held.variants
        BY <1>3 DEF Fields
    <1> DEFINE s == Summary(c, completed, size)
    <1>5. Measured(s) /\ s.completed = completed /\ (completed # {} => s.auc = Discrimination(c, completed))
        <2>1. size \in Int
            BY <1>1, Sizes
        <2> HIDE DEF size, i
        <2> QED
            BY <1>1, <2>1, Sizes, SummarySound
    <1> HIDE DEF s
    <1>6. /\ Evaluated(held'.models) /\ Len(held'.models) = i /\ Len(held.models) \in Nat
          /\ held'.models[i] = s /\ \A j \in 1..Len(held.models) : held'.models[j] = held.models[j]
        BY <1>1, <1>2, <1>5, OneMore DEF Weighed, s
    <1>7. \A j \in 1..i : j \in 1..Len(held.models) \/ j = i
        BY <1>6
    <1>8. 1..Len(held'.models) \subseteq DOMAIN Models
        BY <1>1, <1>6, <1>7 DEF Weighed
    <1>9. \A d, x : Discrimination(d, x)' = Discrimination(d, x)
        BY <1>3 DEF Discrimination
    <1>10. \A j \in 1..Len(held'.models) : held'.models[j].completed # {} =>
              held'.models[j].auc
                = Discrimination(Candidate(held.features, j, "none"), held'.models[j].completed)
        BY <1>1, <1>5, <1>6, <1>7 DEF Weighed
    <1>11. held'.variants = <<>> /\ held'.stage = "models" /\ Evaluated(held'.variants)
        BY <1>1, <1>4 DEF Weighed
    <1>12. Evaluated(held'.ablations) /\ 1..Len(held'.ablations) \subseteq DOMAIN Ablations
        BY <1>1, <1>4 DEF Weighed
    <1> HIDE DEF i, c, size
    <1> QED
        BY <1>1, <1>3, <1>4, <1>6, <1>8, <1>9, <1>10, <1>11, <1>12 DEF Weighed

\* The rankable candidates have metrics.
LEMMA RankableSound ==
    ASSUME NEW summaries, Evaluated(summaries)
    PROVE  /\ IsFiniteSet(Rankable(summaries)) /\ Rankable(summaries) \subseteq Int
           /\ \A i \in Rankable(summaries) :
                 /\ i \in 1..Len(summaries) /\ i \in DOMAIN summaries
                 /\ Measured(summaries[i]) /\ summaries[i].completed # {}
    <1>1. Len(summaries) \in Nat /\ DOMAIN summaries = 1..Len(summaries)
        BY FrameFacts DEF Evaluated
    <1>2. Rankable(summaries) \subseteq 1..Len(summaries)
        BY <1>1 DEF Rankable
    <1>3. IsFiniteSet(Rankable(summaries))
        <2> DEFINE n == Len(summaries)
        <2>1. n \in Nat /\ Rankable(summaries) \in SUBSET (1..n)
            BY <1>1, <1>2
        <2> HIDE DEF n
        <2>2. IsFiniteSet(1..n)
            BY <2>1, FS_Interval
        <2> QED
            BY <2>1, <2>2, FS_Subset
    <1>4. ASSUME NEW i \in Rankable(summaries) PROVE summaries[i].completed # {}
        <2>1. Cardinality(summaries[i].completed) >= MinimumFolds
            BY DEF Rankable
        <2>2. MinimumFolds \in Nat \ {0}
            BY CampaignAssumption DEF CampaignAssumption
        <2>3. Cardinality({}) = 0
            BY FS_EmptySet
        <2> QED
            BY <2>1, <2>2, <2>3
    <1> QED
        BY <1>1, <1>2, <1>3, <1>4 DEF Evaluated

\* A decision: nothing to rank, or the ranking begins with who discriminates best
\* and only the preferred candidate can be promoted.
LEMMA DecisionFollows ==
    ASSUME NEW summaries, Evaluated(summaries), NEW models, NEW folds
    PROVE  LET decision == Classification(summaries, models, folds)
               ranked == decision.ranked
           IN /\ ranked = <<>> <=> Rankable(summaries) = {}
              /\ Rankable(summaries) = {} => decision.promoted = {}
              /\ Rankable(summaries) # {} =>
                   /\ Frame(ranked) /\ Len(ranked) >= 1 /\ Head(ranked) = ranked[1]
                   /\ \A k \in 1..Len(ranked) : ranked[k] \in Rankable(summaries)
                   /\ Head(ranked) \in Rankable(summaries)
                   /\ \A i \in Rankable(summaries) : summaries[i].auc <= summaries[Head(ranked)].auc
                   /\ \A i \in decision.promoted :
                        /\ i = Preferred(summaries, ranked)
                        /\ PromotionAllowed(summaries[i], models, folds)
    <1> DEFINE decision == Classification(summaries, models, folds)
               ranked == Ranked(summaries, Rankable(summaries))
    <1>1. CASE Rankable(summaries) = {}
        <2>1. decision = [ranked |-> <<>>, promoted |-> {}]
            BY <1>1 DEF Classification
        <2> QED
            BY <1>1, <2>1
    <1>2. CASE Rankable(summaries) # {}
        <2>1. /\ decision.ranked = ranked
              /\ decision.promoted = {i \in {Preferred(summaries, ranked)} :
                                         PromotionAllowed(summaries[i], models, folds)}
            BY <1>2 DEF Classification
        <2>2. /\ Frame(ranked) /\ Len(ranked) >= 1
              /\ \A k \in 1..Len(ranked) : ranked[k] \in Rankable(summaries)
              /\ \A i \in Rankable(summaries) : summaries[i].auc <= summaries[ranked[1]].auc
            BY <1>2, RankableSound, RankedFirst
        <2> HIDE DEF ranked, decision
        <2>3. Len(ranked) \in Nat /\ ranked # <<>> /\ Head(ranked) = ranked[1] /\ 1 \in 1..Len(ranked)
            BY <2>2, FrameFacts DEF Frame
        <2> QED
            BY <1>2, <2>1, <2>2, <2>3 DEF decision
    <1> QED
        BY <1>1, <1>2

LEMMA SelectionWeighs ==
    ASSUME Weighed, FieldsOK, SelectFeatures, ~End
    PROVE  Weighed'
    <1> DEFINE D == DOMAIN held.ablations
               ranked == Ranked(held.ablations, D)
               choice == Preferred(held.ablations, ranked)
    <1>1. /\ held.kind = "campaign" /\ held.stage = "ablations" /\ DOMAIN held = Fields
          /\ Len(held.ablations) = Len(Ablations) /\ UNCHANGED study
          /\ \A i \in D : held.ablations[i].completed # {}
          /\ held' = [held EXCEPT !.stage = "models", !.features = choice]
        BY DEF SelectFeatures, At, FieldsOK
    <1>2. /\ Evaluated(held.ablations) /\ D = 1..Len(held.ablations) /\ Len(held.ablations) \in Nat
          /\ D \subseteq DOMAIN Ablations /\ \A i \in D : Measured(held.ablations[i])
        BY <1>1, FrameFacts DEF Weighed, Evaluated
    <1>3. IsFiniteSet(D) /\ D # {} /\ D \subseteq Int
        <2> DEFINE n == Len(held.ablations)
        <2>1. n \in Nat /\ n >= 1 /\ D = 1..n
            BY <1>1, <1>2, CampaignAssumption DEF CampaignAssumption
        <2> HIDE DEF n, D
        <2>2. IsFiniteSet(1..n)
            BY <2>1, FS_Interval
        <2> QED
            BY <2>1, <2>2
    <1> HIDE DEF D
    <1>4. Frame(ranked) /\ Len(ranked) >= 1 /\ \A k \in 1..Len(ranked) : ranked[k] \in D
        BY <1>1, <1>2, <1>3, RankedFirst
    <1> HIDE DEF ranked
    <1>5. choice \in DOMAIN Ablations
        <2>1. \E k \in 1..Len(ranked) : choice = ranked[k]
            BY <1>1, <1>2, <1>4, PreferredIsRanked
        <2> HIDE DEF choice
        <2> QED
            BY <1>2, <1>4, <2>1
    <1> HIDE DEF choice
    <1>6. /\ held'.kind = held.kind /\ held'.folds = held.folds /\ held'.indexes = held.indexes
          /\ held'.features = choice /\ held'.stage = "models"
          /\ held'.ablations = held.ablations /\ held'.variants = held.variants
          /\ held'.models = held.models
        BY <1>1 DEF Fields
    <1>7. held'.models = <<>> /\ held'.variants = <<>> /\ Len(held'.models) = 0
        BY <1>1, <1>6 DEF Weighed
    <1> QED
        BY <1>1, <1>5, <1>6, <1>7 DEF Weighed

LEMMA RankingWeighs ==
    ASSUME Weighed, FieldsOK, RankModels
    PROVE  Weighed'
    <1> DEFINE ranking == Classification(held.models, held.models, held.indexes)
    <1>1. /\ held.kind = "campaign" /\ held.stage = "models" /\ DOMAIN held = Fields
          /\ UNCHANGED study /\ Len(held.models) >= 2
          /\ held' = [held EXCEPT !.stage = "calibration", !.uncalibrated = ranking]
        BY CampaignAssumption DEF RankModels, At, FieldsOK, CampaignAssumption
    <1> HIDE DEF ranking
    <1>2. /\ held'.kind = held.kind /\ held'.folds = held.folds /\ held'.indexes = held.indexes
          /\ held'.features = held.features /\ held'.stage = "calibration"
          /\ held'.ablations = held.ablations /\ held'.variants = held.variants
          /\ held'.models = held.models /\ held'.uncalibrated = ranking
        BY <1>1 DEF Fields
    <1>3. \A d, x : Discrimination(d, x)' = Discrimination(d, x)
        BY <1>1 DEF Discrimination
    <1>4. ranking = Classification(held'.models, held'.models, held'.indexes)
        BY <1>2 DEF ranking
    <1>5. \A models, folds : Classification(models, models, folds)' = Classification(models, models, folds)
        BY <1>1 DEF Classification, PromotionAllowed
    <1>6. held'.variants = <<>>
        BY <1>1, <1>2 DEF Weighed
    <1>7. held'.uncalibrated = Classification(held.models, held.models, held.indexes)'
        BY <1>2, <1>5 DEF ranking
    <1> QED
        BY <1>1, <1>2, <1>3, <1>6, <1>7 DEF Weighed

LEMMA VariantWeighs ==
    ASSUME Weighed, study.of \in Studies, FieldsOK, EvaluateVariant
    PROVE  Weighed'
    <1> DEFINE i == Len(held.variants) + 1
               top == Head(held.uncalibrated.ranked)
               c == Candidate(held.features, top, Methods[i])
               size == Complexity[top] + Columns[held.features] + Offset[i]
    <1>1. /\ held.kind = "campaign" /\ held.stage = "calibration" /\ DOMAIN held = Fields
          /\ held.uncalibrated.ranked # <<>> /\ i \in 1..3 /\ EvaluateFolds("variants", c, size)
          /\ held.features \in DOMAIN Ablations
        BY Sizes DEF EvaluateVariant, At, FieldsOK, Weighed
    <1>2. PICK completed \in SUBSET (0..Len(study.of.parent.rows)) :
            held'.variants = Append(held.variants, Summary(c, completed, size))
        BY <1>1, FoldsEvaluated
    <1>3. UNCHANGED study /\ \A x \in Fields \ {"variants"} : held'[x] = held[x]
        BY <1>1, FoldsEvaluated
    <1>4. /\ held'.kind = held.kind /\ held'.folds = held.folds /\ held'.indexes = held.indexes
          /\ held'.features = held.features /\ held'.stage = held.stage
          /\ held'.ablations = held.ablations /\ held'.models = held.models
          /\ held'.uncalibrated = held.uncalibrated
        BY <1>3 DEF Fields
    <1>5. top \in DOMAIN Models
        <2>1. held.uncalibrated = Classification(held.models, held.models, held.indexes)
              /\ Evaluated(held.models) /\ 1..Len(held.models) \subseteq DOMAIN Models
            BY <1>1 DEF Weighed
        <2>2. Rankable(held.models) # {}
            BY <1>1, <2>1, DecisionFollows
        <2>3. top \in Rankable(held.models)
            BY <2>1, <2>2, DecisionFollows
        <2>4. top \in 1..Len(held.models)
            BY <2>1, <2>3, RankableSound
        <2> QED
            BY <2>1, <2>4
    <1> DEFINE s == Summary(c, completed, size)
    <1>6. Measured(s) /\ s.completed = completed /\ (completed # {} => s.auc = Discrimination(c, completed))
        <2>1. size \in Int
            <3>1. Complexity[top] \in Int
                BY <1>5, Sizes
            <3>2. Columns[held.features] \in Int
                BY <1>1, Sizes
            <3>3. Offset[i] \in Int
                BY <1>1, Sizes
            <3> HIDE DEF top, i
            <3> QED
                BY <3>1, <3>2, <3>3
        <2>2. Methods[i] \in ToSet(Methods)
            BY <1>1, Sizes
        <2>3. held.features \in DOMAIN Ablations
            BY <1>1
        <2> DEFINE method == Methods[i]
        <2>4. method \in ToSet(Methods) /\ c = Candidate(held.features, top, method)
            BY <2>2
        <2> HIDE DEF size, i, top, method, c
        <2> QED
            BY <1>5, <2>1, <2>3, <2>4, SummarySound
    <1> HIDE DEF s
    <1>7. /\ Evaluated(held'.variants) /\ Len(held'.variants) = i /\ Len(held.variants) \in Nat
          /\ held'.variants[i] = s
          /\ \A j \in 1..Len(held.variants) : held'.variants[j] = held.variants[j]
        <2>1. Evaluated(held.variants)
            BY <1>1 DEF Weighed
        <2>2. held'.variants = Append(held.variants, s)
            BY <1>2 DEF s
        <2> HIDE DEF c, size
        <2> QED
            BY <1>6, <2>1, <2>2, OneMore
    <1>8. \A d, x : Discrimination(d, x)' = Discrimination(d, x)
        BY <1>3 DEF Discrimination
    <1>9. held'.variants[1].completed # {} =>
              held'.variants[1].auc
                = Discrimination(Candidate(held.features, top, "none"), held'.variants[1].completed)
        <2>1. CASE held.variants = <<>>
            <3>1. i = 1 /\ c = Candidate(held.features, top, "none")
                BY <2>1, Sizes
            <3> QED
                BY <1>6, <1>7, <3>1
        <2>2. CASE held.variants # <<>>
            <3>1. 1 \in 1..Len(held.variants)
                BY <1>1, <1>7, <2>2, FrameFacts DEF Weighed, Evaluated
            <3> QED
                BY <1>1, <1>7, <2>2, <3>1 DEF Weighed
        <2> QED
            BY <2>1, <2>2
    <1>10. held'.uncalibrated = Classification(held.models, held.models, held.indexes)'
        <2>1. \A models, folds :
                 Classification(models, models, folds)' = Classification(models, models, folds)
            BY <1>3 DEF Classification, PromotionAllowed
        <2> QED
            BY <1>1, <1>4, <2>1 DEF Weighed
    <1>11. /\ Evaluated(held'.ablations) /\ 1..Len(held'.ablations) \subseteq DOMAIN Ablations
           /\ Evaluated(held'.models) /\ 1..Len(held'.models) \subseteq DOMAIN Models
           /\ Len(held'.models) >= 2
        BY <1>1, <1>4 DEF Weighed
    <1>12. \A j \in 1..Len(held'.models) : held'.models[j].completed # {} =>
              held'.models[j].auc
                = Discrimination(Candidate(held.features, j, "none"), held'.models[j].completed)
        BY <1>1, <1>4 DEF Weighed
    <1> HIDE DEF i, c, size
    <1> QED
        BY <1>1, <1>3, <1>4, <1>7, <1>8, <1>9, <1>10, <1>11, <1>12 DEF Weighed

LEMMA DecideWeighs ==
    ASSUME Weighed, FieldsOK, Decide
    PROVE  Weighed'
    <1> DEFINE decision == FinalSelection(held.models, held.variants, held.indexes)
    <1>1. /\ held.kind = "campaign" /\ held.stage = "calibration" /\ DOMAIN held = Fields
          /\ UNCHANGED study
          /\ held.uncalibrated.ranked = <<>> \/ Len(held.variants) = Len(Methods)
          /\ held' = [held EXCEPT !.stage = "results", !.final = decision]
        BY DEF Decide, At, FieldsOK
    <1> HIDE DEF decision
    <1>2. held'.stage = "results" /\ \A x \in FigureFields : held'[x] = held[x]
        BY <1>1 DEF Fields, FigureFields
    <1>3. held.variants # <<>> \/ held.uncalibrated.ranked = <<>>
        BY <1>1, Sizes
    <1> QED
        BY <1>1, <1>2, <1>3, SameFigures

\* What PromotionIsEarned says of the figures in the artifacts.
Earned(models, variants, uncalibrated, promoted) ==
    \A i \in promoted :
        /\ \A auc \in BaselineAuc(models) : variants[i].auc >= auc + 2 * MaterialDelta
        /\ variants[1].completed = models[Head(uncalibrated.ranked)].completed =>
              \A k \in Rankable(models) : models[k].auc <= variants[i].auc + 2 * Tolerance

\* The decision compares the calibrations of one model only.  But that model
\* discriminates best, its uncalibrated rerun on the same folds equals it, and who
\* is preferred among the variants is near the first of them.
LEMMA DecisionEarned ==
    ASSUME Weighed, Decided, At("results")
    PROVE  Earned(held.models, held.variants, held.uncalibrated, held.final.promoted)
    <1> DEFINE models == held.models variants == held.variants folds == held.indexes
               top == Head(held.uncalibrated.ranked)
    <1>1. /\ Evaluated(models) /\ Evaluated(variants) /\ Len(models) >= 2
          /\ held.uncalibrated = Classification(models, models, folds)
          /\ held.final = FinalSelection(models, variants, folds)
          /\ variants # <<>> \/ held.uncalibrated.ranked = <<>>
        BY DEF Weighed, Decided, At
    <1> SUFFICES ASSUME NEW i \in held.final.promoted
                 PROVE  /\ \A auc \in BaselineAuc(models) : variants[i].auc >= auc + 2 * MaterialDelta
                        /\ variants[1].completed = models[top].completed =>
                             \A k \in Rankable(models) : models[k].auc <= variants[i].auc + 2 * Tolerance
        BY DEF Earned
    <1>2. variants # <<>>
        <2> SUFFICES ASSUME variants = <<>> PROVE FALSE
            OBVIOUS
        <2>1. Rankable(models) = {}
            BY <1>1, DecisionFollows
        <2>2. held.final = Classification(models, models, folds)
            BY <1>1 DEF FinalSelection
        <2>3. held.final.promoted = {}
            BY <1>1, <2>1, <2>2, DecisionFollows
        <2> QED
            BY <2>3
    <1> DEFINE final == Classification(variants, models, folds)
               ranked == final.ranked
    <1>3. i \in final.promoted
        BY <1>1, <1>2 DEF FinalSelection
    <1>4. Rankable(variants) # {}
        BY <1>1, <1>3, DecisionFollows
    <1>5. /\ Frame(ranked) /\ Len(ranked) >= 1 /\ Head(ranked) = ranked[1]
          /\ \A k \in 1..Len(ranked) : ranked[k] \in Rankable(variants)
          /\ \A k \in Rankable(variants) : variants[k].auc <= variants[ranked[1]].auc
          /\ i = Preferred(variants, ranked)
          /\ PromotionAllowed(variants[i], models, folds)
        BY <1>1, <1>3, <1>4, DecisionFollows
    <1> HIDE DEF final
    <1>6. \A k \in Rankable(variants) : Measured(variants[k]) /\ variants[k].completed # {}
        BY <1>1, RankableSound
    <1>7. /\ \E k \in 1..Len(ranked) : i = ranked[k]
          /\ Comparable(variants[i], variants[ranked[1]])
        <2> HIDE DEF ranked, variants
        <2> QED
            BY <1>5, <1>6, PreferredIsRanked
    <1>8. variants[i].auc \in Int /\ variants[ranked[1]].auc \in Int
        <2>1. 1 \in 1..Len(ranked)
            BY <1>5, FrameFacts
        <2>2. i \in Rankable(variants) /\ ranked[1] \in Rankable(variants)
            BY <1>5, <1>7, <2>1
        <2> HIDE DEF ranked, variants
        <2> QED
            BY <1>6, <2>2 DEF Measured
    <1>9. MaterialDelta \in Int /\ Tolerance \in Int
        BY CampaignAssumption DEF CampaignAssumption
    <1>10. ASSUME NEW auc \in BaselineAuc(models)
           PROVE variants[i].auc >= auc + 2 * MaterialDelta
        <2>1. PICK k \in 1..2 : models[k].completed # {} /\ auc = models[k].auc
            BY DEF BaselineAuc
        <2>2. k \in 1..Len(models)
            <3>1. Len(models) \in Nat
                BY <1>1, FrameFacts DEF Evaluated
            <3> HIDE DEF models
            <3> QED
                BY <1>1, <3>1
        <2>3. auc \in Int
            BY <1>1, <2>1, <2>2 DEF Evaluated, Measured
        <2>4. variants[i].auc - auc >= 2 * MaterialDelta
            BY <1>5 DEF PromotionAllowed
        <2> HIDE DEF variants, models
        <2> QED
            BY <1>8, <1>9, <2>3, <2>4
    <1>11. ASSUME variants[1].completed = models[top].completed, NEW k \in Rankable(models)
           PROVE  models[k].auc <= variants[i].auc + 2 * Tolerance
        <2>1. /\ top \in Rankable(models)
              /\ \A j \in Rankable(models) : models[j].auc <= models[top].auc
            BY <1>1, <1>11, DecisionFollows
        <2>2. /\ top \in 1..Len(models) /\ models[top].completed # {}
              /\ Measured(models[top]) /\ Measured(models[k]) /\ models[k].completed # {}
            BY <1>1, <2>1, <1>11, RankableSound
        <2>3. models[top].auc \in Int /\ models[k].auc \in Int /\ models[k].auc <= models[top].auc
            <3>1. models[k].auc <= models[top].auc
                BY <1>11, <2>1
            <3> HIDE DEF models, top
            <3> QED
                BY <2>2, <3>1 DEF Measured
        <2>4. models[top].auc
                = Discrimination(Candidate(held.features, top, "none"), models[top].completed)
            BY <2>2 DEF Weighed, At
        <2>5. variants[1].auc
                = Discrimination(Candidate(held.features, top, "none"), variants[1].completed)
            BY <1>2, <1>11, <2>2 DEF Weighed, At
        <2>6. variants[1].auc = models[top].auc
            BY <1>11, <2>4, <2>5
        <2>7. 1 \in Rankable(variants)
            <3>1. 1 \in DOMAIN variants
                BY <1>1, <1>2, FrameFacts DEF Evaluated
            <3>2. Cardinality(models[top].completed) >= MinimumFolds
                BY <2>1 DEF Rankable
            <3> QED
                BY <1>11, <3>1, <3>2 DEF Rankable
        <2>8. variants[1].auc <= variants[ranked[1]].auc
            BY <1>5, <2>7
        <2>9. variants[i].auc - variants[ranked[1]].auc \in -(2 * Tolerance)..(2 * Tolerance)
            BY <1>7 DEF Comparable, Near
        <2> HIDE DEF variants, models, ranked, top
        <2> QED
            BY <1>8, <1>9, <2>3, <2>6, <2>8, <2>9
    <1> QED
        BY <1>10, <1>11

---------------------------------------------------------------------------
(* Every step *)

\* Who evaluates or ranks, or reads the index, keeps what is stored.
RankingInv == Weighed /\ RankingReported /\ PromotionIsEarned

LEMMA SameArtifacts ==
    ASSUME PromotionIsEarned, UNCHANGED directory
    PROVE  PromotionIsEarned'
    BY DEF PromotionIsEarned, Stored, BaselineAuc, Rankable

LEMMA EndWeighs ==
    ASSUME PromotionIsEarned, End, UNCHANGED directory
    PROVE  RankingInv'
    <1>1. held'.kind = "nothing"
        BY DEF End, Nothing
    <1> QED
        BY <1>1, SameArtifacts DEF RankingInv, Weighed, RankingReported

\* One candidate over its folds.
LEMMA CandidateWeighs ==
    ASSUME EvidenceInv, DataInv, RankingInv, EvaluateAblation \/ EvaluateModel \/ EvaluateVariant
    PROVE  RankingInv'
    <1>1. /\ held.kind = "campaign" /\ held.stage \in {"ablations", "models", "calibration"}
          /\ DOMAIN held = Fields /\ FieldsOK /\ study.of \in Studies /\ Weighed
        BY DEF EvaluateAblation, EvaluateModel, EvaluateVariant, At, EvidenceInv, FieldsOK, DataInv,
           ApartOK, RankingInv
    <1>2. Weighed'
        BY <1>1, AblationWeighs, ModelWeighs, VariantWeighs
    <1>3. PICK results \in {"ablations", "models", "variants"} :
             \E candidate, simplicity : EvaluateFolds(results, candidate, simplicity)
        BY DEF EvaluateAblation, EvaluateModel, EvaluateVariant
    <1>4. UNCHANGED directory /\ \A x \in Fields \ {results} : held'[x] = held[x]
        BY <1>1, <1>3, FoldsEvaluated
    <1>5. held'.stage = held.stage
        BY <1>4 DEF Fields
    <1>6. RankingReported'
        BY <1>1, <1>5 DEF RankingReported
    <1> QED
        BY <1>2, <1>4, <1>6, SameArtifacts DEF RankingInv

\* A selection, a ranking, the decision: no result has been written yet.
LEMMA ComparisonWeighs ==
    ASSUME EvidenceInv, RankingInv, SelectFeatures \/ RankModels \/ Decide
    PROVE  RankingInv'
    <1>1. /\ held.kind = "campaign" /\ held.stage \in {"ablations", "models", "calibration"}
          /\ DOMAIN held = Fields /\ FieldsOK /\ Weighed /\ PromotionIsEarned /\ UNCHANGED directory
        BY DEF SelectFeatures, RankModels, Decide, At, EvidenceInv, FieldsOK, RankingInv
    <1>2. CASE End
        BY <1>1, <1>2, EndWeighs
    <1>3. CASE ~End
        <2>1. Weighed'
            BY <1>1, <1>3, SelectionWeighs, RankingWeighs, DecideWeighs
        <2>2. held'.written = held.written
            <3>1. \/ \E choice : held' = [held EXCEPT !.stage = "models", !.features = choice]
                  \/ \E ranking : held' = [held EXCEPT !.stage = "calibration", !.uncalibrated = ranking]
                  \/ \E decision : held' = [held EXCEPT !.stage = "results", !.final = decision]
                BY <1>3 DEF SelectFeatures, RankModels, Decide
            <3> QED
                BY <1>1, <3>1 DEF Fields
        <2>3. "classification_results" \notin DOMAIN held.written
            <3>1. DOMAIN held.written = Names(4)
                BY <1>1 DEF EvidenceInv, InOrder
            <3> QED
                BY <3>1, ArtifactNames, NamesDiffer DEF Names
        <2>4. RankingReported'
            BY <2>2, <2>3 DEF RankingReported
        <2> QED
            BY <1>1, <2>1, <2>4, SameArtifacts DEF RankingInv
    <1> QED
        BY <1>2, <1>3

\* Who writes the index has earned what the stored selection promotes.
LEMMA PromotionEarned ==
    ASSUME EvidenceInv, RankingInv, At("initial") \/ At("results"), NEW n \in 0..9,
           DOMAIN held.written = Names(n), held.stage = "initial" => n < 4,
           \/ UNCHANGED directory
           \/ /\ Artifacts[n + 1] \notin DOMAIN directory
              /\ directory' = Adding(directory, Artifacts[n + 1], Content(Artifacts[n + 1]))
    PROVE  PromotionIsEarned'
    <1> DEFINE name == Artifacts[n + 1]
    <1>1. name \in ToSet(Artifacts) /\ Index \in ToSet(Artifacts)
        BY AllNames, ArtifactNames DEF Names
    <1>2. CASE UNCHANGED directory
        BY <1>2, SameArtifacts DEF RankingInv
    <1>3. CASE Stored(Index)
        <2>1. name \in DOMAIN directory
            BY <1>1, <1>3 DEF EvidenceInv, IndexedEvidenceReplays, Stored, Index
        <2> QED
            BY <2>1, <1>2
    <1>4. CASE /\ ~Stored(Index) /\ name # Index
               /\ directory' = Adding(directory, name, Content(name))
        <2>1. ~Stored(Index)'
            BY <1>4 DEF Stored, Adding
        <2> QED
            BY <2>1 DEF PromotionIsEarned, Index
    <1>5. CASE /\ ~Stored(Index) /\ name = Index
               /\ directory' = Adding(directory, name, Content(name))
        <2>1. n = 9 /\ At("results")
            BY <1>5, NamesDiffer, ArtifactNames DEF At
        <2>2. \A a \in DOMAIN held.written : a # Index => directory'[a] = held.written[a]
            BY <1>5, <2>1 DEF EvidenceInv, AsStored, Adding, At
        <2>3. /\ {"classification_results", "calibration_results"} \subseteq DOMAIN held.written
              /\ Index \notin {"classification_results", "calibration_results"}
            BY <2>1, ArtifactNames DEF Names, Index
        <2>4. /\ directory'["classification_results"].models = held.models
              /\ directory'["classification_results"].uncalibrated = held.uncalibrated
              /\ directory'["calibration_results"] = held.variants
              /\ directory'["classification_results"].final = held.final
            BY <2>1, <2>2, <2>3 DEF EvidenceInv, Decided, RankingInv, RankingReported, At
        <2>5. Earned(held.models, held.variants, held.uncalibrated, held.final.promoted)
            BY <2>1, DecisionEarned DEF EvidenceInv, RankingInv
        <2>6. LET results == directory'["classification_results"] IN
              Earned(results.models, directory'["calibration_results"], results.uncalibrated,
                     results.final.promoted)
            BY <2>4, <2>5
        <2> QED
            BY <2>6 DEF PromotionIsEarned, Earned, BaselineAuc, Rankable
    <1> QED
        BY <1>2, <1>3, <1>4, <1>5

LEMMA WriteWeighs ==
    ASSUME EvidenceInv, RankingInv, WriteArtifact
    PROVE  RankingInv'
    <1>1. /\ held.kind = "campaign" /\ DOMAIN held = Fields /\ UNCHANGED study
          /\ Weighed /\ RankingReported /\ PromotionIsEarned
        BY DEF WriteArtifact, At, EvidenceInv, FieldsOK, RankingInv
    <1>2. At("initial") \/ At("results")
        BY DEF WriteArtifact
    <1>3. PICK n \in 0..9 : /\ DOMAIN held.written = Names(n)
                            /\ Artifacts[Cardinality(DOMAIN held.written) + 1] = Artifacts[n + 1]
                            /\ held.stage = "initial" => n < 4
                            /\ held.stage = "results" => n >= 4
        BY <1>2, NextName
    <1> DEFINE name == Artifacts[n + 1] content == Content(name)
    <1>4. \/ End /\ UNCHANGED directory
          \/ /\ UNCHANGED directory \/ /\ name \notin DOMAIN directory
                                       /\ directory' = Adding(directory, name, content)
             /\ Written(name, content)
        BY <1>3 DEF WriteArtifact
    <1>5. PromotionIsEarned'
        BY <1>2, <1>3, <1>4, PromotionEarned
    <1>6. CASE End
        <2>1. held'.kind = "nothing"
            BY <1>6 DEF End, Nothing
        <2> QED
            BY <1>5, <2>1 DEF RankingInv, Weighed, RankingReported
    <1>7. CASE Written(name, content) /\ name # Index
        <2>1. held' = [held EXCEPT !.written = Adding(held.written, name, content),
                                   !.stage = IF name = "model_registry" THEN "ablations" ELSE @]
            BY <1>7 DEF Written, Index
        <2>2. /\ held'.written = Adding(held.written, name, content)
              /\ held'.stage = IF name = "model_registry" THEN "ablations" ELSE held.stage
              /\ \A x \in Fields \ {"written", "stage"} : held'[x] = held[x]
            BY <1>1, <2>1 DEF Fields
        <2>3. name = "model_registry" => held.stage = "initial"
            BY <1>2, <1>3, NamesDiffer, ArtifactNames DEF At
        <2>4. Weighed'
            <3>1. \A x \in FigureFields : held'[x] = held[x]
                BY <2>2 DEF Fields, FigureFields
            <3>2. held.kind = "campaign" /\ Weighed /\ UNCHANGED study
                BY <1>1
            <3>3. CASE held'.stage = held.stage
                BY <3>1, <3>2, <3>3, SameFigures
            <3>4. CASE held.stage = "initial" /\ held'.stage = "ablations"
                BY <3>1, <3>2, <3>4, SameFigures
            <3> QED
                BY <2>2, <2>3, <3>3, <3>4
        <2>5. RankingReported'
            <3>1. CASE held'.stage = "results"
                <4>1. held.stage = "results" /\ held'.uncalibrated = held.uncalibrated
                    BY <2>2, <3>1 DEF Fields
                <4>2. content = Content(name)
                    OBVIOUS
                <4>3. Content("classification_results").uncalibrated = held.uncalibrated
                    BY DEF Content
                <4> HIDE DEF content, name
                <4>4. "classification_results" \in DOMAIN held'.written =>
                         held'.written["classification_results"].uncalibrated = held.uncalibrated
                    BY <1>1, <2>2, <4>1, <4>2, <4>3 DEF RankingReported, Adding
                <4> QED
                    BY <4>1, <4>4 DEF RankingReported
            <3>2. CASE held'.stage # "results"
                BY <3>2 DEF RankingReported
            <3> QED
                BY <3>1, <3>2
        <2> QED
            BY <1>5, <2>4, <2>5 DEF RankingInv
    <1>8. Written(name, content) /\ name = Index => End
        BY DEF Written, Index
    <1> QED
        BY <1>4, <1>6, <1>7, <1>8

LEMMA RankingInit == CampaignInit => RankingInv
    BY DEF CampaignInit, Init, Nothing, RankingInv, Weighed, RankingReported, PromotionIsEarned,
       Stored

LEMMA RankingNext ==
    RuntimeOfLock /\ EvidenceInv /\ DataInv /\ RankingInv /\ [CampaignNext]_campaignVars
      => RankingInv'
    <1> SUFFICES ASSUME RuntimeOfLock, EvidenceInv, DataInv, RankingInv,
                        [CampaignNext]_campaignVars
                 PROVE  RankingInv'
        OBVIOUS
    <1>1. CASE Chain
        <2>1. held'.kind # "campaign" /\ UNCHANGED directory
            BY <1>1, ChainStep DEF Chain, EvidenceInv, Fresh
        <2> QED
            BY <2>1, SameArtifacts DEF RankingInv, Weighed, RankingReported
    <1>2. CASE StartCampaign
        <2>1. Weighed'
            BY <1>2, StartWeighed
        <2>2. held'.stage = "initial" /\ UNCHANGED directory
            BY <1>2 DEF StartCampaign
        <2> QED
            BY <2>1, <2>2, SameArtifacts DEF RankingInv, RankingReported
    <1>3. CASE EvaluateAblation \/ EvaluateModel \/ EvaluateVariant
        BY <1>3, CandidateWeighs
    <1>4. CASE SelectFeatures \/ RankModels \/ Decide
        BY <1>4, ComparisonWeighs
    <1>5. CASE WriteArtifact
        BY <1>5, WriteWeighs
    <1>6. CASE Interrupt
        BY <1>6, EndWeighs DEF Interrupt, RankingInv
    <1>7. CASE UNCHANGED campaignVars
        <2>1. UNCHANGED held /\ UNCHANGED study /\ UNCHANGED directory
            BY <1>7 DEF campaignVars
        <2>2. RankingReported'
            BY <2>1 DEF RankingInv, RankingReported
        <2>3. Weighed'
            <3>1. CASE held.kind = "campaign"
                BY <2>1, <3>1, SameFigures DEF RankingInv
            <3>2. CASE held.kind # "campaign"
                BY <2>1, <3>2 DEF Weighed
            <3> QED
                BY <3>1, <3>2
        <2> QED
            BY <2>1, <2>2, <2>3, SameArtifacts DEF RankingInv
    <1> QED
        BY <1>1, <1>2, <1>3, <1>4, <1>5, <1>6, <1>7 DEF CampaignNext

---------------------------------------------------------------------------
(* Theorem about what is promoted *)

\* A promoted variant beats both fixed phase 2 models by the material delta, and if
\* its uncalibrated rerun completed the folds of the first evaluation, no rankable
\* model discriminates better by more than the tolerance (research/selection.py), for
\* any score tables, feature sets, models, failing folds and interruptions.
THEOREM PromotionsAreEarned == CampaignSpec => []PromotionIsEarned
    <1>1. RankingInv => PromotionIsEarned
        BY DEF RankingInv
    <1> QED
        BY <1>1, DataInit, DataNext, RankingInit, RankingNext, AlwaysKept, PTL DEF CampaignSpec
=============================================================================
