SPECIFICATION CampaignSpec
CONSTANTS
  TRAILING_WARMUP_ROWS = 1
  EXIT_OFFSET_SESSIONS = 3
  CostUnit = 100
  Scale = 4
  Long = 2
  LogPenalty <- MCLogPenalty
  Skills <- MCSkills
  Seeds = {42}
  GlobalWarmup = 3
  Minimums <- MCMinimums
  FoldPolicy <- MCFoldPolicy
  CalibrationRows = 3
  Batches <- MCBatches
  Costs <- MCCosts
  Specs <- MCSpecs
  Thresholds = {2, 3}
  Versions = {1, 2}
  Studies <- MCStudies
  CampaignCosts <- MCCampaignCosts
  Timestamps = {1, 2}
  Ablations <- MCAblations
  Models <- MCModels
  Columns <- MCColumns
  Complexity <- MCComplexity
  Score <- MCScore
  Prevalence <- MCPrevalence
  MinimumFolds = 2
  Tolerance = 1
  MaterialDelta = 2
  MaxInterrupts = 1
  MaxAccidents = 1
INVARIANTS NoLookAhead OneRuntime DevelopmentNeverReadsTheFinalTest
  IndexedEvidenceReplays PromotionIsEarned
PROPERTIES RefitOnSelectionData
CHECK_DEADLOCK FALSE
