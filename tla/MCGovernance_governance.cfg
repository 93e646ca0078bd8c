SPECIFICATION Spec
CONSTANTS
  w1 = w1
  w2 = w2
  sound = sound
  losing = losing
  gap = gap
  clear = clear
  weak = weak
  kept = kept
  late = late
  Workers <- MCWorkers
  Cases <- MCCases
  CaseData <- MCCaseData
  Briefs <- MCBriefs
  BriefData <- MCBriefData
  Pairs <- MCPairs
  PairData <- MCPairData
  AttemptStates <- MCAttemptStates
  MaxRuns = 5
  MaxDamage = 1
SYMMETRY Symmetry
INVARIANTS

  AuthorityNeedsAssent
  HandedReportsStand
  RejectionIsBuried
PROPERTIES
  WrittenOntoVerifiedLineage
CHECK_DEADLOCK FALSE
