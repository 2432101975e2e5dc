CONSTANTS
  NumBlocks = 3
  NumLines = 4
  Programs <- BlockPrograms
  Texts <- LinePrograms
SPECIFICATION MCSpec
INVARIANTS NoStaleFlag NoStaleFlagGlobally LivenessIsPaths NoStaleCell AnonymousLabels WorkListComplete
INVARIANTS CachedLoadsRight NativeValuesKept AccumulatorRight ShadowsRight BranchesRight
CHECK_DEADLOCK TRUE
