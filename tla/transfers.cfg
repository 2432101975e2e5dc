CONSTANTS
  PageSize = 4
  NumPages = 4
  Programs <- ReturnPrograms
  LeafReturns = 2
  MaxReturns = 2
  BankBudget = 60
  MaxPerBank = 2
  MaxTargets = 2
  MaxDepth = 2
  Texts <- JumpTexts
  JrRange = 9
  Layouts <- BankLayouts
  Modes = {"whole", "profile", "identity", "climb"}
  Limit = 4
  TablesPerBank = 1
  Byte = 8
  ScanBytes = 23
  Sites <- SwitchSites
  CallStates <- SwitchEntries
SPECIFICATION Spec
INVARIANTS TransfersExact ReturnsFound TransfersLand BanksFit JumpsReach SwitchExact MainlinePolls
PROPERTY ClimbGains
CHECK_DEADLOCK TRUE
