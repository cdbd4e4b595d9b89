SPECIFICATION Spec
CONSTANTS
  PreserveTunables = FALSE
  MultipleDecls = TRUE
  Taken <- MCTaken
  StringParams <- MCStringParams
  Numbers <- MCNumbers
  Addresses <- MCAddresses
  CIL_PERMS_PER_CLASS = 2
  Cases <- MCCases
  NotCopied <- MCNotCopied
INVARIANTS
  OwnedOnce
  CopySaysTheSame
  DisablingLeavesNoTrace
