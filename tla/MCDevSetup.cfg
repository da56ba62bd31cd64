SPECIFICATION FairSpec
CONSTANTS
  Hosts <- MCHosts
  FlagSets <- MCFlagSets
  MaxRuns = 2
  MaxAttempts = 2
INVARIANTS TypeOK SuccessIsUsable
PROPERTIES CheckOnlyWritesEnv UnattendedRunEnds
