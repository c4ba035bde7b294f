\* Two brains that share validators: quorum, windows and challenges.
SPECIFICATION Spec
CONSTANTS
  Validators = {v1, v2}
  Brains = {b1, b2}
  Epochs = {0}
  Roots = {r1, r2}
  NoRoot = NoRoot
  EPOCH_LENGTH = 1
  CHALLENGE_WINDOW = 1
  GENESIS_TIMESTAMP = 1
  BigValidator = v1
  BigStake = 2
  SmallStake = 1
  InitialStake <- MCInitialStake
  StakeLevels = {0, 1}
  MaxTime = 3
SYMMETRY Symmetry
INVARIANTS
  RegistryTypeOK
  FinalAfterEpochAndWindow
  SlashedHaveEquivocated
PROPERTIES
  CommittedByMajority
\* Time is bounded, and every signature may exist.
CHECK_DEADLOCK FALSE
