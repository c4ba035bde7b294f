\* Two honest validators, one that posts anything, and an aggregator that
\* may lose its memory once.
SPECIFICATION Spec
CONSTANTS
  Validators = {h1, h2, z}
  Honest = {h1, h2}
  Brain = b1
  Epochs = {0}
  Miners = {m1}
  Scores = {0, 1}
  Observations <- Complete
  NoRoot = NoRoot
  Rejected = Rejected
  EPOCH_LENGTH = 2
  CHALLENGE_WINDOW = 1
  GENESIS_TIMESTAMP = 1
  HonestStake = 2
  OtherStake = 1
  InitialStake <- MCInitialStake
  StakeLevels = {}
  MaxTime = 3
  MaxRestarts = 1
SYMMETRY Symmetry
INVARIANTS
  SameRootUntilRestart
PROPERTIES
  CanonicalWithinHonest
  CommittedWasCanonical
CHECK_DEADLOCK FALSE
