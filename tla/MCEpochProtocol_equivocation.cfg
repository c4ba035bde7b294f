\* The epoch loop signs two roots for one epoch.
SPECIFICATION Spec
CONSTANTS
  Validators = {h1, h2}
  Honest = {h1, h2}
  Brain = b1
  Epochs = {0}
  Miners = {m1}
  Scores = {0, 1}
  Observations <- Complete
  NoRoot = NoRoot
  Rejected = Rejected
  EPOCH_LENGTH = 2
  CHALLENGE_WINDOW = 1
  GENESIS_TIMESTAMP = 1
  HonestStake = 2
  OtherStake = 1
  InitialStake <- MCInitialStake
  StakeLevels = {}
  MaxTime = 4
  MaxRestarts = 0
INVARIANTS
  HonestNeverEquivocates
CHECK_DEADLOCK FALSE
