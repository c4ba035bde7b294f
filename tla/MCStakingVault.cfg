\* Two brains with a pool each: the ledger, the checkpoints and the share price.
SPECIFICATION Spec
CONSTANTS
  Brains = {b1, b2}
  Validators = {v1}
  Stakers = {s1, s2}
  Rewarder = distributor
  StakerWealth = 2
  RewarderWealth = 1
  Wealth <- MCWealth
  Amounts = {1, 2}
  UNSTAKE_COOLDOWN = 1
  MaxTime = 2
SYMMETRY Symmetry
INVARIANTS
  TypeOK
  AggregatesMatchPools
  Custody
  SharesBacked
  ClaimsNeverBlocked
PROPERTIES
  ImplementsHistory
  ShareValueFallsOnlyBySlash
  DepositKeepsItsValue
\* The system may stop: every account may be out of BASED.
CHECK_DEADLOCK FALSE
