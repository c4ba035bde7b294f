\* One client with two requests, an honest miner and one that is not.
SPECIFICATION ServingSpec
CONSTANTS
  Users = {u1}
  Miners = {m1, m2}
  Owners = {}
  Brains = {b1}
  Validators = {}
  NoOwner = NoOwner
  Nonces = {n1, n2}
  Amounts = {1, 3}
  UserWealth = 4
  Wealth <- MCWealth
  WITHDRAW_DELAY = 1
  MAX_RECEIPT_LIFETIME = 1
  BPS_DENOMINATOR = 10000
  Reservations = {1}
  Prices <- MCPrices
  Subnets <- MCSubnets
  ValidatorSets <- MCValidatorSets
  Stakes <- MCStakes
  MaxTime = 1
  MaxSigned = 4
  Honest = {m1}
  DEFAULT_RESERVATION = 1
  RECEIPT_LIFETIME = 1
  Budgets = {3}
  Asked = {0, 4}
  Sizes = {1, 3}
  Metered = {1}
  MaxRestarts = 1
SYMMETRY Symmetry
INVARIANTS
  ServingTypeOK
  ClientPaysWithinBudgets
  
  
\* The system may stop: time, nonces and signatures are bounded.
CHECK_DEADLOCK FALSE
