\* One client and receipts of every kind against withdrawals and distributions.
SPECIFICATION Spec
CONSTANTS
  Users = {u1}
  Miners = {m1}
  Owners = {o1}
  Brains = {b1}
  Validators = {v1, v2}
  NoOwner = NoOwner
  Nonces = {n1, n2}
  Amounts = {1, 7}
  UserWealth = 8
  Wealth <- MCWealth
  WITHDRAW_DELAY = 1
  MAX_RECEIPT_LIFETIME = 1
  BPS_DENOMINATOR = 10000
  Reservations = {1}
  Prices <- MCPrices
  Subnets <- MCSubnets
  ValidatorSets <- MCValidatorSets
  Stakes <- MCStakes
  MaxTime = 2
  MaxSigned = 2
SYMMETRY Symmetry
INVARIANTS
  MarketTypeOK
  MarketCustody
  WithdrawalsNeverBlocked
PROPERTIES
  SpendsOnlySigned
  
  
CHECK_DEADLOCK FALSE
