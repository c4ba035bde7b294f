\* Two users, two brains, one proposal.
SPECIFICATION GovernorSpec
CONSTANTS
  Users = {u1, u2}
  Assets = {Pepecoin}
  Nobody = Nobody
  Escrow = Escrow
  Adapter = Adapter
  FIRST_PUBLIC_ID = 2
  MAX_SUPPLY = 2
  InitialStake = 1
  MaxStake = 1
  Proposals = {p1}
  GIGABRAIN_THRESHOLD_BPS = 50
  StakeLevels = {1, 201}
  InitialQuorum = 2
  NewQuorum <- MCNewQuorum
SYMMETRY Symmetry
INVARIANTS
  BrainsVoteOnce
  
