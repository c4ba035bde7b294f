\* Two users, a reserved brain and two public ones.
SPECIFICATION BrainsSpec
CONSTANTS
  Users = {u1, u2}
  Assets = {Pepecoin}
  Nobody = Nobody
  Escrow = Escrow
  Adapter = Adapter
  FIRST_PUBLIC_ID = 1
  MAX_SUPPLY = 3
  InitialStake = 1
  MaxStake = 2
SYMMETRY Symmetry
INVARIANTS
  OneLiveCopy
  StakesAreBacked
  NoIdTwice
