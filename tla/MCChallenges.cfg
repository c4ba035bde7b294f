\* An honest miner and another, up to three observations at a time.
SPECIFICATION ChallengesSpec
CONSTANTS
  Miners = {m1, m2}
  Honest = {m1}
  Prompts = {p1, p2}
  Referenced = {p1}
  Right = Right
  Wrong = Wrong
  Zero = Zero
  FP = 1000000
  Latencies = {0, 2}
  x1 = x1
  x2 = x2
  x3 = x3
  x4 = x4
  x5 = x5
  OtherLeaves <- MCOtherLeaves
  MaxObservations = 3
INVARIANTS
  
  AnswersOutrankFailures
  ProofsBindScores
