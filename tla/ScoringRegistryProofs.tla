------------------------ MODULE ScoringRegistryProofs -----------------------
(***************************************************************************)
(* The safety properties of ScoringRegistry for every set of validators,   *)
(* brains and epochs, every stake, epoch length and challenge window.      *)
(***************************************************************************)
EXTENDS ScoringRegistry, TotalsTheorems

\* Slashing removes a part of the pool, never more than it holds.
LEMMA SlashTakesThePool ==
  ASSUME RegistryTypeOK, NEW k \in Pools
  PROVE  [vAssets EXCEPT ![k] = @ - SlashAmount(k)] \in [Pools -> Nat]
<1>1. vAssets[k] - vAssets[k] = 0
  BY DEF RegistryTypeOK
<1> QED BY <1>1 DEF RegistryTypeOK, SlashAmount

\* Stakes are natural numbers, and signers are part of their brain.
LEMMA StakesAdd ==
  ASSUME RegistryTypeOK, NEW b \in Brains, NEW signers \in SUBSET Validators
  PROVE  /\ SignerStake(b, signers) \in Nat
         /\ BrainStake(b) \in Nat
         /\ \A all \in SUBSET Validators :
              signers \subseteq all =>
                /\ SignerStake(b, all) \in Nat
                /\ SignerStake(b, signers) <= SignerStake(b, all)
<1>1. IsFiniteSet({b} \X Validators)
  BY RegistryAssumption, FS_Singleton, FS_Product
<1>2. \A x \in {b} \X Validators : vAssets[x] \in Nat
  BY DEF RegistryTypeOK, Pools
<1>3. ASSUME NEW all \in SUBSET Validators, signers \subseteq all
      PROVE  /\ SignerStake(b, all) \in Nat
             /\ SignerStake(b, signers) \in Nat
             /\ SignerStake(b, signers) <= SignerStake(b, all)
  <2>1. /\ {b} \X signers \in SUBSET ({b} \X all)
        /\ {b} \X all \in SUBSET ({b} \X Validators)
    BY <1>3
  <2>2. IsFiniteSet({b} \X all)
    BY <1>1, <2>1, FS_Subset
  <2> QED BY <1>2, <2>1, <2>2, TotalMonotone DEF SignerStake
<1>4. BrainStake(b) = SignerStake(b, Validators)
  BY DEF BrainStake, SignerStake
<1> QED BY <1>3, <1>4

-----------------------------------------------------------------------------
(* Type correctness.                                                       *)

\* Deployment: no commitments and typed stakes.
LEMMA TypeInit == Init => RegistryTypeOK
BY RegistryAssumption DEF Init, RegistryTypeOK, Keys, NoCommitment, Commitment

\* No call to the registry breaks the types.
LEMMA TypeNext == RegistryTypeOK /\ [Next]_vars => RegistryTypeOK'
<1> SUFFICES ASSUME RegistryTypeOK, [Next]_vars PROVE RegistryTypeOK'
  OBVIOUS
<1> USE DEF RegistryTypeOK, Keys, Pools
<1>1. ASSUME NEW e \in Epochs, NEW b \in Brains, NEW root \in Roots,
             NEW signers \in SUBSET Validators, ProposeEpoch(e, b, root, signers)
      PROVE  RegistryTypeOK'
  BY <1>1, StakesAdd DEF ProposeEpoch, Commitment
<1>2. ASSUME NEW e \in Epochs, NEW b \in Brains, FinalizeEpoch(e, b)
      PROVE  RegistryTypeOK'
  BY <1>2 DEF FinalizeEpoch, Commitment
<1>3. ASSUME NEW e \in Epochs, NEW b \in Brains, NEW rootA \in Roots, NEW rootB \in Roots,
             NEW v \in Validators, ChallengeEquivocation(e, b, rootA, rootB, v)
      PROVE  RegistryTypeOK'
  <2>1. vAssets' \in [Pools -> Nat]
    BY <1>3, SlashTakesThePool DEF ChallengeEquivocation
  <2>2. commitments' \in [Keys -> Commitment]
    BY <1>3 DEF ChallengeEquivocation, Commitment
  <2>3. slashed' \subseteq Epochs \X Brains \X Validators
    BY <1>3 DEF ChallengeEquivocation
  <2>4. UNCHANGED <<now, isCommitmentSigner, signed>>
    BY <1>3 DEF ChallengeEquivocation
  <2> QED BY <2>1, <2>2, <2>3, <2>4
<1>4. ASSUME NEW v \in Validators, NEW e \in Epochs, NEW b \in Brains, NEW root \in Roots,
             Sign(v, e, b, root)
      PROVE  RegistryTypeOK'
  BY <1>4 DEF Sign, registryVars
<1>5. ASSUME NEW k \in Pools, NEW amount \in StakeLevels, MoveStake(k, amount)
      PROVE  RegistryTypeOK'
  BY <1>5, RegistryAssumption DEF MoveStake, registryVars
<1>6. CASE Tick
  BY <1>6 DEF Tick, registryVars
<1>7. CASE UNCHANGED vars
  BY <1>7 DEF vars, registryVars
<1> QED BY <1>1, <1>2, <1>3, <1>4, <1>5, <1>6, <1>7 DEF Next, ContractStep

\* Every variable of the registry has its type in every reachable state.
THEOREM RegistryTypes == Spec => []RegistryTypeOK
BY TypeInit, TypeNext, PTL DEF Spec

-----------------------------------------------------------------------------
(* Acceptance.                                                             *)

\* The rounded-up quorum of 5001 basis points is more than half of any stake
\* there is.
LEMMA QuorumIsMajority ==
  ASSUME NEW total \in Nat \ {0}
  PROVE  MinStake(total) \in Nat /\ 2 * MinStake(total) > total
<1> DEFINE a == total * 5001 + 9999
<1>1. a \in Nat /\ 10000 \in Nat \ {0}
  OBVIOUS
<1>2. /\ a \div 10000 \in Nat
      /\ a < (a \div 10000) * 10000 + 10000
  BY <1>1, FloorDivision
<1>3. MinStake(total) = a \div 10000
  BY DEF MinStake, MIN_QUORUM_BPS, BPS
<1> QED BY <1>2, <1>3

\* A root is accepted only with signatures of validators that hold more than
\* half of the brain's stake when it is accepted.
THEOREM RegistryMajority == Spec => CommittedByMajority
<1>1. ASSUME RegistryTypeOK, [Next]_vars, NEW k \in Keys,
             commitments'[k].root # commitments[k].root
      PROVE  2 * SignerStake(k[2], SignersOf(k, commitments'[k].root)) > BrainStake(k[2])
  <2>1. PICK e \in Epochs, b \in Brains, root \in Roots, signers \in SUBSET Validators :
          ProposeEpoch(e, b, root, signers)
    <3>1. ASSUME NEW e \in Epochs, NEW b \in Brains, FinalizeEpoch(e, b)
          PROVE  FALSE
      BY <1>1, <3>1 DEF FinalizeEpoch, RegistryTypeOK, Commitment
    <3>2. ASSUME NEW e \in Epochs, NEW b \in Brains, NEW rootA \in Roots, NEW rootB \in Roots,
                 NEW v \in Validators, ChallengeEquivocation(e, b, rootA, rootB, v)
          PROVE  FALSE
      BY <1>1, <3>2 DEF ChallengeEquivocation, RegistryTypeOK, Commitment
    <3>3. ~ UNCHANGED commitments
      BY <1>1
    <3> QED BY <1>1, <3>1, <3>2, <3>3
        DEF Next, ContractStep, Sign, MoveStake, Tick, vars, registryVars
  <2>2. k = <<e, b>> /\ commitments'[k].root = root
    BY <1>1, <2>1 DEF ProposeEpoch, RegistryTypeOK
  <2> DEFINE all == SignersOf(k, root)
  <2>3. all \subseteq Validators /\ signers \subseteq all
    BY <2>1, <2>2 DEF ProposeEpoch, MayPropose, SignersOf
  <2>4. /\ SignerStake(b, signers) \in Nat
        /\ SignerStake(b, all) \in Nat
        /\ SignerStake(b, signers) <= SignerStake(b, all)
        /\ BrainStake(b) \in Nat
    BY <1>1, <2>3, StakesAdd
  <2>5. BrainStake(b) # 0 /\ SignerStake(b, signers) >= MinStake(BrainStake(b))
    BY <2>1 DEF ProposeEpoch, MayPropose
  <2>6. MinStake(BrainStake(b)) \in Nat /\ 2 * MinStake(BrainStake(b)) > BrainStake(b)
    BY <2>4, <2>5, QuorumIsMajority
  <2>7. 2 * SignerStake(b, all) > BrainStake(b)
    BY <2>4, <2>5, <2>6
  <2> QED BY <2>2, <2>7
<1>2. RegistryTypeOK /\ [Next]_vars =>
        [\A k \in Keys : commitments'[k].root # commitments[k].root =>
           2 * SignerStake(k[2], SignersOf(k, commitments'[k].root)) > BrainStake(k[2])]_vars
  BY <1>1
<1> QED BY <1>2, RegistryTypes, PTL DEF Spec, CommittedByMajority

-----------------------------------------------------------------------------
(* Finality and slashing.                                                  *)

\* Only proposed epochs are final or invalidated, and only completed epochs are
\* proposed.
ProposedWhenComplete ==
  \A k \in Keys :
    LET c == commitments[k] IN
    /\ c.finalizedAt # 0 \/ c.invalidated => c.root # NoRoot
    /\ c.root # NoRoot => c.proposedAt >= GENESIS_TIMESTAMP + (k[1] + 1) * EPOCH_LENGTH

RegistryInv ==
  RegistryTypeOK /\ ProposedWhenComplete /\ FinalAfterEpochAndWindow /\ SlashedHaveEquivocated

\* An epoch lower than the current one has ended.
LEMMA LowerEpochsHaveEnded ==
  ASSUME now \in Nat, NEW e \in Epochs, e < CurrentEpoch
  PROVE  now >= GENESIS_TIMESTAMP + (e + 1) * EPOCH_LENGTH
<1> DEFINE t == now - GENESIS_TIMESTAMP
           q == t \div EPOCH_LENGTH
<1>1. e \in Nat /\ GENESIS_TIMESTAMP \in Nat /\ EPOCH_LENGTH \in Nat \ {0}
  BY RegistryAssumption
<1>2. ~ (now < GENESIS_TIMESTAMP)
  BY <1>1 DEF CurrentEpoch
<1>3. t \in Nat /\ CurrentEpoch = q
  BY <1>1, <1>2 DEF CurrentEpoch
<1>4. q \in Nat /\ q * EPOCH_LENGTH <= t
  BY <1>1, <1>3, FloorDivision
<1>5. e + 1 <= q
  BY <1>1, <1>3, <1>4
<1>6. (e + 1) * EPOCH_LENGTH <= q * EPOCH_LENGTH
  BY <1>1, <1>4, <1>5
<1> QED BY <1>1, <1>2, <1>4, <1>6

\* What a slash was for stays on record as long as the commitment keeps its root.
LEMMA StaysEquivocated ==
  ASSUME SlashedHaveEquivocated,
         \A k \in Keys : /\ commitments'[k].root = commitments[k].root
                         /\ commitments[k].invalidated => commitments'[k].invalidated,
         UNCHANGED signed,
         NEW e \in Epochs, NEW b \in Brains, NEW v \in Validators, <<e, b, v>> \in slashed
  PROVE  /\ commitments'[<<e, b>>].invalidated
         /\ <<v, e, b, commitments'[<<e, b>>].root>> \in signed'
         /\ \E root \in Roots \ {commitments'[<<e, b>>].root} : <<v, e, b, root>> \in signed'
<1>1. /\ commitments'[<<e, b>>].root = commitments[<<e, b>>].root
      /\ commitments[<<e, b>>].invalidated => commitments'[<<e, b>>].invalidated
  BY DEF Keys
<1>2. /\ commitments[<<e, b>>].invalidated
      /\ <<v, e, b, commitments[<<e, b>>].root>> \in signed
      /\ \E root \in Roots \ {commitments[<<e, b>>].root} : <<v, e, b, root>> \in signed
  BY DEF SlashedHaveEquivocated
<1> QED BY <1>1, <1>2

\* Deployment: nothing is proposed, so nothing is final, invalidated or slashed.
LEMMA InvInit == Init => RegistryInv
<1> SUFFICES ASSUME Init PROVE RegistryInv
  OBVIOUS
<1>1. RegistryTypeOK
  BY TypeInit
<1>2. \A k \in Keys : commitments[k] = NoCommitment
  BY DEF Init
<1> QED BY <1>1, <1>2 DEF Init, RegistryInv, ProposedWhenComplete, FinalAfterEpochAndWindow,
        SlashedHaveEquivocated, NoCommitment

\* proposeEpoch, finalizeEpoch and challengeEquivocation keep the invariant.
LEMMA InvNext == RegistryInv /\ [Next]_vars => RegistryInv'
<1> SUFFICES ASSUME RegistryInv, [Next]_vars PROVE RegistryInv'
  OBVIOUS
<1>0. RegistryTypeOK /\ RegistryTypeOK'
  BY TypeNext DEF RegistryInv
<1>1. ASSUME NEW e \in Epochs, NEW b \in Brains, NEW root \in Roots,
             NEW signers \in SUBSET Validators, ProposeEpoch(e, b, root, signers)
      PROVE  RegistryInv'
  <2>1. /\ commitments[<<e, b>>].root = NoRoot
        /\ commitments' = [commitments EXCEPT ![<<e, b>>] =
             [root |-> root, proposedAt |-> now, finalizedAt |-> 0,
              signerStake |-> SignerStake(b, signers), invalidated |-> FALSE]]
        /\ UNCHANGED <<signed, slashed>>
    BY <1>1 DEF ProposeEpoch, MayPropose
  <2>2. now >= GENESIS_TIMESTAMP + (e + 1) * EPOCH_LENGTH
    BY <1>0, <1>1, LowerEpochsHaveEnded DEF ProposeEpoch, MayPropose, RegistryTypeOK
  <2>3. ProposedWhenComplete'
    BY <1>0, <2>1, <2>2 DEF RegistryInv, ProposedWhenComplete, RegistryTypeOK, Keys
  <2>4. FinalAfterEpochAndWindow'
    BY <1>0, <2>1 DEF RegistryInv, FinalAfterEpochAndWindow, RegistryTypeOK, Keys
  <2>5. ~ commitments[<<e, b>>].invalidated
    BY <2>1 DEF RegistryInv, ProposedWhenComplete, Keys
  <2>6. SlashedHaveEquivocated'
    BY <1>0, <2>1, <2>5 DEF RegistryInv, SlashedHaveEquivocated, RegistryTypeOK, Keys
  <2> QED BY <1>0, <2>3, <2>4, <2>6 DEF RegistryInv
<1>2. ASSUME NEW e \in Epochs, NEW b \in Brains, FinalizeEpoch(e, b)
      PROVE  RegistryInv'
  <2>1. /\ commitments[<<e, b>>].root # NoRoot
        /\ ~ (now < commitments[<<e, b>>].proposedAt + CHALLENGE_WINDOW)
        /\ commitments' = [commitments EXCEPT ![<<e, b>>].finalizedAt = now]
        /\ UNCHANGED <<signed, slashed>>
    BY <1>2 DEF FinalizeEpoch, ChallengeWindowOpen
  <2>2. now \in Nat /\ commitments[<<e, b>>].proposedAt \in Nat /\ CHALLENGE_WINDOW \in Nat
    BY <1>0, RegistryAssumption DEF RegistryTypeOK, Keys, Commitment
  <2>3. ProposedWhenComplete'
    BY <1>0, <2>1 DEF RegistryInv, ProposedWhenComplete, RegistryTypeOK, Keys, Commitment
  <2>4. FinalAfterEpochAndWindow'
    BY <1>0, <2>1, <2>2
    DEF RegistryInv, ProposedWhenComplete, FinalAfterEpochAndWindow, RegistryTypeOK, Keys, Commitment
  <2>5. \A k \in Keys : /\ commitments'[k].root = commitments[k].root
                        /\ commitments'[k].invalidated = commitments[k].invalidated
    BY <1>0, <2>1 DEF RegistryTypeOK, Commitment
  <2>6. SlashedHaveEquivocated'
    BY <2>1, <2>5, StaysEquivocated DEF RegistryInv, SlashedHaveEquivocated
  <2> QED BY <1>0, <2>3, <2>4, <2>6 DEF RegistryInv
<1>3. ASSUME NEW e \in Epochs, NEW b \in Brains, NEW rootA \in Roots, NEW rootB \in Roots,
             NEW v \in Validators, ChallengeEquivocation(e, b, rootA, rootB, v)
      PROVE  RegistryInv'
  <2>1. /\ commitments[<<e, b>>].root # NoRoot
        /\ rootA # rootB /\ commitments[<<e, b>>].root \in {rootA, rootB}
        /\ <<v, e, b, rootA>> \in signed /\ <<v, e, b, rootB>> \in signed
        /\ commitments' = [commitments EXCEPT ![<<e, b>>].invalidated = TRUE]
        /\ slashed' = slashed \cup {<<e, b, v>>}
        /\ UNCHANGED signed
    BY <1>3 DEF ChallengeEquivocation, HasSigned
  <2>2. ProposedWhenComplete'
    BY <1>0, <2>1 DEF RegistryInv, ProposedWhenComplete, RegistryTypeOK, Keys, Commitment
  <2>3. FinalAfterEpochAndWindow'
    BY <1>0, <2>1 DEF RegistryInv, FinalAfterEpochAndWindow, RegistryTypeOK, Keys, Commitment
  <2>4. /\ \A k \in Keys : /\ commitments'[k].root = commitments[k].root
                           /\ commitments[k].invalidated => commitments'[k].invalidated
        /\ commitments'[<<e, b>>].invalidated
        /\ commitments[<<e, b>>].root \in Roots
    BY <1>0, <2>1 DEF RegistryTypeOK, Keys, Commitment
  <2>5. ASSUME NEW e1 \in Epochs, NEW b1 \in Brains, NEW v1 \in Validators,
               <<e1, b1, v1>> \in slashed'
        PROVE  /\ commitments'[<<e1, b1>>].invalidated
               /\ <<v1, e1, b1, commitments'[<<e1, b1>>].root>> \in signed'
               /\ \E root \in Roots \ {commitments'[<<e1, b1>>].root} :
                    <<v1, e1, b1, root>> \in signed'
    <3>1. CASE e1 = e /\ b1 = b /\ v1 = v
      BY <2>1, <2>4, <3>1 DEF Keys
    <3>2. CASE ~ (e1 = e /\ b1 = b /\ v1 = v)
      <4>1. <<e1, b1, v1>> \in slashed
        BY <2>1, <2>5, <3>2
      <4> QED BY <2>1, <2>4, <4>1, StaysEquivocated DEF RegistryInv
    <3> QED BY <3>1, <3>2
  <2>6. SlashedHaveEquivocated'
    BY <2>5 DEF SlashedHaveEquivocated
  <2> QED BY <1>0, <2>2, <2>3, <2>6 DEF RegistryInv
<1>4. ASSUME NEW v \in Validators, NEW e \in Epochs, NEW b \in Brains, NEW root \in Roots,
             Sign(v, e, b, root)
      PROVE  RegistryInv'
  BY <1>0, <1>4 DEF Sign, registryVars, RegistryInv, ProposedWhenComplete,
     FinalAfterEpochAndWindow, SlashedHaveEquivocated
<1>5. ASSUME UNCHANGED <<commitments, signed, slashed>>
      PROVE  RegistryInv'
  BY <1>0, <1>5 DEF RegistryInv, ProposedWhenComplete, FinalAfterEpochAndWindow,
     SlashedHaveEquivocated
<1> QED BY <1>1, <1>2, <1>3, <1>4, <1>5
    DEF Next, ContractStep, MoveStake, Tick, vars, registryVars

\* The inductive invariant holds in every reachable state.
LEMMA RegistryInvariant == Spec => []RegistryInv
BY InvInit, InvNext, PTL DEF Spec

\* Scores are final only after their epoch and a full challenge window.
THEOREM RegistryFinality == Spec => []FinalAfterEpochAndWindow
BY RegistryInvariant, PTL DEF RegistryInv

\* Only validators that signed the committed root and another one are slashed.
THEOREM RegistrySlashing == Spec => []SlashedHaveEquivocated
BY RegistryInvariant, PTL DEF RegistryInv
=============================================================================
