---------------------------- MODULE ScoringRegistry -------------------------
(***************************************************************************)
(* contracts/src/scoring/ScoringRegistry.sol: per-epoch commitments to     *)
(* miner scores, co-signed by validators, open to challenge by a proof of  *)
(* equivocation.                                                           *)
(*                                                                         *)
(* A signature is an element of signed: <<v, e, b, root>> stands for v's   *)
(* signature of commitmentDigest(e, b, root).  Signatures cannot be forged *)
(* and the digest binds chain, contract, epoch, brain and root, so what a  *)
(* signature verifies for is exactly that tuple.  The contract reads stake *)
(* from the StakingVault; vAssets is that vault's variable and MoveStake   *)
(* stands for the vault's own operations.                                  *)
(***************************************************************************)
EXTENDS Naturals, FiniteSets, Totals

CONSTANTS
  Validators, Brains,
  Epochs,               \* the epochs the model looks at
  Roots, NoRoot,        \* Merkle roots; NoRoot is bytes32(0)
  EPOCH_LENGTH, CHALLENGE_WINDOW, GENESIS_TIMESTAMP,
  InitialStake,         \* validatorStake at the start
  StakeLevels,          \* the stakes MoveStake may set
  MaxTime               \* bound on block.timestamp

Keys  == Epochs \X Brains
Pools == Brains \X Validators

ASSUME RegistryAssumption ==
  /\ IsFiniteSet(Validators)
  /\ Epochs \subseteq Nat
  /\ NoRoot \notin Roots
  /\ EPOCH_LENGTH \in Nat \ {0}
  /\ CHALLENGE_WINDOW \in Nat
  /\ GENESIS_TIMESTAMP \in Nat
  /\ InitialStake \in [Pools -> Nat]
  /\ StakeLevels \subseteq Nat
  /\ MaxTime \in Nat

MIN_QUORUM_BPS == 5001
BPS == 10000

VARIABLES
  now,                  \* block.timestamp
  vAssets,              \* STAKING.validatorStake, by <<brain, validator>>
  commitments,          \* _epochs
  isCommitmentSigner,   \* the co-signers of an accepted commitment
  signed,               \* the signatures that exist
  slashed               \* the ValidatorSlashed events, as <<epoch, brain, validator>>

registryVars == <<commitments, isCommitmentSigner, slashed>>
vars == <<now, vAssets, signed, registryVars>>

NoCommitment == [root |-> NoRoot, proposedAt |-> 0, finalizedAt |-> 0,
                 signerStake |-> 0, invalidated |-> FALSE]

-----------------------------------------------------------------------------
CurrentEpoch == IF now < GENESIS_TIMESTAMP THEN 0
                ELSE (now - GENESIS_TIMESTAMP) \div EPOCH_LENGTH

\* Defect: a signature that does not bind the brain.
SignedInAnyBrain(v, e, b, root) == \E c \in Brains : <<v, e, c, root>> \in signed

\* ECDSA.recover(commitmentDigest(e, b, root), signature) = v
HasSigned(v, e, b, root) == <<v, e, b, root>> \in signed

SignerStake(b, signers) == Total(vAssets, {b} \X signers)
BrainStake(b) == Total(vAssets, {b} \X Validators)

\* Defect: the quorum rounds down, so half of a small stake is enough.
FloorQuorum(total) == (total * MIN_QUORUM_BPS) \div BPS

MinStake(total) == (total * MIN_QUORUM_BPS + (BPS - 1)) \div BPS

\* The checks of proposeEpoch; signers is a set because they must come sorted
\* and distinct.
MayPropose(e, b, root, signers) ==
  /\ root # NoRoot                                      \* ZeroRoot
  /\ e < CurrentEpoch                                   \* EpochInTheFuture, EpochNotComplete
  /\ commitments[<<e, b>>].root = NoRoot                \* EpochAlreadyProposed
  /\ signers # {}                                       \* NoSigners
  /\ \A v \in signers : HasSigned(v, e, b, root)        \* InvalidSignature
  /\ BrainStake(b) # 0                                  \* EmptyQuorum
  /\ SignerStake(b, signers) >= MinStake(BrainStake(b)) \* InsufficientSignerStake

ProposeEpoch(e, b, root, signers) ==
  /\ MayPropose(e, b, root, signers)
  /\ commitments' = [commitments EXCEPT ![<<e, b>>] =
       [root |-> root, proposedAt |-> now, finalizedAt |-> 0,
        signerStake |-> SignerStake(b, signers), invalidated |-> FALSE]]
  /\ isCommitmentSigner' = [isCommitmentSigner EXCEPT ![<<e, b>>] = signers]
  /\ UNCHANGED <<now, vAssets, signed, slashed>>

\* Defect: the window starts with the epoch instead of the proposal.
WindowFromEpochStart(e, b) ==
  now < GENESIS_TIMESTAMP + e * EPOCH_LENGTH + CHALLENGE_WINDOW

ChallengeWindowOpen(e, b) == now < commitments[<<e, b>>].proposedAt + CHALLENGE_WINDOW

FinalizeEpoch(e, b) ==
  LET c == commitments[<<e, b>>] IN
  /\ c.root # NoRoot                                    \* EpochNotProposed
  /\ ~ c.invalidated                                    \* EpochAlreadyInvalidated
  /\ c.finalizedAt = 0
  /\ ~ ChallengeWindowOpen(e, b)
  /\ commitments' = [commitments EXCEPT ![<<e, b>>].finalizedAt = now]
  /\ UNCHANGED <<now, vAssets, isCommitmentSigner, signed, slashed>>

\* Defect: slashes by the stake of the whole brain.
WholeBrainStake(k) == BrainStake(k[1])

\* What a proof of equivocation slashes: all of the validator's pool in the brain.
SlashAmount(k) == vAssets[k]

ChallengeEquivocation(e, b, rootA, rootB, v) ==
  LET c == commitments[<<e, b>>] IN
  /\ rootA # rootB
  /\ c.root # NoRoot                                    \* EpochNotProposed
  /\ ~ c.invalidated                                    \* EpochAlreadyInvalidated
  /\ v \in isCommitmentSigner[<<e, b>>]                 \* NotACommitmentSigner
  /\ c.root \in {rootA, rootB}                          \* NotEquivocation
  /\ HasSigned(v, e, b, rootA) /\ HasSigned(v, e, b, rootB)
  /\ commitments' = [commitments EXCEPT ![<<e, b>>].invalidated = TRUE]
  /\ vAssets' = [vAssets EXCEPT ![<<b, v>>] = @ - SlashAmount(<<b, v>>)]  \* STAKING.slash
  /\ slashed' = slashed \cup {<<e, b, v>>}
  /\ UNCHANGED <<now, isCommitmentSigner, signed>>

-----------------------------------------------------------------------------
(* The contract's environment.                                             *)

Sign(v, e, b, root) ==
  /\ signed' = signed \cup {<<v, e, b, root>>}
  /\ UNCHANGED <<now, vAssets, registryVars>>

\* Stake, claim, reward: the vault's own operations.
MoveStake(k, amount) ==
  /\ amount # vAssets[k]
  /\ vAssets' = [vAssets EXCEPT ![k] = amount]
  /\ UNCHANGED <<now, signed, registryVars>>

Tick ==
  /\ now < MaxTime
  /\ now' \in now + 1 .. MaxTime
  /\ UNCHANGED <<vAssets, signed, registryVars>>

Init ==
  /\ now = 0
  /\ vAssets = InitialStake
  /\ commitments = [k \in Keys |-> NoCommitment]
  /\ isCommitmentSigner = [k \in Keys |-> {}]
  /\ signed = {}
  /\ slashed = {}

\* What anyone may send to the contract.
ContractStep ==
  \/ \E e \in Epochs, b \in Brains, root \in Roots, signers \in SUBSET Validators :
       ProposeEpoch(e, b, root, signers)
  \/ \E e \in Epochs, b \in Brains : FinalizeEpoch(e, b)
  \/ \E e \in Epochs, b \in Brains, rootA \in Roots, rootB \in Roots, v \in Validators :
       ChallengeEquivocation(e, b, rootA, rootB, v)

Next ==
  \/ ContractStep
  \/ \E v \in Validators, e \in Epochs, b \in Brains, root \in Roots : Sign(v, e, b, root)
  \/ \E k \in Pools, amount \in StakeLevels : MoveStake(k, amount)
  \/ Tick

Spec == Init /\ [][Next]_vars

-----------------------------------------------------------------------------
Commitment == [root : Roots \cup {NoRoot}, proposedAt : Nat, finalizedAt : Nat,
               signerStake : Nat, invalidated : BOOLEAN]

\* Every variable has its type.
RegistryTypeOK ==
  /\ now \in Nat
  /\ vAssets \in [Pools -> Nat]
  /\ commitments \in [Keys -> Commitment]
  /\ isCommitmentSigner \in [Keys -> SUBSET Validators]
  /\ signed \subseteq Validators \X Epochs \X Brains \X Roots
  /\ slashed \subseteq Epochs \X Brains \X Validators

\* The validators that have signed a root for an epoch and brain.
SignersOf(k, root) == {v \in Validators : HasSigned(v, k[1], k[2], root)}

\* A root is accepted only if the validators that signed it hold more than half
\* of the brain's stake at that moment: the rounding of the quorum never admits
\* exactly half, and no epoch is accepted with no stake at all.
CommittedByMajority ==
  [][\A k \in Keys : commitments'[k].root # commitments[k].root =>
       2 * SignerStake(k[2], SignersOf(k, commitments'[k].root)) > BrainStake(k[2])]_vars

\* Scores are verifiable only after the epoch they are for has ended and a full
\* challenge window has passed since, however late they were proposed.
FinalAfterEpochAndWindow ==
  \A k \in Keys :
    LET c == commitments[k] IN
    c.finalizedAt # 0 =>
      /\ c.finalizedAt >= c.proposedAt + CHALLENGE_WINDOW
      /\ c.proposedAt >= GENESIS_TIMESTAMP + (k[1] + 1) * EPOCH_LENGTH

\* A validator is slashed for an epoch only if it signed the root that was
\* committed for that epoch and brain and another one for the same epoch and
\* brain: signatures for other epochs or brains prove nothing.
SlashedHaveEquivocated ==
  \A e \in Epochs, b \in Brains, v \in Validators :
    <<e, b, v>> \in slashed =>
      /\ commitments[<<e, b>>].invalidated
      /\ <<v, e, b, commitments[<<e, b>>].root>> \in signed
      /\ \E root \in Roots \ {commitments[<<e, b>>].root} : <<v, e, b, root>> \in signed
=============================================================================
