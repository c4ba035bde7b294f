---------------------------- MODULE EpochProtocol ---------------------------
(***************************************************************************)
(* How the validators of one Brain get an epoch's scores on chain:         *)
(* the epoch loop of validator/src/basedai_validator/runtime.py, the       *)
(* aggregator service (service.py, aggregator.py) and ScoringRegistry.     *)
(*                                                                         *)
(* Every validator runs a loop: read the epoch, sleep to the wall-clock    *)
(* boundary, post a signed candidate, wait for the aggregator's canonical  *)
(* root, co-sign that and post the co-signature.  The aggregator keeps     *)
(* everything in memory.  The chain's time is that of its latest block and *)
(* lags the validators' clock.  Validators outside Honest post anything.   *)
(*                                                                         *)
(* A root is the score map that it is the Merkle root of: build_merkle_root*)
(* sorts the leaves, so the root depends on nothing else.  Requests are    *)
(* handled one at a time (the handlers do not await after reading the      *)
(* body), and a handler's stake reads are taken to see one block.          *)
(***************************************************************************)
EXTENDS CanonicalScores

CONSTANTS
  Validators, Honest, Brain,
  Epochs,                 \* the epochs the model looks at
  Miners, Scores,
  Observations,           \* the score maps an honest validator may come to
  NoRoot, Rejected,
  EPOCH_LENGTH, CHALLENGE_WINDOW, GENESIS_TIMESTAMP,
  InitialStake, StakeLevels,
  MaxTime,                \* bound on the clock
  MaxRestarts             \* bound on AggregatorRestart

Roots == UNION { [M -> Scores] : M \in (SUBSET Miners) \ {{}} }

ASSUME ProtocolAssumption ==
  /\ IsFiniteSet(Validators)
  /\ Honest \subseteq Validators
  /\ Scores \subseteq Nat
  /\ Observations \subseteq Roots
  /\ NoRoot \notin Roots /\ Rejected \notin Roots /\ NoRoot # Rejected
  /\ EPOCH_LENGTH \in Nat \ {0} /\ GENESIS_TIMESTAMP \in Nat
  /\ InitialStake \in [{Brain} \X Validators -> Nat]
  /\ StakeLevels \subseteq Nat
  /\ MaxTime \in Nat /\ MaxRestarts \in Nat

VARIABLES
  now, vAssets, commitments, isCommitmentSigner, signed, slashed,  \* the chain's
  clock,                  \* time.time()
  pc, vEpoch, wakeAt, target,   \* each validator's loop
  candidates, frozen,     \* CanonicalCandidatePool
  pending, proposed,      \* CommitmentAggregator: <<epoch, root, signer>>, epochs
  mempool,                \* proposeEpoch transactions sent and not yet mined
  restarts,
  cosigned                \* history: <<epoch, root>> that honest validators co-signed

chainVars == <<now, vAssets, commitments, isCommitmentSigner, signed, slashed>>
loopVars  == <<pc, vEpoch, wakeAt, target>>
poolVars  == <<candidates, frozen>>
aggVars   == <<pending, proposed, mempool>>
vars == <<chainVars, clock, loopVars, poolVars, aggVars, restarts, cosigned>>

Registry == INSTANCE ScoringRegistry WITH Brains <- {Brain}

Stake == [v \in Validators |-> vAssets[<<Brain, v>>]]
TotalStake == Total(Stake, Validators)

\* sign_commitment: the signature exists from here on.
Sign(v, e, root) ==
  /\ signed' = signed \cup {<<v, e, Brain, root>>}
  /\ UNCHANGED <<now, vAssets, commitments, isCommitmentSigner, slashed>>

-----------------------------------------------------------------------------
(* The aggregator service.                                                 *)

Submitted(e, v, scores) ==
  [w \in DOMAIN candidates[e] \cup {v} |-> IF w = v THEN scores ELSE candidates[e][w]]

\* Defect: every candidate makes a canonical root, the last one counts.
NotFrozen(e) == TRUE

Unfrozen(e) == frozen[e] = NoRoot

\* CanonicalCandidatePool.add, with what the service answers: the canonical
\* root, NoRoot while there is no quorum, or Rejected (HTTP 400).
AddCandidate(e, v, scores, answer) ==
  LET c == Submitted(e, v, scores)
      need == Need(TotalStake)
      root == Canonical(c, Stake, need)
  IN
  \/ /\ ~ Unfrozen(e)
     /\ answer = frozen[e]
     /\ UNCHANGED poolVars
  \/ /\ Unfrozen(e) /\ Stake[v] = 0
     /\ answer = Rejected               \* no Brain-local stake
     /\ UNCHANGED poolVars
  \/ /\ Unfrozen(e) /\ Stake[v] > 0
     /\ candidates' = [candidates EXCEPT ![e] = c]
     /\ \/ /\ Total(Stake, DOMAIN c) < need
           /\ answer = NoRoot
           /\ UNCHANGED frozen
        \/ /\ Total(Stake, DOMAIN c) >= need
           /\ DOMAIN root = {}
           /\ answer = Rejected         \* no score has quorum coverage
           /\ UNCHANGED frozen
        \/ /\ Total(Stake, DOMAIN c) >= need
           /\ DOMAIN root # {}
           /\ answer = root
           /\ frozen' = [frozen EXCEPT ![e] = root]

\* Defect: counts the validators whose own candidate has that root.
BackersAndCandidates(pend, e, root) ==
  {v \in Validators : \/ <<e, root, v>> \in pend
                      \/ v \in DOMAIN candidates[e] /\ candidates[e][v] = root}

Backers(pend, e, root) == {v \in Validators : <<e, root, v>> \in pend}

\* best_root and quorum_met.  Ties of best_root go by insertion order, here any.
QuorumMet(pend, e, root) ==
  LET backing(r) == Total(Stake, Backers(pend, e, r)) IN
  /\ \A r \in Roots : backing(r) <= backing(root)
  /\ TotalStake # 0
  /\ backing(root) >= Need(TotalStake)

\* POST /commitments: add_commitment, then try_propose if the epoch is complete.
\* build_transaction estimates gas by running the call: if it would revert,
\* nothing is sent and the epoch is not marked as proposed.
ReceiveCommitment(e, v, root) ==
  LET pend == pending \cup {<<e, root, v>>}
      sendable == {r \in Roots :
                     /\ e < Registry!CurrentEpoch
                     /\ e \notin proposed
                     /\ QuorumMet(pend, e, r)
                     /\ Registry!MayPropose(e, Brain, r, Backers(pend, e, r))}
  IN
  /\ pending' = pend
  /\ \/ /\ sendable = {}
        /\ UNCHANGED <<proposed, mempool>>
     \/ \E r \in sendable :
          /\ proposed' = proposed \cup {e}
          /\ mempool' = mempool \cup {[epoch |-> e, root |-> r, signers |-> Backers(pend, e, r)]}

\* The service keeps nothing on disk.
AggregatorRestart ==
  /\ restarts < MaxRestarts
  /\ restarts' = restarts + 1
  /\ candidates' = [e \in Epochs |-> <<>>]
  /\ frozen' = [e \in Epochs |-> NoRoot]
  /\ pending' = {}
  /\ proposed' = {}
  /\ UNCHANGED <<chainVars, clock, loopVars, mempool, cosigned>>

-----------------------------------------------------------------------------
(* The validators.                                                         *)

Goto(v, place) == pc' = [pc EXCEPT ![v] = place]

\* _read_current_epoch: the chain's answer, or the clock when the call fails.
\* _wait_for_epoch_end sleeps to the next hour of the wall clock.
ReadEpoch(v) ==
  /\ pc[v] = "read"
  /\ \/ vEpoch' = [vEpoch EXCEPT ![v] = Registry!CurrentEpoch]
     \/ vEpoch' = [vEpoch EXCEPT ![v] = clock \div EPOCH_LENGTH]
  /\ wakeAt' = [wakeAt EXCEPT ![v] = (clock \div EPOCH_LENGTH + 1) * EPOCH_LENGTH]
  /\ Goto(v, "sleep")
  /\ UNCHANGED <<chainVars, clock, target, poolVars, aggVars, restarts, cosigned>>

Awake(v) == pc[v] = "sleep" /\ clock >= wakeAt[v]

\* No observations, or an epoch beyond those the model looks at.
SkipEpoch(v) ==
  /\ Awake(v)
  /\ Goto(v, "read")
  /\ UNCHANGED <<chainVars, clock, vEpoch, wakeAt, target, poolVars, aggVars, restarts, cosigned>>

\* _submit_candidate: the request or its answer may be lost, which ends the
\* iteration, as does an error status.
PostCandidate(v, scores) ==
  LET e == vEpoch[v] IN
  /\ Awake(v)
  /\ e \in Epochs
  /\ Sign(v, e, scores)
  /\ \/ Goto(v, "read") /\ UNCHANGED <<poolVars, target>>
     \/ \E answer \in Roots \cup {NoRoot, Rejected} :
          /\ AddCandidate(e, v, scores, answer)
          /\ \/ Goto(v, "read") /\ UNCHANGED target
             \/ answer = NoRoot /\ Goto(v, "poll") /\ UNCHANGED target
             \/ /\ answer \in Roots
                /\ Goto(v, "commit")
                /\ target' = [target EXCEPT ![v] = answer]
  /\ UNCHANGED <<clock, vEpoch, wakeAt, aggVars, restarts, cosigned>>

\* GET /candidates answers 200 with a canonical root.
Published(e) == ~ Unfrozen(e)

Poll(v) ==
  /\ pc[v] = "poll"
  /\ Published(vEpoch[v])
  /\ target' = [target EXCEPT ![v] = frozen[vEpoch[v]]]
  /\ Goto(v, "commit")
  /\ UNCHANGED <<chainVars, clock, vEpoch, wakeAt, poolVars, aggVars, restarts, cosigned>>

\* Defect: polls for as long as there is no root.
PollsForever(v) == FALSE

\* Sixty polls two seconds apart, any of which may fail and end the iteration.
PollsOver(v) == pc[v] = "poll"

GiveUp(v) ==
  /\ PollsOver(v)
  /\ Goto(v, "read")
  /\ UNCHANGED <<chainVars, clock, vEpoch, wakeAt, target, poolVars, aggVars, restarts, cosigned>>

\* Signs the canonical root and posts it; a failed post is not repeated.
PostCommitment(v) ==
  LET e == vEpoch[v] IN
  /\ pc[v] = "commit"
  /\ Sign(v, e, target[v])
  /\ cosigned' = cosigned \cup {<<e, target[v]>>}
  /\ \/ UNCHANGED aggVars
     \/ ReceiveCommitment(e, v, target[v])
  /\ Goto(v, "read")
  /\ target' = [target EXCEPT ![v] = NoRoot]
  /\ UNCHANGED <<clock, vEpoch, wakeAt, poolVars, restarts>>

\* The process is restarted; its observations are gone.
ValidatorRestart(v) ==
  /\ pc[v] # "read"
  /\ Goto(v, "read")
  /\ target' = [target EXCEPT ![v] = NoRoot]
  /\ UNCHANGED <<chainVars, clock, vEpoch, wakeAt, poolVars, aggVars, restarts, cosigned>>

OtherCandidate(v, e, scores) ==
  /\ Sign(v, e, scores)
  /\ \E answer \in Roots \cup {NoRoot, Rejected} : AddCandidate(e, v, scores, answer)
  /\ UNCHANGED <<clock, loopVars, aggVars, restarts, cosigned>>

OtherCommitment(v, e, root) ==
  /\ Sign(v, e, root)
  /\ ReceiveCommitment(e, v, root)
  /\ UNCHANGED <<clock, loopVars, poolVars, restarts, cosigned>>

-----------------------------------------------------------------------------
(* The chain and time.                                                     *)

\* A transaction is executed at the latest block, reverts there, or is dropped.
MineTx(tx) ==
  /\ mempool' = mempool \ {tx}
  /\ \/ Registry!ProposeEpoch(tx.epoch, Brain, tx.root, tx.signers)
     \/ UNCHANGED chainVars
  /\ UNCHANGED <<clock, loopVars, poolVars, pending, proposed, restarts, cosigned>>

NewBlock ==
  /\ now < clock
  /\ now' = clock
  /\ UNCHANGED <<vAssets, commitments, isCommitmentSigner, signed, slashed,
                 clock, loopVars, poolVars, aggVars, restarts, cosigned>>

MoveStake(v, amount) ==
  /\ Registry!MoveStake(<<Brain, v>>, amount)
  /\ UNCHANGED <<clock, loopVars, poolVars, aggVars, restarts, cosigned>>

Tick ==
  /\ clock < MaxTime
  /\ clock' = clock + 1
  /\ UNCHANGED <<chainVars, loopVars, poolVars, aggVars, restarts, cosigned>>

Init ==
  /\ Registry!Init
  /\ clock = 0
  /\ pc = [v \in Honest |-> "read"]
  /\ vEpoch = [v \in Honest |-> 0]
  /\ wakeAt = [v \in Honest |-> 0]
  /\ target = [v \in Honest |-> NoRoot]
  /\ candidates = [e \in Epochs |-> <<>>]
  /\ frozen = [e \in Epochs |-> NoRoot]
  /\ pending = {} /\ proposed = {} /\ mempool = {}
  /\ restarts = 0
  /\ cosigned = {}

\* What the loop of v does next, restarts aside.
LoopStep(v) ==
  \/ ReadEpoch(v) \/ SkipEpoch(v) \/ Poll(v) \/ GiveUp(v) \/ PostCommitment(v)
  \/ \E scores \in Observations : PostCandidate(v, scores)

Next ==
  \/ \E v \in Honest : LoopStep(v) \/ ValidatorRestart(v)
  \/ \E v \in Validators \ Honest, e \in Epochs, root \in Roots :
       OtherCandidate(v, e, root) \/ OtherCommitment(v, e, root)
  \/ \E tx \in mempool : MineTx(tx)
  \/ \E v \in Validators, amount \in StakeLevels : MoveStake(v, amount)
  \/ AggregatorRestart \/ NewBlock \/ Tick

\* The event loop of a validator keeps running, and every request it awaits has
\* a timeout; time passes.
Fairness == WF_clock(Tick) /\ \A v \in Honest : WF_pc(LoopStep(v))

Spec == Init /\ [][Next]_vars /\ Fairness

-----------------------------------------------------------------------------
OthersAreMinority == 2 * Total(Stake, Validators \ Honest) < TotalStake

\* While less than half of the stake is dishonest, the chain accepts only a root
\* that some honest validator co-signed as the canonical one: a validator's own
\* candidate, signed over the same digest, never becomes the commitment of an
\* epoch, whatever is lost, restarted or resubmitted.
CommittedWasCanonical ==
  [][\A e \in Epochs :
       LET root == commitments'[<<e, Brain>>].root IN
       root # commitments[<<e, Brain>>].root /\ OthersAreMinority
         => <<e, root>> \in cosigned]_vars

\* A canonical score lies between two honest scores of that miner as long as
\* less than half of the stake that scored the miner is dishonest.
CanonicalWithinHonest ==
  [][\A e \in Epochs : frozen'[e] \notin {frozen[e], NoRoot} =>
       \A m \in DOMAIN frozen'[e] :
         LET c == candidates'[e]
             all == Scorers(c, Stake, m)
         IN 2 * Total(Stake, all \ Honest) < Total(Stake, all) =>
              /\ \E v \in all \cap Honest : c[v][m] <= frozen'[e][m]
              /\ \E v \in all \cap Honest : c[v][m] >= frozen'[e][m]]_vars

\* "All validators then sign that same root" (runtime.py): the co-signatures of
\* honest validators never split over two roots of one epoch.
AllSignSameRoot ==
  \A e \in Epochs : \A r1, r2 \in Roots :
    <<e, r1>> \in cosigned /\ <<e, r2>> \in cosigned => r1 = r2

\* As long as the aggregator has kept its memory, whatever order candidates,
\* polls and lost answers come in, all honest co-signatures are for one root.
SameRootUntilRestart == restarts = 0 => AllSignSameRoot

\* No wait of the epoch loop lasts: every validator comes back to read the epoch.
LoopReturns ==
  \A v \in Honest : pc[v] # "read" /\ wakeAt[v] <= MaxTime ~> pc[v] = "read"

\* "used to forge equivocation from roots they legitimately signed elsewhere":
\* what the registry's signatures are bound to is there to prevent that.  The
\* runtime signs its candidate root and the canonical root in the same domain.
HonestNeverEquivocates ==
  \A v \in Honest, e \in Epochs : \A r1, r2 \in Roots :
    <<v, e, Brain, r1>> \in signed /\ <<v, e, Brain, r2>> \in signed => r1 = r2
=============================================================================
