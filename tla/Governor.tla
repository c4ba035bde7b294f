------------------------------ MODULE Governor ------------------------------
(***************************************************************************)
(* BasedGovernor over the brains on L2 and the vault's record of stake.    *)
(*                                                                         *)
(* The record of the seconds that are over never changes (StakeHistory);   *)
(* what the governor reads of it is the stake at the end of the last one,  *)
(* when a proposal is made, and at the end of the proposal's snapshot.     *)
(* The proposals modelled set the quorum.  Their states, the counting and  *)
(* the timelock are OpenZeppelin's, as the overrides of the contract call  *)
(* them.                                                                   *)
(***************************************************************************)
EXTENDS Brains

CONSTANTS
  Proposals,
  GIGABRAIN_THRESHOLD_BPS,
  StakeLevels,               \* what the vault may hold for a brain
  InitialQuorum,
  NewQuorum                  \* the quorum each proposal sets

ASSUME GovernorAssumption ==
  /\ GIGABRAIN_THRESHOLD_BPS \in Nat /\ StakeLevels \subseteq Nat
  /\ InitialQuorum \in Nat /\ NewQuorum \in [Proposals -> Nat]

VARIABLES
  stake,          \* live stake of each brain in the vault
  settled,        \* its record for the last second that is over
  proposal,
  quorumVotes

governorVars == <<stake, settled, proposal, quorumVotes>>
govVars == <<brainVars, governorVars>>

Stages == {"unknown", "pending", "active", "closed", "queued", "executed", "canceled"}
Support == {"for", "against", "abstain"}

\* The snapshot's GigaBrains, _brainVoted, hasVoted and the counts; and, as history,
\* the quorum that was in force when the proposal was queued.
NoProposal ==
  [stage |-> "unknown", proposer |-> Nobody, giga |-> {}, voted |-> {}, voters |-> {},
   votes |-> [s \in Support |-> 0], needed |-> 0]

-----------------------------------------------------------------------------
(* Stake.                                                                  *)

\* _gigaBrainThreshold, rounded up
Threshold(record) == (Total(record, Ids) * GIGABRAIN_THRESHOLD_BPS + 9999) \div 10000

GigaBrains(record) ==
  {b \in Ids : Threshold(record) # 0 /\ record[b] >= Threshold(record)}

\* stake, requestUnstake, slash and notifyReward of the vault
ChangeStake(b, amount) ==
  /\ stake' = [stake EXCEPT ![b] = amount]
  /\ UNCHANGED <<brainVars, settled, proposal, quorumVotes>>

\* A second is over, and with it perhaps the snapshot's of some pending proposals.
EndOfSecond(starting) ==
  /\ \A p \in starting : proposal[p].stage = "pending"
  /\ settled' = stake
  /\ proposal' = [p \in Proposals |->
       IF p \in starting THEN [proposal[p] EXCEPT !.stage = "active", !.giga = GigaBrains(stake)]
       ELSE proposal[p]]
  /\ UNCHANGED <<brainVars, stake, quorumVotes>>

-----------------------------------------------------------------------------
(* Proposals.                                                              *)

OwnedOnL2(u) == {b \in Ids : owner2[b] = u}

\* _getVotes against the proposal threshold of one
MayPropose(u) == OwnedOnL2(u) \cap GigaBrains(settled) # {}

Propose(u, p) ==
  /\ proposal[p].stage = "unknown"
  /\ MayPropose(u)
  /\ proposal' = [proposal EXCEPT ![p].stage = "pending", ![p].proposer = u]
  /\ UNCHANGED <<brainVars, stake, settled, quorumVotes>>

\* Defect: a brain counts for every account that holds it during the vote.
HeldNow(u, p) == OwnedOnL2(u) \cap proposal[p].giga

\* Each brain is counted once for a proposal.
Uncounted(u, p) == (OwnedOnL2(u) \cap proposal[p].giga) \ proposal[p].voted

\* _castVote, then _countVote, which refuses a second ballot of an account.
CastVote(u, p, support) ==
  /\ proposal[p].stage = "active"
  /\ u \notin proposal[p].voters
  /\ proposal' = [proposal EXCEPT
       ![p].voted = @ \cup Uncounted(u, p),
       ![p].voters = @ \cup {u},
       ![p].votes[support] = @ + Cardinality(Uncounted(u, p))]
  /\ UNCHANGED <<brainVars, stake, settled, quorumVotes>>

\* The voting period is over.
VotingEnds(p) ==
  /\ proposal[p].stage = "active"
  /\ proposal' = [proposal EXCEPT ![p].stage = "closed"]
  /\ UNCHANGED <<brainVars, stake, settled, quorumVotes>>

QuorumReached(votes) == votes["for"] + votes["abstain"] >= quorumVotes

\* Defect: a tie is enough.
TieSucceeds(votes) == votes["for"] >= votes["against"]

VoteSucceeded(votes) == votes["for"] > votes["against"]

\* The quorum is the live one, not that of the snapshot.
Queue(p) ==
  /\ proposal[p].stage = "closed"
  /\ QuorumReached(proposal[p].votes) /\ VoteSucceeded(proposal[p].votes)
  /\ proposal' = [proposal EXCEPT ![p].stage = "queued", ![p].needed = quorumVotes]
  /\ UNCHANGED <<brainVars, stake, settled, quorumVotes>>

\* The timelock's delay is over; anyone may execute.
Execute(p) ==
  /\ proposal[p].stage = "queued"
  /\ proposal' = [proposal EXCEPT ![p].stage = "executed"]
  /\ quorumVotes' = NewQuorum[p]
  /\ UNCHANGED <<brainVars, stake, settled>>

\* By the proposer before the vote, or by the timelock's canceller.
Cancel(p) ==
  /\ proposal[p].stage \in {"pending", "queued"}
  /\ proposal' = [proposal EXCEPT ![p].stage = "canceled"]
  /\ UNCHANGED <<brainVars, stake, settled, quorumVotes>>

GovernorInit ==
  /\ BrainsInit
  /\ stake \in [Ids -> StakeLevels] /\ settled = stake
  /\ proposal = [p \in Proposals |-> NoProposal]
  /\ quorumVotes = InitialQuorum

GovernorStep ==
  \/ \E b \in Ids, amount \in StakeLevels : ChangeStake(b, amount)
  \/ \E starting \in SUBSET Proposals : EndOfSecond(starting)
  \/ \E p \in Proposals :
       \/ VotingEnds(p) \/ Queue(p) \/ Execute(p) \/ Cancel(p)
       \/ \E u \in Users : Propose(u, p) \/ \E support \in Support : CastVote(u, p, support)

GovernorNext ==
  \/ BrainsNext /\ UNCHANGED governorVars
  \/ GovernorStep

GovernorSpec == GovernorInit /\ [][GovernorNext]_govVars

-----------------------------------------------------------------------------
(* Properties.                                                             *)

VotesOf(p) == proposal[p].votes["for"] + proposal[p].votes["against"] + proposal[p].votes["abstain"]

\* "1 vote per Brain": the votes of a proposal are as many as the brains counted for
\* it, all of them GigaBrains of its snapshot, although a brain may cross to L1 and
\* back to another owner during the vote, who has not voted yet.
BrainsVoteOnce ==
  \A p \in Proposals :
    /\ VotesOf(p) = Cardinality(proposal[p].voted)
    /\ proposal[p].voted \subseteq proposal[p].giga

\* What runs was approved by GigaBrains of the snapshot: different brains, as many
\* as the quorum that was in force when it was queued, were for it or abstained, and
\* more were for it than against.
NothingRunsUnapproved ==
  \A p \in Proposals : proposal[p].stage \in {"queued", "executed"} =>
    \E approving \in SUBSET (proposal[p].voted \cap proposal[p].giga) :
      /\ Cardinality(approving) = VotesOf(p) - proposal[p].votes["against"]
      /\ Cardinality(approving) >= proposal[p].needed
      /\ proposal[p].votes["for"] > proposal[p].votes["against"]
=============================================================================
