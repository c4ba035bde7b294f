------------------------------ MODULE Challenges -----------------------------
(***************************************************************************)
(* What a validator scores miners by: its challenge loop and its epoch     *)
(* loop (validator/src/basedai_validator/runtime.py), which share the list *)
(* of observations, and the miner's answer (_handle_challenge of           *)
(* miner/src/basedai_miner/runtime.py).                                    *)
(*                                                                         *)
(* Both loops are coroutines of one process: the challenge loop gives way  *)
(* while it waits for a miner, the epoch loop while it waits for the       *)
(* aggregator (EpochProtocol is about that wait).  The listing is the      *)
(* gateway's, here any set of miners.                                      *)
(***************************************************************************)
EXTENDS Scoring, Merkle

CONSTANTS
  Miners, Honest,         \* Honest answer with the right text, if they answer
  Prompts,
  Right, Wrong, Zero,     \* response hashes: of the right text, of another, of none
  Latencies,
  OtherLeaves,            \* sets of leaves for miners that only other validators observe
  MaxObservations         \* bound

\* The rows of a canonical root: a dictionary of miners gives each one score.
OneLeafEach(tree) ==
  /\ IsFiniteSet(tree)
  /\ \A l \in tree : DOMAIN l = {"miner", "score"} /\ l.score \in Nat
  /\ \A l, k \in tree : l.miner = k.miner => l = k

ASSUME ChallengesAssumption ==
  /\ Honest \subseteq Miners
  /\ Zero \notin {Right, Wrong}            \* no text hashes to zeros
  /\ Latencies \subseteq Nat
  /\ \A others \in OtherLeaves :
       OneLeafEach(others) /\ \A l \in others : l.miner \notin Miners
  /\ MaxObservations \in Nat

VARIABLES
  registered,     \* isValidator of this validator
  observations,   \* _observations; "old" is history: an epoch has ended since
  asked,          \* the challenge under way
  posting,        \* whether the epoch loop waits for the aggregator
  leaves          \* the leaves of the root it posts

challengeVars == <<registered, observations, asked, posting, leaves>>

Nobody == "nobody"

\* _verify_registration, with a transaction that may fail.
VerifyRegistration ==
  /\ ~ registered
  /\ registered' = TRUE
  /\ UNCHANGED <<observations, asked, posting, leaves>>

Deregistered ==
  /\ registered
  /\ registered' = FALSE
  /\ UNCHANGED <<observations, asked, posting, leaves>>

\* _discover_miners and the random choice of a miner and a prompt.
IssueChallenge(m, p) ==
  /\ asked = Nobody
  /\ Len(observations) < MaxObservations                        \* bound
  /\ asked' = <<m, p>>
  /\ UNCHANGED <<registered, observations, posting, leaves>>

Outcome(hash, overlap, latency) == [hash |-> hash, overlap |-> overlap, latency |-> latency]

\* An error, a timeout or an unreachable miner: empty text and a zero hash.
Failures == {Outcome(Zero, 0, latency) : latency \in Latencies}

\* _handle_challenge: only a registered validator gets a text.
HonestOutcomes ==
  Failures \cup (IF registered THEN {Outcome(Right, FP, latency) : latency \in Latencies} ELSE {})

OtherOutcomes ==
  Failures \cup {Outcome(hash, overlap, latency) :
                   hash \in {Right, Wrong}, overlap \in {0, FP}, latency \in Latencies}

RecordObservation(o) ==
  /\ asked # Nobody
  /\ o \in IF asked[1] \in Honest THEN HonestOutcomes ELSE OtherOutcomes
  /\ observations' = Append(observations,
       [miner |-> asked[1], prompt |-> asked[2], hash |-> o.hash, overlap |-> o.overlap,
        latency |-> o.latency, old |-> FALSE])
  /\ asked' = Nobody
  /\ UNCHANGED <<registered, posting, leaves>>

\* _post_epoch_commitment up to its first await.
BeginPosting ==
  /\ ~ posting
  /\ observations # <<>>
  /\ posting' = TRUE
  /\ leaves' = {[miner |-> m, score |-> ScoreMiners(observations)[m]] : m \in Scored(observations)}
  /\ UNCHANGED <<registered, observations, asked>>

\* Defect: what an epoch failed to post is scored again in the next.
KeptOnFailure(failed) == IF failed THEN observations ELSE <<>>

Cleared(failed) == <<>>

\* The root is posted or the attempt has failed; all observations go, those made
\* meanwhile as well.
EndPosting(failed) ==
  /\ posting
  /\ posting' = FALSE
  /\ leaves' = {}
  /\ observations' = [i \in DOMAIN Cleared(failed) |-> [Cleared(failed)[i] EXCEPT !.old = TRUE]]
  /\ UNCHANGED <<registered, asked>>

ValidatorRestart ==
  /\ asked' = Nobody /\ posting' = FALSE
  /\ observations' = <<>> /\ leaves' = {}
  /\ UNCHANGED registered

ChallengesInit ==
  /\ registered = FALSE
  /\ observations = <<>> /\ asked = Nobody
  /\ posting = FALSE /\ leaves = {}

ChallengesNext ==
  \/ VerifyRegistration \/ Deregistered
  \/ \E m \in Miners, p \in Prompts : IssueChallenge(m, p)
  \/ \E o \in HonestOutcomes \cup OtherOutcomes : RecordObservation(o)
  \/ BeginPosting
  \/ \E failed \in BOOLEAN : EndPosting(failed)
  \/ ValidatorRestart

ChallengesSpec == ChallengesInit /\ [][ChallengesNext]_challengeVars

-----------------------------------------------------------------------------
\* What is scored was observed since the last epoch ended: whatever is under way
\* when an epoch ends, no response counts in two epochs.
ScoredInOneEpoch ==
  posting => \A i \in DOMAIN observations : ~ observations[i].old

Always(m, good(_)) == \A i \in About(observations, m) : good(observations[i])

\* A miner that gave the reference text each time never ranks below one that failed
\* each time, even when failures are so many that they are the modal response and
\* are faster than any answer.
AnswersOutrankFailures ==
  LET scores == ScoreMiners(observations)
      right(o) == o.overlap = FP /\ o.prompt \in Referenced
      failed(o) == o.hash = Zero /\ o.prompt \in Referenced
  IN \A m, n \in Scored(observations) :
       Always(m, right) /\ Always(n, failed) => scores[m] >= scores[n]

\* A root binds its scores, whichever leaves other validators' candidates add to
\* the canonical one: the registry accepts the proof of every leaf, and no proof of
\* the tree for another score of the miner.
ProofsBindScores ==
  \A others \in OtherLeaves :
    LET tree == leaves \cup others
        root == Root(tree)
        proofs == {Proof(tree, leaf) : leaf \in tree}
    IN \A leaf \in tree :
         /\ VerifyScore(root, leaf, Proof(tree, leaf))
         /\ \A proof \in proofs : ~ VerifyScore(root, [leaf EXCEPT !.score = @ + 1], proof)
=============================================================================
