----------------------------- MODULE EpochProofs ----------------------------
(***************************************************************************)
(* The safety properties of EpochProtocol for every set of validators,     *)
(* every distribution of stake and every number of restarts.               *)
(***************************************************************************)
EXTENDS EpochProtocol, TotalsTheorems

-----------------------------------------------------------------------------
(* The weighted median.                                                    *)

\* The stake of a finite set of scorers.
LEMMA ScorersStake ==
  ASSUME NEW D, IsFiniteSet(D), NEW stake, \A v \in D : stake[v] \in Nat
  PROVE  /\ Total(stake, D) \in Nat
         /\ \A E \in SUBSET D : /\ Total(stake, E) \in Nat
                                /\ Total(stake, E) <= Total(stake, D)
                                /\ Total(stake, D) = Total(stake, E) + Total(stake, D \ E)
BY CoinsFinite, TotalMonotone, TotalParts

\* What Median chooses exists: a score up to which half of the stake has scored,
\* and the lowest of these.
LEMMA MedianIsLowestHalf ==
  ASSUME NEW c, NEW stake, NEW m,
         IsFiniteSet(Scorers(c, stake, m)), Scorers(c, stake, m) # {},
         \A v \in Scorers(c, stake, m) : stake[v] \in Nat /\ c[v][m] \in Nat
  PROVE  LET all == Scorers(c, stake, m)
             median == Median(c, stake, m)
             half(s) == 2 * Total(stake, UpTo(c, stake, m, s)) >= Total(stake, all)
         IN /\ median \in {c[v][m] : v \in all}
            /\ half(median)
            /\ \A t \in {c[v][m] : v \in all} : half(t) => median <= t
<1> DEFINE all == Scorers(c, stake, m)
           score == [v \in all |-> c[v][m]]
           scores == {c[v][m] : v \in all}
           half(s) == 2 * Total(stake, UpTo(c, stake, m, s)) >= Total(stake, all)
           halves == {s \in scores : half(s)}
<1>1. IsFiniteSet(scores) /\ scores \in SUBSET Nat /\ scores # {}
  <2>1. score \in Surjection(all, scores)
    BY DEF Surjection
  <2> QED BY <2>1, FS_Surjection
<1>2. PICK top \in scores : \A t \in scores : t <= top
  BY <1>1, GreatestNumber
<1>3. UpTo(c, stake, m, top) = all
  BY <1>2 DEF UpTo
<1>4. half(top)
  BY <1>3, ScorersStake
<1>5. \E s \in halves : \A t \in halves : s <= t
  BY <1>1, <1>4, LeastNumber
<1>6. \E s \in scores : half(s) /\ \A t \in scores : half(t) => s <= t
  BY <1>5
<1> HIDE DEF half
<1>7. Median(c, stake, m) = CHOOSE s \in scores : half(s) /\ \A t \in scores : half(t) => s <= t
  BY DEF Median, half
<1>8. /\ Median(c, stake, m) \in scores
      /\ half(Median(c, stake, m))
      /\ \A t \in scores : half(t) => Median(c, stake, m) <= t
  BY <1>6, <1>7
<1> QED BY <1>8 DEF half

\* Whoever scores what: while those outside some group have less than half of the
\* scorers' stake, the median lies between two scores of the group.
THEOREM MedianWithinMajority ==
  ASSUME NEW c, NEW stake, NEW m, NEW Group,
         IsFiniteSet(Scorers(c, stake, m)), Scorers(c, stake, m) # {},
         \A v \in Scorers(c, stake, m) : stake[v] \in Nat /\ c[v][m] \in Nat,
         2 * Total(stake, Scorers(c, stake, m) \ Group) < Total(stake, Scorers(c, stake, m))
  PROVE  /\ \E v \in Scorers(c, stake, m) \cap Group : c[v][m] <= Median(c, stake, m)
         /\ \E v \in Scorers(c, stake, m) \cap Group : c[v][m] >= Median(c, stake, m)
<1> DEFINE all == Scorers(c, stake, m)
           median == Median(c, stake, m)
           upto(s) == UpTo(c, stake, m, s)
           half(s) == 2 * Total(stake, upto(s)) >= Total(stake, all)
<1>1. /\ median \in {c[v][m] : v \in all} /\ median \in Nat
      /\ half(median)
      /\ \A t \in {c[v][m] : v \in all} : half(t) => median <= t
  BY MedianIsLowestHalf
<1>2. /\ Total(stake, all) \in Nat
      /\ Total(stake, all \ Group) \in Nat
      /\ Total(stake, all \cap Group) \in Nat
      /\ Total(stake, all) = Total(stake, all \cap Group) + Total(stake, all \ Group)
  <2>1. /\ all \ (all \cap Group) = all \ Group
        /\ all \cap Group \in SUBSET all /\ all \ Group \in SUBSET all
    OBVIOUS
  <2>2. /\ Total(stake, all) \in Nat
        /\ \A E \in SUBSET all : /\ Total(stake, E) \in Nat
                                 /\ Total(stake, all) = Total(stake, E) + Total(stake, all \ E)
    BY ScorersStake
  <2> HIDE DEF all
  <2> QED BY <2>1, <2>2
<1>3. \A s : upto(s) \subseteq all
  BY DEF UpTo
<1> HIDE DEF upto
<1>4. \E v \in all \cap Group : c[v][m] <= median
  <2> SUFFICES ASSUME \A v \in all \cap Group : ~ (c[v][m] <= median) PROVE FALSE
    OBVIOUS
  <2>1. upto(median) \in SUBSET (all \ Group)
    BY DEF upto, UpTo
  <2>2. IsFiniteSet(all \ Group)
    BY FS_Subset
  <2>3. Total(stake, upto(median)) \in Nat /\ Total(stake, upto(median)) <= Total(stake, all \ Group)
    BY <2>1, <2>2, ScorersStake
  <2> QED BY <1>1, <1>2, <2>3
<1>5. \E v \in all \cap Group : c[v][m] >= median
  <2> SUFFICES ASSUME \A v \in all \cap Group : ~ (c[v][m] >= median) PROVE FALSE
    OBVIOUS
  <2> DEFINE score == [v \in all \cap Group |-> c[v][m]]
             scores == {c[v][m] : v \in all \cap Group}
  <2>1. all \cap Group # {}
    <3> SUFFICES ASSUME all \cap Group = {} PROVE FALSE
      OBVIOUS
    <3>1. all \ Group = all
      OBVIOUS
    <3>2. 2 * Total(stake, all) < Total(stake, all)
      BY <3>1
    <3> QED BY <1>2, <3>2
  <2>2. IsFiniteSet(scores) /\ scores \in SUBSET Nat /\ scores # {}
    <3>1. score \in Surjection(all \cap Group, scores)
      BY DEF Surjection
    <3>2. IsFiniteSet(all \cap Group)
      BY FS_Subset
    <3> QED BY <2>1, <3>1, <3>2, FS_Surjection
  <2>3. PICK top \in scores : \A t \in scores : t <= top
    BY <2>2, GreatestNumber
  <2>4. all \cap Group \in SUBSET upto(top)
    BY <2>3 DEF upto, UpTo
  <2>5. Total(stake, upto(top)) \in Nat /\ Total(stake, all \cap Group) <= Total(stake, upto(top))
    <3>1. IsFiniteSet(upto(top)) /\ \A v \in upto(top) : stake[v] \in Nat
      BY <1>3, FS_Subset
    <3> QED BY <2>4, <3>1, ScorersStake
  <2>6. half(top)
    BY <1>2, <2>5
  <2>7. median <= top /\ top < median
    BY <1>1, <2>2, <2>3, <2>6
  <2> QED BY <1>1, <2>2, <2>7
<1> QED BY <1>4, <1>5

-----------------------------------------------------------------------------
(* Types.                                                                  *)

Answers == Roots \cup {NoRoot, Rejected}
Contributions == UNION { [W -> Roots] : W \in SUBSET Validators }

ProtocolTypeOK ==
  /\ now \in Nat /\ clock \in Nat /\ restarts \in Nat
  /\ vAssets \in [{Brain} \X Validators -> Nat]
  /\ DOMAIN commitments = Epochs \X {Brain}
  /\ pc \in [Honest -> {"read", "sleep", "poll", "commit"}]
  /\ vEpoch \in [Honest -> Nat]
  /\ target \in [Honest -> Answers]
  /\ candidates \in [Epochs -> Contributions]
  /\ frozen \in [Epochs -> Answers]
  /\ \A tx \in mempool : tx.signers \in SUBSET Validators

\* Whoever waits for a root or is about to co-sign does it for an epoch there is.
AwaitsKnownEpoch == \A v \in Honest : pc[v] \in {"poll", "commit"} => vEpoch[v] \in Epochs

\* Before the first restart, what is about to be co-signed and what was co-signed is
\* the frozen root.
CosignsTheFrozen ==
  restarts = 0 =>
    /\ \A v \in Honest : pc[v] = "commit" =>
         target[v] = frozen[vEpoch[v]] /\ target[v] # NoRoot
    /\ \A p \in cosigned : p[1] \in Epochs /\ p[2] = frozen[p[1]] /\ p[2] # NoRoot

\* What the aggregator holds or has sent in the name of an honest validator, that
\* validator has co-signed.
HonestBackersCosigned ==
  /\ \A p \in pending : p[3] \in Honest => <<p[1], p[2]>> \in cosigned
  /\ \A tx \in mempool : \A v \in tx.signers \cap Honest : <<tx.epoch, tx.root>> \in cosigned

EpochInv ==
  ProtocolTypeOK /\ AwaitsKnownEpoch /\ CosignsTheFrozen /\ HonestBackersCosigned

\* A validator's candidate takes its place among the others.
LEMMA SubmittedType ==
  ASSUME ProtocolTypeOK, NEW e \in Epochs, NEW v \in Validators, NEW scores \in Roots
  PROVE  Submitted(e, v, scores) \in Contributions
<1>1. PICK W \in SUBSET Validators : candidates[e] \in [W -> Roots]
  BY DEF ProtocolTypeOK, Contributions
<1>2. Submitted(e, v, scores) \in [W \cup {v} -> Roots]
  BY <1>1 DEF Submitted
<1> QED BY <1>2 DEF Contributions

\* A candidate freezes at most the root of its own epoch, only when none was frozen,
\* and then as the canonical scores of the candidates there are; the root that is
\* answered is the frozen one.
LEMMA AddCandidateFreezesOnce ==
  ASSUME ProtocolTypeOK, NEW e \in Epochs, NEW v \in Validators, NEW scores \in Roots,
         NEW answer \in Answers, AddCandidate(e, v, scores, answer)
  PROVE  /\ candidates' \in [Epochs -> Contributions]
         /\ frozen' \in [Epochs -> Answers]
         /\ \A x \in Epochs : frozen[x] # NoRoot => frozen'[x] = frozen[x]
         /\ answer \in Roots => frozen'[e] = answer
         /\ \A x \in Epochs : frozen'[x] # frozen[x] =>
              frozen'[x] = Canonical(candidates'[x], Stake, Need(TotalStake))
<1> DEFINE c == Submitted(e, v, scores)
           root == Canonical(c, Stake, Need(TotalStake))
<1>1. c \in Contributions
  BY SubmittedType
<1>2. CASE UNCHANGED poolVars /\ answer = frozen[e]
  BY <1>2 DEF poolVars, ProtocolTypeOK
<1>3. CASE UNCHANGED poolVars /\ answer = Rejected
  BY <1>3, ProtocolAssumption DEF poolVars, ProtocolTypeOK
<1>4. CASE /\ Unfrozen(e)
           /\ candidates' = [candidates EXCEPT ![e] = c]
           /\ UNCHANGED frozen
           /\ answer \in {NoRoot, Rejected}
  BY <1>1, <1>4, ProtocolAssumption DEF ProtocolTypeOK
<1>5. CASE /\ Unfrozen(e)
           /\ candidates' = [candidates EXCEPT ![e] = c]
           /\ answer = root
           /\ frozen' = [frozen EXCEPT ![e] = root]
  <2> HIDE DEF c
  <2>1. root \in Answers /\ frozen[e] = NoRoot
    BY <1>5 DEF Unfrozen
  <2>2. /\ candidates'[e] = c /\ frozen'[e] = root
        /\ \A x \in Epochs \ {e} : frozen'[x] = frozen[x]
    BY <1>5 DEF ProtocolTypeOK
  <2> HIDE DEF root
  <2>3. candidates' \in [Epochs -> Contributions] /\ frozen' \in [Epochs -> Answers]
    BY <1>1, <1>5, <2>1 DEF ProtocolTypeOK
  <2>4. frozen'[e] = Canonical(candidates'[e], Stake, Need(TotalStake))
    BY <2>2 DEF root
  <2> QED BY <1>5, <2>1, <2>2, <2>3, <2>4
<1> QED BY <1>2, <1>3, <1>4, <1>5 DEF AddCandidate

\* The chain's epoch is a number.
LEMMA CurrentEpochType == ProtocolTypeOK => Registry!CurrentEpoch \in Nat
<1> SUFFICES ASSUME ProtocolTypeOK PROVE Registry!CurrentEpoch \in Nat
  OBVIOUS
<1>1. now \in Nat /\ GENESIS_TIMESTAMP \in Nat /\ EPOCH_LENGTH \in Nat \ {0}
  BY ProtocolAssumption DEF ProtocolTypeOK
<1>2. ~ (now < GENESIS_TIMESTAMP) => (now - GENESIS_TIMESTAMP) \div EPOCH_LENGTH \in Nat
  BY <1>1, FloorDivision
<1> QED BY <1>2 DEF Registry!CurrentEpoch

\* What is sent to the chain is signed by those the aggregator has signatures of.
LEMMA SentIsBacked ==
  ASSUME NEW e, NEW v, NEW root, ReceiveCommitment(e, v, root)
  PROVE  /\ pending' = pending \cup {<<e, root, v>>}
         /\ \A tx \in mempool' \ mempool :
              /\ tx.signers \in SUBSET Validators
              /\ \A w \in tx.signers : <<tx.epoch, tx.root, w>> \in pending'
<1> DEFINE pend == pending \cup {<<e, root, v>>}
<1>1. pending' = pend
  BY DEF ReceiveCommitment
<1>2. \/ mempool' = mempool
      \/ \E r : mempool' = mempool \cup {[epoch |-> e, root |-> r, signers |-> Backers(pend, e, r)]}
  BY DEF ReceiveCommitment
<1>3. \A r : /\ Backers(pend, e, r) \in SUBSET Validators
             /\ \A w \in Backers(pend, e, r) : <<e, r, w>> \in pend
  BY DEF Backers
<1> HIDE DEF pend
<1>4. CASE mempool' = mempool
  BY <1>1, <1>4 DEF pend
<1>5. ASSUME NEW r,
             mempool' = mempool \cup {[epoch |-> e, root |-> r, signers |-> Backers(pend, e, r)]}
      PROVE  \A tx \in mempool' \ mempool :
               /\ tx.signers \in SUBSET Validators
               /\ \A w \in tx.signers : <<tx.epoch, tx.root, w>> \in pending'
  BY <1>1, <1>3, <1>5
<1> QED BY <1>1, <1>2, <1>4, <1>5 DEF pend

\* What mining does: at most one commitment gets a root, and its signers hold a
\* quorum.
LEMMA MinedWithQuorum ==
  ASSUME ProtocolTypeOK, NEW tx \in mempool, MineTx(tx)
  PROVE  /\ UNCHANGED <<now, vAssets>>
         /\ DOMAIN commitments' = Epochs \X {Brain}
         /\ \A e \in Epochs :
              commitments'[<<e, Brain>>].root # commitments[<<e, Brain>>].root =>
                /\ tx.epoch = e /\ tx.root = commitments'[<<e, Brain>>].root
                /\ Registry!MayPropose(e, Brain, tx.root, tx.signers)
<1>1. CASE UNCHANGED chainVars
  BY <1>1 DEF chainVars, ProtocolTypeOK
<1>2. CASE Registry!ProposeEpoch(tx.epoch, Brain, tx.root, tx.signers)
  BY <1>2 DEF Registry!ProposeEpoch, ProtocolTypeOK
<1> QED BY <1>1, <1>2 DEF MineTx

-----------------------------------------------------------------------------
(* The invariant.                                                          *)

\* At the start nobody awaits anything and nothing is co-signed.
LEMMA EpochInvInit == Init => EpochInv
<1> SUFFICES ASSUME Init PROVE EpochInv
  OBVIOUS
<1>1. now = 0 /\ vAssets = InitialStake /\ DOMAIN commitments = Epochs \X {Brain}
  BY DEF Init, Registry!Init, Registry!Keys
<1>2. <<>> \in Contributions
  <2>1. <<>> \in [{} -> Roots]
    OBVIOUS
  <2> QED BY <2>1 DEF Contributions
<1>3. ProtocolTypeOK
  BY <1>1, <1>2, ProtocolAssumption DEF Init, ProtocolTypeOK, Answers
<1> QED BY <1>3 DEF Init, EpochInv, AwaitsKnownEpoch, CosignsTheFrozen, HonestBackersCosigned

\* No step breaks the types.
LEMMA ProtocolTypesNext == ProtocolTypeOK /\ AwaitsKnownEpoch /\ [Next]_vars => ProtocolTypeOK'
<1> SUFFICES ASSUME ProtocolTypeOK, AwaitsKnownEpoch, [Next]_vars PROVE ProtocolTypeOK'
  OBVIOUS
<1> USE DEF ProtocolTypeOK
<1>1. ASSUME NEW v \in Honest, ReadEpoch(v) PROVE ProtocolTypeOK'
  <2>1. Registry!CurrentEpoch \in Nat /\ clock \div EPOCH_LENGTH \in Nat
    BY CurrentEpochType, FloorDivision, ProtocolAssumption
  <2>2. vEpoch' \in [Honest -> Nat] /\ pc' \in [Honest -> {"read", "sleep", "poll", "commit"}]
    BY <1>1, <2>1 DEF ReadEpoch, Goto
  <2> QED BY <1>1, <2>2 DEF ReadEpoch, chainVars, poolVars, aggVars
<1>2. ASSUME NEW v \in Honest, SkipEpoch(v) \/ GiveUp(v) PROVE ProtocolTypeOK'
  BY <1>2 DEF SkipEpoch, GiveUp, Goto, chainVars, poolVars, aggVars
<1>3. ASSUME NEW v \in Honest, NEW scores \in Observations, PostCandidate(v, scores)
      PROVE  ProtocolTypeOK'
  <2> DEFINE e == vEpoch[v]
  <2>1. e \in Epochs /\ scores \in Roots /\ v \in Validators
    BY <1>3, ProtocolAssumption DEF PostCandidate
  <2>2. candidates' \in [Epochs -> Contributions] /\ frozen' \in [Epochs -> Answers]
    <3>1. CASE UNCHANGED poolVars
      BY <3>1 DEF poolVars
    <3>2. ASSUME NEW answer \in Answers, AddCandidate(e, v, scores, answer)
          PROVE  candidates' \in [Epochs -> Contributions] /\ frozen' \in [Epochs -> Answers]
      BY <2>1, <3>2, AddCandidateFreezesOnce
    <3> QED BY <1>3, <3>1, <3>2 DEF PostCandidate, Answers
  <2>3. target' \in [Honest -> Answers] /\ pc' \in [Honest -> {"read", "sleep", "poll", "commit"}]
    BY <1>3 DEF PostCandidate, Goto, Answers
  <2> QED BY <1>3, <2>2, <2>3 DEF PostCandidate, Sign, aggVars
<1>4. ASSUME NEW v \in Honest, Poll(v) PROVE ProtocolTypeOK'
  <2>1. frozen[vEpoch[v]] \in Answers
    BY <1>4 DEF Poll, AwaitsKnownEpoch
  <2> QED BY <1>4, <2>1 DEF Poll, Goto, chainVars, poolVars, aggVars
<1>5. ASSUME NEW v \in Honest, PostCommitment(v) PROVE ProtocolTypeOK'
  <2>1. \A tx \in mempool' : tx.signers \in SUBSET Validators
    BY <1>5, SentIsBacked DEF PostCommitment, aggVars
  <2> QED BY <1>5, <2>1 DEF PostCommitment, Goto, Sign, poolVars, Answers
<1>6. ASSUME NEW v \in Honest, ValidatorRestart(v) PROVE ProtocolTypeOK'
  BY <1>6 DEF ValidatorRestart, Goto, chainVars, poolVars, aggVars, Answers
<1>7. ASSUME NEW v \in Validators \ Honest, NEW e \in Epochs, NEW root \in Roots,
             OtherCandidate(v, e, root)
      PROVE  ProtocolTypeOK'
  <2>1. candidates' \in [Epochs -> Contributions] /\ frozen' \in [Epochs -> Answers]
    BY <1>7, AddCandidateFreezesOnce DEF OtherCandidate, Answers
  <2> QED BY <1>7, <2>1 DEF OtherCandidate, Sign, loopVars, aggVars
<1>8. ASSUME NEW v \in Validators \ Honest, NEW e \in Epochs, NEW root \in Roots,
             OtherCommitment(v, e, root)
      PROVE  ProtocolTypeOK'
  <2>1. \A tx \in mempool' : tx.signers \in SUBSET Validators
    BY <1>8, SentIsBacked DEF OtherCommitment
  <2> QED BY <1>8, <2>1 DEF OtherCommitment, Sign, loopVars, poolVars
<1>9. ASSUME NEW tx \in mempool, MineTx(tx) PROVE ProtocolTypeOK'
  <2>1. UNCHANGED <<now, vAssets>> /\ DOMAIN commitments' = Epochs \X {Brain}
    BY <1>9, MinedWithQuorum
  <2> QED BY <1>9, <2>1 DEF MineTx, loopVars, poolVars
<1>10. ASSUME NEW v \in Validators, NEW amount \in StakeLevels, MoveStake(v, amount)
       PROVE  ProtocolTypeOK'
  <2>1. amount \in Nat
    BY ProtocolAssumption
  <2> QED BY <1>10, <2>1
      DEF MoveStake, Registry!MoveStake, Registry!registryVars, loopVars, poolVars, aggVars
<1>11. CASE AggregatorRestart
  <2>1. <<>> \in Contributions
    <3>1. <<>> \in [{} -> Roots]
      OBVIOUS
    <3> QED BY <3>1 DEF Contributions
  <2> QED BY <1>11, <2>1 DEF AggregatorRestart, chainVars, loopVars, Answers
<1>12. CASE NewBlock \/ Tick
  BY <1>12 DEF NewBlock, Tick, chainVars, loopVars, poolVars, aggVars
<1>13. CASE UNCHANGED vars
  BY <1>13 DEF vars, chainVars, loopVars, poolVars, aggVars
<1> QED
  BY <1>1, <1>2, <1>3, <1>4, <1>5, <1>6, <1>7, <1>8, <1>9, <1>10, <1>11, <1>12, <1>13
  DEF Next, LoopStep

\* The loop waits for a root only after it has posted a candidate of a known epoch.
LEMMA AwaitsNext == ProtocolTypeOK /\ AwaitsKnownEpoch /\ [Next]_vars => AwaitsKnownEpoch'
<1> SUFFICES ASSUME ProtocolTypeOK, AwaitsKnownEpoch, [Next]_vars PROVE AwaitsKnownEpoch'
  OBVIOUS
<1> USE DEF AwaitsKnownEpoch
<1>1. ASSUME NEW v \in Honest, pc'[v] = "read" \/ pc'[v] = "sleep",
             \A w \in Honest \ {v} : pc'[w] = pc[w] /\ vEpoch'[w] = vEpoch[w]
      PROVE  AwaitsKnownEpoch'
  BY <1>1
<1>2. ASSUME NEW v \in Honest, vEpoch[v] \in Epochs, vEpoch' = vEpoch,
             \A w \in Honest \ {v} : pc'[w] = pc[w]
      PROVE  AwaitsKnownEpoch'
  BY <1>2
<1>3. ASSUME NEW v \in Honest, LoopStep(v) \/ ValidatorRestart(v) PROVE AwaitsKnownEpoch'
  <2>1. CASE ReadEpoch(v)
    BY <1>1, <2>1 DEF ReadEpoch, Goto, ProtocolTypeOK
  <2>2. CASE SkipEpoch(v) \/ GiveUp(v) \/ ValidatorRestart(v) \/ PostCommitment(v)
    BY <1>1, <2>2 DEF SkipEpoch, GiveUp, ValidatorRestart, PostCommitment, Goto, ProtocolTypeOK
  <2>3. CASE Poll(v)
    BY <1>2, <2>3 DEF Poll, Goto, ProtocolTypeOK
  <2>4. ASSUME NEW scores \in Observations, PostCandidate(v, scores) PROVE AwaitsKnownEpoch'
    <3>1. vEpoch[v] \in Epochs /\ vEpoch' = vEpoch
      BY <2>4 DEF PostCandidate
    <3>2. \A w \in Honest \ {v} : pc'[w] = pc[w]
      BY <2>4 DEF PostCandidate, Goto, ProtocolTypeOK
    <3> QED BY <1>2, <3>1, <3>2
  <2> QED BY <1>3, <2>1, <2>2, <2>3, <2>4 DEF LoopStep
<1>4. CASE UNCHANGED loopVars
  BY <1>4 DEF loopVars
<1> QED
  BY <1>3, <1>4
  DEF Next, vars, OtherCandidate, OtherCommitment, MineTx, MoveStake, AggregatorRestart, NewBlock, Tick

\* A root once frozen stays, so what was taken for canonical still is.
LEMMA CosignsNext == EpochInv /\ [Next]_vars => CosignsTheFrozen'
<1> SUFFICES ASSUME EpochInv, [Next]_vars, restarts' = 0
             PROVE  /\ \A v \in Honest : pc'[v] = "commit" =>
                         target'[v] = frozen'[vEpoch'[v]] /\ target'[v] # NoRoot
                    /\ \A p \in cosigned' : p[1] \in Epochs /\ p[2] = frozen'[p[1]] /\ p[2] # NoRoot
  BY DEF CosignsTheFrozen
<1> USE DEF EpochInv, ProtocolTypeOK
<1>1. ~ AggregatorRestart
  BY DEF AggregatorRestart
<1>2. restarts = 0
  BY <1>1 DEF Next, LoopStep, ReadEpoch, SkipEpoch, PostCandidate, Poll, GiveUp, PostCommitment,
       ValidatorRestart, OtherCandidate, OtherCommitment, MineTx, MoveStake, NewBlock, Tick, vars
<1> DEFINE Kept == \A x \in Epochs : frozen[x] # NoRoot => frozen'[x] = frozen[x]
           Same(v) == pc'[v] = pc[v] /\ vEpoch'[v] = vEpoch[v] /\ target'[v] = target[v]
<1>3. ASSUME Kept, cosigned' = cosigned
      PROVE  \A p \in cosigned' : p[1] \in Epochs /\ p[2] = frozen'[p[1]] /\ p[2] # NoRoot
  BY <1>2, <1>3 DEF CosignsTheFrozen
<1>4. ASSUME Kept, NEW v \in Honest, Same(v), pc'[v] = "commit"
      PROVE  target'[v] = frozen'[vEpoch'[v]] /\ target'[v] # NoRoot
  BY <1>2, <1>4 DEF CosignsTheFrozen, AwaitsKnownEpoch
<1>5. ASSUME NEW v \in Honest, ReadEpoch(v) \/ SkipEpoch(v) \/ GiveUp(v) \/ ValidatorRestart(v)
      PROVE  Kept /\ cosigned' = cosigned /\ pc'[v] # "commit" /\ \A w \in Honest \ {v} : Same(w)
  BY <1>5 DEF ReadEpoch, SkipEpoch, GiveUp, ValidatorRestart, Goto, poolVars
<1>6. ASSUME NEW v \in Honest, NEW scores \in Observations, PostCandidate(v, scores)
      PROVE  /\ Kept /\ cosigned' = cosigned /\ \A w \in Honest \ {v} : Same(w)
             /\ pc'[v] = "commit" => target'[v] = frozen'[vEpoch'[v]] /\ target'[v] # NoRoot
  <2> DEFINE e == vEpoch[v]
  <2>1. /\ e \in Epochs /\ scores \in Roots /\ v \in Validators /\ vEpoch' = vEpoch
        /\ cosigned' = cosigned
    BY <1>6, ProtocolAssumption DEF PostCandidate
  <2>2. \A w \in Honest \ {v} : Same(w)
    BY <1>6 DEF PostCandidate, Goto
  <2>3. CASE Goto(v, "read") /\ UNCHANGED poolVars
    BY <2>1, <2>2, <2>3 DEF Goto, poolVars
  <2>4. ASSUME NEW answer \in Answers, AddCandidate(e, v, scores, answer),
               \/ Goto(v, "read") \/ Goto(v, "poll")
               \/ /\ answer \in Roots /\ target' = [target EXCEPT ![v] = answer]
        PROVE  Kept /\ (pc'[v] = "commit" => target'[v] = frozen'[vEpoch'[v]] /\ target'[v] # NoRoot)
    <3>1. Kept /\ (answer \in Roots => frozen'[e] = answer)
      BY <2>1, <2>4, AddCandidateFreezesOnce
    <3>2. CASE Goto(v, "read") \/ Goto(v, "poll")
      BY <3>1, <3>2 DEF Goto
    <3>3. CASE answer \in Roots /\ target' = [target EXCEPT ![v] = answer]
      BY <2>1, <3>1, <3>3, ProtocolAssumption
    <3> QED BY <2>4, <3>2, <3>3
  <2> QED BY <1>6, <2>1, <2>2, <2>3, <2>4 DEF PostCandidate, Answers
<1>7. ASSUME NEW v \in Honest, Poll(v)
      PROVE  /\ Kept /\ cosigned' = cosigned /\ \A w \in Honest \ {v} : Same(w)
             /\ target'[v] = frozen'[vEpoch'[v]] /\ target'[v] # NoRoot
  BY <1>7 DEF Poll, Published, Unfrozen, Goto, poolVars
<1>8. ASSUME NEW v \in Honest, PostCommitment(v)
      PROVE  /\ Kept /\ pc'[v] # "commit" /\ \A w \in Honest \ {v} : Same(w)
             /\ \A p \in cosigned' : p[1] \in Epochs /\ p[2] = frozen'[p[1]] /\ p[2] # NoRoot
  <2>1. pc[v] = "commit" /\ cosigned' = cosigned \cup {<<vEpoch[v], target[v]>>} /\ frozen' = frozen
    BY <1>8 DEF PostCommitment, poolVars
  <2>2. vEpoch[v] \in Epochs /\ target[v] = frozen[vEpoch[v]] /\ target[v] # NoRoot
    BY <1>2, <2>1 DEF AwaitsKnownEpoch, CosignsTheFrozen
  <2>3. \A p \in cosigned : p[1] \in Epochs /\ p[2] = frozen[p[1]] /\ p[2] # NoRoot
    BY <1>2 DEF CosignsTheFrozen
  <2>4. pc'[v] # "commit" /\ \A w \in Honest \ {v} : Same(w)
    BY <1>8 DEF PostCommitment, Goto
  <2> QED BY <2>1, <2>2, <2>3, <2>4
<1>9. ASSUME NEW v \in Validators \ Honest, NEW e \in Epochs, NEW root \in Roots,
             OtherCandidate(v, e, root)
      PROVE  Kept /\ cosigned' = cosigned /\ \A w \in Honest : Same(w)
  <2>1. Kept
    BY <1>9, AddCandidateFreezesOnce DEF OtherCandidate, Answers
  <2> QED BY <1>9, <2>1 DEF OtherCandidate, loopVars
<1>10. CASE UNCHANGED <<loopVars, poolVars, cosigned>>
  <2>1. Kept /\ cosigned' = cosigned /\ \A w \in Honest : Same(w)
    BY <1>10 DEF loopVars, poolVars
  <2> HIDE DEF Kept, Same
  <2> QED BY <1>3, <1>4, <2>1
<1> HIDE DEF Kept, Same
<1>11. ASSUME NEW v \in Honest, LoopStep(v) \/ ValidatorRestart(v)
       PROVE  /\ \A w \in Honest : pc'[w] = "commit" =>
                   target'[w] = frozen'[vEpoch'[w]] /\ target'[w] # NoRoot
              /\ \A p \in cosigned' : p[1] \in Epochs /\ p[2] = frozen'[p[1]] /\ p[2] # NoRoot
  BY <1>3, <1>4, <1>5, <1>6, <1>7, <1>8, <1>11 DEF LoopStep
<1>12. ASSUME NEW v \in Validators \ Honest, NEW e \in Epochs, NEW root \in Roots,
              OtherCandidate(v, e, root)
       PROVE  /\ \A w \in Honest : pc'[w] = "commit" =>
                   target'[w] = frozen'[vEpoch'[w]] /\ target'[w] # NoRoot
              /\ \A p \in cosigned' : p[1] \in Epochs /\ p[2] = frozen'[p[1]] /\ p[2] # NoRoot
  BY <1>3, <1>4, <1>9, <1>12
<1> QED
  BY <1>1, <1>10, <1>11, <1>12 DEF Next, vars, OtherCommitment, MineTx, MoveStake, NewBlock, Tick

\* A co-signature is on record before the aggregator can have it, and in what is sent.
LEMMA BackersNext == EpochInv /\ [Next]_vars => HonestBackersCosigned'
<1> SUFFICES ASSUME EpochInv, [Next]_vars PROVE HonestBackersCosigned'
  OBVIOUS
<1> USE DEF EpochInv, HonestBackersCosigned
<1>1. ASSUME pending' = pending, mempool' \subseteq mempool, cosigned \subseteq cosigned'
      PROVE  HonestBackersCosigned'
  BY <1>1
<1>2. ASSUME NEW e, NEW v, NEW root, ReceiveCommitment(e, v, root), cosigned \subseteq cosigned',
             v \in Honest => <<e, root>> \in cosigned'
      PROVE  HonestBackersCosigned'
  <2>1. /\ pending' = pending \cup {<<e, root, v>>}
        /\ \A tx \in mempool' \ mempool :
             \A w \in tx.signers : <<tx.epoch, tx.root, w>> \in pending'
    BY <1>2, SentIsBacked
  <2>2. \A p \in pending' : p[3] \in Honest => <<p[1], p[2]>> \in cosigned'
    BY <1>2, <2>1
  <2>3. \A tx \in mempool' : \A w \in tx.signers \cap Honest : <<tx.epoch, tx.root>> \in cosigned'
    <3>1. \A tx \in mempool' \ mempool :
            \A w \in tx.signers \cap Honest : <<tx.epoch, tx.root>> \in cosigned'
      BY <2>1, <2>2
    <3> QED BY <1>2, <3>1
  <2> QED BY <2>2, <2>3
<1>3. ASSUME NEW v \in Honest, PostCommitment(v) PROVE HonestBackersCosigned'
  <2>1. cosigned' = cosigned \cup {<<vEpoch[v], target[v]>>}
    BY <1>3 DEF PostCommitment
  <2>2. CASE UNCHANGED aggVars
    BY <1>1, <2>1, <2>2 DEF aggVars
  <2>3. CASE ReceiveCommitment(vEpoch[v], v, target[v])
    BY <1>2, <2>1, <2>3
  <2> QED BY <1>3, <2>2, <2>3 DEF PostCommitment
<1>4. ASSUME NEW v \in Validators \ Honest, NEW e \in Epochs, NEW root \in Roots,
             OtherCommitment(v, e, root)
      PROVE  HonestBackersCosigned'
  BY <1>2, <1>4 DEF OtherCommitment
<1>5. ASSUME NEW tx \in mempool, MineTx(tx) PROVE HonestBackersCosigned'
  BY <1>1, <1>5 DEF MineTx
<1>6. CASE AggregatorRestart
  BY <1>6 DEF AggregatorRestart
<1>7. CASE UNCHANGED <<aggVars, cosigned>>
  BY <1>1, <1>7 DEF aggVars
<1> QED
  BY <1>3, <1>4, <1>5, <1>6, <1>7
  DEF Next, LoopStep, vars, ReadEpoch, SkipEpoch, PostCandidate, Poll, GiveUp, ValidatorRestart,
      OtherCandidate, MoveStake, NewBlock, Tick

\* The invariant holds in every reachable state.
LEMMA EpochInvAlways == Spec => []EpochInv
<1>1. EpochInv /\ [Next]_vars => EpochInv'
  BY ProtocolTypesNext, AwaitsNext, CosignsNext, BackersNext DEF EpochInv
<1> QED BY <1>1, EpochInvInit, PTL DEF Spec

-----------------------------------------------------------------------------
(* What it is for.                                                         *)

\* As long as the aggregator has kept its memory, whatever order candidates, polls
\* and lost answers come in, all honest co-signatures of an epoch are for one root.
THEOREM EpochSameRoot == Spec => []SameRootUntilRestart
<1>1. EpochInv => SameRootUntilRestart
  BY DEF EpochInv, CosignsTheFrozen, SameRootUntilRestart, AllSignSameRoot
<1> QED BY <1>1, EpochInvAlways, PTL

\* A canonical score lies between two honest scores of that miner as long as less
\* than half of the stake that scored the miner is dishonest.
THEOREM EpochWithinHonest == Spec => CanonicalWithinHonest
<1> DEFINE Step ==
      \A e \in Epochs : frozen'[e] \notin {frozen[e], NoRoot} =>
        \A m \in DOMAIN frozen'[e] :
          LET c == candidates'[e]
              all == Scorers(c, Stake, m)
          IN 2 * Total(Stake, all \ Honest) < Total(Stake, all) =>
               /\ \E v \in all \cap Honest : c[v][m] <= frozen'[e][m]
               /\ \E v \in all \cap Honest : c[v][m] >= frozen'[e][m]
<1>1. ASSUME EpochInv, EpochInv', [Next]_vars, NEW e \in Epochs,
             frozen'[e] \notin {frozen[e], NoRoot}
      PROVE  frozen'[e] = Canonical(candidates'[e], Stake, Need(TotalStake))
  <2>1. ASSUME NEW v \in Honest, NEW scores \in Observations, PostCandidate(v, scores)
        PROVE  frozen'[e] = Canonical(candidates'[e], Stake, Need(TotalStake))
    <3>1. /\ vEpoch[v] \in Epochs /\ scores \in Roots /\ v \in Validators
          /\ \E answer \in Answers : AddCandidate(vEpoch[v], v, scores, answer)
      BY <1>1, <2>1, ProtocolAssumption DEF PostCandidate, poolVars, Answers
    <3> QED BY <1>1, <3>1, AddCandidateFreezesOnce DEF EpochInv
  <2>2. ASSUME NEW v \in Validators \ Honest, NEW x \in Epochs, NEW scores \in Roots,
               OtherCandidate(v, x, scores)
        PROVE  frozen'[e] = Canonical(candidates'[e], Stake, Need(TotalStake))
    BY <1>1, <2>2, AddCandidateFreezesOnce DEF OtherCandidate, Answers, EpochInv
  <2>3. ~ AggregatorRestart
    BY <1>1 DEF AggregatorRestart
  <2> QED
    BY <1>1, <2>1, <2>2, <2>3
    DEF Next, LoopStep, vars, poolVars, ReadEpoch, SkipEpoch, Poll, GiveUp, PostCommitment,
        ValidatorRestart, OtherCommitment, MineTx, MoveStake, NewBlock, Tick
<1>2. ASSUME EpochInv, EpochInv', [Next]_vars PROVE Step
  <2> SUFFICES ASSUME NEW e \in Epochs, frozen'[e] \notin {frozen[e], NoRoot},
                      NEW m \in DOMAIN frozen'[e],
                      2 * Total(Stake, Scorers(candidates'[e], Stake, m) \ Honest)
                        < Total(Stake, Scorers(candidates'[e], Stake, m))
               PROVE  LET c == candidates'[e]
                          all == Scorers(c, Stake, m)
                      IN /\ \E v \in all \cap Honest : c[v][m] <= frozen'[e][m]
                         /\ \E v \in all \cap Honest : c[v][m] >= frozen'[e][m]
    OBVIOUS
  <2> DEFINE c == candidates'[e]
             all == Scorers(c, Stake, m)
  <2>1. frozen'[e] = Canonical(c, Stake, Need(TotalStake))
    BY <1>1, <1>2
  <2>2. /\ m \in Covered(c, Stake, Need(TotalStake))
        /\ frozen'[e][m] = Median(c, Stake, m)
    BY <2>1 DEF Canonical
  <2>3. all # {}
    BY <2>2 DEF Covered
  <2>4. PICK W \in SUBSET Validators : c \in [W -> Roots]
    BY <1>2 DEF EpochInv, ProtocolTypeOK, Contributions
  <2>5. all \in SUBSET Validators /\ IsFiniteSet(all)
    BY <2>4, ProtocolAssumption, FS_Subset DEF Scorers
  <2>6. \A v \in all : Stake[v] \in Nat
    BY <1>2, <2>5 DEF Stake, EpochInv, ProtocolTypeOK
  <2>7. \A v \in all : c[v][m] \in Nat
    <3> SUFFICES ASSUME NEW v \in all PROVE c[v][m] \in Nat
      OBVIOUS
    <3>1. v \in W /\ m \in DOMAIN c[v]
      BY <2>4 DEF Scorers
    <3>2. c[v] \in Roots
      BY <2>4, <3>1
    <3> HIDE DEF c, all
    <3>3. PICK M \in SUBSET Miners : c[v] \in [M -> Scores]
      BY <3>2 DEF Roots
    <3> QED BY <3>1, <3>3, ProtocolAssumption
  <2> HIDE DEF c
  <2>8. /\ \E v \in all \cap Honest : c[v][m] <= Median(c, Stake, m)
        /\ \E v \in all \cap Honest : c[v][m] >= Median(c, Stake, m)
    BY <2>3, <2>5, <2>6, <2>7, MedianWithinMajority DEF c
  <2> QED BY <2>2, <2>8 DEF c
<1>3. EpochInv /\ EpochInv' /\ [Next]_vars => [Step]_vars
  BY <1>2
<1> QED BY <1>3, EpochInvAlways, PTL DEF Spec, CanonicalWithinHonest

\* The registry's stake of a brain's validators is the protocol's.
LEMMA StakeOfBrain ==
  ASSUME ProtocolTypeOK, NEW D \in SUBSET Validators
  PROVE  Total(vAssets, {Brain} \X D) = Total(Stake, D)
<1> DEFINE there == Coins(vAssets, {Brain} \X D)
           here == Coins(Stake, D)
           drop == [c \in there |-> <<c[1][2], c[2]>>]
<1>1. \A v, j : <<v, j>> \in here <=> v \in D /\ j \in 1 .. Stake[v]
  BY DEF Coins
<1>2. \A v \in D : Stake[v] = vAssets[<<Brain, v>>]
  BY DEF Stake
<1>3. \A c \in there : \E v \in D : \E j \in 1 .. Stake[v] : c = <<<<Brain, v>>, j>>
  BY <1>2 DEF Coins
<1>4. \A v \in D : \A j \in 1 .. Stake[v] : <<<<Brain, v>>, j>> \in there
  BY <1>2 DEF Coins
<1>5. \A c \in here : \E v \in D : \E j \in 1 .. Stake[v] : c = <<v, j>>
  BY DEF Coins
<1> HIDE DEF there, here
<1>6. drop \in Surjection(there, here)
  <2>1. drop \in [there -> here]
    BY <1>1, <1>3
  <2>2. ASSUME NEW d \in here PROVE \E c \in there : drop[c] = d
    <3>1. PICK v \in D : \E j \in 1 .. Stake[v] : d = <<v, j>>
      BY <1>5
    <3>3. PICK j \in 1 .. Stake[v] : d = <<v, j>>
      BY <3>1
    <3>2. drop[<<<<Brain, v>>, j>>] = d
      BY <1>4, <3>3
    <3> QED BY <1>4, <3>2, <3>3
  <2> QED BY <2>1, <2>2 DEF Surjection
<1>7. drop \in Injection(there, here)
  <2>1. ASSUME NEW c \in there, NEW d \in there, drop[c] = drop[d] PROVE c = d
    BY <1>3, <2>1
  <2> QED BY <1>6, <2>1 DEF Injection, IsInjective, Surjection
<1>8. IsFiniteSet(there)
  <2>1. IsFiniteSet({Brain} \X D)
    BY ProtocolAssumption, FS_Subset, FS_Singleton, FS_Product
  <2>2. \A x \in {Brain} \X D : vAssets[x] \in Nat
    BY DEF ProtocolTypeOK
  <2> QED BY <2>1, <2>2, CoinsFinite DEF there
<1>9. Cardinality(here) = Cardinality(there)
  BY <1>6, <1>7, <1>8, FS_Surjection
<1> QED BY <1>9 DEF Total, there, here

\* A quorum of 5001 basis points, rounded up, is more than half.
LEMMA QuorumIsHalf ==
  ASSUME NEW total \in Nat \ {0}
  PROVE  Registry!MinStake(total) \in Nat /\ 2 * Registry!MinStake(total) > total
<1> DEFINE a == total * 5001 + 9999
<1>1. /\ a \div 10000 \in Nat
      /\ a < (a \div 10000) * 10000 + 10000
  BY FloorDivision
<1>2. Registry!MinStake(total) = a \div 10000
  BY DEF Registry!MinStake, Registry!MIN_QUORUM_BPS, Registry!BPS
<1> QED BY <1>1, <1>2

\* While less than half of the stake is dishonest, the chain accepts only a root that
\* some honest validator co-signed as the canonical one.
THEOREM EpochCommittedWasCanonical == Spec => CommittedWasCanonical
<1> DEFINE Step ==
      \A e \in Epochs :
        LET root == commitments'[<<e, Brain>>].root IN
        root # commitments[<<e, Brain>>].root /\ OthersAreMinority => <<e, root>> \in cosigned
<1>1. ASSUME EpochInv, [Next]_vars, NEW e \in Epochs,
             commitments'[<<e, Brain>>].root # commitments[<<e, Brain>>].root, OthersAreMinority
      PROVE  <<e, commitments'[<<e, Brain>>].root>> \in cosigned
  <2>1. PICK tx \in mempool : MineTx(tx)
    <3>1. ~ UNCHANGED commitments
      BY <1>1
    <3> QED
      BY <1>1, <3>1
      DEF Next, LoopStep, vars, chainVars, ReadEpoch, SkipEpoch, PostCandidate, Poll, GiveUp,
          PostCommitment, ValidatorRestart, OtherCandidate, OtherCommitment, Sign, MoveStake,
          Registry!MoveStake, Registry!registryVars, AggregatorRestart, NewBlock, Tick
  <2>2. /\ tx.epoch = e /\ tx.root = commitments'[<<e, Brain>>].root
        /\ Registry!MayPropose(e, Brain, tx.root, tx.signers)
    BY <1>1, <2>1, MinedWithQuorum DEF EpochInv
  <2>3. tx.signers \in SUBSET Validators
    BY <1>1 DEF EpochInv, ProtocolTypeOK
  <2> DEFINE signers == tx.signers
  <2>4. /\ Registry!BrainStake(Brain) = TotalStake
        /\ Registry!SignerStake(Brain, signers) = Total(Stake, signers)
    <3>1. /\ Total(vAssets, {Brain} \X Validators) = Total(Stake, Validators)
          /\ Total(vAssets, {Brain} \X signers) = Total(Stake, signers)
      BY <1>1, <2>3, StakeOfBrain DEF EpochInv
    <3>2. /\ Registry!Total(vAssets, {Brain} \X Validators) = Total(vAssets, {Brain} \X Validators)
          /\ Registry!Total(vAssets, {Brain} \X signers) = Total(vAssets, {Brain} \X signers)
      BY Zenon DEF Registry!Total, Registry!Coins, Total, Coins, Registry!Cardinality, Cardinality,
                   Registry!IsFiniteSet, IsFiniteSet
    <3> QED BY <3>1, <3>2 DEF Registry!BrainStake, Registry!SignerStake, TotalStake
  <2>5. TotalStake # 0 /\ Total(Stake, signers) >= Registry!MinStake(TotalStake)
    BY <2>2, <2>4 DEF Registry!MayPropose
  <2>6. \A v \in Validators : Stake[v] \in Nat
    BY <1>1 DEF Stake, EpochInv, ProtocolTypeOK
  <2>7. TotalStake \in Nat /\ Total(Stake, signers) \in Nat
    BY <2>3, <2>6, ProtocolAssumption, ScorersStake DEF TotalStake
  <2>8. 2 * Total(Stake, signers) > TotalStake
    BY <2>5, <2>7, QuorumIsHalf
  <2>9. signers \cap Honest # {}
    <3> SUFFICES ASSUME signers \cap Honest = {} PROVE FALSE
      OBVIOUS
    <3>1. signers \in SUBSET (Validators \ Honest) /\ IsFiniteSet(Validators \ Honest)
      BY <2>3, ProtocolAssumption, FS_Subset
    <3>2. /\ Total(Stake, Validators \ Honest) \in Nat
          /\ Total(Stake, signers) <= Total(Stake, Validators \ Honest)
      BY <2>6, <3>1, ScorersStake
    <3>3. 2 * Total(Stake, Validators \ Honest) < TotalStake
      BY <1>1 DEF OthersAreMinority
    <3> QED BY <2>7, <2>8, <3>2, <3>3
  <2> QED BY <1>1, <2>2, <2>9 DEF EpochInv, HonestBackersCosigned
<1>2. EpochInv /\ [Next]_vars => [Step]_vars
  BY <1>1
<1> QED BY <1>2, EpochInvAlways, PTL DEF Spec, CommittedWasCanonical

-----------------------------------------------------------------------------
(* The refinement: on the chain, the protocol is the registry.             *)

\* Canonical scores that are not empty are a root: each is a score that some
\* validator gave the miner.
LEMMA CanonicalIsRoot ==
  ASSUME ProtocolTypeOK, NEW c \in Contributions, NEW need,
         DOMAIN Canonical(c, Stake, need) # {}
  PROVE  Canonical(c, Stake, need) \in Roots
<1> DEFINE M == Covered(c, Stake, need)
<1>1. PICK W \in SUBSET Validators : c \in [W -> Roots]
  BY DEF Contributions
<1>2. \A v \in W : DOMAIN c[v] \in SUBSET Miners /\ \A m \in DOMAIN c[v] : c[v][m] \in Scores
  BY <1>1 DEF Roots
<1>3. M \in SUBSET Miners /\ M # {}
  BY <1>1, <1>2 DEF Covered, Canonical
<1>4. ASSUME NEW m \in M PROVE Median(c, Stake, m) \in Scores
  <2> DEFINE all == Scorers(c, Stake, m)
  <2>1. all # {} /\ all \in SUBSET W /\ IsFiniteSet(all)
    BY <1>1, <1>4, ProtocolAssumption, FS_Subset DEF Covered, Scorers
  <2>2. \A v \in all : c[v][m] \in Scores
    BY <1>2, <2>1 DEF Scorers
  <2>3. \A v \in all : Stake[v] \in Nat /\ c[v][m] \in Nat
    BY <2>1, <2>2, ProtocolAssumption DEF Stake, ProtocolTypeOK
  <2>4. Median(c, Stake, m) \in {c[v][m] : v \in all}
    BY <2>1, <2>3, MedianIsLowestHalf
  <2> QED BY <2>2, <2>4
<1>5. Canonical(c, Stake, need) \in [M -> Scores]
  BY <1>4 DEF Canonical
<1> HIDE DEF M
<1>6. M \in (SUBSET Miners) \ {{}}
  BY <1>3
<1> QED BY <1>5, <1>6 DEF Roots

\* Everything on its way to the registry is a root of an epoch there is, and the
\* chain's clock has somewhere to go.
RootsKept ==
  /\ clock <= MaxTime
  /\ frozen \in [Epochs -> Roots \cup {NoRoot}]
  /\ \A v \in Honest : pc[v] = "commit" => target[v] \in Roots
  /\ \A tx \in mempool : tx.epoch \in Epochs /\ tx.root \in Roots

\* A candidate freezes nothing but a root.
LEMMA AddCandidateFreezesRoots ==
  ASSUME ProtocolTypeOK, RootsKept, NEW e \in Epochs, NEW v \in Validators, NEW scores \in Roots,
         NEW answer \in Answers, AddCandidate(e, v, scores, answer)
  PROVE  frozen' \in [Epochs -> Roots \cup {NoRoot}]
<1> DEFINE c == Submitted(e, v, scores)
           root == Canonical(c, Stake, Need(TotalStake))
<1>1. c \in Contributions
  BY SubmittedType
<1>2. \/ UNCHANGED frozen
      \/ DOMAIN root # {} /\ frozen' = [frozen EXCEPT ![e] = root]
  BY DEF AddCandidate, poolVars
<1> HIDE DEF c
<1>3. DOMAIN root # {} => root \in Roots
  BY <1>1, CanonicalIsRoot
<1> HIDE DEF root
<1> QED BY <1>2, <1>3 DEF RootsKept

\* What is sent to the chain is a root of the epoch of the commitment received.
LEMMA SentIsRoot ==
  ASSUME NEW e, NEW v, NEW root, ReceiveCommitment(e, v, root)
  PROVE  \A tx \in mempool' \ mempool : tx.epoch = e /\ tx.root \in Roots
<1> DEFINE pend == pending \cup {<<e, root, v>>}
<1>1. \/ mempool' = mempool
      \/ \E r \in Roots :
           mempool' = mempool \cup {[epoch |-> e, root |-> r, signers |-> Backers(pend, e, r)]}
  BY DEF ReceiveCommitment
<1> HIDE DEF pend
<1> QED BY <1>1

\* At the start nothing is on its way.
LEMMA RootsKeptInit == Init => RootsKept
BY ProtocolAssumption DEF Init, RootsKept

\* Every step keeps it.
LEMMA RootsKeptNext == EpochInv /\ RootsKept /\ [Next]_vars => RootsKept'
<1> SUFFICES ASSUME EpochInv, RootsKept, [Next]_vars PROVE RootsKept'
  OBVIOUS
<1> USE DEF EpochInv, ProtocolTypeOK, RootsKept
<1>1. ASSUME NEW v \in Honest, ReadEpoch(v) \/ SkipEpoch(v) \/ GiveUp(v) \/ ValidatorRestart(v)
      PROVE  RootsKept'
  BY <1>1 DEF ReadEpoch, SkipEpoch, GiveUp, ValidatorRestart, Goto, poolVars, aggVars
<1>2. ASSUME NEW v \in Honest, NEW scores \in Observations, PostCandidate(v, scores)
      PROVE  RootsKept'
  <2>1. /\ vEpoch[v] \in Epochs /\ scores \in Roots /\ v \in Validators
        /\ clock' = clock /\ mempool' = mempool
    BY <1>2, ProtocolAssumption DEF PostCandidate, aggVars
  <2>2. frozen' \in [Epochs -> Roots \cup {NoRoot}]
    <3>1. CASE UNCHANGED poolVars
      BY <3>1 DEF poolVars
    <3>2. ASSUME NEW answer \in Answers, AddCandidate(vEpoch[v], v, scores, answer)
          PROVE  frozen' \in [Epochs -> Roots \cup {NoRoot}]
      BY <2>1, <3>2, AddCandidateFreezesRoots
    <3> QED BY <1>2, <3>1, <3>2 DEF PostCandidate, Answers
  <2>3. \A w \in Honest : pc'[w] = "commit" => target'[w] \in Roots
    <3>1. \/ pc' = [pc EXCEPT ![v] = "read"] /\ target' = target
          \/ pc' = [pc EXCEPT ![v] = "poll"] /\ target' = target
          \/ /\ pc' = [pc EXCEPT ![v] = "commit"]
             /\ \E answer \in Roots : target' = [target EXCEPT ![v] = answer]
      BY <1>2 DEF PostCandidate, Goto
    <3> QED BY <3>1
  <2> QED BY <2>1, <2>2, <2>3
<1>3. ASSUME NEW v \in Honest, Poll(v) PROVE RootsKept'
  <2>1. frozen[vEpoch[v]] \in Roots
    BY <1>3 DEF Poll, Published, Unfrozen, AwaitsKnownEpoch
  <2> QED BY <1>3, <2>1 DEF Poll, Goto, poolVars, aggVars
<1>4. ASSUME NEW v \in Honest, PostCommitment(v) PROVE RootsKept'
  <2>1. vEpoch[v] \in Epochs
    BY <1>4 DEF PostCommitment, AwaitsKnownEpoch
  <2>2. \A tx \in mempool' : tx.epoch \in Epochs /\ tx.root \in Roots
    BY <1>4, <2>1, SentIsRoot DEF PostCommitment, aggVars
  <2> QED BY <1>4, <2>2 DEF PostCommitment, Goto, poolVars
<1>5. ASSUME NEW v \in Validators \ Honest, NEW e \in Epochs, NEW root \in Roots,
             OtherCandidate(v, e, root)
      PROVE  RootsKept'
  <2>1. frozen' \in [Epochs -> Roots \cup {NoRoot}]
    BY <1>5, AddCandidateFreezesRoots DEF OtherCandidate, Answers
  <2> QED BY <1>5, <2>1 DEF OtherCandidate, loopVars, aggVars
<1>6. ASSUME NEW v \in Validators \ Honest, NEW e \in Epochs, NEW root \in Roots,
             OtherCommitment(v, e, root)
      PROVE  RootsKept'
  <2>1. \A tx \in mempool' : tx.epoch \in Epochs /\ tx.root \in Roots
    BY <1>6, SentIsRoot DEF OtherCommitment
  <2> QED BY <1>6, <2>1 DEF OtherCommitment, loopVars, poolVars
<1>7. ASSUME NEW tx \in mempool, MineTx(tx) PROVE RootsKept'
  BY <1>7 DEF MineTx, loopVars, poolVars
<1>8. CASE \E v \in Validators, amount \in StakeLevels : MoveStake(v, amount)
  BY <1>8 DEF MoveStake, loopVars, poolVars, aggVars
<1>9. CASE AggregatorRestart
  BY <1>9 DEF AggregatorRestart, loopVars
<1>10. CASE NewBlock
  BY <1>10 DEF NewBlock, loopVars, poolVars, aggVars
<1>11. CASE Tick
  BY <1>11, ProtocolAssumption DEF Tick, loopVars, poolVars, aggVars
<1>12. CASE UNCHANGED vars
  BY <1>12 DEF vars, loopVars, poolVars, aggVars
<1> QED
  BY <1>1, <1>2, <1>3, <1>4, <1>5, <1>6, <1>7, <1>8, <1>9, <1>10, <1>11, <1>12
  DEF Next, LoopStep

\* It holds in every reachable state.
LEMMA RootsKeptAlways == Spec => []RootsKept
BY RootsKeptInit, RootsKeptNext, EpochInvAlways, PTL DEF Spec

\* A step that leaves the chain alone is a stutter of the registry.
LEMMA ChainStutters == UNCHANGED chainVars => UNCHANGED Registry!vars
BY DEF chainVars, Registry!vars, Registry!registryVars

\* Signatures of validators are made as the registry has them.
LEMMA SignIsRegistrySign ==
  ASSUME NEW v \in Validators, NEW e \in Epochs, NEW root \in Roots, Sign(v, e, root)
  PROVE  Registry!Next
<1>1. Registry!Sign(v, e, Brain, root)
  BY DEF Sign, Registry!Sign, Registry!registryVars
<1> QED BY <1>1 DEF Registry!Next

\* Whatever validators, aggregator and networks do, what happens on the chain is what
\* ScoringRegistry allows: a mined transaction is a call that passes every check of
\* proposeEpoch, or nothing.
THEOREM EpochImplementsRegistry == Spec => Registry!Spec
<1>1. Init => Registry!Init
  BY DEF Init
<1>2. ASSUME EpochInv, RootsKept, [Next]_vars PROVE [Registry!Next]_Registry!vars
  <2>1. ASSUME NEW v \in Honest, ReadEpoch(v) \/ SkipEpoch(v) \/ Poll(v) \/ GiveUp(v) \/ ValidatorRestart(v)
        PROVE  UNCHANGED chainVars
    BY <2>1 DEF ReadEpoch, SkipEpoch, Poll, GiveUp, ValidatorRestart
  <2>2. ASSUME NEW v \in Honest, NEW scores \in Observations, PostCandidate(v, scores)
        PROVE  Registry!Next
    <3>1. vEpoch[v] \in Epochs /\ scores \in Roots /\ v \in Validators /\ Sign(v, vEpoch[v], scores)
      BY <2>2, ProtocolAssumption DEF PostCandidate
    <3> QED BY <3>1, SignIsRegistrySign
  <2>3. ASSUME NEW v \in Honest, PostCommitment(v) PROVE Registry!Next
    <3>1. /\ vEpoch[v] \in Epochs /\ target[v] \in Roots /\ v \in Validators
          /\ Sign(v, vEpoch[v], target[v])
      BY <1>2, <2>3, ProtocolAssumption
      DEF PostCommitment, EpochInv, AwaitsKnownEpoch, RootsKept
    <3> QED BY <3>1, SignIsRegistrySign
  <2>4. ASSUME NEW v \in Validators \ Honest, NEW e \in Epochs, NEW root \in Roots,
               OtherCandidate(v, e, root) \/ OtherCommitment(v, e, root)
        PROVE  Registry!Next
    <3>1. Sign(v, e, root)
      BY <2>4 DEF OtherCandidate, OtherCommitment
    <3> QED BY <3>1, SignIsRegistrySign
  <2>5. ASSUME NEW tx \in mempool, MineTx(tx) PROVE Registry!Next \/ UNCHANGED chainVars
    <3>1. tx.epoch \in Epochs /\ tx.root \in Roots /\ tx.signers \in SUBSET Validators
      BY <1>2 DEF RootsKept, EpochInv, ProtocolTypeOK
    <3>2. ASSUME Registry!ProposeEpoch(tx.epoch, Brain, tx.root, tx.signers) PROVE Registry!Next
      <4> DEFINE Proposes(e, b, r, s) == Registry!ProposeEpoch(e, b, r, s)
      <4>1. Proposes(tx.epoch, Brain, tx.root, tx.signers) /\ Brain \in {Brain}
        BY <3>2
      <4> HIDE DEF Proposes
      <4>2. \E e \in Epochs, b \in {Brain}, r \in Roots, s \in SUBSET Validators : Proposes(e, b, r, s)
        BY <3>1, <4>1
      <4> QED BY <4>2 DEF Proposes, Registry!Next, Registry!ContractStep
    <3> QED BY <2>5, <3>2 DEF MineTx
  <2>6. ASSUME NEW v \in Validators, NEW amount \in StakeLevels, MoveStake(v, amount)
        PROVE  Registry!Next
    <3>1. Registry!MoveStake(<<Brain, v>>, amount) /\ <<Brain, v>> \in Registry!Pools
      BY <2>6 DEF MoveStake, Registry!Pools
    <3> QED BY <3>1 DEF Registry!Next
  <2>7. AggregatorRestart \/ Tick => UNCHANGED chainVars
    BY DEF AggregatorRestart, Tick
  <2>8. CASE NewBlock
    <3>1. /\ now < MaxTime /\ now' \in now + 1 .. MaxTime
          /\ UNCHANGED <<vAssets, signed, commitments, isCommitmentSigner, slashed>>
      BY <1>2, <2>8, ProtocolAssumption DEF NewBlock, RootsKept, EpochInv, ProtocolTypeOK
    <3>2. Registry!Tick
      BY <3>1 DEF Registry!Tick, Registry!registryVars
    <3> QED BY <3>2 DEF Registry!Next
  <2>9. UNCHANGED vars => UNCHANGED chainVars
    BY DEF vars
  <2> QED
    BY <1>2, <2>1, <2>2, <2>3, <2>4, <2>5, <2>6, <2>7, <2>8, <2>9, ChainStutters
    DEF Next, LoopStep
<1> QED BY <1>1, <1>2, EpochInvAlways, RootsKeptAlways, PTL DEF Spec, Registry!Spec
=============================================================================
