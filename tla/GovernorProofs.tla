--------------------------- MODULE GovernorProofs ---------------------------
(***************************************************************************)
(* The brains, for every set of users and assets, every range of           *)
(* identifiers and every price; then the votes of those that hold them,    *)
(* for every set of proposals, every distribution of stake and every       *)
(* quorum, wherever the brains go.                                         *)
(***************************************************************************)
EXTENDS Governor, TotalsTheorems

-----------------------------------------------------------------------------
(* The brains.                                                             *)

Message == [brain : Ids, to : Users]

StakeRecord ==
  [staker : Users \cup {Nobody}, asset : Assets \cup {Nobody}, amount : Nat, locked : BOOLEAN]

BrainsTypeOK ==
  /\ owner \in [Ids -> Holders \cup {Nobody}]
  /\ stakes \in [Ids -> StakeRecord]
  /\ nextPublicId \in FIRST_PUBLIC_ID .. MAX_SUPPLY
  /\ totalSupply \in Int
  /\ stakeAmount \in [Assets -> Nat] /\ adjustable \in [Assets -> BOOLEAN]
  /\ paid \in [Users \X Assets -> Int]
  /\ endpoints \subseteq Endpoints
  /\ deposits \subseteq Ids
  /\ toL2 \subseteq Message /\ toL1 \subseteq Message
  /\ owner2 \in [Ids -> Users \cup {Nobody}]
  /\ burned \subseteq Ids

LEMMA TypeInit == BrainsInit => BrainsTypeOK
BY BrainsAssumption DEF BrainsInit, BrainsTypeOK, NoStake, StakeRecord, Ids, Endpoints, Holders

\* Every amount is a number and every brain, message and record names what there is.
LEMMA TypeNext == BrainsTypeOK /\ [BrainsNext]_brainVars => BrainsTypeOK'
<1> SUFFICES ASSUME BrainsTypeOK, [BrainsNext]_brainVars PROVE BrainsTypeOK'
  OBVIOUS
<1> USE DEF BrainsTypeOK
<1>1. ASSUME NEW u \in Users, NEW a \in Assets, MintByStake(u, a) PROVE BrainsTypeOK'
  <2>1. Candidate \in Ids /\ nextPublicId' \in FIRST_PUBLIC_ID .. MAX_SUPPLY
    BY <1>1, BrainsAssumption DEF MintByStake, Candidate, Ids
  <2>2. stakes' \in [Ids -> StakeRecord]
    BY <1>1, <2>1 DEF MintByStake, StakeRecord
  <2>3. owner' \in [Ids -> Holders \cup {Nobody}] /\ totalSupply' \in Int
    BY <1>1, <2>1 DEF MintByStake, Holders
  <2>4. paid' \in [Users \X Assets -> Int]
    BY <1>1 DEF MintByStake
  <2> QED BY <1>1, <2>1, <2>2, <2>3, <2>4 DEF MintByStake, priceVars, crossVars
<1>2. ASSUME NEW u \in Users, NEW b \in Ids, MintReserved(u, b) PROVE BrainsTypeOK'
  BY <1>2 DEF MintReserved, Holders, priceVars, crossVars
<1>3. ASSUME NEW u \in Users, NEW b \in Ids, DeactivateAndUnstake(u, b) PROVE BrainsTypeOK'
  <2>1. /\ owner' = [owner EXCEPT ![b] = Nobody]
        /\ stakes' = [stakes EXCEPT ![b] = NoStake]
        /\ totalSupply' = totalSupply - 1 /\ burned' = burned \cup {b}
        /\ paid' = [paid EXCEPT ![<<stakes[b].staker, stakes[b].asset>>] = @ - Refund(b)]
        /\ UNCHANGED <<nextPublicId, priceVars, endpoints, crossVars>>
    BY <1>3 DEF DeactivateAndUnstake
  <2>2. NoStake \in StakeRecord /\ Refund(b) \in Nat
    BY DEF NoStake, StakeRecord, Refund
  <2>3. paid' \in [Users \X Assets -> Int]
    <3>1. \A ua \in Users \X Assets : paid[ua] - Refund(b) \in Int
      BY <2>2
    <3> QED BY <2>1, <3>1
  <2> QED BY <2>1, <2>2, <2>3 DEF priceVars, crossVars
<1>4. ASSUME NEW u \in Users, NEW b \in Ids, NEW e \in Endpoints, SendToEndpoint(u, b, e)
      PROVE  BrainsTypeOK'
  BY <1>4 DEF SendToEndpoint, Holders, priceVars, crossVars
<1>5. ASSUME NEW u \in Users, NEW b \in Ids, NEW to \in Users, NEW adapted \in BOOLEAN,
             BridgeToL2(u, b, to, adapted)
      PROVE  BrainsTypeOK'
  BY <1>5 DEF BridgeToL2, Holders, Endpoints, Message, priceVars
<1>6. ASSUME NEW u \in Users, NEW b \in Ids, NEW to \in Users, BurnOnL2(u, b, to)
      PROVE  BrainsTypeOK'
  BY <1>6 DEF BurnOnL2, Message, l1Vars, priceVars
<1>7. ASSUME NEW b \in Ids, LockElapses(b) PROVE BrainsTypeOK'
  <2>1. stakes' \in [Ids -> StakeRecord]
    <3> DEFINE unlocked == [stakes[b] EXCEPT !.locked = FALSE]
    <3>1. unlocked \in StakeRecord
      BY DEF StakeRecord
    <3>2. stakes' = [stakes EXCEPT ![b] = unlocked]
      BY <1>7 DEF LockElapses
    <3> HIDE DEF unlocked
    <3> QED BY <3>1, <3>2
  <2> QED BY <1>7, <2>1 DEF LockElapses, priceVars, crossVars
<1>8. ASSUME NEW a \in Assets, CooldownElapses(a) PROVE BrainsTypeOK'
  BY <1>8 DEF CooldownElapses, l1Vars, crossVars
<1>9. ASSUME NEW a \in Assets, NEW new \in 1 .. MaxStake, SetStakeAmount(a, new)
      PROVE  BrainsTypeOK'
  BY <1>9 DEF SetStakeAmount, l1Vars, crossVars
<1>10. ASSUME NEW e \in Endpoints, NEW allowed \in BOOLEAN, SetBridgeEndpoint(e, allowed)
       PROVE  BrainsTypeOK'
  BY <1>10 DEF SetBridgeEndpoint, l1Vars, priceVars, crossVars
<1>11. ASSUME NEW msg \in toL2, MintOnL2(msg) PROVE BrainsTypeOK'
  BY <1>11 DEF MintOnL2, Message, l1Vars, priceVars
<1>12. ASSUME NEW msg \in toL1, ReleaseOnL1(msg) PROVE BrainsTypeOK'
  BY <1>12 DEF ReleaseOnL1, Message, Holders, priceVars
<1>13. CASE UNCHANGED brainVars
  BY <1>13 DEF brainVars, l1Vars, priceVars, crossVars
<1> HIDE DEF BrainsTypeOK
<1> QED BY <1>1, <1>2, <1>3, <1>4, <1>5, <1>6, <1>7, <1>8, <1>9, <1>10, <1>11, <1>12, <1>13
        DEF BrainsNext

\* Every variable has its type in every reachable state.
THEOREM BrainsTypes == BrainsSpec => []BrainsTypeOK
BY TypeInit, TypeNext, PTL DEF BrainsSpec

-----------------------------------------------------------------------------
(* One live copy.                                                          *)

\* A brain a user holds on L1 is nowhere else.
LEMMA HeldOnL1 ==
  ASSUME BrainsTypeOK, OneLiveCopy, NEW b \in Ids, owner[b] # Escrow
  PROVE  b \notin deposits /\ InFlight(b) = {} /\ owner2[b] = Nobody
BY DEF OneLiveCopy, Away

\* A step that leaves the crossing alone leaves one copy as long as no escrowed
\* brain gets another owner on L1.
LEMMA CrossingUntouched ==
  ASSUME BrainsTypeOK, OneLiveCopy, UNCHANGED crossVars,
         \A b \in Ids : owner[b] = Escrow => owner'[b] = Escrow
  PROVE  OneLiveCopy'
<1>1. \A b \in Ids : InFlight(b)' = InFlight(b) /\ (Away(b)' <=> Away(b))
  BY DEF InFlight, Away, crossVars
<1> QED BY <1>1 DEF OneLiveCopy, crossVars

LEMMA LiveCopyNext ==
  BrainsTypeOK /\ OneLiveCopy /\ [BrainsNext]_brainVars => OneLiveCopy'
<1> SUFFICES ASSUME BrainsTypeOK, OneLiveCopy, [BrainsNext]_brainVars PROVE OneLiveCopy'
  OBVIOUS
<1>0. \A u \in Users : u # Escrow /\ u # Nobody
  BY BrainsAssumption
<1>1. ASSUME NEW u \in Users, NEW a \in Assets, MintByStake(u, a) PROVE OneLiveCopy'
  <2>1. Candidate \in Ids /\ owner[Candidate] # Escrow
    BY <1>1, BrainsAssumption DEF MintByStake, Candidate, Ids, BrainsTypeOK
  <2>2. \A b \in Ids : owner[b] = Escrow => owner'[b] = Escrow
    BY <1>1, <2>1 DEF MintByStake, BrainsTypeOK
  <2> QED BY <1>1, <2>2, CrossingUntouched DEF MintByStake
<1>2. ASSUME NEW u \in Users, NEW b \in Ids, MintReserved(u, b) PROVE OneLiveCopy'
  <2>1. owner[b] # Escrow
    BY <1>2, BrainsAssumption DEF MintReserved
  <2>2. \A c \in Ids : owner[c] = Escrow => owner'[c] = Escrow
    BY <1>2, <2>1 DEF MintReserved, BrainsTypeOK
  <2> QED BY <1>2, <2>2, CrossingUntouched DEF MintReserved
<1>3. ASSUME NEW u \in Users, NEW b \in Ids, DeactivateAndUnstake(u, b) PROVE OneLiveCopy'
  <2>1. owner[b] # Escrow
    BY <1>0, <1>3 DEF DeactivateAndUnstake, OwnerMay
  <2>2. \A c \in Ids : owner[c] = Escrow => owner'[c] = Escrow
    BY <1>3, <2>1 DEF DeactivateAndUnstake, BrainsTypeOK
  <2> QED BY <1>3, <2>2, CrossingUntouched DEF DeactivateAndUnstake
<1>4. ASSUME NEW u \in Users, NEW b \in Ids, NEW e \in Endpoints, SendToEndpoint(u, b, e)
      PROVE  OneLiveCopy'
  <2>1. \A c \in Ids : owner[c] = Escrow => owner'[c] = Escrow
    BY <1>0, <1>4 DEF SendToEndpoint, BrainsTypeOK
  <2> QED BY <1>4, <2>1, CrossingUntouched DEF SendToEndpoint
<1>5. ASSUME NEW u \in Users, NEW b \in Ids, NEW to \in Users, NEW adapted \in BOOLEAN,
             BridgeToL2(u, b, to, adapted)
      PROVE  OneLiveCopy'
  <2> DEFINE sent == [brain |-> b, to |-> to]
  <2>1. owner[b] # Escrow
    BY <1>0, <1>5 DEF BridgeToL2
  <2>2. b \notin deposits /\ InFlight(b) = {} /\ owner2[b] = Nobody
    BY <2>1, HeldOnL1
  <2>3. /\ toL2' = toL2 \cup {sent} /\ deposits' = deposits \cup {b}
        /\ owner' = [owner EXCEPT ![b] = Escrow] /\ UNCHANGED <<toL1, owner2>>
    BY <1>5 DEF BridgeToL2
  <2>4. InFlight(b)' = {sent} /\ sent \notin toL1 /\ \A msg \in toL1 : msg.brain # b
    BY <2>2, <2>3 DEF InFlight
  <2>5. ASSUME NEW c \in Ids, c # b PROVE InFlight(c)' = InFlight(c)
    BY <2>3, <2>5 DEF InFlight
  <2>6. \A c \in Ids : Away(c)' <=> c = b \/ Away(c)
    BY <2>2, <2>3, <2>4, <2>5 DEF Away
  <2> QED BY <2>2, <2>3, <2>4, <2>5, <2>6 DEF OneLiveCopy, BrainsTypeOK
<1>6. ASSUME NEW u \in Users, NEW b \in Ids, NEW to \in Users, BurnOnL2(u, b, to)
      PROVE  OneLiveCopy'
  <2> DEFINE sent == [brain |-> b, to |-> to]
  <2>1. /\ toL1' = toL1 \cup {sent} /\ owner2' = [owner2 EXCEPT ![b] = Nobody]
        /\ UNCHANGED <<owner, deposits, toL2>> /\ owner2[b] # Nobody
    BY <1>0, <1>6 DEF BurnOnL2, l1Vars
  <2>2. InFlight(b) = {} /\ b \in deposits
    BY <2>1 DEF OneLiveCopy, Away
  <2>3. InFlight(b)' = {sent} /\ \A msg \in toL2 : msg.brain # b
    BY <2>1, <2>2 DEF InFlight
  <2>4. ASSUME NEW c \in Ids, c # b PROVE InFlight(c)' = InFlight(c)
    BY <2>1, <2>4 DEF InFlight
  <2>5. \A c \in Ids : Away(c)' <=> Away(c)
    BY <2>1, <2>3, <2>4 DEF Away, BrainsTypeOK
  <2> QED BY <2>1, <2>2, <2>3, <2>4, <2>5 DEF OneLiveCopy, BrainsTypeOK
<1>7. ASSUME NEW b \in Ids, LockElapses(b) PROVE OneLiveCopy'
  BY <1>7, CrossingUntouched DEF LockElapses
<1>8. ASSUME NEW a \in Assets, CooldownElapses(a) PROVE OneLiveCopy'
  BY <1>8, CrossingUntouched DEF CooldownElapses, l1Vars
<1>9. ASSUME NEW a \in Assets, NEW new \in 1 .. MaxStake, SetStakeAmount(a, new)
      PROVE  OneLiveCopy'
  BY <1>9, CrossingUntouched DEF SetStakeAmount, l1Vars
<1>10. ASSUME NEW e \in Endpoints, NEW allowed \in BOOLEAN, SetBridgeEndpoint(e, allowed)
       PROVE  OneLiveCopy'
  BY <1>10, CrossingUntouched DEF SetBridgeEndpoint, l1Vars
<1>11. ASSUME NEW msg \in toL2, MintOnL2(msg) PROVE OneLiveCopy'
  <2> DEFINE b == msg.brain
  <2>1. b \in Ids /\ msg.to \in Users
    BY DEF BrainsTypeOK, Message
  <2>2. /\ toL2' = toL2 \ {msg} /\ owner2' = [owner2 EXCEPT ![b] = msg.to]
        /\ UNCHANGED <<owner, deposits, toL1>>
    BY <1>11 DEF MintOnL2, l1Vars
  <2>3. InFlight(b) = {msg} /\ \A other \in toL1 : other.brain # b
    BY <2>1 DEF OneLiveCopy, InFlight
  <2>4. InFlight(b)' = {} /\ owner2'[b] # Nobody /\ b \in deposits
    BY <1>0, <2>1, <2>2, <2>3 DEF InFlight, BrainsTypeOK, OneLiveCopy, Away
  <2>5. ASSUME NEW c \in Ids, c # b PROVE InFlight(c)' = InFlight(c)
    BY <2>2, <2>5 DEF InFlight
  <2>6. \A c \in Ids : Away(c)' <=> Away(c)
    BY <2>1, <2>2, <2>3, <2>4, <2>5 DEF Away, BrainsTypeOK
  <2> QED BY <2>1, <2>2, <2>3, <2>4, <2>5, <2>6 DEF OneLiveCopy, BrainsTypeOK
<1>12. ASSUME NEW msg \in toL1, ReleaseOnL1(msg) PROVE OneLiveCopy'
  <2> DEFINE b == msg.brain
  <2>1. b \in Ids /\ msg.to \in Users
    BY DEF BrainsTypeOK, Message
  <2>2. /\ toL1' = toL1 \ {msg} /\ owner' = [owner EXCEPT ![b] = msg.to]
        /\ deposits' = deposits \ {b} /\ UNCHANGED <<toL2, owner2>>
    BY <1>12 DEF ReleaseOnL1
  <2>3. InFlight(b) = {msg} /\ owner2[b] = Nobody /\ \A other \in toL2 : other.brain # b
    BY <2>1 DEF OneLiveCopy, InFlight
  <2>4. InFlight(b)' = {}
    BY <2>2, <2>3 DEF InFlight
  <2>5. ASSUME NEW c \in Ids, c # b PROVE InFlight(c)' = InFlight(c)
    BY <2>2, <2>5 DEF InFlight
  <2>6. \A c \in Ids : Away(c)' <=> c # b /\ Away(c)
    BY <2>2, <2>3, <2>4, <2>5 DEF Away
  <2> QED BY <2>1, <2>2, <2>3, <2>4, <2>5, <2>6 DEF OneLiveCopy, BrainsTypeOK
<1>13. CASE UNCHANGED brainVars
  BY <1>13, CrossingUntouched DEF brainVars, l1Vars
<1> QED BY <1>1, <1>2, <1>3, <1>4, <1>5, <1>6, <1>7, <1>8, <1>9, <1>10, <1>11, <1>12, <1>13
        DEF BrainsNext

\* A brain exists on L2, or on its way, at most once, and exactly while the
\* original is in the escrow of the bridge.
THEOREM BrainsOneLiveCopy == BrainsSpec => []OneLiveCopy
<1>1. BrainsInit => OneLiveCopy
  BY DEF BrainsInit, OneLiveCopy, Away, InFlight
<1> QED BY <1>1, LiveCopyNext, BrainsTypes, PTL DEF BrainsSpec

-----------------------------------------------------------------------------
(* Stakes.                                                                 *)

\* A record names who paid what for a public brain that exists.
Recorded ==
  \A b \in Ids : stakes[b] # NoStake =>
    /\ stakes[b].staker \in Users /\ stakes[b].asset \in Assets
    /\ owner[b] # Nobody /\ b >= FIRST_PUBLIC_ID

\* What is owed to a staker changes with one record by what that record changes.
LEMMA OneRecord ==
  ASSUME BrainsTypeOK, BrainsTypeOK', NEW b \in Ids, \A c \in Ids \ {b} : stakes'[c] = stakes[c],
         NEW u \in Users, NEW a \in Assets
  PROVE  /\ Total(StakedBy(u, a)', Ids) =
              Total(StakedBy(u, a), Ids) - StakedBy(u, a)[b] + StakedBy(u, a)'[b]
         /\ Total(StakedBy(u, a), Ids) \in Nat
<1> DEFINE f == StakedBy(u, a)
           g == StakedBy(u, a)'
<1>1. IsFiniteSet(Ids)
  BY BrainsAssumption, FS_Interval DEF Ids
<1>2. (\A c \in Ids : f[c] \in Nat) /\ (\A c \in Ids : g[c] \in Nat)
  BY DEF StakedBy, BrainsTypeOK, StakeRecord
<1>3. \A c \in Ids \ {b} : g[c] = f[c]
  BY DEF StakedBy
<1> HIDE DEF f, g
<1>4. Total(g, Ids) = Total(f, Ids) - f[b] + g[b]
  BY <1>1, <1>2, <1>3, TotalUpdate
<1>5. Total(f, Ids) \in Nat
  BY <1>1, <1>2, CoinsFinite
<1> QED BY <1>4, <1>5 DEF f, g

\* Records that keep staker, asset and amount are owed the same.
LEMMA SameRecords ==
  ASSUME \A c \in Ids : /\ stakes'[c].staker = stakes[c].staker
                        /\ stakes'[c].asset = stakes[c].asset
                        /\ stakes'[c].amount = stakes[c].amount,
         NEW u \in Users, NEW a \in Assets
  PROVE  Total(StakedBy(u, a)', Ids) = Total(StakedBy(u, a), Ids)
<1>1. StakedBy(u, a)' = StakedBy(u, a)
  BY DEF StakedBy
<1> QED BY <1>1

StakesInv == BrainsTypeOK /\ Recorded /\ StakesAreBacked

LEMMA StakesInit == BrainsInit => StakesInv
<1> SUFFICES ASSUME BrainsInit PROVE StakesInv
  OBVIOUS
<1>1. ASSUME NEW u \in Users, NEW a \in Assets PROVE Total(StakedBy(u, a), Ids) = 0
  <2>1. \A b \in Ids : StakedBy(u, a)[b] = 0
    BY DEF BrainsInit, StakedBy, NoStake
  <2> QED BY <2>1, TotalZero
<1>2. StakesAreBacked
  BY <1>1 DEF StakesAreBacked, BrainsInit
<1>3. Recorded
  BY DEF Recorded, BrainsInit
<1> QED BY <1>2, <1>3, TypeInit DEF StakesInv

LEMMA StakesNext == StakesInv /\ [BrainsNext]_brainVars => StakesInv'
<1> SUFFICES ASSUME StakesInv, [BrainsNext]_brainVars PROVE StakesInv'
  OBVIOUS
<1>0. BrainsTypeOK /\ BrainsTypeOK' /\ Recorded /\ StakesAreBacked
  BY TypeNext DEF StakesInv
<1>a. ASSUME Recorded',
             \A u \in Users, a \in Assets : paid'[<<u, a>>] = Total(StakedBy(u, a)', Ids)
      PROVE  StakesInv'
  BY <1>0, <1>a DEF StakesInv, StakesAreBacked, Recorded, Existing
<1>b. ASSUME UNCHANGED <<stakes, paid>>,
             \A b \in Ids : owner[b] # Nobody => owner'[b] # Nobody
      PROVE  StakesInv'
  <2>1. \A u \in Users, a \in Assets : paid'[<<u, a>>] = Total(StakedBy(u, a)', Ids)
    BY <1>0, <1>b, SameRecords DEF StakesAreBacked
  <2>2. Recorded'
    BY <1>0, <1>b DEF Recorded
  <2> QED BY <1>a, <2>1, <2>2
<1>1. ASSUME NEW u \in Users, NEW a \in Assets, MintByStake(u, a) PROVE StakesInv'
  <2> DEFINE b == Candidate
             new == [staker |-> u, asset |-> a, amount |-> stakeAmount[a], locked |-> TRUE]
  <2>1. b \in Ids /\ b >= FIRST_PUBLIC_ID
    BY <1>0, <1>1, BrainsAssumption DEF MintByStake, Candidate, Ids, BrainsTypeOK
  <2>2. stakes[b] = NoStake
    BY <1>0, <1>1, <2>1 DEF MintByStake, Recorded
  <2>3. /\ stakes' = [stakes EXCEPT ![b] = new] /\ owner' = [owner EXCEPT ![b] = u]
        /\ paid' = [paid EXCEPT ![<<u, a>>] = @ + stakeAmount[a]]
    BY <1>1 DEF MintByStake
  <2> HIDE DEF b
  <2>4. Recorded'
    BY <1>0, <2>1, <2>3, BrainsAssumption DEF Recorded, BrainsTypeOK
  <2>5. ASSUME NEW w \in Users, NEW c \in Assets
        PROVE  paid'[<<w, c>>] = Total(StakedBy(w, c)', Ids)
    <3>1. \A x \in Ids \ {b} : stakes'[x] = stakes[x]
      BY <2>3 DEF BrainsTypeOK
    <3>2. StakedBy(w, c)[b] = 0
      BY <2>1, <2>2 DEF StakedBy, NoStake
    <3>3. stakes'[b] = new
      BY <1>0, <2>1, <2>3 DEF BrainsTypeOK
    <3>4. StakedBy(w, c)'[b] = IF u = w /\ a = c THEN stakeAmount[a] ELSE 0
      BY <2>1, <3>3 DEF StakedBy
    <3>5. paid'[<<w, c>>] = paid[<<w, c>>] + (IF u = w /\ a = c THEN stakeAmount[a] ELSE 0)
      BY <1>0, <2>3 DEF BrainsTypeOK
    <3>6. /\ Total(StakedBy(w, c)', Ids) =
               Total(StakedBy(w, c), Ids) - StakedBy(w, c)[b] + StakedBy(w, c)'[b]
          /\ Total(StakedBy(w, c), Ids) \in Nat
      BY <1>0, <2>1, <3>1, OneRecord
    <3>7. paid[<<w, c>>] = Total(StakedBy(w, c), Ids) /\ stakeAmount[a] \in Nat
      BY <1>0 DEF StakesAreBacked, BrainsTypeOK
    <3> QED BY <3>2, <3>4, <3>5, <3>6, <3>7
  <2> QED BY <1>a, <2>4, <2>5
<1>2. ASSUME NEW u \in Users, NEW b \in Ids, DeactivateAndUnstake(u, b) PROVE StakesInv'
  <2> DEFINE s == stakes[b].staker
             e == stakes[b].asset
             n == stakes[b].amount
  <2>1. s \in Users /\ e \in Assets /\ n \in Nat
    BY <1>0, <1>2 DEF DeactivateAndUnstake, Recorded, BrainsTypeOK, StakeRecord
  <2>2. /\ stakes' = [stakes EXCEPT ![b] = NoStake] /\ owner' = [owner EXCEPT ![b] = Nobody]
        /\ paid' = [paid EXCEPT ![<<s, e>>] = @ - n]
    BY <1>2 DEF DeactivateAndUnstake, Refund
  <2>3. Recorded'
    BY <1>0, <2>2 DEF Recorded, BrainsTypeOK
  <2>4. ASSUME NEW w \in Users, NEW c \in Assets
        PROVE  paid'[<<w, c>>] = Total(StakedBy(w, c)', Ids)
    <3>1. \A x \in Ids \ {b} : stakes'[x] = stakes[x]
      BY <2>2
    <3>2. StakedBy(w, c)[b] = IF s = w /\ e = c THEN n ELSE 0
      BY DEF StakedBy
    <3>3. stakes'[b] = NoStake
      BY <1>0, <2>2 DEF BrainsTypeOK
    <3>4. StakedBy(w, c)'[b] = 0
      BY <3>3 DEF StakedBy, NoStake
    <3>5. paid'[<<w, c>>] = paid[<<w, c>>] - (IF s = w /\ e = c THEN n ELSE 0)
      <4>1. paid \in [Users \X Assets -> Int] /\ <<w, c>> \in Users \X Assets
        BY <1>0 DEF BrainsTypeOK
      <4>2. paid'[<<w, c>>] = IF <<w, c>> = <<s, e>> THEN paid[<<w, c>>] - n ELSE paid[<<w, c>>]
        BY <2>2, <4>1
      <4>3. <<w, c>> = <<s, e>> <=> (s = w /\ e = c)
        OBVIOUS
      <4> QED BY <2>1, <4>1, <4>2, <4>3
    <3>6. /\ Total(StakedBy(w, c)', Ids) =
               Total(StakedBy(w, c), Ids) - StakedBy(w, c)[b] + StakedBy(w, c)'[b]
          /\ Total(StakedBy(w, c), Ids) \in Nat
      BY <1>0, <3>1, OneRecord
    <3>7. paid[<<w, c>>] = Total(StakedBy(w, c), Ids)
      BY <1>0 DEF StakesAreBacked
    <3> QED BY <2>1, <3>2, <3>4, <3>5, <3>6, <3>7
  <2> QED BY <1>a, <2>3, <2>4
<1>3. ASSUME NEW b \in Ids, LockElapses(b) PROVE StakesInv'
  <2>1. \A c \in Ids : /\ stakes'[c].staker = stakes[c].staker
                       /\ stakes'[c].asset = stakes[c].asset
                       /\ stakes'[c].amount = stakes[c].amount
    BY <1>0, <1>3 DEF LockElapses, BrainsTypeOK, StakeRecord
  <2>2. UNCHANGED <<owner, paid>>
    BY <1>3 DEF LockElapses
  <2>3. \A c \in Ids : stakes'[c] # NoStake => stakes[c] # NoStake
    <3>1. stakes[b] # NoStake
      <4>1. stakes[b].locked /\ ~ NoStake.locked
        BY <1>3 DEF LockElapses, NoStake
      <4> QED BY <4>1
    <3>2. \A c \in Ids \ {b} : stakes'[c] = stakes[c]
      BY <1>0, <1>3 DEF LockElapses, BrainsTypeOK
    <3> QED BY <3>1, <3>2
  <2>4. Recorded'
    BY <1>0, <2>1, <2>2, <2>3 DEF Recorded
  <2>5. \A u \in Users, a \in Assets : paid'[<<u, a>>] = Total(StakedBy(u, a)', Ids)
    BY <1>0, <2>1, <2>2, SameRecords DEF StakesAreBacked
  <2> QED BY <1>a, <2>4, <2>5
<1>4. ASSUME NEW u \in Users, NEW b \in Ids, MintReserved(u, b) PROVE StakesInv'
  BY <1>0, <1>4, <1>b, BrainsAssumption DEF MintReserved, BrainsTypeOK
<1>5. ASSUME NEW u \in Users, NEW b \in Ids, NEW e \in Endpoints, SendToEndpoint(u, b, e)
      PROVE  StakesInv'
  BY <1>0, <1>5, <1>b, BrainsAssumption DEF SendToEndpoint, BrainsTypeOK, Endpoints
<1>6. ASSUME NEW u \in Users, NEW b \in Ids, NEW to \in Users, NEW adapted \in BOOLEAN,
             BridgeToL2(u, b, to, adapted)
      PROVE  StakesInv'
  BY <1>0, <1>6, <1>b, BrainsAssumption DEF BridgeToL2, BrainsTypeOK
<1>7. ASSUME NEW msg \in toL1, ReleaseOnL1(msg) PROVE StakesInv'
  <2>1. msg.to \in Users
    BY <1>0 DEF BrainsTypeOK, Message
  <2> QED BY <1>0, <1>7, <2>1, <1>b, BrainsAssumption DEF ReleaseOnL1, BrainsTypeOK
<1>8. ASSUME NEW u \in Users, NEW b \in Ids, NEW to \in Users, BurnOnL2(u, b, to)
      PROVE  StakesInv'
  BY <1>8, <1>b DEF BurnOnL2, l1Vars
<1>9. ASSUME NEW a \in Assets, CooldownElapses(a) PROVE StakesInv'
  BY <1>9, <1>b DEF CooldownElapses, l1Vars
<1>10. ASSUME NEW a \in Assets, NEW new \in 1 .. MaxStake, SetStakeAmount(a, new)
       PROVE  StakesInv'
  BY <1>10, <1>b DEF SetStakeAmount, l1Vars
<1>11. ASSUME NEW e \in Endpoints, NEW allowed \in BOOLEAN, SetBridgeEndpoint(e, allowed)
       PROVE  StakesInv'
  BY <1>11, <1>b DEF SetBridgeEndpoint, l1Vars
<1>12. ASSUME NEW msg \in toL2, MintOnL2(msg) PROVE StakesInv'
  BY <1>12, <1>b DEF MintOnL2, l1Vars
<1>13. CASE UNCHANGED brainVars
  BY <1>13, <1>b DEF brainVars, l1Vars
<1> QED BY <1>1, <1>2, <1>3, <1>4, <1>5, <1>6, <1>7, <1>8, <1>9, <1>10, <1>11, <1>12, <1>13
        DEF BrainsNext

\* What a user has paid in and not got back is what its brains' records say,
\* whoever holds the brains and whatever a brain costs by now.
THEOREM BrainsStakesBacked == BrainsSpec => []StakesAreBacked
<1>1. StakesInv => StakesAreBacked
  BY DEF StakesInv
<1> QED BY <1>1, StakesInit, StakesNext, PTL DEF BrainsSpec

-----------------------------------------------------------------------------
(* Identifiers.                                                            *)

\* Public identifiers are given out in order, so the ones to come are unused.
InOrder ==
  /\ \A b \in Ids : b >= nextPublicId => owner[b] = Nobody
  /\ \A b \in burned : b >= FIRST_PUBLIC_ID /\ b < nextPublicId /\ owner[b] = Nobody
  /\ totalSupply = Cardinality(Existing)

IdsInv == StakesInv /\ OneLiveCopy /\ InOrder

\* The supply follows a brain that is minted, and one that is burned.
LEMMA SupplyFollows ==
  ASSUME NEW b \in Ids, \A c \in Ids \ {b} : (owner'[c] = Nobody) <=> (owner[c] = Nobody)
  PROVE  /\ owner[b] = Nobody /\ owner'[b] # Nobody =>
              Cardinality(Existing') = Cardinality(Existing) + 1
         /\ owner[b] # Nobody /\ owner'[b] = Nobody =>
              Cardinality(Existing') = Cardinality(Existing) - 1
<1>1. IsFiniteSet(Existing)
  <2>1. IsFiniteSet(Ids)
    BY BrainsAssumption, FS_Interval DEF Ids
  <2> QED BY <2>1, FS_Subset DEF Existing
<1>2. ASSUME owner[b] = Nobody, owner'[b] # Nobody
      PROVE  Cardinality(Existing') = Cardinality(Existing) + 1
  <2>1. Existing' = Existing \cup {b} /\ b \notin Existing
    BY <1>2 DEF Existing
  <2> QED BY <1>1, <2>1, FS_AddElement
<1>3. ASSUME owner[b] # Nobody, owner'[b] = Nobody
      PROVE  Cardinality(Existing') = Cardinality(Existing) - 1
  <2>1. Existing' = Existing \ {b} /\ b \in Existing
    BY <1>3 DEF Existing
  <2> QED BY <1>1, <2>1, FS_RemoveElement
<1> QED BY <1>2, <1>3

LEMMA IdsInit == BrainsInit => IdsInv
<1> SUFFICES ASSUME BrainsInit PROVE IdsInv
  OBVIOUS
<1>1. Existing = {}
  BY DEF Existing, BrainsInit
<1>2. InOrder
  BY <1>1, FS_EmptySet DEF InOrder, BrainsInit
<1>3. OneLiveCopy
  BY DEF BrainsInit, OneLiveCopy, Away, InFlight
<1> QED BY <1>2, <1>3, StakesInit DEF IdsInv

LEMMA IdsNext == IdsInv /\ [BrainsNext]_brainVars => IdsInv'
<1> SUFFICES ASSUME IdsInv, [BrainsNext]_brainVars PROVE InOrder'
  BY StakesNext, LiveCopyNext DEF IdsInv, StakesInv
<1>0. BrainsTypeOK /\ Recorded /\ OneLiveCopy /\ InOrder
  BY DEF IdsInv, StakesInv
<1>a. ASSUME UNCHANGED <<nextPublicId, totalSupply, burned>>,
             \A b \in Ids : (owner'[b] = Nobody) <=> (owner[b] = Nobody)
      PROVE  InOrder'
  <2>1. Existing' = Existing
    BY <1>a DEF Existing
  <2> QED BY <1>0, <1>a, <2>1 DEF InOrder, BrainsTypeOK
<1>1. ASSUME NEW u \in Users, NEW a \in Assets, MintByStake(u, a) PROVE InOrder'
  <2>1. /\ nextPublicId \in Ids /\ owner[nextPublicId] = Nobody
        /\ owner' = [owner EXCEPT ![nextPublicId] = u] /\ u # Nobody
        /\ nextPublicId' = nextPublicId + 1 /\ totalSupply' = totalSupply + 1
        /\ burned' = burned
    BY <1>0, <1>1, BrainsAssumption DEF MintByStake, Candidate, Ids, BrainsTypeOK
  <2>2. Cardinality(Existing') = Cardinality(Existing) + 1
    BY <1>0, <2>1, SupplyFollows DEF BrainsTypeOK
  <2>3. nextPublicId \in Nat /\ Ids \subseteq Nat /\ burned \subseteq Ids
    BY <1>0, BrainsAssumption DEF BrainsTypeOK, Ids
  <2>4. \A b \in Ids : b >= nextPublicId' => owner'[b] = Nobody
    BY <1>0, <2>1, <2>3 DEF InOrder, BrainsTypeOK
  <2>5. \A b \in burned' : b >= FIRST_PUBLIC_ID /\ b < nextPublicId' /\ owner'[b] = Nobody
    BY <1>0, <2>1, <2>3 DEF InOrder, BrainsTypeOK
  <2> QED BY <1>0, <2>1, <2>2, <2>4, <2>5 DEF InOrder
<1>2. ASSUME NEW u \in Users, NEW b \in Ids, MintReserved(u, b) PROVE InOrder'
  <2>1. /\ b < FIRST_PUBLIC_ID /\ owner[b] = Nobody /\ u # Nobody
        /\ owner' = [owner EXCEPT ![b] = u] /\ totalSupply' = totalSupply + 1
        /\ UNCHANGED <<nextPublicId, burned>>
    BY <1>2, BrainsAssumption DEF MintReserved
  <2>2. Cardinality(Existing') = Cardinality(Existing) + 1
    BY <1>0, <2>1, SupplyFollows DEF BrainsTypeOK
  <2>3. nextPublicId \in Nat /\ nextPublicId >= FIRST_PUBLIC_ID /\ Ids \subseteq Nat
        /\ burned \subseteq Ids /\ FIRST_PUBLIC_ID \in Nat
    BY <1>0, BrainsAssumption DEF BrainsTypeOK, Ids
  <2>4. \A c \in Ids : c >= nextPublicId => c # b
    BY <2>1, <2>3
  <2>5. \A c \in burned : c # b
    BY <1>0, <2>1, <2>3 DEF InOrder
  <2> QED BY <1>0, <2>1, <2>2, <2>4, <2>5 DEF InOrder, BrainsTypeOK
<1>3. ASSUME NEW u \in Users, NEW b \in Ids, DeactivateAndUnstake(u, b) PROVE InOrder'
  <2>1. /\ stakes[b] # NoStake /\ owner[b] # Nobody
        /\ owner' = [owner EXCEPT ![b] = Nobody] /\ totalSupply' = totalSupply - 1
        /\ burned' = burned \cup {b} /\ UNCHANGED nextPublicId
    BY <1>3, BrainsAssumption DEF DeactivateAndUnstake, OwnerMay
  <2>2. Cardinality(Existing') = Cardinality(Existing) - 1
    BY <1>0, <2>1, SupplyFollows DEF BrainsTypeOK
  <2>3. nextPublicId \in Nat /\ Ids \subseteq Nat
    BY <1>0, BrainsAssumption DEF BrainsTypeOK, Ids
  <2>4. b >= FIRST_PUBLIC_ID /\ b < nextPublicId
    BY <1>0, <2>1, <2>3 DEF InOrder, Recorded
  <2> QED BY <1>0, <2>1, <2>2, <2>4 DEF InOrder, BrainsTypeOK
<1>4. ASSUME NEW u \in Users, NEW b \in Ids, NEW e \in Endpoints, SendToEndpoint(u, b, e)
      PROVE  InOrder'
  BY <1>0, <1>4, <1>a, BrainsAssumption DEF SendToEndpoint, BrainsTypeOK, Endpoints
<1>5. ASSUME NEW u \in Users, NEW b \in Ids, NEW to \in Users, NEW adapted \in BOOLEAN,
             BridgeToL2(u, b, to, adapted)
      PROVE  InOrder'
  BY <1>0, <1>5, <1>a, BrainsAssumption DEF BridgeToL2, BrainsTypeOK
<1>6. ASSUME NEW msg \in toL1, ReleaseOnL1(msg) PROVE InOrder'
  <2>1. msg.to \in Users
    BY <1>0 DEF BrainsTypeOK, Message
  <2> QED BY <1>0, <1>6, <2>1, <1>a, BrainsAssumption DEF ReleaseOnL1, BrainsTypeOK
<1>7. ASSUME NEW u \in Users, NEW b \in Ids, NEW to \in Users, BurnOnL2(u, b, to)
      PROVE  InOrder'
  BY <1>7, <1>a DEF BurnOnL2, l1Vars
<1>8. ASSUME NEW b \in Ids, LockElapses(b) PROVE InOrder'
  BY <1>8, <1>a DEF LockElapses
<1>9. ASSUME NEW a \in Assets, CooldownElapses(a) PROVE InOrder'
  BY <1>9, <1>a DEF CooldownElapses, l1Vars
<1>10. ASSUME NEW a \in Assets, NEW new \in 1 .. MaxStake, SetStakeAmount(a, new)
       PROVE  InOrder'
  BY <1>10, <1>a DEF SetStakeAmount, l1Vars
<1>11. ASSUME NEW e \in Endpoints, NEW allowed \in BOOLEAN, SetBridgeEndpoint(e, allowed)
       PROVE  InOrder'
  BY <1>11, <1>a DEF SetBridgeEndpoint, l1Vars
<1>12. ASSUME NEW msg \in toL2, MintOnL2(msg) PROVE InOrder'
  BY <1>12, <1>a DEF MintOnL2, l1Vars
<1>13. CASE UNCHANGED brainVars
  BY <1>13, <1>a DEF brainVars, l1Vars
<1> QED BY <1>1, <1>2, <1>3, <1>4, <1>5, <1>6, <1>7, <1>8, <1>9, <1>10, <1>11, <1>12, <1>13
        DEF BrainsNext

\* A brain that was given back is gone from both chains for good, and the supply
\* that is kept by hand is the number of brains there are.
THEOREM BrainsNoIdTwice == BrainsSpec => []NoIdTwice
<1>1. IdsInv => NoIdTwice
  <2> SUFFICES ASSUME IdsInv PROVE NoIdTwice
    OBVIOUS
  <2>1. \A b \in burned : b \in Ids /\ owner[b] = Nobody
    BY DEF IdsInv, StakesInv, BrainsTypeOK, InOrder
  <2>2. \A b \in burned : ~ Away(b)
    BY <2>1, BrainsAssumption DEF IdsInv, OneLiveCopy
  <2> QED BY <2>1, <2>2 DEF NoIdTwice, IdsInv, InOrder
<1> QED BY <1>1, IdsInit, IdsNext, PTL DEF BrainsSpec

\* Whatever is voted, the brains move only as the contracts of the brains let them.
THEOREM GovernorImplementsBrains == GovernorSpec => BrainsSpec
<1>1. GovernorInit => BrainsInit
  BY DEF GovernorInit
<1>2. [GovernorNext]_govVars => [BrainsNext]_brainVars
  <2> SUFFICES ASSUME [GovernorNext]_govVars PROVE [BrainsNext]_brainVars
    OBVIOUS
  <2>1. ASSUME NEW b, NEW amount, ChangeStake(b, amount) PROVE UNCHANGED brainVars
    BY <2>1, Zenon DEF ChangeStake
  <2>2. ASSUME NEW starting, EndOfSecond(starting) PROVE UNCHANGED brainVars
    BY <2>2, Zenon DEF EndOfSecond
  <2>3. ASSUME NEW p, VotingEnds(p) \/ Queue(p) \/ Execute(p) \/ Cancel(p)
        PROVE  UNCHANGED brainVars
    BY <2>3, Zenon DEF VotingEnds, Queue, Execute, Cancel
  <2>4. ASSUME NEW u, NEW p, Propose(u, p) PROVE UNCHANGED brainVars
    BY <2>4, Zenon DEF Propose
  <2>5. ASSUME NEW u, NEW p, NEW support, CastVote(u, p, support) PROVE UNCHANGED brainVars
    BY <2>5, Zenon DEF CastVote
  <2>6. GovernorStep => UNCHANGED brainVars
    BY <2>1, <2>2, <2>3, <2>4, <2>5, Zenon DEF GovernorStep
  <2>7. UNCHANGED govVars => UNCHANGED brainVars
    BY Zenon DEF govVars
  <2> QED BY <2>6, <2>7, Zenon DEF GovernorNext
<1> QED BY <1>1, <1>2, PTL DEF GovernorSpec, BrainsSpec

\* So what is owed for a brain stays covered, a brain has one owner that can act, and
\* none comes back after it was given back, in every vote as without one.
THEOREM GovernorKeepsBrains ==
  GovernorSpec => [](OneLiveCopy /\ StakesAreBacked /\ NoIdTwice)
BY GovernorImplementsBrains, BrainsOneLiveCopy, BrainsStakesBacked, BrainsNoIdTwice, PTL

-----------------------------------------------------------------------------
(* The votes.                                                              *)

Proposal ==
  [stage : Stages, proposer : Users \cup {Nobody}, giga : SUBSET Ids, voted : SUBSET Ids,
   voters : SUBSET Users, votes : [Support -> Nat], needed : Nat]

GovernorTypeOK == proposal \in [Proposals -> Proposal] /\ quorumVotes \in Nat

\* A brain is counted when the snapshot is over, never before.
NoEarlyVotes ==
  \A p \in Proposals : proposal[p].stage \in {"unknown", "pending"} => proposal[p].voted = {}

\* The record of a proposal that was queued still shows why it could be.
QueuedSucceeded ==
  \A p \in Proposals : proposal[p].stage \in {"queued", "executed"} =>
    /\ proposal[p].votes["for"] + proposal[p].votes["abstain"] >= proposal[p].needed
    /\ VoteSucceeded(proposal[p].votes)

GovernorInv == GovernorTypeOK /\ NoEarlyVotes /\ BrainsVoteOnce /\ QueuedSucceeded

LEMMA IdsFinite == IsFiniteSet(Ids)
BY BrainsAssumption, FS_Interval DEF Ids

\* A finite set has subsets of every size up to its own.
LEMMA SubsetOfSize ==
  ASSUME NEW S, IsFiniteSet(S), NEW k \in Nat, k <= Cardinality(S)
  PROVE  \E T \in SUBSET S : Cardinality(T) = k
<1> DEFINE n == Cardinality(S)
<1>1. n \in Nat /\ ExistsBijection(1 .. n, S)
  BY FS_CardinalityType
<1>2. PICK f \in Bijection(1 .. n, S) : TRUE
  BY <1>1 DEF ExistsBijection
<1> DEFINE T == {f[i] : i \in 1 .. k}
           g == [i \in 1 .. k |-> f[i]]
<1>3. 1 .. k \subseteq 1 .. n
  BY <1>1
<1>4. \A i, j \in 1 .. n : f[i] = f[j] => i = j
  BY <1>2 DEF Bijection, Injection, IsInjective
<1>5. f \in [1 .. n -> S]
  BY <1>2 DEF Bijection, Injection
<1>6. g \in Bijection(1 .. k, T)
  BY <1>3, <1>4, <1>5 DEF Bijection, Injection, IsInjective, Surjection
<1>7. IsFiniteSet(1 .. k) /\ Cardinality(1 .. k) = k
  BY FS_Interval
<1>8. Cardinality(T) = k
  BY <1>6, <1>7, FS_Bijection DEF ExistsBijection
<1> QED BY <1>3, <1>5, <1>8

\* The proposals keep their type when one of them gets a value of the type.
LEMMA ProposalReplaced ==
  ASSUME GovernorTypeOK, NEW p \in Proposals, NEW q \in Proposal,
         proposal' = [proposal EXCEPT ![p] = q], quorumVotes' \in Nat
  PROVE  GovernorTypeOK'
BY DEF GovernorTypeOK

\* A ballot changes the three fields of a proposal that count.
LEMMA BallotTyped ==
  ASSUME NEW q \in Proposal, NEW voted \in SUBSET Ids, NEW voters \in SUBSET Users,
         NEW votes \in [Support -> Nat]
  PROVE  [q EXCEPT !.voted = voted, !.voters = voters, !.votes = votes] \in Proposal
BY DEF Proposal

LEMMA InvInit == GovernorInit => GovernorInv
<1> SUFFICES ASSUME GovernorInit PROVE GovernorInv
  OBVIOUS
<1>1. proposal = [p \in Proposals |-> NoProposal] /\ quorumVotes \in Nat
  BY GovernorAssumption DEF GovernorInit
<1>2. NoProposal \in Proposal
  BY DEF NoProposal, Proposal, Stages
<1>3. GovernorTypeOK
  BY <1>1, <1>2 DEF GovernorTypeOK
<1>4. BrainsVoteOnce
  <2>1. ASSUME NEW p \in Proposals PROVE VotesOf(p) = 0 /\ proposal[p].voted = {}
    BY <1>1 DEF VotesOf, NoProposal, Support
  <2> QED BY <2>1, FS_EmptySet DEF BrainsVoteOnce
<1> QED BY <1>1, <1>3, <1>4
        DEF GovernorInv, NoEarlyVotes, QueuedSucceeded, NoProposal

\* Votes are cast one ballot of new brains at a time, and only while the vote is on.
LEMMA InvNext == GovernorInv /\ [GovernorNext]_govVars => GovernorInv'
<1> SUFFICES ASSUME GovernorInv, [GovernorNext]_govVars PROVE GovernorInv'
  OBVIOUS
<1>0. /\ GovernorTypeOK /\ NoEarlyVotes /\ BrainsVoteOnce /\ QueuedSucceeded
      /\ quorumVotes \in Nat
      /\ \A p \in Proposals : proposal[p] \in Proposal
  BY DEF GovernorInv, GovernorTypeOK
<1>a. ASSUME UNCHANGED <<proposal, quorumVotes>> PROVE GovernorInv'
  BY <1>a DEF GovernorInv, GovernorTypeOK, NoEarlyVotes, BrainsVoteOnce, QueuedSucceeded, VotesOf
<1>1. ASSUME NEW b \in Ids, NEW amount \in StakeLevels, ChangeStake(b, amount) PROVE GovernorInv'
  BY <1>1, <1>a DEF ChangeStake
<1>2. ASSUME NEW starting \in SUBSET Proposals, EndOfSecond(starting) PROVE GovernorInv'
  <2>1. /\ \A p \in starting : proposal[p].stage = "pending"
        /\ proposal' = [p \in Proposals |->
             IF p \in starting
             THEN [proposal[p] EXCEPT !.stage = "active", !.giga = GigaBrains(stake)]
             ELSE proposal[p]]
        /\ quorumVotes' = quorumVotes
    BY <1>2 DEF EndOfSecond
  <2>2. GigaBrains(stake) \in SUBSET Ids /\ "active" \in Stages
    BY DEF GigaBrains, Stages
  <2> DEFINE started(p) == [proposal[p] EXCEPT !.stage = "active", !.giga = GigaBrains(stake)]
  <2>a. ASSUME NEW p \in Proposals
        PROVE  /\ started(p) \in Proposal
               /\ started(p).votes = proposal[p].votes /\ started(p).voted = proposal[p].voted
               /\ started(p).needed = proposal[p].needed /\ started(p).stage = "active"
    <3>1. proposal[p] \in Proposal
      BY DEF GovernorInv, GovernorTypeOK
    <3> QED BY <2>2, <3>1 DEF Proposal
  <2>b. \A p \in Proposals : proposal'[p] = IF p \in starting THEN started(p) ELSE proposal[p]
    BY <2>1
  <2>c. \A p \in starting : proposal[p].voted = {}
    BY <2>1 DEF GovernorInv, NoEarlyVotes
  <2> HIDE DEF started
  <2>3. GovernorTypeOK'
    <3>1. DOMAIN proposal' = Proposals /\ proposal' = [p \in Proposals |-> proposal'[p]]
      BY <2>1
    <3>2. \A p \in Proposals : proposal'[p] \in Proposal
      BY <2>a, <2>b DEF GovernorInv, GovernorTypeOK
    <3>3. quorumVotes' \in Nat
      BY <2>1 DEF GovernorInv, GovernorTypeOK
    <3> QED BY <3>1, <3>2, <3>3 DEF GovernorTypeOK
  <2>4. \A p \in Proposals :
          /\ proposal'[p].votes = proposal[p].votes /\ proposal'[p].voted = proposal[p].voted
          /\ proposal'[p].needed = proposal[p].needed
          /\ \/ /\ proposal'[p].stage = proposal[p].stage
                /\ proposal'[p].giga = proposal[p].giga
             \/ proposal'[p].stage = "active" /\ proposal[p].voted = {}
    BY <2>a, <2>b, <2>c
  <2> QED BY <2>3, <2>4
          DEF GovernorInv, NoEarlyVotes, BrainsVoteOnce, QueuedSucceeded, VotesOf
<1>3. ASSUME NEW u \in Users, NEW p \in Proposals, Propose(u, p) PROVE GovernorInv'
  <2>1. /\ proposal[p].stage = "unknown" /\ quorumVotes' = quorumVotes
        /\ proposal' = [proposal EXCEPT ![p].stage = "pending", ![p].proposer = u]
    BY <1>3 DEF Propose
  <2> DEFINE new == [proposal[p] EXCEPT !.stage = "pending", !.proposer = u]
  <2>a. /\ new \in Proposal
        /\ new.votes = proposal[p].votes /\ new.voted = proposal[p].voted
        /\ new.needed = proposal[p].needed /\ new.giga = proposal[p].giga
        /\ new.stage = "pending"
    BY <1>0 DEF Proposal, Stages
  <2>b. proposal' = [proposal EXCEPT ![p] = new]
    BY <2>1
  <2> HIDE DEF new
  <2>2. GovernorTypeOK'
    BY <1>0, <2>1, <2>a, <2>b, ProposalReplaced
  <2>3. \A q \in Proposals :
          /\ proposal'[q].votes = proposal[q].votes /\ proposal'[q].voted = proposal[q].voted
          /\ proposal'[q].needed = proposal[q].needed /\ proposal'[q].giga = proposal[q].giga
          /\ proposal'[q].stage = IF q = p THEN "pending" ELSE proposal[q].stage
    BY <1>0, <2>a, <2>b DEF GovernorTypeOK
  <2>4. NoEarlyVotes'
    <3> SUFFICES ASSUME NEW q \in Proposals, proposal'[q].stage \in {"unknown", "pending"}
                 PROVE  proposal'[q].voted = {}
      BY DEF NoEarlyVotes
    <3>1. proposal[q].stage \in {"unknown", "pending"}
      BY <2>1, <2>3
    <3> QED BY <1>0, <2>3, <3>1 DEF NoEarlyVotes
  <2>5. BrainsVoteOnce'
    BY <1>0, <2>3 DEF BrainsVoteOnce, VotesOf
  <2>6. QueuedSucceeded'
    BY <1>0, <2>3 DEF QueuedSucceeded, VoteSucceeded
  <2> QED BY <2>2, <2>4, <2>5, <2>6 DEF GovernorInv
<1>4. ASSUME NEW u \in Users, NEW p \in Proposals, NEW s \in Support, CastVote(u, p, s)
      PROVE  GovernorInv'
  <2> DEFINE counted == Uncounted(u, p)
             new == Cardinality(counted)
  <2>1. counted \in SUBSET Ids /\ counted \in SUBSET proposal[p].giga
        /\ counted \cap proposal[p].voted = {}
    BY DEF Uncounted, OwnedOnL2
  <2>2. proposal[p] \in Proposal
    BY DEF GovernorInv, GovernorTypeOK
  <2> HIDE DEF counted
  <2>3. IsFiniteSet(counted) /\ new \in Nat
        /\ Cardinality(proposal[p].voted \cup counted) = Cardinality(proposal[p].voted) + new
    <3>1. IsFiniteSet(counted) /\ IsFiniteSet(proposal[p].voted)
      BY <2>1, <2>2, IdsFinite, FS_Subset DEF Proposal
    <3>2. proposal[p].voted \cap counted = {}
      BY <2>1
    <3>3. Cardinality({}) = 0 /\ Cardinality(proposal[p].voted) \in Nat /\ new \in Nat
      BY <3>1, FS_EmptySet, FS_CardinalityType
    <3>4. Cardinality(proposal[p].voted \cup counted) =
            Cardinality(proposal[p].voted) + new - Cardinality(proposal[p].voted \cap counted)
      BY <3>1, FS_Union
    <3>5. Cardinality(proposal[p].voted \cap counted) = 0
      BY <3>2, <3>3
    <3> HIDE DEF new
    <3> QED BY <3>1, <3>3, <3>4, <3>5
  <2> HIDE DEF new
  <2>4. /\ proposal[p].stage = "active" /\ quorumVotes' = quorumVotes
        /\ proposal' = [proposal EXCEPT ![p].voted = @ \cup counted,
                                        ![p].voters = @ \cup {u}, ![p].votes[s] = @ + new]
    BY <1>4 DEF CastVote, counted, new
  <2> DEFINE voted  == proposal[p].voted \cup counted
             voters == proposal[p].voters \cup {u}
             votes  == [proposal[p].votes EXCEPT ![s] = @ + new]
             ballot == [proposal[p] EXCEPT !.voted = voted, !.voters = voters, !.votes = votes]
  <2>a. proposal' = [proposal EXCEPT ![p] = ballot]
    BY <2>4
  <2>6. proposal[p].votes \in [Support -> Nat]
    BY <2>2 DEF Proposal
  <2>b. voted \in SUBSET Ids /\ voters \in SUBSET Users /\ votes \in [Support -> Nat]
    BY <2>1, <2>2, <2>3, <2>6 DEF Proposal
  <2>c. votes = [proposal[p].votes EXCEPT ![s] = @ + new] /\ voted = proposal[p].voted \cup counted
    OBVIOUS
  <2> HIDE DEF voted, voters, votes
  <2>7. ballot \in Proposal
    BY <2>2, <2>b, BallotTyped
  <2>d. /\ ballot.voted = voted /\ ballot.giga = proposal[p].giga
        /\ ballot.stage = proposal[p].stage /\ ballot.votes = votes
    BY <2>2 DEF Proposal
  <2> HIDE DEF ballot
  <2>8. GovernorTypeOK'
    BY <1>0, <2>4, <2>7, <2>a, ProposalReplaced
  <2>5. /\ proposal'[p].voted = proposal[p].voted \cup counted
        /\ proposal'[p].giga = proposal[p].giga /\ proposal'[p].stage = "active"
        /\ proposal'[p].votes = [proposal[p].votes EXCEPT ![s] = @ + new]
        /\ \A q \in Proposals \ {p} : proposal'[q] = proposal[q]
    BY <1>0, <2>4, <2>a, <2>c, <2>d DEF GovernorTypeOK
  <2>9. VotesOf(p)' = VotesOf(p) + new
    <3>1. s = "for" \/ s = "against" \/ s = "abstain"
      BY DEF Support
    <3> QED BY <2>3, <2>5, <2>6, <3>1 DEF VotesOf, Support
  <2>10. BrainsVoteOnce'
    BY <2>1, <2>3, <2>5, <2>9 DEF GovernorInv, BrainsVoteOnce, VotesOf
  <2> QED BY <2>5, <2>8, <2>10 DEF GovernorInv, NoEarlyVotes, QueuedSucceeded
<1>5. ASSUME NEW p \in Proposals, NEW stage \in {"closed", "canceled"},
             proposal[p].stage # "unknown",
             proposal' = [proposal EXCEPT ![p].stage = stage], quorumVotes' = quorumVotes
      PROVE  GovernorInv'
  <2> DEFINE new == [proposal[p] EXCEPT !.stage = stage]
  <2>a. /\ new \in Proposal
        /\ new.votes = proposal[p].votes /\ new.voted = proposal[p].voted
        /\ new.needed = proposal[p].needed /\ new.giga = proposal[p].giga
        /\ new.stage = stage
    BY <1>0 DEF Proposal, Stages
  <2>b. proposal' = [proposal EXCEPT ![p] = new]
    BY <1>5
  <2> HIDE DEF new
  <2>1. GovernorTypeOK'
    BY <1>0, <1>5, <2>a, <2>b, ProposalReplaced
  <2>2. \A q \in Proposals :
          /\ proposal'[q].votes = proposal[q].votes /\ proposal'[q].voted = proposal[q].voted
          /\ proposal'[q].needed = proposal[q].needed /\ proposal'[q].giga = proposal[q].giga
          /\ proposal'[q].stage = IF q = p THEN stage ELSE proposal[q].stage
    BY <1>0, <2>a, <2>b DEF GovernorTypeOK
  <2> QED BY <2>1, <2>2
          DEF GovernorInv, NoEarlyVotes, BrainsVoteOnce, QueuedSucceeded, VotesOf
<1>6. ASSUME NEW p \in Proposals, Queue(p) PROVE GovernorInv'
  <2>1. /\ QuorumReached(proposal[p].votes) /\ VoteSucceeded(proposal[p].votes)
        /\ quorumVotes' = quorumVotes
        /\ proposal' = [proposal EXCEPT ![p].stage = "queued", ![p].needed = quorumVotes]
    BY <1>6 DEF Queue
  <2> DEFINE new == [proposal[p] EXCEPT !.stage = "queued", !.needed = quorumVotes]
  <2>a. /\ new \in Proposal
        /\ new.votes = proposal[p].votes /\ new.voted = proposal[p].voted
        /\ new.giga = proposal[p].giga /\ new.needed = quorumVotes /\ new.stage = "queued"
    BY <1>0 DEF Proposal, Stages
  <2>b. proposal' = [proposal EXCEPT ![p] = new]
    BY <2>1
  <2> HIDE DEF new
  <2>2. GovernorTypeOK'
    BY <1>0, <2>1, <2>a, <2>b, ProposalReplaced
  <2>3. \A q \in Proposals :
          /\ proposal'[q].votes = proposal[q].votes /\ proposal'[q].voted = proposal[q].voted
          /\ proposal'[q].giga = proposal[q].giga
          /\ proposal'[q].needed = IF q = p THEN quorumVotes ELSE proposal[q].needed
          /\ proposal'[q].stage = IF q = p THEN "queued" ELSE proposal[q].stage
    BY <1>0, <2>a, <2>b DEF GovernorTypeOK
  <2>4. NoEarlyVotes'
    <3> SUFFICES ASSUME NEW q \in Proposals, proposal'[q].stage \in {"unknown", "pending"}
                 PROVE  proposal'[q].voted = {}
      BY DEF NoEarlyVotes
    <3>1. proposal[q].stage \in {"unknown", "pending"}
      BY <2>3
    <3> QED BY <1>0, <2>3, <3>1 DEF NoEarlyVotes
  <2>5. BrainsVoteOnce'
    BY <1>0, <2>3 DEF BrainsVoteOnce, VotesOf
  <2>6. QueuedSucceeded'
    <3>1. ASSUME NEW q \in Proposals, proposal'[q].stage \in {"queued", "executed"}, q # p
          PROVE  /\ proposal'[q].votes["for"] + proposal'[q].votes["abstain"] >= proposal'[q].needed
                 /\ VoteSucceeded(proposal'[q].votes)
      BY <1>0, <2>3, <3>1 DEF QueuedSucceeded
    <3>2. /\ proposal'[p].votes["for"] + proposal'[p].votes["abstain"] >= proposal'[p].needed
          /\ VoteSucceeded(proposal'[p].votes)
      BY <2>1, <2>3 DEF QuorumReached
    <3> QED BY <3>1, <3>2 DEF QueuedSucceeded, VoteSucceeded
  <2> QED BY <2>2, <2>4, <2>5, <2>6 DEF GovernorInv
<1>7. ASSUME NEW p \in Proposals, Execute(p) PROVE GovernorInv'
  <2>1. /\ proposal[p].stage = "queued" /\ quorumVotes' = NewQuorum[p]
        /\ proposal' = [proposal EXCEPT ![p].stage = "executed"]
    BY <1>7 DEF Execute
  <2> DEFINE new == [proposal[p] EXCEPT !.stage = "executed"]
  <2>a. /\ new \in Proposal
        /\ new.votes = proposal[p].votes /\ new.voted = proposal[p].voted
        /\ new.giga = proposal[p].giga /\ new.needed = proposal[p].needed
        /\ new.stage = "executed"
    BY <1>0 DEF Proposal, Stages
  <2>b. proposal' = [proposal EXCEPT ![p] = new] /\ quorumVotes' \in Nat
    BY <2>1, GovernorAssumption
  <2> HIDE DEF new
  <2>2. GovernorTypeOK'
    BY <1>0, <2>a, <2>b, ProposalReplaced
  <2>3. \A q \in Proposals :
          /\ proposal'[q].votes = proposal[q].votes /\ proposal'[q].voted = proposal[q].voted
          /\ proposal'[q].giga = proposal[q].giga /\ proposal'[q].needed = proposal[q].needed
          /\ proposal'[q].stage = IF q = p THEN "executed" ELSE proposal[q].stage
    BY <1>0, <2>a, <2>b DEF GovernorTypeOK
  <2> QED BY <2>1, <2>2, <2>3
          DEF GovernorInv, NoEarlyVotes, BrainsVoteOnce, QueuedSucceeded, VotesOf
<1>8. ASSUME NEW p \in Proposals, VotingEnds(p) \/ Cancel(p) PROVE GovernorInv'
  <2>1. proposal[p].stage # "unknown" /\ quorumVotes' = quorumVotes
        /\ \E stage \in {"closed", "canceled"} : proposal' = [proposal EXCEPT ![p].stage = stage]
    BY <1>8 DEF VotingEnds, Cancel
  <2> QED BY <1>5, <2>1
<1>9. CASE BrainsNext /\ UNCHANGED governorVars
  BY <1>9, <1>a DEF governorVars
<1>10. CASE UNCHANGED govVars
  BY <1>10, <1>a DEF govVars, governorVars
<1> QED BY <1>1, <1>2, <1>3, <1>4, <1>6, <1>7, <1>8, <1>9, <1>10 DEF GovernorNext, GovernorStep

LEMMA Inductive == GovernorSpec => []GovernorInv
BY InvInit, InvNext, PTL DEF GovernorSpec

\* The votes of a proposal are as many as the brains counted for it, each of them a
\* GigaBrain of its snapshot.
THEOREM GovernorBrainsVoteOnce == GovernorSpec => []BrainsVoteOnce
<1>1. GovernorInv => BrainsVoteOnce
  BY DEF GovernorInv
<1> QED BY <1>1, Inductive, PTL

\* A queued or executed proposal had as many different GigaBrains of its snapshot
\* for it or abstaining as the quorum of that moment, and a majority for it.
THEOREM GovernorNothingRunsUnapproved == GovernorSpec => []NothingRunsUnapproved
<1>1. GovernorInv => NothingRunsUnapproved
  <2> SUFFICES ASSUME GovernorInv, NEW p \in Proposals,
                      proposal[p].stage \in {"queued", "executed"}
               PROVE  \E approving \in SUBSET (proposal[p].voted \cap proposal[p].giga) :
                        /\ Cardinality(approving) = VotesOf(p) - proposal[p].votes["against"]
                        /\ Cardinality(approving) >= proposal[p].needed
                        /\ proposal[p].votes["for"] > proposal[p].votes["against"]
    BY DEF NothingRunsUnapproved
  <2> DEFINE votes == proposal[p].votes
             k == votes["for"] + votes["abstain"]
  <2>1. votes \in [Support -> Nat] /\ proposal[p].voted \in SUBSET Ids
    BY DEF GovernorInv, GovernorTypeOK, Proposal
  <2>2. votes["for"] \in Nat /\ votes["against"] \in Nat /\ votes["abstain"] \in Nat
    BY <2>1 DEF Support
  <2>3. /\ VotesOf(p) = Cardinality(proposal[p].voted)
        /\ proposal[p].voted \cap proposal[p].giga = proposal[p].voted
    BY DEF GovernorInv, BrainsVoteOnce
  <2>4. k >= proposal[p].needed /\ votes["for"] > votes["against"]
    BY DEF GovernorInv, QueuedSucceeded, VoteSucceeded
  <2>5. VotesOf(p) - votes["against"] = k /\ k \in Nat /\ k <= Cardinality(proposal[p].voted)
    BY <2>2, <2>3 DEF VotesOf
  <2>6. IsFiniteSet(proposal[p].voted)
    BY <2>1, IdsFinite, FS_Subset
  <2>7. PICK approving \in SUBSET proposal[p].voted : Cardinality(approving) = k
    BY <2>5, <2>6, SubsetOfSize
  <2> QED BY <2>3, <2>4, <2>5, <2>7
<1> QED BY <1>1, Inductive, PTL
=============================================================================
