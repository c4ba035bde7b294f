-------------------------- MODULE StakingVaultProofs ------------------------
(***************************************************************************)
(* The safety properties of StakingVault for every set of brains,          *)
(* validators and stakers, every supply and every cooldown.                *)
(***************************************************************************)
EXTENDS StakingVault, TotalsTheorems

-----------------------------------------------------------------------------
(* Type correctness.                                                       *)

\* The index sets of the vault's sums are finite.
LEMMA PoolsFinite ==
  /\ \A b \in Brains : IsFiniteSet({b} \X Validators)
  /\ \A k \in Pools : IsFiniteSet(PositionsOf(k)) /\ k[1] \in Brains
  /\ IsFiniteSet(Accounts)
<1>1. \A b : IsFiniteSet({b} \X Validators)
  BY VaultAssumption, FS_Singleton, FS_Product
<1>2. \A k : IsFiniteSet({k} \X Stakers)
  BY VaultAssumption, FS_Singleton, FS_Product
<1>3. IsFiniteSet(Stakers \cup {Rewarder})
  BY VaultAssumption, FS_Singleton, FS_Union
<1> QED BY <1>1, <1>2, <1>3 DEF PositionsOf, Pools, Accounts

\* The share conversions return natural numbers.
LEMMA ShareMath ==
  ASSUME TypeOK, NEW k \in Pools, NEW n \in Nat
  PROVE  AssetsToShares(k, n) \in Nat /\ AssetsToSharesUp(k, n) \in Nat
         /\ SharesToAssets(k, n) \in Nat
<1>1. vShares[k] \in Nat /\ vAssets[k] \in Nat
  BY DEF TypeOK
<1>2. n * vShares[k] \in Nat /\ n * vAssets[k] \in Nat
  BY <1>1
<1>3. vAssets[k] # 0 => n * vShares[k] + vAssets[k] - 1 \in Nat
  BY <1>1, <1>2
<1>4. vAssets[k] # 0 => /\ (n * vShares[k]) \div vAssets[k] \in Nat
                        /\ (n * vShares[k] + vAssets[k] - 1) \div vAssets[k] \in Nat
  BY <1>1, <1>2, <1>3, FloorDivision
<1>5. vShares[k] # 0 => (n * vAssets[k]) \div vShares[k] \in Nat
  BY <1>1, <1>2, FloorDivision
<1> QED BY <1>4, <1>5 DEF AssetsToShares, AssetsToSharesUp, SharesToAssets, Bootstrapping

\* A push at the current time keeps a checkpoint trace one.
LEMMA PushTyped ==
  ASSUME now \in Nat \ {0}, NEW h, IsTrace(h), NEW v \in Nat
  PROVE  /\ DOMAIN Push(h, now, v) \subseteq 1 .. now
         /\ Push(h, now, v) \in [DOMAIN Push(h, now, v) -> Nat]
  BY DEF Push, IsTrace

\* Moving assets keeps the types of the pool, the aggregates and the history.
LEMMA MoveAssetsTyped ==
  ASSUME TypeOK, NEW k \in Pools, NEW in \in Nat, NEW out \in Nat,
         MoveAssets(k, in, out), now' = now
  PROVE  /\ vAssets' \in [Pools -> Nat]
         /\ totalAssets' \in Nat
         /\ brainAssets' \in [Brains -> Nat]
         /\ IsTrace(totalHistory)'
         /\ DOMAIN brainHistory' = Brains /\ \A b \in Brains : IsTrace(brainHistory[b])'
<1>1. k[1] \in Brains
  BY PoolsFinite
<1>2. vAssets[k] \in Nat /\ brainAssets[k[1]] \in Nat /\ totalAssets \in Nat
  BY <1>1 DEF TypeOK
<1>3. vAssets' \in [Pools -> Nat] /\ totalAssets' \in Nat /\ brainAssets' \in [Brains -> Nat]
  BY <1>1, <1>2 DEF TypeOK, MoveAssets
<1>4. IsTrace(totalHistory)'
  BY <1>3, PushTyped DEF TypeOK, MoveAssets, IsTrace
<1>5. DOMAIN brainHistory' = Brains
  BY DEF TypeOK, MoveAssets
<1>6. ASSUME NEW b \in Brains PROVE IsTrace(brainHistory[b])'
  <2>1. CASE b = k[1]
    <3>1. brainHistory'[b] = Push(brainHistory[b], now, brainAssets'[b])
      BY <2>1 DEF TypeOK, MoveAssets
    <3>2. brainAssets'[b] \in Nat
      BY <1>3
    <3> QED BY <3>1, <3>2, PushTyped DEF TypeOK, IsTrace
  <2>2. CASE b # k[1]
    <3>1. brainHistory'[b] = brainHistory[b]
      BY <2>2 DEF TypeOK, MoveAssets
    <3> QED BY <3>1 DEF TypeOK, IsTrace
  <2> QED BY <2>1, <2>2
<1> QED BY <1>3, <1>4, <1>5, <1>6

\* Deployment: every amount is zero, so typed.
LEMMA InitTypeOK == Init => TypeOK
  BY VaultAssumption DEF Init, TypeOK, IsTrace, EmptyTrace, NoPending

\* No operation of the vault takes an amount below zero.
LEMMA NextTypeOK == TypeOK /\ [Next]_vars => TypeOK'
<1> SUFFICES ASSUME TypeOK, [Next]_vars PROVE TypeOK'
  OBVIOUS
<1>a. \A n \in Amounts : n \in Nat
  BY VaultAssumption
<1>1. ASSUME NEW k \in Pools, NEW s \in Stakers, NEW amount \in Amounts,
             Stake(k, s, amount)
      PROVE  TypeOK'
  <2>1. amount \in Nat /\ AssetsToShares(k, amount) \in Nat
    BY <1>a, ShareMath
  <2>2. MoveAssets(k, amount, 0) /\ now' = now
    BY <1>1 DEF Stake
  <2>3. s \in Accounts /\ <<k, s>> \in Positions
    BY DEF Accounts, Positions
  <2>4. balance' \in [Accounts -> Nat] /\ held' \in Nat /\ burned' \in Nat
    BY <1>1, <2>1, <2>3 DEF Stake, PullTokens, TypeOK
  <2>5. stakerShares' \in [Positions -> Nat] /\ vShares' \in [Pools -> Nat]
        /\ pending' \in [Positions -> [shares : Nat, unlockAt : Nat]]
    BY <1>1, <2>1, <2>3 DEF Stake, TypeOK
  <2> QED BY <2>1, <2>2, <2>4, <2>5, MoveAssetsTyped DEF TypeOK
<1>2. ASSUME NEW k \in Pools, NEW s \in Stakers, NEW amount \in Amounts,
             RequestUnstake(k, s, amount)
      PROVE  TypeOK'
  <2>1. <<k, s>> \in Positions
    BY DEF Positions
  <2>2. AssetsToSharesUp(k, amount) \in Nat /\ stakerShares[<<k, s>>] \in Nat
    BY <1>a, <2>1, ShareMath DEF TypeOK
  <2>3. ExitShares(k, s, amount) \in Nat
        /\ stakerShares[<<k, s>>] - ExitShares(k, s, amount) \in Nat
    BY <2>2 DEF ExitShares
  <2>4. now + UNSTAKE_COOLDOWN \in Nat
    BY VaultAssumption DEF TypeOK
  <2>5. stakerShares' \in [Positions -> Nat]
        /\ pending' \in [Positions -> [shares : Nat, unlockAt : Nat]]
    BY <1>2, <2>1, <2>3, <2>4 DEF RequestUnstake, TypeOK
  <2> QED
    BY <1>2, <2>5 DEF RequestUnstake, TypeOK, totalVars, historyVars, tokenVars, IsTrace
<1>3. ASSUME NEW k \in Pools, NEW s \in Stakers, ClaimUnstake(k, s)
      PROVE  TypeOK'
  <2> DEFINE shares == pending[<<k, s>>].shares
             amount == SharesToAssets(k, shares)
  <2>1. s \in Accounts /\ <<k, s>> \in Positions
    BY DEF Accounts, Positions
  <2>2. shares \in Nat /\ amount \in Nat
    BY <2>1, ShareMath DEF TypeOK
  <2>3. MoveAssets(k, 0, amount) /\ now' = now
    BY <1>3 DEF ClaimUnstake
  <2>4. balance' \in [Accounts -> Nat] /\ held' \in Nat /\ burned' \in Nat
    BY <1>3, <2>1, <2>2 DEF ClaimUnstake, TypeOK
  <2>5. stakerShares' \in [Positions -> Nat] /\ vShares' \in [Pools -> Nat]
        /\ pending' \in [Positions -> [shares : Nat, unlockAt : Nat]]
    BY <1>3, <2>1, <2>2 DEF ClaimUnstake, TypeOK, NoPending
  <2> QED BY <2>2, <2>3, <2>4, <2>5, MoveAssetsTyped DEF TypeOK
<1>4. ASSUME NEW k \in Pools, NEW requested \in Amounts, Slash(k, requested)
      PROVE  TypeOK'
  <2> DEFINE amount == IF requested > vAssets[k] THEN vAssets[k] ELSE requested
  <2>1. amount \in Nat
    BY <1>a DEF TypeOK
  <2>2. MoveAssets(k, 0, amount) /\ now' = now
    BY <1>4 DEF Slash
  <2>3. balance' \in [Accounts -> Nat] /\ held' \in Nat /\ burned' \in Nat
    BY <1>4, <2>1 DEF Slash, TypeOK
  <2>4. UNCHANGED <<vShares, stakerShares, pending>>
    BY <1>4 DEF Slash
  <2> QED BY <2>1, <2>2, <2>3, <2>4, MoveAssetsTyped DEF TypeOK
<1>5. ASSUME NEW k \in Pools, NEW amount \in Amounts, NotifyReward(k, amount)
      PROVE  TypeOK'
  <2>1. MoveAssets(k, amount, 0) /\ now' = now
    BY <1>5 DEF NotifyReward
  <2>2. balance' \in [Accounts -> Nat] /\ held' \in Nat /\ burned' \in Nat
    BY <1>5, <1>a DEF NotifyReward, PullTokens, TypeOK, Accounts
  <2>3. UNCHANGED <<vShares, stakerShares, pending>>
    BY <1>5 DEF NotifyReward
  <2> QED BY <1>a, <2>1, <2>2, <2>3, MoveAssetsTyped DEF TypeOK
<1>6. ASSUME NEW account \in Accounts, NEW amount \in Amounts, Donate(account, amount)
      PROVE  TypeOK'
  BY <1>6, <1>a DEF Donate, PullTokens, TypeOK, poolVars, totalVars, historyVars, IsTrace
<1>7. CASE Tick
  BY <1>7 DEF Tick, TypeOK, poolVars, totalVars, historyVars, tokenVars, IsTrace
<1>8. CASE UNCHANGED vars
  BY <1>8 DEF vars, TypeOK, poolVars, totalVars, historyVars, tokenVars, IsTrace
<1> QED BY <1>1, <1>2, <1>3, <1>4, <1>5, <1>6, <1>7, <1>8 DEF Next

\* In every reachable state every amount is a natural number: no operation
\* takes more from a pool, a position or an aggregate than is there.
THEOREM VaultTypeOK == Spec => []TypeOK
<1>1. QED BY InitTypeOK, NextTypeOK, PTL DEF Spec

-----------------------------------------------------------------------------
(* The aggregates, custody and the checkpoints only change with the assets *)
(* of a pool, so their proofs look at two kinds of step.                   *)

AssetsMove(k, in, out) ==
  /\ MoveAssets(k, in, out)
  /\ now' = now
  /\ out <= held
  /\ held' = held + in - out

AssetsStay ==
  /\ UNCHANGED <<vAssets, totalAssets, brainAssets, totalHistory, brainHistory>>
  /\ now' \in {now, now + 1}
  /\ held <= held'

\* Towards the assets, a call to the vault either moves an amount in or out of
\* one pool, with its aggregates and checkpoints, or leaves them all alone.
LEMMA StepKinds ==
  ASSUME TypeOK, [Next]_vars
  PROVE  \/ \E k \in Pools, in \in Nat, out \in Nat : AssetsMove(k, in, out)
         \/ AssetsStay
<1>a. \A n \in Amounts : n \in Nat
  BY VaultAssumption
<1>b. held \in Nat /\ now \in Nat
  BY DEF TypeOK
<1>1. ASSUME NEW k \in Pools, NEW s \in Stakers, NEW amount \in Amounts,
             Stake(k, s, amount)
      PROVE  AssetsMove(k, amount, 0)
  BY <1>1, <1>a, <1>b DEF Stake, PullTokens, AssetsMove
<1>2. ASSUME NEW k \in Pools, NEW s \in Stakers, NEW amount \in Amounts,
             RequestUnstake(k, s, amount)
      PROVE  AssetsStay
  BY <1>2, <1>b DEF RequestUnstake, AssetsStay, totalVars, historyVars, tokenVars
<1>3. ASSUME NEW k \in Pools, NEW s \in Stakers, ClaimUnstake(k, s)
      PROVE  \E out \in Nat : AssetsMove(k, 0, out)
  <2> DEFINE shares == pending[<<k, s>>].shares
             amount == SharesToAssets(k, shares)
  <2>1. shares \in Nat /\ amount \in Nat
    BY ShareMath DEF TypeOK, Positions
  <2>2. AssetsMove(k, 0, amount)
    BY <1>3, <1>b, <2>1 DEF ClaimUnstake, AssetsMove
  <2> QED BY <2>1, <2>2
<1>4. ASSUME NEW k \in Pools, NEW requested \in Amounts, Slash(k, requested)
      PROVE  \E out \in Nat : AssetsMove(k, 0, out)
  <2> DEFINE amount == IF requested > vAssets[k] THEN vAssets[k] ELSE requested
  <2>1. amount \in Nat
    BY <1>a DEF TypeOK
  <2>2. AssetsMove(k, 0, amount)
    BY <1>4, <1>b, <2>1 DEF Slash, AssetsMove
  <2> QED BY <2>1, <2>2
<1>5. ASSUME NEW k \in Pools, NEW amount \in Amounts, NotifyReward(k, amount)
      PROVE  AssetsMove(k, amount, 0)
  BY <1>5, <1>a, <1>b DEF NotifyReward, PullTokens, AssetsMove
<1>6. ASSUME NEW account \in Accounts, NEW amount \in Amounts, Donate(account, amount)
      PROVE  AssetsStay
  BY <1>6, <1>a, <1>b DEF Donate, PullTokens, AssetsStay, poolVars, totalVars, historyVars
<1>7. CASE Tick
  BY <1>7, <1>b DEF Tick, AssetsStay, poolVars, totalVars, historyVars, tokenVars
<1>8. CASE UNCHANGED vars
  BY <1>8, <1>b DEF vars, AssetsStay, poolVars, totalVars, historyVars, tokenVars
<1>c. 0 \in Nat
  OBVIOUS
<1> QED BY <1>a, <1>c, <1>1, <1>2, <1>3, <1>4, <1>5, <1>6, <1>7, <1>8 DEF Next

\* A move of assets changes one brain's total by what one pool changed by.
LEMMA AggregatesStep ==
  ASSUME TypeOK, AggregatesMatchPools,
         NEW k \in Pools, NEW in \in Nat, NEW out \in Nat, AssetsMove(k, in, out)
  PROVE  AggregatesMatchPools'
<1>1. MoveAssets(k, in, out) /\ now' = now
  BY DEF AssetsMove
<1>2. /\ vAssets' \in [Pools -> Nat] /\ brainAssets' \in [Brains -> Nat]
      /\ vAssets \in [Pools -> Nat] /\ brainAssets \in [Brains -> Nat]
      /\ totalAssets \in Nat
  BY <1>1, MoveAssetsTyped DEF TypeOK
<1>3. k[1] \in Brains /\ k \in {k[1]} \X Validators
  BY DEF Pools
<1>4. /\ brainAssets'[k[1]] = brainAssets[k[1]] + in - out
      /\ \A b \in Brains \ {k[1]} : brainAssets'[b] = brainAssets[b]
      /\ vAssets'[k] = vAssets[k] + in - out
      /\ \A p \in Pools \ {k} : vAssets'[p] = vAssets[p]
      /\ totalAssets' = totalAssets + in - out
  BY <1>1, <1>2, <1>3 DEF MoveAssets
<1>5. Total(brainAssets', Brains)
        = Total(brainAssets, Brains) - brainAssets[k[1]] + brainAssets'[k[1]]
  BY <1>2, <1>3, <1>4, VaultAssumption, TotalUpdate
<1>6. Total(brainAssets, Brains) \in Nat
  BY <1>2, VaultAssumption, CoinsFinite
<1>7. totalAssets' = Total(brainAssets', Brains)
  BY <1>2, <1>3, <1>4, <1>5, <1>6 DEF AggregatesMatchPools
<1>8. ASSUME NEW b \in Brains
      PROVE  brainAssets'[b] = Total(vAssets', {b} \X Validators)
  <2> DEFINE D == {b} \X Validators
  <2>1. IsFiniteSet(D) /\ \A p \in D : p \in Pools
    BY PoolsFinite DEF Pools
  <2>2. \A p \in D : vAssets[p] \in Nat /\ vAssets'[p] \in Nat
    BY <1>2, <2>1
  <2>3. Total(vAssets, D) \in Nat /\ Total(vAssets, D) = brainAssets[b]
    BY <2>1, <2>2, CoinsFinite DEF AggregatesMatchPools
  <2>4. CASE b = k[1]
    <3>1. k \in D /\ \A p \in D \ {k} : vAssets'[p] = vAssets[p]
      BY <1>3, <1>4, <2>1, <2>4
    <3>2. Total(vAssets', D) = Total(vAssets, D) - vAssets[k] + vAssets'[k]
      BY <2>1, <2>2, <3>1, TotalUpdate
    <3> QED BY <1>2, <1>4, <2>3, <2>4, <3>2
  <2>5. CASE b # k[1]
    <3>1. \A p \in D : vAssets'[p] = vAssets[p]
      BY <1>4, <2>1, <2>5
    <3>2. Total(vAssets', D) = Total(vAssets, D)
      BY <3>1, TotalSame
    <3> QED BY <1>4, <2>3, <2>5, <3>2
  <2> QED BY <2>4, <2>5
<1> QED BY <1>7, <1>8 DEF AggregatesMatchPools

\* An empty vault's aggregates are zero.
LEMMA AggregatesInit == Init => AggregatesMatchPools
<1> SUFFICES ASSUME Init PROVE AggregatesMatchPools
  OBVIOUS
<1>1. Total(brainAssets, Brains) = 0
  BY TotalZero DEF Init
<1>2. \A b \in Brains : Total(vAssets, {b} \X Validators) = 0
  BY TotalZero DEF Init, Pools
<1> QED BY <1>1, <1>2 DEF Init, AggregatesMatchPools

\* For any number of brains and validators, totalAssets is the sum of the brains
\* and each brainAssets the sum of its pools, after every sequence of calls.
THEOREM VaultAggregates == Spec => []AggregatesMatchPools
<1>1. TypeOK /\ AggregatesMatchPools /\ [Next]_vars => AggregatesMatchPools'
  BY StepKinds, AggregatesStep DEF AssetsStay, AggregatesMatchPools
<1> QED BY <1>1, AggregatesInit, VaultTypeOK, PTL DEF Spec

-----------------------------------------------------------------------------
(* Custody.                                                                *)

\* Paying amount from an account to the vault keeps the sum of all BASED.
LEMMA PullConserves ==
  ASSUME TypeOK, NEW account \in Accounts, NEW amount \in Nat,
         PullTokens(account, amount)
  PROVE  Total(balance', Accounts) + held' + burned'
           = Total(balance, Accounts) + held + burned
<1>1. balance' \in [Accounts -> Nat] /\ balance \in [Accounts -> Nat]
  BY DEF PullTokens, TypeOK
<1>2. balance'[account] = balance[account] - amount
      /\ \A a \in Accounts \ {account} : balance'[a] = balance[a]
  BY <1>1 DEF PullTokens
<1>3. Total(balance', Accounts)
        = Total(balance, Accounts) - balance[account] + balance'[account]
  BY <1>1, <1>2, PoolsFinite, TotalUpdate
<1>4. Total(balance, Accounts) \in Nat
  BY <1>1, PoolsFinite, CoinsFinite
<1> QED BY <1>1, <1>2, <1>3, <1>4 DEF PullTokens, TypeOK

\* No step creates or loses BASED.
LEMMA TokensStep ==
  ASSUME TypeOK, [Next]_vars
  PROVE  Total(balance', Accounts) + held' + burned'
           = Total(balance, Accounts) + held + burned
<1> DEFINE Goal == Total(balance', Accounts) + held' + burned'
                     = Total(balance, Accounts) + held + burned
<1>a. \A n \in Amounts : n \in Nat
  BY VaultAssumption
<1>b. Total(balance, Accounts) \in Nat /\ held \in Nat /\ burned \in Nat
  BY PoolsFinite, CoinsFinite DEF TypeOK
<1>1. ASSUME NEW k \in Pools, NEW s \in Stakers, NEW amount \in Amounts,
             Stake(k, s, amount)
      PROVE  Goal
  BY <1>1, <1>a, PullConserves DEF Stake, Accounts
<1>2. ASSUME NEW k \in Pools, NEW s \in Stakers, NEW amount \in Amounts,
             RequestUnstake(k, s, amount)
      PROVE  Goal
  BY <1>2 DEF RequestUnstake, tokenVars
<1>3. ASSUME NEW k \in Pools, NEW s \in Stakers, ClaimUnstake(k, s)
      PROVE  Goal
  <2> DEFINE amount == SharesToAssets(k, pending[<<k, s>>].shares)
  <2>1. amount \in Nat /\ s \in Accounts
    BY ShareMath DEF TypeOK, Positions, Accounts
  <2>2. balance' = [balance EXCEPT ![s] = @ + amount] /\ held' = held - amount
        /\ burned' = burned
    BY <1>3 DEF ClaimUnstake
  <2>3. balance' \in [Accounts -> Nat] /\ balance \in [Accounts -> Nat]
        /\ balance'[s] = balance[s] + amount
        /\ \A a \in Accounts \ {s} : balance'[a] = balance[a]
    BY <2>1, <2>2 DEF TypeOK
  <2>4. Total(balance', Accounts) = Total(balance, Accounts) - balance[s] + balance'[s]
    BY <2>1, <2>3, PoolsFinite, TotalUpdate
  <2> HIDE DEF amount
  <2> QED BY <1>b, <2>1, <2>2, <2>3, <2>4
<1>4. ASSUME NEW k \in Pools, NEW requested \in Amounts, Slash(k, requested)
      PROVE  Goal
  <2>1. PICK amount \in Nat : held' = held - amount /\ burned' = burned + amount
                            /\ balance' = balance
    BY <1>4, <1>a DEF Slash, TypeOK
  <2> QED BY <1>b, <2>1
<1>5. ASSUME NEW k \in Pools, NEW amount \in Amounts, NotifyReward(k, amount)
      PROVE  Goal
  BY <1>5, <1>a, PullConserves DEF NotifyReward, Accounts
<1>6. ASSUME NEW account \in Accounts, NEW amount \in Amounts, Donate(account, amount)
      PROVE  Goal
  BY <1>6, <1>a, PullConserves DEF Donate
<1>7. CASE Tick
  BY <1>7 DEF Tick, tokenVars
<1>8. CASE UNCHANGED vars
  BY <1>8 DEF vars, tokenVars
<1> QED BY <1>1, <1>2, <1>3, <1>4, <1>5, <1>6, <1>7, <1>8 DEF Next

\* The vault always holds what it owes to its pools, and BASED is conserved.
THEOREM VaultCustody == Spec => []Custody
<1>1. Init => Custody
  <2> SUFFICES ASSUME Init PROVE Custody
    OBVIOUS
  <2>1. Total(Wealth, Accounts) \in Nat
    BY VaultAssumption, PoolsFinite, CoinsFinite
  <2> QED BY <2>1 DEF Init, Custody
<1>2. TypeOK /\ Custody /\ [Next]_vars => Custody'
  <2> SUFFICES ASSUME TypeOK, Custody, [Next]_vars PROVE Custody'
    OBVIOUS
  <2>1. totalAssets' <= held'
    <3>1. totalAssets \in Nat /\ held \in Nat /\ held' \in Nat
      BY NextTypeOK DEF TypeOK
    <3>2. CASE AssetsStay
      BY <3>1, <3>2 DEF AssetsStay, Custody
    <3>3. ASSUME NEW k \in Pools, NEW in \in Nat, NEW out \in Nat, AssetsMove(k, in, out)
          PROVE  totalAssets' <= held'
      BY <3>1, <3>3 DEF AssetsMove, MoveAssets, Custody
    <3> QED BY <3>2, <3>3, StepKinds
  <2> QED BY <2>1, TokensStep DEF Custody
<1> QED BY <1>1, <1>2, VaultTypeOK, PTL DEF Spec

-----------------------------------------------------------------------------
(* Shares.                                                                 *)

\* If the shares of one position of pool k change by what vShares[k] changes
\* by, and nothing else does, the pool's shares stay backed.
LEMMA BackingStep ==
  ASSUME TypeOK, TypeOK', SharesBacked, NEW k \in Pools, NEW s \in Stakers,
         OwnedShares'[<<k, s>>] - OwnedShares[<<k, s>>] = vShares'[k] - vShares[k],
         \A p \in Positions \ {<<k, s>>} : OwnedShares'[p] = OwnedShares[p],
         \A q \in Pools \ {k} : vShares'[q] = vShares[q]
  PROVE  SharesBacked'
<1>1. \A p \in Positions : OwnedShares[p] \in Nat /\ OwnedShares'[p] \in Nat
  BY DEF TypeOK, OwnedShares
<1>2. SUFFICES ASSUME NEW q \in Pools
      PROVE  vShares'[q] = Total(OwnedShares', PositionsOf(q))
  BY DEF SharesBacked, PositionsOf
<1> DEFINE D == PositionsOf(q)
<1>3. IsFiniteSet(D) /\ \A p \in D : p \in Positions
  BY PoolsFinite DEF PositionsOf, Positions
<1>4. Total(OwnedShares, D) = vShares[q]
  BY DEF SharesBacked
<1>5. CASE q = k
  <2>1. <<k, s>> \in D
    BY <1>5 DEF PositionsOf
  <2>2. Total(OwnedShares', D)
          = Total(OwnedShares, D) - OwnedShares[<<k, s>>] + OwnedShares'[<<k, s>>]
    BY <1>1, <1>3, <2>1, TotalUpdate
  <2>3. /\ vShares[k] \in Nat /\ vShares'[k] \in Nat
        /\ OwnedShares[<<k, s>>] \in Nat /\ OwnedShares'[<<k, s>>] \in Nat
    BY <1>1, <1>3, <2>1 DEF TypeOK
  <2> QED BY <1>4, <1>5, <2>2, <2>3
<1>6. CASE q # k
  <2>1. \A p \in D : OwnedShares'[p] = OwnedShares[p]
    BY <1>3, <1>6 DEF PositionsOf
  <2>2. Total(OwnedShares', D) = Total(OwnedShares, D)
    BY <2>1, TotalSame
  <2> QED BY <1>4, <1>6, <2>2
<1> QED BY <1>5, <1>6

\* An empty vault has no shares.
LEMMA SharesBackedInit == Init => SharesBacked
<1> SUFFICES ASSUME Init, NEW k \in Pools PROVE vShares[k] = Total(OwnedShares, PositionsOf(k))
  BY DEF SharesBacked
<1>1. \A p \in PositionsOf(k) : OwnedShares[p] = 0
  BY DEF Init, OwnedShares, PositionsOf, Positions, NoPending
<1> QED BY <1>1, TotalZero DEF Init

\* stake mints and claimUnstake burns what they credit and clear; an exit request
\* only moves shares of one position.
LEMMA SharesBackedNext ==
  ASSUME TypeOK, TypeOK', SharesBacked, [Next]_vars
  PROVE  SharesBacked'
<1>a. \A n \in Amounts : n \in Nat
  BY VaultAssumption
<1>b. ASSUME UNCHANGED <<vShares, stakerShares, pending>> PROVE SharesBacked'
  BY <1>b DEF SharesBacked, OwnedShares
<1>1. ASSUME NEW k \in Pools, NEW s \in Stakers, NEW amount \in Amounts,
             Stake(k, s, amount)
      PROVE  SharesBacked'
  <2> DEFINE shares == AssetsToShares(k, amount)
  <2>1. <<k, s>> \in Positions /\ shares \in Nat
    BY <1>a, ShareMath DEF Positions
  <2>2. /\ stakerShares' = [stakerShares EXCEPT ![<<k, s>>] = @ + shares]
        /\ vShares' = [vShares EXCEPT ![k] = @ + shares]
        /\ pending' = pending
    BY <1>1 DEF Stake
  <2> HIDE DEF shares
  <2>3. OwnedShares'[<<k, s>>] - OwnedShares[<<k, s>>] = vShares'[k] - vShares[k]
    BY <2>1, <2>2 DEF OwnedShares, TypeOK
  <2>4. \A p \in Positions \ {<<k, s>>} : OwnedShares'[p] = OwnedShares[p]
    BY <2>1, <2>2 DEF OwnedShares, TypeOK
  <2>5. \A q \in Pools \ {k} : vShares'[q] = vShares[q]
    BY <2>2 DEF TypeOK
  <2> QED BY <2>3, <2>4, <2>5, BackingStep
<1>2. ASSUME NEW k \in Pools, NEW s \in Stakers, NEW amount \in Amounts,
             RequestUnstake(k, s, amount)
      PROVE  SharesBacked'
  <2> DEFINE shares == ExitShares(k, s, amount)
  <2>1. <<k, s>> \in Positions /\ shares \in Nat
    BY <1>a, ShareMath DEF Positions, ExitShares, TypeOK
  <2>2. /\ stakerShares' = [stakerShares EXCEPT ![<<k, s>>] = @ - shares]
        /\ pending[<<k, s>>].shares = 0
        /\ pending' = [pending EXCEPT ![<<k, s>>] =
                         [shares |-> shares, unlockAt |-> now + UNSTAKE_COOLDOWN]]
        /\ vShares' = vShares
    BY <1>2 DEF RequestUnstake, HasPending
  <2> HIDE DEF shares
  <2>3. OwnedShares'[<<k, s>>] - OwnedShares[<<k, s>>] = vShares'[k] - vShares[k]
    BY <2>1, <2>2 DEF OwnedShares, TypeOK
  <2>4. \A p \in Positions \ {<<k, s>>} : OwnedShares'[p] = OwnedShares[p]
    BY <2>1, <2>2 DEF OwnedShares, TypeOK
  <2> QED BY <2>2, <2>3, <2>4, BackingStep
<1>3. ASSUME NEW k \in Pools, NEW s \in Stakers, ClaimUnstake(k, s)
      PROVE  SharesBacked'
  <2> DEFINE shares == pending[<<k, s>>].shares
  <2>1. <<k, s>> \in Positions /\ shares \in Nat
    BY DEF Positions, TypeOK
  <2>2. /\ pending' = [pending EXCEPT ![<<k, s>>] = NoPending]
        /\ vShares' = [vShares EXCEPT ![k] = @ - shares]
        /\ stakerShares' = stakerShares
    BY <1>3 DEF ClaimUnstake
  <2>3. OwnedShares'[<<k, s>>] - OwnedShares[<<k, s>>] = vShares'[k] - vShares[k]
    BY <2>1, <2>2 DEF OwnedShares, TypeOK, NoPending
  <2>4. \A p \in Positions \ {<<k, s>>} : OwnedShares'[p] = OwnedShares[p]
    BY <2>1, <2>2 DEF OwnedShares, TypeOK
  <2>5. \A q \in Pools \ {k} : vShares'[q] = vShares[q]
    BY <2>2 DEF TypeOK
  <2> QED BY <2>3, <2>4, <2>5, BackingStep
<1>4. ASSUME NEW k \in Pools, NEW amount \in Amounts, Slash(k, amount)
      PROVE  SharesBacked'
  BY <1>4, <1>b DEF Slash
<1>5. ASSUME NEW k \in Pools, NEW amount \in Amounts, NotifyReward(k, amount)
      PROVE  SharesBacked'
  BY <1>5, <1>b DEF NotifyReward
<1>6. ASSUME NEW account \in Accounts, NEW amount \in Amounts, Donate(account, amount)
      PROVE  SharesBacked'
  BY <1>6, <1>b DEF Donate, poolVars
<1>7. CASE Tick
  BY <1>7, <1>b DEF Tick, poolVars
<1>8. CASE UNCHANGED vars
  BY <1>8, <1>b DEF vars, poolVars
<1> QED BY <1>1, <1>2, <1>3, <1>4, <1>5, <1>6, <1>7, <1>8 DEF Next

\* For any number of stakers, a pool's shares are exactly those its stakers hold
\* or are exiting with: overlapping requests, caps and claims never lose one.
THEOREM VaultSharesBacked == Spec => []SharesBacked
<1>1. TypeOK /\ TypeOK' /\ SharesBacked /\ [Next]_vars => SharesBacked'
  BY SharesBackedNext
<1> QED BY <1>1, SharesBackedInit, VaultTypeOK, PTL DEF Spec

-----------------------------------------------------------------------------
(* Share value.  What a step can do to the assets and shares of one pool.  *)

PoolUnchanged(q) == vAssets'[q] = vAssets[q] /\ vShares'[q] = vShares[q]

PoolDeposit(q) ==
  \E n \in Nat \ {0} :
    LET shares == IF Bootstrapping(q) THEN n ELSE (n * vShares[q]) \div vAssets[q] IN
    /\ ~ Insolvent(q) /\ shares # 0
    /\ vAssets'[q] = vAssets[q] + n /\ vShares'[q] = vShares[q] + shares

PoolPayout(q) ==
  \E shares \in Nat \ {0} :
    /\ shares <= vShares[q]
    /\ vShares'[q] = vShares[q] - shares
    /\ vAssets'[q] = vAssets[q] - (shares * vAssets[q]) \div vShares[q]

PoolSlash(q)  == /\ burned' # burned /\ vShares'[q] = vShares[q]
                 /\ vAssets'[q] <= vAssets[q]

PoolReward(q) == /\ vShares[q] # 0 /\ vShares'[q] = vShares[q]
                 /\ vAssets'[q] >= vAssets[q]

\* What any call to the vault does to one pool q: nothing, a deposit, a payout, a
\* slash or a reward.
LEMMA PoolSteps ==
  ASSUME TypeOK, [Next]_vars, NEW q \in Pools
  PROVE  \/ PoolUnchanged(q) \/ PoolDeposit(q) \/ PoolPayout(q)
         \/ PoolSlash(q) \/ PoolReward(q)
<1> DEFINE Goal == \/ PoolUnchanged(q) \/ PoolDeposit(q) \/ PoolPayout(q)
                   \/ PoolSlash(q) \/ PoolReward(q)
<1>a. \A n \in Amounts : n \in Nat
  BY VaultAssumption
<1>b. vAssets[q] \in Nat /\ vShares[q] \in Nat
  BY DEF TypeOK
<1>1. ASSUME NEW k \in Pools, NEW s \in Stakers, NEW amount \in Amounts,
             Stake(k, s, amount)
      PROVE  Goal
  <2>1. AssetsToShares(k, amount) \in Nat /\ amount \in Nat \ {0}
    BY <1>1, <1>a, ShareMath DEF Stake
  <2>2. /\ ~ Insolvent(k) /\ AssetsToShares(k, amount) # 0
        /\ vShares' = [vShares EXCEPT ![k] = @ + AssetsToShares(k, amount)]
        /\ vAssets' = [vAssets EXCEPT ![k] = @ + amount - 0]
    BY <1>1 DEF Stake, MoveAssets
  <2>3. CASE q = k
    <3>1. vAssets'[q] = vAssets[q] + amount
          /\ vShares'[q] = vShares[q] + AssetsToShares(k, amount)
      BY <2>1, <2>2, <2>3 DEF TypeOK
    <3> QED BY <2>1, <2>2, <2>3, <3>1 DEF PoolDeposit, AssetsToShares
  <2>4. CASE q # k
    BY <2>2, <2>4 DEF TypeOK, PoolUnchanged
  <2> QED BY <2>3, <2>4
<1>2. ASSUME NEW k \in Pools, NEW s \in Stakers, NEW amount \in Amounts,
             RequestUnstake(k, s, amount)
      PROVE  Goal
  BY <1>2 DEF RequestUnstake, PoolUnchanged
<1>3. ASSUME NEW k \in Pools, NEW s \in Stakers, ClaimUnstake(k, s)
      PROVE  Goal
  <2> DEFINE shares == pending[<<k, s>>].shares
  <2>1. shares \in Nat /\ SharesToAssets(k, shares) \in Nat /\ shares # 0
    BY <1>3, ShareMath DEF TypeOK, Positions, ClaimUnstake
  <2>2. /\ shares <= vShares[k]
        /\ vShares' = [vShares EXCEPT ![k] = @ - shares]
        /\ vAssets' = [vAssets EXCEPT ![k] = @ + 0 - SharesToAssets(k, shares)]
    BY <1>3 DEF ClaimUnstake, MoveAssets
  <2> HIDE DEF shares
  <2>3. CASE q = k
    <3>1. vShares[q] # 0
      BY <1>b, <2>1, <2>2, <2>3
    <3>2. SharesToAssets(k, shares) = (shares * vAssets[q]) \div vShares[q]
      BY <2>3, <3>1 DEF SharesToAssets
    <3>3. vAssets'[q] = vAssets[q] - SharesToAssets(k, shares)
          /\ vShares'[q] = vShares[q] - shares
      BY <2>1, <2>2, <2>3 DEF TypeOK
    <3> QED BY <2>1, <2>2, <2>3, <3>2, <3>3 DEF PoolPayout
  <2>4. CASE q # k
    BY <2>2, <2>4 DEF TypeOK, PoolUnchanged
  <2> QED BY <2>3, <2>4
<1>4. ASSUME NEW k \in Pools, NEW requested \in Amounts, Slash(k, requested)
      PROVE  Goal
  <2>1. PICK amount \in Nat \ {0} : /\ burned' = burned + amount
                                    /\ vAssets' = [vAssets EXCEPT ![k] = @ + 0 - amount]
    BY <1>4, <1>a DEF Slash, MoveAssets, TypeOK
  <2>2. burned' # burned /\ vAssets'[q] <= vAssets[q]
    BY <1>b, <2>1 DEF TypeOK
  <2> QED BY <1>4, <2>2 DEF Slash, PoolSlash
<1>5. ASSUME NEW k \in Pools, NEW amount \in Amounts, NotifyReward(k, amount)
      PROVE  Goal
  <2>1. vShares[k] # 0 /\ vShares' = vShares
        /\ vAssets' = [vAssets EXCEPT ![k] = @ + amount - 0]
    BY <1>5 DEF NotifyReward, MoveAssets
  <2> QED BY <1>a, <2>1 DEF TypeOK, PoolReward, PoolUnchanged
<1>6. ASSUME NEW account \in Accounts, NEW amount \in Amounts, Donate(account, amount)
      PROVE  Goal
  BY <1>6 DEF Donate, poolVars, PoolUnchanged
<1>7. CASE Tick
  BY <1>7 DEF Tick, poolVars, PoolUnchanged
<1>8. CASE UNCHANGED vars
  BY <1>8 DEF vars, poolVars, PoolUnchanged
<1> QED BY <1>1, <1>2, <1>3, <1>4, <1>5, <1>6, <1>7, <1>8 DEF Next

\* The last share out takes the last asset: a pool without shares is empty.
THEOREM VaultEmptyPool == Spec => []EmptyPoolIsEmpty
<1>1. Init => EmptyPoolIsEmpty
  BY DEF Init, EmptyPoolIsEmpty
<1>2. TypeOK /\ EmptyPoolIsEmpty /\ [Next]_vars => EmptyPoolIsEmpty'
  <2> SUFFICES ASSUME TypeOK, EmptyPoolIsEmpty, [Next]_vars,
                      NEW q \in Pools, vShares'[q] = 0
               PROVE  vAssets'[q] = 0
    BY DEF EmptyPoolIsEmpty
  <2>1. TypeOK'
    BY NextTypeOK
  <2>2. /\ vAssets[q] \in Nat /\ vShares[q] \in Nat
        /\ vAssets'[q] \in Nat /\ vShares'[q] \in Nat
    BY <2>1 DEF TypeOK
  <2>3. CASE PoolUnchanged(q) \/ PoolReward(q)
    BY <2>3 DEF PoolUnchanged, PoolReward, EmptyPoolIsEmpty
  <2>4. CASE PoolDeposit(q)
    <3>1. PICK n \in Nat \ {0} :
            LET shares == IF Bootstrapping(q) THEN n
                          ELSE (n * vShares[q]) \div vAssets[q]
            IN shares # 0 /\ vShares'[q] = vShares[q] + shares
      BY <2>4 DEF PoolDeposit
    <3>2. ~ Bootstrapping(q) => (n * vShares[q]) \div vAssets[q] \in Nat
      BY <2>2, FloorDivision DEF Bootstrapping
    <3> QED BY <2>2, <3>1, <3>2
  <2>5. CASE PoolPayout(q)
    <3>1. PICK shares \in Nat \ {0} :
            /\ shares <= vShares[q]
            /\ vShares'[q] = vShares[q] - shares
            /\ vAssets'[q] = vAssets[q] - (shares * vAssets[q]) \div vShares[q]
      BY <2>5 DEF PoolPayout
    <3>2. shares = vShares[q] /\ vShares[q] # 0
      <4>1. shares \in Nat /\ shares # 0
        OBVIOUS
      <4>2. vShares[q] - shares = 0
        BY <3>1
      <4> QED BY <2>2, <4>1, <4>2
    <3>3. (shares * vAssets[q]) \div vShares[q] = vAssets[q]
      BY <2>2, <3>1, <3>2, ProRata
    <3> QED BY <2>2, <3>1, <3>3
  <2>6. CASE PoolSlash(q)
    <3>1. vShares[q] = 0 /\ vAssets[q] = 0
      BY <2>6 DEF PoolSlash, EmptyPoolIsEmpty
    <3> QED BY <2>2, <2>6, <3>1 DEF PoolSlash
  <2> QED BY <2>3, <2>4, <2>5, <2>6, PoolSteps
<1> QED BY <1>1, <1>2, VaultTypeOK, PTL DEF Spec

\* A deposit of n at shares per asset S/A rounds the new shares down, so the
\* old shares keep at least their value.
LEMMA DepositArithmetic ==
  ASSUME NEW A \in Nat, NEW S \in Nat, NEW n \in Nat, NEW x \in Nat, x * A <= n * S
  PROVE  (A + n) * S >= A * (S + x)
<1>1. (A + n) * S = A * S + n * S /\ A * (S + x) = A * S + x * A
  OBVIOUS
<1>2. A * S \in Nat /\ n * S \in Nat /\ x * A \in Nat
  OBVIOUS
<1> QED BY <1>1, <1>2

\* A payout for x shares rounds down, so the shares that stay keep at least
\* their value.
LEMMA PayoutArithmetic ==
  ASSUME NEW A \in Nat, NEW S \in Nat, NEW y \in Nat, NEW x \in Nat, y * S <= x * A
  PROVE  (A - y) * S >= A * (S - x)
<1>1. (A - y) * S = A * S - y * S /\ A * (S - x) = A * S - x * A
  OBVIOUS
<1>2. A * S \in Nat /\ y * S \in Nat /\ x * A \in Nat
  OBVIOUS
<1> QED BY <1>1, <1>2

\* No deposit, exit request, claim or reward lowers what a share is worth; only
\* a slash, which burns, does.
THEOREM VaultShareValue == Spec => ShareValueFallsOnlyBySlash
<1> DEFINE Keeps == \A k \in Pools :
              (burned' = burned /\ vShares[k] # 0 /\ vShares'[k] # 0)
                => vAssets'[k] * vShares[k] >= vAssets[k] * vShares'[k]
<1>1. TypeOK /\ [Next]_vars => Keeps
  <2> SUFFICES ASSUME TypeOK, [Next]_vars, NEW q \in Pools,
                      burned' = burned, vShares[q] # 0, vShares'[q] # 0
               PROVE  vAssets'[q] * vShares[q] >= vAssets[q] * vShares'[q]
    OBVIOUS
  <2>1. TypeOK'
    BY NextTypeOK
  <2>2. /\ vAssets[q] \in Nat /\ vShares[q] \in Nat
        /\ vAssets'[q] \in Nat /\ vShares'[q] \in Nat
    BY <2>1 DEF TypeOK
  <2>3. CASE PoolUnchanged(q)
    BY <2>2, <2>3 DEF PoolUnchanged
  <2>4. CASE PoolReward(q)
    BY <2>2, <2>4 DEF PoolReward
  <2>5. CASE PoolDeposit(q)
    <3>1. PICK n \in Nat \ {0} :
            LET shares == IF Bootstrapping(q) THEN n
                          ELSE (n * vShares[q]) \div vAssets[q]
            IN /\ ~ Insolvent(q) /\ vAssets'[q] = vAssets[q] + n
               /\ vShares'[q] = vShares[q] + shares
      BY <2>5 DEF PoolDeposit
    <3>2. ~ Bootstrapping(q)
      BY <3>1 DEF Insolvent, Bootstrapping
    <3> DEFINE x == (n * vShares[q]) \div vAssets[q]
    <3>3. x \in Nat /\ x * vAssets[q] <= n * vShares[q]
      <4>1. n * vShares[q] \in Nat /\ vAssets[q] \in Nat \ {0}
        BY <2>2, <3>2 DEF Bootstrapping
      <4> QED BY <4>1, FloorDivision
    <3>4. vAssets'[q] = vAssets[q] + n /\ vShares'[q] = vShares[q] + x
      BY <3>1, <3>2
    <3> HIDE DEF x
    <3>5. (vAssets[q] + n) * vShares[q] >= vAssets[q] * (vShares[q] + x)
      BY <2>2, <3>3, DepositArithmetic
    <3> QED BY <3>4, <3>5
  <2>6. CASE PoolPayout(q)
    <3>1. PICK x \in Nat \ {0} :
            /\ vShares'[q] = vShares[q] - x
            /\ vAssets'[q] = vAssets[q] - (x * vAssets[q]) \div vShares[q]
      BY <2>6 DEF PoolPayout
    <3> DEFINE y == (x * vAssets[q]) \div vShares[q]
    <3>2. y \in Nat /\ y * vShares[q] <= x * vAssets[q]
      <4>1. x * vAssets[q] \in Nat /\ vShares[q] \in Nat \ {0}
        BY <2>2
      <4> QED BY <4>1, FloorDivision
    <3>3. vShares'[q] = vShares[q] - x /\ vAssets'[q] = vAssets[q] - y
      BY <3>1
    <3> HIDE DEF y
    <3>4. (vAssets[q] - y) * vShares[q] >= vAssets[q] * (vShares[q] - x)
      BY <2>2, <3>2, PayoutArithmetic
    <3> QED BY <3>3, <3>4
  <2>7. CASE PoolSlash(q)
    BY <2>7 DEF PoolSlash
  <2> QED BY <2>3, <2>4, <2>5, <2>6, <2>7, PoolSteps
<1>2. TypeOK /\ [Next]_vars => [Keeps]_vars
  BY <1>1
<1> QED BY <1>2, VaultTypeOK, PTL DEF Spec, ShareValueFallsOnlyBySlash

\* What exits have in the pool follows from the invariants already proved.
LEMMA ClaimsCovered ==
  ASSUME TypeOK, AggregatesMatchPools, Custody, SharesBacked
  PROVE  ClaimsNeverBlocked
<1> SUFFICES ASSUME NEW k \in Pools, NEW s \in Stakers
             PROVE  LET shares == pending[<<k, s>>].shares
                        amount == SharesToAssets(k, shares)
                    IN /\ shares <= vShares[k]
                       /\ amount <= vAssets[k] /\ amount <= brainAssets[k[1]]
                       /\ amount <= totalAssets /\ amount <= held
  BY DEF ClaimsNeverBlocked
<1> DEFINE p == <<k, s>>
           shares == pending[p].shares
           amount == SharesToAssets(k, shares)
<1>1. p \in Positions /\ p \in PositionsOf(k) /\ k[1] \in Brains
      /\ k \in {k[1]} \X Validators
  BY DEF Positions, PositionsOf, Pools
<1>2. /\ vAssets[k] \in Nat /\ vShares[k] \in Nat /\ shares \in Nat
      /\ stakerShares[p] \in Nat /\ brainAssets[k[1]] \in Nat
      /\ totalAssets \in Nat /\ held \in Nat
  BY <1>1 DEF TypeOK
<1>3. shares <= vShares[k]
  <2>1. \A q \in PositionsOf(k) : OwnedShares[q] \in Nat
    BY DEF PositionsOf, Positions, OwnedShares, TypeOK
  <2>2. OwnedShares[p] <= vShares[k]
    BY <1>1, <2>1, PoolsFinite, TotalAtLeast DEF SharesBacked
  <2> QED BY <1>1, <1>2, <2>2 DEF OwnedShares
<1>4. amount \in Nat /\ amount <= vAssets[k]
  BY <1>2, <1>3, ProRata DEF SharesToAssets
<1>5. vAssets[k] <= brainAssets[k[1]]
  <2> DEFINE D == {k[1]} \X Validators
  <2>1. IsFiniteSet(D) /\ k \in D /\ \A q \in D : vAssets[q] \in Nat
    BY <1>1, PoolsFinite DEF TypeOK, Pools
  <2>2. brainAssets[k[1]] = Total(vAssets, D)
    BY <1>1 DEF AggregatesMatchPools
  <2> HIDE DEF D
  <2>3. vAssets[k] <= Total(vAssets, D)
    BY <2>1, TotalAtLeast
  <2> QED BY <2>2, <2>3
<1>6. brainAssets[k[1]] <= totalAssets
  <2>1. \A b \in Brains : brainAssets[b] \in Nat
    BY DEF TypeOK
  <2> QED BY <1>1, <2>1, VaultAssumption, TotalAtLeast DEF AggregatesMatchPools
<1>7. totalAssets <= held
  BY DEF Custody
<1> HIDE DEF amount, shares
<1>8. /\ shares <= vShares[k] /\ amount <= vAssets[k] /\ amount <= brainAssets[k[1]]
      /\ amount <= totalAssets /\ amount <= held
  BY <1>2, <1>3, <1>4, <1>5, <1>6, <1>7
<1> QED BY <1>8 DEF amount, shares

\* A ready exit is always paid: the exiting shares are in the pool, their value
\* is in the pool, its brain, the total and the vault's own balance.
THEOREM VaultClaims == Spec => []ClaimsNeverBlocked
<1>1. TypeOK /\ AggregatesMatchPools /\ Custody /\ SharesBacked => ClaimsNeverBlocked
  BY ClaimsCovered
<1> QED BY <1>1, VaultTypeOK, VaultAggregates, VaultCustody, VaultSharesBacked, PTL

-----------------------------------------------------------------------------
(* Checkpoints.                                                            *)

\* A non-empty set of times up to a bound has a latest one.
LEMMA LatestExists ==
  ASSUME NEW n \in Nat, NEW K, K \subseteq 1 .. n, K # {}
  PROVE  Latest(K) \in K /\ \A u \in K : u <= Latest(K)
<1> DEFINE R == OpToRel(<, Nat)
           T == {n - u : u \in K}
<1>1. IsWellFoundedOn(R, Nat)
  BY NatLessThanWellFounded
<1>2. T \subseteq Nat /\ T # {}
  <2>1. \A u \in K : n - u \in Nat
    OBVIOUS
  <2>2. PICK u \in K : TRUE
    OBVIOUS
  <2>3. n - u \in T
    OBVIOUS
  <2> QED BY <2>1, <2>3
<1>3. PICK d \in T : \A e \in T : ~ (<<e, d>> \in R)
  <2> HIDE DEF R, T
  <2> QED BY <1>1, <1>2, WFMin
<1>4. \A e \in T : ~ (e < d)
  BY <1>2, <1>3 DEF OpToRel
<1>5. PICK t \in K : d = n - t
  OBVIOUS
<1>6. \A u \in K : u <= t
  <2> TAKE u \in K
  <2>1. ~ (n - u < n - t)
    BY <1>4, <1>5
  <2> QED BY <2>1
<1> QED BY <1>5, <1>6 DEF Latest

\* A push is what is read at the time of the push.
LEMMA LookupPushed ==
  ASSUME now \in Nat \ {0}, NEW h, IsTrace(h), NEW v \in Nat
  PROVE  UpperLookup(Push(h, now, v), now) = v
<1> DEFINE g == Push(h, now, v)
           K == KeysUpTo(g, now)
<1>1. DOMAIN g = DOMAIN h \cup {now} /\ g[now] = v
  BY DEF Push
<1>2. K = DOMAIN h \cup {now} /\ K \subseteq 1 .. now /\ K # {}
  BY <1>1 DEF KeysUpTo, IsTrace
<1>3. Latest(K) \in K /\ \A u \in K : u <= Latest(K)
  BY <1>2, LatestExists
<1>4. Latest(K) = now
  BY <1>2, <1>3
<1> QED BY <1>1, <1>2, <1>4 DEF UpperLookup

\* A push at now changes nothing that is read at an earlier time.
LEMMA LookupPast ==
  ASSUME now \in Nat \ {0}, NEW h, IsTrace(h), NEW v \in Nat, NEW t \in 0 .. now - 1
  PROVE  UpperLookup(Push(h, now, v), t) = UpperLookup(h, t)
<1> DEFINE g == Push(h, now, v)
           K == KeysUpTo(h, t)
<1>1. DOMAIN g = DOMAIN h \cup {now}
      /\ \A u \in DOMAIN h : u # now => g[u] = h[u]
  BY DEF Push
<1>2. KeysUpTo(g, t) = K
  BY <1>1 DEF KeysUpTo
<1>3. CASE K = {}
  BY <1>2, <1>3 DEF UpperLookup
<1>4. CASE K # {}
  <2>1. K \subseteq 1 .. now
    BY DEF KeysUpTo, IsTrace
  <2>2. Latest(K) \in K
    BY <1>4, <2>1, LatestExists
  <2>3. Latest(K) \in DOMAIN h /\ Latest(K) # now
    BY <2>2 DEF KeysUpTo
  <2> QED BY <1>1, <1>2, <1>4, <2>3 DEF UpperLookup
<1> QED BY <1>3, <1>4

\* A clock step reads the last checkpoint too.
LEMMA LookupLater ==
  ASSUME now \in Nat \ {0}, NEW h, IsTrace(h)
  PROVE  UpperLookup(h, now + 1) = UpperLookup(h, now)
<1>1. KeysUpTo(h, now + 1) = KeysUpTo(h, now)
  BY DEF KeysUpTo, IsTrace
<1> QED BY <1>1 DEF UpperLookup

\* What a step does to one series of checkpoints: nothing, or one push at now of
\* the series' new value.
SeriesStep(h, hNext, live, liveNext) ==
  \/ hNext = h /\ liveNext = live
  \/ liveNext \in Nat /\ now' = now /\ hNext = Push(h, now, liveNext)

\* What any call does to a checkpointed series: it pushes the new value at the
\* current second, or leaves value and checkpoints alone.
LEMMA HistorySteps ==
  ASSUME TypeOK, [Next]_vars
  PROVE  /\ now' \in {now, now + 1}
         /\ SeriesStep(totalHistory, totalHistory', totalAssets, totalAssets')
         /\ \A b \in Brains : SeriesStep(brainHistory[b], brainHistory'[b],
                                        brainAssets[b], brainAssets'[b])
<1>1. CASE AssetsStay
  BY <1>1 DEF AssetsStay, SeriesStep
<1>2. ASSUME NEW k \in Pools, NEW in \in Nat, NEW out \in Nat, AssetsMove(k, in, out)
      PROVE  /\ now' \in {now, now + 1}
             /\ SeriesStep(totalHistory, totalHistory', totalAssets, totalAssets')
             /\ \A b \in Brains : SeriesStep(brainHistory[b], brainHistory'[b],
                                            brainAssets[b], brainAssets'[b])
  <2>1. MoveAssets(k, in, out) /\ now' = now
    BY <1>2 DEF AssetsMove
  <2>2. totalAssets' \in Nat /\ brainAssets' \in [Brains -> Nat] /\ k[1] \in Brains
    BY <2>1, MoveAssetsTyped, PoolsFinite
  <2>3. SeriesStep(totalHistory, totalHistory', totalAssets, totalAssets')
    BY <2>1, <2>2 DEF MoveAssets, SeriesStep
  <2>4. ASSUME NEW b \in Brains
        PROVE  SeriesStep(brainHistory[b], brainHistory'[b], brainAssets[b], brainAssets'[b])
    <3>1. CASE b = k[1]
      BY <2>1, <2>2, <3>1 DEF MoveAssets, SeriesStep, TypeOK
    <3>2. CASE b # k[1]
      BY <2>1, <2>2, <3>2 DEF MoveAssets, SeriesStep, TypeOK
    <3> QED BY <3>1, <3>2
  <2> QED BY <2>1, <2>3, <2>4
<1> QED BY <1>1, <1>2, StepKinds

\* A series whose latest checkpoint is its live value keeps it so.
LEMMA SeriesCurrent ==
  ASSUME now \in Nat \ {0}, NEW h, IsTrace(h), NEW g, NEW x, NEW y,
         SeriesStep(h, g, x, y), now' \in {now, now + 1}, UpperLookup(h, now) = x
  PROVE  UpperLookup(g, now') = y
<1>1. CASE g = h /\ y = x
  BY <1>1, LookupLater
<1>2. CASE y \in Nat /\ now' = now /\ g = Push(h, now, y)
  BY <1>2, LookupPushed
<1> QED BY <1>1, <1>2 DEF SeriesStep

\* The latest checkpoints are the live stakes, for any number of brains.
THEOREM VaultHistoryIsCurrent == Spec => []HistoryIsCurrent
<1>1. Init => HistoryIsCurrent
  BY DEF Init, HistoryIsCurrent, UpperLookup, KeysUpTo, EmptyTrace
<1>2. TypeOK /\ HistoryIsCurrent /\ [Next]_vars => HistoryIsCurrent'
  <2> SUFFICES ASSUME TypeOK, HistoryIsCurrent, [Next]_vars PROVE HistoryIsCurrent'
    OBVIOUS
  <2>1. now \in Nat \ {0} /\ IsTrace(totalHistory)
        /\ \A b \in Brains : IsTrace(brainHistory[b])
    BY DEF TypeOK
  <2>2. UpperLookup(totalHistory', now') = totalAssets'
    BY <2>1, HistorySteps, SeriesCurrent DEF HistoryIsCurrent
  <2>3. \A b \in Brains : UpperLookup(brainHistory'[b], now') = brainAssets'[b]
    BY <2>1, HistorySteps, SeriesCurrent DEF HistoryIsCurrent
  <2> QED BY <2>2, <2>3 DEF HistoryIsCurrent, UpperLookup, KeysUpTo
<1> QED BY <1>1, <1>2, VaultTypeOK, PTL DEF Spec

\* Whatever is read at a time that is over is read again in every later state.
LEMMA PastKept ==
  ASSUME TypeOK, [Next]_vars, NEW t \in 0 .. now - 1
  PROVE  /\ UpperLookup(totalHistory', t) = UpperLookup(totalHistory, t)
         /\ \A b \in Brains :
              UpperLookup(brainHistory'[b], t) = UpperLookup(brainHistory[b], t)
<1>1. ASSUME NEW h, IsTrace(h), NEW g, NEW x, NEW y, SeriesStep(h, g, x, y)
      PROVE  UpperLookup(g, t) = UpperLookup(h, t)
  BY <1>1, LookupPast DEF SeriesStep, TypeOK
<1> QED BY <1>1, HistorySteps DEF TypeOK

\* Snapshots are immutable: governance reads the same past stake at every time.
THEOREM VaultPastIsImmutable == Spec => PastIsImmutable
<1> DEFINE Kept == \A t \in 0 .. now - 1 :
       /\ UpperLookup(totalHistory', t) = UpperLookup(totalHistory, t)
       /\ \A b \in Brains :
            UpperLookup(brainHistory'[b], t) = UpperLookup(brainHistory[b], t)
<1>1. TypeOK /\ [Next]_vars => [Kept]_vars
  BY PastKept
<1> QED BY <1>1, VaultTypeOK, PTL DEF Spec, PastIsImmutable

\* Deposits buy what they cost, up to the rounding of one share.
LEMMA DepositWorth ==
  ASSUME NEW A \in Nat, NEW S \in Nat, NEW n \in Nat, NEW x \in Nat,
         x * A <= n * S, n * S < x * A + A
  PROVE  (x + 1) * (A + n) >= n * (S + x)
<1>1. (x + 1) * (A + n) = x * A + A + n * x + n /\ n * (S + x) = n * S + n * x
  OBVIOUS
<1>2. x * A \in Nat /\ n * S \in Nat /\ n * x \in Nat
  OBVIOUS
<1> QED BY <1>1, <1>2

\* On an empty pool a deposit is its shares.
LEMMA FirstDepositWorth ==
  ASSUME NEW A \in Nat, NEW n \in Nat
  PROVE  (n + 1) * (A + n) >= n * n
<1>1. (n + 1) * (A + n) = n * A + n * n + A + n
  OBVIOUS
<1>2. n * A \in Nat /\ n * n \in Nat
  OBVIOUS
<1> QED BY <1>1, <1>2

\* A staker's active shares only grow by a deposit of that staker.
LEMMA OnlyDepositsGain ==
  ASSUME TypeOK, [Next]_vars, NEW k \in Pools, NEW s \in Stakers,
         stakerShares'[<<k, s>>] > stakerShares[<<k, s>>]
  PROVE  \E amount \in Amounts : Stake(k, s, amount)
<1> DEFINE p == <<k, s>>
<1>a. p \in Positions /\ stakerShares[p] \in Nat
  BY DEF Positions, TypeOK
<1>b. stakerShares' # stakerShares
  BY <1>a
<1>c. \A n \in Amounts : n \in Nat
  BY VaultAssumption
<1>1. ASSUME NEW q \in Pools, NEW r \in Stakers, NEW amount \in Amounts, Stake(q, r, amount)
      PROVE  Stake(k, s, amount)
  <2>1. CASE q = k /\ r = s
    BY <1>1, <2>1
  <2>2. CASE ~ (q = k /\ r = s)
    BY <1>1, <1>a, <2>2 DEF Stake, TypeOK
  <2> QED BY <2>1, <2>2
<1>2. ASSUME NEW q \in Pools, NEW r \in Stakers, NEW amount \in Amounts,
             RequestUnstake(q, r, amount)
      PROVE  FALSE
  <2>1. ExitShares(q, r, amount) \in Nat /\ <<q, r>> \in Positions
    BY <1>c, ShareMath DEF ExitShares, TypeOK, Positions
  <2>2. stakerShares' = [stakerShares EXCEPT ![<<q, r>>] = @ - ExitShares(q, r, amount)]
    BY <1>2 DEF RequestUnstake
  <2>3. stakerShares'[p] <= stakerShares[p]
    BY <1>a, <2>1, <2>2 DEF TypeOK
  <2>4. stakerShares'[p] \in Int
    BY <1>a, <2>1, <2>2 DEF TypeOK
  <2> QED BY <1>a, <2>3, <2>4
<1>3. ASSUME NEW q \in Pools, NEW r \in Stakers, ClaimUnstake(q, r) PROVE FALSE
  BY <1>3, <1>b DEF ClaimUnstake
<1>4. ASSUME NEW q \in Pools, NEW amount \in Amounts, Slash(q, amount) PROVE FALSE
  BY <1>4, <1>b DEF Slash
<1>5. ASSUME NEW q \in Pools, NEW amount \in Amounts, NotifyReward(q, amount) PROVE FALSE
  BY <1>5, <1>b DEF NotifyReward
<1>6. ASSUME NEW account \in Accounts, NEW amount \in Amounts, Donate(account, amount) PROVE FALSE
  BY <1>6, <1>b DEF Donate, poolVars
<1>7. ~ Tick
  BY <1>b DEF Tick, poolVars
<1>8. ~ UNCHANGED vars
  BY <1>b DEF vars, poolVars
<1> QED BY <1>1, <1>2, <1>3, <1>4, <1>5, <1>6, <1>7, <1>8 DEF Next

\* No deposit is confiscated: what a staker pays in is covered by the shares
\* gained, whatever rewards and slashes the pool has seen.
THEOREM VaultDepositKeepsItsValue == Spec => DepositKeepsItsValue
<1> DEFINE Fair == \A k \in Pools, s \in Stakers :
       LET gained == stakerShares'[<<k, s>>] - stakerShares[<<k, s>>]
           paid   == vAssets'[k] - vAssets[k]
       IN gained > 0 => (gained + 1) * vAssets'[k] >= paid * vShares'[k]
<1>1. TypeOK /\ [Next]_vars => Fair
  <2> SUFFICES ASSUME TypeOK, [Next]_vars, NEW k \in Pools, NEW s \in Stakers,
                      stakerShares'[<<k, s>>] - stakerShares[<<k, s>>] > 0
               PROVE  (stakerShares'[<<k, s>>] - stakerShares[<<k, s>>] + 1) * vAssets'[k]
                        >= (vAssets'[k] - vAssets[k]) * vShares'[k]
    OBVIOUS
  <2> DEFINE A == vAssets[k]
             S == vShares[k]
  <2>1. TypeOK'
    BY NextTypeOK
  <2>2. A \in Nat /\ S \in Nat /\ <<k, s>> \in Positions
        /\ stakerShares[<<k, s>>] \in Nat /\ stakerShares'[<<k, s>>] \in Nat
    BY <2>1 DEF TypeOK, Positions
  <2>3. PICK n \in Amounts : Stake(k, s, n)
    BY <2>2, OnlyDepositsGain
  <2> DEFINE x == AssetsToShares(k, n)
  <2>4. x \in Nat /\ n \in Nat
    BY ShareMath, VaultAssumption
  <2>5. /\ stakerShares' = [stakerShares EXCEPT ![<<k, s>>] = @ + x]
        /\ vShares' = [vShares EXCEPT ![k] = @ + x]
        /\ vAssets' = [vAssets EXCEPT ![k] = @ + n - 0]
        /\ ~ Insolvent(k)
    BY <2>3 DEF Stake, MoveAssets
  <2>6. CASE Bootstrapping(k)
    <3>1. x = n /\ S = 0
      BY <2>5, <2>6 DEF AssetsToShares, Bootstrapping, Insolvent
    <3> HIDE DEF x
    <3>2. stakerShares'[<<k, s>>] - stakerShares[<<k, s>>] = n /\ vShares'[k] = n
          /\ vAssets'[k] = A + n /\ vAssets'[k] - vAssets[k] = n
      BY <2>2, <2>4, <2>5, <3>1 DEF TypeOK
    <3>3. (n + 1) * (A + n) >= n * n
      BY <2>2, <2>4, FirstDepositWorth
    <3> QED BY <3>2, <3>3
  <2>7. CASE ~ Bootstrapping(k)
    <3>1. x * A <= n * S /\ n * S < x * A + A
      <4>1. n * S \in Nat /\ A \in Nat \ {0} /\ x = (n * S) \div A
        BY <2>2, <2>4, <2>7 DEF Bootstrapping, AssetsToShares
      <4> QED BY <4>1, FloorDivision
    <3> HIDE DEF x
    <3>2. stakerShares'[<<k, s>>] - stakerShares[<<k, s>>] = x /\ vShares'[k] = S + x
          /\ vAssets'[k] = A + n /\ vAssets'[k] - vAssets[k] = n
      BY <2>2, <2>4, <2>5 DEF TypeOK
    <3>3. (x + 1) * (A + n) >= n * (S + x)
      BY <2>2, <2>4, <3>1, DepositWorth
    <3> QED BY <3>2, <3>3
  <2> QED BY <2>6, <2>7
<1>2. TypeOK /\ [Next]_vars => [Fair]_vars
  BY <1>1
<1> QED BY <1>2, VaultTypeOK, PTL DEF Spec, DepositKeepsItsValue

-----------------------------------------------------------------------------
(* The vault implements StakeHistory.                                      *)

\* The dense record of one series: kept by a push, extended by a clock step.
LEMMA RecordSteps ==
  ASSUME now \in Nat \ {0}, NEW h, IsTrace(h), NEW g, NEW x, NEW y, SeriesStep(h, g, x, y),
         UpperLookup(h, now) = x
  PROVE  /\ \A t \in 0 .. now - 1 : UpperLookup(g, t) = UpperLookup(h, t)
         /\ now' = now + 1 => g = h /\ y = x /\ UpperLookup(g, now) = x
<1>1. \A t \in 0 .. now - 1 : UpperLookup(g, t) = UpperLookup(h, t)
  BY LookupPast DEF SeriesStep
<1>2. now' = now + 1 => now' # now
  OBVIOUS
<1> QED BY <1>1, <1>2 DEF SeriesStep

\* The checkpoints answer every past query as a record of the stake at the end
\* of each second would: getPastTotalStaked and getPastBrainStake are exact.
THEOREM VaultImplementsHistory == Spec => ImplementsHistory
<1> DEFINE Series == Brains \cup {"network"}
           live == [x \in Series |-> IF x = "network" THEN totalAssets ELSE brainAssets[x]]
           past == [x \in Series |->
                      IF x = "network" THEN Record(totalHistory) ELSE Record(brainHistory[x])]
<1>1. Init => History!Init
  <2> SUFFICES ASSUME Init PROVE History!Init
    OBVIOUS
  <2>1. now = 1 /\ totalAssets = 0 /\ \A b \in Brains : brainAssets[b] = 0
    BY DEF Init
  <2>2. \A t \in {0} : UpperLookup(EmptyTrace, t) = 0
    BY DEF UpperLookup, KeysUpTo, EmptyTrace
  <2>3. 0 .. now - 1 = {0}
    BY <2>1
  <2>4. Record(EmptyTrace) = [t \in {0} |-> 0]
    BY <2>2, <2>3 DEF Record
  <2>5. live = [x \in Series |-> 0]
    BY <2>1
  <2>6. past = [x \in Series |-> [t \in {0} |-> 0]]
    BY <2>4 DEF Init
  <2> QED BY <2>1, <2>5, <2>6 DEF History!Init
<1>2. TypeOK /\ HistoryIsCurrent /\ [Next]_vars => [History!Next]_<<now, live, past>>
  <2> SUFFICES ASSUME TypeOK, HistoryIsCurrent, [Next]_vars
               PROVE  History!Change \/ History!EndOfSecond
    BY DEF History!Next
  <2>1. TypeOK'
    BY NextTypeOK
  <2>2. now \in Nat \ {0} /\ IsTrace(totalHistory)
        /\ \A b \in Brains : IsTrace(brainHistory[b])
    BY DEF TypeOK
  <2>3. /\ \A t \in 0 .. now - 1 : UpperLookup(totalHistory', t) = UpperLookup(totalHistory, t)
        /\ now' = now + 1 => /\ totalHistory' = totalHistory /\ totalAssets' = totalAssets
                             /\ UpperLookup(totalHistory', now) = totalAssets
    BY <2>2, HistorySteps, RecordSteps DEF HistoryIsCurrent
  <2>4. \A b \in Brains :
          /\ \A t \in 0 .. now - 1 :
               UpperLookup(brainHistory'[b], t) = UpperLookup(brainHistory[b], t)
          /\ now' = now + 1 => /\ brainHistory'[b] = brainHistory[b]
                               /\ brainAssets'[b] = brainAssets[b]
                               /\ UpperLookup(brainHistory'[b], now) = brainAssets[b]
    BY <2>2, HistorySteps, RecordSteps DEF HistoryIsCurrent
  <2>5. CASE now' = now
    <3>1. live' \in [Series -> Nat]
      BY <2>1 DEF TypeOK
    <3>2. Record(totalHistory)' = Record(totalHistory)
      BY <2>3, <2>5 DEF Record
    <3>3. \A b \in Brains : Record(brainHistory[b])' = Record(brainHistory[b])
      BY <2>4, <2>5 DEF Record
    <3>4. past' = past
      BY <3>2, <3>3
    <3> QED BY <2>5, <3>1, <3>4 DEF History!Change
  <2>6. CASE now' = now + 1
    <3>1. live' = live
      BY <2>3, <2>4, <2>6
    <3>2. 0 .. now' - 1 = 0 .. now /\ \A t \in 0 .. now : t = now \/ t \in 0 .. now - 1
      BY <2>2, <2>6
    <3>3. Record(totalHistory)' =
            [t \in 0 .. now |-> IF t = now THEN totalAssets ELSE Record(totalHistory)[t]]
      BY <2>3, <2>6, <3>2 DEF Record
    <3>4. \A b \in Brains : Record(brainHistory[b])' =
            [t \in 0 .. now |-> IF t = now THEN brainAssets[b] ELSE Record(brainHistory[b])[t]]
      BY <2>4, <2>6, <3>2 DEF Record
    <3>5. past' = [x \in Series |->
                    [t \in 0 .. now |-> IF t = now THEN live[x] ELSE past[x][t]]]
      <4>1. ASSUME NEW x \in Series
            PROVE  (IF x = "network" THEN Record(totalHistory) ELSE Record(brainHistory[x]))'
                     = [t \in 0 .. now |-> IF t = now THEN live[x] ELSE past[x][t]]
        <5>1. CASE x = "network"
          <6>1. live[x] = totalAssets /\ past[x] = Record(totalHistory)
            BY <5>1
          <6> QED BY <3>3, <5>1, <6>1
        <5>2. CASE x # "network"
          <6>1. x \in Brains /\ live[x] = brainAssets[x] /\ past[x] = Record(brainHistory[x])
            BY <5>2
          <6> QED BY <3>4, <5>2, <6>1
        <5> QED BY <5>1, <5>2
      <4> HIDE DEF live
      <4> QED BY <4>1
    <3> QED BY <2>6, <3>1, <3>5 DEF History!EndOfSecond
  <2> QED BY <2>5, <2>6, HistorySteps
<1> QED
  BY <1>1, <1>2, VaultTypeOK, VaultHistoryIsCurrent, PTL
  DEF Spec, ImplementsHistory, History!Spec
=============================================================================
