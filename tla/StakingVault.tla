----------------------------- MODULE StakingVault ---------------------------
(***************************************************************************)
(* contracts/src/staking/StakingVault.sol: BASED staked to pools, one pool *)
(* per (brain, validator), with share accounting, cooldown unstaking,      *)
(* slashing, rewards and stake checkpoints.                                *)
(*                                                                         *)
(* One action per external function.  nonReentrant makes each call atomic; *)
(* a call that reverts changes nothing, so a revert is a disabled action.  *)
(* Solidity's checked subtraction is a guard (amount =< minuend).          *)
(***************************************************************************)
EXTENDS Naturals, FiniteSets, Totals

CONSTANTS
  Brains, Validators,   \* a pool is a pair <<brain, validator>>
  Stakers,              \* accounts that stake
  Rewarder,             \* the REWARDER_ROLE account (the RewardDistributor)
  Wealth,               \* BASED each account holds at deployment
  Amounts,              \* the amounts a caller passes
  UNSTAKE_COOLDOWN,
  MaxTime               \* bound on block.timestamp (the bound of the model)

Accounts  == Stakers \cup {Rewarder}
Pools     == Brains \X Validators
Positions == Pools \X Stakers

ASSUME VaultAssumption ==
  /\ IsFiniteSet(Brains) /\ IsFiniteSet(Validators) /\ IsFiniteSet(Stakers)
  /\ Rewarder \notin Stakers
  /\ Wealth \in [Accounts -> Nat]
  /\ Amounts \subseteq Nat
  /\ UNSTAKE_COOLDOWN \in Nat
  /\ MaxTime \in Nat

VARIABLES
  now,            \* block.timestamp
  vAssets,        \* _vAssets: BASED backing a pool
  vShares,        \* _vShares: shares of a pool, active and pending
  stakerShares,   \* _stakerShares: active shares of a position
  pending,        \* _pending: exiting shares of a position and their unlock time
  totalAssets, brainAssets,       \* the running aggregates
  totalHistory, brainHistory,     \* Checkpoints.Trace208
  balance,        \* BASED.balanceOf of the accounts
  held,           \* BASED.balanceOf(address(this))
  burned          \* BASED.balanceOf(BURN_ADDRESS)

poolVars    == <<vAssets, vShares, stakerShares, pending>>
totalVars   == <<totalAssets, brainAssets>>
historyVars == <<totalHistory, brainHistory>>
tokenVars   == <<balance, held, burned>>
vars == <<now, poolVars, totalVars, historyVars, tokenVars>>

NoPending == [shares |-> 0, unlockAt |-> 0]

-----------------------------------------------------------------------------
(* Checkpoints.Trace208, as the map from the keys pushed to their values:  *)
(* a push under the last key overwrites it, and upperLookupRecent returns  *)
(* the value under the greatest key at or below the timepoint, 0 if none.  *)

KeysUpTo(trace, timepoint) == {t \in DOMAIN trace : t <= timepoint}
Latest(keys) == CHOOSE t \in keys : \A u \in keys : u <= t

UpperLookup(trace, timepoint) ==
  IF KeysUpTo(trace, timepoint) = {} THEN 0
  ELSE trace[Latest(KeysUpTo(trace, timepoint))]

EmptyTrace == [t \in {} |-> 0]

\* Defects: variants of Push that no run of the specification uses.  One keys the
\* checkpoint ahead of the clock, one overwrites the last instead of adding one.
PushAhead(trace, key, value) ==
  [t \in DOMAIN trace \cup {key + 1} |-> IF t = key + 1 THEN value ELSE trace[t]]
PushOverLast(trace, key, value) ==
  IF DOMAIN trace = {} THEN [t \in {key} |-> value]
  ELSE [trace EXCEPT ![Latest(DOMAIN trace)] = value]

Push(trace, key, value) ==
  [t \in DOMAIN trace \cup {key} |-> IF t = key THEN value ELSE trace[t]]

-----------------------------------------------------------------------------
(* Share math.                                                             *)

Bootstrapping(k) == vShares[k] = 0 \/ vAssets[k] = 0

AssetsToSharesUp(k, amount) ==
  IF Bootstrapping(k) THEN amount
  ELSE (amount * vShares[k] + vAssets[k] - 1) \div vAssets[k]

AssetsToShares(k, amount) ==
  IF Bootstrapping(k) THEN amount ELSE (amount * vShares[k]) \div vAssets[k]

SharesToAssets(k, shares) ==
  IF vShares[k] = 0 THEN 0 ELSE (shares * vAssets[k]) \div vShares[k]

NeverInsolvent(k) == FALSE     \* Defect: the PoolInsolvent check is missing.

\* A fully slashed pool whose stakers still hold shares.
Insolvent(k) == vShares[k] # 0 /\ vAssets[k] = 0

\* Defect: the brain's aggregate is not credited with what enters.
MoveAssetsUncredited(k, in, out) ==
  /\ out <= vAssets[k] /\ out <= brainAssets[k[1]] /\ out <= totalAssets
  /\ vAssets' = [vAssets EXCEPT ![k] = @ + in - out]
  /\ brainAssets' = [brainAssets EXCEPT ![k[1]] = @ - out]
  /\ totalAssets' = totalAssets + in - out
  /\ UNCHANGED historyVars

\* What every operation does when assets enter or leave pool k: the pool, its
\* brain's aggregate and the total move together, then _checkpoint(brainId).
MoveAssets(k, in, out) ==
  /\ out <= vAssets[k] /\ out <= brainAssets[k[1]] /\ out <= totalAssets
  /\ vAssets' = [vAssets EXCEPT ![k] = @ + in - out]
  /\ brainAssets' = [brainAssets EXCEPT ![k[1]] = @ + in - out]
  /\ totalAssets' = totalAssets + in - out
  /\ totalHistory' = Push(totalHistory, now, totalAssets')
  /\ brainHistory' =
       [brainHistory EXCEPT ![k[1]] = Push(@, now, brainAssets'[k[1]])]

\* Defect: books an amount that was never transferred.
PullNothing(account, amount) == UNCHANGED tokenVars

\* BASED.safeTransferFrom(account, vault, amount)
PullTokens(account, amount) ==
  /\ amount <= balance[account]
  /\ balance' = [balance EXCEPT ![account] = @ - amount]
  /\ held' = held + amount
  /\ UNCHANGED burned

-----------------------------------------------------------------------------
Init ==
  /\ now = 1
  /\ vAssets = [k \in Pools |-> 0]
  /\ vShares = [k \in Pools |-> 0]
  /\ stakerShares = [p \in Positions |-> 0]
  /\ pending = [p \in Positions |-> NoPending]
  /\ totalAssets = 0
  /\ brainAssets = [b \in Brains |-> 0]
  /\ totalHistory = EmptyTrace
  /\ brainHistory = [b \in Brains |-> EmptyTrace]
  /\ balance = Wealth
  /\ held = 0
  /\ burned = 0

Stake(k, s, amount) ==
  LET shares == AssetsToShares(k, amount) IN
  /\ amount # 0
  /\ ~ Insolvent(k)                             \* PoolInsolvent
  /\ shares # 0                                 \* ZeroShares
  /\ PullTokens(s, amount)
  /\ stakerShares' = [stakerShares EXCEPT ![<<k, s>>] = @ + shares]
  /\ vShares' = [vShares EXCEPT ![k] = @ + shares]
  /\ MoveAssets(k, amount, 0)
  /\ UNCHANGED <<now, pending>>

\* The shares an exit request moves: rounded up, capped at what is owned.
ExitShares(k, s, amount) ==
  LET wanted == AssetsToSharesUp(k, amount)
      owned  == stakerShares[<<k, s>>]
  IN IF wanted > owned THEN owned ELSE wanted

NeverPending(k, s) == FALSE    \* Defect: overlapping exit requests are allowed.
HasPending(k, s) == pending[<<k, s>>].shares # 0

RequestUnstake(k, s, amount) ==
  LET shares == ExitShares(k, s, amount) IN
  /\ amount # 0
  /\ ~ HasPending(k, s)                         \* PendingUnstakeExists
  /\ shares # 0                                 \* InsufficientStake
  /\ stakerShares' = [stakerShares EXCEPT ![<<k, s>>] = @ - shares]
  /\ pending' = [pending EXCEPT ![<<k, s>>] =
                   [shares |-> shares, unlockAt |-> now + UNSTAKE_COOLDOWN]]
  /\ UNCHANGED <<now, vAssets, vShares, totalVars, historyVars, tokenVars>>

ClaimUnstake(k, s) ==
  LET shares == pending[<<k, s>>].shares
      amount == SharesToAssets(k, shares)
  IN
  /\ shares # 0                                 \* NoPendingUnstake
  /\ now >= pending[<<k, s>>].unlockAt          \* UnstakeNotReady
  /\ shares <= vShares[k]
  /\ amount <= held
  /\ pending' = [pending EXCEPT ![<<k, s>>] = NoPending]
  /\ vShares' = [vShares EXCEPT ![k] = @ - shares]
  /\ MoveAssets(k, 0, amount)
  /\ balance' = [balance EXCEPT ![s] = @ + amount]
  /\ held' = held - amount
  /\ UNCHANGED <<now, stakerShares, burned>>

\* slash: SLASHER_ROLE names the amount, which is capped at the pool.
Slash(k, requested) ==
  LET amount == IF requested > vAssets[k] THEN vAssets[k] ELSE requested IN
  /\ amount # 0
  /\ amount <= held
  /\ MoveAssets(k, 0, amount)
  /\ held' = held - amount
  /\ burned' = burned + amount
  /\ UNCHANGED <<now, vShares, stakerShares, pending, balance>>

NotifyReward(k, amount) ==
  /\ amount # 0
  /\ vShares[k] # 0                             \* NoStakeToReward
  /\ PullTokens(Rewarder, amount)
  /\ MoveAssets(k, amount, 0)
  /\ UNCHANGED <<now, vShares, stakerShares, pending>>

\* A plain ERC-20 transfer to the vault, which the vault's code never sees.
Donate(account, amount) ==
  /\ amount # 0
  /\ PullTokens(account, amount)
  /\ UNCHANGED <<now, poolVars, totalVars, historyVars>>

\* The next block has a later timestamp.
Tick ==
  /\ now < MaxTime
  /\ now' = now + 1
  /\ UNCHANGED <<poolVars, totalVars, historyVars, tokenVars>>

Next ==
  \/ \E k \in Pools, s \in Stakers, amount \in Amounts : Stake(k, s, amount)
  \/ \E k \in Pools, s \in Stakers, amount \in Amounts : RequestUnstake(k, s, amount)
  \/ \E k \in Pools, s \in Stakers : ClaimUnstake(k, s)
  \/ \E k \in Pools, amount \in Amounts : Slash(k, amount)
  \/ \E k \in Pools, amount \in Amounts : NotifyReward(k, amount)
  \/ \E account \in Accounts, amount \in Amounts : Donate(account, amount)
  \/ Tick

Spec == Init /\ [][Next]_vars

-----------------------------------------------------------------------------
IsTrace(h) == DOMAIN h \subseteq 1 .. now /\ h \in [DOMAIN h -> Nat]

\* Every variable has its type: amounts never go below zero, and a checkpoint
\* is never keyed by a time that has not come.
TypeOK ==
  /\ now \in Nat \ {0}
  /\ vAssets \in [Pools -> Nat]
  /\ vShares \in [Pools -> Nat]
  /\ stakerShares \in [Positions -> Nat]
  /\ pending \in [Positions -> [shares : Nat, unlockAt : Nat]]
  /\ totalAssets \in Nat
  /\ brainAssets \in [Brains -> Nat]
  /\ IsTrace(totalHistory)
  /\ DOMAIN brainHistory = Brains /\ \A b \in Brains : IsTrace(brainHistory[b])
  /\ balance \in [Accounts -> Nat]
  /\ held \in Nat
  /\ burned \in Nat

\* All the shares of a position, active and in cooldown.
OwnedShares == [p \in Positions |-> stakerShares[p] + pending[p].shares]
PositionsOf(k) == {k} \X Stakers

\* The incrementally kept aggregates (totalAssets, brainAssets) agree with the
\* pools they summarise, whatever operations ran: quorums and governance
\* thresholds divide one by the other.
AggregatesMatchPools ==
  /\ totalAssets = Total(brainAssets, Brains)
  /\ \A b \in Brains : brainAssets[b] = Total(vAssets, {b} \X Validators)

\* Custody: the vault holds at least what it owes to the pools, so no transfer
\* out of it can fail, and no BASED is created or lost on the way in or out.
Custody ==
  /\ totalAssets <= held
  /\ Total(balance, Accounts) + held + burned = Total(Wealth, Accounts)

\* A pool's shares are exactly the active and exiting shares of its stakers: an
\* exit request moves shares between the two and never mints or loses one.
SharesBacked ==
  \A k \in Pools : vShares[k] = Total(OwnedShares, PositionsOf(k))

\* A pool without shares holds no assets.  Otherwise the next staker, who is
\* minted 1:1 on an empty pool, would own what earlier stakers left behind.
EmptyPoolIsEmpty == \A k \in Pools : vShares[k] = 0 => vAssets[k] = 0

\* An exit whose cooldown is over can always be claimed: no subtraction of
\* claimUnstake underflows and the vault can pay.  The header comment's claim
\* that the last withdrawer is no longer bricked.
ClaimsNeverBlocked ==
  \A k \in Pools, s \in Stakers :
    LET shares == pending[<<k, s>>].shares
        amount == SharesToAssets(k, shares)
    IN /\ shares <= vShares[k]
       /\ amount <= vAssets[k] /\ amount <= brainAssets[k[1]]
       /\ amount <= totalAssets /\ amount <= held

\* The value of a share, vAssets/vShares, never falls except by a slash, the
\* only operation that burns: no rounding of stake, of an exit request or of a
\* claim takes value from the stakers who stay.
ShareValueFallsOnlyBySlash ==
  [][\A k \in Pools :
       (burned' = burned /\ vShares[k] # 0 /\ vShares'[k] # 0)
         => vAssets'[k] * vShares[k] >= vAssets[k] * vShares'[k]]_vars

\* A deposit buys what it costs: the shares a staker gains, and one more to
\* cover rounding, are worth at least the assets paid in.  Without the
\* PoolInsolvent check the valueless shares of a fully slashed pool would take
\* their part of the deposit.
DepositKeepsItsValue ==
  [][\A k \in Pools, s \in Stakers :
       LET gained == stakerShares'[<<k, s>>] - stakerShares[<<k, s>>]
           paid   == vAssets'[k] - vAssets[k]
       IN gained > 0 => (gained + 1) * vAssets'[k] >= paid * vShares'[k]]_vars

\* What the latest checkpoint says is the live stake, for the network and each
\* brain, so a vote counted from a snapshot sees every operation up to it.
HistoryIsCurrent ==
  /\ UpperLookup(totalHistory, now) = totalAssets
  /\ \A b \in Brains : UpperLookup(brainHistory[b], now) = brainAssets[b]

\* A snapshot of a second that is over never changes: the voting power read at
\* a past timepoint is the same in every later state.
PastIsImmutable ==
  [][\A t \in 0 .. now - 1 :
       /\ UpperLookup(totalHistory', t) = UpperLookup(totalHistory, t)
       /\ \A b \in Brains :
            UpperLookup(brainHistory'[b], t) = UpperLookup(brainHistory[b], t)]_vars

-----------------------------------------------------------------------------
(* The sparse checkpoints implement the dense record of StakeHistory.      *)
(* Brain ids are natural numbers in the code; here "network" is not one.   *)

Record(trace) == [t \in 0 .. now - 1 |-> UpperLookup(trace, t)]

History == INSTANCE StakeHistory WITH
  Series <- Brains \cup {"network"},
  live <- [x \in Brains \cup {"network"} |->
             IF x = "network" THEN totalAssets ELSE brainAssets[x]],
  past <- [x \in Brains \cup {"network"} |->
             IF x = "network" THEN Record(totalHistory) ELSE Record(brainHistory[x])]

\* getPastTotalStaked and getPastBrainStake answer, for every second that is
\* over, what the stake was at its end: the vault implements StakeHistory.
ImplementsHistory == History!Spec
=============================================================================
