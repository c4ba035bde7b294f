------------------------------- MODULE Market -------------------------------
(***************************************************************************)
(* contracts/src/market/ComputeUnitMarket.sol, where clients deposit BASED *)
(* and miners redeem the receipts that clients signed, with                *)
(* contracts/src/reward/RewardDistributor.sol, which collects the          *)
(* validators' part of every redemption and pays it into the vault.        *)
(*                                                                         *)
(* A signed receipt is an element of signed; signatures cannot be forged   *)
(* and bind every field.  A field signedAt, which the contract does not    *)
(* see, records when.  A receipt with preauth carries the sentinel         *)
(* response hash.  What redeem and distribute read of the SubnetRegistry   *)
(* and the StakingVault are inputs of these calls: any answer those may    *)
(* give.  A call that reverts is a disabled action.                        *)
(***************************************************************************)
EXTENDS Naturals, FiniteSets, Totals

CONSTANTS
  Users, Miners, Owners, Brains, Validators,
  NoOwner,              \* address(0)
  Nonces, Amounts,      \* those of receipts and of calls
  Wealth,               \* BASED of an account at the start
  WITHDRAW_DELAY, MAX_RECEIPT_LIFETIME, BPS_DENOMINATOR,
  Reservations,         \* the values of maxReservation
  Prices,               \* the values of the metered price
  Subnets,              \* what getSubnet may answer
  ValidatorSets,        \* the sets that may be registered on a brain
  Stakes,               \* what validatorStake may answer, by validator
  MaxTime, MaxSigned    \* bounds on block.timestamp and on the receipts signed

Accounts == Users \cup Miners \cup Owners
Pools    == Brains \X Validators
Subnet   == [active : BOOLEAN, owner : Owners \cup {NoOwner},
             ownerSplitBps : 0 .. BPS_DENOMINATOR, minerShareBps : 0 .. BPS_DENOMINATOR]
Receipts == [user : Users, miner : Miners, brain : Brains, preauth : BOOLEAN,
             amount : Amounts, expiry : 0 .. MaxTime, nonce : Nonces,
             signedAt : 0 .. MaxTime]

ASSUME MarketAssumption ==
  /\ IsFiniteSet(Accounts) /\ IsFiniteSet(Brains) /\ IsFiniteSet(Validators)
  /\ NoOwner \notin Owners
  /\ Amounts \subseteq Nat /\ Reservations \subseteq Nat
  /\ Wealth \in [Accounts -> Nat]
  /\ WITHDRAW_DELAY \in Nat \ {0}
  /\ MAX_RECEIPT_LIFETIME \in 0 .. WITHDRAW_DELAY       \* both are one day
  /\ BPS_DENOMINATOR \in Nat \ {0}
  /\ Subnets \subseteq Subnet
  /\ Stakes \subseteq [Validators -> Nat]
  /\ ValidatorSets \subseteq SUBSET Validators
  /\ MaxTime \in Nat

VARIABLES
  now, paused, maxReservation, price,
  balances, usedNonces, pendingWithdrawals,
  held,                   \* BASED.balanceOf(the market)
  pendingValidatorFees,   \* by brain
  feesHeld,               \* BASED.balanceOf(the distributor)
  rewarded,               \* BASED the distributor has moved to each pool of the vault
  wallet,                 \* BASED.balanceOf of the accounts
  signed                  \* the receipts clients have signed

adminVars    == <<paused, maxReservation, price>>
clientVars   == <<balances, usedNonces, pendingWithdrawals>>
feeVars      == <<pendingValidatorFees, feesHeld, rewarded>>
marketVars == <<adminVars, clientVars, held, feeVars, wallet>>
vars == <<now, signed, marketVars>>

\* requestedAt is history: the contract only keeps readyAt.
NoWithdrawal == [amount |-> 0, readyAt |-> 0, requestedAt |-> 0]

-----------------------------------------------------------------------------
(* Administration.                                                         *)

SetPaused(value) ==
  /\ paused # value
  /\ paused' = value
  /\ UNCHANGED <<now, signed, maxReservation, price, clientVars, held,
                 feeVars, wallet>>

SetMaxReservation(value) ==
  /\ maxReservation' = value
  /\ UNCHANGED <<now, signed, paused, price, clientVars, held,
                 feeVars, wallet>>

SetPricing(value) ==
  /\ value.perByte > 0 \/ value.perRequest > 0
  /\ price' = value
  /\ UNCHANGED <<now, signed, paused, maxReservation, clientVars, held,
                 feeVars, wallet>>

-----------------------------------------------------------------------------
(* Deposits and withdrawals.                                               *)

Deposit(u, amount) ==
  /\ ~ paused
  /\ amount # 0
  /\ amount <= wallet[u]
  /\ wallet' = [wallet EXCEPT ![u] = @ - amount]
  /\ held' = held + amount
  /\ balances' = [balances EXCEPT ![u] = @ + amount]
  /\ UNCHANGED <<now, signed, adminVars, usedNonces, pendingWithdrawals,
                 feeVars>>

\* Defect: a withdrawal is ready at once.
ReadyNow == now

ReadyAt == now + WITHDRAW_DELAY

RequestWithdraw(u, amount) ==
  /\ amount # 0
  /\ balances[u] >= amount                              \* InsufficientBalance
  /\ pendingWithdrawals' = [pendingWithdrawals EXCEPT ![u] =
                              [amount |-> amount, readyAt |-> ReadyAt, requestedAt |-> now]]
  /\ UNCHANGED <<now, signed, adminVars, balances, usedNonces, held,
                 feeVars, wallet>>

CancelWithdraw(u) ==
  /\ pendingWithdrawals[u].readyAt # 0                  \* NoPendingWithdrawal
  /\ pendingWithdrawals' = [pendingWithdrawals EXCEPT ![u] = NoWithdrawal]
  /\ UNCHANGED <<now, signed, adminVars, balances, usedNonces, held,
                 feeVars, wallet>>

\* Defect: pays what was requested, whatever has been redeemed since.
WholeRequest(u) == pendingWithdrawals[u].amount

\* Receipts redeemed during the delay win.
Payout(u) ==
  LET requested == pendingWithdrawals[u].amount
  IN IF requested < balances[u] THEN requested ELSE balances[u]

Withdraw(u) ==
  /\ pendingWithdrawals[u].readyAt # 0                  \* NoPendingWithdrawal
  /\ now >= pendingWithdrawals[u].readyAt               \* WithdrawalNotReady
  /\ Payout(u) # 0                                      \* InsufficientBalance
  /\ Payout(u) <= balances[u] /\ Payout(u) <= held
  /\ pendingWithdrawals' = [pendingWithdrawals EXCEPT ![u] = NoWithdrawal]
  /\ balances' = [balances EXCEPT ![u] = @ - Payout(u)]
  /\ held' = held - Payout(u)
  /\ wallet' = [wallet EXCEPT ![u] = @ + Payout(u)]
  /\ UNCHANGED <<now, signed, adminVars, usedNonces, feeVars>>

-----------------------------------------------------------------------------
(* Redemption and the split of the fee.                                    *)

\* The owner's part is of the gross amount, the miner's of the rest; an
\* inactive brain pays the miner in full, a missing owner's part is the miner's.
OwnerPart(sn, amount) == (amount * sn.ownerSplitBps) \div BPS_DENOMINATOR

\* Defect: the miner's share, too, is of the gross amount.
MinerShareOfGross(sn, amount) == (amount * sn.minerShareBps) \div BPS_DENOMINATOR

MinerPart(sn, amount) ==
  ((amount - OwnerPart(sn, amount)) * sn.minerShareBps) \div BPS_DENOMINATOR

OwnerAmount(sn, amount) ==
  IF sn.active /\ sn.owner # NoOwner THEN OwnerPart(sn, amount) ELSE 0

\* Defect: the validators' part is rounded by itself.
ValidatorsRoundedDown(sn, amount) ==
  IF sn.active
  THEN ((amount - OwnerPart(sn, amount)) * (BPS_DENOMINATOR - sn.minerShareBps))
         \div BPS_DENOMINATOR
  ELSE 0

ValidatorAmount(sn, amount) ==
  IF sn.active THEN amount - OwnerPart(sn, amount) - MinerPart(sn, amount) ELSE 0

MinerAmount(sn, amount) ==
  IF ~ sn.active THEN amount
  ELSE IF sn.owner = NoOwner THEN MinerPart(sn, amount) + OwnerPart(sn, amount)
  ELSE MinerPart(sn, amount)

\* Defect: a receipt can be redeemed any number of times.
NeverUsed(u, n) == TRUE

Unused(u, n) == <<u, n>> \notin usedNonces

\* The checks of redeem; the caller is r.miner and the signature is r.user's.
Redeemable(r) ==
  /\ ~ paused
  /\ now <= r.expiry                                    \* ExpiredReceipt
  /\ r.expiry <= now + MAX_RECEIPT_LIFETIME             \* ReceiptLifetimeTooLong
  /\ r.amount # 0                                       \* InvalidAmount
  /\ r.preauth => r.amount <= maxReservation            \* ReservationExceedsCap
  /\ Unused(r.user, r.nonce)                            \* NonceUsed
  /\ balances[r.user] >= r.amount                       \* InsufficientBalance
  /\ r \in signed                                       \* InvalidSignature

\* The transfers of _settle to the miner and the owner, who may be one account.
Pay(account, sn, r) ==
  LET asMiner == IF account = r.miner THEN MinerAmount(sn, r.amount) ELSE 0
      asOwner == IF account = sn.owner THEN OwnerAmount(sn, r.amount) ELSE 0
  IN asMiner + asOwner

Redeem(r, sn) ==
  /\ Redeemable(r)
  /\ r.amount <= held
  /\ usedNonces' = usedNonces \cup {<<r.user, r.nonce>>}
  /\ balances' = [balances EXCEPT ![r.user] = @ - r.amount]
  /\ held' = held - r.amount
  /\ wallet' = [a \in Accounts |-> wallet[a] + Pay(a, sn, r)]
  /\ feesHeld' = feesHeld + ValidatorAmount(sn, r.amount)
  /\ pendingValidatorFees' =                            \* recordFees
       [pendingValidatorFees EXCEPT ![r.brain] = @ + ValidatorAmount(sn, r.amount)]
  /\ UNCHANGED <<now, signed, adminVars, pendingWithdrawals, rewarded>>

-----------------------------------------------------------------------------
(* RewardDistributor.distribute, called with the complete registered set.  *)

\* Defect: weighs by all the stake of the brain, registered or not.
StakeOfBrain(set, stake) == Total(stake, Validators)

StakeOfRegistered(set, stake) == Total(stake, set)

Share(fees, set, stake, v) ==
  IF v \in set THEN (fees * stake[v]) \div StakeOfRegistered(set, stake) ELSE 0

\* A validator with stake has a pool with shares (StakingVault!EmptyPoolIsEmpty),
\* so no notifyReward reverts and the call pays all of them.
Distribute(b, set, stake) ==
  LET fees   == pendingValidatorFees[b]
      shares == [k \in Pools |-> IF k[1] = b THEN Share(fees, set, stake, k[2]) ELSE 0]
      distributed == Total(shares, Pools)
  IN
  /\ fees # 0                                           \* NothingToDistribute
  /\ set # {}                                           \* IncompleteValidatorSet
  /\ StakeOfRegistered(set, stake) # 0                  \* NoValidatorStake
  /\ distributed <= fees /\ distributed <= feesHeld
  /\ pendingValidatorFees' = [pendingValidatorFees EXCEPT ![b] = fees - distributed]
  /\ feesHeld' = feesHeld - distributed
  /\ rewarded' = [k \in Pools |-> rewarded[k] + shares[k]]
  /\ UNCHANGED <<now, signed, adminVars, clientVars, held, wallet>>

-----------------------------------------------------------------------------
(* The contracts' environment.                                             *)

SignReceipt(r) ==
  /\ Cardinality(signed) < MaxSigned
  /\ r.signedAt = now
  /\ signed' = signed \cup {r}
  /\ UNCHANGED <<now, marketVars>>

Tick ==
  /\ now < MaxTime
  /\ now' = now + 1
  /\ UNCHANGED <<signed, marketVars>>

Init ==
  /\ now = 0
  /\ paused = FALSE
  /\ maxReservation \in Reservations
  /\ price \in {p \in Prices : p.perByte > 0 \/ p.perRequest > 0}
  /\ balances = [u \in Users |-> 0]
  /\ usedNonces = {}
  /\ pendingWithdrawals = [u \in Users |-> NoWithdrawal]
  /\ held = 0
  /\ pendingValidatorFees = [b \in Brains |-> 0]
  /\ feesHeld = 0
  /\ rewarded = [k \in Pools |-> 0]
  /\ wallet = Wealth
  /\ signed = {}

Next ==
  \/ \E value \in BOOLEAN : SetPaused(value)
  \/ \E value \in Reservations : SetMaxReservation(value)
  \/ \E value \in Prices : SetPricing(value)
  \/ \E u \in Users, amount \in Amounts : Deposit(u, amount) \/ RequestWithdraw(u, amount)
  \/ \E u \in Users : CancelWithdraw(u) \/ Withdraw(u)
  \/ \E r \in signed, sn \in Subnets : Redeem(r, sn)
  \/ \E b \in Brains, set \in ValidatorSets, stake \in Stakes : Distribute(b, set, stake)
  \/ \E r \in Receipts : SignReceipt(r)
  \/ Tick

Spec == Init /\ [][Next]_vars

-----------------------------------------------------------------------------
Withdrawal == [amount : Nat, readyAt : Nat, requestedAt : Nat]

\* Every variable has its type: no balance goes below zero.
MarketTypeOK ==
  /\ now \in Nat
  /\ paused \in BOOLEAN /\ maxReservation \in Nat /\ price \in Prices
  /\ balances \in [Users -> Nat]
  /\ usedNonces \subseteq Users \X Nonces
  /\ pendingWithdrawals \in [Users -> Withdrawal]
  /\ held \in Nat
  /\ pendingValidatorFees \in [Brains -> Nat]
  /\ feesHeld \in Nat /\ rewarded \in [Pools -> Nat]
  /\ wallet \in [Accounts -> Nat]
  /\ signed \subseteq Receipts

\* Custody: the market holds what it owes to clients, the distributor what it has
\* recorded for validators, so neither a withdrawal nor a distribution can fail
\* for want of tokens; and the split of a redemption neither strands nor creates
\* BASED, whatever the shares, the rounding and the owner are.
MarketCustody ==
  /\ held = Total(balances, Users)
  /\ feesHeld = Total(pendingValidatorFees, Brains)
  /\ Total(wallet, Accounts) + held + feesHeld + Total(rewarded, Pools)
       = Total(Wealth, Accounts)

\* A withdrawal whose delay is over can be paid, whatever was redeemed meanwhile:
\* neither subtraction underflows.
WithdrawalsNeverBlocked ==
  \A u \in Users : Payout(u) <= balances[u] /\ Payout(u) <= held

\* A client's balance falls only by a withdrawal whose delay is over, or by one
\* unexpired receipt the client signed, for a nonce that never paid before: a
\* pre-authorization and the final receipt of one nonce never both pay.
SpendsOnlySigned ==
  [][\A u \in Users : balances'[u] < balances[u] =>
       \/ /\ usedNonces' = usedNonces
          /\ now >= pendingWithdrawals[u].requestedAt + WITHDRAW_DELAY
          /\ wallet'[u] - wallet[u] = balances[u] - balances'[u]
       \/ \E r \in signed :
            /\ r.user = u /\ now <= r.expiry
            /\ <<u, r.nonce>> \in usedNonces' \ usedNonces
            /\ balances[u] - balances'[u] = r.amount]_vars

\* The receipts of u that could still be redeemed and were signed with an expiry
\* within the lifetime.
Outstanding(u) ==
  {r \in signed : /\ r.user = u
                  /\ r.expiry > now
                  /\ r.expiry <= r.signedAt + MAX_RECEIPT_LIFETIME
                  /\ <<u, r.nonce>> \notin usedNonces}

\* A withdrawal never takes the collateral of a receipt that was signed before it
\* was requested: by the time it is ready, that receipt has expired.
CollateralStays ==
  [][\A u \in Users :
       balances'[u] < balances[u] /\ usedNonces' = usedNonces =>
         \A r \in Outstanding(u) : r.signedAt > pendingWithdrawals[u].requestedAt]_vars

\* A distribution pays every registered validator at most its part by stake, and
\* what is carried forward is rounding dust: less than one unit for each
\* validator with stake.
DistributionIsProportional ==
  [][\A b \in Brains :
       LET fees    == pendingValidatorFees[b]
           gain(v) == rewarded'[<<b, v>>] - rewarded[<<b, v>>]
       IN pendingValidatorFees'[b] < fees =>
            \E set \in ValidatorSets, stake \in Stakes :
              /\ \A v \in Validators \ set : gain(v) = 0
              /\ \A v \in set : gain(v) * Total(stake, set) <= fees * stake[v]
              /\ pendingValidatorFees'[b] < Cardinality({v \in set : stake[v] > 0})]_vars
=============================================================================
