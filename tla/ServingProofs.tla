---------------------------- MODULE ServingProofs ----------------------------
(***************************************************************************)
(* The market for every set of accounts, brains and validators, every      *)
(* split, price and stake, and every delay that is at least the receipts'  *)
(* lifetime; then paid inference on it for every set of clients and        *)
(* miners, every price and budget, whatever the dishonest miners answer,   *)
(* and however often the honest ones restart or fail to redeem.            *)
(*                                                                         *)
(* The lemmas about single steps of the market assume MarketAssumption     *)
(* only, and serve both specifications.                                    *)
(***************************************************************************)
EXTENDS Serving, TotalsTheorems

-----------------------------------------------------------------------------
(* The market: arithmetic of the split.                                    *)

\* A number of basis points of an amount is at most the amount.
LEMMA PartTyped ==
  ASSUME NEW amount \in Nat, NEW bps \in 0 .. BPS_DENOMINATOR
  PROVE  (amount * bps) \div BPS_DENOMINATOR \in 0 .. amount
<1>1. bps \in Nat /\ bps <= BPS_DENOMINATOR /\ BPS_DENOMINATOR \in Nat \ {0}
  BY MarketAssumption
<1>2. (bps * amount) \div BPS_DENOMINATOR \in Nat
      /\ (bps * amount) \div BPS_DENOMINATOR <= amount
  BY <1>1, ProRata
<1>3. bps * amount = amount * bps
  BY <1>1
<1> QED BY <1>2, <1>3

\* The three parts of a redemption are amounts that add up to it, whether the
\* brain is active and whether it has an owner.
LEMMA SplitExact ==
  ASSUME NEW sn \in Subnet, NEW amount \in Nat
  PROVE  /\ OwnerAmount(sn, amount) \in Nat
         /\ ValidatorAmount(sn, amount) \in Nat
         /\ MinerAmount(sn, amount) \in Nat
         /\ OwnerAmount(sn, amount) + ValidatorAmount(sn, amount) + MinerAmount(sn, amount)
              = amount
<1> DEFINE o == OwnerPart(sn, amount)
           p == MinerPart(sn, amount)
<1>1. o \in 0 .. amount
  BY PartTyped DEF Subnet, OwnerPart
<1>2. amount - o \in Nat
  BY <1>1
<1>3. p \in 0 .. amount - o
  BY <1>2, PartTyped DEF Subnet, MinerPart
<1> HIDE DEF o, p
<1> QED BY <1>1, <1>2, <1>3 DEF OwnerAmount, ValidatorAmount, MinerAmount, o, p

-----------------------------------------------------------------------------
(* The market: type correctness.                                           *)

\* The pools of the vault are finite in number.
LEMMA PoolsFinite == IsFiniteSet(Pools)
  BY MarketAssumption, FS_Product DEF Pools

\* What a redemption pays an account is an amount.
LEMMA PayTyped ==
  ASSUME NEW sn \in Subnet, NEW r, r.amount \in Nat, NEW a
  PROVE  Pay(a, sn, r) \in Nat
  BY SplitExact DEF Pay

\* A validator's share of a distribution is an amount.
LEMMA ShareTyped ==
  ASSUME NEW fees \in Nat, NEW set \in ValidatorSets, NEW stake \in Stakes,
         NEW v \in Validators, StakeOfRegistered(set, stake) # 0
  PROVE  Share(fees, set, stake, v) \in Nat
<1>1. \A w \in set : stake[w] \in Nat
  BY MarketAssumption
<1>2. IsFiniteSet(set)
  BY MarketAssumption, FS_Subset
<1>3. StakeOfRegistered(set, stake) \in Nat \ {0}
  BY <1>1, <1>2, CoinsFinite DEF StakeOfRegistered
<1>4. CASE v \in set
  <2>1. fees * stake[v] \in Nat
    BY <1>1, <1>4
  <2> QED BY <1>3, <1>4, <2>1, FloorDivision DEF Share
<1> QED BY <1>4 DEF Share

\* A new market is empty.
LEMMA InitMarketTypeOK == Init => MarketTypeOK
<1> SUFFICES ASSUME Init PROVE MarketTypeOK
  OBVIOUS
<1>1. NoWithdrawal \in Withdrawal
  BY DEF NoWithdrawal, Withdrawal
<1>2. pendingWithdrawals \in [Users -> Withdrawal]
  BY <1>1 DEF Init
<1>3. wallet \in [Accounts -> Nat] /\ maxReservation \in Nat
  BY MarketAssumption DEF Init
<1>4. price \in Prices
  BY DEF Init
<1> QED BY <1>2, <1>3, <1>4 DEF Init, MarketTypeOK

\* No call takes a balance below zero.
LEMMA NextMarketTypeOK == MarketTypeOK /\ [Next]_vars => MarketTypeOK'
<1> SUFFICES ASSUME MarketTypeOK, [Next]_vars PROVE MarketTypeOK'
  OBVIOUS
<1> USE DEF MarketTypeOK
<1>a. (\A n \in Amounts : n \in Nat) /\ Users \subseteq Accounts
      /\ \A n \in Reservations : n \in Nat
  BY MarketAssumption DEF Accounts
<1>1. ASSUME NEW value \in BOOLEAN, SetPaused(value) PROVE MarketTypeOK'
  BY <1>1 DEF SetPaused, clientVars, feeVars
<1>2. ASSUME NEW value \in Reservations, SetMaxReservation(value) PROVE MarketTypeOK'
  BY <1>a, <1>2 DEF SetMaxReservation, clientVars, feeVars
<1>3. ASSUME NEW value \in Prices, SetPricing(value) PROVE MarketTypeOK'
  BY <1>3 DEF SetPricing, clientVars, feeVars
<1>4. ASSUME NEW u \in Users, NEW amount \in Amounts, Deposit(u, amount) PROVE MarketTypeOK'
  BY <1>a, <1>4 DEF Deposit, adminVars, feeVars
<1>5. ASSUME NEW u \in Users, NEW amount \in Amounts, RequestWithdraw(u, amount)
      PROVE  MarketTypeOK'
  <2>1. [amount |-> amount, readyAt |-> ReadyAt, requestedAt |-> now] \in Withdrawal
    BY <1>a, MarketAssumption DEF Withdrawal, ReadyAt
  <2> QED BY <1>5, <2>1 DEF RequestWithdraw, adminVars, feeVars
<1>6. ASSUME NEW u \in Users, CancelWithdraw(u) PROVE MarketTypeOK'
  BY <1>6 DEF CancelWithdraw, NoWithdrawal, Withdrawal, adminVars, feeVars
<1>7. ASSUME NEW u \in Users, Withdraw(u) PROVE MarketTypeOK'
  <2>1. Payout(u) \in Nat
    BY DEF Payout, Withdrawal
  <2> QED BY <1>a, <1>7, <2>1 DEF Withdraw, NoWithdrawal, Withdrawal, adminVars, feeVars
<1>8. ASSUME NEW r \in signed, NEW sn \in Subnets, Redeem(r, sn) PROVE MarketTypeOK'
  <2>1. r.user \in Users /\ r.nonce \in Nonces /\ r.brain \in Brains /\ r.amount \in Nat
        /\ sn \in Subnet
    BY <1>a, MarketAssumption DEF Receipts
  <2>2. ValidatorAmount(sn, r.amount) \in Nat /\ \A a : Pay(a, sn, r) \in Nat
    BY <2>1, SplitExact, PayTyped
  <2>3. r.amount <= balances[r.user] /\ r.amount <= held
    BY <1>8 DEF Redeem, Redeemable
  <2>4. wallet' \in [Accounts -> Nat]
    BY <1>8, <2>2 DEF Redeem
  <2>5. feesHeld' \in Nat /\ pendingValidatorFees' \in [Brains -> Nat]
    BY <1>8, <2>1, <2>2 DEF Redeem
  <2>6. balances' \in [Users -> Nat] /\ held' \in Nat
    BY <1>8, <2>1, <2>3 DEF Redeem
  <2> QED BY <1>8, <2>1, <2>4, <2>5, <2>6 DEF Redeem, adminVars
<1>9. ASSUME NEW b \in Brains, NEW set \in ValidatorSets, NEW stake \in Stakes,
             Distribute(b, set, stake)
      PROVE  MarketTypeOK'
  <2> DEFINE fees   == pendingValidatorFees[b]
             shares == [k \in Pools |-> IF k[1] = b THEN Share(fees, set, stake, k[2]) ELSE 0]
             distributed == Total(shares, Pools)
  <2>1. \A k \in Pools : shares[k] \in Nat
    BY <1>9, ShareTyped DEF Distribute, Pools
  <2>2. distributed \in Nat
    BY <2>1, PoolsFinite, CoinsFinite
  <2>3. /\ distributed <= fees /\ distributed <= feesHeld
        /\ pendingValidatorFees' = [pendingValidatorFees EXCEPT ![b] = fees - distributed]
        /\ feesHeld' = feesHeld - distributed
        /\ rewarded' = [k \in Pools |-> rewarded[k] + shares[k]]
    BY <1>9 DEF Distribute
  <2> HIDE DEF shares
  <2>4. pendingValidatorFees' \in [Brains -> Nat] /\ feesHeld' \in Nat
    BY <2>2, <2>3
  <2>5. rewarded' \in [Pools -> Nat]
    BY <2>1, <2>3
  <2> QED BY <1>9, <2>4, <2>5 DEF Distribute, adminVars, clientVars
<1>10. ASSUME NEW r \in Receipts, SignReceipt(r) PROVE MarketTypeOK'
  BY <1>10 DEF SignReceipt, marketVars, adminVars, clientVars, feeVars
<1>11. CASE Tick
  BY <1>11 DEF Tick, marketVars, adminVars, clientVars, feeVars
<1>12. CASE UNCHANGED vars
  BY <1>12 DEF vars, marketVars, adminVars, clientVars, feeVars
<1> QED
  BY <1>1, <1>2, <1>3, <1>4, <1>5, <1>6, <1>7, <1>8, <1>9, <1>10, <1>11, <1>12 DEF Next

\* Every balance, allowance and fee is a natural number in every reachable state.
THEOREM MarketTypes == Spec => []MarketTypeOK
<1>1. QED BY InitMarketTypeOK, NextMarketTypeOK, PTL DEF Spec

-----------------------------------------------------------------------------
(* The market: custody.                                                    *)

\* An account that pays amount into the market, or is paid by it, moves the sum
\* of the clients' balances by as much.
LEMMA ClientMoves ==
  ASSUME MarketTypeOK, MarketTypeOK', NEW u \in Users, NEW d \in Int,
         held' = held + d,
         balances'[u] = balances[u] + d, \A x \in Users \ {u} : balances'[x] = balances[x],
         wallet'[u] = wallet[u] + (0 - d), \A a \in Accounts \ {u} : wallet'[a] = wallet[a],
         UNCHANGED feeVars, MarketCustody
  PROVE  MarketCustody'
<1>1. u \in Accounts /\ IsFiniteSet(Users) /\ IsFiniteSet(Accounts)
  BY MarketAssumption, FS_Subset DEF Accounts
<1>2. balances \in [Users -> Nat] /\ wallet \in [Accounts -> Nat]
      /\ balances' \in [Users -> Nat] /\ wallet' \in [Accounts -> Nat]
      /\ held \in Nat /\ feesHeld \in Nat /\ rewarded \in [Pools -> Nat]
  BY DEF MarketTypeOK
<1>3. Total(balances, Users) \in Nat /\ Total(wallet, Accounts) \in Nat
      /\ Total(rewarded, Pools) \in Nat
  BY <1>1, <1>2, PoolsFinite, CoinsFinite
<1>5. 0 - d \in Int
  OBVIOUS
<1>6. Total(balances', Users) = Total(balances, Users) + d
  BY <1>1, <1>2, TotalShift
<1>7. Total(wallet', Accounts) = Total(wallet, Accounts) + (0 - d)
  BY <1>1, <1>2, <1>5, TotalShift
<1> QED BY <1>2, <1>3, <1>6, <1>7 DEF MarketCustody, feeVars

\* What a redemption pays the accounts adds up to the miner's and owner's parts.
LEMMA PaysMinerAndOwner ==
  ASSUME NEW r \in Receipts, NEW sn \in Subnet, r.amount \in Nat,
         NEW pay, \A a \in Accounts : pay[a] = Pay(a, sn, r)
  PROVE  Total(pay, Accounts) = MinerAmount(sn, r.amount) + OwnerAmount(sn, r.amount)
<1> DEFINE asMiner == [a \in Accounts |-> IF a = r.miner THEN MinerAmount(sn, r.amount) ELSE 0]
           asOwner == [a \in Accounts |-> IF a = sn.owner THEN OwnerAmount(sn, r.amount) ELSE 0]
<1>1. MinerAmount(sn, r.amount) \in Nat /\ OwnerAmount(sn, r.amount) \in Nat
  BY SplitExact
<1>2. IsFiniteSet(Accounts) /\ r.miner \in Accounts
  BY MarketAssumption DEF Accounts, Receipts
<1>3. Total(asMiner, Accounts) = MinerAmount(sn, r.amount)
  BY <1>1, <1>2, TotalSingle
<1>4. Total(asOwner, Accounts) = OwnerAmount(sn, r.amount)
  <2>1. CASE sn.owner = NoOwner
    <3>1. OwnerAmount(sn, r.amount) = 0
      BY <2>1 DEF OwnerAmount
    <3> QED BY <3>1, TotalZero
  <2>2. CASE sn.owner # NoOwner
    <3>1. sn.owner \in Accounts
      BY <2>2 DEF Subnet, Accounts
    <3> QED BY <1>1, <1>2, <3>1, TotalSingle
  <2> QED BY <2>1, <2>2
<1>5. \A a \in Accounts : /\ asMiner[a] \in Nat /\ asOwner[a] \in Nat
                          /\ pay[a] = asMiner[a] + asOwner[a]
  BY <1>1 DEF Pay
<1> HIDE DEF asMiner, asOwner
<1> QED BY <1>2, <1>3, <1>4, <1>5, TotalSum

\* A redemption moves the amount from the client to the three recipients.
LEMMA RedeemCustody ==
  ASSUME MarketTypeOK, MarketTypeOK', MarketCustody,
         NEW r \in signed, NEW sn \in Subnets, Redeem(r, sn)
  PROVE  MarketCustody'
<1> DEFINE pay == [a \in Accounts |-> Pay(a, sn, r)]
           o == OwnerAmount(sn, r.amount)
           v == ValidatorAmount(sn, r.amount)
           p == MinerAmount(sn, r.amount)
<1>1. r \in Receipts /\ r.user \in Users /\ r.brain \in Brains /\ r.amount \in Nat
      /\ sn \in Subnet
  BY MarketAssumption DEF MarketTypeOK, Receipts
<1>2. o \in Nat /\ v \in Nat /\ p \in Nat /\ o + v + p = r.amount
  BY <1>1, SplitExact
<1>3. IsFiniteSet(Users) /\ IsFiniteSet(Accounts) /\ IsFiniteSet(Brains)
  BY MarketAssumption, FS_Subset DEF Accounts
<1>4. /\ balances \in [Users -> Nat] /\ balances' \in [Users -> Nat]
      /\ wallet \in [Accounts -> Nat] /\ held \in Nat /\ feesHeld \in Nat
      /\ rewarded \in [Pools -> Nat]
      /\ pendingValidatorFees \in [Brains -> Nat] /\ pendingValidatorFees' \in [Brains -> Nat]
  BY DEF MarketTypeOK
<1>5. Total(pay, Accounts) = p + o
  BY <1>1, PaysMinerAndOwner
<1>6. \A a \in Accounts : pay[a] \in Nat /\ wallet'[a] = wallet[a] + pay[a]
  BY <1>1, PayTyped DEF Redeem
<1>7. /\ balances'[r.user] = balances[r.user] + (0 - r.amount)
      /\ \A u \in Users \ {r.user} : balances'[u] = balances[u]
      /\ pendingValidatorFees'[r.brain] = pendingValidatorFees[r.brain] + v
      /\ \A b \in Brains \ {r.brain} : pendingValidatorFees'[b] = pendingValidatorFees[b]
  BY <1>1, <1>4 DEF Redeem
<1>8. 0 - r.amount \in Int /\ v \in Int
  BY <1>1, <1>2
<1> HIDE DEF pay, o, v, p
<1>9. Total(wallet', Accounts) = Total(wallet, Accounts) + (p + o)
  BY <1>3, <1>4, <1>5, <1>6, TotalSum
<1>10. held' = held - r.amount /\ feesHeld' = feesHeld + v /\ rewarded' = rewarded
  BY DEF Redeem, v
<1>11. Total(balances, Users) \in Nat /\ Total(wallet, Accounts) \in Nat
       /\ Total(rewarded, Pools) \in Nat /\ Total(pendingValidatorFees, Brains) \in Nat
  BY <1>3, <1>4, PoolsFinite, CoinsFinite
<1>12. Total(balances', Users) = Total(balances, Users) + (0 - r.amount)
  BY <1>1, <1>3, <1>4, <1>7, <1>8, TotalShift
<1>13. Total(pendingValidatorFees', Brains) = Total(pendingValidatorFees, Brains) + v
  BY <1>1, <1>3, <1>4, <1>7, <1>8, TotalShift
<1> QED BY <1>1, <1>2, <1>4, <1>9, <1>10, <1>11, <1>12, <1>13 DEF MarketCustody

\* A distribution moves fees from the distributor to the pools.
LEMMA DistributeCustody ==
  ASSUME MarketTypeOK, MarketTypeOK', MarketCustody,
         NEW b \in Brains, NEW set \in ValidatorSets, NEW stake \in Stakes,
         Distribute(b, set, stake)
  PROVE  MarketCustody'
<1> DEFINE fees   == pendingValidatorFees[b]
           shares == [k \in Pools |-> IF k[1] = b THEN Share(fees, set, stake, k[2]) ELSE 0]
           distributed == Total(shares, Pools)
<1>1. /\ rewarded \in [Pools -> Nat] /\ held \in Nat /\ feesHeld \in Nat
      /\ wallet \in [Accounts -> Nat] /\ balances \in [Users -> Nat]
      /\ pendingValidatorFees \in [Brains -> Nat] /\ pendingValidatorFees' \in [Brains -> Nat]
      /\ IsFiniteSet(Users) /\ IsFiniteSet(Accounts) /\ IsFiniteSet(Brains)
  BY MarketAssumption, FS_Subset DEF MarketTypeOK, Accounts
<1>2. \A k \in Pools : shares[k] \in Nat
  BY <1>1, ShareTyped DEF Distribute, Pools
<1>3. /\ pendingValidatorFees' = [pendingValidatorFees EXCEPT ![b] = fees - distributed]
      /\ feesHeld' = feesHeld - distributed
      /\ rewarded' = [k \in Pools |-> rewarded[k] + shares[k]]
      /\ held' = held /\ wallet' = wallet /\ balances' = balances
  BY DEF Distribute, clientVars
<1> HIDE DEF shares
<1>4. Total(rewarded', Pools) = Total(rewarded, Pools) + distributed
  BY <1>1, <1>2, <1>3, PoolsFinite, TotalSum
<1>5. fees \in Nat
      /\ pendingValidatorFees'[b] = fees - distributed
      /\ \A x \in Brains \ {b} : pendingValidatorFees'[x] = pendingValidatorFees[x]
  BY <1>1, <1>3
<1>6. distributed \in Nat /\ Total(rewarded, Pools) \in Nat
      /\ Total(pendingValidatorFees, Brains) \in Nat
      /\ Total(wallet, Accounts) \in Nat /\ Total(balances, Users) \in Nat
  BY <1>1, <1>2, PoolsFinite, CoinsFinite
<1> HIDE DEF distributed
<1>7. Total(pendingValidatorFees', Brains)
        = Total(pendingValidatorFees, Brains) + (0 - distributed)
  <2>1. pendingValidatorFees'[b] = fees + (0 - distributed) /\ 0 - distributed \in Int
    BY <1>5, <1>6
  <2> QED BY <1>1, <1>5, <2>1, TotalShift
<1> QED BY <1>1, <1>3, <1>4, <1>6, <1>7 DEF MarketCustody

\* Every call keeps custody.
LEMMA CustodyStep ==
  ASSUME MarketTypeOK, MarketTypeOK', MarketCustody, [Next]_vars
  PROVE  MarketCustody'
<1>a. held \in Nat /\ \A n \in Amounts : n \in Nat
  BY MarketAssumption DEF MarketTypeOK
<1>1. ASSUME UNCHANGED <<balances, held, feeVars, wallet>> PROVE MarketCustody'
  BY <1>1 DEF MarketCustody, feeVars
<1>2. ASSUME NEW u \in Users, NEW amount \in Amounts, Deposit(u, amount) PROVE MarketCustody'
  <2>1. amount \in Int
    BY <1>a
  <2>2. u \in Accounts /\ balances \in [Users -> Nat] /\ wallet \in [Accounts -> Nat]
    BY DEF Accounts, MarketTypeOK
  <2>3. /\ held' = held + amount
        /\ balances'[u] = balances[u] + amount
        /\ \A x \in Users \ {u} : balances'[x] = balances[x]
        /\ wallet'[u] = wallet[u] + (0 - amount)
        /\ \A a \in Accounts \ {u} : wallet'[a] = wallet[a]
        /\ UNCHANGED feeVars
    BY <1>2, <2>1, <2>2 DEF Deposit
  <2> QED BY <2>1, <2>3, ClientMoves
<1>3. ASSUME NEW u \in Users, Withdraw(u) PROVE MarketCustody'
  <2> DEFINE d == 0 - Payout(u)
  <2>1. Payout(u) \in Nat
    BY DEF Payout, MarketTypeOK, Withdrawal
  <2>2. u \in Accounts /\ balances \in [Users -> Nat] /\ wallet \in [Accounts -> Nat]
    BY DEF Accounts, MarketTypeOK
  <2>3. d \in Int /\ held' = held + d
    BY <1>a, <1>3, <2>1 DEF Withdraw
  <2>4. /\ balances'[u] = balances[u] + d
        /\ \A x \in Users \ {u} : balances'[x] = balances[x]
        /\ wallet'[u] = wallet[u] + (0 - d)
        /\ \A a \in Accounts \ {u} : wallet'[a] = wallet[a]
    BY <1>3, <2>1, <2>2 DEF Withdraw
  <2>5. UNCHANGED feeVars
    BY <1>3 DEF Withdraw
  <2> HIDE DEF d
  <2> QED BY <2>3, <2>4, <2>5, ClientMoves
<1>4. ASSUME NEW value, SetPaused(value) \/ SetMaxReservation(value) \/ SetPricing(value)
      PROVE  MarketCustody'
  BY <1>1, <1>4 DEF SetPaused, SetMaxReservation, SetPricing, clientVars
<1>5. ASSUME NEW u \in Users, NEW amount, RequestWithdraw(u, amount) \/ CancelWithdraw(u)
      PROVE  MarketCustody'
  BY <1>1, <1>5 DEF RequestWithdraw, CancelWithdraw
<1>6. ASSUME NEW r, SignReceipt(r) PROVE MarketCustody'
  BY <1>1, <1>6 DEF SignReceipt, marketVars, clientVars
<1>7. CASE Tick
  BY <1>1, <1>7 DEF Tick, marketVars, clientVars
<1>8. CASE UNCHANGED vars
  BY <1>1, <1>8 DEF vars, marketVars, clientVars
<1> QED
  BY <1>2, <1>3, <1>4, <1>5, <1>6, <1>7, <1>8, RedeemCustody, DistributeCustody DEF Next

\* A new market holds nothing and owes nothing.
LEMMA CustodyInit == Init => MarketCustody
<1> SUFFICES ASSUME Init PROVE MarketCustody
  OBVIOUS
<1>1. Total(balances, Users) = 0 /\ Total(pendingValidatorFees, Brains) = 0
      /\ Total(rewarded, Pools) = 0
  BY TotalZero DEF Init
<1>2. Total(wallet, Accounts) \in Nat
  BY MarketAssumption, CoinsFinite DEF Init
<1> QED BY <1>1, <1>2 DEF Init, MarketCustody

\* For every number of clients, brains and validators: the market holds what it
\* owes, the distributor what it recorded, and no BASED is created or stranded.
THEOREM MarketCustodyHolds == Spec => []MarketCustody
<1>1. Init => MarketCustody
  BY CustodyInit
<1>2. MarketTypeOK /\ MarketTypeOK' /\ MarketCustody /\ [Next]_vars => MarketCustody'
  BY CustodyStep
<1> QED BY <1>1, <1>2, MarketTypes, PTL DEF Spec

\* No withdrawal exceeds what the market holds while it has custody.
LEMMA CustodyPays == MarketTypeOK /\ MarketCustody => WithdrawalsNeverBlocked
<1> SUFFICES ASSUME MarketTypeOK, MarketCustody, NEW u \in Users
             PROVE  Payout(u) <= balances[u] /\ Payout(u) <= held
  BY DEF WithdrawalsNeverBlocked
<1>1. balances \in [Users -> Nat] /\ IsFiniteSet(Users) /\ held \in Nat
  BY MarketAssumption, FS_Subset DEF MarketTypeOK, Accounts
<1>2. balances[u] <= held
  BY <1>1, TotalAtLeast DEF MarketCustody
<1>3. Payout(u) \in Nat /\ Payout(u) <= balances[u]
  BY <1>1 DEF Payout, MarketTypeOK, Withdrawal
<1> QED BY <1>1, <1>2, <1>3

\* A withdrawal can always be paid: no client's balance exceeds what the market holds.
THEOREM MarketWithdrawalsNeverBlocked == Spec => []WithdrawalsNeverBlocked
BY CustodyPays, MarketTypes, MarketCustodyHolds, PTL

-----------------------------------------------------------------------------
(* The market: spending.                                                   *)

\* A pending withdrawal is ready one full delay after it was requested.
DelayKept ==
  \A u \in Users :
    pendingWithdrawals[u].readyAt # 0 =>
      pendingWithdrawals[u].readyAt = pendingWithdrawals[u].requestedAt + WITHDRAW_DELAY

\* No step shortens the delay of a withdrawal.
LEMMA DelayStep == MarketTypeOK /\ DelayKept /\ [Next]_vars => DelayKept'
<1> SUFFICES ASSUME MarketTypeOK, DelayKept, [Next]_vars PROVE DelayKept'
  OBVIOUS
<1>1. ASSUME UNCHANGED pendingWithdrawals PROVE DelayKept'
  BY <1>1 DEF DelayKept
<1>2. ASSUME NEW u \in Users, NEW w \in {NoWithdrawal} \cup
                {[amount |-> n, readyAt |-> ReadyAt, requestedAt |-> now] : n \in Amounts},
             pendingWithdrawals' = [pendingWithdrawals EXCEPT ![u] = w]
      PROVE  DelayKept'
  <2>1. w.readyAt # 0 => w.readyAt = w.requestedAt + WITHDRAW_DELAY
    BY <1>2 DEF NoWithdrawal, ReadyAt
  <2> QED BY <1>2, <2>1 DEF DelayKept, MarketTypeOK
<1>3. ASSUME NEW u \in Users, NEW amount \in Amounts, RequestWithdraw(u, amount)
      PROVE  DelayKept'
  BY <1>2, <1>3 DEF RequestWithdraw
<1>4. ASSUME NEW u \in Users, CancelWithdraw(u) \/ Withdraw(u) PROVE DelayKept'
  BY <1>2, <1>4 DEF CancelWithdraw, Withdraw
<1>5. ASSUME NEW u, NEW amount, Deposit(u, amount) PROVE DelayKept'
  BY <1>1, <1>5 DEF Deposit
<1>6. ASSUME NEW value, SetPaused(value) \/ SetMaxReservation(value) \/ SetPricing(value)
      PROVE  DelayKept'
  BY <1>1, <1>6 DEF SetPaused, SetMaxReservation, SetPricing, clientVars
<1>7. ASSUME NEW r, NEW sn, Redeem(r, sn) PROVE DelayKept'
  BY <1>1, <1>7 DEF Redeem
<1>8. ASSUME NEW b, NEW set, NEW stake, Distribute(b, set, stake) PROVE DelayKept'
  BY <1>1, <1>8 DEF Distribute, clientVars
<1>9. ASSUME NEW r, SignReceipt(r) PROVE DelayKept'
  BY <1>1, <1>9 DEF SignReceipt, marketVars, clientVars
<1>10. (Tick \/ UNCHANGED vars) => DelayKept'
  BY <1>1 DEF Tick, vars, marketVars, clientVars
<1> QED BY <1>3, <1>4, <1>5, <1>6, <1>7, <1>8, <1>9, <1>10 DEF Next

\* Every withdrawal that is ready has waited its delay.
LEMMA DelayIsKept == Spec => []DelayKept
<1>1. Init => DelayKept
  BY DEF Init, DelayKept, NoWithdrawal
<1> QED BY <1>1, DelayStep, MarketTypes, PTL DEF Spec

\* Only a withdrawal of that client and a redemption lower a client's balance.
LEMMA OnlySpends ==
  ASSUME MarketTypeOK, [Next]_vars, NEW u \in Users, balances'[u] < balances[u]
  PROVE  Withdraw(u) \/ \E r \in signed, sn \in Subnets : r.user = u /\ Redeem(r, sn)
<1>a. balances \in [Users -> Nat] /\ balances' # balances
  BY DEF MarketTypeOK
<1>1. ASSUME NEW w \in Users, NEW amount \in Amounts, Deposit(w, amount) PROVE FALSE
  <2>1. amount \in Nat /\ balances' = [balances EXCEPT ![w] = @ + amount]
    BY <1>1, MarketAssumption DEF Deposit
  <2> QED BY <1>a, <2>1
<1>2. ASSUME NEW w \in Users, Withdraw(w) PROVE Withdraw(u)
  <2>1. balances' = [balances EXCEPT ![w] = @ - Payout(w)]
    BY <1>2 DEF Withdraw
  <2>2. w = u
    BY <1>a, <2>1
  <2> QED BY <1>2, <2>2
<1>3. ASSUME NEW r \in signed, NEW sn \in Subnets, Redeem(r, sn) PROVE r.user = u
  <2>1. balances' = [balances EXCEPT ![r.user] = @ - r.amount]
    BY <1>3 DEF Redeem
  <2> QED BY <1>a, <2>1
<1>4. ASSUME NEW value, SetPaused(value) \/ SetMaxReservation(value) \/ SetPricing(value)
      PROVE  FALSE
  BY <1>a, <1>4 DEF SetPaused, SetMaxReservation, SetPricing, clientVars
<1>5. ASSUME NEW w, NEW amount, RequestWithdraw(w, amount) \/ CancelWithdraw(w) PROVE FALSE
  BY <1>a, <1>5 DEF RequestWithdraw, CancelWithdraw
<1>6. ASSUME NEW b, NEW set, NEW stake, Distribute(b, set, stake) PROVE FALSE
  BY <1>a, <1>6 DEF Distribute, clientVars
<1>7. ASSUME NEW r, SignReceipt(r) PROVE FALSE
  BY <1>a, <1>7 DEF SignReceipt, marketVars, clientVars
<1>8. ~ Tick /\ ~ UNCHANGED vars
  BY <1>a DEF Tick, vars, marketVars, clientVars
<1> QED BY <1>1, <1>2, <1>3, <1>4, <1>5, <1>6, <1>7, <1>8 DEF Next

\* What SpendsOnlySigned says of a step.
SpendStep ==
  \A u \in Users : balances'[u] < balances[u] =>
       \/ /\ usedNonces' = usedNonces
          /\ now >= pendingWithdrawals[u].requestedAt + WITHDRAW_DELAY
          /\ wallet'[u] - wallet[u] = balances[u] - balances'[u]
       \/ \E r \in signed :
            /\ r.user = u /\ now <= r.expiry
            /\ <<u, r.nonce>> \in usedNonces' \ usedNonces
            /\ balances[u] - balances'[u] = r.amount

\* What CollateralStays says of a step.
CollateralStep ==
  \A u \in Users :
       balances'[u] < balances[u] /\ usedNonces' = usedNonces =>
         \A r \in Outstanding(u) : r.signedAt > pendingWithdrawals[u].requestedAt

\* Every step takes from a client only what it signed or withdraws.
LEMMA EveryStepSpends == MarketTypeOK /\ DelayKept /\ [Next]_vars => SpendStep
<1> SUFFICES ASSUME MarketTypeOK, DelayKept, [Next]_vars,
                    NEW u \in Users, balances'[u] < balances[u]
             PROVE  \/ /\ usedNonces' = usedNonces
                       /\ now >= pendingWithdrawals[u].requestedAt + WITHDRAW_DELAY
                       /\ wallet'[u] - wallet[u] = balances[u] - balances'[u]
                    \/ \E r \in signed :
                         /\ r.user = u /\ now <= r.expiry
                         /\ <<u, r.nonce>> \in usedNonces' \ usedNonces
                         /\ balances[u] - balances'[u] = r.amount
  BY DEF SpendStep
<1>1. balances \in [Users -> Nat] /\ wallet \in [Accounts -> Nat] /\ u \in Accounts
  BY DEF MarketTypeOK, Accounts
<1>2. CASE Withdraw(u)
  <2>1. Payout(u) \in Nat
    BY DEF Payout, MarketTypeOK, Withdrawal
  <2>2. balances'[u] = balances[u] - Payout(u) /\ wallet'[u] = wallet[u] + Payout(u)
    BY <1>1, <1>2, <2>1 DEF Withdraw
  <2>3. now >= pendingWithdrawals[u].requestedAt + WITHDRAW_DELAY /\ usedNonces' = usedNonces
    BY <1>2 DEF Withdraw, DelayKept
  <2> QED BY <1>1, <2>1, <2>2, <2>3
<1>3. ASSUME NEW r \in signed, NEW sn \in Subnets, r.user = u, Redeem(r, sn)
      PROVE  /\ r.user = u /\ now <= r.expiry
             /\ <<u, r.nonce>> \in usedNonces' \ usedNonces
             /\ balances[u] - balances'[u] = r.amount
  <2>1. r.amount \in Nat
    BY MarketAssumption DEF MarketTypeOK, Receipts
  <2>2. balances'[u] = balances[u] - r.amount
    BY <1>1, <1>3 DEF Redeem
  <2>3. now <= r.expiry /\ <<u, r.nonce>> \in usedNonces' \ usedNonces
    BY <1>3 DEF Redeem, Redeemable, Unused
  <2> QED BY <1>1, <1>3, <2>1, <2>2, <2>3
<1> QED BY <1>2, <1>3, OnlySpends

\* A client is charged only for receipts of its own with a fresh nonce, or by a
\* withdrawal of its own whose delay is over and which it receives in full.
THEOREM MarketSpendsOnlySigned == Spec => SpendsOnlySigned
<1>1. MarketTypeOK /\ DelayKept /\ [Next]_vars => [SpendStep]_vars
  BY EveryStepSpends
<1> QED BY <1>1, MarketTypes, DelayIsKept, PTL DEF Spec, SpendsOnlySigned, SpendStep

\* Every step leaves the collateral of the receipts signed before.
LEMMA EveryStepCollateral == MarketTypeOK /\ DelayKept /\ [Next]_vars => CollateralStep
<1> SUFFICES ASSUME MarketTypeOK, DelayKept, [Next]_vars,
                    NEW u \in Users, balances'[u] < balances[u], usedNonces' = usedNonces,
                    NEW r \in Outstanding(u)
             PROVE  r.signedAt > pendingWithdrawals[u].requestedAt
  BY DEF CollateralStep
<1>1. Withdraw(u)
  BY OnlySpends DEF Redeem, Redeemable, Unused
<1>2. now >= pendingWithdrawals[u].requestedAt + WITHDRAW_DELAY
  BY <1>1 DEF Withdraw, DelayKept
<1>3. r.expiry > now /\ r.expiry <= r.signedAt + MAX_RECEIPT_LIFETIME
      /\ r.expiry \in Nat /\ r.signedAt \in Nat
  BY DEF Outstanding, MarketTypeOK, Receipts
<1>4. pendingWithdrawals[u].requestedAt \in Nat /\ now \in Nat
      /\ MAX_RECEIPT_LIFETIME \in 0 .. WITHDRAW_DELAY /\ WITHDRAW_DELAY \in Nat
  BY MarketAssumption DEF MarketTypeOK, Withdrawal
<1> QED BY <1>2, <1>3, <1>4

\* The collateral of a receipt stays in the market against every withdrawal
\* requested after it was signed.
THEOREM MarketCollateralStays == Spec => CollateralStays
<1>1. MarketTypeOK /\ DelayKept /\ [Next]_vars => [CollateralStep]_vars
  BY EveryStepCollateral
<1> QED BY <1>1, MarketTypes, DelayIsKept, PTL DEF Spec, CollateralStays, CollateralStep

-----------------------------------------------------------------------------
(* The market: what a distribution pays.                                   *)

\* A share is the validator's part by stake, rounded down: what rounding leaves is
\* less than one unit of the stake that shares, and nothing without stake.
LEMMA ShareIsFloor ==
  ASSUME NEW fees \in Nat, NEW set \in ValidatorSets, NEW stake \in Stakes, NEW v \in set,
         StakeOfRegistered(set, stake) # 0
  PROVE  LET S == StakeOfRegistered(set, stake)
             share == Share(fees, set, stake, v)
         IN /\ S \in Nat \ {0} /\ share \in Nat /\ stake[v] \in Nat /\ S * share \in Nat
            /\ fees * stake[v] \in Nat
            /\ S * share <= fees * stake[v]
            /\ fees * stake[v] - S * share <= (S - 1) * (IF stake[v] > 0 THEN 1 ELSE 0)
<1> DEFINE S == StakeOfRegistered(set, stake)
           w == fees * stake[v]
           share == Share(fees, set, stake, v)
<1>1. set \subseteq Validators /\ IsFiniteSet(set) /\ \A x \in set : stake[x] \in Nat
  BY MarketAssumption, FS_Subset
<1>2. S \in Nat \ {0}
  BY <1>1, CoinsFinite DEF StakeOfRegistered
<1>3. stake[v] \in Nat /\ w \in Nat
  BY <1>1
<1>4. share = w \div S
  BY DEF Share
<1> HIDE DEF S, share, w
<1>5. share \in Nat /\ share * S <= w /\ w < share * S + S
  BY <1>2, <1>3, <1>4, FloorDivision
<1>6. share * S = S * share /\ S * share \in Nat
  BY <1>2, <1>5
<1>7. CASE stake[v] > 0
  <2>1. w - S * share <= S - 1
    BY <1>2, <1>3, <1>5, <1>6
  <2> QED BY <1>2, <1>3, <1>5, <1>6, <1>7, <2>1 DEF S, share, w
<1>8. CASE ~ (stake[v] > 0)
  <2>1. w = 0
    BY <1>3, <1>8 DEF w
  <2>2. S * share = 0
    BY <1>3, <1>5, <1>6, <2>1
  <2>3. w - S * share <= (S - 1) * 0
    BY <1>2, <2>1, <2>2
  <2> QED BY <1>2, <1>3, <1>5, <1>6, <1>8, <2>3 DEF S, share, w
<1> QED BY <1>7, <1>8

\* What a quantity of units of S falls short of n of them.
LEMMA FewerThan ==
  ASSUME NEW d \in Int, NEW n \in Nat \ {0}, NEW S \in Nat \ {0}, S * d <= (S - 1) * n
  PROVE  d < n
<1> SUFFICES ASSUME d >= n PROVE FALSE
  OBVIOUS
<1>1. PICK e \in Nat : d = n + e
  <2>1. d - n \in Nat /\ d = n + (d - n)
    OBVIOUS
  <2> QED BY <2>1
<1>2. S * d = S * n + S * e /\ S * e \in Nat
  BY <1>1
<1>3. (S - 1) * n = S * n - n
  OBVIOUS
<1> QED BY <1>2, <1>3

\* The shares leave less than one unit for each validator with stake.
LEMMA DustIsBounded ==
  ASSUME NEW fees \in Nat, NEW set \in ValidatorSets, NEW stake \in Stakes,
         StakeOfRegistered(set, stake) # 0
  PROVE  LET shares == [v \in set |-> Share(fees, set, stake, v)]
         IN  fees - Total(shares, set) < Cardinality({v \in set : stake[v] > 0})
<1> DEFINE S == StakeOfRegistered(set, stake)
           shares == [v \in set |-> Share(fees, set, stake, v)]
           weight == [v \in set |-> fees * stake[v]]
           paid   == [v \in set |-> S * shares[v]]
           left   == [v \in set |-> weight[v] - paid[v]]
           one    == [v \in set |-> IF stake[v] > 0 THEN 1 ELSE 0]
           cap    == [v \in set |-> (S - 1) * one[v]]
           active == {v \in set : stake[v] > 0}
<1>1. IsFiniteSet(set) /\ \A v \in set : stake[v] \in Nat
  BY MarketAssumption, FS_Subset
<1>2. S \in Nat \ {0} /\ S = Total(stake, set)
  BY <1>1, CoinsFinite DEF StakeOfRegistered
<1>3. \A v \in set : /\ shares[v] \in Nat /\ weight[v] \in Nat /\ paid[v] \in Nat
                     /\ paid[v] <= weight[v] /\ weight[v] - paid[v] <= cap[v]
  BY ShareIsFloor
<1>4. \A v \in set : one[v] \in Nat /\ cap[v] \in Nat
  BY <1>2
<1>5. \A v \in set : left[v] \in Nat /\ weight[v] = paid[v] + left[v] /\ left[v] <= cap[v]
  BY <1>3
<1>6. Total(weight, set) = fees * S
  BY <1>1, <1>2, TotalScale
<1>7. Total(paid, set) = S * Total(shares, set)
  <2> HIDE DEF shares
  <2> QED BY <1>1, <1>2, <1>3, TotalScale
<1>8. Total(cap, set) = (S - 1) * Total(one, set)
  <2>1. S - 1 \in Nat
    BY <1>2
  <2> HIDE DEF one, S
  <2> QED BY <1>1, <1>4, <2>1, TotalScale
<1>9. Total(one, set) = Cardinality(active)
  <2>1. Total(one, set) = Total(one, active) + Total(one, set \ active)
    <3>1. active \in SUBSET set
      OBVIOUS
    <3> HIDE DEF one, active
    <3> QED BY <1>1, <1>4, <3>1, TotalParts
  <2>2. IsFiniteSet(active) /\ \A v \in active : one[v] = 1
    BY <1>1, FS_Subset
  <2>3. Total(one, active) = Cardinality(active)
    BY <2>2, TotalOnes
  <2>4. Total(one, set \ active) = 0
    BY TotalZero
  <2>5. Cardinality(active) \in Nat
    BY <2>2, FS_CardinalityType
  <2> QED BY <2>1, <2>3, <2>4, <2>5
<1>10. Cardinality(active) \in Nat \ {0}
  <2>1. IsFiniteSet(active)
    BY <1>1, FS_Subset
  <2>2. active # {}
    <3> SUFFICES ASSUME active = {} PROVE FALSE
      OBVIOUS
    <3>1. \A v \in set : stake[v] = 0
      BY <1>1
    <3> QED BY <1>2, <3>1, TotalZero
  <2> QED BY <2>1, <2>2, FS_EmptySet, FS_CardinalityType
<1> HIDE DEF shares, paid, weight, left, one, cap, active, S
<1>11. Total(weight, set) = Total(paid, set) + Total(left, set)
  BY <1>1, <1>3, <1>5, TotalSum
<1>12. Total(left, set) <= Total(cap, set)
  BY <1>1, <1>4, <1>5, TotalPointwise
<1>13. Total(shares, set) \in Nat /\ Total(left, set) \in Nat
  BY <1>1, <1>3, <1>5, CoinsFinite
<1>14. S * (fees - Total(shares, set)) = fees * S - S * Total(shares, set)
  BY <1>2, <1>13
<1>15. S * (fees - Total(shares, set)) <= (S - 1) * Cardinality(active)
  BY <1>2, <1>6, <1>7, <1>8, <1>9, <1>10, <1>11, <1>12, <1>13, <1>14
<1>16. fees - Total(shares, set) \in Int
  BY <1>13
<1>17. fees - Total(shares, set) < Cardinality(active)
  BY <1>2, <1>10, <1>15, <1>16, FewerThan
<1> QED BY <1>17 DEF shares, active

\* The shares of a distribution lie in the pools of one brain.
LEMMA SharesOfOneBrain ==
  ASSUME NEW fees \in Nat, NEW b \in Brains, NEW set \in ValidatorSets, NEW stake \in Stakes,
         StakeOfRegistered(set, stake) # 0
  PROVE  Total([k \in Pools |-> IF k[1] = b THEN Share(fees, set, stake, k[2]) ELSE 0], Pools)
           = Total([v \in set |-> Share(fees, set, stake, v)], set)
<1> DEFINE shares == [k \in Pools |-> IF k[1] = b THEN Share(fees, set, stake, k[2]) ELSE 0]
           part   == [v \in set |-> Share(fees, set, stake, v)]
           own    == {b} \X set
           pool   == [v \in set |-> <<b, v>>]
<1>1. set \subseteq Validators /\ IsFiniteSet(set)
  BY MarketAssumption, FS_Subset
<1>2. \A k \in Pools : shares[k] \in Nat
  BY ShareTyped DEF Pools
<1>3. own \in SUBSET Pools
  BY <1>1 DEF Pools
<1>4. \A k \in Pools \ own : shares[k] = 0
  BY DEF Share, Pools
<1>5. pool \in Bijection(set, own)
  <2>1. pool \in [set -> own] /\ \A k \in own : \E v \in set : pool[v] = k
    OBVIOUS
  <2>2. \A v, w \in set : pool[v] = pool[w] => v = w
    OBVIOUS
  <2> HIDE DEF pool, own
  <2> QED BY <2>1, <2>2 DEF Bijection, Injection, IsInjective, Surjection
<1>6. \A v \in set : part[v] \in Nat /\ shares[pool[v]] = part[v]
  BY <1>1, ShareTyped DEF Pools
<1> HIDE DEF shares, part, own, pool
<1>7. Total(shares, own) = Total(part, set)
  BY <1>1, <1>5, <1>6, TotalRename
<1>8. Total(shares, Pools) = Total(shares, own) + Total(shares, Pools \ own)
  BY <1>2, <1>3, PoolsFinite, TotalParts
<1>9. Total(shares, Pools \ own) = 0
  BY <1>4, TotalZero
<1>10. Total(part, set) \in Nat
  BY <1>1, <1>6, CoinsFinite
<1>11. Total(shares, Pools) = Total(part, set)
  BY <1>7, <1>8, <1>9, <1>10
<1> QED BY <1>11 DEF shares, part

\* What a step may do to the fees of a brain.
ProportionalStep ==
  \A b \in Brains :
    LET fees    == pendingValidatorFees[b]
        gain(v) == rewarded'[<<b, v>>] - rewarded[<<b, v>>]
    IN pendingValidatorFees'[b] < fees =>
         \E set \in ValidatorSets, stake \in Stakes :
           /\ \A v \in Validators \ set : gain(v) = 0
           /\ \A v \in set : gain(v) * Total(stake, set) <= fees * stake[v]
           /\ pendingValidatorFees'[b] < Cardinality({v \in set : stake[v] > 0})

\* A distribution is by stake, and leaves other brains' fees alone.
LEMMA DistributeIsProportional ==
  ASSUME MarketTypeOK, NEW c \in Brains, NEW set \in ValidatorSets, NEW stake \in Stakes,
         Distribute(c, set, stake)
  PROVE  ProportionalStep
<1> DEFINE fees   == pendingValidatorFees[c]
           shares == [k \in Pools |-> IF k[1] = c THEN Share(fees, set, stake, k[2]) ELSE 0]
           part   == [v \in set |-> Share(fees, set, stake, v)]
<1>1. pendingValidatorFees \in [Brains -> Nat] /\ rewarded \in [Pools -> Nat] /\ fees \in Nat
  BY DEF MarketTypeOK
<1>2. /\ StakeOfRegistered(set, stake) # 0
      /\ pendingValidatorFees' = [pendingValidatorFees EXCEPT ![c] = fees - Total(shares, Pools)]
      /\ rewarded' = [k \in Pools |-> rewarded[k] + shares[k]]
  BY DEF Distribute
<1>3. Total(shares, Pools) = Total(part, set)
  BY <1>1, <1>2, SharesOfOneBrain
<1>4. fees - Total(part, set) < Cardinality({v \in set : stake[v] > 0})
  BY <1>1, <1>2, DustIsBounded
<1>5. pendingValidatorFees'[c] < Cardinality({v \in set : stake[v] > 0})
  BY <1>1, <1>2, <1>3, <1>4
<1>6. set \subseteq Validators
  BY MarketAssumption
<1>7. \A v \in Validators : rewarded'[<<c, v>>] = rewarded[<<c, v>>] + Share(fees, set, stake, v)
  <2> TAKE v \in Validators
  <2>1. <<c, v>> \in Pools /\ shares[<<c, v>>] = Share(fees, set, stake, v)
    BY DEF Pools
  <2> HIDE DEF shares
  <2> QED BY <1>2, <2>1
<1>8. \A v \in Validators : /\ Share(fees, set, stake, v) \in Nat
                            /\ rewarded[<<c, v>>] \in Nat
  BY <1>1, <1>2, ShareTyped DEF Pools
<1>9. \A v \in Validators \ set : rewarded'[<<c, v>>] - rewarded[<<c, v>>] = 0
  <2>1. \A v \in Validators \ set : Share(fees, set, stake, v) = 0
    BY DEF Share
  <2> QED BY <1>7, <1>8, <2>1
<1>10. \A v \in set : (rewarded'[<<c, v>>] - rewarded[<<c, v>>]) * Total(stake, set)
                        <= fees * stake[v]
  <2> TAKE v \in set
  <2>1. rewarded'[<<c, v>>] - rewarded[<<c, v>>] = Share(fees, set, stake, v)
    BY <1>6, <1>7, <1>8
  <2> DEFINE S == Total(stake, set)
             share == Share(fees, set, stake, v)
  <2>2. S \in Nat \ {0} /\ share \in Nat /\ S * share <= fees * stake[v]
    BY <1>1, <1>2, ShareIsFloor DEF StakeOfRegistered
  <2> HIDE DEF S, share
  <2>3. share * S = S * share
    BY <2>2
  <2> QED BY <2>1, <2>2, <2>3 DEF S, share
<1>11. \A b \in Brains \ {c} : pendingValidatorFees'[b] = pendingValidatorFees[b]
  BY <1>1, <1>2
<1> HIDE DEF fees
<1> SUFFICES ASSUME NEW b \in Brains, pendingValidatorFees'[b] < pendingValidatorFees[b]
             PROVE  \E w \in ValidatorSets, s \in Stakes :
                      /\ \A v \in Validators \ w : rewarded'[<<b, v>>] - rewarded[<<b, v>>] = 0
                      /\ \A v \in w : (rewarded'[<<b, v>>] - rewarded[<<b, v>>]) * Total(s, w)
                                        <= pendingValidatorFees[b] * s[v]
                      /\ pendingValidatorFees'[b] < Cardinality({v \in w : s[v] > 0})
  BY DEF ProportionalStep
<1>12. b = c
  BY <1>1, <1>11
<1> QED BY <1>5, <1>9, <1>10, <1>12 DEF fees

\* No other step takes from the fees that wait for distribution.
LEMMA EveryStepIsProportional == MarketTypeOK /\ [Next]_vars => ProportionalStep
<1> SUFFICES ASSUME MarketTypeOK, [Next]_vars PROVE ProportionalStep
  OBVIOUS
<1>1. pendingValidatorFees \in [Brains -> Nat] /\ pendingValidatorFees' \in [Brains -> Nat]
  BY NextMarketTypeOK DEF MarketTypeOK
<1>2. ASSUME \A b \in Brains : pendingValidatorFees'[b] >= pendingValidatorFees[b]
      PROVE  ProportionalStep
  <2>1. \A b \in Brains : ~ (pendingValidatorFees'[b] < pendingValidatorFees[b])
    <3> TAKE b \in Brains
    <3>1. pendingValidatorFees[b] \in Nat /\ pendingValidatorFees'[b] \in Nat
      BY <1>1
    <3> QED BY <1>2, <3>1
  <2> QED BY <2>1, Zenon DEF ProportionalStep
<1>3. ASSUME UNCHANGED feeVars PROVE ProportionalStep
  BY <1>1, <1>2, <1>3 DEF feeVars
<1>4. ASSUME NEW r \in Receipts, NEW sn \in Subnets, Redeem(r, sn) PROVE ProportionalStep
  <2>1. ValidatorAmount(sn, r.amount) \in Nat /\ r.brain \in Brains
    BY MarketAssumption, SplitExact DEF Receipts
  <2>2. pendingValidatorFees' =
          [pendingValidatorFees EXCEPT ![r.brain] = @ + ValidatorAmount(sn, r.amount)]
    BY <1>4 DEF Redeem
  <2>3. \A b \in Brains : pendingValidatorFees'[b] >= pendingValidatorFees[b]
    BY <1>1, <2>1, <2>2
  <2> QED BY <1>2, <2>3
<1>5. ASSUME NEW value, SetPaused(value) \/ SetMaxReservation(value) \/ SetPricing(value)
      PROVE  ProportionalStep
  BY <1>3, <1>5 DEF SetPaused, SetMaxReservation, SetPricing
<1>6. ASSUME NEW u \in Users, NEW amount,
             \/ Deposit(u, amount) \/ RequestWithdraw(u, amount)
             \/ CancelWithdraw(u) \/ Withdraw(u)
      PROVE  ProportionalStep
  BY <1>3, <1>6 DEF Deposit, RequestWithdraw, CancelWithdraw, Withdraw
<1>7. ASSUME NEW r, SignReceipt(r) PROVE ProportionalStep
  BY <1>3, <1>7 DEF SignReceipt, marketVars
<1>8. CASE Tick
  BY <1>3, <1>8 DEF Tick, marketVars
<1>9. CASE UNCHANGED vars
  BY <1>3, <1>9 DEF vars, marketVars
<1>10. signed \subseteq Receipts
  BY DEF MarketTypeOK
<1> QED BY <1>4, <1>5, <1>6, <1>7, <1>8, <1>9, <1>10, DistributeIsProportional DEF Next

\* Validators are paid by stake, and less than one unit for each of them that has
\* stake is carried forward.
THEOREM MarketDistributionIsProportional == Spec => DistributionIsProportional
<1>1. MarketTypeOK /\ [Next]_vars => [ProportionalStep]_vars
  BY EveryStepIsProportional
<1> QED BY <1>1, MarketTypes, PTL DEF Spec, DistributionIsProportional, ProportionalStep

-----------------------------------------------------------------------------
(* Serving: the inductive invariant.                                       *)

Reply == [kind : {"none", "error"}]
           \cup [kind : {"answer"}, size : Sizes, finals : SUBSET Receipts]

ServingTypes ==
  /\ MarketTypeOK /\ now \in 0 .. MaxTime
  /\ req \in [Nonces -> {Idle} \cup Request]
  /\ job \in [Nonces -> {"none", "requested", "generating", "over"}]
  /\ reply \in [Nonces -> Reply]
  /\ settle \subseteq signed
  /\ pending \cup mempool \subseteq {r \in signed : r.miner \in Honest}
  /\ lost \subseteq Nonces
  /\ restarts \in 0 .. MaxRestarts

\* A handler runs once: it answers when it is over, and only then is a text checked.
HandlersInOrder ==
  \A n \in Nonces :
    /\ req[n] = Idle <=> job[n] = "none"
    /\ job[n] = "generating" => req[n].preauth.miner \in Honest
    /\ reply[n].kind # "none" => job[n] = "over"
    /\ req[n].pc = "done" => job[n] = "over"

RequestsAreSigned ==
  \A n \in Nonces : req[n] # Idle =>
    /\ req[n].preauth \in signed /\ req[n].preauth.nonce = n
    /\ req[n].preauth.amount <= req[n].budget

\* What a client has signed under a nonce is for the request of that nonce, and
\* exceeds the reservation only if the text has come.
SignedForRequest ==
  \A r \in signed :
    LET q == req[r.nonce]
    IN /\ q # Idle
       /\ r.user = q.preauth.user
       /\ r.amount <= q.budget
       /\ q.pc = "done" \/ r.amount <= q.preauth.amount

\* No receipt travels to the chain before its handler is over.
QueuedIsOver == \A s \in settle \cup pending \cup mempool : job[s.nonce] = "over"

Payable(n) ==
  \/ \E s \in pending \cup mempool : SameRequest(req[n].preauth, s)
  \/ <<req[n].preauth.user, n>> \in usedNonces

\* The miner is secured when it answers, before the client has checked the text.
AnsweredIsPayable ==
  \A n \in Nonces :
    (reply[n].kind = "answer" \/ req[n].pc = "done") /\ restarts = 0 /\ n \notin lost
      /\ req[n].preauth.miner \in Honest => Payable(n)

\* The allowances of the requests that were paid.
UsedAllowance(u) ==
  [n \in Nonces |-> IF <<u, n>> \in usedNonces THEN Allowance(u)[n] ELSE 0]

\* All that u has paid is covered by the allowances of the nonces that were used.
PaidIsAllowed ==
  \A u \in Users :
    wallet[u] + balances[u] + Total(UsedAllowance(u), Nonces) >= Wealth[u]

ServingInv ==
  /\ ServingTypes /\ HandlersInOrder /\ RequestsAreSigned /\ SignedForRequest
  /\ QueuedIsOver /\ OneReceiptPerRequest /\ AnsweredIsPayable /\ PaidIsAllowed

-----------------------------------------------------------------------------
(* Serving: what the steps have in common.                                 *)

\* The fields of a request.
LEMMA RequestFields ==
  ASSUME NEW q \in Request
  PROVE  /\ q.pc \in {"waiting", "done", "failed"}
         /\ q.budget \in Budgets /\ q.budget \in Nat
         /\ q.preauth \in Receipts /\ q.preauth.user \in Users
         /\ q.preauth.amount \in Amounts /\ q.preauth.amount \in Nat
<1>1. /\ q.pc \in {"waiting", "done", "failed"}
      /\ q.budget \in Budgets /\ q.preauth \in Receipts
  BY DEF Request
<1>2. q.preauth.amount \in Amounts /\ q.preauth.user \in Users
  BY <1>1 DEF Receipts
<1> QED BY <1>1, <1>2, MarketAssumption, ServingAssumption

\* A request that was made is a request.
LEMMA Requested ==
  ASSUME ServingTypes, NEW n \in Nonces, req[n] # Idle
  PROVE  req[n] \in Request
BY DEF ServingTypes

\* The market's variables keep their types when clients sign receipts.
LEMMA SigningTyped ==
  ASSUME MarketTypeOK, UNCHANGED <<now, marketVars>>, signed' \subseteq Receipts
  PROVE  MarketTypeOK'
BY DEF MarketTypeOK, marketVars, adminVars, clientVars, feeVars

\* An allowance is an amount.
LEMMA AllowanceTyped ==
  ASSUME ServingTypes, NEW u, NEW n \in Nonces
  PROVE  Allowance(u)[n] \in Nat /\ UsedAllowance(u)[n] \in Nat
<1>1. Allowance(u)[n] \in Nat
  BY RequestFields, Requested DEF Allowance
<1> QED BY <1>1 DEF UsedAllowance

\* A step that takes nothing from u and lowers no allowance keeps u within them.
LEMMA AllowanceGrows ==
  ASSUME ServingTypes, ServingTypes', PaidIsAllowed, NEW u \in Users,
         usedNonces \subseteq usedNonces',
         \A n \in Nonces : Allowance(u)[n] <= Allowance(u)'[n],
         wallet'[u] + balances'[u] >= wallet[u] + balances[u]
  PROVE  wallet'[u] + balances'[u] + Total(UsedAllowance(u)', Nonces) >= Wealth[u]
<1> DEFINE f == UsedAllowance(u)
           g == UsedAllowance(u)'
<1>1. \A n \in Nonces : f[n] \in Nat /\ g[n] \in Nat /\ f[n] <= g[n]
  <2> SUFFICES ASSUME NEW n \in Nonces PROVE f[n] \in Nat /\ g[n] \in Nat /\ f[n] <= g[n]
    OBVIOUS
  <2>1. Allowance(u)[n] \in Nat /\ f[n] \in Nat
    BY AllowanceTyped
  <2>2. Allowance(u)'[n] \in Nat /\ g[n] \in Nat
    <3>1. req'[n] = Idle \/ req'[n] \in Request
      BY DEF ServingTypes
    <3>2. Allowance(u)'[n] \in Nat
      BY <3>1, RequestFields DEF Allowance
    <3> QED BY <3>2 DEF UsedAllowance
  <2> QED BY <2>1, <2>2 DEF UsedAllowance
<1> HIDE DEF f, g
<1>2. Total(f, Nonces) \in Nat /\ Total(g, Nonces) \in Nat /\ Total(f, Nonces) <= Total(g, Nonces)
  BY <1>1, ServingAssumption, CoinsFinite, TotalPointwise
<1>3. wallet[u] + balances[u] + Total(f, Nonces) >= Wealth[u]
  BY DEF PaidIsAllowed, f
<1>4. /\ wallet[u] \in Nat /\ balances[u] \in Nat /\ wallet'[u] \in Nat /\ balances'[u] \in Nat
      /\ Wealth[u] \in Nat
  BY MarketAssumption DEF ServingTypes, MarketTypeOK, Accounts
<1>5. wallet'[u] + balances'[u] + Total(g, Nonces) >= Wealth[u]
  BY <1>2, <1>3, <1>4
<1> QED BY <1>5 DEF g

\* A step that leaves the market and the requests alone keeps what is said of them.
LEMMA RequestsKept ==
  ASSUME ServingInv, UNCHANGED <<vars, req>>
  PROVE  MarketTypeOK' /\ RequestsAreSigned' /\ SignedForRequest' /\ PaidIsAllowed'
<1>1. /\ signed' = signed /\ usedNonces' = usedNonces /\ wallet' = wallet
      /\ balances' = balances /\ req' = req /\ UNCHANGED <<now, marketVars>>
  BY DEF vars, marketVars, clientVars
<1>2. MarketTypeOK'
  BY <1>1, SigningTyped DEF ServingInv, ServingTypes, MarketTypeOK
<1>3. RequestsAreSigned' /\ SignedForRequest'
  BY <1>1 DEF ServingInv, RequestsAreSigned, SignedForRequest
<1>4. ASSUME NEW u \in Users PROVE UsedAllowance(u)' = UsedAllowance(u)
  BY <1>1 DEF UsedAllowance, Allowance
<1>5. PaidIsAllowed'
  BY <1>1, <1>4 DEF ServingInv, PaidIsAllowed
<1> QED BY <1>2, <1>3, <1>5

\* A receipt that is queued or sent stays so, or another of its request does.
LEMMA PayableKept ==
  ASSUME NEW n, Payable(n), req'[n].preauth = req[n].preauth,
         usedNonces \subseteq usedNonces',
         \A s \in pending \cup mempool :
           \E t \in pending' \cup mempool' : SameRequest(s, t)
  PROVE  Payable(n)'
<1>1. CASE <<req[n].preauth.user, n>> \in usedNonces
  BY <1>1 DEF Payable
<1>2. ASSUME NEW s \in pending \cup mempool, SameRequest(req[n].preauth, s)
      PROVE  Payable(n)'
  <2>1. PICK t \in pending' \cup mempool' : SameRequest(s, t)
    OBVIOUS
  <2>2. SameRequest(req'[n].preauth, t)
    BY <1>2, <2>1 DEF SameRequest
  <2> QED BY <2>2 DEF Payable, SameRequest
<1> QED BY <1>1, <1>2 DEF Payable

\* The calls of Market that Serving makes on its own pay for no receipt and take
\* nothing from a client.
LEMMA MarketStepFacts ==
  ASSUME MarketTypeOK, MarketStep
  PROVE  /\ Next /\ UNCHANGED <<usedNonces, signed, clientState, minerState>>
         /\ now \in 0 .. MaxTime => now' \in 0 .. MaxTime
         /\ \A u \in Users : wallet'[u] + balances'[u] = wallet[u] + balances[u]
<1>0. /\ balances \in [Users -> Nat] /\ wallet \in [Accounts -> Nat]
      /\ Users \subseteq Accounts /\ \A amount \in Amounts : amount \in Nat
  BY MarketAssumption DEF MarketTypeOK, Accounts
<1>1. UNCHANGED <<clientState, minerState>>
  BY DEF MarketStep
<1>2. ASSUME NEW value \in Prices, SetPricing(value)
      PROVE  Next /\ UNCHANGED <<usedNonces, signed, wallet, balances>>
  BY <1>2 DEF SetPricing, clientVars, Next
<1>3. ASSUME NEW u \in Users, NEW amount \in Amounts, Deposit(u, amount)
      PROVE  /\ Next /\ UNCHANGED <<usedNonces, signed>>
             /\ \A x \in Users : wallet'[x] + balances'[x] = wallet[x] + balances[x]
  <2>1. /\ wallet' = [wallet EXCEPT ![u] = @ - amount]
        /\ balances' = [balances EXCEPT ![u] = @ + amount]
        /\ UNCHANGED <<usedNonces, signed>>
    BY <1>3 DEF Deposit
  <2>2. Next
    BY <1>3 DEF Next
  <2> QED BY <1>0, <2>1, <2>2
<1>4. ASSUME NEW u \in Users, NEW amount \in Amounts, RequestWithdraw(u, amount)
      PROVE  Next /\ UNCHANGED <<usedNonces, signed, wallet, balances>>
  BY <1>4 DEF RequestWithdraw, Next
<1>5. ASSUME NEW u \in Users, CancelWithdraw(u)
      PROVE  Next /\ UNCHANGED <<usedNonces, signed, wallet, balances>>
  BY <1>5 DEF CancelWithdraw, Next
<1>6. ASSUME NEW u \in Users, Withdraw(u)
      PROVE  /\ Next /\ UNCHANGED <<usedNonces, signed>>
             /\ \A x \in Users : wallet'[x] + balances'[x] = wallet[x] + balances[x]
  <2>1. /\ wallet' = [wallet EXCEPT ![u] = @ + Payout(u)]
        /\ balances' = [balances EXCEPT ![u] = @ - Payout(u)]
        /\ UNCHANGED <<usedNonces, signed>>
    BY <1>6 DEF Withdraw
  <2>2. Payout(u) \in Nat
    BY DEF Payout, MarketTypeOK, Withdrawal
  <2>3. Next
    BY <1>6 DEF Next
  <2> QED BY <1>0, <2>1, <2>2, <2>3
<1>7. Tick => Next /\ UNCHANGED <<usedNonces, signed, wallet, balances>>
  BY DEF Tick, marketVars, clientVars, Next
<1>8. now' = now \/ (now < MaxTime /\ now' = now + 1)
  BY DEF MarketStep, SetPricing, Deposit, RequestWithdraw, CancelWithdraw, Withdraw, Tick
<1>9. now \in 0 .. MaxTime => now' \in 0 .. MaxTime
  BY <1>8, MarketAssumption
<1> QED BY <1>1, <1>2, <1>3, <1>4, <1>5, <1>6, <1>7, <1>9 DEF MarketStep

-----------------------------------------------------------------------------
(* Serving: the client's steps.                                            *)

\* A new request: its nonce is in no queue, and its receipt is the first under it.
LEMMA InferStep ==
  ASSUME ServingInv, NEW n \in Nonces, NEW u \in Users, NEW m \in Miners, NEW b \in Brains,
         NEW budget \in Budgets, NEW asked \in Asked, Infer(n, u, m, b, budget, asked)
  PROVE  ServingInv'
<1> DEFINE preauth == [user |-> u, miner |-> m, brain |-> b, preauth |-> TRUE,
                       amount |-> Reservation(budget, asked),
                       expiry |-> now + RECEIPT_LIFETIME, nonce |-> n, signedAt |-> now]
           q == [pc |-> "waiting", budget |-> budget, preauth |-> preauth]
<1>0. /\ req[n] = Idle /\ preauth.expiry <= MaxTime
      /\ req' = [req EXCEPT ![n] = q]
      /\ signed' = signed \cup {preauth}
      /\ job' = [job EXCEPT ![n] = "requested"]
      /\ UNCHANGED <<now, marketVars, reply, settle, pending, mempool, lost, restarts>>
  BY DEF Infer
<1>1. preauth \in Receipts
  <2>1. now \in Nat /\ RECEIPT_LIFETIME \in Nat /\ MaxTime \in Nat
    BY MarketAssumption, ServingAssumption DEF ServingInv, ServingTypes, MarketTypeOK
  <2>2. now + RECEIPT_LIFETIME \in 0 .. MaxTime /\ now \in 0 .. MaxTime
    BY <1>0, <2>1
  <2>3. Reservation(budget, asked) \in Amounts
    <3>1. budget \in Nat /\ DEFAULT_RESERVATION \in Nat
      BY ServingAssumption
    <3>2. Lower(budget, Lower(budget, DEFAULT_RESERVATION)) = Lower(budget, DEFAULT_RESERVATION)
      BY <3>1 DEF Lower
    <3> QED BY <3>2, AmountsAssumption DEF Reservation
  <2> QED BY <2>2, <2>3 DEF Receipts
<1>2. preauth.amount <= budget /\ preauth.amount \in Nat /\ budget \in Nat
  <2>1. budget \in Nat /\ asked \in Nat /\ DEFAULT_RESERVATION \in Nat
    BY ServingAssumption
  <2> QED BY <2>1 DEF Reservation, Lower
<1>3. preauth.user = u /\ preauth.nonce = n
  OBVIOUS
<1> HIDE DEF preauth
<1>4. q \in Request /\ q # Idle /\ q.pc = "waiting" /\ q.budget = budget /\ q.preauth = preauth
  BY <1>1 DEF Request, Idle
<1> HIDE DEF q
<1>5. /\ ServingTypes /\ HandlersInOrder /\ RequestsAreSigned /\ SignedForRequest
      /\ QueuedIsOver /\ OneReceiptPerRequest /\ AnsweredIsPayable /\ PaidIsAllowed
      /\ req \in [Nonces -> {Idle} \cup Request]
      /\ job \in [Nonces -> {"none", "requested", "generating", "over"}]
      /\ reply \in [Nonces -> Reply]
  BY DEF ServingInv, ServingTypes
<1>6. /\ req'[n] = q /\ job'[n] = "requested"
      /\ \A x \in Nonces \ {n} : req'[x] = req[x] /\ job'[x] = job[x]
  BY <1>0, <1>5
<1>7. job[n] = "none" /\ reply[n].kind = "none"
  BY <1>0, <1>5 DEF HandlersInOrder, Reply
<1>8. usedNonces' = usedNonces /\ wallet' = wallet /\ balances' = balances
  BY <1>0 DEF marketVars, clientVars
<1>9. ServingTypes'
  <2>1. MarketTypeOK'
    BY <1>0, <1>1, <1>5, SigningTyped DEF ServingTypes, MarketTypeOK
  <2>2. req' \in [Nonces -> {Idle} \cup Request]
    BY <1>0, <1>4, <1>5
  <2>3. job' \in [Nonces -> {"none", "requested", "generating", "over"}]
    BY <1>0, <1>5
  <2> QED BY <1>0, <1>5, <2>1, <2>2, <2>3 DEF ServingTypes
<1>10. HandlersInOrder'
  BY <1>0, <1>4, <1>5, <1>6, <1>7 DEF HandlersInOrder
<1>11. RequestsAreSigned'
  BY <1>0, <1>2, <1>3, <1>4, <1>5, <1>6 DEF RequestsAreSigned
<1>12. SignedForRequest'
  <2> SUFFICES ASSUME NEW r \in signed'
               PROVE  /\ req'[r.nonce] # Idle
                      /\ r.user = req'[r.nonce].preauth.user
                      /\ r.amount <= req'[r.nonce].budget
                      /\ req'[r.nonce].pc = "done" \/ r.amount <= req'[r.nonce].preauth.amount
    BY DEF SignedForRequest
  <2>1. CASE r = preauth
    BY <1>2, <1>3, <1>4, <1>6, <2>1
  <2>2. CASE r \in signed
    <3>1. r.nonce \in Nonces \ {n}
      BY <1>0, <1>5, <2>2 DEF SignedForRequest, ServingTypes, MarketTypeOK, Receipts
    <3> QED BY <1>5, <1>6, <2>2, <3>1 DEF SignedForRequest
  <2> QED BY <1>0, <2>1, <2>2
<1>13. QueuedIsOver'
  <2> SUFFICES ASSUME NEW s \in settle \cup pending \cup mempool PROVE job'[s.nonce] = "over"
    BY <1>0 DEF QueuedIsOver
  <2>1. s.nonce \in Nonces /\ job[s.nonce] = "over"
    BY <1>5 DEF QueuedIsOver, ServingTypes, MarketTypeOK, Receipts
  <2> QED BY <1>6, <1>7, <2>1
<1>14. OneReceiptPerRequest'
  BY <1>0, <1>5 DEF OneReceiptPerRequest
<1>15. AnsweredIsPayable'
  <2> SUFFICES ASSUME NEW x \in Nonces, reply'[x].kind = "answer" \/ req'[x].pc = "done",
                      restarts' = 0, x \notin lost', req'[x].preauth.miner \in Honest
               PROVE  Payable(x)'
    BY DEF AnsweredIsPayable
  <2>1. x # n
    BY <1>0, <1>4, <1>6, <1>7
  <2>2. Payable(x)
    BY <1>0, <1>5, <1>6, <2>1 DEF AnsweredIsPayable
  <2> QED BY <1>0, <1>6, <1>8, <2>1, <2>2 DEF Payable
<1>16. PaidIsAllowed'
  <2> SUFFICES ASSUME NEW w \in Users
               PROVE  wallet'[w] + balances'[w] + Total(UsedAllowance(w)', Nonces) >= Wealth[w]
    BY DEF PaidIsAllowed
  <2>1. ASSUME NEW x \in Nonces PROVE Allowance(w)[x] <= Allowance(w)'[x]
    <3>1. CASE x = n
      BY <1>0, <1>2, <1>4, <1>6, <3>1 DEF Allowance
    <3>2. CASE x # n
      <4>1. Allowance(w)'[x] = Allowance(w)[x] /\ Allowance(w)[x] \in Nat
        BY <1>5, <1>6, <3>2, AllowanceTyped DEF Allowance
      <4> QED BY <4>1
    <3> QED BY <3>1, <3>2
  <2>2. wallet[w] + balances[w] \in Nat
    BY <1>5 DEF ServingTypes, MarketTypeOK, Accounts
  <2> QED BY <1>5, <1>8, <1>9, <2>1, <2>2, AllowanceGrows
<1> QED BY <1>9, <1>10, <1>11, <1>12, <1>13, <1>14, <1>15, <1>16 DEF ServingInv

\* A request that ends, with its text or without: no receipt becomes less payable and
\* no allowance smaller.
LEMMA RequestEnds ==
  ASSUME ServingInv, ServingTypes', NEW n \in Nonces, req[n].pc = "waiting",
         NEW pc \in {"done", "failed"}, req' = [req EXCEPT ![n].pc = pc],
         signed \subseteq signed', pc = "done" => job[n] = "over",
         pc = "done" => reply[n].kind = "answer",
         reply' = [reply EXCEPT ![n] = NoReply], UNCHANGED <<now, marketVars, minerState>>
  PROVE  /\ HandlersInOrder' /\ RequestsAreSigned' /\ OneReceiptPerRequest'
         /\ AnsweredIsPayable' /\ PaidIsAllowed'
         /\ \A r \in signed : LET q == req'[r.nonce]
                              IN /\ q # Idle
                                 /\ r.user = q.preauth.user
                                 /\ r.amount <= q.budget
                                 /\ q.pc = "done" \/ r.amount <= q.preauth.amount
<1> DEFINE q == [req[n] EXCEPT !.pc = pc]
<1>0. /\ ServingTypes /\ HandlersInOrder /\ RequestsAreSigned /\ SignedForRequest
      /\ OneReceiptPerRequest /\ AnsweredIsPayable /\ PaidIsAllowed
      /\ req \in [Nonces -> {Idle} \cup Request] /\ reply \in [Nonces -> Reply]
  BY DEF ServingInv, ServingTypes
<1>1. req[n] # Idle /\ req[n] \in Request
  BY <1>0 DEF Idle
<1>2. /\ q \in Request /\ q.pc = pc /\ q.budget = req[n].budget /\ q.preauth = req[n].preauth
      /\ q # Idle
  BY <1>1 DEF Request, Idle
<1>3. req' = [req EXCEPT ![n] = q]
  OBVIOUS
<1> HIDE DEF q
<1>4. req'[n] = q /\ \A x \in Nonces \ {n} : req'[x] = req[x]
  BY <1>0, <1>3
<1>5. \A x \in Nonces : /\ req'[x] = Idle <=> req[x] = Idle
                        /\ req'[x].preauth = req[x].preauth /\ req'[x].budget = req[x].budget
  BY <1>1, <1>2, <1>4
<1>6. /\ UNCHANGED <<job, pending, mempool, lost, restarts, usedNonces, wallet, balances>>
  BY DEF minerState, marketVars, clientVars
<1>7. reply'[n] = NoReply /\ \A x \in Nonces \ {n} : reply'[x] = reply[x]
  BY <1>0
<1>8. HandlersInOrder'
  BY <1>0, <1>2, <1>4, <1>5, <1>6, <1>7 DEF HandlersInOrder, NoReply
<1>9. RequestsAreSigned'
  BY <1>0, <1>5 DEF RequestsAreSigned
<1>10. OneReceiptPerRequest'
  BY <1>0, <1>6 DEF OneReceiptPerRequest
<1>11. AnsweredIsPayable'
  <2> SUFFICES ASSUME NEW x \in Nonces, reply'[x].kind = "answer" \/ req'[x].pc = "done",
                      restarts' = 0, x \notin lost', req'[x].preauth.miner \in Honest
               PROVE  Payable(x)'
    BY DEF AnsweredIsPayable
  <2>1. reply[x].kind = "answer" \/ req[x].pc = "done"
    BY <1>2, <1>4, <1>7 DEF NoReply
  <2>2. Payable(x)
    BY <1>0, <1>5, <1>6, <2>1 DEF AnsweredIsPayable
  <2> QED BY <1>5, <1>6, <2>2 DEF Payable
<1>12. PaidIsAllowed'
  <2> SUFFICES ASSUME NEW w \in Users
               PROVE  wallet'[w] + balances'[w] + Total(UsedAllowance(w)', Nonces) >= Wealth[w]
    BY DEF PaidIsAllowed
  <2>1. ASSUME NEW x \in Nonces PROVE Allowance(w)[x] <= Allowance(w)'[x]
    <3>1. CASE x = n
      <4>1. /\ req[n].preauth.amount <= req[n].budget
            /\ req[n].preauth.amount \in Nat /\ req[n].budget \in Nat
        BY <1>0, <1>1, RequestFields DEF RequestsAreSigned
      <4> QED BY <1>1, <1>2, <1>4, <3>1, <4>1 DEF Allowance
    <3>2. CASE x # n
      <4>1. Allowance(w)'[x] = Allowance(w)[x] /\ Allowance(w)[x] \in Nat
        BY <1>0, <1>4, <3>2, AllowanceTyped DEF Allowance
      <4> QED BY <4>1
    <3> QED BY <3>1, <3>2
  <2>2. wallet[w] + balances[w] \in Nat
    BY <1>0 DEF ServingTypes, MarketTypeOK, Accounts
  <2> QED BY <1>0, <1>6, <2>1, <2>2, AllowanceGrows
<1>13. ASSUME NEW r \in signed
       PROVE  /\ req'[r.nonce] # Idle
              /\ r.user = req'[r.nonce].preauth.user
              /\ r.amount <= req'[r.nonce].budget
              /\ req'[r.nonce].pc = "done" \/ r.amount <= req'[r.nonce].preauth.amount
  <2>1. r.nonce \in Nonces
    BY <1>0 DEF ServingTypes, MarketTypeOK, Receipts
  <2>2. req[r.nonce].pc = "done" => r.nonce # n
    OBVIOUS
  <2> QED BY <1>0, <1>4, <1>5, <2>1, <2>2 DEF SignedForRequest
<1> QED BY <1>8, <1>9, <1>10, <1>11, <1>12, <1>13

\* The checks of a reply let the client sign for its own request only.
LEMMA ReceiveReplyStep ==
  ASSUME ServingInv, NEW n \in Nonces, ReceiveReply(n)
  PROVE  ServingInv'
<1> DEFINE finals == {[f EXCEPT !.signedAt = now] : f \in reply[n].finals}
<1>0. /\ req[n].pc = "waiting" /\ reply[n].kind = "answer"
      /\ \A f \in finals : Accepts(req[n], reply[n], f)
      /\ req' = [req EXCEPT ![n].pc = "done"]
      /\ reply' = [reply EXCEPT ![n] = NoReply]
      /\ signed' = signed \cup finals /\ settle' = settle \cup finals
      /\ UNCHANGED <<now, marketVars, minerState>>
  BY DEF ReceiveReply
<1>1. /\ ServingTypes /\ HandlersInOrder /\ RequestsAreSigned /\ SignedForRequest
      /\ QueuedIsOver /\ MarketTypeOK /\ now \in 0 .. MaxTime
      /\ req \in [Nonces -> {Idle} \cup Request] /\ reply \in [Nonces -> Reply]
  BY DEF ServingInv, ServingTypes
<1>2. finals \subseteq Receipts
  <2>1. reply[n].finals \subseteq Receipts
    BY <1>0, <1>1 DEF Reply
  <2>2. ASSUME NEW f \in Receipts PROVE [f EXCEPT !.signedAt = now] \in Receipts
    BY <1>1 DEF Receipts
  <2> QED BY <2>1, <2>2
<1> HIDE DEF finals
<1>3. /\ UNCHANGED <<job, pending, mempool, lost, restarts>>
  BY <1>0 DEF minerState
<1>4. req[n] # Idle /\ req[n] \in Request /\ job[n] = "over"
  BY <1>0, <1>1 DEF Idle, HandlersInOrder
<1>5. [req[n] EXCEPT !.pc = "done"] \in Request
  BY <1>4 DEF Request
<1>6. ServingTypes'
  <2>1. MarketTypeOK' /\ now' = now
    BY <1>0, <1>1, <1>2, SigningTyped DEF MarketTypeOK
  <2>2. req' \in [Nonces -> {Idle} \cup Request]
    BY <1>0, <1>1, <1>5
  <2>3. reply' \in [Nonces -> Reply]
    <3>1. NoReply \in Reply
      BY DEF NoReply, Reply
    <3> QED BY <1>0, <1>1, <3>1
  <2> QED BY <1>0, <1>1, <1>3, <2>1, <2>2, <2>3 DEF ServingTypes
<1>7. /\ HandlersInOrder' /\ RequestsAreSigned' /\ OneReceiptPerRequest'
      /\ AnsweredIsPayable' /\ PaidIsAllowed'
      /\ \A r \in signed : /\ req'[r.nonce] # Idle
                           /\ r.user = req'[r.nonce].preauth.user
                           /\ r.amount <= req'[r.nonce].budget
                           /\ \/ req'[r.nonce].pc = "done"
                              \/ r.amount <= req'[r.nonce].preauth.amount
  BY <1>0, <1>4, <1>6, RequestEnds
<1>8. ASSUME NEW f \in finals
      PROVE  f.nonce = n /\ f.user = req[n].preauth.user /\ f.amount <= req[n].budget
  BY <1>0, <1>1, <1>4 DEF Accepts, IdentityKept, RequestsAreSigned
<1>9. SignedForRequest'
  <2>1. /\ req'[n] = [req[n] EXCEPT !.pc = "done"]
    BY <1>0, <1>1
  <2>2. /\ req'[n].preauth = req[n].preauth /\ req'[n].budget = req[n].budget
        /\ req'[n].pc = "done" /\ req'[n] # Idle
    BY <1>4, <2>1 DEF Request, Idle
  <2> QED BY <1>0, <1>7, <1>8, <2>2 DEF SignedForRequest
<1>10. QueuedIsOver'
  BY <1>0, <1>1, <1>3, <1>4, <1>8 DEF QueuedIsOver
<1> QED BY <1>6, <1>7, <1>9, <1>10 DEF ServingInv

LEMMA InferRaisesStep ==
  ASSUME ServingInv, NEW n \in Nonces, InferRaises(n)
  PROVE  ServingInv'
<1>0. /\ req[n].pc = "waiting"
      /\ req' = [req EXCEPT ![n].pc = "failed"]
      /\ reply' = [reply EXCEPT ![n] = NoReply]
      /\ UNCHANGED <<now, signed, marketVars, settle, minerState>>
  BY DEF InferRaises, vars
<1>1. /\ ServingTypes /\ QueuedIsOver /\ MarketTypeOK
      /\ req \in [Nonces -> {Idle} \cup Request] /\ reply \in [Nonces -> Reply]
  BY DEF ServingInv, ServingTypes
<1>2. UNCHANGED <<job, pending, mempool, lost, restarts>>
  BY <1>0 DEF minerState
<1>3. req[n] \in Request
  BY <1>0, <1>1 DEF Idle
<1>4. [req[n] EXCEPT !.pc = "failed"] \in Request /\ NoReply \in Reply
  BY <1>3 DEF Request, NoReply, Reply
<1>5. ServingTypes'
  <2>1. MarketTypeOK' /\ now' = now
    BY <1>0, <1>1, SigningTyped DEF MarketTypeOK
  <2>2. req' \in [Nonces -> {Idle} \cup Request] /\ reply' \in [Nonces -> Reply]
    BY <1>0, <1>1, <1>4
  <2> QED BY <1>0, <1>1, <1>2, <2>1, <2>2 DEF ServingTypes
<1>6. /\ HandlersInOrder' /\ RequestsAreSigned' /\ OneReceiptPerRequest'
      /\ AnsweredIsPayable' /\ PaidIsAllowed'
      /\ \A r \in signed : /\ req'[r.nonce] # Idle
                           /\ r.user = req'[r.nonce].preauth.user
                           /\ r.amount <= req'[r.nonce].budget
                           /\ \/ req'[r.nonce].pc = "done"
                              \/ r.amount <= req'[r.nonce].preauth.amount
  BY <1>0, <1>5, RequestEnds
<1>7. SignedForRequest'
  BY <1>0, <1>6 DEF SignedForRequest
<1>8. QueuedIsOver'
  BY <1>0, <1>1, <1>2 DEF QueuedIsOver
<1> QED BY <1>5, <1>6, <1>7, <1>8 DEF ServingInv

-----------------------------------------------------------------------------
(* Serving: the miner's steps.                                             *)

\* The eligibility checks are made once; the handler then generates.
LEMMA HandleInferStep ==
  ASSUME ServingInv, NEW n \in Nonces, HandleInfer(n)
  PROVE  ServingInv'
<1>0. /\ job[n] = "requested" /\ req[n].preauth.miner \in Honest
      /\ job' = [job EXCEPT ![n] = "generating"]
      /\ UNCHANGED <<vars, req, reply, settle, pending, mempool, lost, restarts>>
  BY DEF HandleInfer, Eligible, clientState
<1>1. /\ ServingTypes /\ HandlersInOrder /\ QueuedIsOver
      /\ OneReceiptPerRequest /\ AnsweredIsPayable
      /\ job \in [Nonces -> {"none", "requested", "generating", "over"}]
  BY DEF ServingInv, ServingTypes
<1>2. MarketTypeOK' /\ RequestsAreSigned' /\ SignedForRequest' /\ PaidIsAllowed'
  BY <1>0, RequestsKept
<1>3. signed' = signed /\ now' = now /\ usedNonces' = usedNonces
  BY <1>0 DEF vars, marketVars, clientVars
<1>4. ServingTypes'
  <2>1. job' \in [Nonces -> {"none", "requested", "generating", "over"}]
    BY <1>0, <1>1
  <2> QED BY <1>0, <1>1, <1>2, <1>3, <2>1 DEF ServingTypes
<1>5. job'[n] = "generating" /\ \A x \in Nonces \ {n} : job'[x] = job[x]
  BY <1>0, <1>1
<1>6. HandlersInOrder'
  BY <1>0, <1>1, <1>5 DEF HandlersInOrder
<1>7. QueuedIsOver'
  <2> SUFFICES ASSUME NEW s \in settle \cup pending \cup mempool PROVE job'[s.nonce] = "over"
    BY <1>0 DEF QueuedIsOver
  <2>1. s.nonce \in Nonces /\ job[s.nonce] = "over"
    BY <1>1 DEF QueuedIsOver, ServingTypes, MarketTypeOK, Receipts
  <2> QED BY <1>0, <1>5, <2>1
<1>8. OneReceiptPerRequest'
  BY <1>0, <1>1 DEF OneReceiptPerRequest
<1>9. AnsweredIsPayable'
  BY <1>0, <1>1, <1>3 DEF AnsweredIsPayable, Payable
<1> QED BY <1>2, <1>4, <1>6, <1>7, <1>8, <1>9 DEF ServingInv

\* A handler that ends: its job is over, and it answers with answer.
LEMMA HandlerEnds ==
  ASSUME ServingInv, NEW n \in Nonces, job[n] \in {"requested", "generating"},
         NEW answer \in Reply, job' = [job EXCEPT ![n] = "over"],
         reply' = [reply EXCEPT ![n] = answer], pending \subseteq pending',
         \A s \in pending' \ pending :
           s = req[n].preauth /\ req[n].preauth.miner \in Honest,
         answer.kind = "answer" /\ req[n].preauth.miner \in Honest => req[n].preauth \in pending',
         UNCHANGED <<vars, req, settle, mempool, lost, restarts>>
  PROVE  ServingInv'
<1>1. /\ ServingTypes /\ HandlersInOrder /\ QueuedIsOver /\ RequestsAreSigned
      /\ OneReceiptPerRequest /\ AnsweredIsPayable
      /\ job \in [Nonces -> {"none", "requested", "generating", "over"}]
      /\ reply \in [Nonces -> Reply]
  BY DEF ServingInv, ServingTypes
<1>2. MarketTypeOK' /\ RequestsAreSigned' /\ SignedForRequest' /\ PaidIsAllowed'
  BY RequestsKept
<1>3. signed' = signed /\ now' = now /\ usedNonces' = usedNonces
  BY DEF vars, marketVars, clientVars
<1>4. req[n] # Idle /\ req[n].preauth \in signed /\ req[n].preauth.nonce = n /\ req[n].pc # "done"
  BY <1>1 DEF HandlersInOrder, RequestsAreSigned
<1>5. /\ job'[n] = "over" /\ \A x \in Nonces \ {n} : job'[x] = job[x]
      /\ reply'[n] = answer /\ \A x \in Nonces \ {n} : reply'[x] = reply[x]
  BY <1>1
<1>6. ServingTypes'
  <2>1. /\ job' \in [Nonces -> {"none", "requested", "generating", "over"}]
        /\ reply' \in [Nonces -> Reply]
    BY <1>1
  <2>2. pending' \subseteq {r \in signed : r.miner \in Honest}
    BY <1>1, <1>4 DEF ServingTypes
  <2> QED BY <1>1, <1>2, <1>3, <2>1, <2>2 DEF ServingTypes
<1>7. HandlersInOrder'
  BY <1>1, <1>4, <1>5 DEF HandlersInOrder
<1>8. QueuedIsOver'
  <2> SUFFICES ASSUME NEW s \in settle \cup pending' \cup mempool PROVE job'[s.nonce] = "over"
    BY DEF QueuedIsOver
  <2>1. CASE s \in settle \cup pending \cup mempool
    <3>1. s.nonce \in Nonces /\ job[s.nonce] = "over"
      BY <1>1, <2>1 DEF QueuedIsOver, ServingTypes, MarketTypeOK, Receipts
    <3> QED BY <1>5, <3>1
  <2>2. CASE s = req[n].preauth
    BY <1>4, <1>5, <2>2
  <2> QED BY <2>1, <2>2
<1>9. OneReceiptPerRequest'
  <2>1. \A s \in pending : s.nonce # n
    BY <1>1 DEF QueuedIsOver
  <2> QED BY <1>1, <1>4, <2>1 DEF OneReceiptPerRequest, SameRequest
<1>10. AnsweredIsPayable'
  <2> SUFFICES ASSUME NEW x \in Nonces, reply'[x].kind = "answer" \/ req'[x].pc = "done",
                      restarts' = 0, x \notin lost', req'[x].preauth.miner \in Honest
               PROVE  Payable(x)'
    BY DEF AnsweredIsPayable
  <2>1. CASE x = n
    <3>1. req[n].preauth \in pending'
      BY <1>4, <1>5, <2>1
    <3> QED BY <2>1, <3>1 DEF Payable, SameRequest
  <2>2. CASE x # n
    <3>1. Payable(x)
      BY <1>1, <1>5, <2>2 DEF AnsweredIsPayable
    <3> QED BY <1>3, <3>1 DEF Payable
  <2> QED BY <2>1, <2>2
<1> QED BY <1>2, <1>6, <1>7, <1>8, <1>9, <1>10 DEF ServingInv

LEMMA RefuseInferStep ==
  ASSUME ServingInv, NEW n \in Nonces, RefuseInfer(n)
  PROVE  ServingInv'
<1>1. Failure \in Reply /\ Failure.kind # "answer"
  BY DEF Failure, Reply
<1> QED BY <1>1, HandlerEnds DEF RefuseInfer

\* The pre-authorization is queued before the answer leaves.
LEMMA FinishInferStep ==
  ASSUME ServingInv, NEW n \in Nonces, NEW size \in Sizes, FinishInfer(n, size)
  PROVE  ServingInv'
<1> DEFINE r == req[n].preauth
           amount == Lower(Quote(size), req[n].budget)
<1>1. /\ ServingTypes /\ HandlersInOrder /\ job[n] = "generating" /\ price \in Prices
  BY DEF ServingInv, ServingTypes, MarketTypeOK, FinishInfer
<1>2. req[n] # Idle /\ req[n] \in Request /\ r \in Receipts /\ r.miner \in Honest
  BY <1>1, Requested, RequestFields DEF HandlersInOrder
<1>3. amount \in Amounts
  BY <1>1, <1>2, AmountsAssumption, RequestFields DEF Quote
<1>4. Final(r, amount) \in Receipts
  BY <1>2, <1>3 DEF Final, Receipts
<1>5. Answer(size, {Final(r, amount)}) \in Reply
  <2> HIDE DEF r, amount
  <2> QED BY <1>4 DEF Answer, Reply
<1>6. Failure \in Reply
  BY DEF Failure, Reply
<1>7. /\ job' = [job EXCEPT ![n] = "over"] /\ pending' = pending \cup {r}
      /\ UNCHANGED <<vars, req, settle, mempool, lost, restarts>>
      /\ \E answer \in Reply : reply' = [reply EXCEPT ![n] = answer]
  BY <1>5, <1>6 DEF FinishInfer
<1> QED BY <1>1, <1>2, <1>7, HandlerEnds

LEMMA ForgeReplyStep ==
  ASSUME ServingInv, NEW n \in Nonces, NEW size \in Sizes,
         NEW finals \in SUBSET Receipts, ForgeReply(n, size, finals)
  PROVE  ServingInv'
<1>1. Answer(size, finals) \in Reply
  BY DEF Answer, Reply
<1> QED BY <1>1, HandlerEnds DEF ForgeReply

-----------------------------------------------------------------------------
(* Serving: the queue, the redemptions and the market.                     *)

\* A step of the queue and the mempool that only moves and replaces receipts.
LEMMA QueueMoves ==
  ASSUME ServingInv, UNCHANGED <<vars, req, reply, job, restarts>>,
         settle' \subseteq settle, lost \subseteq lost', lost' \subseteq Nonces,
         pending' \cup mempool' \subseteq settle \cup pending \cup mempool,
         \A s \in pending' \cup mempool' : s.miner \in Honest,
         OneReceiptPerRequest',
         \A n \in Nonces \ lost', s \in pending \cup mempool :
           s.nonce = n => \E t \in pending' \cup mempool' : SameRequest(s, t)
  PROVE  ServingInv'
<1>1. /\ ServingTypes /\ HandlersInOrder /\ QueuedIsOver /\ RequestsAreSigned /\ AnsweredIsPayable
  BY DEF ServingInv
<1>2. MarketTypeOK' /\ RequestsAreSigned' /\ SignedForRequest' /\ PaidIsAllowed'
  BY RequestsKept
<1>3. signed' = signed /\ now' = now /\ usedNonces' = usedNonces
  BY DEF vars, marketVars, clientVars
<1>4. ServingTypes'
  <2>1. /\ settle' \subseteq signed'
        /\ pending' \cup mempool' \subseteq {r \in signed' : r.miner \in Honest}
    BY <1>1, <1>3 DEF ServingTypes
  <2> QED BY <1>1, <1>2, <1>3, <2>1 DEF ServingTypes
<1>5. HandlersInOrder'
  BY <1>1 DEF HandlersInOrder
<1>6. QueuedIsOver'
  BY <1>1 DEF QueuedIsOver
<1>7. AnsweredIsPayable'
  <2> SUFFICES ASSUME NEW n \in Nonces, reply[n].kind = "answer" \/ req[n].pc = "done",
                      restarts = 0, n \notin lost', req[n].preauth.miner \in Honest
               PROVE  Payable(n)'
    BY DEF AnsweredIsPayable
  <2>1. Payable(n) /\ req[n] # Idle
    BY <1>1 DEF AnsweredIsPayable, HandlersInOrder, Idle
  <2>2. ASSUME NEW s \in pending \cup mempool, SameRequest(req[n].preauth, s)
        PROVE  Payable(n)'
    <3>1. s.nonce = n
      BY <1>1, <2>1, <2>2 DEF SameRequest, RequestsAreSigned
    <3>2. PICK t \in pending' \cup mempool' : SameRequest(s, t)
      BY <3>1
    <3>3. SameRequest(req'[n].preauth, t)
      BY <2>2, <3>2 DEF SameRequest
    <3> QED BY <3>3 DEF Payable, SameRequest
  <2> QED BY <1>3, <2>1, <2>2 DEF Payable
<1> QED BY <1>2, <1>4, <1>5, <1>6, <1>7 DEF ServingInv

\* The receipt that is settled takes the place of the one of its request.
LEMMA HandleSettleStep ==
  ASSUME ServingInv, NEW r \in settle, HandleSettle(r)
  PROVE  ServingInv'
<1>0. /\ r.miner \in Honest /\ settle' = settle \ {r} /\ pending' = Replaced(pending, r)
      /\ UNCHANGED <<vars, req, reply, job, mempool, lost, restarts>>
  BY DEF HandleSettle, Eligible
<1>1. /\ OneReceiptPerRequest /\ lost \subseteq Nonces
      /\ \A s \in pending \cup mempool : s.miner \in Honest
  BY DEF ServingInv, ServingTypes
<1>2. OneReceiptPerRequest'
  BY <1>0, <1>1 DEF OneReceiptPerRequest, Replaced, SameRequest
<1>3. \A s \in pending \cup mempool : \E t \in pending' \cup mempool' : SameRequest(s, t)
  <2> SUFFICES ASSUME NEW s \in pending
               PROVE  \E t \in pending' \cup mempool' : SameRequest(s, t)
    BY <1>0 DEF SameRequest
  <2>1. r \in pending' /\ (s \in pending' \/ SameRequest(s, r))
    BY <1>0 DEF Replaced
  <2> QED BY <2>1 DEF SameRequest
<1>4. /\ pending' \cup mempool' \subseteq settle \cup pending \cup mempool
      /\ \A s \in pending' \cup mempool' : s.miner \in Honest
  BY <1>0, <1>1 DEF Replaced
<1> QED BY <1>0, <1>1, <1>2, <1>3, <1>4, QueueMoves

\* What leaves the queue is in the mempool.
LEMMA FlushStep ==
  ASSUME ServingInv, NEW m \in Honest, NEW sent \in SUBSET pending,
         NEW confirmed \in SUBSET sent, Flush(m, sent, confirmed)
  PROVE  ServingInv'
<1>0. /\ pending' = pending \ confirmed /\ mempool' = mempool \cup sent
      /\ UNCHANGED <<vars, req, reply, settle, job, lost, restarts>>
  BY DEF Flush, Retained, clientState
<1>1. /\ OneReceiptPerRequest /\ lost \subseteq Nonces
      /\ \A s \in pending \cup mempool : s.miner \in Honest
  BY DEF ServingInv, ServingTypes
<1>2. OneReceiptPerRequest'
  BY <1>0, <1>1 DEF OneReceiptPerRequest
<1>3. pending' \cup mempool' = pending \cup mempool
  BY <1>0
<1>4. \A s \in pending \cup mempool : \E t \in pending' \cup mempool' : SameRequest(s, t)
  BY <1>3 DEF SameRequest
<1> QED BY <1>0, <1>1, <1>2, <1>3, <1>4, QueueMoves

\* A redemption that fails is remembered as lost.
LEMMA LoseRedeemStep ==
  ASSUME ServingInv, NEW r \in mempool, LoseRedeem(r)
  PROVE  ServingInv'
<1>0. /\ mempool' = mempool \ {r} /\ lost' = lost \cup {r.nonce}
      /\ UNCHANGED <<vars, req, reply, settle, job, pending, restarts>>
  BY DEF LoseRedeem, clientState
<1>1. /\ OneReceiptPerRequest /\ lost \subseteq Nonces /\ r.nonce \in Nonces
      /\ \A s \in pending \cup mempool : s.miner \in Honest
  BY DEF ServingInv, ServingTypes, MarketTypeOK, Receipts
<1>2. OneReceiptPerRequest'
  BY <1>0, <1>1 DEF OneReceiptPerRequest
<1>3. ASSUME NEW n \in Nonces \ lost', NEW s \in pending \cup mempool, s.nonce = n
      PROVE  \E t \in pending' \cup mempool' : SameRequest(s, t)
  <2>1. s \in pending' \cup mempool'
    BY <1>0, <1>3
  <2> QED BY <2>1 DEF SameRequest
<1> QED BY <1>0, <1>1, <1>2, <1>3, QueueMoves

\* A restart empties the queue of the miner and ends its handlers.
LEMMA MinerRestartStep ==
  ASSUME ServingInv, NEW m \in Honest, MinerRestart(m)
  PROVE  ServingInv'
<1>0. /\ restarts < MaxRestarts /\ restarts' = restarts + 1
      /\ pending' = {r \in pending : r.miner # m}
      /\ job' = [n \in Nonces |->
               IF job[n] = "generating" /\ req[n].preauth.miner = m THEN "over" ELSE job[n]]
      /\ UNCHANGED <<vars, req, reply, settle, mempool, lost>>
  BY DEF MinerRestart, clientState
<1>1. /\ ServingTypes /\ HandlersInOrder /\ QueuedIsOver /\ OneReceiptPerRequest
      /\ job \in [Nonces -> {"none", "requested", "generating", "over"}]
      /\ restarts \in 0 .. MaxRestarts /\ MaxRestarts \in Nat
  BY ServingAssumption DEF ServingInv, ServingTypes
<1>2. MarketTypeOK' /\ RequestsAreSigned' /\ SignedForRequest' /\ PaidIsAllowed'
  BY <1>0, RequestsKept
<1>3. signed' = signed /\ now' = now
  BY <1>0 DEF vars
<1>4. \A n \in Nonces : job'[n] = job[n] \/ (job[n] = "generating" /\ job'[n] = "over")
  BY <1>0
<1>5. restarts' \in 0 .. MaxRestarts /\ restarts' # 0
  BY <1>0, <1>1
<1>6. ServingTypes'
  <2>1. job' \in [Nonces -> {"none", "requested", "generating", "over"}]
    BY <1>0, <1>1
  <2> QED BY <1>0, <1>1, <1>2, <1>3, <1>5, <2>1 DEF ServingTypes
<1>7. HandlersInOrder'
  BY <1>0, <1>1, <1>4 DEF HandlersInOrder
<1>8. QueuedIsOver'
  <2> SUFFICES ASSUME NEW s \in settle \cup pending \cup mempool PROVE job'[s.nonce] = "over"
    BY <1>0 DEF QueuedIsOver
  <2>1. s.nonce \in Nonces /\ job[s.nonce] = "over"
    BY <1>1 DEF QueuedIsOver, ServingTypes, MarketTypeOK, Receipts
  <2> QED BY <1>4, <2>1
<1>9. OneReceiptPerRequest'
  BY <1>0, <1>1 DEF OneReceiptPerRequest
<1>10. AnsweredIsPayable'
  BY <1>5 DEF AnsweredIsPayable
<1> QED BY <1>2, <1>6, <1>7, <1>8, <1>9, <1>10 DEF ServingInv

\* A call of the market that redeems nothing.
LEMMA MarketStepStep ==
  ASSUME ServingInv, MarketStep
  PROVE  ServingInv'
<1>1. /\ ServingTypes /\ HandlersInOrder /\ QueuedIsOver /\ RequestsAreSigned /\ SignedForRequest
      /\ OneReceiptPerRequest /\ AnsweredIsPayable /\ PaidIsAllowed /\ MarketTypeOK
  BY DEF ServingInv, ServingTypes
<1>2. /\ Next /\ UNCHANGED <<usedNonces, signed, clientState, minerState>>
      /\ now' \in 0 .. MaxTime
      /\ \A u \in Users : wallet'[u] + balances'[u] = wallet[u] + balances[u]
  BY <1>1, MarketStepFacts DEF ServingTypes
<1>3. UNCHANGED <<usedNonces, signed, req, reply, settle, job, pending, mempool, lost, restarts>>
  BY <1>2 DEF clientState, minerState
<1>4. MarketTypeOK'
  BY <1>1, <1>2, NextMarketTypeOK
<1>5. ServingTypes'
  BY <1>1, <1>2, <1>3, <1>4 DEF ServingTypes
<1>6. HandlersInOrder' /\ QueuedIsOver' /\ RequestsAreSigned'
  BY <1>1, <1>3 DEF HandlersInOrder, QueuedIsOver, RequestsAreSigned
<1>7. SignedForRequest' /\ OneReceiptPerRequest'
  BY <1>1, <1>3 DEF SignedForRequest, OneReceiptPerRequest
<1>8. AnsweredIsPayable'
  BY <1>1, <1>3 DEF AnsweredIsPayable, Payable
<1>9. PaidIsAllowed'
  <2> SUFFICES ASSUME NEW u \in Users
               PROVE  wallet'[u] + balances'[u] + Total(UsedAllowance(u)', Nonces) >= Wealth[u]
    BY DEF PaidIsAllowed
  <2>1. UsedAllowance(u)' = UsedAllowance(u)
    BY <1>3 DEF UsedAllowance, Allowance
  <2> QED BY <1>1, <1>2, <2>1 DEF PaidIsAllowed
<1> QED BY <1>5, <1>6, <1>7, <1>8, <1>9 DEF ServingInv

\* A redemption takes from its client at most the allowance of a nonce that was
\* not used before.
LEMMA MineRedeemStep ==
  ASSUME ServingInv, NEW r \in signed, NEW sn \in Subnets, MineRedeem(r, sn)
  PROVE  ServingInv'
<1>0. /\ Redeem(r, sn) /\ mempool' = mempool \ {r}
      /\ UNCHANGED <<req, reply, settle, job, pending, lost, restarts>>
  BY DEF MineRedeem, clientState
<1>1. /\ ServingTypes /\ HandlersInOrder /\ QueuedIsOver /\ RequestsAreSigned /\ SignedForRequest
      /\ OneReceiptPerRequest /\ AnsweredIsPayable /\ PaidIsAllowed /\ MarketTypeOK
  BY DEF ServingInv, ServingTypes
<1>2. /\ usedNonces' = usedNonces \cup {<<r.user, r.nonce>>} /\ UNCHANGED <<now, signed>>
      /\ <<r.user, r.nonce>> \notin usedNonces
      /\ balances' = [balances EXCEPT ![r.user] = @ - r.amount]
      /\ \A a \in Accounts : wallet'[a] = wallet[a] + Pay(a, sn, r)
  BY <1>0 DEF Redeem, Redeemable, Unused
<1>3. MarketTypeOK'
  <2>1. Next
    BY <1>0 DEF Next
  <2> QED BY <1>1, <2>1, NextMarketTypeOK
<1>4. r.user \in Users /\ r.nonce \in Nonces /\ r.amount \in Nat /\ sn \in Subnet
  BY <1>1, MarketAssumption DEF MarketTypeOK, Receipts
<1>5. ServingTypes'
  BY <1>0, <1>1, <1>2, <1>3 DEF ServingTypes
<1>6. HandlersInOrder' /\ QueuedIsOver' /\ RequestsAreSigned'
  BY <1>0, <1>1, <1>2 DEF HandlersInOrder, QueuedIsOver, RequestsAreSigned
<1>7. SignedForRequest' /\ OneReceiptPerRequest'
  BY <1>0, <1>1, <1>2 DEF SignedForRequest, OneReceiptPerRequest
<1>8. AnsweredIsPayable'
  <2> SUFFICES ASSUME NEW n \in Nonces, reply[n].kind = "answer" \/ req[n].pc = "done",
                      restarts = 0, n \notin lost, req[n].preauth.miner \in Honest
               PROVE  Payable(n)'
    BY <1>0 DEF AnsweredIsPayable
  <2>1. Payable(n) /\ req[n] # Idle
    BY <1>1 DEF AnsweredIsPayable, HandlersInOrder, Idle
  <2>2. ASSUME NEW s \in pending \cup mempool, SameRequest(req[n].preauth, s)
        PROVE  Payable(n)'
    <3>1. CASE s = r
      <4>1. <<req[n].preauth.user, n>> = <<r.user, r.nonce>>
        BY <1>1, <2>1, <2>2, <3>1 DEF SameRequest, RequestsAreSigned
      <4> QED BY <1>0, <1>2, <4>1 DEF Payable
    <3>2. CASE s # r
      BY <1>0, <2>2, <3>2 DEF Payable, SameRequest
    <3> QED BY <3>1, <3>2
  <2> QED BY <1>0, <1>2, <2>1, <2>2 DEF Payable
<1>9. \A u \in Users : Pay(u, sn, r) \in Nat /\ wallet'[u] = wallet[u] + Pay(u, sn, r)
                       /\ wallet[u] \in Nat /\ balances[u] \in Nat
  BY <1>1, <1>2, <1>4, PayTyped DEF Accounts, MarketTypeOK
<1>10. PaidIsAllowed'
  <2> SUFFICES ASSUME NEW u \in Users
               PROVE  wallet'[u] + balances'[u] + Total(UsedAllowance(u)', Nonces) >= Wealth[u]
    BY DEF PaidIsAllowed
  <2>1. \A n \in Nonces : Allowance(u)'[n] = Allowance(u)[n] /\ Allowance(u)[n] \in Nat
    BY <1>0, <1>1, AllowanceTyped DEF Allowance
  <2>2. CASE u # r.user
    <3>1. balances'[u] = balances[u]
      BY <1>1, <1>2, <1>4, <2>2 DEF MarketTypeOK
    <3>2. wallet'[u] + balances'[u] >= wallet[u] + balances[u]
      BY <1>9, <3>1
    <3>3. \A n \in Nonces : Allowance(u)[n] <= Allowance(u)'[n]
      BY <2>1
    <3> QED BY <1>1, <1>2, <1>5, <3>2, <3>3, AllowanceGrows
  <2>3. CASE u = r.user
    <3> DEFINE f == UsedAllowance(u)
               g == UsedAllowance(u)'
               paid == [n \in Nonces |-> IF n = r.nonce THEN r.amount ELSE 0]
               h == [n \in Nonces |-> f[n] + paid[n]]
    <3>1. r.amount <= Allowance(u)[r.nonce]
      <4>1. LET q == req[r.nonce]
            IN /\ q # Idle /\ q.preauth.user = u /\ r.amount <= q.budget
               /\ q.pc = "done" \/ r.amount <= q.preauth.amount
        BY <1>1, <2>3 DEF SignedForRequest
      <4> QED BY <1>4, <4>1 DEF Allowance
    <3>2. \A n \in Nonces : f[n] \in Nat /\ g[n] \in Nat /\ paid[n] \in Nat
      BY <1>1, <1>4, <2>1, AllowanceTyped DEF UsedAllowance
    <3>3. \A n \in Nonces : h[n] \in Nat /\ h[n] <= g[n] /\ h[n] = f[n] + paid[n]
      <4> SUFFICES ASSUME NEW n \in Nonces PROVE h[n] \in Nat /\ h[n] <= g[n] /\ h[n] = f[n] + paid[n]
        OBVIOUS
      <4>1. CASE n = r.nonce
        <5>1. f[n] = 0 /\ g[n] = Allowance(u)[n] /\ paid[n] = r.amount
          BY <1>2, <2>1, <2>3, <4>1 DEF UsedAllowance
        <5> HIDE DEF f, g, paid
        <5> QED BY <1>4, <2>1, <3>1, <4>1, <5>1
      <4>2. CASE n # r.nonce
        <5>1. f[n] = g[n] /\ paid[n] = 0
          BY <1>2, <2>1, <4>2 DEF UsedAllowance
        <5> HIDE DEF f, g, paid
        <5> QED BY <3>2, <5>1
      <4> QED BY <4>1, <4>2
    <3>4. paid[r.nonce] = r.amount /\ \A n \in Nonces \ {r.nonce} : paid[n] = 0
      BY <1>4
    <3> HIDE DEF f, g, h, paid
    <3>5. Total(paid, Nonces) = r.amount
      BY <1>4, <3>4, ServingAssumption, TotalSingle
    <3>6. Total(h, Nonces) = Total(f, Nonces) + r.amount
      BY <3>2, <3>3, <3>5, ServingAssumption, TotalSum
    <3>7. Total(h, Nonces) <= Total(g, Nonces)
      BY <3>2, <3>3, ServingAssumption, TotalPointwise
    <3>8. /\ Total(f, Nonces) \in Nat /\ Total(g, Nonces) \in Nat /\ Total(h, Nonces) \in Nat
      BY <3>2, <3>3, ServingAssumption, CoinsFinite
    <3>9. wallet[u] + balances[u] + Total(f, Nonces) >= Wealth[u]
      BY <1>1 DEF PaidIsAllowed, f
    <3>10. balances'[u] = balances[u] - r.amount
      BY <1>1, <1>2, <1>4, <2>3 DEF MarketTypeOK
    <3>11. Wealth[u] \in Nat
      BY MarketAssumption DEF Accounts
    <3>12. wallet'[u] + balances'[u] + Total(g, Nonces) >= Wealth[u]
      BY <1>4, <1>9, <3>6, <3>7, <3>8, <3>9, <3>10, <3>11
    <3> QED BY <3>12 DEF g
  <2> QED BY <2>2, <2>3
<1> QED BY <1>5, <1>6, <1>7, <1>8, <1>10 DEF ServingInv

-----------------------------------------------------------------------------
(* Serving: the theorems.                                                  *)

\* Nothing is requested, queued or paid at the start.
LEMMA ServingInvInit == ServingInit => ServingInv
<1> SUFFICES ASSUME ServingInit PROVE ServingInv
  OBVIOUS
<1>0. /\ Init /\ req = [n \in Nonces |-> Idle] /\ job = [n \in Nonces |-> "none"]
      /\ reply = [n \in Nonces |-> NoReply]
      /\ settle = {} /\ pending = {} /\ mempool = {} /\ lost = {} /\ restarts = 0
  BY DEF ServingInit
<1>1. /\ now = 0 /\ signed = {} /\ usedNonces = {} /\ wallet = Wealth
      /\ balances = [u \in Users |-> 0]
  BY <1>0 DEF Init
<1>2. ServingTypes
  <2>1. MarketTypeOK
    BY <1>0, InitMarketTypeOK
  <2>2. now \in 0 .. MaxTime /\ restarts \in 0 .. MaxRestarts
    BY <1>0, <1>1, MarketAssumption, ServingAssumption
  <2>3. reply \in [Nonces -> Reply]
    BY <1>0 DEF NoReply, Reply
  <2> QED BY <1>0, <2>1, <2>2, <2>3 DEF ServingTypes
<1>3. HandlersInOrder /\ AnsweredIsPayable
  BY <1>0 DEF HandlersInOrder, AnsweredIsPayable, Idle, NoReply
<1>4. RequestsAreSigned /\ SignedForRequest /\ QueuedIsOver /\ OneReceiptPerRequest
  BY <1>0, <1>1 DEF RequestsAreSigned, SignedForRequest, QueuedIsOver, OneReceiptPerRequest
<1>5. PaidIsAllowed
  <2> SUFFICES ASSUME NEW u \in Users
               PROVE  wallet[u] + balances[u] + Total(UsedAllowance(u), Nonces) >= Wealth[u]
    BY DEF PaidIsAllowed
  <2>1. Total(UsedAllowance(u), Nonces) = 0
    BY <1>1, TotalZero DEF UsedAllowance
  <2>2. Wealth[u] \in Nat
    BY MarketAssumption DEF Accounts
  <2> QED BY <1>1, <2>1, <2>2
<1> QED BY <1>2, <1>3, <1>4, <1>5 DEF ServingInv

\* A forged reply holds receipts, of any amount and any nonce.
LEMMA ForgedAreReceipts ==
  ASSUME ServingInv, NEW n \in Nonces, req[n] # Idle
  PROVE  ForgedFinals(n) \in SUBSET Receipts
<1>1. req[n].preauth \in Receipts
  BY Requested, RequestFields DEF ServingInv
<1>2. ASSUME NEW amount \in Amounts, NEW other \in Nonces
      PROVE  [Final(req[n].preauth, amount) EXCEPT !.nonce = other] \in Receipts
  <2>1. Final(req[n].preauth, amount) \in Receipts
    BY <1>1 DEF Final, Receipts
  <2> QED BY <2>1 DEF Receipts
<1> QED BY <1>2 DEF ForgedFinals

\* Every step of clients, miners and the chain keeps the invariant.
LEMMA ServingInvNext == ServingInv /\ [ServingNext]_servingVars => ServingInv'
<1> SUFFICES ASSUME ServingInv, [ServingNext]_servingVars PROVE ServingInv'
  OBVIOUS
<1>1. CASE UNCHANGED servingVars
  <2>1. UNCHANGED <<vars, req, reply, settle, job, pending, mempool, lost, restarts>>
    BY <1>1 DEF servingVars, clientState, minerState
  <2>2. OneReceiptPerRequest' /\ \A s \in pending \cup mempool : s.miner \in Honest
    BY <2>1 DEF ServingInv, ServingTypes, OneReceiptPerRequest
  <2>3. lost \subseteq Nonces
    BY DEF ServingInv, ServingTypes
  <2> QED BY <2>1, <2>2, <2>3, QueueMoves DEF SameRequest
<1>2. ASSUME NEW n \in Nonces,
             ReceiveReply(n) \/ InferRaises(n) \/ HandleInfer(n) \/ RefuseInfer(n)
      PROVE  ServingInv'
  BY <1>2, ReceiveReplyStep, InferRaisesStep, HandleInferStep, RefuseInferStep
<1>3. ASSUME NEW n \in Nonces, NEW size \in Sizes, req[n] # Idle,
             \/ ForgeReply(n, size, {})
             \/ \E f \in ForgedFinals(n) : ForgeReply(n, size, {f})
      PROVE  ServingInv'
  <2>1. \A f \in ForgedFinals(n) : {f} \in SUBSET Receipts
    BY <1>3, ForgedAreReceipts
  <2>2. {} \in SUBSET Receipts
    OBVIOUS
  <2> QED BY <1>3, <2>1, <2>2, ForgeReplyStep
<1>4. ASSUME NEW m \in Honest, NEW sent \in SUBSET pending, NEW confirmed \in SUBSET sent,
             Flush(m, sent, confirmed)
      PROVE  ServingInv'
  BY <1>4, FlushStep
<1> QED
  BY <1>1, <1>2, <1>3, <1>4, InferStep, FinishInferStep, HandleSettleStep, MinerRestartStep,
     MineRedeemStep, LoseRedeemStep, MarketStepStep
  DEF ServingNext

LEMMA ServingInductive == ServingSpec => []ServingInv
BY ServingInvInit, ServingInvNext, PTL DEF ServingSpec

\* Every request, job, reply and queue has its type, no pre-authorization exceeds
\* its budget, and the queues hold receipts of honest miners only.
THEOREM ServingTypesHold == ServingSpec => []ServingTypeOK
<1>1. ServingInv => ServingTypeOK
  <2> SUFFICES ASSUME ServingInv PROVE ServingTypeOK
    OBVIOUS
  <2>1. ServingTypes /\ RequestsAreSigned
    BY DEF ServingInv
  <2>2. \A n \in Nonces : req[n] = Idle
                          \/ (req[n] \in Request /\ req[n].preauth.amount <= req[n].budget)
    BY <2>1 DEF ServingTypes, RequestsAreSigned
  <2>3. \A n \in Nonces : reply[n].kind \in {"none", "error", "answer"}
    BY <2>1 DEF ServingTypes, Reply
  <2> QED BY <2>1, <2>2, <2>3 DEF ServingTypes, ServingTypeOK
<1> QED BY <1>1, ServingInductive, PTL

\* A miner's queue never holds two receipts of one request.
THEOREM ServingOneReceipt == ServingSpec => []OneReceiptPerRequest
<1>1. ServingInv => OneReceiptPerRequest
  BY DEF ServingInv
<1> QED BY <1>1, ServingInductive, PTL

\* An honest miner that has not restarted holds, has sent or has been paid a receipt
\* of every text a client has checked, unless a redemption was lost.
THEOREM ServingDeliveredIsPayable == ServingSpec => []DeliveredIsPayable
<1>1. ServingInv => DeliveredIsPayable
  BY DEF ServingInv, AnsweredIsPayable, Payable, DeliveredIsPayable
<1> QED BY <1>1, ServingInductive, PTL

\* What a client has paid is within the budgets of the texts it has checked and the
\* reservations of its other requests, whatever the miners do.
THEOREM ServingWithinBudgets == ServingSpec => []ClientPaysWithinBudgets
<1>1. ServingInv => ClientPaysWithinBudgets
  <2> SUFFICES ASSUME ServingInv, NEW u \in Users
               PROVE  wallet[u] + balances[u] + Total(Allowance(u), Nonces) >= Wealth[u]
    BY DEF ClientPaysWithinBudgets
  <2>1. ServingTypes /\ PaidIsAllowed
    BY DEF ServingInv
  <2> DEFINE f == UsedAllowance(u)
             g == Allowance(u)
  <2>2. \A n \in Nonces : f[n] \in Nat /\ g[n] \in Nat
    BY <2>1, AllowanceTyped
  <2>3. \A n \in Nonces : f[n] = g[n] \/ f[n] = 0
    BY DEF UsedAllowance
  <2>4. wallet[u] + balances[u] + Total(f, Nonces) >= Wealth[u]
    BY <2>1 DEF PaidIsAllowed
  <2> HIDE DEF f, g
  <2>5. /\ Total(f, Nonces) \in Nat /\ Total(g, Nonces) \in Nat
        /\ Total(f, Nonces) <= Total(g, Nonces)
    <3>1. \A n \in Nonces : g[n] \in Nat /\ f[n] <= g[n]
      BY <2>2, <2>3
    <3> QED BY <2>2, <3>1, ServingAssumption, CoinsFinite, TotalPointwise
  <2>6. wallet[u] \in Nat /\ balances[u] \in Nat /\ Wealth[u] \in Nat
    BY <2>1, MarketAssumption DEF ServingTypes, MarketTypeOK, Accounts
  <2>7. wallet[u] + balances[u] + Total(g, Nonces) >= Wealth[u]
    BY <2>4, <2>5, <2>6
  <2> QED BY <2>7 DEF g
<1> QED BY <1>1, ServingInductive, PTL

-----------------------------------------------------------------------------
(* Serving on its market.                                                  *)

\* Clients sign receipts, which the market does not see.
ClientsSign ==
  /\ signed \subseteq signed' /\ signed' \subseteq Receipts
  /\ UNCHANGED <<now, marketVars>>

\* The market with clients that sign what and as much as they like: Market without
\* its bound on the number of receipts.
OpenMarket == Init /\ [][Next \/ ClientsSign]_vars

\* Everything clients and miners do is, for the market, one of its calls, a signature
\* or nothing.
THEOREM ServingImplementsMarket == ServingSpec => OpenMarket
<1>1. ServingInit => Init
  BY DEF ServingInit
<1>2. ServingInv /\ ServingInv' /\ [ServingNext]_servingVars => [Next \/ ClientsSign]_vars
  <2> SUFFICES ASSUME ServingInv, ServingInv', [ServingNext]_servingVars
               PROVE  [Next \/ ClientsSign]_vars
    OBVIOUS
  <2>1. signed' \subseteq Receipts
    BY DEF ServingInv, ServingTypes, MarketTypeOK
  <2>2. ASSUME NEW n, NEW u, NEW m, NEW b, NEW budget, NEW asked,
               Infer(n, u, m, b, budget, asked)
        PROVE  ClientsSign
    BY <2>1, <2>2 DEF Infer, ClientsSign
  <2>3. ASSUME NEW n, ReceiveReply(n) PROVE ClientsSign
    BY <2>1, <2>3 DEF ReceiveReply, ClientsSign
  <2>4. ASSUME NEW n, InferRaises(n) \/ HandleInfer(n) \/ RefuseInfer(n) PROVE UNCHANGED vars
    BY <2>4 DEF InferRaises, HandleInfer, RefuseInfer
  <2>5. ASSUME NEW n, NEW size, FinishInfer(n, size) PROVE UNCHANGED vars
    BY <2>5 DEF FinishInfer
  <2>6. ASSUME NEW n, NEW size, NEW finals, ForgeReply(n, size, finals) PROVE UNCHANGED vars
    BY <2>6 DEF ForgeReply
  <2>7. ASSUME NEW r, HandleSettle(r) \/ LoseRedeem(r) PROVE UNCHANGED vars
    BY <2>7 DEF HandleSettle, LoseRedeem
  <2>8. ASSUME NEW m, NEW sent, NEW confirmed, Flush(m, sent, confirmed) PROVE UNCHANGED vars
    BY <2>8 DEF Flush
  <2>9. ASSUME NEW m, MinerRestart(m) PROVE UNCHANGED vars
    BY <2>9 DEF MinerRestart
  <2>10. ASSUME NEW r \in signed, NEW sn \in Subnets, MineRedeem(r, sn) PROVE Next
    BY <2>10 DEF MineRedeem, Next
  <2>11. CASE MarketStep
    BY <2>11, MarketStepFacts DEF ServingInv, ServingTypes
  <2>12. CASE UNCHANGED servingVars
    BY <2>12 DEF servingVars
  <2> QED
    BY <2>2, <2>3, <2>4, <2>5, <2>6, <2>7, <2>8, <2>9, <2>10, <2>11, <2>12 DEF ServingNext
<1> QED BY <1>1, <1>2, ServingInductive, PTL DEF ServingSpec, OpenMarket

\* What the proofs of Market show of its steps, with the steps in which clients sign.
LEMMA OpenStep ==
  ASSUME MarketTypeOK, MarketCustody, DelayKept, [Next \/ ClientsSign]_vars
  PROVE  /\ MarketTypeOK' /\ MarketCustody' /\ DelayKept'
         /\ SpendStep /\ CollateralStep /\ ProportionalStep
<1>1. CASE [Next]_vars
  <2>1. MarketTypeOK'
    BY <1>1, NextMarketTypeOK
  <2> QED BY <1>1, <2>1, CustodyStep, DelayStep, EveryStepSpends, EveryStepCollateral,
              EveryStepIsProportional
<1>2. CASE ClientsSign
  <2>1. UNCHANGED <<now, balances, held, feeVars, wallet, pendingWithdrawals>>
    BY <1>2 DEF ClientsSign, marketVars, clientVars
  <2>2. MarketTypeOK'
    BY <1>2, SigningTyped DEF ClientsSign
  <2>3. MarketCustody'
    BY <2>1 DEF MarketCustody, feeVars
  <2>4. DelayKept'
    BY <2>1 DEF DelayKept
  <2>5. balances \in [Users -> Nat] /\ balances' = balances
    BY <2>1 DEF MarketTypeOK
  <2>6. \A u \in Users : ~ (balances'[u] < balances[u])
    BY <2>5
  <2>7. pendingValidatorFees \in [Brains -> Nat] /\ pendingValidatorFees' = pendingValidatorFees
    BY <2>1 DEF MarketTypeOK, feeVars
  <2>8. \A b \in Brains : ~ (pendingValidatorFees'[b] < pendingValidatorFees[b])
    BY <2>7
  <2>9. ProportionalStep
    BY <2>8, Zenon DEF ProportionalStep
  <2> QED BY <2>2, <2>3, <2>4, <2>6, <2>9 DEF SpendStep, CollateralStep
<1> QED BY <1>1, <1>2

LEMMA OpenInductive == OpenMarket => [](MarketTypeOK /\ MarketCustody /\ DelayKept)
<1>1. Init => MarketTypeOK /\ MarketCustody /\ DelayKept
  BY InitMarketTypeOK, CustodyInit DEF Init, DelayKept, NoWithdrawal
<1>2. (MarketTypeOK /\ MarketCustody /\ DelayKept) /\ [Next \/ ClientsSign]_vars
        => (MarketTypeOK /\ MarketCustody /\ DelayKept)'
  BY OpenStep
<1> QED BY <1>1, <1>2, PTL DEF OpenMarket

\* With clients and miners at work the market still has custody of every deposit.
THEOREM ServingCustody == ServingSpec => []MarketCustody
BY ServingImplementsMarket, OpenInductive, PTL

\* Nor can anything they do block a withdrawal whose delay is over.
THEOREM ServingWithdrawalsNeverBlocked == ServingSpec => []WithdrawalsNeverBlocked
BY ServingImplementsMarket, OpenInductive, CustodyPays, PTL

\* A client that uses the system is charged only for what it signed, once a nonce.
THEOREM ServingSpendsOnlySigned == ServingSpec => SpendsOnlySigned
<1>1. (MarketTypeOK /\ MarketCustody /\ DelayKept) /\ [Next \/ ClientsSign]_vars
        => [SpendStep]_vars
  BY OpenStep
<1> QED BY <1>1, ServingImplementsMarket, OpenInductive, PTL
        DEF OpenMarket, SpendsOnlySigned, SpendStep

\* Nor can it withdraw the collateral of the receipts it signed before it asked.
THEOREM ServingCollateralStays == ServingSpec => CollateralStays
<1>1. (MarketTypeOK /\ MarketCustody /\ DelayKept) /\ [Next \/ ClientsSign]_vars
        => [CollateralStep]_vars
  BY OpenStep
<1> QED BY <1>1, ServingImplementsMarket, OpenInductive, PTL
        DEF OpenMarket, CollateralStays, CollateralStep

\* And its validators are paid by stake.
THEOREM ServingDistributionIsProportional == ServingSpec => DistributionIsProportional
<1>1. (MarketTypeOK /\ MarketCustody /\ DelayKept) /\ [Next \/ ClientsSign]_vars
        => [ProportionalStep]_vars
  BY OpenStep
<1> QED BY <1>1, ServingImplementsMarket, OpenInductive, PTL
        DEF OpenMarket, DistributionIsProportional, ProportionalStep
=============================================================================
