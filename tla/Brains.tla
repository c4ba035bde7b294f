------------------------------- MODULE Brains -------------------------------
(***************************************************************************)
(* The Brain token on both chains: BrainNFT and BrainBridgeAdapter on L1,  *)
(* BrainNFTL2 on L2, and the OP Stack bridge between them, whose messages  *)
(* take any time and come in any order.                                    *)
(*                                                                         *)
(* Time has only the two waits of 90 days: a stake's lock and the cooldown *)
(* of an adjustment, which are over or not.  (Each may end at any moment.) *)
(***************************************************************************)
EXTENDS Integers, FiniteSets, Totals

CONSTANTS
  Users, Assets,                    \* Pepecoin and BasedAI
  Nobody, Escrow, Adapter,          \* the L1 bridge and the BrainBridgeAdapter hold brains
  FIRST_PUBLIC_ID, MAX_SUPPLY,
  InitialStake, MaxStake            \* bound of the stake amounts

ASSUME BrainsAssumption ==
  /\ FIRST_PUBLIC_ID \in Nat /\ MAX_SUPPLY \in Nat /\ FIRST_PUBLIC_ID <= MAX_SUPPLY
  /\ InitialStake \in Nat \ {0} /\ MaxStake \in Nat
  /\ IsFiniteSet(Users)
  /\ Nobody \notin Users \cup {Escrow, Adapter}
  /\ Escrow \notin Users \cup {Adapter} /\ Adapter \notin Users

Ids == 0 .. MAX_SUPPLY - 1
Endpoints == {Escrow, Adapter}
Holders == Users \cup Endpoints

VARIABLES
  owner,          \* who holds a brain on L1
  stakes,         \* stakes; no record is NoStake
  nextPublicId, totalSupply,
  stakeAmount,    \* pepecoinStakeAmount and basedStakeAmount
  adjustable,     \* whether the cooldown of an adjustment is over
  paid,           \* what a user has paid in of an asset less what came back
  endpoints,      \* those that are `bridge` or in isBridgeEndpoint
  deposits,       \* the L1 bridge's record of what it escrows for L2
  toL2, toL1,     \* messages between the bridges
  owner2,         \* who holds a brain on L2
  burned          \* history: the brains that were given back for their stake

l1Vars    == <<owner, stakes, nextPublicId, totalSupply, burned>>
priceVars == <<stakeAmount, adjustable>>
crossVars == <<deposits, toL2, toL1, owner2>>
brainVars == <<l1Vars, priceVars, paid, endpoints, crossVars>>

NoStake == [staker |-> Nobody, asset |-> Nobody, amount |-> 0, locked |-> FALSE]

Existing == {b \in Ids : owner[b] # Nobody}

-----------------------------------------------------------------------------
(* BrainNFT.                                                               *)

\* Defect: identifiers follow the supply, which falls.
FromSupply == FIRST_PUBLIC_ID + totalSupply

Candidate == nextPublicId

\* mintByPepecoinStake, mintByBasedStake
MintByStake(u, a) ==
  /\ Candidate < MAX_SUPPLY
  /\ owner[Candidate] = Nobody                                  \* _safeMint
  /\ paid' = [paid EXCEPT ![<<u, a>>] = @ + stakeAmount[a]]
  /\ stakes' = [stakes EXCEPT ![Candidate] =
       [staker |-> u, asset |-> a, amount |-> stakeAmount[a], locked |-> TRUE]]
  /\ owner' = [owner EXCEPT ![Candidate] = u]
  /\ nextPublicId' = Candidate + 1
  /\ totalSupply' = totalSupply + 1
  /\ UNCHANGED <<burned, priceVars, endpoints, crossVars>>

MintReserved(u, b) ==
  /\ b < FIRST_PUBLIC_ID
  /\ owner[b] = Nobody                                          \* _safeMint
  /\ owner' = [owner EXCEPT ![b] = u]
  /\ totalSupply' = totalSupply + 1
  /\ UNCHANGED <<stakes, nextPublicId, burned, priceVars, paid, endpoints, crossVars>>

LockElapses(b) ==
  /\ stakes[b].locked
  /\ stakes' = [stakes EXCEPT ![b].locked = FALSE]
  /\ UNCHANGED <<owner, nextPublicId, totalSupply, burned, priceVars, paid, endpoints, crossVars>>

\* Defect: the staker may unstake wherever the brain is.
StakerMay(u, b) == stakes[b].staker = u

OwnerMay(u, b) == owner[b] = u

\* Defect: the refund is what a brain costs now.
AtTodaysPrice(b) == stakeAmount[stakes[b].asset]

Refund(b) == stakes[b].amount

\* The refund goes to the staker, whoever owns the brain by now.
DeactivateAndUnstake(u, b) ==
  LET record == stakes[b]
  IN
  /\ record # NoStake
  /\ ~ record.locked
  /\ OwnerMay(u, b)
  /\ stakes' = [stakes EXCEPT ![b] = NoStake]
  /\ owner' = [owner EXCEPT ![b] = Nobody]
  /\ totalSupply' = totalSupply - 1
  /\ paid' = [paid EXCEPT ![<<record.staker, record.asset>>] = @ - Refund(b)]
  /\ burned' = burned \cup {b}
  /\ UNCHANGED <<nextPublicId, priceVars, endpoints, crossVars>>

-----------------------------------------------------------------------------
(* Governance of BrainNFT.                                                 *)

SetStakeAmount(a, new) ==
  /\ new # 0
  /\ new <= MaxStake                                            \* bound
  /\ adjustable[a]
  /\ new >= stakeAmount[a] \div 2 /\ new <= stakeAmount[a] * 2
  /\ stakeAmount' = [stakeAmount EXCEPT ![a] = new]
  /\ adjustable' = [adjustable EXCEPT ![a] = FALSE]
  /\ UNCHANGED <<l1Vars, paid, endpoints, crossVars>>

CooldownElapses(a) ==
  /\ ~ adjustable[a]
  /\ adjustable' = [adjustable EXCEPT ![a] = TRUE]
  /\ UNCHANGED <<l1Vars, stakeAmount, paid, endpoints, crossVars>>

\* setBridge and setBridgeEndpoint
SetBridgeEndpoint(e, allowed) ==
  /\ endpoints' = IF allowed THEN endpoints \cup {e} ELSE endpoints \ {e}
  /\ UNCHANGED <<l1Vars, priceVars, paid, crossVars>>

-----------------------------------------------------------------------------
(* Between the chains.                                                     *)

\* _update: one of the two ends has to be an authorized endpoint.
MayMove(from, to) == from \in endpoints \/ to \in endpoints

\* transferFrom of the owner to an endpoint, which no bridge knows of.
SendToEndpoint(u, b, e) ==
  /\ owner[b] = u
  /\ MayMove(u, e)
  /\ owner' = [owner EXCEPT ![b] = e]
  /\ UNCHANGED <<stakes, nextPublicId, totalSupply, burned, priceVars, paid, endpoints, crossVars>>

\* bridgeERC721To of the L1 bridge, called by the owner or, in bridgeToL2, by the
\* adapter, which has taken the brain first.
BridgeToL2(u, b, to, adapted) ==
  /\ owner[b] = u
  /\ IF adapted THEN MayMove(u, Adapter) /\ MayMove(Adapter, Escrow) ELSE MayMove(u, Escrow)
  /\ owner' = [owner EXCEPT ![b] = Escrow]
  /\ deposits' = deposits \cup {b}
  /\ toL2' = toL2 \cup {[brain |-> b, to |-> to]}
  /\ UNCHANGED <<stakes, nextPublicId, totalSupply, burned, priceVars, paid, endpoints, toL1, owner2>>

\* The L2 bridge calls safeMint.
MintOnL2(msg) ==
  /\ msg \in toL2
  /\ owner2[msg.brain] = Nobody
  /\ owner2' = [owner2 EXCEPT ![msg.brain] = msg.to]
  /\ toL2' = toL2 \ {msg}
  /\ UNCHANGED <<l1Vars, priceVars, paid, endpoints, deposits, toL1>>

\* The owner withdraws through the L2 bridge, which calls burn.
BurnOnL2(u, b, to) ==
  /\ owner2[b] = u
  /\ owner2' = [owner2 EXCEPT ![b] = Nobody]
  /\ toL1' = toL1 \cup {[brain |-> b, to |-> to]}
  /\ UNCHANGED <<l1Vars, priceVars, paid, endpoints, deposits, toL2>>

\* The L1 bridge releases the brain, or fails while it is not an endpoint.
ReleaseOnL1(msg) ==
  /\ msg \in toL1
  /\ msg.brain \in deposits
  /\ owner[msg.brain] = Escrow
  /\ MayMove(Escrow, msg.to)
  /\ owner' = [owner EXCEPT ![msg.brain] = msg.to]
  /\ deposits' = deposits \ {msg.brain}
  /\ toL1' = toL1 \ {msg}
  /\ UNCHANGED <<stakes, nextPublicId, totalSupply, burned, priceVars, paid, endpoints, toL2, owner2>>

BrainsInit ==
  /\ owner = [b \in Ids |-> Nobody]
  /\ stakes = [b \in Ids |-> NoStake]
  /\ nextPublicId = FIRST_PUBLIC_ID /\ totalSupply = 0
  /\ stakeAmount = [a \in Assets |-> InitialStake]
  /\ adjustable = [a \in Assets |-> TRUE]
  /\ paid = [ua \in Users \X Assets |-> 0]
  /\ endpoints = {}
  /\ deposits = {} /\ toL2 = {} /\ toL1 = {}
  /\ owner2 = [b \in Ids |-> Nobody]
  /\ burned = {}

BrainsNext ==
  \/ \E u \in Users :
       \/ \E a \in Assets : MintByStake(u, a)
       \/ \E b \in Ids :
            \/ MintReserved(u, b) \/ DeactivateAndUnstake(u, b)
            \/ \E e \in Endpoints : SendToEndpoint(u, b, e)
            \/ \E to \in Users :
                 BurnOnL2(u, b, to) \/ \E adapted \in BOOLEAN : BridgeToL2(u, b, to, adapted)
  \/ \E b \in Ids : LockElapses(b)
  \/ \E a \in Assets : CooldownElapses(a) \/ \E new \in 1 .. MaxStake : SetStakeAmount(a, new)
  \/ \E e \in Endpoints, allowed \in BOOLEAN : SetBridgeEndpoint(e, allowed)
  \/ \E msg \in toL2 : MintOnL2(msg)
  \/ \E msg \in toL1 : ReleaseOnL1(msg)

BrainsSpec == BrainsInit /\ [][BrainsNext]_brainVars

-----------------------------------------------------------------------------
(* Properties.                                                             *)

InFlight(b) == {msg \in toL2 \cup toL1 : msg.brain = b}

\* Where a brain that left L1 is: on its way or with an owner on L2.
Away(b) == InFlight(b) # {} \/ owner2[b] # Nobody

\* A brain can vote or earn on L2 only while the original is in the bridge's
\* escrow, and then it exists once: as one message or with one owner, whatever
\* order the messages take, whoever unstakes and whichever endpoints governance
\* revokes in the meantime.
OneLiveCopy ==
  \A b \in Ids :
    /\ Away(b) <=> b \in deposits
    /\ b \in deposits => owner[b] = Escrow
    /\ owner2[b] # Nobody => InFlight(b) = {}
    /\ \A msg, other \in InFlight(b) : msg = other
    /\ ~ \E msg \in toL1, other \in toL2 : msg.brain = b /\ other.brain = b

StakedBy(u, a) ==
  [b \in Ids |-> IF stakes[b].staker = u /\ stakes[b].asset = a THEN stakes[b].amount ELSE 0]

\* Every staker is owed, in the asset it paid, what it paid for its brains that
\* still exist: price changes, crossings and new owners take nothing from it.
StakesAreBacked ==
  /\ \A u \in Users, a \in Assets : paid[<<u, a>>] = Total(StakedBy(u, a), Ids)
  /\ \A b \in Ids : stakes[b] # NoStake => b \in Existing

\* "IDs are ... never reused": a brain that was given back does not come back under
\* the same identifier on either chain, and the supply is that of the brains there are.
NoIdTwice ==
  /\ \A b \in burned : owner[b] = Nobody /\ ~ Away(b)
  /\ totalSupply = Cardinality(Existing)
=============================================================================
