------------------------------- MODULE Serving -------------------------------
(***************************************************************************)
(* Paid inference: the clients (client/python/basedai_client/client.py),   *)
(* the miners (miner/src/basedai_miner/runtime.py and receipts.py) and the *)
(* market they settle on.                                                  *)
(*                                                                         *)
(* A request is named by its nonce, a fresh random number.  Messages pass  *)
(* the gateway and may be lost: nothing forces one to be handled.  Each    *)
(* handler of an honest miner is one coroutine: it gives way only at       *)
(* engine.generate, where HandleInfer ends and FinishInfer begins.  One    *)
(* that refuses a receipt leaves it in settle.  A client only asks miners  *)
(* of its brain.  The text is abstracted to its size.                      *)
(*                                                                         *)
(* Miners outside Honest answer anything and redeem what they like.        *)
(* Clients and miners read the time and the balances of the latest block.  *)
(***************************************************************************)
EXTENDS Market

CONSTANTS
  Honest,                  \* the miners that run the code
  DEFAULT_RESERVATION,
  RECEIPT_LIFETIME,        \* one hour
  Budgets,                 \* the budgets a client may set
  Asked,                   \* the reservations a client may ask for, 0 for none
  Sizes,                   \* bytes of a prompt with its response
  MaxRestarts              \* bound

ASSUME ServingAssumption ==
  /\ Honest \subseteq Miners
  /\ DEFAULT_RESERVATION \in Nat /\ RECEIPT_LIFETIME \in Nat
  /\ Budgets \subseteq Nat /\ Asked \subseteq Nat /\ Sizes \subseteq Nat
  /\ MaxRestarts \in Nat
  /\ IsFiniteSet(Nonces)

VARIABLES
  req,        \* a client's infer call, by nonce
  job,        \* the miner's handler of /infer, by nonce
  reply,      \* the answer on its way to the client, by nonce
  settle,     \* the final receipts on their way to POST /settle
  pending,    \* ReceiptBatcher._pending of the honest miners
  mempool,    \* the redemptions that were sent
  lost,       \* the nonces of redemptions that reverted or were dropped
  restarts

clientState  == <<req, reply, settle>>
minerState   == <<job, pending, mempool, lost, restarts>>
servingVars  == <<vars, clientState, minerState>>

Lower(a, b)  == IF a < b THEN a ELSE b
Higher(a, b) == IF a < b THEN b ELSE a

\* quote: the metered charge, the same for the miner and the client.
Quote(size) == price.perRequest + price.perByte * size

Idle == [pc |-> "idle"]
NoReply == [kind |-> "none"]
Failure == [kind |-> "error"]
Answer(size, finals) == [kind |-> "answer", size |-> size, finals |-> finals]

\* The final receipt of a request: it binds the response, so it has no preauth.
Final(r, amount) == [r EXCEPT !.preauth = FALSE, !.amount = amount]

SameRequest(r, s) == r.user = s.user /\ r.nonce = s.nonce

-----------------------------------------------------------------------------
(* The client.                                                             *)

\* Defect: a reservation the caller asks for is not held to the budget.
AnyReservation(budget, asked) ==
  IF asked # 0 THEN asked ELSE Lower(budget, DEFAULT_RESERVATION)

Reservation(budget, asked) ==
  Lower(budget, IF asked # 0 THEN asked ELSE Lower(budget, DEFAULT_RESERVATION))

\* The amounts of an instance are at least those its clients may sign.
ASSUME AmountsAssumption ==
  /\ \A budget \in Budgets, asked \in (Asked \ {0}) \cup {DEFAULT_RESERVATION} :
       Lower(budget, asked) \in Amounts
  /\ \A p \in Prices, size \in Sizes, budget \in Budgets :
       Lower(p.perRequest + p.perByte * size, budget) \in Amounts

Infer(n, u, m, b, budget, asked) ==
  LET preauth == [user |-> u, miner |-> m, brain |-> b, preauth |-> TRUE,
                  amount |-> Reservation(budget, asked),
                  expiry |-> now + RECEIPT_LIFETIME, nonce |-> n, signedAt |-> now]
  IN
  /\ req[n] = Idle
  /\ preauth.expiry <= MaxTime                          \* bound
  /\ req' = [req EXCEPT ![n] = [pc |-> "waiting", budget |-> budget, preauth |-> preauth]]
  /\ signed' = signed \cup {preauth}
  /\ job' = [job EXCEPT ![n] = "requested"]
  /\ UNCHANGED <<now, marketVars, reply, settle, pending, mempool, lost, restarts>>

\* Defect: any receipt that names the client is counter-signed.
IdentityIgnored(preauth, final) == final.user = preauth.user

\* _assert_final_receipt_identity
IdentityKept(preauth, final) ==
  /\ final.user = preauth.user /\ final.miner = preauth.miner /\ final.brain = preauth.brain
  /\ final.expiry = preauth.expiry /\ final.nonce = preauth.nonce

\* The proposed final receipt is the metered charge of the text that came.
Accepts(q, a, final) ==
  /\ IdentityKept(q.preauth, final)
  /\ final.amount <= q.budget
  /\ final.amount = Lower(Quote(a.size), q.budget)

\* The client checks the answer and counter-signs the final receipt, if there is
\* one, which it then posts.
ReceiveReply(n) ==
  LET finals == {[f EXCEPT !.signedAt = now] : f \in reply[n].finals}
  IN
  /\ req[n].pc = "waiting"
  /\ reply[n].kind = "answer"
  /\ \A f \in finals : Accepts(req[n], reply[n], f)
  /\ req' = [req EXCEPT ![n].pc = "done"]
  /\ reply' = [reply EXCEPT ![n] = NoReply]
  /\ signed' = signed \cup finals
  /\ settle' = settle \cup finals
  /\ UNCHANGED <<now, marketVars, minerState>>

\* infer raises: an HTTP error or a timeout, or a check that failed.
InferRaises(n) ==
  /\ req[n].pc = "waiting"
  /\ req' = [req EXCEPT ![n].pc = "failed"]
  /\ reply' = [reply EXCEPT ![n] = NoReply]
  /\ UNCHANGED <<vars, settle, minerState>>

-----------------------------------------------------------------------------
(* The miner.                                                              *)

\* _check_eligibility; a failed read of the chain refuses as well.
Eligible(r, balance) ==
  /\ r.miner \in Honest
  /\ r.expiry > now
  /\ Unused(r.user, r.nonce)
  /\ balances[r.user] >= balance

HandleInfer(n) ==
  /\ job[n] = "requested"
  /\ Eligible(req[n].preauth, Higher(req[n].budget, req[n].preauth.amount))
  /\ job' = [job EXCEPT ![n] = "generating"]
  /\ UNCHANGED <<vars, clientState, pending, mempool, lost, restarts>>

\* The request is not eligible, the chain cannot be read, or generate raises.
RefuseInfer(n) ==
  /\ req[n] # Idle /\ req[n].preauth.miner \in Honest
  /\ job[n] \in {"requested", "generating"}
  /\ job' = [job EXCEPT ![n] = "over"]
  /\ reply' = [reply EXCEPT ![n] = Failure]
  /\ UNCHANGED <<vars, req, settle, pending, mempool, lost, restarts>>

\* The response is there: the pre-authorization is queued first, then the price
\* is read, which may fail.
FinishInfer(n, size) ==
  LET r == req[n].preauth
  IN
  /\ job[n] = "generating"
  /\ job' = [job EXCEPT ![n] = "over"]
  /\ pending' = pending \cup {r}
  /\ \/ reply' = [reply EXCEPT ![n] =
                    Answer(size, {Final(r, Lower(Quote(size), req[n].budget))})]
     \/ reply' = [reply EXCEPT ![n] = Failure]
  /\ UNCHANGED <<vars, req, settle, mempool, lost, restarts>>

\* Defect: the final receipt is queued beside the pre-authorization.
Beside(q, r) == q \cup {r}

\* ReceiptBatcher.add_or_replace
Replaced(q, r) == {p \in q : ~ SameRequest(p, r)} \cup {r}

HandleSettle(r) ==
  /\ r \in settle
  /\ Eligible(r, r.amount)
  /\ settle' = settle \ {r}
  /\ pending' = Replaced(pending, r)
  /\ UNCHANGED <<vars, req, reply, job, mempool, lost, restarts>>

\* Defect: the queue is emptied whether or not a receipt was sent.
NothingRetained(q, m, confirmed) == {r \in q : r.miner # m}

Retained(q, m, confirmed) == q \ confirmed

\* ReceiptBatcher.flush.  A receipt that would revert fails at the estimate of
\* its gas; any other may fail at the RPC, before it was sent or after.  All
\* that fail are kept for the next flush.
Flush(m, sent, confirmed) ==
  /\ sent \subseteq {r \in pending : r.miner = m /\ Redeemable(r)}
  /\ pending' = Retained(pending, m, confirmed)
  /\ mempool' = mempool \cup sent
  /\ UNCHANGED <<vars, clientState, job, lost, restarts>>

\* A crash: the queue and the handlers are in memory.
MinerRestart(m) ==
  /\ restarts < MaxRestarts
  /\ restarts' = restarts + 1
  /\ pending' = {r \in pending : r.miner # m}
  /\ job' = [n \in Nonces |->
               IF job[n] = "generating" /\ req[n].preauth.miner = m THEN "over" ELSE job[n]]
  /\ UNCHANGED <<vars, clientState, mempool, lost>>

-----------------------------------------------------------------------------
(* Miners that do not run the code, the chain and the other calls.         *)

ForgeReply(n, size, finals) ==
  /\ job[n] = "requested"
  /\ req[n].preauth.miner \notin Honest
  /\ job' = [job EXCEPT ![n] = "over"]
  /\ reply' = [reply EXCEPT ![n] = Answer(size, finals)]
  /\ UNCHANGED <<vars, req, settle, pending, mempool, lost, restarts>>

MineRedeem(r, sn) ==
  /\ Redeem(r, sn)
  /\ r \in mempool \/ r.miner \notin Honest
  /\ mempool' = mempool \ {r}
  /\ UNCHANGED <<clientState, job, pending, lost, restarts>>

\* The transaction reverts, or is dropped.
LoseRedeem(r) ==
  /\ r \in mempool
  /\ mempool' = mempool \ {r}
  /\ lost' = lost \cup {r.nonce}
  /\ UNCHANGED <<vars, clientState, job, pending, restarts>>

MarketStep ==
  /\ \/ \E value \in Prices : SetPricing(value)
     \/ \E u \in Users, amount \in Amounts : Deposit(u, amount) \/ RequestWithdraw(u, amount)
     \/ \E u \in Users : CancelWithdraw(u) \/ Withdraw(u)
     \/ Tick
  /\ UNCHANGED <<clientState, minerState>>

ServingInit ==
  /\ Init
  /\ req = [n \in Nonces |-> Idle]
  /\ job = [n \in Nonces |-> "none"]
  /\ reply = [n \in Nonces |-> NoReply]
  /\ settle = {} /\ pending = {} /\ mempool = {} /\ lost = {}
  /\ restarts = 0

ForgedFinals(n) ==
  {[Final(req[n].preauth, amount) EXCEPT !.nonce = other] : amount \in Amounts, other \in Nonces}

ServingNext ==
  \/ \E n \in Nonces, u \in Users, m \in Miners, b \in Brains,
        budget \in Budgets, asked \in Asked : Infer(n, u, m, b, budget, asked)
  \/ \E n \in Nonces : ReceiveReply(n) \/ InferRaises(n) \/ HandleInfer(n) \/ RefuseInfer(n)
  \/ \E n \in Nonces, size \in Sizes : FinishInfer(n, size)
  \/ \E r \in settle : HandleSettle(r)
  \/ \E m \in Honest, sent \in SUBSET pending :
       \E confirmed \in SUBSET sent : Flush(m, sent, confirmed)
  \/ \E m \in Honest : MinerRestart(m)
  \/ \E n \in Nonces, size \in Sizes :
       /\ req[n] # Idle
       /\ \/ ForgeReply(n, size, {})
          \/ \E f \in ForgedFinals(n) : ForgeReply(n, size, {f})
  \/ \E r \in signed, sn \in Subnets : MineRedeem(r, sn)
  \/ \E r \in mempool : LoseRedeem(r)
  \/ MarketStep

ServingSpec == ServingInit /\ [][ServingNext]_servingVars

-----------------------------------------------------------------------------
Request == [pc : {"waiting", "done", "failed"}, budget : Budgets, preauth : Receipts]

\* Every variable has its type; no pre-authorization exceeds its budget, and the
\* queues hold receipts of honest miners only.
ServingTypeOK ==
  /\ \A n \in Nonces :
       \/ req[n] = Idle
       \/ req[n] \in Request /\ req[n].preauth.amount <= req[n].budget
  /\ job \in [Nonces -> {"none", "requested", "generating", "over"}]
  /\ \A n \in Nonces : reply[n].kind \in {"none", "error", "answer"}
  /\ settle \subseteq signed
  /\ pending \cup mempool \subseteq {r \in signed : r.miner \in Honest}
  /\ lost \subseteq Nonces
  /\ restarts \in 0 .. MaxRestarts

\* What the requests of u may cost it: the budget if the text was delivered and
\* checked, the reservation otherwise.
Allowance(u) ==
  [n \in Nonces |->
     IF req[n] = Idle THEN 0
     ELSE IF req[n].preauth.user # u THEN 0
     ELSE IF req[n].pc = "done" THEN req[n].budget
     ELSE req[n].preauth.amount]

\* Whatever the miners answer, replay, hold back or redeem: all a client has paid
\* is within the budgets of the requests whose text it checked, and the
\* reservations of the others.
ClientPaysWithinBudgets ==
  \A u \in Users :
    wallet[u] + balances[u] + Total(Allowance(u), Nonces) >= Wealth[u]

\* The queue never holds two receipts of one request, of which only one could be
\* redeemed: the counter-signed receipt takes the place of the pre-authorization.
OneReceiptPerRequest ==
  \A r, s \in pending : SameRequest(r, s) => r = s

\* An honest miner is not unpaid for a delivered response: a receipt of the
\* request is queued or sent, or has paid, unless the miner has restarted or a
\* sent redemption failed.
DeliveredIsPayable ==
  \A n \in Nonces :
    (req[n].pc = "done" /\ restarts = 0 /\ n \notin lost) =>
      LET r == req[n].preauth
      IN r.miner \in Honest =>
           \/ \E s \in pending \cup mempool : SameRequest(r, s)
           \/ <<r.user, n>> \in usedNonces
=============================================================================
