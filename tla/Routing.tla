------------------------------- MODULE Routing -------------------------------
(***************************************************************************)
(* How a client's paid request finds its miner: infer of the client        *)
(* (client/python/basedai_client/client.py), the gateway's proxy           *)
(* (gateway/src/basedai_gateway/server.py, _proxy_to_target) and the       *)
(* miner's handlers.                                                       *)
(*                                                                         *)
(* A call lists the miners, posts to /infer and then to /settle.  Each of  *)
(* the three is a request of its own, and the gateway's handler gives way  *)
(* while the miner works.  Money and text are left to Serving: a call has  *)
(* here only the miner its receipts name.                                  *)
(***************************************************************************)
EXTENDS Gateway

CONSTANTS Calls, MAX_INFLIGHT

ASSUME RoutingAssumption == IsFiniteSet(Calls) /\ MAX_INFLIGHT \in Nat

VARIABLES
  call,         \* the calls of infer, by name
  inflight      \* what the gateway counts

routingVars == <<gatewayVars, call, inflight>>

NoOne == "no one"
Over == [pc |-> "idle", miner |-> NoOne, at |-> NoOne, answer |-> "none", by |-> NoOne]

Raise(c) == call' = [call EXCEPT ![c] = Over]

\* The places where the gateway's handler awaits the proxy.
AtMiner(c) == call[c].pc \in {"inferring", "settling"}

-----------------------------------------------------------------------------
(* The client picks the first of the best scored and names it in the       *)
(* pre-authorization and as the target.                                    *)
ListMiners(c, m) ==
  /\ call[c] = Over
  /\ BestScored(m)
  /\ call' = [call EXCEPT ![c].pc = "infer", ![c].miner = m]
  /\ UNCHANGED <<gatewayVars, inflight>>

-----------------------------------------------------------------------------
(* The gateway.                                                            *)

\* Where /infer goes: to the target's endpoint, fresh or not, or else to the best.
InferRoute(c, m) ==
  \/ m = call[c].miner /\ endpoints[m] # NoEndpoint
  \/ endpoints[call[c].miner] = NoEndpoint /\ BestScored(m)

\* Where /settle goes: the client names no target.
SettleRoute(c, m) == BestScored(m)

HasCapacity == inflight < MAX_INFLIGHT

Dial(c, m, place) ==
  /\ HasCapacity
  /\ inflight' = inflight + 1
  /\ call' = [call EXCEPT ![c].pc = place, ![c].at = m]
  /\ UNCHANGED gatewayVars

ProxyInfer(c, m)  == call[c].pc = "infer" /\ InferRoute(c, m) /\ Dial(c, m, "inferring")
ProxySettle(c, m) == call[c].pc = "settle" /\ SettleRoute(c, m) /\ Dial(c, m, "settling")

\* 429, 502 or 503, or the request is lost: infer raises, a failed settlement is ignored.
Refuse(c) ==
  /\ call[c].pc \in {"infer", "settle"}
  /\ Raise(c)
  /\ UNCHANGED <<gatewayVars, inflight>>

\* Defect: the slot of a call that failed is not given back.
OnlyOnSuccess(failed) == IF failed THEN inflight ELSE inflight - 1

SlotsAfter(failed) == inflight - 1

\* The miner cannot be reached, does not answer in time, or the client has gone.
ProxyFails(c) ==
  /\ AtMiner(c)
  /\ inflight' = SlotsAfter(TRUE)
  /\ Raise(c)
  /\ UNCHANGED gatewayVars

\* What the miner said goes to the client, which settles what it accepts.
ProxyReturns(c) ==
  /\ AtMiner(c)
  /\ call[c].answer # "none"
  /\ inflight' = SlotsAfter(FALSE)
  /\ IF call[c].pc = "inferring" /\ call[c].answer = "ok"
     THEN call' = [call EXCEPT ![c] = [Over EXCEPT !.pc = "settle", !.miner = call[c].miner,
                                                   !.by = call[c].at]]
     ELSE Raise(c)
  /\ UNCHANGED gatewayVars

\* The connections of a gateway that goes down are closed.
RestartWithCalls ==
  /\ GatewayRestart
  /\ inflight' = 0
  /\ call' = [c \in Calls |-> IF AtMiner(c) THEN Over ELSE call[c]]

-----------------------------------------------------------------------------
(* The miner.                                                              *)

\* Defect: a miner serves whomever the receipt names.
AnyReceipt(c) == TRUE

\* _check_eligibility: "wrong miner"
NamesItself(c) == call[c].at = call[c].miner

\* The other checks of the receipt, or the engine, may fail as well.
MinerAnswers(c) ==
  /\ AtMiner(c)
  /\ call[c].answer = "none"
  /\ \/ NamesItself(c) /\ call' = [call EXCEPT ![c].answer = "ok"]
     \/ call' = [call EXCEPT ![c].answer = "error"]
  /\ UNCHANGED <<gatewayVars, inflight>>

RoutingInit ==
  /\ GatewayInit
  /\ call = [c \in Calls |-> Over]
  /\ inflight = 0

RoutingNext ==
  \/ GatewayNext /\ UNCHANGED <<call, inflight>>
  \/ RestartWithCalls
  \/ \E c \in Calls : Refuse(c) \/ ProxyFails(c) \/ ProxyReturns(c) \/ MinerAnswers(c)
  \/ \E c \in Calls, m \in Miners : ListMiners(c, m) \/ ProxyInfer(c, m) \/ ProxySettle(c, m)

RoutingSpec == RoutingInit /\ [][RoutingNext]_routingVars /\ GatewayFairness

-----------------------------------------------------------------------------
\* A slot is taken exactly while the gateway waits for a miner: none leaks when a
\* miner fails or refuses, a client goes or the gateway restarts, so that those
\* waiting never lose the capacity for good.
SlotsAreExact == inflight = Cardinality({c \in Calls : AtMiner(c)})

\* The text a client pays for was made by the miner its receipts name, wherever
\* the gateway sent the request when that miner's endpoint was gone.
WorkIsPaidToWorker ==
  \A c \in Calls : call[c].pc \in {"settle", "settling"} => call[c].by = call[c].miner
=============================================================================
