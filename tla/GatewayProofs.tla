---------------------------- MODULE GatewayProofs ---------------------------
(***************************************************************************)
(* The safety properties of the gateway: of Gateway and Routing for every  *)
(* set of miners and calls, every skew of the clocks, every time to live   *)
(* and capacity, and of ChainIndex for every set of members and events,    *)
(* depth of confirmation, buffer, chain and branch.                        *)
(***************************************************************************)
EXTENDS Routing, ChainIndex, TotalsTheorems


Post == [miner : Miners, age : Int]
Endpoint == [age : Int, score : Int]

GatewayTypeOK ==
  /\ members \subseteq Miners
  /\ endpoints \in [Miners -> Endpoint]
  /\ posts \subseteq Post
  /\ quiet \in [Miners -> Nat]

\* Nothing of a miner, under way or in the list, is younger than its silence.
NothingIsYounger ==
  /\ \A p \in posts : quiet[p.miner] <= p.age + Ahead[p.miner]
  /\ \A m \in Miners : Fresh(m) => quiet[m] <= endpoints[m].age + Ahead[m]

GatewayInv == GatewayTypeOK /\ NothingIsYounger

-----------------------------------------------------------------------------
(* The listing.                                                            *)

LEMMA GatewayInvInit == GatewayInit => GatewayInv
<1> SUFFICES ASSUME GatewayInit PROVE GatewayInv
  OBVIOUS
<1>1. \A m \in Miners : Longest + Ahead[m] \in Nat
  BY GatewayAssumption DEF Longest
<1> QED BY <1>1 DEF GatewayInit, GatewayInv, GatewayTypeOK, NothingIsYounger, NoEndpoint, Endpoint, Fresh

\* Endpoints that are forgotten or keep their age are as old as they were.
LEMMA NoneYounger ==
  ASSUME GatewayInv, UNCHANGED <<posts, quiet>>, endpoints' \in [Miners -> Endpoint],
         \A m \in Miners : endpoints'[m] = NoEndpoint
                           \/ (endpoints[m] # NoEndpoint /\ endpoints'[m].age = endpoints[m].age)
  PROVE  NothingIsYounger'
BY DEF GatewayInv, NothingIsYounger, Fresh

LEMMA GatewayInvNext == GatewayInv /\ [RoutingNext]_routingVars => GatewayInv'
<1> SUFFICES ASSUME GatewayInv, [RoutingNext]_routingVars PROVE GatewayInv'
  OBVIOUS
<1>0. /\ GatewayTypeOK /\ NothingIsYounger
      /\ \A m \in Miners : Ahead[m] \in Nat
      /\ NoEndpoint \in Endpoint /\ ENDPOINT_TTL \in Nat
  BY GatewayAssumption DEF GatewayInv, NoEndpoint, Endpoint
<1>a. ASSUME UNCHANGED <<members, endpoints, posts, quiet>> PROVE GatewayInv'
  BY <1>0, <1>a DEF GatewayInv, GatewayTypeOK, NothingIsYounger, Fresh
<1>1. ASSUME NEW m \in Miners, ChangeMembership(m) PROVE GatewayInv'
  BY <1>1, <1>a DEF ChangeMembership
<1>2. ASSUME NEW n \in 0 .. MaxEvents, Poll(n) PROVE GatewayInv'
  <2>1. /\ UNCHANGED <<posts, quiet>> /\ members' \subseteq Miners
        /\ endpoints' = [m \in Miners |-> IF m \in EverLeft(SubSeq(log, 1, n))
                                          THEN NoEndpoint ELSE endpoints[m]]
    BY <1>2 DEF Poll, Rebuilt, Registered
  <2>2. endpoints' \in [Miners -> Endpoint]
    BY <1>0, <2>1 DEF GatewayTypeOK
  <2>3. \A m \in Miners : endpoints'[m] = NoEndpoint
                          \/ (endpoints[m] # NoEndpoint /\ endpoints'[m].age = endpoints[m].age)
    BY <2>1
  <2> QED BY <1>0, <2>1, <2>2, <2>3, NoneYounger DEF GatewayInv, GatewayTypeOK
<1>3. CASE GatewayRestart
  <2>1. UNCHANGED <<members, posts, quiet>> /\ endpoints' = [m \in Miners |-> NoEndpoint]
    BY <1>3 DEF GatewayRestart
  <2>2. endpoints' \in [Miners -> Endpoint]
    BY <1>0, <2>1
  <2> QED BY <1>0, <2>1, <2>2, NoneYounger DEF GatewayInv, GatewayTypeOK
<1>4. ASSUME NEW m \in Miners, AnnounceOnce(m) PROVE GatewayInv'
  <2>1. /\ posts' = posts \cup {[miner |-> m, age |-> -Ahead[m]]}
        /\ quiet' = [quiet EXCEPT ![m] = 0] /\ UNCHANGED <<members, endpoints>>
    BY <1>4 DEF AnnounceOnce
  <2>2. GatewayTypeOK'
    BY <1>0, <2>1 DEF GatewayTypeOK, Post
  <2>3. \A x \in Miners : quiet[x] \in Nat /\ quiet'[x] = IF x = m THEN 0 ELSE quiet[x]
    BY <1>0, <2>1 DEF GatewayTypeOK
  <2>4. \A x \in Miners : quiet'[x] <= quiet[x]
    BY <2>3
  <2>5. \A p \in posts' : quiet'[p.miner] <= p.age + Ahead[p.miner]
    <3>1. ASSUME NEW p \in posts PROVE quiet'[p.miner] <= p.age + Ahead[p.miner]
      <4>1. p.miner \in Miners /\ p.age \in Int
        BY <1>0 DEF GatewayTypeOK, Post
      <4>2. quiet[p.miner] <= p.age + Ahead[p.miner]
        BY <1>0 DEF NothingIsYounger
      <4> QED BY <1>0, <2>3, <4>1, <4>2
    <3>2. quiet'[m] <= (-Ahead[m]) + Ahead[m]
      BY <1>0, <2>3
    <3> QED BY <2>1, <3>1, <3>2
  <2>6. ASSUME NEW x \in Miners, Fresh(x)' PROVE quiet'[x] <= endpoints'[x].age + Ahead[x]
    <3>1. quiet[x] <= endpoints[x].age + Ahead[x] /\ endpoints[x].age \in Int
      BY <1>0, <2>1, <2>6 DEF NothingIsYounger, Fresh, GatewayTypeOK, Endpoint
    <3> QED BY <1>0, <2>1, <2>3, <3>1
  <2> QED BY <2>2, <2>5, <2>6 DEF GatewayInv, NothingIsYounger
<1>5. ASSUME NEW p \in posts, HandleAnnounce(p) PROVE GatewayInv'
  <2>1. /\ endpoints' = [endpoints EXCEPT ![p.miner] = [age |-> p.age, score |-> 0]]
        /\ UNCHANGED <<members, posts, quiet>>
    BY <1>5 DEF HandleAnnounce, Announced
  <2>2. p.miner \in Miners /\ p.age \in Int
    BY <1>0 DEF GatewayTypeOK, Post
  <2>3. GatewayTypeOK'
    BY <1>0, <2>1, <2>2 DEF GatewayTypeOK, Endpoint
  <2>4. ASSUME NEW m \in Miners, Fresh(m)' PROVE quiet'[m] <= endpoints'[m].age + Ahead[m]
    <3>1. CASE m = p.miner
      BY <1>0, <2>1, <2>2, <3>1 DEF NothingIsYounger, GatewayTypeOK
    <3>2. CASE m # p.miner
      BY <1>0, <2>1, <2>4, <3>2 DEF NothingIsYounger, GatewayTypeOK, Fresh
    <3> QED BY <3>1, <3>2
  <2> QED BY <1>0, <2>1, <2>3, <2>4 DEF GatewayInv, NothingIsYounger
<1>6. ASSUME NEW m, NEW score, SubmitScore(m, score) PROVE GatewayInv'
  <2>1. m \in Miners /\ score \in Nat /\ endpoints[m] # NoEndpoint
        /\ endpoints' = [endpoints EXCEPT ![m].score = score] /\ UNCHANGED <<members, posts, quiet>>
    BY <1>6, GatewayAssumption DEF SubmitScore
  <2>2. endpoints' \in [Miners -> Endpoint]
    BY <1>0, <2>1 DEF GatewayTypeOK, Endpoint
  <2>3. \A x \in Miners : endpoints'[x] = NoEndpoint
                          \/ (endpoints[x] # NoEndpoint /\ endpoints'[x].age = endpoints[x].age)
    BY <1>0, <2>1 DEF GatewayTypeOK, Endpoint
  <2> QED BY <1>0, <2>1, <2>2, <2>3, NoneYounger DEF GatewayInv, GatewayTypeOK
<1>7. CASE Tick
  <2>1. /\ endpoints' = [m \in Miners |->
             IF endpoints[m] = NoEndpoint \/ endpoints[m].age = Stale THEN endpoints[m]
             ELSE [endpoints[m] EXCEPT !.age = @ + 1]]
        /\ posts' = {[p EXCEPT !.age = @ + 1] : p \in {q \in posts : q.age <= ANNOUNCE_MAX_AGE}}
        /\ quiet' = [m \in Miners |->
             IF quiet[m] < Longest + Ahead[m] THEN quiet[m] + 1 ELSE quiet[m]]
        /\ UNCHANGED members
    BY <1>7 DEF Tick
  <2>2. \A m \in Miners : quiet'[m] \in Nat /\ quiet'[m] <= quiet[m] + 1 /\ quiet[m] \in Nat
    BY <1>0, <2>1 DEF GatewayTypeOK
  <2>3. \A m \in Miners : endpoints[m].age \in Int /\ endpoints[m] \in Endpoint
    BY <1>0 DEF GatewayTypeOK, Endpoint
  <2>4. endpoints' \in [Miners -> Endpoint]
    BY <2>1, <2>3 DEF Endpoint
  <2>5. ASSUME NEW q \in posts'
        PROVE  q \in Post /\ quiet'[q.miner] <= q.age + Ahead[q.miner]
    <3>1. PICK p \in posts : q = [p EXCEPT !.age = @ + 1]
      BY <2>1
    <3>2. p \in Post
      BY <1>0 DEF GatewayTypeOK
    <3>3. q.miner = p.miner /\ q.age = p.age + 1 /\ q \in Post /\ p.miner \in Miners /\ p.age \in Int
      BY <3>1, <3>2 DEF Post
    <3>4. quiet[p.miner] <= p.age + Ahead[p.miner]
      BY <1>0 DEF NothingIsYounger
    <3> QED BY <1>0, <2>2, <3>3, <3>4
  <2>6. ASSUME NEW m \in Miners, Fresh(m)' PROVE quiet'[m] <= endpoints'[m].age + Ahead[m]
    <3>1. endpoints[m] # NoEndpoint /\ endpoints[m].age # Stale
      BY <1>0, <2>1, <2>6 DEF Fresh, Stale
    <3>2. endpoints'[m].age = endpoints[m].age + 1
      BY <2>1, <2>3, <3>1 DEF Endpoint
    <3>3. Fresh(m)
      BY <1>0, <2>3, <2>6, <3>1, <3>2 DEF Fresh
    <3> QED BY <1>0, <2>2, <2>3, <3>2, <3>3 DEF NothingIsYounger
  <2> QED BY <1>0, <2>1, <2>2, <2>4, <2>5, <2>6 DEF GatewayInv, GatewayTypeOK, NothingIsYounger
<1>8. CASE GatewayNext
  BY <1>1, <1>2, <1>4, <1>5, <1>6, <1>7, <1>8 DEF GatewayNext
<1>9. CASE UNCHANGED gatewayVars
  BY <1>9, <1>a DEF gatewayVars
<1>10. ASSUME NEW c \in Calls,
              Refuse(c) \/ ProxyFails(c) \/ ProxyReturns(c) \/ MinerAnswers(c)
       PROVE  GatewayInv'
  BY <1>9, <1>10 DEF Refuse, ProxyFails, ProxyReturns, MinerAnswers
<1>11. ASSUME NEW c \in Calls, NEW m \in Miners,
              ListMiners(c, m) \/ ProxyInfer(c, m) \/ ProxySettle(c, m)
       PROVE  GatewayInv'
  BY <1>9, <1>11 DEF ListMiners, ProxyInfer, ProxySettle, Dial
<1> QED BY <1>3, <1>8, <1>9, <1>10, <1>11 DEF RoutingNext, RestartWithCalls, routingVars

\* A miner that is listed announced itself at most a time to live ago, by its clock.
THEOREM GatewayQuietMinersDisappear == RoutingSpec => []QuietMinersDisappear
<1>1. RoutingInit => GatewayInv
  BY GatewayInvInit DEF RoutingInit
<1>2. GatewayInv => QuietMinersDisappear
  <2> SUFFICES ASSUME GatewayInv, NEW m \in Listed
               PROVE  quiet[m] <= ENDPOINT_TTL + Ahead[m]
    BY DEF QuietMinersDisappear
  <2>1. m \in Miners /\ Fresh(m)
    BY DEF GatewayInv, GatewayTypeOK, Listed
  <2>2. endpoints[m].age \in Int /\ quiet[m] \in Nat /\ Ahead[m] \in Nat /\ ENDPOINT_TTL \in Nat
    BY <2>1, GatewayAssumption DEF GatewayInv, GatewayTypeOK, Endpoint
  <2>3. quiet[m] <= endpoints[m].age + Ahead[m] /\ endpoints[m].age <= ENDPOINT_TTL
    BY <2>1 DEF GatewayInv, NothingIsYounger, Fresh
  <2> QED BY <2>2, <2>3
<1> QED BY <1>1, <1>2, GatewayInvNext, PTL DEF RoutingSpec

-----------------------------------------------------------------------------
(* The calls.                                                              *)

Places == {"idle", "infer", "inferring", "settle", "settling"}
Call ==
  [pc : Places, miner : Miners \cup {NoOne}, at : Miners \cup {NoOne},
   answer : {"none", "ok", "error"}, by : Miners \cup {NoOne}]

CallsTypeOK == call \in [Calls -> Call]

\* A miner is where the gateway has dialled only if the receipt names it, once it
\* has agreed; and before the gateway has dialled it there is no answer.
AnswersAreOwn ==
  \A c \in Calls :
    /\ call[c].pc \in {"infer", "settle"} => call[c].answer = "none"
    /\ call[c].answer = "ok" => call[c].at = call[c].miner

CallsInv == CallsTypeOK /\ AnswersAreOwn /\ SlotsAreExact /\ WorkIsPaidToWorker

Waiting == {c \in Calls : AtMiner(c)}

\* A call that begins or ends to wait changes the number of slots by one.
LEMMA OneCall ==
  ASSUME NEW c \in Calls, \A d \in Calls \ {c} : call'[d] = call[d]
  PROVE  /\ ~ AtMiner(c) /\ AtMiner(c)' => Cardinality(Waiting') = Cardinality(Waiting) + 1
         /\ AtMiner(c) /\ ~ AtMiner(c)' => Cardinality(Waiting') = Cardinality(Waiting) - 1
         /\ (AtMiner(c) <=> AtMiner(c)') => Waiting' = Waiting
<1>1. IsFiniteSet(Waiting)
  BY RoutingAssumption, FS_Subset DEF Waiting
<1>2. \A d \in Calls \ {c} : AtMiner(d)' <=> AtMiner(d)
  BY DEF AtMiner
<1>3. ASSUME ~ AtMiner(c), AtMiner(c)'
      PROVE  Cardinality(Waiting') = Cardinality(Waiting) + 1
  <2>1. Waiting' = Waiting \cup {c} /\ c \notin Waiting
    BY <1>2, <1>3 DEF Waiting
  <2> QED BY <1>1, <2>1, FS_AddElement
<1>4. ASSUME AtMiner(c), ~ AtMiner(c)'
      PROVE  Cardinality(Waiting') = Cardinality(Waiting) - 1
  <2>1. Waiting' = Waiting \ {c} /\ c \in Waiting
    BY <1>2, <1>4 DEF Waiting
  <2> QED BY <1>1, <2>1, FS_RemoveElement
<1>5. ASSUME AtMiner(c) <=> AtMiner(c)' PROVE Waiting' = Waiting
  BY <1>2, <1>5 DEF Waiting
<1> QED BY <1>3, <1>4, <1>5

LEMMA SlotsOfWaiting == SlotsAreExact <=> inflight = Cardinality(Waiting)
BY DEF SlotsAreExact, Waiting

LEMMA CallsInit == RoutingInit => CallsInv
<1> SUFFICES ASSUME RoutingInit PROVE CallsInv
  OBVIOUS
<1>1. call = [c \in Calls |-> Over] /\ inflight = 0
  BY DEF RoutingInit
<1>2. CallsTypeOK /\ AnswersAreOwn /\ WorkIsPaidToWorker
  BY <1>1 DEF CallsTypeOK, Call, Places, Over, AnswersAreOwn, WorkIsPaidToWorker
<1>3. {c \in Calls : AtMiner(c)} = {}
  BY <1>1 DEF AtMiner, Over
<1> QED BY <1>1, <1>2, <1>3, FS_EmptySet DEF CallsInv, SlotsAreExact

LEMMA CallsNext == CallsInv /\ [RoutingNext]_routingVars => CallsInv'
<1> SUFFICES ASSUME CallsInv, [RoutingNext]_routingVars PROVE CallsInv'
  OBVIOUS
<1>0. /\ CallsTypeOK /\ AnswersAreOwn /\ WorkIsPaidToWorker
      /\ inflight = Cardinality(Waiting)
  BY SlotsOfWaiting DEF CallsInv
<1>a. ASSUME NEW c \in Calls, NEW new \in Call, call' = [call EXCEPT ![c] = new],
             new.pc \in {"infer", "settle"} => new.answer = "none",
             new.answer = "ok" => new.at = new.miner,
             new.pc \in {"settle", "settling"} => new.by = new.miner,
             inflight' = Cardinality(Waiting')
      PROVE  CallsInv'
  <2>1. call'[c] = new /\ \A d \in Calls \ {c} : call'[d] = call[d]
    BY <1>0, <1>a DEF CallsTypeOK
  <2>2. CallsTypeOK'
    BY <1>0, <1>a DEF CallsTypeOK
  <2>3. AnswersAreOwn' /\ WorkIsPaidToWorker'
    BY <1>0, <1>a, <2>1 DEF AnswersAreOwn, WorkIsPaidToWorker
  <2>4. SlotsAreExact'
    BY <1>a DEF SlotsAreExact, Waiting
  <2> QED BY <2>2, <2>3, <2>4 DEF CallsInv
<1>b. ASSUME UNCHANGED <<call, inflight>> PROVE CallsInv'
  BY <1>b DEF CallsInv, CallsTypeOK, AnswersAreOwn, SlotsAreExact, WorkIsPaidToWorker, AtMiner
<1>c. Over \in Call /\ Over.pc = "idle" /\ Over.answer = "none" /\ \A c \in Calls : call[c] \in Call
  BY <1>0 DEF Over, Call, Places, CallsTypeOK
<1>d. IsFiniteSet(Waiting) /\ Cardinality(Waiting) \in Nat
  BY RoutingAssumption, FS_Subset, FS_CardinalityType DEF Waiting
<1>1. ASSUME NEW c \in Calls, NEW m \in Miners, ListMiners(c, m) PROVE CallsInv'
  <2> DEFINE new == [Over EXCEPT !.pc = "infer", !.miner = m]
  <2>1. call[c] = Over /\ inflight' = inflight
        /\ call' = [call EXCEPT ![c].pc = "infer", ![c].miner = m]
    BY <1>1 DEF ListMiners
  <2>2. call' = [call EXCEPT ![c] = new]
    BY <2>1
  <2>3. new \in Call /\ new.pc = "infer" /\ new.answer = "none"
    BY DEF Over, Call, Places
  <2>4. Waiting' = Waiting
    <3>1. ~ AtMiner(c) /\ ~ AtMiner(c)'
      BY <1>0, <1>c, <2>1, <2>2, <2>3 DEF AtMiner, CallsTypeOK
    <3>2. \A d \in Calls \ {c} : call'[d] = call[d]
      BY <1>0, <2>2 DEF CallsTypeOK
    <3> QED BY <3>1, <3>2, OneCall
  <2> HIDE DEF new
  <2> QED BY <1>0, <1>a, <2>1, <2>2, <2>3, <2>4
<1>2. ASSUME NEW c \in Calls, NEW m \in Miners, NEW place \in {"inferring", "settling"},
             Dial(c, m, place), call[c].pc \in {"infer", "settle"},
             place = "settling" => call[c].pc = "settle"
      PROVE  CallsInv'
  <2> DEFINE new == [call[c] EXCEPT !.pc = place, !.at = m]
  <2>1. call' = [call EXCEPT ![c] = new] /\ inflight' = inflight + 1
    BY <1>2 DEF Dial
  <2>2. new \in Call /\ new.pc = place /\ new.answer = call[c].answer
        /\ new.by = call[c].by /\ new.miner = call[c].miner
    BY <1>c DEF Call, Places
  <2>3. new.answer = "none" /\ (place = "settling" => new.by = new.miner)
    BY <1>0, <1>2, <2>2 DEF AnswersAreOwn, WorkIsPaidToWorker
  <2> HIDE DEF new
  <2>4. Cardinality(Waiting') = Cardinality(Waiting) + 1
    <3>1. ~ AtMiner(c) /\ AtMiner(c)'
      BY <1>0, <1>2, <2>1, <2>2 DEF AtMiner, CallsTypeOK
    <3>2. \A d \in Calls \ {c} : call'[d] = call[d]
      BY <1>0, <2>1 DEF CallsTypeOK
    <3> QED BY <3>1, <3>2, OneCall
  <2> QED BY <1>0, <1>2, <1>a, <2>1, <2>2, <2>3, <2>4
<1>3. ASSUME NEW c \in Calls, Refuse(c) PROVE CallsInv'
  <2>1. call' = [call EXCEPT ![c] = Over] /\ inflight' = inflight
        /\ call[c].pc \in {"infer", "settle"}
    BY <1>3 DEF Refuse, Raise
  <2>2. Waiting' = Waiting
    <3>1. ~ AtMiner(c) /\ ~ AtMiner(c)'
      BY <1>0, <1>c, <2>1 DEF AtMiner, CallsTypeOK
    <3>2. \A d \in Calls \ {c} : call'[d] = call[d]
      BY <1>0, <2>1 DEF CallsTypeOK
    <3> QED BY <3>1, <3>2, OneCall
  <2> QED BY <1>0, <1>a, <1>c, <2>1, <2>2
<1>e. ASSUME NEW c \in Calls, AtMiner(c), NEW new \in Call, call' = [call EXCEPT ![c] = new],
             new.pc \in {"idle", "settle"}, inflight' = inflight - 1
      PROVE  inflight' = Cardinality(Waiting')
  <2>1. ~ AtMiner(c)'
    BY <1>0, <1>e DEF AtMiner, CallsTypeOK
  <2>2. \A d \in Calls \ {c} : call'[d] = call[d]
    BY <1>0, <1>e DEF CallsTypeOK
  <2> QED BY <1>0, <1>d, <1>e, <2>1, <2>2, OneCall
<1>4. ASSUME NEW c \in Calls, AtMiner(c), inflight' = inflight - 1, Raise(c) PROVE CallsInv'
  <2>1. call' = [call EXCEPT ![c] = Over]
    BY <1>4 DEF Raise
  <2>2. inflight' = Cardinality(Waiting')
    BY <1>4, <1>c, <1>e, <2>1
  <2> QED BY <1>a, <1>c, <2>1, <2>2
<1>5. ASSUME NEW c \in Calls, ProxyReturns(c) PROVE CallsInv'
  <2> DEFINE new == [Over EXCEPT !.pc = "settle", !.miner = call[c].miner, !.by = call[c].at]
  <2>1. AtMiner(c) /\ inflight' = inflight - 1
    BY <1>5 DEF ProxyReturns, SlotsAfter
  <2>2. CASE call[c].answer = "ok" /\ call' = [call EXCEPT ![c] = new]
    <3>1. new \in Call /\ new.pc = "settle" /\ new.answer = "none" /\ new.by = call[c].at
          /\ new.miner = call[c].miner
      BY <1>c DEF Over, Call, Places
    <3>2. new.by = new.miner
      BY <1>0, <2>2, <3>1 DEF AnswersAreOwn
    <3> HIDE DEF new
    <3>3. inflight' = Cardinality(Waiting')
      BY <1>e, <2>1, <2>2, <3>1
    <3> QED BY <1>a, <2>2, <3>1, <3>2, <3>3
  <2>3. CASE Raise(c)
    BY <1>4, <2>1, <2>3
  <2> QED BY <1>5, <2>2, <2>3 DEF ProxyReturns
<1>6. ASSUME NEW c \in Calls, MinerAnswers(c) PROVE CallsInv'
  <2>1. PICK answer \in {"ok", "error"} :
          /\ answer = "ok" => call[c].at = call[c].miner
          /\ call' = [call EXCEPT ![c].answer = answer] /\ inflight' = inflight
          /\ AtMiner(c)
    BY <1>6 DEF MinerAnswers, NamesItself
  <2> DEFINE new == [call[c] EXCEPT !.answer = answer]
  <2>2. call' = [call EXCEPT ![c] = new]
    BY <2>1
  <2>3. new \in Call /\ new.pc = call[c].pc /\ new.answer = answer /\ new.at = call[c].at
        /\ new.by = call[c].by /\ new.miner = call[c].miner
    BY <1>c DEF Call
  <2> HIDE DEF new
  <2>4. call[c].pc \notin {"infer", "settle"}
    BY <2>1 DEF AtMiner
  <2>5. new.pc \in {"settle", "settling"} => new.by = new.miner
    BY <1>0, <2>3 DEF WorkIsPaidToWorker
  <2>6. Waiting' = Waiting
    <3>1. AtMiner(c)'
      BY <1>0, <2>1, <2>2, <2>3 DEF AtMiner, CallsTypeOK
    <3>2. \A d \in Calls \ {c} : call'[d] = call[d]
      BY <1>0, <2>2 DEF CallsTypeOK
    <3> QED BY <2>1, <3>1, <3>2, OneCall
  <2>7. inflight' = Cardinality(Waiting')
    BY <1>0, <2>1, <2>6 DEF SlotsAreExact
  <2>8. /\ new.pc \in {"infer", "settle"} => new.answer = "none"
        /\ new.answer = "ok" => new.at = new.miner
    BY <2>1, <2>3, <2>4
  <2> QED BY <1>a, <2>2, <2>3, <2>5, <2>7, <2>8
<1>7. CASE RestartWithCalls
  <2>1. inflight' = 0 /\ call' = [c \in Calls |-> IF AtMiner(c) THEN Over ELSE call[c]]
    BY <1>7 DEF RestartWithCalls
  <2>2. \A c \in Calls : call'[c] = Over \/ (call'[c] = call[c] /\ ~ AtMiner(c))
    BY <2>1
  <2>3. CallsTypeOK'
    BY <1>c, <2>1 DEF CallsTypeOK
  <2>4. AnswersAreOwn' /\ WorkIsPaidToWorker'
    BY <1>0, <1>c, <2>2 DEF AnswersAreOwn, WorkIsPaidToWorker
  <2>5. {c \in Calls : AtMiner(c)}' = {}
    BY <1>c, <2>2 DEF AtMiner
  <2> QED BY <2>1, <2>3, <2>4, <2>5, FS_EmptySet DEF CallsInv, SlotsAreExact
<1>8. ASSUME NEW c \in Calls, NEW m \in Miners, ProxyInfer(c, m) \/ ProxySettle(c, m)
      PROVE  CallsInv'
  BY <1>2, <1>8 DEF ProxyInfer, ProxySettle
<1>9. ASSUME NEW c \in Calls, ProxyFails(c) PROVE CallsInv'
  BY <1>4, <1>9 DEF ProxyFails, SlotsAfter
<1> QED BY <1>1, <1>3, <1>5, <1>6, <1>7, <1>8, <1>9, <1>b DEF RoutingNext, routingVars

LEMMA CallsInductive == RoutingSpec => []CallsInv
BY CallsInit, CallsNext, PTL DEF RoutingSpec

\* The gateway's count of its requests to miners is exact, however each ends.
THEOREM RoutingSlotsAreExact == RoutingSpec => []SlotsAreExact
<1>1. CallsInv => SlotsAreExact
  BY DEF CallsInv
<1> QED BY <1>1, CallsInductive, PTL

\* A client settles only with the miner that made the text, because a miner that
\* the receipt does not name refuses it.
THEOREM RoutingWorkIsPaidToWorker == RoutingSpec => []WorkIsPaidToWorker
<1>1. CallsInv => WorkIsPaidToWorker
  BY DEF CallsInv
<1> QED BY <1>1, CallsInductive, PTL

-----------------------------------------------------------------------------
(* The index: sorting logs.                                                *)


\* The elements of a finite set with a strict order have the ranks from 0 on.
Rank(S, order, l) == Cardinality({k \in S : <<k, l>> \in order})

LEMMA Ranks ==
  ASSUME NEW S, IsFiniteSet(S), NEW order,
         \A a \in S : <<a, a>> \notin order,
         \A a, b, c \in S : <<a, b>> \in order /\ <<b, c>> \in order => <<a, c>> \in order,
         \A a, b \in S : a # b => <<a, b>> \in order \/ <<b, a>> \in order
  PROVE  /\ Cardinality(S) \in Nat
         /\ \A i \in 1 .. Cardinality(S) : \E l \in S : Rank(S, order, l) = i - 1
         /\ \A l \in S : Rank(S, order, l) \in 0 .. Cardinality(S) - 1
         /\ \A a, b \in S : <<a, b>> \in order => Rank(S, order, a) < Rank(S, order, b)
<1> DEFINE n == Cardinality(S)
           before(l) == {k \in S : <<k, l>> \in order}
           rank == [l \in S |-> Rank(S, order, l)]
<1>1. n \in Nat
  BY FS_CardinalityType
<1>2. \A l \in S : IsFiniteSet(before(l)) /\ Cardinality(before(l)) \in Nat /\ Cardinality(before(l)) <= n - 1
  <2> TAKE l \in S
  <2>1. IsFiniteSet(S \ {l}) /\ Cardinality(S \ {l}) = n - 1
    BY FS_RemoveElement
  <2>2. before(l) \in SUBSET (S \ {l})
    OBVIOUS
  <2> HIDE DEF before, n
  <2> QED BY <2>1, <2>2, FS_Subset, FS_CardinalityType
<1>3. ASSUME NEW a \in S, NEW b \in S, <<a, b>> \in order
      PROVE  Cardinality(before(a)) < Cardinality(before(b))
  <2>1. before(a) \in SUBSET (before(b) \ {a})
    BY <1>3
  <2>2. a \in before(b)
    BY <1>3
  <2>3. IsFiniteSet(before(b)) /\ Cardinality(before(b)) \in Nat /\ Cardinality(before(a)) \in Nat
    BY <1>2
  <2> HIDE DEF before
  <2>4. /\ IsFiniteSet(before(b) \ {a})
        /\ Cardinality(before(b) \ {a}) = Cardinality(before(b)) - 1
    BY <2>2, <2>3, FS_RemoveElement
  <2>5. Cardinality(before(a)) <= Cardinality(before(b) \ {a})
    BY <2>1, <2>4, FS_Subset
  <2> QED BY <2>3, <2>4, <2>5
<1>4. \A l \in S : rank[l] = Cardinality(before(l))
  BY DEF Rank
<1> HIDE DEF before
<1>5. rank \in [S -> 0 .. n - 1]
  <2>1. \A l \in S : rank[l] \in 0 .. n - 1
    BY <1>1, <1>2, <1>4
  <2>2. rank = [l \in S |-> rank[l]]
    OBVIOUS
  <2> HIDE DEF rank, n
  <2> QED BY <2>1, <2>2
<1>6. \A a, b \in S : rank[a] = rank[b] => a = b
  <2> SUFFICES ASSUME NEW a \in S, NEW b \in S, a # b PROVE rank[a] # rank[b]
    OBVIOUS
  <2>1. rank[a] < rank[b] \/ rank[b] < rank[a]
    <3>1. rank[a] = Cardinality(before(a)) /\ rank[b] = Cardinality(before(b))
      BY <1>4
    <3>2. <<a, b>> \in order \/ <<b, a>> \in order
      OBVIOUS
    <3>3. <<a, b>> \in order => rank[a] < rank[b]
      <4> HIDE DEF rank
      <4> QED BY <1>3, <3>1
    <3>4. <<b, a>> \in order => rank[b] < rank[a]
      <4> HIDE DEF rank
      <4> QED BY <1>3, <3>1
    <3> QED BY <3>2, <3>3, <3>4
  <2>2. rank[a] \in Nat /\ rank[b] \in Nat
    <3> HIDE DEF rank, n
    <3> QED BY <1>1, <1>5
  <2> HIDE DEF rank
  <2> QED BY <2>1, <2>2
<1>7. IsFiniteSet(0 .. n - 1) /\ Cardinality(0 .. n - 1) = n
  <2> HIDE DEF n
  <2>1. n - 1 \in Int /\ 0 \in Int
    BY <1>1
  <2>2. IsFiniteSet(0 .. n - 1) /\ Cardinality(0 .. n - 1) = IF 0 > n - 1 THEN 0 ELSE n - 1 - 0 + 1
    BY <2>1, FS_Interval
  <2> QED BY <1>1, <2>2
<1>8. rank \in Injection(S, 0 .. n - 1)
  <2> HIDE DEF rank, n
  <2> QED BY <1>5, <1>6 DEF Injection, IsInjective
<1>9. rank \in Surjection(S, 0 .. n - 1)
  <2> HIDE DEF rank
  <2> QED BY <1>7, <1>8, FS_Injection
<1>10. \A i \in 1 .. n : \E l \in S : rank[l] = i - 1
  <2> TAKE i \in 1 .. n
  <2>1. i - 1 \in 0 .. n - 1
    <3> HIDE DEF n
    <3> QED BY <1>1
  <2> HIDE DEF rank, n
  <2> QED BY <1>9, <2>1 DEF Surjection
<1>11. \A l \in S : rank[l] = Rank(S, order, l)
  OBVIOUS
<1>12. \A a, b \in S : <<a, b>> \in order => rank[a] < rank[b]
  <2> HIDE DEF rank
  <2> QED BY <1>3, <1>4
<1> HIDE DEF rank
<1>13. \A l \in S : Rank(S, order, l) \in 0 .. n - 1
  BY <1>5, <1>11
<1> QED BY <1>1, <1>10, <1>11, <1>12, <1>13

-----------------------------------------------------------------------------
(* The index: what is stored of a chain.                                   *)

Log == [block : Nat, index : Nat, event : Event]
Block == [fork : Nat, events : Seq(Event)]

NameOf(l) == <<l.event.role, l.event.joined>>

Sorted(list) == \A p, q \in DOMAIN list : p < q => ~ Precedes(list[q], list[p])

\* The logs of a list below a block, and those of the first n blocks of a chain.
LogBelow(list, n) == {list[p] : p \in {q \in DOMAIN list : list[q].block < n}}
FirstLogs(blocks, n) == {l \in Logs(blocks) : l.block < n}

\* The events that are asked for are of four kinds.
LEMMA NamesDiffer ==
  /\ DOMAIN EventNames = 1 .. 4 /\ Len(EventNames) = 4
  /\ \A i, j \in 1 .. 4 : EventNames[i] = EventNames[j] => i = j
  /\ \A l \in Log : \E i \in 1 .. 4 : EventNames[i] = NameOf(l)
<1>1. DOMAIN EventNames = 1 .. 4 /\ Len(EventNames) = 4
  BY DEF EventNames
<1>2. /\ EventNames[1] = <<"Miner", TRUE>> /\ EventNames[2] = <<"Miner", FALSE>>
      /\ EventNames[3] = <<"Validator", TRUE>> /\ EventNames[4] = <<"Validator", FALSE>>
  BY DEF EventNames
<1>3. \A i, j \in 1 .. 4 : EventNames[i] = EventNames[j] => i = j
  <2>1. \A i \in 1 .. 4 : i = 1 \/ i = 2 \/ i = 3 \/ i = 4
    OBVIOUS
  <2>2. <<"Miner", TRUE>> # <<"Miner", FALSE>> /\ <<"Validator", TRUE>> # <<"Validator", FALSE>>
    OBVIOUS
  <2>3. \A x, y : <<"Miner", x>> # <<"Validator", y>>
    OBVIOUS
  <2> QED BY <1>2, <2>1, <2>2, <2>3
<1>4. \A l \in Log : \E i \in 1 .. 4 : EventNames[i] = NameOf(l)
  <2> TAKE l \in Log
  <2>1. l.event.role \in {"Miner", "Validator"} /\ l.event.joined \in {TRUE, FALSE}
    BY DEF Log, Event, Roles
  <2>2. NameOf(l) = <<l.event.role, l.event.joined>>
    BY DEF NameOf
  <2>3. CASE l.event.role = "Miner" /\ l.event.joined = TRUE
    <3>1. EventNames[1] = NameOf(l)
      BY <1>2, <2>2, <2>3, Zenon
    <3> HIDE DEF NameOf
    <3> QED BY <3>1
  <2>4. CASE l.event.role = "Miner" /\ l.event.joined = FALSE
    <3>1. EventNames[2] = NameOf(l)
      BY <1>2, <2>2, <2>4, Zenon
    <3> HIDE DEF NameOf
    <3> QED BY <3>1
  <2>5. CASE l.event.role = "Validator" /\ l.event.joined = TRUE
    <3>1. EventNames[3] = NameOf(l)
      BY <1>2, <2>2, <2>5, Zenon
    <3> HIDE DEF NameOf
    <3> QED BY <3>1
  <2>6. CASE l.event.role = "Validator" /\ l.event.joined = FALSE
    <3>1. EventNames[4] = NameOf(l)
      BY <1>2, <2>2, <2>6, Zenon
    <3> HIDE DEF NameOf
    <3> QED BY <3>1
  <2> QED BY <2>1, <2>3, <2>4, <2>5, <2>6
<1> QED BY <1>1, <1>3, <1>4

\* The sort puts logs that differ in block, index or name in their order.
LEMMA SortIsSorted ==
  ASSUME NEW logs \in SUBSET Log, IsFiniteSet(logs),
         \A k, l \in logs : k.block = l.block /\ k.index = l.index /\ NameOf(k) = NameOf(l) => k = l
  PROVE  /\ ByBlock(logs) \in Seq(logs)
         /\ \A l \in logs : \E i \in DOMAIN ByBlock(logs) : ByBlock(logs)[i] = l
         /\ Sorted(ByBlock(logs))
<1> DEFINE order == {x \in logs \X logs : Before(x[1], x[2])}
           num == [l \in logs |-> CHOOSE i \in 1 .. 4 : EventNames[i] = NameOf(l)]
           n == Cardinality(logs)
           s == ByBlock(logs)
<1>1. \A l \in logs : num[l] \in 1 .. 4 /\ EventNames[num[l]] = NameOf(l)
  BY NamesDiffer
<1> HIDE DEF num
<1>2. \A a, b \in logs : AskedBefore(a.event, b.event) <=> num[a] < num[b]
  BY <1>1, NamesDiffer DEF AskedBefore, NameOf
<1>3. \A l \in logs : l.block \in Nat /\ l.index \in Nat
  BY DEF Log
<1>4. \A a, b \in logs : <<a, b>> \in order <=>
        \/ a.block < b.block
        \/ a.block = b.block /\ a.index < b.index
        \/ a.block = b.block /\ a.index = b.index /\ num[a] < num[b]
  BY <1>2 DEF Before, Precedes
<1> HIDE DEF order
<1>5. \A a \in logs : <<a, a>> \notin order
  BY <1>1, <1>3, <1>4
<1>6. ASSUME NEW a \in logs, NEW b \in logs, NEW c \in logs, <<a, b>> \in order, <<b, c>> \in order
      PROVE  <<a, c>> \in order
  <2>1. /\ a.block \in Nat /\ b.block \in Nat /\ c.block \in Nat
        /\ a.index \in Nat /\ b.index \in Nat /\ c.index \in Nat
        /\ num[a] \in Nat /\ num[b] \in Nat /\ num[c] \in Nat
    BY <1>1, <1>3
  <2> QED BY <1>4, <1>6, <2>1
<1>7. ASSUME NEW a \in logs, NEW b \in logs, a # b PROVE <<a, b>> \in order \/ <<b, a>> \in order
  <2>1. a.block = b.block /\ a.index = b.index => num[a] # num[b]
    BY <1>1, <1>7
  <2>2. /\ a.block \in Nat /\ b.block \in Nat /\ a.index \in Nat /\ b.index \in Nat
        /\ num[a] \in Nat /\ num[b] \in Nat
    BY <1>1, <1>3
  <2> QED BY <1>4, <2>1, <2>2
<1>8. /\ n \in Nat
      /\ \A i \in 1 .. n : \E l \in logs : Rank(logs, order, l) = i - 1
      /\ \A l \in logs : Rank(logs, order, l) \in 0 .. n - 1
      /\ \A a, b \in logs : <<a, b>> \in order => Rank(logs, order, a) < Rank(logs, order, b)
  BY <1>5, <1>6, <1>7, Ranks
<1>9. \A l \in logs : Cardinality({k \in logs : Before(k, l)}) = Rank(logs, order, l)
  <2> TAKE l \in logs
  <2>1. {k \in logs : Before(k, l)} = {k \in logs : <<k, l>> \in order}
    BY DEF order
  <2> QED BY <2>1 DEF Rank
<1> DEFINE at(i) == CHOOSE l \in logs : Cardinality({k \in logs : Before(k, l)}) = i - 1
<1>10. s = [i \in 1 .. n |-> at(i)]
  BY DEF ByBlock
<1> HIDE DEF s, n
<1>11. \A i \in 1 .. n : s[i] \in logs /\ Rank(logs, order, s[i]) = i - 1
  <2> TAKE i \in 1 .. n
  <2>1. \E l \in logs : Cardinality({k \in logs : Before(k, l)}) = i - 1
    BY <1>8, <1>9
  <2>2. at(i) \in logs /\ Cardinality({k \in logs : Before(k, at(i))}) = i - 1
    BY <2>1
  <2>3. s[i] = at(i)
    <3> HIDE DEF at
    <3> QED BY <1>10
  <2> HIDE DEF at
  <2> QED BY <1>9, <2>2, <2>3
<1> HIDE DEF at
<1>12. s \in [1 .. n -> logs]
  <2>1. s = [i \in 1 .. n |-> s[i]]
    BY <1>10
  <2> QED BY <1>11, <2>1
<1>13. s \in Seq(logs) /\ DOMAIN s = 1 .. n
  BY <1>8, <1>12
<1>14. ASSUME NEW l \in logs PROVE \E i \in DOMAIN s : s[i] = l
  <2> DEFINE i == Rank(logs, order, l) + 1
  <2>1. i \in 1 .. n /\ i - 1 = Rank(logs, order, l)
    BY <1>8
  <2>2. s[i] \in logs /\ Rank(logs, order, s[i]) = Rank(logs, order, l)
    BY <1>11, <2>1
  <2>3. Rank(logs, order, l) \in Nat /\ ~ (Rank(logs, order, l) < Rank(logs, order, l))
    BY <1>8
  <2> HIDE DEF i
  <2>4. s[i] = l
    BY <1>7, <1>8, <2>2, <2>3
  <2> QED BY <1>13, <2>1, <2>4
<1>15. ASSUME NEW p \in 1 .. n, NEW q \in 1 .. n, p < q PROVE ~ Precedes(s[q], s[p])
  <2>1. s[p] \in logs /\ s[q] \in logs /\ Rank(logs, order, s[p]) = p - 1 /\ Rank(logs, order, s[q]) = q - 1
    BY <1>11
  <2>2. ~ (q - 1 < p - 1)
    BY <1>8, <1>15
  <2>3. <<s[q], s[p]>> \notin order
    BY <1>8, <2>1, <2>2
  <2> QED BY <1>4, <2>1, <2>3 DEF Precedes
<1> QED BY <1>13, <1>14, <1>15 DEF Sorted, s

\* Dropping a suffix of the blocks keeps the other events, and their order.
LEMMA DropKeeps ==
  ASSUME NEW list \in Seq(Log), Sorted(list), NEW n
  PROVE  /\ EventsBelow(list, n) \in Seq(Log) /\ Sorted(EventsBelow(list, n))
         /\ \A p \in DOMAIN EventsBelow(list, n) : EventsBelow(list, n)[p].block < n
         /\ \A m : LogBelow(EventsBelow(list, n), m) = {l \in LogBelow(list, m) : l.block < n}
<1> DEFINE Step(s, i) == IF list[i].block < n THEN Append(s, list[i]) ELSE s
           Builds(g, k) == g = [i \in 0 .. k |-> IF i = 0 THEN <<>> ELSE Step(g[i - 1], i)]
           unbuilt == {k \in Nat : ~ \E g : Builds(g, k)}
           kept == CHOOSE g : Builds(g, Len(list))
<1>1. Len(list) \in Nat /\ DOMAIN list = 1 .. Len(list)
  OBVIOUS
<1>4. EventsBelow(list, n) = kept[Len(list)]
  BY DEF EventsBelow
<1> HIDE DEF Step
<1>2. ASSUME NEW k \in unbuilt, \A j \in unbuilt : k <= j PROVE FALSE
  <2>1. k # 0
    <3> DEFINE g == [i \in 0 .. 0 |-> <<>>]
    <3>1. Builds(g, 0)
      OBVIOUS
    <3> QED BY <3>1
  <2>2. k \in Nat /\ k - 1 \in Nat /\ k - 1 \notin unbuilt
    <3>1. k \in Nat /\ k - 1 \in Nat /\ ~ (k <= k - 1)
      BY <2>1
    <3> HIDE DEF unbuilt
    <3> QED BY <1>2, <3>1
  <2>3. PICK g : Builds(g, k - 1)
    BY <2>2
  <2> DEFINE h == [i \in 0 .. k |-> IF i = 0 THEN <<>> ELSE Step(g[i - 1], i)]
  <2>4. \A i \in 0 .. k - 1 : h[i] = g[i]
    BY <2>2, <2>3
  <2>5. \A i \in 0 .. k : i # 0 => h[i - 1] = g[i - 1]
    <3>1. \A i \in 0 .. k : i # 0 => i - 1 \in 0 .. k - 1
      BY <2>2
    <3> HIDE DEF h
    <3> QED BY <2>4, <3>1
  <2>6. Builds(h, k)
    <3>1. \A i \in 0 .. k : h[i] = IF i = 0 THEN <<>> ELSE Step(h[i - 1], i)
      <4>1. \A i \in 0 .. k : h[i] = IF i = 0 THEN <<>> ELSE Step(g[i - 1], i)
        OBVIOUS
      <4> HIDE DEF h
      <4> QED BY <2>5, <4>1
    <3>2. h = [i \in 0 .. k |-> h[i]]
      OBVIOUS
    <3> HIDE DEF h
    <3> QED BY <3>1, <3>2
  <2> HIDE DEF h
  <2> QED BY <2>6
<1>3. \E g : Builds(g, Len(list))
  <2> SUFFICES ASSUME unbuilt # {} PROVE FALSE
    BY <1>1
  <2>1. \E k \in unbuilt : \A j \in unbuilt : k <= j
    <3>1. unbuilt \in SUBSET Nat
      OBVIOUS
    <3> HIDE DEF unbuilt
    <3> QED BY <3>1, LeastNumber
  <2> QED BY <1>2, <2>1
<1>5. Builds(kept, Len(list))
  BY <1>3
<1> HIDE DEF kept
<1>6. kept[0] = <<>> /\ \A i \in 1 .. Len(list) : kept[i] = Step(kept[i - 1], i)
  BY <1>1, <1>5
<1> DEFINE Good(k) ==
             /\ kept[k] \in Seq(Log) /\ Sorted(kept[k])
             /\ \A p \in DOMAIN kept[k] : \E j \in 1 .. k : kept[k][p] = list[j] /\ list[j].block < n
             /\ \A j \in 1 .. k : list[j].block < n => \E p \in DOMAIN kept[k] : kept[k][p] = list[j]
           wrong == {k \in 0 .. Len(list) : ~ Good(k)}
<1> HIDE DEF Builds
<1>7. Good(0)
  BY <1>6 DEF Sorted
<1>8. ASSUME NEW k \in 1 .. Len(list), Good(k - 1) PROVE Good(k)
  <2> DEFINE s == kept[k - 1]
  <2>1. s \in Seq(Log) /\ Sorted(s) /\ list[k] \in Log /\ k \in Nat /\ k - 1 \in Nat
    BY <1>8
  <2>2. \A p \in DOMAIN s : \E j \in 1 .. k - 1 : s[p] = list[j] /\ list[j].block < n
    BY <1>8
  <2>3. \A j \in 1 .. k - 1 : list[j].block < n => \E p \in DOMAIN s : s[p] = list[j]
    BY <1>8
  <2>4. \A j \in 1 .. k : j \in 1 .. k - 1 \/ j = k
    OBVIOUS
  <2>5. \A j \in 1 .. k - 1 : j \in 1 .. k /\ j \in DOMAIN list /\ k \in DOMAIN list /\ j < k
    BY <1>1
  <2>6. kept[k] = IF list[k].block < n THEN Append(s, list[k]) ELSE s
    BY <1>6 DEF Step
  <2> HIDE DEF s
  <2>7. CASE ~ (list[k].block < n)
    <3>1. kept[k] = s
      BY <2>6, <2>7
    <3> QED BY <2>1, <2>2, <2>3, <2>4, <2>5, <2>7, <3>1
  <2>8. CASE list[k].block < n
    <3>1. kept[k] = Append(s, list[k])
      BY <2>6, <2>8
    <3> DEFINE t == Append(s, list[k])
               m == Len(s)
    <3>2. /\ t \in Seq(Log) /\ m \in Nat /\ DOMAIN s = 1 .. m /\ DOMAIN t = 1 .. m + 1
          /\ t[m + 1] = list[k] /\ \A p \in 1 .. m : t[p] = s[p]
      BY <2>1
    <3> HIDE DEF t, m
    <3>3. \A p \in 1 .. m + 1 : p \in 1 .. m \/ p = m + 1
      BY <3>2
    <3>4. \A p \in 1 .. m : ~ Precedes(list[k], t[p])
      BY <2>2, <2>5, <3>2 DEF Sorted
    <3>5. Sorted(t)
      <4> SUFFICES ASSUME NEW p \in 1 .. m + 1, NEW q \in 1 .. m + 1, p < q
                   PROVE  ~ Precedes(t[q], t[p])
        BY <3>2 DEF Sorted
      <4>1. p \in 1 .. m
        BY <3>2
      <4>2. CASE q = m + 1
        BY <3>2, <3>4, <4>1, <4>2
      <4>3. CASE q \in 1 .. m
        BY <2>1, <3>2, <4>1, <4>3 DEF Sorted
      <4> QED BY <3>3, <4>2, <4>3
    <3>6. \A p \in 1 .. m + 1 : \E j \in 1 .. k : t[p] = list[j] /\ list[j].block < n
      <4>1. k \in 1 .. k
        BY <2>1
      <4> QED BY <2>2, <2>5, <2>8, <3>2, <3>3, <4>1
    <3>7. \A j \in 1 .. k : list[j].block < n => \E p \in 1 .. m + 1 : t[p] = list[j]
      <4> SUFFICES ASSUME NEW j \in 1 .. k, list[j].block < n PROVE \E p \in 1 .. m + 1 : t[p] = list[j]
        OBVIOUS
      <4>1. CASE j = k
        BY <3>2, <4>1
      <4>2. CASE j \in 1 .. k - 1
        <5>1. PICK p \in 1 .. m : s[p] = list[j]
          BY <2>3, <3>2, <4>2
        <5>2. p \in 1 .. m + 1
          BY <3>2
        <5> QED BY <3>2, <5>1, <5>2
      <4> QED BY <2>4, <4>1, <4>2
    <3>8. kept[k] \in Seq(Log) /\ Sorted(kept[k]) /\ DOMAIN kept[k] = 1 .. m + 1
      BY <3>1, <3>2, <3>5 DEF t
    <3>9. \A p \in 1 .. m + 1 : kept[k][p] = t[p]
      BY <3>1 DEF t
    <3>10. \A p \in DOMAIN kept[k] : \E j \in 1 .. k : kept[k][p] = list[j] /\ list[j].block < n
      BY <3>6, <3>8, <3>9
    <3>11. \A j \in 1 .. k : list[j].block < n => \E p \in DOMAIN kept[k] : kept[k][p] = list[j]
      <4> SUFFICES ASSUME NEW j \in 1 .. k, list[j].block < n
                   PROVE  \E p \in DOMAIN kept[k] : kept[k][p] = list[j]
        OBVIOUS
      <4>1. PICK p \in 1 .. m + 1 : t[p] = list[j]
        BY <3>7
      <4>2. p \in DOMAIN kept[k] /\ kept[k][p] = list[j]
        BY <3>8, <3>9, <4>1
      <4> QED BY <4>2
    <3> QED BY <3>8, <3>10, <3>11
  <2> QED BY <2>7, <2>8
<1> HIDE DEF Good
<1>9. wrong = {}
  <2> SUFFICES ASSUME wrong # {} PROVE FALSE
    OBVIOUS
  <2>1. PICK k \in wrong : \A j \in wrong : k <= j
    <3>1. wrong \in SUBSET Nat
      BY <1>1
    <3> HIDE DEF wrong
    <3> QED BY <3>1, LeastNumber
  <2>2. k \in 1 .. Len(list) /\ k - 1 \in 0 .. Len(list) /\ ~ (k <= k - 1)
    BY <1>1, <1>7
  <2>3. k - 1 \notin wrong
    <3> HIDE DEF wrong
    <3> QED BY <2>1, <2>2
  <2> QED BY <1>8, <2>2, <2>3
<1>10. Good(Len(list))
  BY <1>1, <1>9
<1> DEFINE s == kept[Len(list)]
<1>11. /\ s \in Seq(Log) /\ Sorted(s)
       /\ \A p \in DOMAIN s : \E j \in DOMAIN list : s[p] = list[j] /\ list[j].block < n
       /\ \A j \in DOMAIN list : list[j].block < n => \E p \in DOMAIN s : s[p] = list[j]
  <2> HIDE DEF s
  <2>1. /\ s \in Seq(Log) /\ Sorted(s)
        /\ \A p \in DOMAIN s : \E j \in 1 .. Len(list) : s[p] = list[j] /\ list[j].block < n
        /\ \A j \in 1 .. Len(list) : list[j].block < n => \E p \in DOMAIN s : s[p] = list[j]
    BY <1>10 DEF Good, s
  <2> HIDE DEF Good
  <2> QED BY <1>1, <2>1
<1> HIDE DEF s
<1>12. ASSUME NEW m PROVE LogBelow(s, m) = {l \in LogBelow(list, m) : l.block < n}
  BY <1>11 DEF LogBelow
<1>13. EventsBelow(list, n) = s
  BY <1>4 DEF s
<1> QED BY <1>11, <1>12, <1>13

\* Each event of a chain is one log, and the place of a log tells which.
LEMMA LogsTyped ==
  ASSUME NEW blocks \in Seq(Block)
  PROVE  /\ Logs(blocks) \subseteq Log
         /\ \A l \in Logs(blocks) :
              /\ l.block < Len(blocks) /\ l.index \in DOMAIN blocks[l.block + 1].events
              /\ l = [block |-> l.block, index |-> l.index,
                      event |-> blocks[l.block + 1].events[l.index]]
         /\ \A n \in 0 .. Len(blocks) - 1 : \A i \in DOMAIN blocks[n + 1].events :
              [block |-> n, index |-> i, event |-> blocks[n + 1].events[i]] \in Logs(blocks)
<1> DEFINE at(n, i) == [block |-> n, index |-> i, event |-> blocks[n + 1].events[i]]
<1>1. Len(blocks) \in Nat
  OBVIOUS
<1>2. ASSUME NEW n \in 0 .. Len(blocks) - 1
      PROVE  blocks[n + 1].events \in Seq(Event)
  <2>1. n + 1 \in DOMAIN blocks
    BY <1>1
  <2>2. blocks[n + 1] \in Block
    BY <2>1
  <2> QED BY <2>2 DEF Block
<1>3. \A l : l \in Logs(blocks) <=>
        \E n \in 0 .. Len(blocks) - 1 : \E i \in DOMAIN blocks[n + 1].events : l = at(n, i)
  BY DEF Logs, LogsIn
<1>4. \A n \in 0 .. Len(blocks) - 1 : \A i \in DOMAIN blocks[n + 1].events :
        at(n, i) \in Log /\ at(n, i).block = n /\ at(n, i).index = i
  <2> TAKE n \in 0 .. Len(blocks) - 1
  <2> DEFINE all == blocks[n + 1].events
  <2>1. all \in Seq(Event)
    BY <1>2
  <2> HIDE DEF all
  <2>2. \A i \in DOMAIN all : i \in Nat /\ all[i] \in Event
    BY <2>1
  <2> QED BY <1>1, <2>2 DEF Log, all
<1> QED
  <2>1. \A l \in Logs(blocks) : l \in Log
    BY <1>3, <1>4
  <2>2. ASSUME NEW l \in Logs(blocks)
        PROVE  l.block < Len(blocks) /\ l.index \in DOMAIN blocks[l.block + 1].events
               /\ l = at(l.block, l.index)
    <3>1. PICK n \in 0 .. Len(blocks) - 1 : \E i \in DOMAIN blocks[n + 1].events : l = at(n, i)
      BY <1>3
    <3>2. PICK i \in DOMAIN blocks[n + 1].events : l = at(n, i)
      BY <3>1
    <3>3. l.block = n /\ l.index = i
      BY <3>2
    <3> HIDE DEF at
    <3> QED BY <1>1, <3>2, <3>3
  <2> QED BY <1>3, <2>1, <2>2

\* Chains that share their first blocks share the logs of these.
LEMMA FirstLogsShared ==
  ASSUME NEW a \in Seq(Block), NEW b \in Seq(Block), NEW n \in Nat, n <= Len(a), n <= Len(b),
         \A i \in 1 .. n : a[i] = b[i]
  PROVE  FirstLogs(a, n) = FirstLogs(b, n)
<1>1. ASSUME NEW x \in Seq(Block), NEW y \in Seq(Block), n <= Len(x), n <= Len(y),
             \A i \in 1 .. n : x[i] = y[i], NEW l \in FirstLogs(x, n)
      PROVE  l \in FirstLogs(y, n)
  <2>1. /\ l \in Log /\ l.block < n /\ l.index \in DOMAIN x[l.block + 1].events
        /\ l = [block |-> l.block, index |-> l.index, event |-> x[l.block + 1].events[l.index]]
    BY LogsTyped DEF FirstLogs
  <2>2. l.block + 1 \in 1 .. n /\ l.block \in 0 .. Len(y) - 1
    BY <1>1, <2>1 DEF Log
  <2>3. x[l.block + 1] = y[l.block + 1]
    BY <1>1, <2>2
  <2>4. [block |-> l.block, index |-> l.index, event |-> y[l.block + 1].events[l.index]] \in Logs(y)
    BY <2>1, <2>2, <2>3, LogsTyped
  <2> QED BY <2>1, <2>3, <2>4 DEF FirstLogs
<1>2. FirstLogs(a, n) \subseteq FirstLogs(b, n)
  BY <1>1
<1>3. FirstLogs(b, n) \subseteq FirstLogs(a, n)
  BY <1>1
<1> QED BY <1>2, <1>3

\* Replaying the list of a chain's logs gives the members on that chain.
LEMMA ReplayIsMembership ==
  ASSUME NEW blocks \in Seq(Block), NEW list \in Seq(Log), Sorted(list),
         LogBelow(list, Len(blocks)) = Logs(blocks),
         \A p \in DOMAIN list : list[p].block < Len(blocks)
  PROVE  MembersOf(list) = MembersOn(blocks)
<1>1. (\A p \in DOMAIN list : list[p] \in Logs(blocks))
      /\ \A l \in Logs(blocks) : \E p \in DOMAIN list : list[p] = l
  BY DEF LogBelow
<1>2. Len(list) \in Nat /\ DOMAIN list = 1 .. Len(list) /\ \A p \in DOMAIN list : list[p] \in Log
  OBVIOUS
<1>3. ASSUME NEW role, NEW m, Joined(list, role, m) PROVE OnChain(Logs(blocks), role, m)
  <2>1. PICK i \in DOMAIN list : /\ Concerns(list[i].event, role, m) /\ list[i].event.joined
                                /\ \A j \in DOMAIN list : Concerns(list[j].event, role, m) => j <= i
    BY <1>3 DEF Joined
  <2>2. ASSUME NEW k \in Logs(blocks), Concerns(k.event, role, m) PROVE ~ Precedes(list[i], k)
    <3>1. PICK j \in DOMAIN list : list[j] = k
      BY <1>1
    <3>2. j < i \/ j = i
      BY <1>2, <2>1, <2>2, <3>1
    <3>3. ~ Precedes(list[i], list[i])
      BY <1>2 DEF Precedes, Log
    <3> QED BY <3>1, <3>2, <3>3 DEF Sorted
  <2> QED BY <1>1, <2>1, <2>2 DEF OnChain
<1>4. ASSUME NEW role, NEW m, OnChain(Logs(blocks), role, m) PROVE Joined(list, role, m)
  <2>1. PICK l \in Logs(blocks) : /\ Concerns(l.event, role, m) /\ l.event.joined
                                  /\ \A k \in Logs(blocks) : Concerns(k.event, role, m) => ~ Precedes(l, k)
    BY <1>4 DEF OnChain
  <2>2. PICK p \in DOMAIN list : list[p] = l
    BY <1>1
  <2> DEFINE about == {j \in DOMAIN list : Concerns(list[j].event, role, m)}
  <2>3. PICK i \in about : \A j \in about : j <= i
    <3>1. about \in SUBSET Nat /\ about # {} /\ about \in SUBSET (1 .. Len(list))
      BY <1>2, <2>1, <2>2
    <3>2. IsFiniteSet(1 .. Len(list))
      <4>1. 1 \in Int /\ Len(list) \in Int
        BY <1>2
      <4> QED BY <4>1, FS_Interval
    <3> HIDE DEF about
    <3> QED BY <3>1, <3>2, FS_Subset, GreatestNumber
  <2>4. ~ Precedes(l, list[i])
    BY <1>1, <2>1
  <2>5. p = i \/ p < i
    BY <1>2, <2>1, <2>2, <2>3
  <2>6. ~ Precedes(list[i], l)
    <3>1. ~ Precedes(l, l)
      BY <1>2, <2>2 DEF Precedes, Log
    <3> QED BY <2>2, <2>5, <3>1 DEF Sorted
  <2>7. list[i] \in Log /\ l \in Log /\ list[i] \in Logs(blocks)
    BY <1>1, <1>2, <2>2
  <2>8. list[i].block = l.block /\ list[i].index = l.index
    BY <2>4, <2>6, <2>7 DEF Precedes, Log
  <2>9. list[i] = l
    BY <2>7, <2>8, LogsTyped
  <2> QED BY <2>1, <2>3, <2>9 DEF Joined
<1>5. \A role, m : Joined(list, role, m) <=> OnChain(Logs(blocks), role, m)
  BY <1>3, <1>4
<1> QED BY <1>5 DEF MembersOf, MembersOn

-----------------------------------------------------------------------------
(* The index: its inductive invariant.                                     *)

\* The block with this number and hash is on the chain.
OnAt(n, fork) == n < Len(chain) /\ chain[n + 1].fork = fork

\* A hash that was read: on the branch of today it is still that of its block.
WasRead(n, fork) == fork \in 0 .. reorgs /\ (fork = reorgs => OnAt(n, fork))

ChainOK ==
  /\ chain \in Seq(Block) /\ Len(chain) > 0
  /\ reorgs \in Nat /\ \A i \in DOMAIN chain : chain[i].fork <= reorgs
  /\ undercut \in BOOLEAN

HashesOK(n, known) ==
  n \in Nat /\ DOMAIN known = 0 .. n - 1 /\ \A i \in 0 .. n - 1 : WasRead(i, known[i])

EventsOK(n, list) ==
  list \in Seq(Log) /\ Sorted(list) /\ \A p \in DOMAIN list : list[p].block < n

\* Wherever the scan and the chain share a block, they share all events up to it.
ScanOK(n, list, known) ==
  \A i \in 0 .. n - 1 : OnAt(i, known[i]) => undercut \/ LogBelow(list, i + 1) = FirstLogs(chain, i + 1)

\* A poll that failed may have dropped events, but none below the place where the next
\* one starts to walk back.
MemoryOK ==
  /\ HashesOK(next, hashes) /\ EventsOK(next, events)
  /\ ScanOK(RescanFrom, events, hashes)
  /\ next > 0 /\ OnAt(next - 1, hashes[next - 1])
       => undercut \/ membership = MembersOn(SubSeq(chain, 1, next))

DiskOK ==
  /\ HashesOK(disk.next, disk.hashes) /\ EventsOK(disk.next, disk.events)
  /\ ScanOK(disk.next, disk.events, disk.hashes)

\* From the place a poll goes back to up to the buffer all is orphaned, and below
\* that place nothing is.
Orphaned(from) == \A i \in from .. RescanFrom - 1 : ~ OnAt(i, hashes[i])
Settled(from) == undercut \/ from = 0 \/ OnAt(from - 1, hashes[from - 1])

ReadOK ==
  /\ poll.head \in Nat /\ poll.head >= next
  /\ poll.from \in 0 .. RescanFrom
  /\ Orphaned(poll.from) /\ Settled(poll.from)
  /\ poll.read \in Seq(Nat) /\ Len(poll.read) <= poll.head - poll.from + 1
  /\ \A i \in DOMAIN poll.read : WasRead(poll.from + i - 1, poll.read[i])

Asked == {EventNames[i] : i \in 1 .. poll.asked}

\* The logs up to a block that is still there are those of the chain.
LogsOK ==
  /\ poll.asked \in 0 .. Len(EventNames)
  /\ poll.logs \subseteq Log /\ IsFiniteSet(poll.logs)
  /\ \A l \in poll.logs : l.block \in poll.from .. poll.head /\ NameOf(l) \in Asked
  /\ \A k, l \in poll.logs :
       k.block = l.block /\ k.index = l.index /\ NameOf(k) = NameOf(l) => k = l
  /\ \A i \in DOMAIN poll.read : OnAt(poll.from + i - 1, poll.read[i]) =>
       {l \in poll.logs : l.block < poll.from + i}
         = {l \in FirstLogs(chain, poll.from + i) : l.block >= poll.from /\ NameOf(l) \in Asked}

Probing ==
  /\ poll.pc = "probe"
  /\ poll \in [pc : {"probe"}, head : Nat, from : Nat, probe : Int]
  /\ poll.head >= next /\ poll.from = RescanFrom
  /\ poll.probe \in -1 .. poll.from - 1 /\ Orphaned(poll.probe + 1)

Reading ==
  /\ poll.pc = "hashes"
  /\ poll = [pc |-> "hashes", head |-> poll.head, from |-> poll.from, read |-> poll.read]
  /\ ReadOK

Asking ==
  /\ poll.pc = "logs"
  /\ poll = [pc |-> "logs", head |-> poll.head, from |-> poll.from, read |-> poll.read,
             asked |-> poll.asked, logs |-> poll.logs]
  /\ ReadOK /\ LogsOK
  /\ Len(poll.read) = poll.head - poll.from + 1
  /\ \A p \in DOMAIN events : events[p].block < poll.from

PollOK == poll = Idle \/ Probing \/ Reading \/ Asking

IndexInv == ChainOK /\ MemoryOK /\ DiskOK /\ PollOK

-----------------------------------------------------------------------------
(* The index: the chain moves.                                             *)

LEMMA RescanTyped ==
  ASSUME next \in Nat
  PROVE  RescanFrom \in 0 .. next
BY IndexAssumption DEF RescanFrom, HighestOf

\* A block that is gone does not come back, and one that stays keeps those below it.
StaysGone(n, fork) ==
  /\ WasRead(n, fork)'
  /\ OnAt(n, fork)' => /\ OnAt(n, fork)
                       /\ FirstLogs(chain', n + 1) = FirstLogs(chain, n + 1)
                       /\ SubSeq(chain', 1, n + 1) = SubSeq(chain, 1, n + 1)

\* Below the blocks a poll has settled on nothing goes, but with a trace.
StaysBelow(n, fork) ==
  OnAt(n, fork) /\ poll.pc \in {"hashes", "logs"} /\ n < poll.from => undercut' \/ OnAt(n, fork)'

Moved ==
  /\ ChainOK' /\ (undercut => undercut')
  /\ \A n \in Nat : \A fork : WasRead(n, fork) => StaysGone(n, fork)
  /\ poll.from \in Nat => \A n \in Nat : \A fork : StaysBelow(n, fork)

LEMMA MineMoves ==
  ASSUME ChainOK, NEW new \in Contents, Mine(new)
  PROVE  Moved
<1> DEFINE b == [fork |-> reorgs, events |-> new]
<1>1. b \in Block
  BY IndexAssumption DEF ChainOK, Block
<1>2. chain' = Append(chain, b) /\ reorgs' = reorgs /\ undercut' = undercut
  BY DEF Mine
<1> HIDE DEF b
<1>3. /\ chain \in Seq(Block) /\ Len(chain) \in Nat /\ chain' \in Seq(Block)
      /\ Len(chain') = Len(chain) + 1 /\ \A i \in 1 .. Len(chain) : chain'[i] = chain[i]
      /\ chain'[Len(chain) + 1] = b
  BY <1>1, <1>2 DEF ChainOK
<1>4. b.fork = reorgs
  BY DEF b
<1>5. ChainOK'
  <2>1. \A i \in DOMAIN chain' : i \in DOMAIN chain \/ i = Len(chain) + 1
    BY <1>3
  <2>2. \A i \in DOMAIN chain' : chain'[i].fork <= reorgs
    BY <1>3, <1>4, <2>1 DEF ChainOK
  <2> QED BY <1>2, <1>3, <2>2 DEF ChainOK
<1>6. ASSUME NEW n \in Nat, n < Len(chain)
      PROVE  /\ chain'[n + 1] = chain[n + 1] /\ n < Len(chain')
             /\ FirstLogs(chain', n + 1) = FirstLogs(chain, n + 1)
             /\ SubSeq(chain', 1, n + 1) = SubSeq(chain, 1, n + 1)
  <2>1. n + 1 \in 1 .. Len(chain) /\ n + 1 <= Len(chain') /\ n + 1 \in Nat
    BY <1>3, <1>6
  <2>2. \A i \in 1 .. n + 1 : chain'[i] = chain[i]
    BY <1>3, <2>1
  <2>3. FirstLogs(chain', n + 1) = FirstLogs(chain, n + 1)
    BY <1>3, <2>1, <2>2, FirstLogsShared
  <2>4. SubSeq(chain', 1, n + 1) = SubSeq(chain, 1, n + 1)
    BY <1>3, <2>1, <2>2
  <2> QED BY <1>3, <2>1, <2>2, <2>3, <2>4
<1>7. ASSUME NEW n \in Nat, NEW fork, WasRead(n, fork)
      PROVE  /\ WasRead(n, fork)'
             /\ OnAt(n, fork)' => n < Len(chain) /\ OnAt(n, fork)
  <2>1. OnAt(n, fork) => OnAt(n, fork)' /\ n < Len(chain)
    BY <1>6 DEF OnAt
  <2>2. OnAt(n, fork)' => n < Len(chain)
    <3> SUFFICES ASSUME OnAt(n, fork)', n = Len(chain) PROVE FALSE
      BY <1>3 DEF OnAt
    <3>1. fork = reorgs
      BY <1>3, <1>4 DEF OnAt
    <3> QED BY <1>3, <1>7, <3>1 DEF WasRead, OnAt
  <2>3. OnAt(n, fork)' /\ n < Len(chain) => OnAt(n, fork)
    BY <1>6 DEF OnAt
  <2> QED BY <1>2, <1>7, <2>1, <2>2, <2>3 DEF WasRead
<1>8. \A n \in Nat : \A fork : OnAt(n, fork) => OnAt(n, fork)'
  BY <1>6 DEF OnAt
<1>9. \A n \in Nat : \A fork : WasRead(n, fork) => StaysGone(n, fork)
  BY <1>6, <1>7 DEF StaysGone
<1>10. \A n \in Nat : \A fork : StaysBelow(n, fork)
  BY <1>8 DEF StaysBelow
<1>11. undercut => undercut'
  BY <1>2
<1> QED BY <1>5, <1>9, <1>10, <1>11 DEF Moved

LEMMA ReorgMoves ==
  ASSUME ChainOK, NEW k \in 1 .. Height, Reorg(k)
  PROVE  Moved
<1>1. /\ chain' = SubSeq(chain, 1, k) /\ reorgs' = reorgs + 1
      /\ undercut' = (undercut \/ (poll.pc \in {"hashes", "logs"} /\ k < poll.from))
  BY DEF Reorg
<1>2. chain \in Seq(Block) /\ Len(chain) \in Nat /\ k \in Nat /\ 0 < k /\ k < Len(chain) /\ reorgs \in Nat
  BY DEF ChainOK, Height
<1>3. /\ chain' \in Seq(Block) /\ Len(chain') = k
      /\ \A i \in 1 .. k : chain'[i] = chain[i]
  BY <1>1, <1>2
<1>4. ChainOK'
  <2>1. \A i \in DOMAIN chain' : i \in 1 .. k /\ i \in DOMAIN chain
    BY <1>2, <1>3
  <2>2. \A i \in DOMAIN chain' : chain'[i].fork <= reorgs'
    <3> TAKE i \in DOMAIN chain'
    <3>1. chain'[i] = chain[i] /\ chain[i] \in Block /\ chain[i].fork <= reorgs
      BY <1>2, <1>3, <2>1 DEF ChainOK
    <3> QED BY <1>1, <1>2, <3>1 DEF Block
  <2>3. undercut' \in BOOLEAN
    BY <1>1 DEF ChainOK
  <2>4. reorgs' \in Nat /\ Len(chain') > 0
    BY <1>1, <1>2, <1>3
  <2> QED BY <1>3, <2>2, <2>3, <2>4 DEF ChainOK
<1>5. ASSUME NEW n \in Nat, n < k
      PROVE  /\ chain'[n + 1] = chain[n + 1] /\ n < Len(chain) /\ n < Len(chain')
             /\ FirstLogs(chain', n + 1) = FirstLogs(chain, n + 1)
             /\ SubSeq(chain', 1, n + 1) = SubSeq(chain, 1, n + 1)
  <2>1. n + 1 \in 1 .. k /\ n + 1 <= Len(chain') /\ n + 1 <= Len(chain) /\ n + 1 \in Nat /\ n < Len(chain)
    BY <1>2, <1>3, <1>5
  <2>2. \A i \in 1 .. n + 1 : chain'[i] = chain[i]
    BY <1>3, <2>1
  <2>3. FirstLogs(chain', n + 1) = FirstLogs(chain, n + 1)
    BY <1>2, <1>3, <2>1, <2>2, FirstLogsShared
  <2>4. SubSeq(chain', 1, n + 1) = SubSeq(chain, 1, n + 1)
    BY <1>2, <1>3, <2>1, <2>2
  <2> QED BY <1>3, <1>5, <2>1, <2>2, <2>3, <2>4
<1>6. ASSUME NEW n \in Nat, NEW fork, WasRead(n, fork)
      PROVE  /\ WasRead(n, fork)'
             /\ OnAt(n, fork)' => n < k /\ OnAt(n, fork)
  <2>1. OnAt(n, fork)' => n < k /\ OnAt(n, fork)
    BY <1>3, <1>5 DEF OnAt
  <2>2. fork \in 0 .. reorgs' /\ fork # reorgs'
    BY <1>1, <1>2, <1>6 DEF WasRead
  <2> QED BY <2>1, <2>2 DEF WasRead
<1>7. ASSUME NEW n \in Nat, NEW fork, poll.from \in Nat PROVE StaysBelow(n, fork)
  <2> SUFFICES ASSUME OnAt(n, fork), poll.pc \in {"hashes", "logs"}, n < poll.from, ~ undercut'
               PROVE  OnAt(n, fork)'
    BY DEF StaysBelow
  <2>1. ~ (k < poll.from)
    BY <1>1
  <2>2. n < k
    BY <1>2, <1>7, <2>1
  <2> QED BY <1>5, <2>2 DEF OnAt
<1>8. \A n \in Nat : \A fork : WasRead(n, fork) => StaysGone(n, fork)
  BY <1>5, <1>6 DEF StaysGone
<1>9. undercut => undercut'
  BY <1>1
<1> QED BY <1>4, <1>7, <1>8, <1>9 DEF Moved

\* What a poll has read and what it knows stays true while the chain moves.
LEMMA MovedKeeps ==
  ASSUME MemoryOK, DiskOK, PollOK, Moved, UNCHANGED <<memoryVars, disk, poll>>
  PROVE  IndexInv'
<1>1. /\ next' = next /\ events' = events /\ hashes' = hashes /\ membership' = membership
      /\ disk' = disk /\ poll' = poll /\ RescanFrom' = RescanFrom
  BY DEF memoryVars, RescanFrom
<1>2. ChainOK' /\ (undercut => undercut')
  BY DEF Moved
<1>3. ASSUME NEW n \in Nat, NEW fork, WasRead(n, fork) PROVE StaysGone(n, fork)
  BY <1>3 DEF Moved
<1>4. ASSUME NEW n, NEW known, HashesOK(n, known)
      PROVE  HashesOK(n, known)' /\ \A i \in 0 .. n - 1 : StaysGone(i, known[i])
  <2>1. \A i \in 0 .. n - 1 : StaysGone(i, known[i])
    BY <1>3, <1>4 DEF HashesOK
  <2> QED BY <1>4, <2>1 DEF HashesOK, StaysGone
<1>5. ASSUME NEW n, NEW m \in Nat, NEW list, NEW known, ScanOK(n, list, known), n <= m, n \in Nat,
             HashesOK(m, known)
      PROVE  \A i \in 0 .. n - 1 : OnAt(i, known[i])' =>
               undercut' \/ LogBelow(list, i + 1) = FirstLogs(chain', i + 1)
  <2> SUFFICES ASSUME NEW i \in 0 .. n - 1, OnAt(i, known[i])', ~ undercut'
               PROVE  LogBelow(list, i + 1) = FirstLogs(chain', i + 1)
    OBVIOUS
  <2>1. StaysGone(i, known[i])
    <3>1. i \in 0 .. m - 1
      BY <1>5
    <3> QED BY <1>4, <1>5, <3>1
  <2> QED BY <1>2, <1>5, <2>1 DEF ScanOK, StaysGone
<1>6. next \in Nat /\ RescanFrom \in 0 .. next /\ disk.next \in Nat
  BY RescanTyped DEF MemoryOK, DiskOK, HashesOK
<1>7. \A i \in 0 .. next - 1 : StaysGone(i, hashes[i])
  BY <1>4 DEF MemoryOK
<1>8. MemoryOK'
  <2>1. HashesOK(next, hashes)'
    <3>1. HashesOK(next, hashes)
      BY DEF MemoryOK
    <3> QED BY <1>1, <1>7, <3>1 DEF HashesOK, StaysGone
  <2>2. EventsOK(next, events)'
    BY <1>1 DEF MemoryOK, EventsOK, Sorted
  <2>3. ScanOK(RescanFrom, events, hashes)'
    <3> DEFINE n == RescanFrom
    <3>1. ScanOK(n, events, hashes) /\ HashesOK(next, hashes) /\ n <= next /\ n \in Nat
      BY <1>6 DEF MemoryOK
    <3> HIDE DEF n
    <3>2. \A i \in 0 .. n - 1 : OnAt(i, hashes[i])' =>
            undercut' \/ LogBelow(events, i + 1) = FirstLogs(chain', i + 1)
      BY <1>1, <1>5, <1>6, <3>1 DEF OnAt
    <3> QED BY <1>1, <3>2 DEF ScanOK, FirstLogs, n
  <2>4. ASSUME next > 0, OnAt(next - 1, hashes[next - 1])', ~ undercut'
        PROVE  membership = MembersOn(SubSeq(chain', 1, next))
    <3>1. StaysGone(next - 1, hashes[next - 1])
      BY <1>6, <1>7, <2>4
    <3>2. SubSeq(chain', 1, next - 1 + 1) = SubSeq(chain, 1, next - 1 + 1) /\ next - 1 + 1 = next
      BY <1>6, <2>4, <3>1 DEF StaysGone
    <3> QED BY <1>2, <2>4, <3>1, <3>2 DEF MemoryOK, StaysGone
  <2> QED BY <1>1, <2>1, <2>2, <2>3, <2>4 DEF MemoryOK, MembersOn
<1>9. DiskOK'
  <2>1. HashesOK(disk.next, disk.hashes)'
    BY <1>1, <1>4 DEF DiskOK
  <2>2. EventsOK(disk.next, disk.events)'
    BY <1>1 DEF DiskOK, EventsOK, Sorted
  <2>3. ScanOK(disk.next, disk.events, disk.hashes)'
    <3>1. /\ ScanOK(disk.next, disk.events, disk.hashes) /\ HashesOK(disk.next, disk.hashes)
          /\ disk.next <= disk.next
      BY <1>6 DEF DiskOK
    <3>2. \A i \in 0 .. disk.next - 1 : OnAt(i, disk.hashes[i])' =>
            undercut' \/ LogBelow(disk.events, i + 1) = FirstLogs(chain', i + 1)
      BY <1>1, <1>5, <1>6, <3>1 DEF OnAt
    <3> QED BY <1>1, <3>2 DEF ScanOK, FirstLogs
  <2> QED BY <2>1, <2>2, <2>3 DEF DiskOK
<1>10. ASSUME NEW n \in Nat, Orphaned(n) PROVE Orphaned(n)'
  <2> SUFFICES ASSUME NEW i \in n .. RescanFrom - 1 PROVE ~ OnAt(i, hashes[i])'
    BY <1>1 DEF Orphaned
  <2>1. i \in 0 .. next - 1
    BY <1>6
  <2> QED BY <1>7, <1>10, <2>1 DEF Orphaned, StaysGone
<1>11. ASSUME ReadOK, poll.pc \in {"hashes", "logs"}
       PROVE  /\ ReadOK'
              /\ \A i \in DOMAIN poll.read : StaysGone(poll.from + i - 1, poll.read[i])
  <2>1. poll.from \in Nat /\ poll.from <= next
    BY <1>6, <1>11 DEF ReadOK
  <2>2. Orphaned(poll.from)'
    BY <1>1, <1>10, <1>11, <2>1 DEF ReadOK
  <2>3. Settled(poll.from)'
    <3> SUFFICES ASSUME ~ undercut', poll.from # 0
                 PROVE  OnAt(poll.from - 1, hashes[poll.from - 1])'
      BY <1>1 DEF Settled
    <3>1. OnAt(poll.from - 1, hashes[poll.from - 1])
      BY <1>2, <1>11 DEF ReadOK, Settled
    <3>2. poll.from - 1 \in Nat /\ poll.from - 1 < poll.from
      BY <2>1
    <3>3. StaysBelow(poll.from - 1, hashes[poll.from - 1])
      BY <2>1, <3>2 DEF Moved
    <3> QED BY <1>11, <3>1, <3>2, <3>3 DEF StaysBelow
  <2>4. \A i \in DOMAIN poll.read : StaysGone(poll.from + i - 1, poll.read[i])
    <3> TAKE i \in DOMAIN poll.read
    <3>1. poll.read \in Seq(Nat) /\ WasRead(poll.from + i - 1, poll.read[i])
      BY <1>11 DEF ReadOK
    <3>2. poll.from + i - 1 \in Nat
      BY <2>1, <3>1
    <3> QED BY <1>3, <3>1, <3>2
  <2>5. \A i \in DOMAIN poll.read : WasRead(poll.from + i - 1, poll.read[i])'
    BY <2>4 DEF StaysGone
  <2> QED BY <1>1, <1>11, <2>2, <2>3, <2>4, <2>5 DEF ReadOK
<1>12. PollOK'
  <2>1. CASE poll = Idle
    BY <1>1, <2>1 DEF PollOK
  <2>2. CASE Probing
    <3>1. poll.probe + 1 \in Nat
      BY <2>2 DEF Probing
    <3>2. Orphaned(poll.probe + 1)'
      BY <1>1, <1>10, <2>2, <3>1 DEF Probing
    <3> QED BY <1>1, <2>2, <3>2 DEF PollOK, Probing
  <2>3. CASE Reading
    <3>1. ReadOK'
      BY <1>11, <2>3 DEF Reading
    <3> QED BY <1>1, <2>3, <3>1 DEF PollOK, Reading
  <2>4. CASE Asking
    <3>1. ReadOK' /\ \A i \in DOMAIN poll.read : StaysGone(poll.from + i - 1, poll.read[i])
      BY <1>11, <2>4 DEF Asking
    <3>2. poll.from \in Nat /\ poll.read \in Seq(Nat)
      BY <1>6, <2>4 DEF Asking, ReadOK
    <3>3. ASSUME NEW i \in DOMAIN poll.read, OnAt(poll.from + i - 1, poll.read[i])'
          PROVE  {l \in poll.logs : l.block < poll.from + i}
                   = {l \in FirstLogs(chain', poll.from + i) : l.block >= poll.from /\ NameOf(l) \in Asked}
      <4>1. StaysGone(poll.from + i - 1, poll.read[i])
        BY <3>1
      <4>2. poll.from + i - 1 + 1 = poll.from + i
        BY <3>2
      <4>3. OnAt(poll.from + i - 1, poll.read[i])
        BY <3>3, <4>1 DEF StaysGone
      <4>4. FirstLogs(chain', poll.from + i) = FirstLogs(chain, poll.from + i)
        BY <3>3, <4>1, <4>2 DEF StaysGone
      <4> QED BY <2>4, <4>3, <4>4 DEF Asking, LogsOK
    <3>4. Asked' = Asked
      BY <1>1 DEF Asked
    <3>5. LogsOK'
      BY <1>1, <2>4, <3>3, <3>4 DEF Asking, LogsOK, FirstLogs
    <3> QED BY <1>1, <2>4, <3>1, <3>5 DEF PollOK, Asking
  <2> QED BY <2>1, <2>2, <2>3, <2>4 DEF PollOK
<1> QED BY <1>2, <1>8, <1>9, <1>12 DEF IndexInv

-----------------------------------------------------------------------------
(* The index: the poller moves.                                            *)

LEMMA IndexStarts ==
  ASSUME IndexInit
  PROVE  IndexInv
<1>1. /\ chain = << [fork |-> 0, events |-> <<>>] >> /\ reorgs = 0 /\ undercut = FALSE
      /\ next = 0 /\ events = <<>> /\ hashes = [n \in {} |-> 0]
      /\ disk.next = 0 /\ disk.events = <<>> /\ disk.hashes = [n \in {} |-> 0] /\ poll = Idle
  BY DEF IndexInit, NoCursor, Cursor
<1>2. ChainOK
  <2>1. [fork |-> 0, events |-> <<>>] \in Block
    BY DEF Block
  <2>2. chain \in Seq(Block) /\ Len(chain) = 1 /\ DOMAIN chain = 1 .. 1
    BY <1>1, <2>1
  <2>3. \A i \in DOMAIN chain : chain[i].fork = 0
    BY <1>1, <2>2
  <2>4. reorgs \in Nat /\ (\A i \in DOMAIN chain : chain[i].fork <= reorgs) /\ Len(chain) > 0
    BY <1>1, <2>2, <2>3
  <2>5. undercut \in BOOLEAN
    BY <1>1
  <2> QED BY <2>2, <2>4, <2>5 DEF ChainOK
<1>3. HashesOK(0, [n \in {} |-> 0]) /\ EventsOK(0, <<>>)
  BY DEF HashesOK, EventsOK, Sorted
<1>4. RescanFrom = 0
  BY <1>1, IndexAssumption DEF RescanFrom, HighestOf
<1>5. MemoryOK
  BY <1>1, <1>3, <1>4 DEF MemoryOK, ScanOK
<1>6. DiskOK
  BY <1>1, <1>3 DEF DiskOK, ScanOK
<1> QED BY <1>1, <1>2, <1>5, <1>6 DEF IndexInv, PollOK

\* A step that leaves the chain and the index alone keeps what is said of them.
LEMMA MemoryStays ==
  ASSUME ChainOK, MemoryOK, UNCHANGED <<chainVars, memoryVars, undercut>>
  PROVE  ChainOK' /\ MemoryOK'
BY DEF chainVars, memoryVars, ChainOK, MemoryOK, HashesOK, EventsOK, ScanOK, RescanFrom, OnAt, WasRead,
       FirstLogs, Sorted, MembersOn

LEMMA DiskStays ==
  ASSUME DiskOK, UNCHANGED <<chainVars, disk, undercut>>
  PROVE  DiskOK'
BY DEF chainVars, DiskOK, HashesOK, EventsOK, ScanOK, OnAt, WasRead, FirstLogs, Sorted

LEMMA StartPollKeeps ==
  ASSUME IndexInv, StartPoll
  PROVE  IndexInv'
<1>1. ChainOK' /\ MemoryOK' /\ DiskOK'
  BY MemoryStays, DiskStays DEF IndexInv, StartPoll
<1>2. /\ poll' = [pc |-> "probe", head |-> Height - Confirmations, from |-> RescanFrom, probe |-> RescanFrom - 1]
      /\ Height - Confirmations >= next /\ next' = next
  BY DEF StartPoll, NewBlocks, memoryVars, Height
<1>3. next \in Nat /\ RescanFrom \in Nat /\ RescanFrom' = RescanFrom
  BY <1>2, RescanTyped DEF IndexInv, MemoryOK, HashesOK, RescanFrom
<1>4. Height - Confirmations \in Nat
  <2>1. Height \in Int
    BY DEF IndexInv, ChainOK, Height
  <2> QED BY <1>2, <1>3, <2>1, IndexAssumption
<1>5. Orphaned(poll.probe + 1)'
  BY <1>2, <1>3 DEF Orphaned
<1>6. Probing'
  <2> DEFINE head == Height - Confirmations
  <2>1. head \in Nat /\ head >= next
    BY <1>2, <1>4
  <2>2. poll' = [pc |-> "probe", head |-> head, from |-> RescanFrom, probe |-> RescanFrom - 1]
    BY <1>2
  <2> HIDE DEF head
  <2> QED BY <1>2, <1>3, <1>5, <2>1, <2>2 DEF Probing
<1> QED BY <1>1, <1>6 DEF IndexInv, PollOK

LEMMA ProbeKeeps ==
  ASSUME IndexInv, Probe
  PROVE  IndexInv'
<1>1. ChainOK' /\ MemoryOK' /\ DiskOK'
  BY MemoryStays, DiskStays DEF IndexInv, Probe
<1>2. /\ poll' = IF Anchored(poll.probe)
                 THEN [pc |-> "hashes", head |-> poll.head, from |-> poll.probe + 1, read |-> <<>>]
                 ELSE [poll EXCEPT !.probe = @ - 1]
      /\ next' = next /\ hashes' = hashes /\ chain' = chain /\ undercut' = undercut
      /\ RescanFrom' = RescanFrom
  BY DEF Probe, chainVars, memoryVars, RescanFrom
<1>3. Probing /\ poll.probe \in Int /\ poll.probe >= -1 /\ poll.probe < RescanFrom /\ poll.head \in Nat
      /\ poll.head >= next /\ poll.from = RescanFrom
  <2>1. Probing
    BY DEF IndexInv, PollOK, Probe, Idle, Reading, Asking
  <2> QED BY <2>1 DEF Probing
<1>4. next \in Nat /\ RescanFrom \in 0 .. next /\ DOMAIN hashes = 0 .. next - 1
  BY RescanTyped DEF IndexInv, MemoryOK, HashesOK
<1>5. CASE Anchored(poll.probe)
  <2>1. poll' = [pc |-> "hashes", head |-> poll.head, from |-> poll.probe + 1, read |-> <<>>]
    BY <1>2, <1>5
  <2>2. Orphaned(poll.from)'
    BY <1>2, <1>3, <2>1 DEF Probing, Orphaned, OnAt
  <2>3. poll.probe < 0 \/ Canonical(poll.probe)
    BY <1>3, <1>4, <1>5 DEF Anchored, Scanned
  <2>4. Settled(poll.from)'
    BY <1>2, <1>3, <2>1, <2>3 DEF Settled, Canonical, OnAt
  <2>5. poll'.from \in 0 .. RescanFrom /\ poll'.head - poll'.from + 1 >= 0
    BY <1>3, <1>4, <2>1
  <2>6. poll'.read = <<>>
    BY <2>1
  <2>7. /\ poll'.read \in Seq(Nat) /\ Len(poll'.read) <= poll'.head - poll'.from + 1
        /\ DOMAIN poll'.read = {}
    BY <2>5, <2>6
  <2>8. \A i \in DOMAIN poll'.read : WasRead(poll.from + i - 1, poll.read[i])'
    BY <2>7
  <2>9. poll'.head \in Nat /\ poll'.head >= next' /\ poll'.from \in 0 .. RescanFrom'
    BY <1>2, <1>3, <2>1, <2>5
  <2>10. ReadOK'
    BY <2>2, <2>4, <2>7, <2>8, <2>9 DEF ReadOK
  <2> QED BY <1>1, <2>1, <2>10 DEF IndexInv, PollOK, Reading
<1>6. CASE ~ Anchored(poll.probe)
  <2>1. poll' = [poll EXCEPT !.probe = @ - 1]
    BY <1>2, <1>6
  <2>2. poll' = [pc |-> "probe", head |-> poll.head, from |-> poll.from, probe |-> poll.probe - 1]
    BY <1>3, <2>1 DEF Probing
  <2>3. poll.probe >= 0 /\ ~ Canonical(poll.probe)
    BY <1>3, <1>6 DEF Anchored
  <2>4. Orphaned(poll.probe)
    <3> SUFFICES ASSUME NEW i \in poll.probe .. RescanFrom - 1 PROVE ~ OnAt(i, hashes[i])
      BY DEF Orphaned
    <3>1. i = poll.probe \/ i \in poll.probe + 1 .. RescanFrom - 1
      BY <1>3, <1>4
    <3> QED BY <1>3, <2>3, <3>1 DEF Canonical, Probing, Orphaned, OnAt
  <2>5. Orphaned(poll.probe + 1)'
    <3>1. poll'.probe + 1 = poll.probe
      BY <1>3, <2>2
    <3> QED BY <1>2, <2>4, <3>1 DEF Orphaned, OnAt
  <2>6. Probing'
    <3>1. /\ poll'.pc = "probe" /\ poll'.head = poll.head /\ poll'.from = poll.from
          /\ poll'.probe = poll.probe - 1
          /\ poll' \in [pc : {"probe"}, head : Nat, from : Nat, probe : Int]
      BY <1>3, <1>4, <2>2
    <3>2. poll'.probe \in -1 .. poll'.from - 1
      BY <1>3, <1>4, <2>3, <3>1
    <3> QED BY <1>2, <1>3, <2>5, <3>1, <3>2 DEF Probing
  <2> QED BY <1>1, <2>6 DEF IndexInv, PollOK
<1> QED BY <1>5, <1>6

LEMMA ReadHashKeeps ==
  ASSUME IndexInv, ReadHash
  PROVE  IndexInv'
<1> DEFINE n == poll.from + Len(poll.read)
           hash == chain[n + 1].fork
<1>1. ChainOK' /\ MemoryOK' /\ DiskOK'
  BY MemoryStays, DiskStays DEF IndexInv, ReadHash
<1>2. /\ poll' = [poll EXCEPT !.read = Append(@, hash)] /\ n <= poll.head /\ n < Len(chain)
      /\ next' = next /\ hashes' = hashes /\ chain' = chain /\ reorgs' = reorgs /\ undercut' = undercut
      /\ RescanFrom' = RescanFrom
  BY DEF ReadHash, chainVars, memoryVars, RescanFrom
<1>3. Reading
  BY DEF IndexInv, PollOK, ReadHash, Idle, Probing, Asking
<1>4. poll.from \in Nat /\ poll.read \in Seq(Nat) /\ n \in Nat
  BY <1>3, RescanTyped DEF Reading, ReadOK, IndexInv, MemoryOK, HashesOK
<1>5. WasRead(n, hash)
  <2>1. n + 1 \in DOMAIN chain /\ chain[n + 1] \in Block /\ reorgs \in Nat
    BY <1>2, <1>4 DEF IndexInv, ChainOK
  <2>2. hash \in Nat /\ hash <= reorgs
    BY <2>1 DEF IndexInv, ChainOK, Block
  <2> QED BY <1>2, <2>1, <2>2 DEF WasRead, OnAt
<1>6. hash \in Nat
  <2>1. reorgs \in Nat
    BY DEF IndexInv, ChainOK
  <2> HIDE DEF hash
  <2> QED BY <1>5, <2>1 DEF WasRead
<1> HIDE DEF hash
<1>7. poll' = [pc |-> "hashes", head |-> poll.head, from |-> poll.from, read |-> Append(poll.read, hash)]
  BY <1>2, <1>3 DEF Reading
<1> DEFINE read == Append(poll.read, hash)
<1>8. /\ read \in Seq(Nat) /\ Len(read) = Len(poll.read) + 1
      /\ \A i \in DOMAIN read : \/ i \in DOMAIN poll.read /\ read[i] = poll.read[i]
                                \/ i = Len(poll.read) + 1 /\ read[i] = hash
  BY <1>4, <1>6
<1> HIDE DEF read
<1>9. \A i \in DOMAIN read : WasRead(poll.from + i - 1, read[i])
  <2> TAKE i \in DOMAIN read
  <2>1. CASE i \in DOMAIN poll.read /\ read[i] = poll.read[i]
    BY <1>3, <2>1 DEF Reading, ReadOK
  <2>2. CASE i = Len(poll.read) + 1 /\ read[i] = hash
    <3>1. poll.from + i - 1 = n
      BY <1>4, <2>2
    <3> HIDE DEF n
    <3> QED BY <1>5, <2>2, <3>1
  <2> QED BY <1>8, <2>1, <2>2
<1>10. Len(read) <= poll.head - poll.from + 1
  BY <1>2, <1>3, <1>4, <1>8 DEF Reading, ReadOK
<1>11. /\ poll'.head = poll.head /\ poll'.from = poll.from /\ poll'.read = read /\ poll'.pc = "hashes"
       /\ poll' = [pc |-> "hashes", head |-> poll'.head, from |-> poll'.from, read |-> poll'.read]
  BY <1>7 DEF read
<1> HIDE DEF n
<1>12. ReadOK'
  <2>1. Orphaned(poll.from)' /\ Settled(poll.from)'
    BY <1>2, <1>3, <1>11 DEF Reading, ReadOK, Orphaned, Settled, OnAt
  <2>2. \A i \in DOMAIN poll'.read : WasRead(poll.from + i - 1, poll.read[i])'
    BY <1>2, <1>9, <1>11 DEF WasRead, OnAt
  <2>3. poll'.head \in Nat /\ poll'.head >= next' /\ poll'.from \in 0 .. RescanFrom'
    BY <1>2, <1>3, <1>11 DEF Reading, ReadOK
  <2>4. poll'.read \in Seq(Nat) /\ Len(poll'.read) <= poll'.head - poll'.from + 1
    BY <1>8, <1>10, <1>11
  <2> QED BY <2>1, <2>2, <2>3, <2>4 DEF ReadOK
<1> QED BY <1>1, <1>11, <1>12 DEF IndexInv, PollOK, Reading

LEMMA PollFailsKeeps ==
  ASSUME IndexInv, PollFails
  PROVE  IndexInv'
BY MemoryStays, DiskStays DEF IndexInv, PollFails, PollOK

LEMMA DropSuffixKeeps ==
  ASSUME IndexInv, DropSuffix
  PROVE  IndexInv'
<1> DEFINE kept == EventsBelow(events, poll.from)
<1>1. /\ events' = kept /\ next' = next /\ hashes' = hashes /\ membership' = membership
      /\ chain' = chain /\ reorgs' = reorgs /\ undercut' = undercut /\ RescanFrom' = RescanFrom
      /\ poll' = [pc |-> "logs", head |-> poll.head, from |-> poll.from, read |-> poll.read,
                  asked |-> 0, logs |-> {}]
      /\ poll.from + Len(poll.read) > poll.head
  BY DEF DropSuffix, chainVars, RescanFrom
<1>2. Reading /\ ReadOK
  BY DEF IndexInv, PollOK, DropSuffix, Idle, Probing, Asking, Reading
<1>3. /\ next \in Nat /\ RescanFrom \in 0 .. next /\ poll.from \in 0 .. RescanFrom
      /\ poll.head \in Nat /\ poll.read \in Seq(Nat)
  BY <1>2, RescanTyped DEF IndexInv, MemoryOK, HashesOK, ReadOK
<1>4. ChainOK' /\ DiskOK'
  BY <1>1, DiskStays DEF IndexInv, DropSuffix, ChainOK
<1>5. events \in Seq(Log) /\ Sorted(events) /\ \A p \in DOMAIN events : events[p].block < next
  BY DEF IndexInv, MemoryOK, EventsOK
<1>6. /\ kept \in Seq(Log) /\ Sorted(kept)
      /\ \A p \in DOMAIN kept : kept[p].block < poll.from
      /\ \A m : LogBelow(kept, m) = {l \in LogBelow(events, m) : l.block < poll.from}
  BY <1>5, DropKeeps
<1> HIDE DEF kept
<1>7. HashesOK(next, hashes)'
  BY <1>1 DEF IndexInv, MemoryOK, HashesOK, WasRead, OnAt
<1>8. EventsOK(next, events)'
  <2>1. \A p \in DOMAIN kept : kept[p] \in Log
    BY <1>6
  <2>2. \A p \in DOMAIN kept : kept[p].block < next
    BY <1>3, <1>6, <2>1 DEF Log
  <2> QED BY <1>1, <1>6, <2>2 DEF EventsOK, Sorted
<1>9. ScanOK(RescanFrom, kept, hashes)
  <2> SUFFICES ASSUME NEW i \in 0 .. RescanFrom - 1, OnAt(i, hashes[i]), ~ undercut
               PROVE  LogBelow(kept, i + 1) = FirstLogs(chain, i + 1)
    BY DEF ScanOK
  <2>1. i < poll.from
    BY <1>2, <1>3 DEF ReadOK, Orphaned
  <2>2. LogBelow(events, i + 1) = FirstLogs(chain, i + 1)
    BY DEF IndexInv, MemoryOK, ScanOK
  <2>3. \A l \in LogBelow(events, i + 1) : l.block < poll.from
    <3> TAKE l \in LogBelow(events, i + 1)
    <3>1. l \in Log /\ l.block < i + 1
      BY <1>5 DEF LogBelow
    <3> QED BY <1>3, <2>1, <3>1 DEF Log
  <2> QED BY <1>6, <2>2, <2>3
<1>10. MemoryOK'
  <2>1. ScanOK(RescanFrom, events, hashes)'
    BY <1>1, <1>9 DEF ScanOK, OnAt, FirstLogs
  <2>2. (next > 0 /\ OnAt(next - 1, hashes[next - 1]) => undercut \/ membership = MembersOn(SubSeq(chain, 1, next)))'
    BY <1>1 DEF IndexInv, MemoryOK, OnAt, MembersOn
  <2> QED BY <1>7, <1>8, <2>1, <2>2 DEF MemoryOK
<1>11. /\ poll'.pc = "logs" /\ poll'.head = poll.head /\ poll'.from = poll.from /\ poll'.read = poll.read
       /\ poll'.asked = 0 /\ poll'.logs = {}
       /\ poll' = [pc |-> "logs", head |-> poll'.head, from |-> poll'.from, read |-> poll'.read,
                   asked |-> poll'.asked, logs |-> poll'.logs]
  BY <1>1
<1>12. ReadOK'
  <2>1. Orphaned(poll.from)' /\ Settled(poll.from)'
    BY <1>1, <1>2, <1>11 DEF ReadOK, Orphaned, Settled, OnAt
  <2>2. \A i \in DOMAIN poll'.read : WasRead(poll.from + i - 1, poll.read[i])'
    BY <1>1, <1>2, <1>11 DEF ReadOK, WasRead, OnAt
  <2> QED BY <1>1, <1>2, <1>11, <2>1, <2>2 DEF ReadOK
<1>13. LogsOK'
  <2>1. Asked' = {}
    BY <1>11 DEF Asked
  <2>2. poll'.asked \in 0 .. Len(EventNames) /\ poll'.logs = {} /\ IsFiniteSet({})
    BY <1>11, NamesDiffer, FS_EmptySet
  <2> QED BY <2>1, <2>2 DEF LogsOK
<1>14. Asking'
  <2>1. Len(poll'.read) = poll'.head - poll'.from + 1
    <3>1. Len(poll.read) \in Nat /\ poll.from \in Nat /\ Len(poll.read) <= poll.head - poll.from + 1
      BY <1>2, <1>3 DEF ReadOK
    <3>2. Len(poll.read) = poll.head - poll.from + 1
      BY <1>1, <1>3, <3>1
    <3> QED BY <1>11, <3>2
  <2>2. \A p \in DOMAIN events' : events'[p].block < poll'.from
    BY <1>1, <1>6, <1>11
  <2> QED BY <1>11, <1>12, <1>13, <2>1, <2>2 DEF Asking
<1> QED BY <1>4, <1>10, <1>14 DEF IndexInv, PollOK

LEMMA ImageFinite ==
  ASSUME NEW f, IsFiniteSet(DOMAIN f)
  PROVE  IsFiniteSet({f[x] : x \in DOMAIN f})
<1> DEFINE image == {f[x] : x \in DOMAIN f}
           g == [x \in DOMAIN f |-> f[x]]
<1>1. g \in Surjection(DOMAIN f, image)
  BY DEF Surjection
<1> HIDE DEF g, image
<1>2. IsFiniteSet(image)
  BY <1>1, FS_Surjection
<1> QED BY <1>2 DEF image

\* A chain has finitely many logs.
LEMMA LogsFinite ==
  ASSUME NEW blocks \in Seq(Block)
  PROVE  IsFiniteSet(Logs(blocks))
<1>1. Len(blocks) \in Nat
  OBVIOUS
<1>2. ASSUME NEW n \in 0 .. Len(blocks) - 1 PROVE IsFiniteSet(LogsIn(blocks, n))
  <2> DEFINE all == blocks[n + 1].events
             at == [i \in DOMAIN all |-> [block |-> n, index |-> i, event |-> all[i]]]
  <2>1. n + 1 \in DOMAIN blocks /\ blocks[n + 1] \in Block
    BY <1>1
  <2>2. all \in Seq(Event)
    BY <2>1 DEF Block
  <2>3. LogsIn(blocks, n) = {at[i] : i \in DOMAIN at} /\ DOMAIN at = DOMAIN all
    BY DEF LogsIn
  <2> HIDE DEF all, at
  <2>4. Len(all) \in Nat /\ DOMAIN all = 1 .. Len(all) /\ 1 \in Int /\ Len(all) \in Int
    BY <2>2
  <2>5. IsFiniteSet(DOMAIN all)
    BY <2>4, FS_Interval
  <2>6. IsFiniteSet({at[i] : i \in DOMAIN at})
    BY <2>3, <2>5, ImageFinite
  <2> QED BY <2>3, <2>6
<1>3. IsFiniteSet(0 .. Len(blocks) - 1)
  <2>1. 0 \in Int /\ Len(blocks) - 1 \in Int
    BY <1>1
  <2> QED BY <2>1, FS_Interval
<1> DEFINE sets == {LogsIn(blocks, n) : n \in 0 .. Len(blocks) - 1}
           in == [n \in 0 .. Len(blocks) - 1 |-> LogsIn(blocks, n)]
<1>4. IsFiniteSet(sets)
  <2>1. sets = {in[n] : n \in DOMAIN in} /\ DOMAIN in = 0 .. Len(blocks) - 1
    OBVIOUS
  <2> HIDE DEF in
  <2>2. IsFiniteSet({in[n] : n \in DOMAIN in})
    BY <1>3, <2>1, ImageFinite
  <2> QED BY <2>1, <2>2
<1>5. \A s \in sets : IsFiniteSet(s)
  BY <1>2
<1>6. Logs(blocks) = UNION sets
  BY DEF Logs
<1> HIDE DEF sets
<1> QED BY <1>4, <1>5, <1>6, FS_UNION

LEMMA GetLogsKeeps ==
  ASSUME IndexInv, GetLogs
  PROVE  IndexInv'
<1> DEFINE name == EventNames[poll.asked + 1]
           new == LogsNamed(name)
           all == poll.logs \cup new
           names == Asked \cup {name}
<1>1. ChainOK' /\ MemoryOK' /\ DiskOK'
  BY MemoryStays, DiskStays DEF IndexInv, GetLogs
<1>2. Asking /\ ReadOK /\ LogsOK
  BY DEF IndexInv, PollOK, GetLogs, Idle, Probing, Reading, Asking
<1>3. /\ next' = next /\ hashes' = hashes /\ events' = events /\ chain' = chain /\ reorgs' = reorgs
      /\ undercut' = undercut /\ RescanFrom' = RescanFrom
  BY DEF GetLogs, chainVars, memoryVars, RescanFrom
<1>4. poll.asked \in Nat /\ poll.asked < 4 /\ poll.asked + 1 \in 1 .. 4
  BY <1>2, NamesDiffer DEF LogsOK, GetLogs
<1>5. poll' = [pc |-> "logs", head |-> poll.head, from |-> poll.from, read |-> poll.read,
               asked |-> poll.asked + 1, logs |-> all]
  <2>1. poll' = [poll EXCEPT !.asked = @ + 1, !.logs = @ \cup new]
    BY DEF GetLogs
  <2> HIDE DEF new
  <2> QED BY <1>2, <2>1 DEF Asking
<1>6. /\ poll'.pc = "logs" /\ poll'.head = poll.head /\ poll'.from = poll.from /\ poll'.read = poll.read
      /\ poll'.asked = poll.asked + 1 /\ poll'.logs = all
      /\ poll' = [pc |-> "logs", head |-> poll'.head, from |-> poll'.from, read |-> poll'.read,
                  asked |-> poll'.asked, logs |-> poll'.logs]
  <2> HIDE DEF all
  <2> QED BY <1>5
<1>7. Asked' = names
  <2>1. Asked' = {EventNames[i] : i \in 1 .. poll.asked + 1}
    BY <1>6 DEF Asked
  <2>2. \A i : i \in 1 .. poll.asked + 1 <=> i \in 1 .. poll.asked \/ i = poll.asked + 1
    BY <1>4
  <2> QED BY <2>1, <2>2 DEF Asked
<1>8. chain \in Seq(Block) /\ Logs(chain) \subseteq Log /\ IsFiniteSet(Logs(chain))
  BY LogsTyped, LogsFinite DEF IndexInv, ChainOK
<1>9. \A l : l \in new <=> l \in Logs(chain) /\ l.block \in poll.from .. poll.head /\ NameOf(l) = name
  BY DEF LogsNamed, NameOf
<1> HIDE DEF new
<1>10. all \subseteq Log /\ IsFiniteSet(all)
  <2>1. new \in SUBSET Logs(chain)
    BY <1>9
  <2>2. IsFiniteSet(new) /\ IsFiniteSet(poll.logs)
    BY <1>2, <1>8, <2>1, FS_Subset DEF LogsOK
  <2>3. IsFiniteSet(all)
    BY <2>2, FS_Union
  <2> QED BY <1>2, <1>8, <2>1, <2>3 DEF LogsOK
<1>11. \A l \in poll.logs : NameOf(l) # name
  <2> TAKE l \in poll.logs
  <2>1. PICK i \in 1 .. poll.asked : NameOf(l) = EventNames[i]
    BY <1>2 DEF LogsOK, Asked
  <2>2. i \in 1 .. 4 /\ i # poll.asked + 1
    BY <1>4
  <2> HIDE DEF name
  <2> QED BY <1>4, <2>1, <2>2, NamesDiffer DEF name
<1>12. \A l \in all : l.block \in poll.from .. poll.head /\ NameOf(l) \in names
  BY <1>2, <1>9 DEF LogsOK
<1>13. ASSUME NEW k \in all, NEW l \in all, k.block = l.block, k.index = l.index, NameOf(k) = NameOf(l)
       PROVE  k = l
  <2>1. CASE k \in poll.logs /\ l \in poll.logs
    BY <1>2, <1>13, <2>1 DEF LogsOK
  <2>2. CASE k \in new /\ l \in new
    <3>1. k \in Logs(chain) /\ l \in Logs(chain)
      BY <1>9, <2>2
    <3> QED BY <1>8, <1>13, <3>1, LogsTyped
  <2>3. ~ (k \in poll.logs /\ l \in new) /\ ~ (k \in new /\ l \in poll.logs)
    <3> HIDE DEF name
    <3> QED BY <1>9, <1>11, <1>13
  <2> QED BY <2>1, <2>2, <2>3
<1> HIDE DEF name
<1>14. ASSUME NEW i \in DOMAIN poll.read, OnAt(poll.from + i - 1, poll.read[i])
       PROVE  {l \in all : l.block < poll.from + i}
                = {l \in FirstLogs(chain, poll.from + i) : l.block >= poll.from /\ NameOf(l) \in names}
  <2> DEFINE shared(l) == l \in FirstLogs(chain, poll.from + i) /\ l.block >= poll.from
  <2>1. \A l : l \in poll.logs /\ l.block < poll.from + i <=> shared(l) /\ NameOf(l) \in Asked
    BY <1>2, <1>14 DEF LogsOK
  <2>2. \A l : l \in new /\ l.block < poll.from + i <=> shared(l) /\ NameOf(l) = name
    <3>1. poll.from \in Nat /\ poll.head \in Nat /\ i \in Nat /\ i <= poll.head - poll.from + 1
      <4>1. next \in Nat
        BY DEF IndexInv, MemoryOK, HashesOK
      <4>2. poll.from \in Nat /\ poll.head \in Nat /\ poll.read \in Seq(Nat)
        BY <1>2, <4>1, RescanTyped DEF ReadOK
      <4>3. Len(poll.read) = poll.head - poll.from + 1
        BY <1>2 DEF Asking
      <4> QED BY <1>14, <4>2, <4>3
    <3>2. \A l \in Logs(chain) : l.block \in Nat
      BY <1>8 DEF Log
    <3> QED BY <1>9, <3>1, <3>2 DEF FirstLogs
  <2> HIDE DEF shared
  <2>3. \A l : l \in all /\ l.block < poll.from + i <=> shared(l) /\ NameOf(l) \in names
    BY <2>1, <2>2
  <2> HIDE DEF all, names
  <2> QED BY <2>3 DEF shared
<1> HIDE DEF all, names
<1>15. LogsOK'
  <2>1. \A i \in DOMAIN poll'.read : OnAt(poll.from + i - 1, poll.read[i])' =>
          {l \in poll'.logs : l.block < poll'.from + i}
            = {l \in FirstLogs(chain', poll'.from + i) : l.block >= poll'.from /\ NameOf(l) \in Asked'}
    BY <1>3, <1>6, <1>7, <1>14 DEF OnAt
  <2>2. poll'.asked \in 0 .. Len(EventNames)
    BY <1>4, <1>6, NamesDiffer
  <2> QED BY <1>6, <1>7, <1>10, <1>12, <1>13, <2>1, <2>2 DEF LogsOK, FirstLogs
<1>16. ReadOK'
  <2>1. Orphaned(poll.from)' /\ Settled(poll.from)'
    BY <1>2, <1>3, <1>6 DEF ReadOK, Orphaned, Settled, OnAt
  <2>2. \A i \in DOMAIN poll'.read : WasRead(poll.from + i - 1, poll.read[i])'
    BY <1>2, <1>3, <1>6 DEF ReadOK, WasRead, OnAt
  <2> QED BY <1>2, <1>3, <1>6, <2>1, <2>2 DEF ReadOK
<1>17. Asking'
  <2>1. Len(poll'.read) = poll'.head - poll'.from + 1 /\ \A p \in DOMAIN events' : events'[p].block < poll'.from
    BY <1>2, <1>3, <1>6 DEF Asking
  <2> QED BY <1>6, <1>15, <1>16, <2>1 DEF Asking
<1> QED BY <1>1, <1>17 DEF IndexInv, PollOK

\* The members of the first blocks of the chain are those of their logs.
LEMMA ReplayIsCanonical ==
  ASSUME ChainOK, NEW n \in Nat, NEW list, EventsOK(n, list), n <= Len(chain),
         LogBelow(list, n) = FirstLogs(chain, n)
  PROVE  MembersOf(list) = MembersOn(SubSeq(chain, 1, n))
<1> DEFINE blocks == SubSeq(chain, 1, n)
<1>1. chain \in Seq(Block) /\ blocks \in Seq(Block) /\ Len(blocks) = n /\ \A i \in 1 .. n : blocks[i] = chain[i]
  BY DEF ChainOK
<1> HIDE DEF blocks
<1>2. FirstLogs(blocks, n) = FirstLogs(chain, n)
  BY <1>1, FirstLogsShared
<1>3. FirstLogs(blocks, n) = Logs(blocks)
  BY <1>1, LogsTyped DEF FirstLogs
<1>4. LogBelow(list, Len(blocks)) = Logs(blocks)
  BY <1>1, <1>2, <1>3
<1>5. MembersOf(list) = MembersOn(blocks)
  BY <1>1, <1>4, ReplayIsMembership DEF EventsOK
<1> QED BY <1>5 DEF blocks

LEMMA PollerRestartKeeps ==
  ASSUME IndexInv, PollerRestart
  PROVE  IndexInv'
<1>1. /\ next' = disk.next /\ events' = disk.events /\ hashes' = disk.hashes
      /\ membership' = MembersOf(disk.events) /\ poll' = Idle
      /\ chain' = chain /\ reorgs' = reorgs /\ undercut' = undercut
  BY DEF PollerRestart, chainVars
<1>2. ChainOK' /\ DiskOK'
  BY <1>1, DiskStays DEF IndexInv, PollerRestart, ChainOK
<1>3. HashesOK(disk.next, disk.hashes) /\ EventsOK(disk.next, disk.events)
      /\ ScanOK(disk.next, disk.events, disk.hashes) /\ disk.next \in Nat
  BY DEF IndexInv, DiskOK, HashesOK
<1>4. HashesOK(next, hashes)' /\ EventsOK(next, events)'
  BY <1>1, <1>3 DEF HashesOK, WasRead, OnAt, EventsOK, Sorted
<1>5. ScanOK(RescanFrom, events, hashes)'
  <2>1. PICK r \in 0 .. disk.next : RescanFrom' = r
    BY <1>1, <1>3, IndexAssumption DEF RescanFrom, HighestOf
  <2>2. \A i \in 0 .. r - 1 : i \in 0 .. disk.next - 1
    BY <1>3
  <2> QED BY <1>1, <1>3, <2>1, <2>2 DEF ScanOK, OnAt, FirstLogs
<1>6. ASSUME disk.next > 0, OnAt(disk.next - 1, disk.hashes[disk.next - 1]), ~ undercut
      PROVE  MembersOf(disk.events) = MembersOn(SubSeq(chain, 1, disk.next))
  <2>1. disk.next - 1 \in 0 .. disk.next - 1 /\ disk.next - 1 + 1 = disk.next
    BY <1>3, <1>6
  <2>2. LogBelow(disk.events, disk.next) = FirstLogs(chain, disk.next)
    BY <1>3, <1>6, <2>1 DEF ScanOK
  <2>3. disk.next <= Len(chain)
    BY <1>3, <1>6 DEF OnAt, IndexInv, ChainOK
  <2> QED BY <1>3, <2>2, <2>3, ReplayIsCanonical DEF IndexInv
<1>7. MemoryOK'
  <2>1. (next > 0 /\ OnAt(next - 1, hashes[next - 1]) => undercut \/ membership = MembersOn(SubSeq(chain, 1, next)))'
    BY <1>1, <1>6 DEF OnAt, MembersOn
  <2> QED BY <1>4, <1>5, <2>1 DEF MemoryOK
<1> QED BY <1>1, <1>2, <1>7 DEF IndexInv, PollOK

\* What is indexed after the logs of a suffix have come.
LEMMA ApplyLogsKeeps ==
  ASSUME IndexInv, ApplyLogs
  PROVE  IndexInv'
<1> DEFINE tail == ByBlock(poll.logs)
           list == events \o tail
           known == [n \in {k \in DOMAIN hashes : k < poll.from} \cup (poll.from .. poll.head) |->
                       IF n < poll.from THEN hashes[n] ELSE poll.read[n - poll.from + 1]]
           top == poll.head + 1
<1>1. Asking /\ ReadOK /\ LogsOK
  BY DEF IndexInv, PollOK, ApplyLogs, Idle, Probing, Reading, Asking
<1>2. /\ events' = list /\ membership' = MembersOf(list) /\ hashes' = known /\ next' = top /\ poll' = Idle
      /\ chain' = chain /\ reorgs' = reorgs /\ undercut' = undercut
      /\ disk' = Cursor(top, list, known) \/ disk' = disk
  BY DEF ApplyLogs, chainVars
<1>3. /\ next \in Nat /\ RescanFrom \in 0 .. next /\ poll.from \in 0 .. RescanFrom
      /\ poll.from \in Nat /\ poll.from <= next /\ DOMAIN hashes = 0 .. next - 1
      /\ poll.head \in Nat /\ poll.head >= next /\ top \in Nat
  BY <1>1, RescanTyped DEF IndexInv, MemoryOK, HashesOK, ReadOK
<1>4. poll.read \in Seq(Nat) /\ DOMAIN poll.read = 1 .. poll.head - poll.from + 1
  BY <1>1, <1>3 DEF Asking, ReadOK
<1>5. /\ DOMAIN known = 0 .. top - 1
      /\ \A i \in 0 .. poll.from - 1 : known[i] = hashes[i] /\ i \in 0 .. next - 1
      /\ \A i \in poll.from .. poll.head :
           /\ i - poll.from + 1 \in DOMAIN poll.read /\ known[i] = poll.read[i - poll.from + 1]
           /\ poll.from + (i - poll.from + 1) = i + 1
  <2> DEFINE scanned == {k \in DOMAIN hashes : k < poll.from} \cup (poll.from .. poll.head)
  <2>1. scanned = 0 .. top - 1
    BY <1>3
  <2>2. known = [n \in scanned |->
                   IF n < poll.from THEN hashes[n] ELSE poll.read[n - poll.from + 1]]
    OBVIOUS
  <2> HIDE DEF known, scanned
  <2>3. \A i \in 0 .. poll.from - 1 : i \in scanned /\ i < poll.from /\ i \in 0 .. next - 1
    BY <1>3, <2>1
  <2>4. \A i \in poll.from .. poll.head :
          /\ i \in scanned /\ ~ (i < poll.from)
          /\ i - poll.from + 1 \in DOMAIN poll.read /\ poll.from + (i - poll.from + 1) = i + 1
    <3> TAKE i \in poll.from .. poll.head
    <3>1. i \in Int /\ poll.from <= i /\ i <= poll.head
      BY <1>3
    <3>2. i \in scanned
      BY <1>3, <2>1, <3>1
    <3>3. i - poll.from + 1 \in 1 .. poll.head - poll.from + 1
      BY <1>3, <3>1
    <3> QED BY <1>3, <1>4, <3>1, <3>2, <3>3
  <2> QED BY <2>1, <2>2, <2>3, <2>4
<1> HIDE DEF known
<1>6. HashesOK(top, known)
  <2>1. \A i \in 0 .. poll.from - 1 : WasRead(i, known[i])
    BY <1>5 DEF IndexInv, MemoryOK, HashesOK
  <2>2. ASSUME NEW i \in poll.from .. poll.head PROVE WasRead(i, known[i])
    <3>1. poll.from + (i - poll.from + 1) - 1 = i
      BY <1>3
    <3>2. WasRead(poll.from + (i - poll.from + 1) - 1, poll.read[i - poll.from + 1])
      BY <1>1, <1>5 DEF ReadOK
    <3> QED BY <1>5, <3>1, <3>2
  <2>3. \A i \in 0 .. top - 1 : i \in 0 .. poll.from - 1 \/ i \in poll.from .. poll.head
    BY <1>3
  <2> QED BY <1>3, <1>5, <2>1, <2>2, <2>3 DEF HashesOK
<1>7. /\ tail \in Seq(Log) /\ Sorted(tail)
      /\ \A p \in DOMAIN tail : tail[p] \in poll.logs
      /\ \A l \in poll.logs : \E p \in DOMAIN tail : tail[p] = l
  <2>1. poll.logs \in SUBSET Log /\ IsFiniteSet(poll.logs)
    BY <1>1 DEF LogsOK
  <2>2. tail \in Seq(poll.logs)
    BY <1>1, <2>1, SortIsSorted DEF LogsOK
  <2>3. Sorted(tail) /\ \A l \in poll.logs : \E p \in DOMAIN tail : tail[p] = l
    BY <1>1, <2>1, SortIsSorted DEF LogsOK
  <2> HIDE DEF tail
  <2> QED BY <2>1, <2>2, <2>3
<1>8. events \in Seq(Log) /\ Sorted(events) /\ \A p \in DOMAIN events : events[p].block < poll.from
  BY <1>1 DEF Asking, IndexInv, MemoryOK, EventsOK
<1>9. \A l \in poll.logs : l \in Log /\ l.block \in poll.from .. poll.head
  BY <1>1 DEF LogsOK
<1> HIDE DEF tail
<1> DEFINE m == Len(events)
<1>10. /\ list \in Seq(Log) /\ m \in Nat /\ DOMAIN events = 1 .. m
       /\ \A p \in DOMAIN list : \/ p \in DOMAIN events /\ list[p] = events[p]
                                 \/ p - m \in DOMAIN tail /\ list[p] = tail[p - m] /\ p > m
       /\ \A p \in DOMAIN events : p \in DOMAIN list /\ list[p] = events[p]
       /\ \A p \in DOMAIN tail : p + m \in DOMAIN list /\ list[p + m] = tail[p]
       /\ \A p \in DOMAIN list : p \in Nat
  BY <1>7, <1>8
<1> HIDE DEF list, m
<1>11. EventsOK(top, list)
  <2>1. ASSUME NEW p \in DOMAIN list PROVE list[p].block < top
    <3>1. CASE p \in DOMAIN events /\ list[p] = events[p]
      <4>1. events[p].block \in Nat
        <5>1. events[p] \in Log
          BY <1>8, <3>1
        <5> QED BY <5>1 DEF Log
      <4>2. events[p].block < poll.from
        BY <1>8, <3>1
      <4> QED BY <1>3, <3>1, <4>1, <4>2
    <3>2. CASE p - m \in DOMAIN tail /\ list[p] = tail[p - m]
      BY <1>3, <1>7, <1>9, <3>2
    <3> QED BY <1>10, <3>1, <3>2
  <2>2. ASSUME NEW p \in DOMAIN list, NEW q \in DOMAIN list, p < q PROVE ~ Precedes(list[q], list[p])
    <3>1. CASE p \in DOMAIN events /\ q \in DOMAIN events
      BY <1>8, <1>10, <2>2, <3>1 DEF Sorted
    <3>2. CASE p > m /\ p - m \in DOMAIN tail /\ q - m \in DOMAIN tail /\ list[p] = tail[p - m] /\ list[q] = tail[q - m]
      <4>1. p - m < q - m
        BY <1>10, <2>2
      <4> QED BY <1>7, <3>2, <4>1 DEF Sorted
    <3>3. CASE p \in DOMAIN events /\ q - m \in DOMAIN tail /\ list[q] = tail[q - m]
      <4>1. list[p] \in Log /\ list[p].block < poll.from
        BY <1>8, <1>10, <3>3
      <4>2. list[q].block >= poll.from /\ list[q].block \in Nat
        BY <1>3, <1>7, <1>9, <3>3
      <4> QED BY <1>3, <4>1, <4>2 DEF Precedes, Log
    <3>4. ~ (p > m /\ q \in DOMAIN events)
      BY <1>10, <2>2
    <3> QED BY <1>10, <3>1, <3>2, <3>3, <3>4
  <2> QED BY <1>10, <2>1, <2>2 DEF EventsOK, Sorted
<1>12. \A n : LogBelow(list, n) = LogBelow(events, n) \cup {l \in poll.logs : l.block < n}
  <2> TAKE n
  <2>1. \A l \in LogBelow(list, n) : l \in LogBelow(events, n) \/ (l \in poll.logs /\ l.block < n)
    BY <1>7, <1>10 DEF LogBelow
  <2>2. \A l \in LogBelow(events, n) : l \in LogBelow(list, n)
    BY <1>10 DEF LogBelow
  <2>3. \A l \in poll.logs : l.block < n => l \in LogBelow(list, n)
    <3> SUFFICES ASSUME NEW l \in poll.logs, l.block < n PROVE l \in LogBelow(list, n)
      OBVIOUS
    <3>1. PICK p \in DOMAIN tail : tail[p] = l
      BY <1>7
    <3>2. p + m \in DOMAIN list /\ list[p + m] = l
      BY <1>10, <3>1
    <3> QED BY <3>2 DEF LogBelow
  <2> QED BY <2>1, <2>2, <2>3
<1>13. ScanOK(top, list, known)
  <2> SUFFICES ASSUME NEW i \in 0 .. top - 1, OnAt(i, known[i]), ~ undercut
               PROVE  LogBelow(list, i + 1) = FirstLogs(chain, i + 1)
    BY DEF ScanOK
  <2>1. ASSUME NEW j \in 0 .. RescanFrom - 1, OnAt(j, hashes[j])
        PROVE  LogBelow(events, j + 1) = FirstLogs(chain, j + 1)
    BY <2>1 DEF IndexInv, MemoryOK, ScanOK
  <2>2. CASE i < poll.from
    <3>1. i \in 0 .. poll.from - 1 /\ i \in 0 .. RescanFrom - 1
      BY <1>3, <2>2
    <3>2. LogBelow(events, i + 1) = FirstLogs(chain, i + 1)
      BY <1>5, <2>1, <3>1
    <3>3. {l \in poll.logs : l.block < i + 1} = {}
      BY <1>3, <1>9, <2>2
    <3> QED BY <1>12, <3>2, <3>3
  <2>3. CASE i >= poll.from
    <3> DEFINE j == i - poll.from + 1
               here == FirstLogs(chain, i + 1)
    <3>1. i \in poll.from .. poll.head
      BY <1>3, <2>3
    <3>2. j \in DOMAIN poll.read /\ OnAt(i, poll.read[j]) /\ poll.from + j = i + 1 /\ poll.from + j - 1 = i
      <4>1. j \in DOMAIN poll.read /\ known[i] = poll.read[j]
        BY <1>5, <3>1
      <4>2. poll.from + j = i + 1 /\ poll.from + j - 1 = i
        BY <1>3
      <4> QED BY <4>1, <4>2
    <3> HIDE DEF j
    <3>3. \A l \in here : l \in Log /\ NameOf(l) \in Asked /\ l.block < i + 1
      <4>1. \A l \in here : l \in Log /\ l.block < i + 1
        BY LogsTyped DEF IndexInv, ChainOK, FirstLogs
      <4>2. poll.asked = 4
        BY NamesDiffer DEF ApplyLogs
      <4> HIDE DEF here
      <4> QED BY <4>1, <4>2, NamesDiffer DEF Asked
    <3>4. {l \in poll.logs : l.block < i + 1} = {l \in here : l.block >= poll.from}
      <4>1. {l \in poll.logs : l.block < poll.from + j}
              = {l \in FirstLogs(chain, poll.from + j) : l.block >= poll.from /\ NameOf(l) \in Asked}
        BY <1>1, <3>2 DEF LogsOK
      <4> QED BY <3>2, <3>3, <4>1
    <3>5. LogBelow(events, poll.from) = FirstLogs(chain, poll.from)
      <4>1. CASE poll.from = 0
        <5>1. \A l \in Log : ~ (l.block < 0)
          BY DEF Log
        <5>2. Logs(chain) \subseteq Log
          BY LogsTyped DEF IndexInv, ChainOK
        <5>3. LogBelow(events, 0) = {}
          BY <1>8, <5>1 DEF LogBelow
        <5> QED BY <4>1, <5>1, <5>2, <5>3 DEF FirstLogs
      <4>2. CASE poll.from # 0
        <5>1. OnAt(poll.from - 1, hashes[poll.from - 1])
          BY <1>1, <4>2 DEF ReadOK, Settled
        <5>2. poll.from - 1 \in 0 .. RescanFrom - 1 /\ poll.from - 1 + 1 = poll.from
          BY <1>3, <4>2
        <5>3. LogBelow(events, poll.from - 1 + 1) = FirstLogs(chain, poll.from - 1 + 1)
          BY <2>1, <5>1, <5>2
        <5> QED BY <5>2, <5>3
      <4> QED BY <4>1, <4>2
    <3>6. LogBelow(events, i + 1) = LogBelow(events, poll.from)
      <4>1. \A p \in DOMAIN events : events[p] \in Log
        BY <1>8
      <4>2. \A p \in DOMAIN events : events[p].block \in Nat /\ events[p].block < poll.from
        BY <1>8, <4>1 DEF Log
      <4>3. \A p \in DOMAIN events : events[p].block < i + 1
        BY <1>3, <2>3, <4>2
      <4> QED BY <4>2, <4>3 DEF LogBelow
    <3>7. FirstLogs(chain, poll.from) = {l \in here : l.block < poll.from}
      <4>1. \A l \in Logs(chain) : l.block \in Nat
        BY LogsTyped DEF IndexInv, ChainOK, Log
      <4>2. \A l \in Logs(chain) : l.block < poll.from => l.block < i + 1
        BY <1>3, <2>3, <4>1
      <4> QED BY <4>2 DEF FirstLogs
    <3>8. \A l \in here : l.block < poll.from \/ l.block >= poll.from
      BY <1>3, <3>3 DEF Log
    <3> HIDE DEF here
    <3>9. LogBelow(list, i + 1) = LogBelow(events, i + 1) \cup {l \in poll.logs : l.block < i + 1}
      BY <1>12
    <3>10. LogBelow(list, i + 1) = {l \in here : l.block < poll.from} \cup {l \in here : l.block >= poll.from}
      BY <3>4, <3>5, <3>6, <3>7, <3>9
    <3> QED BY <3>8, <3>10 DEF here
  <2> QED BY <1>3, <2>2, <2>3
<1>14. OnAt(poll.head, known[poll.head]) /\ ~ undercut => MembersOf(list) = MembersOn(SubSeq(chain, 1, top))
  <2> SUFFICES ASSUME OnAt(poll.head, known[poll.head]), ~ undercut
               PROVE  MembersOf(list) = MembersOn(SubSeq(chain, 1, top))
    OBVIOUS
  <2>1. LogBelow(list, top) = FirstLogs(chain, top)
    <3>1. poll.head \in 0 .. top - 1 /\ poll.head + 1 = top
      BY <1>3
    <3> HIDE DEF top
    <3> QED BY <1>13, <3>1 DEF ScanOK
  <2>2. top <= Len(chain)
    BY <1>3 DEF OnAt, IndexInv, ChainOK
  <2> QED BY <1>3, <1>11, <2>1, <2>2, ReplayIsCanonical DEF IndexInv
<1>15. ChainOK'
  BY <1>2 DEF IndexInv, ChainOK
<1>16. poll.head = top - 1 /\ top > 0
  BY <1>3
<1> HIDE DEF top
<1>17. MemoryOK'
  <2>1. HashesOK(next, hashes)' /\ EventsOK(next, events)'
    BY <1>2, <1>6, <1>11 DEF HashesOK, WasRead, OnAt, EventsOK, Sorted
  <2>2. ScanOK(RescanFrom, events, hashes)'
    <3> DEFINE r == HighestOf(0, top - ReorgBuffer)
    <3>1. RescanFrom' = r /\ r \in 0 .. top
      BY <1>2, <1>3, IndexAssumption DEF RescanFrom, HighestOf
    <3> HIDE DEF r
    <3>2. \A i \in 0 .. r - 1 : i \in 0 .. top - 1
      BY <1>3, <3>1
    <3> QED BY <1>2, <1>13, <3>1, <3>2 DEF ScanOK, OnAt, FirstLogs
  <2>3. (next > 0 /\ OnAt(next - 1, hashes[next - 1]) => undercut \/ membership = MembersOn(SubSeq(chain, 1, next)))'
    BY <1>2, <1>14, <1>16 DEF OnAt, MembersOn
  <2> QED BY <2>1, <2>2, <2>3 DEF MemoryOK
<1>18. DiskOK'
  <2>1. CASE disk' = disk
    BY <1>2, <2>1, DiskStays DEF IndexInv, chainVars
  <2>2. CASE disk' = Cursor(top, list, known)
    <3>1. disk'.next = top /\ disk'.events = list /\ disk'.hashes = known
      BY <2>2 DEF Cursor
    <3> QED BY <1>2, <1>6, <1>11, <1>13, <3>1
            DEF DiskOK, HashesOK, WasRead, OnAt, EventsOK, Sorted, ScanOK, FirstLogs
  <2> QED BY <1>2, <2>1, <2>2
<1> QED BY <1>2, <1>15, <1>17, <1>18 DEF IndexInv, PollOK

LEMMA IndexInvNext == IndexInv /\ [IndexNext]_indexVars => IndexInv'
<1> SUFFICES ASSUME IndexInv, [IndexNext]_indexVars PROVE IndexInv'
  OBVIOUS
<1>1. ASSUME NEW new \in Contents, Mine(new) PROVE IndexInv'
  <2>1. UNCHANGED <<memoryVars, disk, poll>>
    BY <1>1 DEF Mine
  <2> QED BY <1>1, <2>1, MineMoves, MovedKeeps DEF IndexInv
<1>2. ASSUME NEW k \in 1 .. Height, Reorg(k) PROVE IndexInv'
  <2>1. UNCHANGED <<memoryVars, disk, poll>>
    BY <1>2 DEF Reorg
  <2> QED BY <1>2, <2>1, ReorgMoves, MovedKeeps DEF IndexInv
<1>3. CASE PollStep
  BY <1>3, StartPollKeeps, ProbeKeeps, ReadHashKeeps, DropSuffixKeeps, GetLogsKeeps, ApplyLogsKeeps,
     PollFailsKeeps DEF PollStep
<1>4. CASE PollerRestart
  BY <1>4, PollerRestartKeeps
<1>5. CASE UNCHANGED indexVars
  <2>1. /\ UNCHANGED <<chainVars, memoryVars, disk, undercut>> /\ poll' = poll
        /\ chain' = chain /\ reorgs' = reorgs /\ undercut' = undercut
        /\ next' = next /\ events' = events /\ hashes' = hashes
    BY <1>5 DEF indexVars, chainVars, memoryVars
  <2>2. ChainOK' /\ MemoryOK' /\ DiskOK'
    BY <2>1, MemoryStays, DiskStays DEF IndexInv
  <2>3. CASE poll = Idle
    BY <2>1, <2>2, <2>3 DEF IndexInv, PollOK
  <2>4. CASE Probing
    <3>1. Probing'
      BY <2>1, <2>4 DEF Probing, Orphaned, RescanFrom, OnAt
    <3> QED BY <2>2, <3>1 DEF IndexInv, PollOK
  <2>5. ReadOK => ReadOK'
    BY <2>1 DEF ReadOK, Orphaned, Settled, RescanFrom, OnAt, WasRead
  <2>6. CASE Reading
    <3>1. Reading'
      BY <2>1, <2>5, <2>6 DEF Reading
    <3> QED BY <2>2, <3>1 DEF IndexInv, PollOK
  <2>7. CASE Asking
    <3>1. LogsOK'
      BY <2>1, <2>7 DEF Asking, LogsOK, Asked, FirstLogs, OnAt
    <3>2. Asking'
      BY <2>1, <2>5, <2>7, <3>1 DEF Asking
    <3> QED BY <2>2, <3>2 DEF IndexInv, PollOK
  <2> QED BY <2>3, <2>4, <2>6, <2>7 DEF IndexInv, PollOK
<1> QED BY <1>1, <1>2, <1>3, <1>4, <1>5 DEF IndexNext

LEMMA IndexInductive == IndexSpec => []IndexInv
<1> QED BY IndexStarts, IndexInvNext, PTL DEF IndexSpec

\* Whatever was reorganised, failed or restarted, the members of the index are those of
\* the chain when the newest block scanned is on it and no poll had the chain go below
\* what it had settled on.
THEOREM IndexMembershipIsCanonical == IndexSpec => []IndexIsCanonical
<1>1. IndexInv => IndexIsCanonical
  BY DEF IndexInv, MemoryOK, HashesOK, IndexIsCanonical, Canonical, OnAt
<1> QED BY <1>1, IndexInductive, PTL
=============================================================================
