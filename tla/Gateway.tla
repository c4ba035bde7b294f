------------------------------- MODULE Gateway -------------------------------
(***************************************************************************)
(* Discovery: the miners' announcements (miner/src/basedai_miner/          *)
(* http_server.py and runtime.py), the gateway's endpoints and its listing *)
(* (gateway/src/basedai_gateway/indexer.py and server.py), for one brain.  *)
(*                                                                         *)
(* The poller is taken as one step that applies the registry's events up   *)
(* to some block; ChainIndex is about its inside.  A miner has one public  *)
(* URL, which stands for it.  Time is relative: what the code stamps with  *)
(* ts has here the age now - ts, which is negative when the miner's clock  *)
(* is ahead.  Announcements may be lost, late, repeated or out of order.   *)
(***************************************************************************)
EXTENDS Integers, Sequences, FiniteSets

CONSTANTS
  Miners,
  Ahead,                \* how far a miner's clock is ahead of the gateway's
  ENDPOINT_TTL, ANNOUNCE_MAX_AGE,
  Verified,             \* <<miner, score>> that a finalized root verifies
  MaxEvents, MaxGatewayRestarts        \* bounds

ASSUME GatewayAssumption ==
  /\ Ahead \in [Miners -> Nat]
  /\ ENDPOINT_TTL \in Nat /\ ANNOUNCE_MAX_AGE \in Nat
  /\ Verified \subseteq Miners \X Nat
  /\ MaxEvents \in Nat /\ MaxGatewayRestarts \in Nat

VARIABLES
  log,          \* MinerRegistered and MinerDeregistered events on the chain
  indexed,      \* how many of them the poller has applied
  members,      \* _miners
  endpoints,    \* _endpoints
  posts,        \* announcements that were signed, from when they may arrive
  quiet,        \* history: the time since each miner signed its last one
  gatewayRestarts

gatewayVars == <<log, indexed, members, endpoints, posts, quiet, gatewayRestarts>>

NoEndpoint == [age |-> 0, score |-> -1]

Stale == ENDPOINT_TTL + 1            \* ages beyond it are not told apart
Longest == ENDPOINT_TTL + ANNOUNCE_MAX_AGE + 1

-----------------------------------------------------------------------------
(* The chain and the poller.                                               *)

Registered(events) ==
  {m \in Miners : \E i \in DOMAIN events :
     /\ events[i] = [joined |-> TRUE, miner |-> m]
     /\ \A j \in DOMAIN events : j > i => events[j].miner # m}

EverLeft(events) == {m \in Miners : \E i \in DOMAIN events : events[i] = [joined |-> FALSE, miner |-> m]}

\* registerMiner or deregisterMiner is mined.
ChangeMembership(m) ==
  /\ Len(log) < MaxEvents                                       \* bound
  /\ log' = Append(log, [joined |-> m \notin Registered(log), miner |-> m])
  /\ UNCHANGED <<indexed, members, endpoints, posts, quiet, gatewayRestarts>>

\* Defect: whoever has once left stays out.
LeaveWins(events) == Registered(events) \ EverLeft(events)

Rebuilt(events) == Registered(events)

\* replace_membership replays all events from the first, and every deregistration
\* among them drops the endpoint, however long ago it was.
Poll(n) ==
  /\ n \in indexed .. Len(log)
  /\ indexed' = n
  /\ members' = Rebuilt(SubSeq(log, 1, n))
  /\ endpoints' = [m \in Miners |->
                     IF m \in EverLeft(SubSeq(log, 1, n)) THEN NoEndpoint ELSE endpoints[m]]
  /\ UNCHANGED <<log, posts, quiet, gatewayRestarts>>

\* The membership is rebuilt from the cursor file, the endpoints are gone.
GatewayRestart ==
  /\ gatewayRestarts < MaxGatewayRestarts                       \* bound
  /\ gatewayRestarts' = gatewayRestarts + 1
  /\ endpoints' = [m \in Miners |-> NoEndpoint]
  /\ UNCHANGED <<log, indexed, members, posts, quiet>>

-----------------------------------------------------------------------------
(* Announcements.                                                          *)

\* announce_once, whether it arrives or not, and whatever the gateway answers.
AnnounceOnce(m) ==
  /\ posts' = posts \cup {[miner |-> m, age |-> -Ahead[m]]}
  /\ quiet' = [quiet EXCEPT ![m] = 0]
  /\ UNCHANGED <<log, indexed, members, endpoints, gatewayRestarts>>

Recent(age) == age \in -ANNOUNCE_MAX_AGE .. ANNOUNCE_MAX_AGE

\* Defect: the endpoint is as fresh as its arrival.
ByArrival(p) == [age |-> 0, score |-> 0]

\* MemberIndex.announce: a new announcement resets the score.
Announced(p) == [age |-> p.age, score |-> 0]

HandleAnnounce(p) ==
  /\ p \in posts
  /\ Recent(p.age)
  /\ p.miner \in members
  /\ endpoints' = [endpoints EXCEPT ![p.miner] = Announced(p)]
  /\ UNCHANGED <<log, indexed, members, posts, quiet, gatewayRestarts>>

\* submit_scores, for one entry; any finalized epoch will do.
SubmitScore(m, score) ==
  /\ <<m, score>> \in Verified
  /\ endpoints[m] # NoEndpoint
  /\ endpoints' = [endpoints EXCEPT ![m].score = score]
  /\ UNCHANGED <<log, indexed, members, posts, quiet, gatewayRestarts>>

-----------------------------------------------------------------------------
(* The listing.                                                            *)

Fresh(m) == endpoints[m] # NoEndpoint /\ endpoints[m].age <= ENDPOINT_TTL

Listed == {m \in members : Fresh(m)}

\* Who may come first in the list; equal scores are in no order.
BestScored(m) ==
  /\ m \in Listed
  /\ \A other \in Listed : endpoints[other].score <= endpoints[m].score

Tick ==
  /\ endpoints' = [m \in Miners |->
       IF endpoints[m] = NoEndpoint \/ endpoints[m].age = Stale THEN endpoints[m]
       ELSE [endpoints[m] EXCEPT !.age = @ + 1]]
  /\ posts' = {[p EXCEPT !.age = @ + 1] : p \in {q \in posts : q.age <= ANNOUNCE_MAX_AGE}}
  /\ quiet' = [m \in Miners |-> IF quiet[m] < Longest + Ahead[m] THEN quiet[m] + 1 ELSE quiet[m]]
  /\ UNCHANGED <<log, indexed, members, gatewayRestarts>>

GatewayInit ==
  /\ log = <<>> /\ indexed = 0 /\ members = {}
  /\ endpoints = [m \in Miners |-> NoEndpoint]
  /\ posts = {}
  /\ quiet = [m \in Miners |-> Longest + Ahead[m]]
  /\ gatewayRestarts = 0

\* What happens around the requests of clients.
GatewayNext ==
  \/ \E m \in Miners : ChangeMembership(m) \/ AnnounceOnce(m)
  \/ \E n \in 0 .. MaxEvents : Poll(n)
  \/ \E p \in posts : HandleAnnounce(p)
  \/ \E leaf \in Verified : SubmitScore(leaf[1], leaf[2])
  \/ Tick

\* The announce loop of a miner and the poll loop go on, and of a request that is
\* made again and again some arrive at once.
GatewayFairness ==
  /\ WF_gatewayVars(Poll(Len(log)))
  /\ \A m \in Miners : /\ WF_gatewayVars(AnnounceOnce(m))
                      /\ SF_gatewayVars(HandleAnnounce([miner |-> m, age |-> -Ahead[m]]))

-----------------------------------------------------------------------------
\* A miner that has stopped announcing is not listed longer than its last
\* announcement is fresh by its own clock: no repeated, late or reordered one
\* keeps it in the list, across polls and restarts.
QuietMinersDisappear ==
  \A m \in Listed : quiet[m] <= ENDPOINT_TTL + Ahead[m]

\* A miner that is registered for good comes into the list again and again,
\* although older announcements may overwrite newer ones, a restart forgets it, and
\* every poll drops the endpoint of one that has once left.
ListedAgainAndAgain ==
  \A m \in Miners : <>[](m \in Registered(log)) => []<>(m \in Listed)
=============================================================================
