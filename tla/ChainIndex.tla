----------------------------- MODULE ChainIndex -----------------------------
(***************************************************************************)
(* The gateway's index of the members of a brain                           *)
(* (gateway/src/basedai_gateway/indexer.py) and the poller that keeps it   *)
(* (server.py, ChainPoller and CursorStore), against a chain that can be   *)
(* reorganised while it is read.                                           *)
(*                                                                         *)
(* poll_once is synchronous: no request is handled while it runs, but each *)
(* of its calls to the node sees the chain of that moment.  Each call is   *)
(* therefore a step.  A member stands for a brain with an address.         *)
(***************************************************************************)
EXTENDS Integers, Sequences, FiniteSets

CONSTANTS
  Members,            \* who may register as a miner or a validator
  Confirmations,      \* blocks below the head that are left alone
  ReorgBuffer,        \* blocks that are read again by every poll
  Contents,           \* the events a block may have, as sequences
  MaxHeight, MaxReorgs, MaxFailures, MaxRestarts        \* bounds

Roles == {"Miner", "Validator"}
Event == [role : Roles, joined : BOOLEAN, member : Members]

ASSUME IndexAssumption ==
  /\ Contents \subseteq Seq(Event)
  /\ Confirmations \in Nat /\ ReorgBuffer \in Nat
  /\ MaxHeight \in Nat /\ MaxReorgs \in Nat /\ MaxFailures \in Nat /\ MaxRestarts \in Nat

VARIABLES
  chain,        \* block n is chain[n + 1]
  reorgs,       \* how often the chain was reorganised
  next,         \* _next_block
  events,       \* _events
  hashes,       \* _hashes, a function on the numbers of the blocks scanned
  membership,   \* MemberIndex._miners and _validators
  disk,         \* what the cursor file holds
  poll,         \* the poll in progress
  failures, restarts,
  undercut      \* history: a reorganisation went below what a poll had settled on

chainVars  == <<chain, reorgs>>
memoryVars == <<next, events, hashes, membership>>
indexVars  == <<chainVars, memoryVars, disk, poll, failures, restarts, undercut>>

-----------------------------------------------------------------------------
(* The chain: the registry's events, one registration or deregistration    *)
(* after the other for each member.                                        *)

\* _EVENTS, in the order their logs are asked for.
EventNames == << <<"Miner", TRUE>>, <<"Miner", FALSE>>, <<"Validator", TRUE>>, <<"Validator", FALSE>> >>

Concerns(e, role, m) == e.role = role /\ e.member = m

\* The logs of a block, numbered from 1, and of a chain.
LogsIn(blocks, n) ==
  LET all == blocks[n + 1].events
  IN {[block |-> n, index |-> i, event |-> all[i]] : i \in DOMAIN all}
Logs(blocks) == UNION {LogsIn(blocks, n) : n \in 0 .. Len(blocks) - 1}

Precedes(a, b) == a.block < b.block \/ (a.block = b.block /\ a.index < b.index)

\* Who is registered on a chain: who has registered, and has not left since.
OnChain(logs, role, m) ==
  \E l \in logs :
    /\ Concerns(l.event, role, m) /\ l.event.joined
    /\ \A k \in logs : Concerns(k.event, role, m) => ~ Precedes(l, k)
MembersOn(blocks) == [role \in Roles |-> {m \in Members : OnChain(Logs(blocks), role, m)}]

\* registerMiner, registerValidator and their counterparts refuse what changes nothing.
LegalAfter(blocks, new) ==
  \A i \in DOMAIN new :
    LET before == Append(blocks, [events |-> SubSeq(new, 1, i - 1)])
    IN OnChain(Logs(before), new[i].role, new[i].member) # new[i].joined

Height == Len(chain) - 1

Mine(new) ==
  /\ Height < MaxHeight                                        \* bound
  /\ LegalAfter(chain, new)
  /\ chain' = Append(chain, [fork |-> reorgs, events |-> new])
  /\ UNCHANGED <<reorgs, memoryVars, disk, poll, failures, restarts, undercut>>

\* The node goes back to its first k blocks, and will follow another branch.
Reorg(k) ==
  /\ reorgs < MaxReorgs                                        \* bound
  /\ Height < MaxHeight                                        \* bound: a block follows
  /\ chain' = SubSeq(chain, 1, k)
  /\ reorgs' = reorgs + 1
  /\ undercut' = (undercut \/ (poll.pc \in {"hashes", "logs"} /\ k < poll.from))
  /\ UNCHANGED <<memoryVars, disk, poll, failures, restarts>>

-----------------------------------------------------------------------------
(* The poller.                                                             *)

Idle == [pc |-> "idle"]
HighestOf(a, b) == IF a < b THEN b ELSE a

RescanFrom == HighestOf(0, next - ReorgBuffer)

\* Defect: a poll waits for two new blocks.
TwoBlocks(head) == head > next

NewBlocks(head) == head >= next

StartPoll ==
  LET head == Height - Confirmations
  IN
  /\ poll = Idle
  /\ NewBlocks(head)
  /\ poll' = [pc |-> "probe", head |-> head, from |-> RescanFrom, probe |-> RescanFrom - 1]
  /\ UNCHANGED <<chainVars, memoryVars, disk, failures, restarts, undercut>>

Scanned(n) == n \in DOMAIN hashes
Canonical(n) == n < Len(chain) /\ hashes[n] = chain[n + 1].fork

\* Defect: the walk back ends at the buffer.
NoWalk(n) == TRUE

\* The walk back ends at a block below those scanned, or one still on the chain.
Anchored(n) == n < 0 \/ ~ Scanned(n) \/ Canonical(n)

Probe ==
  /\ poll.pc = "probe"
  /\ poll.probe < Len(chain)                       \* get_block raises otherwise
  /\ poll' = IF Anchored(poll.probe)
             THEN [pc |-> "hashes", head |-> poll.head, from |-> poll.probe + 1, read |-> <<>>]
             ELSE [poll EXCEPT !.probe = @ - 1]
  /\ UNCHANGED <<chainVars, memoryVars, disk, failures, restarts, undercut>>

\* The hash of one more block of the suffix.
ReadHash ==
  LET n == poll.from + Len(poll.read)
  IN
  /\ poll.pc = "hashes"
  /\ n <= poll.head
  /\ n < Len(chain)                                \* get_block raises otherwise
  /\ poll' = [poll EXCEPT !.read = Append(@, chain[n + 1].fork)]
  /\ UNCHANGED <<chainVars, memoryVars, disk, failures, restarts, undercut>>

EventsBelow(log, n) ==
  LET kept[i \in 0 .. Len(log)] ==
        IF i = 0 THEN <<>>
        ELSE IF log[i].block < n THEN Append(kept[i - 1], log[i]) ELSE kept[i - 1]
  IN kept[Len(log)]

\* The events of the suffix are dropped before the logs are asked for.
DropSuffix ==
  /\ poll.pc = "hashes"
  /\ poll.from + Len(poll.read) > poll.head
  /\ events' = EventsBelow(events, poll.from)
  /\ poll' = [pc |-> "logs", head |-> poll.head, from |-> poll.from, read |-> poll.read,
              asked |-> 0, logs |-> {}]
  /\ UNCHANGED <<chainVars, next, hashes, membership, disk, failures, restarts, undercut>>

\* get_logs from from_block to head, which does not fail for blocks there are not.
LogsNamed(name) ==
  {l \in Logs(chain) : l.block \in poll.from .. poll.head /\ <<l.event.role, l.event.joined>> = name}

GetLogs ==
  /\ poll.pc = "logs"
  /\ poll.asked < Len(EventNames)
  /\ poll' = [poll EXCEPT !.asked = @ + 1, !.logs = @ \cup LogsNamed(EventNames[poll.asked + 1])]
  /\ UNCHANGED <<chainVars, memoryVars, disk, failures, restarts, undercut>>

\* The sort by block and index is stable: two logs of one place, which two branches
\* of the chain may have, stay in the order in which they were asked for.
AskedBefore(a, b) ==
  \E i, j \in DOMAIN EventNames :
    /\ i < j
    /\ EventNames[i] = <<a.role, a.joined>> /\ EventNames[j] = <<b.role, b.joined>>
Before(a, b) ==
  \/ Precedes(a, b)
  \/ a.block = b.block /\ a.index = b.index /\ AskedBefore(a.event, b.event)

ByBlock(logs) ==
  [i \in 1 .. Cardinality(logs) |->
     CHOOSE l \in logs : Cardinality({k \in logs : Before(k, l)}) = i - 1]

\* replace_membership: the last event about a member tells.
Joined(log, role, m) ==
  \E i \in DOMAIN log :
    /\ Concerns(log[i].event, role, m) /\ log[i].event.joined
    /\ \A j \in DOMAIN log : Concerns(log[j].event, role, m) => j <= i
MembersOf(log) == [role \in Roles |-> {m \in Members : Joined(log, role, m)}]

Cursor(n, log, known) == [next |-> n, events |-> log, hashes |-> known]

\* The rebuilt membership, then the cursor file, whose replacement may fail.
ApplyLogs ==
  LET log == events \o ByBlock(poll.logs)
      known == [n \in {k \in DOMAIN hashes : k < poll.from} \cup (poll.from .. poll.head) |->
                  IF n < poll.from THEN hashes[n] ELSE poll.read[n - poll.from + 1]]
  IN
  /\ poll.pc = "logs"
  /\ poll.asked = Len(EventNames)
  /\ events' = log
  /\ membership' = MembersOf(log)
  /\ hashes' = known
  /\ next' = poll.head + 1
  /\ poll' = Idle
  /\ \/ disk' = Cursor(poll.head + 1, log, known) /\ UNCHANGED failures
     \/ failures < MaxFailures /\ failures' = failures + 1 /\ UNCHANGED disk
  /\ UNCHANGED <<chainVars, restarts, undercut>>

\* A call to the node raises: the loop tries again after its interval.
PollFails ==
  /\ poll # Idle
  /\ \/ failures < MaxFailures /\ failures' = failures + 1
     \/ /\ \/ poll.pc = "probe" /\ poll.probe >= Len(chain)
           \/ poll.pc = "hashes" /\ poll.from + Len(poll.read) \in Len(chain) .. poll.head
        /\ UNCHANGED failures
  /\ poll' = Idle
  /\ UNCHANGED <<chainVars, memoryVars, disk, restarts, undercut>>

\* ChainPoller.__init__ with what load_state finds.
PollerRestart ==
  /\ restarts < MaxRestarts                                    \* bound
  /\ restarts' = restarts + 1
  /\ next' = disk.next /\ events' = disk.events /\ hashes' = disk.hashes
  /\ membership' = MembersOf(disk.events)
  /\ poll' = Idle
  /\ UNCHANGED <<chainVars, disk, failures, undercut>>

PollStep == StartPoll \/ Probe \/ ReadHash \/ DropSuffix \/ GetLogs \/ ApplyLogs \/ PollFails

NoCursor == Cursor(0, <<>>, [n \in {} |-> 0])

IndexInit ==
  /\ chain = << [fork |-> 0, events |-> <<>>] >>
  /\ reorgs = 0
  /\ next = 0 /\ events = <<>> /\ hashes = NoCursor.hashes
  /\ membership = MembersOf(<<>>)
  /\ disk = NoCursor
  /\ poll = Idle
  /\ failures = 0 /\ restarts = 0 /\ undercut = FALSE

IndexNext ==
  \/ \E new \in Contents : Mine(new)
  \/ \E k \in 1 .. Height : Reorg(k)
  \/ PollStep
  \/ PollerRestart

\* The loop calls poll_once again and again, and every call returns or raises;
\* blocks keep coming.
IndexFairness ==
  /\ WF_indexVars(PollStep)
  /\ WF_indexVars(\E new \in Contents : Mine(new))

IndexSpec == IndexInit /\ [][IndexNext]_indexVars /\ IndexFairness

-----------------------------------------------------------------------------
\* Between polls, when the newest block that was scanned is on the chain, the
\* members are those of the chain up to that block: nothing orphaned is left and
\* nothing is missed, after reorganisations, failed polls and restarts, unless the
\* chain once changed below the blocks a running poll had settled on.
IndexIsCanonical ==
  (poll = Idle /\ next > 0 /\ Canonical(next - 1) /\ ~ undercut)
    => membership = MembersOn(SubSeq(chain, 1, next))

\* Once the chain has settled, the index follows it up to the confirmed head,
\* whatever polls and writes failed before and wherever a restart came.
IndexCatchesUp ==
  <>[](undercut \/ (/\ next = Height - Confirmations + 1
                    /\ membership = MembersOn(SubSeq(chain, 1, next))))
=============================================================================
