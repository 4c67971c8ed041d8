------------------------------- MODULE Gossip -------------------------------
(***************************************************************************)
(* The protocol period of one process (lib/gossip/index.js) and the probe  *)
(* it makes in each: a ping, and if that fails ping-reqs through helpers   *)
(* (lib/gossip/ping-req-sender.js). Started and stopped by the admin       *)
(* commands, by leaving and rejoining, by bootstrap and by destroy(). Whom *)
(* it probes is up to MemberIterator, while the member list changes.       *)
(*                                                                         *)
(* A loop is a chain of protocol periods: a timer, its tick, and the timer *)
(* that the tick's callback sets. The code means to have one; it holds the *)
(* last timer it set in protocolPeriodTimer.                               *)
(*                                                                         *)
(* The specification bears the name of its module for the sake of          *)
(* FailureDetectionProofs, which extends Swim as well.                     *)
(***************************************************************************)
EXTENDS MemberIterator

CONSTANTS
  Local,        \* this process, one of Members
  pingReqSize,  \* how many members are asked for a ping-req
  MaxStarts,    \* bound: how often gossip is started
  MaxChurn      \* bound: changes of the member list

ASSUME GossipAssumption ==
  /\ Local \in Members
  /\ pingReqSize \in Nat /\ MaxStarts \in Nat /\ MaxChurn \in Nat

Others == Members \ {Local}

VARIABLES
  ready,        \* ringpop.isReady
  isStopped,
  isPinging,
  loop,         \* protocolPeriodTimer, and the set timers it no longer holds
  probes,       \* probes in flight
  verdict,      \* what the last probe made of its target, until the next
  it,           \* the member list and the iterator's place in it
  pingable,     \* the members that are alive or suspect, not the local one
  starts,
  churn

gossipVars == <<ready, isStopped, isPinging, loop, probes, verdict, it, pingable, starts, churn>>
list == <<it, pingable, churn>>

\* handle is protocolPeriodTimer: null, a timer that is set, or one that ran.
\* others counts the timers that are set but were overwritten there.
Loops == [handle : {"null", "set", "ran"}, others : 0..MaxStarts]

\* A probe is made for a loop or for /admin/gossip/tick. waiting are the
\* helpers yet to answer; refused says that one of them could not reach the
\* target either.
Probes ==
  [for : {"loop", "admin"}, target : Others, stage : {"ping", "ping-req"},
   waiting : SUBSET Others, refused : BOOLEAN]

GossipInit ==
  /\ ready = FALSE
  /\ isStopped = TRUE
  /\ isPinging = FALSE
  /\ loop = [handle |-> "null", others |-> 0]
  /\ probes = <<>>
  /\ verdict = "none"
  /\ it = [members |-> <<Local>>, index |-> 0]
  /\ pingable = {}
  /\ starts = 0
  /\ churn = 0

-----------------------------------------------------------------------------
(***************************************************************************)
(* The loop.                                                               *)
(***************************************************************************)

\* run(): set a timer and hold on to it, whatever was held before.
Run(l) ==
  [handle |-> "set", others |-> IF l.handle = "set" THEN l.others + 1 ELSE l.others]

\* Mutant: the callback does not look whether gossip was stopped.
CallbackRunsAlways(for, l) == IF for = "loop" THEN Run(l) ELSE l

\* The callback of a tick: onMemberPinged runs the loop on unless gossip was
\* stopped; the admin command's only responds.
Callback(for, l) == IF for = "loop" /\ ~isStopped THEN Run(l) ELSE l

\* start() shuffles the member list, under the index of the iterator.
Start ==
  /\ isStopped /\ starts < MaxStarts
  /\ \E shuffled \in Shuffles(it) : it' = [it EXCEPT !.members = shuffled]
  /\ loop' = Run(loop)
  /\ isStopped' = FALSE
  /\ starts' = starts + 1
  /\ UNCHANGED <<ready, isPinging, probes, verdict, pingable, churn>>

\* stop() clears the timer it holds.
Stop ==
  /\ ~isStopped
  /\ loop' = [loop EXCEPT !.handle = "null"]
  /\ isStopped' = TRUE
  /\ UNCHANGED <<ready, isPinging, probes, verdict, starts, list>>

\* bootstrap() is done: the members that were stashed stand behind the local
\* one. Gossip starts then if autoGossip is set, or by Start.
Ready ==
  /\ ~ready
  /\ ready' = TRUE
  /\ \E others \in SetToAllKPermutations(Others) :
       /\ it' = [it EXCEPT !.members = @ \o others]
       /\ pingable' \in SUBSET ToSet(others)
  /\ UNCHANGED <<isStopped, isPinging, loop, probes, verdict, starts, churn>>

\* Mutant: a tick does not look whether a ping is in flight.
MayPingAnyway == ready

MayPing == ready /\ ~isPinging

Target(iterator) == iterator.members[iterator.index]

\* Mutant: a tick without a probe does not call back.
TickInVainSilently(for, l) ==
  /\ loop' = l
  /\ UNCHANGED <<ready, isStopped, isPinging, probes, verdict, pingable, starts, churn>>
  /\ IF MayPing
     THEN it' \in {moved \in next(it, pingable) : Target(moved) \notin pingable}
     ELSE it' = it

\* tick() calls back at once: a probe is in flight, the ring is not ready, or
\* the iterator finds no pingable member.
TickInVain(for, l) ==
  /\ loop' = Callback(for, l)
  /\ UNCHANGED <<ready, isStopped, isPinging, probes, verdict, pingable, starts, churn>>
  /\ IF MayPing
     THEN it' \in {moved \in next(it, pingable) : Target(moved) \notin pingable}
     ELSE it' = it

TickPings(for, l) ==
  /\ MayPing
  /\ isPinging' = TRUE
  /\ verdict' = "none"
  /\ loop' = l
  /\ UNCHANGED <<ready, isStopped, pingable, starts, churn>>
  /\ it' \in {moved \in next(it, pingable) : Target(moved) \in pingable}
  /\ probes' = Append(probes,
       [for |-> for, target |-> Target(it'), stage |-> "ping", waiting |-> {}, refused |-> FALSE])

\* The timers that are set, each with what remains when it runs.
Due(l) ==
  \/ loop.handle = "set" /\ l = [loop EXCEPT !.handle = "ran"]
  \/ loop.others > 0 /\ l = [loop EXCEPT !.others = @ - 1]

Remains == {[loop EXCEPT !.handle = "ran"], [loop EXCEPT !.others = @ - 1]}

PeriodPings == \E l \in Remains : Due(l) /\ TickPings("loop", l)
PeriodInVain == \E l \in Remains : Due(l) /\ TickInVain("loop", l)

AdminTick == TickPings("admin", loop) \/ TickInVain("admin", loop)

-----------------------------------------------------------------------------
(***************************************************************************)
(* The probe.                                                              *)
(***************************************************************************)

\* The probe calls back. A suspect verdict is makeSuspect on the member list.
End(i, outcome) ==
  /\ verdict' = outcome
  /\ isPinging' = FALSE
  /\ loop' = Callback(probes[i].for, loop)
  /\ probes' = RemoveAt(probes, i)
  /\ UNCHANGED <<ready, isStopped, starts, list>>

PingAnswered(i) == probes[i].stage = "ping" /\ End(i, "reached")

\* Whom getRandomPingableMembers() may pick for the ping-reqs.
Helpers(target) ==
  LET others == pingable \ {target}
  IN kSubset(Min({pingReqSize, Cardinality(others)}), others)

\* The ping fails. Some of the pingable members are asked; with nobody to
\* ask the target is suspect at once.
PingFailed(i) ==
  /\ probes[i].stage = "ping"
  /\ \E asked \in Helpers(probes[i].target) :
       IF asked = {} THEN End(i, "suspect")
       ELSE /\ probes' = [probes EXCEPT ![i].stage = "ping-req", ![i].waiting = asked]
            /\ UNCHANGED <<ready, isStopped, isPinging, loop, verdict, starts, list>>

\* A helper reached the target. The answers of the others are ignored then.
HelperReached(i) ==
  /\ probes[i].waiting # {}
  /\ End(i, "reached")

\* A helper did not: it said so, or its answer is an error. The last answer
\* decides: somebody must have been told that the target does not answer.
HelperFailed(i, h, refused) ==
  /\ h \in probes[i].waiting
  /\ IF probes[i].waiting = {h}
     THEN End(i, IF probes[i].refused \/ refused THEN "suspect" ELSE "inconclusive")
     ELSE /\ probes' = [probes EXCEPT ![i].waiting = @ \ {h}, ![i].refused = @ \/ refused]
          /\ UNCHANGED <<ready, isStopped, isPinging, loop, verdict, starts, list>>

ProbeStep(i) ==
  \/ PingAnswered(i) \/ PingFailed(i) \/ HelperReached(i)
  \/ \E h \in Others, refused \in BOOLEAN : HelperFailed(i, h, refused)

-----------------------------------------------------------------------------
(***************************************************************************)
(* The member list, which Membership has in full.                          *)
(***************************************************************************)

ListChanges ==
  /\ ready /\ churn < MaxChurn
  /\ churn' = churn + 1
  /\ UNCHANGED <<ready, isStopped, isPinging, loop, probes, verdict, starts>>

\* A member is heard of for the first time.
Enter(m) ==
  /\ ListChanges
  /\ m \notin ToSet(it.members)
  /\ \E position \in 1..Len(it.members) : it' = Joined(it, m, position)
  /\ pingable' \in {pingable, pingable \union {m}}

\* A member becomes pingable or ceases to be.
ChangeStatus(m) ==
  /\ ListChanges
  /\ m \in ToSet(it.members)
  /\ pingable' = SymDiff(pingable, {m})
  /\ it' = it

\* A tombstone is evicted.
Evict(m) ==
  /\ ListChanges
  /\ m \in ToSet(it.members) \ pingable
  /\ it' = Evicted(it, m)
  /\ pingable' = pingable

GossipNext ==
  \/ Start \/ Stop \/ Ready
  \/ PeriodPings \/ PeriodInVain \/ AdminTick
  \/ \E i \in DOMAIN probes : ProbeStep(i)
  \/ \E m \in Others : Enter(m) \/ ChangeStatus(m) \/ Evict(m)

GossipSpec == GossipInit /\ [][GossipNext]_gossipVars

\* Timers run, and pings and ping-reqs are answered or time out.
GossipFairness ==
  /\ WF_gossipVars(PeriodPings \/ PeriodInVain)
  /\ WF_gossipVars(\E i \in DOMAIN probes : ProbeStep(i))

GossipFairSpec == GossipSpec /\ GossipFairness

-----------------------------------------------------------------------------
(***************************************************************************)
(* Properties.                                                             *)
(***************************************************************************)

GossipTypeOK ==
  /\ ready \in BOOLEAN /\ isStopped \in BOOLEAN /\ isPinging \in BOOLEAN
  /\ loop \in Loops
  /\ probes \in Seq(Probes)
  /\ verdict \in {"none", "reached", "suspect", "inconclusive"}
  /\ IsIterator(it)
  /\ pingable \subseteq ToSet(it.members) \ {Local}
  /\ starts \in 0..MaxStarts /\ churn \in 0..MaxChurn

\* A loop exists: a timer that is set, or a tick whose probe is in flight.
Runs ==
  \/ loop.handle = "set" \/ loop.others > 0
  \/ \E i \in DOMAIN probes : probes[i].for = "loop"

\* However many loops and admin ticks there are, one probe is in flight at a
\* time, and isPinging says whether there is.
OneProbe == Len(probes) <= 1 /\ (isPinging <=> probes # <<>>)

\* While gossip is started, a loop exists: no stop, start or tick in flight
\* at the wrong moment ends the last one.
LoopAlive == ~isStopped => Runs

\* A node that stays started probes every member that stays pingable again
\* and again, whatever becomes of its probes and of the others in the list.
EveryMemberProbed ==
  \A m \in Others :
    <>[](ready /\ ~isStopped /\ m \in pingable)
      => []<>(\E i \in DOMAIN probes : probes[i].target = m)

\* A node that stays stopped falls silent.
FallsSilent == <>[]isStopped => <>[]~Runs
=============================================================================
