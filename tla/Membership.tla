----------------------------- MODULE Membership -----------------------------
(***************************************************************************)
(* One ringpop process: its member list (lib/membership/index.js) and      *)
(* everything the listeners of lib/on_membership_event.js keep in step     *)
(* with it - the state transition timers                                   *)
(* (lib/gossip/state_transitions.js), the hash ring's set of servers and   *)
(* the changes recorded for dissemination.                                 *)
(*                                                                         *)
(* JavaScript runs one callback at a time, so each action is one entry     *)
(* point of the code together with every listener it runs synchronously:   *)
(* a change of the list emits 'updated' before control returns.            *)
(*                                                                         *)
(* The rest of the system is the environment: it hands over batches of     *)
(* changes (pings, ping responses, joins, full syncs), reports failed      *)
(* probes, and issues the admin commands.                                  *)
(***************************************************************************)
EXTENDS StateTransitions, FiniteSets

CONSTANTS
  Local,        \* this process's address, ringpop.whoami()
  Others,       \* the addresses of the other processes
  MaxClock,     \* bound: the last reading of Date.now()
  MaxBatch      \* bound: changes in one batch

ASSUME LocalAssumption == Local \notin Others
ASSUME BoundsAssumption == MaxClock \in Nat \ {0} /\ MaxBatch \in Nat

Nodes == Others \union {Local}
Incarnation == 1..MaxClock
Change == [status : Status, inc : Incarnation]
Entry == Entries(Incarnation)

\* A batch of changes: its addresses are distinct, because every sender
\* builds it from a map or a list keyed by address.
Batches(D) == [D -> Change]

Timer == Timers(Incarnation)

VARIABLES
  clock,      \* Date.now() of this host
  ready,      \* ringpop.isReady
  members,    \* membersByAddress; members[Local] is localMember
  stashed,    \* stashedUpdates, merged as set() merges them
  enabled,    \* stateTransitions.enabled
  timers,     \* stateTransitions.timers
  ring,       \* the servers of the hash ring
  changes     \* dissemination.changes, without their piggyback counts

vars == <<clock, ready, members, stashed, enabled, timers, ring, changes>>

Init ==
  /\ clock = 1
  /\ ready = FALSE
  /\ members = [m \in Nodes |-> Absent]
  /\ stashed = [m \in Nodes |-> Absent]
  /\ enabled = TRUE
  /\ timers = [m \in Nodes |-> NoTimer]
  /\ ring = {}
  /\ changes = [m \in Nodes |-> Absent]

-----------------------------------------------------------------------------
(***************************************************************************)
(* The listeners.                                                          *)
(***************************************************************************)

\* stateTransitions.handleUpdate for every update of a batch.
TimersAfter(updates, base) ==
  [m \in Nodes |-> IF m \in DOMAIN updates
                   THEN handleUpdate(enabled /\ m # Local, base[m], updates[m])
                   ELSE base[m]]

\* Mutant: the listener of the ring has no case for tombstones.
RingAfterNoTombstones(updates) ==
  (ring \union {m \in DOMAIN updates : isStatusPingable(updates[m].status)})
    \ {m \in DOMAIN updates : updates[m].status \in {"faulty", "leave"}}

\* ring.addRemoveServers: the additions of a batch, then its removals.
RingAfter(updates) ==
  (ring \union {m \in DOMAIN updates : isStatusPingable(updates[m].status)})
    \ {m \in DOMAIN updates : ~isStatusPingable(updates[m].status)}

\* Mutant: a change still being piggybacked is not replaced.
ChangesAfterKeepsFirst(updates) ==
  [m \in Nodes |-> IF m \in DOMAIN updates /\ ~Known(changes[m])
                   THEN updates[m] ELSE changes[m]]

\* dissemination.recordChange for every update of the batch.
ChangesAfter(updates) ==
  [m \in Nodes |-> IF m \in DOMAIN updates THEN updates[m] ELSE changes[m]]

\* The listeners of 'updated', in the order register() attaches them. The
\* records of the state transitions are base when the event is emitted.
onUpdated(updates, base) ==
  /\ timers' = TimersAfter(updates, base)
  /\ changes' = ChangesAfter(updates)
  /\ ring' = RingAfter(updates)

-----------------------------------------------------------------------------
(***************************************************************************)
(* The member list.                                                        *)
(***************************************************************************)

\* _reincarnate: the local member, its status kept, at the current time.
reincarnated == [status |-> members[Local].status, inc |-> clock]

Accepted(batch) ==
  {m \in DOMAIN batch : shouldProcessGossip(members[m], batch[m])}

\* What update() applies: an accepted change, except that a change about
\* the local member is refuted by reincarnating it.
UpdatesOf(batch) ==
  [m \in Accepted(batch) |-> IF m = Local THEN reincarnated ELSE batch[m]]

MembersAfter(updates) ==
  [m \in Nodes |-> IF m \in DOMAIN updates THEN updates[m] ELSE members[m]]

\* mergeMembershipChangesets on top of what is stashed: of two changes of one
\* address the one with the newer incarnation, the first of two equal ones,
\* and never the local member.
MergedWith(batch) ==
  [m \in Nodes |-> IF /\ m \in DOMAIN batch \ {Local}
                      /\ ~Known(stashed[m]) \/ stashed[m].inc < batch[m].inc
                   THEN batch[m]
                   ELSE stashed[m]]

\* update(). Before the node is ready the batch is stashed, and merged here
\* already: set() merges the batches in the order they came. Once it is
\* ready the updates are applied and the listeners run.
stash(batch, base) ==
  /\ stashed' = MergedWith(batch)
  /\ timers' = base
  /\ UNCHANGED <<members, ring, changes>>

apply(updates, base) ==
  /\ members' = MembersAfter(updates)
  /\ onUpdated(updates, base)
  /\ UNCHANGED stashed

update(batch, base) ==
  \/ ~ready /\ stash(batch, base)
  \/ ready /\ apply(UpdatesOf(batch), base)

\* makeChange: one change made by this node itself.
makeChange(m, inc, status, base) ==
  update([a \in {m} |-> [status |-> status, inc |-> inc]], base)

-----------------------------------------------------------------------------
(***************************************************************************)
(* Entry points.                                                           *)
(***************************************************************************)

\* The time of this host moves on.
Tick ==
  /\ clock < MaxClock
  /\ clock' = clock + 1
  /\ UNCHANGED <<ready, members, stashed, enabled, timers, ring, changes>>

\* setLocalStatus: create the local member or change its status, reincarnate
\* it and emit 'updated'. Leaving first emits LocalMemberLeaveEvent, whose
\* listener disables the state transitions and clears their timers.
setLocalStatus(status) ==
  LET own == [a \in {Local} |-> [status |-> status, inc |-> clock]] IN
    /\ members' = MembersAfter(own)
    /\ onUpdated(own, IF status = "leave" /\ Known(members[Local])
                      THEN [m \in Nodes |-> NoTimer] ELSE timers)

\* bootstrap() up to the join: the local member is alive. A second call that
\* was made before the node was ready may get there when it is.
Bootstrap ==
  /\ setLocalStatus("alive")
  /\ UNCHANGED <<clock, ready, stashed, enabled>>

\* The answers of a join, merged into one batch, reach update(). The reverse
\* full sync and the probes only run once the node is ready.
JoinAnswered ==
  /\ ~ready /\ Known(members[Local])
  /\ \E D \in SUBSET Nodes :
       /\ D # {} /\ Cardinality(D) <= MaxBatch
       /\ \E batch \in Batches(D) : update(batch, timers)
  /\ UNCHANGED <<clock, ready, enabled>>

\* onJoin of bootstrap(): set() enters the stashed changes as they are, past
\* the update rules, but creates no tombstones; the listener of 'set' handles
\* all of them, records none for dissemination, and puts the pingable ones on
\* the ring. Then the node is ready.
SetAndReady ==
  LET updates == [m \in {n \in Nodes : Known(stashed[n])} |-> stashed[m]] IN
    /\ ~ready /\ Known(members[Local])
    /\ members' = [m \in Nodes |->
         IF m \in DOMAIN updates /\ updates[m].status # "tombstone"
         THEN updates[m] ELSE members[m]]
    /\ timers' = TimersAfter(updates, timers)
    /\ ring' = ring \union
         {m \in DOMAIN updates : isStatusPingable(updates[m].status)}
    /\ stashed' = [m \in Nodes |-> Absent]
    /\ ready' = TRUE
    /\ UNCHANGED <<clock, enabled, changes>>

\* A ping, a ping response, a ping-req or its response, a full sync or a
\* healer's merge brings a batch of changes. What it says of this node comes
\* from an incarnation this host once chose, so it is no later than the clock.
Gossip ==
  /\ ready
  /\ \E D \in SUBSET Nodes :
       /\ D # {} /\ Cardinality(D) <= MaxBatch
       /\ \E batch \in Batches(D) :
            /\ Local \in D => batch[Local].inc <= clock
            /\ update(batch, timers)
  /\ UNCHANGED <<clock, ready, enabled>>

\* A probe failed: makeSuspect with the incarnation read from the member
\* object the probe holds on to, which may be one that was evicted since.
ProbeFailed(m) ==
  /\ ready
  /\ \E inc \in Incarnation : makeChange(m, inc, "suspect", timers)
  /\ UNCHANGED <<clock, ready, enabled>>

\* The timeout of m runs. It acts with the incarnation of the update that
\* scheduled it; evict() looks at no incarnation. The record stays, unless
\* the change it makes is applied and so handled by stateTransitions again.
fire(m) == [timers EXCEPT ![m] = Fired(@)]

SuspectTimeout(m) ==
  /\ timers[m].live /\ timers[m].state = "suspect"
  /\ makeChange(m, timers[m].inc, NextStatus.suspect, fire(m))
  /\ UNCHANGED <<clock, ready, enabled>>

\* Mutant: the transition of a faulty member calls makeFaulty.
FaultyTimeoutAgain(m) ==
  /\ timers[m].live /\ timers[m].state = "faulty"
  /\ makeChange(m, timers[m].inc, "faulty", fire(m))
  /\ UNCHANGED <<clock, ready, enabled>>

FaultyTimeout(m) ==
  /\ timers[m].live /\ timers[m].state = "faulty"
  /\ makeChange(m, timers[m].inc, NextStatus.faulty, fire(m))
  /\ UNCHANGED <<clock, ready, enabled>>

\* evict() refuses the local member, and recomputes the checksum without
\* emitting 'updated'.
TombstoneTimeout(m) ==
  /\ timers[m].live /\ timers[m].state = "tombstone"
  /\ members' = IF m = Local THEN members ELSE [members EXCEPT ![m] = Absent]
  /\ timers' = fire(m)
  /\ UNCHANGED <<clock, ready, stashed, enabled, ring, changes>>

\* The admin commands. /admin/member/leave is refused to a node that has
\* already left; /admin/member/join on a node that left brings it back.
Leave ==
  /\ Known(members[Local]) /\ members[Local].status # "leave"
  /\ setLocalStatus("leave")
  /\ enabled' = FALSE
  /\ UNCHANGED <<clock, ready, stashed>>

Rejoin ==
  /\ Known(members[Local]) /\ members[Local].status = "leave"
  /\ setLocalStatus("alive")
  /\ enabled' = TRUE
  /\ UNCHANGED <<clock, ready, stashed>>

\* /admin/member/reap: every faulty member, at its present incarnation,
\* becomes a tombstone. The calls are independent of each other, so they are
\* one batch.
Reap ==
  LET faulty == {m \in Nodes : members[m].status = "faulty"} IN
    /\ ready
    /\ update([m \in faulty |-> [status |-> "tombstone", inc |-> members[m].inc]],
              timers)
    /\ UNCHANGED <<clock, ready, enabled>>

\* The self eviction announces this node as faulty, also before it is ready.
SelfEvict ==
  /\ members[Local].status # "faulty"
  /\ setLocalStatus("faulty")
  /\ UNCHANGED <<clock, ready, stashed, enabled>>

\* Dissemination drops a change it has piggybacked often enough.
Exhaust(m) ==
  /\ Known(changes[m])
  /\ changes' = [changes EXCEPT ![m] = Absent]
  /\ UNCHANGED <<clock, ready, members, stashed, enabled, timers, ring>>

Timeout(m) == SuspectTimeout(m) \/ FaultyTimeout(m) \/ TombstoneTimeout(m)

Next ==
  \/ Tick
  \/ Bootstrap \/ JoinAnswered \/ SetAndReady
  \/ Gossip
  \/ \E m \in Others : ProbeFailed(m)
  \/ \E m \in Nodes : Timeout(m) \/ Exhaust(m)
  \/ Leave \/ Rejoin \/ Reap \/ SelfEvict

Spec == Init /\ [][Next]_vars

\* setTimeout calls back: a live timeout eventually runs.
FairSpec == Spec /\ \A m \in Nodes : WF_vars(Timeout(m))

-----------------------------------------------------------------------------
(***************************************************************************)
(* Properties.                                                             *)
(***************************************************************************)

TypeOK ==
  /\ clock \in Incarnation
  /\ ready \in BOOLEAN
  /\ members \in [Nodes -> Entry]
  /\ stashed \in [Nodes -> Entry]
  /\ enabled \in BOOLEAN
  /\ timers \in [Nodes -> Timer]
  /\ ring \in SUBSET Nodes
  /\ changes \in [Nodes -> Entry]

\* The ring, updated from batches of updates by listeners, and never by an
\* eviction, holds exactly the members the list calls alive or suspect.
RingIsPingable ==
  ring = {m \in Nodes : isStatusPingable(members[m].status)}

\* A transition that is scheduled is the one the member's status calls for;
\* only a tombstone's may outlive the member (a stashed tombstone was never
\* created, an evicted one leaves its record). So evict(), which looks at
\* neither status nor incarnation, only ever removes tombstones.
TimerMatchesStatus ==
  \A m \in Nodes : timers[m].state # "none" =>
    \/ timers[m].state = members[m].status
    \/ timers[m].state = "tombstone" /\ ~Known(members[m])

\* A timeout was scheduled for the incarnation the node still remembers, or
\* for an older one, never for one it has not heard of.
TimerNotAhead ==
  \A m \in Nodes : timers[m].state # "none" /\ Known(members[m]) =>
    timers[m].inc <= members[m].inc

\* Both: no timeout acts on a status or an incarnation the node has not got,
\* whatever mix of gossip, timeouts, evictions and leaves preceded it.
TimersFollowMembers == TimerMatchesStatus /\ TimerNotAhead

\* What the node still disseminates about a member is what it believes of
\* it, although changes and member list are updated, forgotten and evicted
\* at different times.
DisseminatesBeliefs ==
  \A m \in Nodes : Known(changes[m]) /\ Known(members[m]) =>
    changes[m] = members[m]

\* A member whose transition was scheduled for its present incarnation does
\* not keep that status: the timeout has its effect unless news or a leave
\* of this node comes first.
ScheduledMovesOn ==
  \A m \in Others, s \in {"suspect", "faulty", "tombstone"}, i \in Incarnation :
    (/\ members[m] = [status |-> s, inc |-> i]
     /\ timers[m] = [state |-> s, inc |-> i, live |-> TRUE])
      ~> (members[m] # [status |-> s, inc |-> i] \/ ~enabled)

View == INSTANCE MemberView WITH Inc <- Incarnation

\* Member list and ring behave as MemberView promises: entries only move
\* forward, only tombstones are forgotten, and the ring never lags.
ImplementsView == View!Spec
=============================================================================
