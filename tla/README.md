# Verification of ringpop

TLA+ models of ringpop (the Node.js library that keeps a SWIM membership and a
consistent hash ring among the processes of an application, and forwards
requests along it), the TLC configurations that check them, and proofs of most of the
safety properties for every number of members, nodes or hosts.

Paths are relative to the repository. A JavaScript process runs one callback to
its end before the next, so an action of a model is an entry point of the code
(a handler, a timer, the callback of a request) with every listener it runs
synchronously. What interleaves is callbacks of one process, and processes.

## The system

| part | state it keeps | operations | talks to |
|---|---|---|---|
| member list `lib/membership/` | `members`, `membersByAddress`, `localMember`, `stashedUpdates`, `checksum` | `update`, `set`, `setLocalStatus`, `makeSuspect/Faulty/Tombstone`, `evict`, damp score decay | emits `updated`, `set`, `localMember*` to its listeners |
| listeners `lib/on_membership_event.js` | none | after `updated`: state transitions, dissemination, ring, statistics | all of the below |
| state transitions `lib/gossip/state_transitions.js` | `timers[address]`, `enabled` | `handleUpdate`, `schedule`, `cancel`, `enable`, `disable` | their timeouts call `makeFaulty`, `makeTombstone`, `evict` |
| dissemination `lib/gossip/dissemination.js` | `changes[address]` with piggyback counts, `reverseFullSyncJobs` | `issueAsSender`, `issueAsReceiver`, `recordChange`, reverse full sync | pings and their answers carry what it issues |
| protocol period `lib/gossip/index.js` | `isStopped`, `isPinging`, `protocolPeriodTimer` | `start`, `stop`, `tick` | iterator, ping, ping-req |
| member iterator `lib/membership/iterator.js` | `currentIndex`, `currentRound` | `next` | reads the member list and shuffles it |
| probe `lib/gossip/ping-sender.js`, `ping-req-sender.js` | closures: answers so far | ping, then ping-reqs through helpers, then a verdict | `makeSuspect` |
| join `lib/gossip/joiner.js` | rounds of nodes to ask, `joinResponses`, delays | `join`, `joinGroup`, `selectGroup` | `membership.update`, `bootstrap()` waits for it |
| self eviction `lib/self-evict.js` | `phases`, `hooks`, `callback` | `registerHooks`, `initiate`, four phases | `setLocalStatus`, pings |
| damping `lib/gossip/damper.js` | `flappers`, `dampedMembers`, timers | subprotocol of damp-reqs, expiration | damp scores of members |
| partition healing `lib/partition_healing/` | timer, back-off on failures | `heal`, `attemptHeal` | joins a host of the other partition, sends it changes |
| request proxy `lib/request-proxy/` | `numInflightRequests`, `sends`, per send retries and destinations | `proxyReq`, `handleRequest`, retry, reroute | ring lookups, TChannel |
| protocol client `client.js` | `requestsById`, `wedgedTimer` | `_request`, scan for wedged requests | TChannel; every protocol message goes through it |
| hash ring `lib/ring/` | red-black tree of replica points, `servers`, `checksum` | add, remove, `lookup`, `lookupN` | request proxy, application |
| facade `index.js`, `server/admin/` | `isReady`, `destroyed`, ... | `bootstrap`, `destroy`, lookups, admin commands | everything |
| the rest | tracing, statistics, logging, configuration, discovery, middleware | | observe, or read input |

What makes it hard, and where each part can go wrong:

* *Member list.* Updates come in batches, from anybody, in any order, before the
  node is ready too (they are stashed). Changes about oneself are refuted with
  the clock as incarnation. The list, the ring, the timers and the changes to
  disseminate are kept by different listeners and must stay in step.
* *State transitions.* A timeout acts on what was believed when it was set.
* *The cluster.* Processes crash, restart with no memory, leave, rejoin, evict
  themselves; messages are lost, or arrive late; false alarms are refuted. All
  must in the end believe the same, and the dead be forgotten.
* *Dissemination.* Changes are sent a limited number of times, and counted by a
  receiver without knowing that its answer arrives; full syncs must repair it.
* *Protocol period.* One loop of timers and callbacks that start, stop and admin
  ticks may hit at any moment.
* *Join, self eviction, proxy, client.* Callbacks that come late, twice or never;
  counters and limits; destruction in the middle.
* *Member iterator.* An index into a list that evictions shorten and newcomers and
  shuffles reorder.
* *Ring.* Balanced top-down insertion and removal, with points that collide; all
  processes must answer alike whatever the order was in which servers came.
* *Damping.* Chains of timers and subprotocols that overlap, and a limit looked at
  for each member.
* *Healing.* Decisions on the list that the other side had when it was asked.

`PROJECT.json` lists the hazards one by one, at their lines, with the properties
that watch them.

## Modules

| module | models | kind |
|---|---|---|
| `Member` | `lib/membership/member.js`: status precedence and the rule by which gossip replaces an entry | operators |
| `StateTransitions` | the record of one address in `state_transitions.js` | operators |
| `Membership` | one process: member list, stash, listeners, transitions, ring, changes, admin commands | state machine |
| `MemberView` | what a member list promises | abstract state machine |
| `Swim` | what all processes believe of one of them | state machine |
| `Dissemination` | piggybacking, full sync, reverse full sync between nodes | state machine |
| `Gossip` | the protocol period and the probe of one process | state machine |
| `RequestProxy` | forwarded requests between nodes, with retries and back-pressure | state machine |
| `Joiner` | the joins of one process, through the client that limits and cancels requests | operators and steps |
| `Lifecycle` | bootstrap, admin join, leave, self eviction and destroy of one process; extends `Joiner` | state machine |
| `Circle` | replica points and their order, and what iterators and lookups are for a set of points | operators |
| `RBTree` | the red-black tree `lib/ring/rbtree.js` with its iterators; extends `Circle` | operators |
| `Ring` | the hash ring of one process on that tree, with its lookups | state machine |
| `MCRing` | `Ring` with four servers and two hash functions | model-checking instance |
| `MemberIterator` | the iterator, and the positions of the member list it walks | operators |
| `Damper` | flap damping in one process | state machine |
| `Healer` | a partition, gossip on its sides, and the heals of one process | state machine |
| `HealTimer` | when one process heals: timer, start, stop, admin heals, the hosts a heal tries | state machine |
| `MembershipProofs`, `DisseminationProofs`, `DamperProofs`, `RequestProxyProofs`, `LifecycleProofs`, `CircleProofs` | theorems about the module in the name | proofs |
| `FailureDetectionProofs` | theorems about `Gossip` with `MemberIterator`, and about `Swim`; for its sake the specification of `Gossip` is called `GossipSpec` | proofs |
| `HealerProofs` | theorems about `Healer`, and about `HealTimer`, whose specification is called `TimerSpec` for its sake | proofs |

`Membership` and `Swim` use the operators of `Member` and `StateTransitions`, so
the rules are stated once. `Swim` follows one member across the cluster because
the update rules look at one address at a time; `Membership` follows all members
on one process because batches, the stash, the ring and the local member relate
addresses. `Dissemination` in turn abstracts entries to versions and keeps what
messages have room for; `Swim` leaves that out and assumes what `Dissemination`
checks, that what one node believes another is told sooner or later.

### Membership

`members`, `timers`, `ring`, `changes` are functions of all addresses; an address
that is not in the list has the entry `Absent`. `update(batch, base)` is
`Membership.prototype.update` and its `updated` listeners; `base` is the record
of transitions at that moment, which differs from `timers` only when a timeout
is itself the caller (its record has just run). `stashed` is merged at the moment
a batch is stashed and not when `set()` runs: the merge folds the batches in
order, so the result is the same, and the model need not keep a list of batches.
Piggyback counts are left to `Dissemination`; here a change may be dropped at
any time (`Exhaust`). The environment hands over any batch (`Gossip`), except
that what it says of the local member cannot be later than the clock, because
only the local member chooses incarnations (`Swim` checks this across processes
as `NoneAheadOfSubject`).

### Swim

`own` is the subject's local member, `view[n]` and `timer[n]` are an observer's
entry and transition. A contact carries one entry one way. `late` holds
messages back; delivering one may also lose it. `life[n]` tells whether an observer has left,
which clears its transitions and stops its gossip (`LeaveObserver`; it still hears what
others send it), or has rejoined and heard nothing new of the subject since: rejoining enables
transitions again but schedules none of those that were cleared. `Present` are those that run and
have not left. Every fault - a false alarm, a
crash, an admin command, a message held up, an observer's restart or leave - counts
towards `MaxFaults`. Two guards state assumptions of real time: `Settled` (the
timeouts of a faulty member, 24 h, and of a tombstone, 60 s, do not run while
gossip that is news to somebody is still going round), and `clock > own.inc` in
`Boot` (a process takes more than a millisecond to restart). Commands and false
alarms need a tick of the clock to be left, so that the bound `MaxClock` does
not take away the refutation that time allows in reality.

### Dissemination

Entries are versions: `Supersedes` orders the entries of one address totally,
so a number stands for one, and the last version for a tombstone. A node may have any number
of pings and ping-reqs under way (`MaxPings` in the cluster): gossip sends them, helpers and those they help
do, and so does the self eviction. `ping[p]` is one of them, with what `issueAsSender` gave it, first as a
request, in the case of a ping-req then while the helper pings (`"helping"`), and last as the answer. Each adds to
the piggyback counts in a callback of its own, so the limit is exceeded by those
that were under way together: `PiggybackLimited` says by how many. A reverse full sync is a job of `jobs`,
whose join is one step because only the moment of its answer matters. The
maximum piggyback count is a constant (the code derives it from the size of the
ring), and no node hears of itself.

### Gossip

`loop` is `protocolPeriodTimer` and the timers that are set but no longer held by
it; `probes` are the calls of `tick` in flight with their targets and the helpers yet to answer.
Whom a tick probes is up to `MemberIterator`: `it` is the member list in its
order with the index into it, `pingable` what the list says of the others. Members enter
at any position, change status and are evicted at any moment (`MaxChurn`
times), and a shuffle, by `start` too, is any permutation. A tick that finds nobody to probe after
a whole round is in vain. Real time (the protocol rate) is left out.

### Ring, RBTree and Circle

The tree is the code's: nodes with colours, the top-down insertion and removal with
their rotations and colour flips, and the iterators `lookup` and `lookupN` walk
with. A node is a value, so what the code assigns to children of `p`, `gp` and `ggp`
is put back at a path. A server is a number in the order of its address, its replica points
get any hashes of the given functions, and the checksum is the set of names it is
computed from.

The properties know nothing of trees. `Circle` has the points alone: where an iterator stops
(`AtOrAfter` for `upperBound`, `Beyond` for `next`), the lookup, and the loop of `lookupN` turn by
turn, `IsWalk` from its first turn to its end; `IsPreferenceList` says what that is for: the
first servers met on the way round from the hash of the key, each once. `LookupsFollowCircle` ties the two together: the
iterators of the tree stop where those of `Circle` do, for every point and hash, and the lookups answer
what they ought to. What follows from there on for any points is proved in `CircleProofs`.

### Damper

`score` tells damp scores apart by the two limits they are compared with;
`flappers`, `dampedMembers` are the damper's, `dampTimer` and `expirationTimer`
its timers, `orphans` timers that were overwritten and cannot be cleared any
more. `asking` are the subprotocols in flight with the flappers they were started
with. A damp-req is answered with any scores. `Others` come and go, `Steady`
more members only count. `renewed` and `released` are history: flappers that
left the list and came back, members released while they were still above the limit.

### Healer

`view[n]` is the member list of `n`, `heal` the heal under way at `Local` with its
pool of targets, failures and the present attempt, from the join request to the answer of the
ping. Around it the cluster is coarse: a ping carries all that the sender
believes, time passes with each partition, a process may leave, and a newcomer
is unknown on the other side. Incarnations are dated by the partitions, since a refutation
is later than what was said before. Only one process heals, one heal at a time, and
it does not leave; faulty members are not evicted, for no partition lasts 24 hours.
A ping whose changes are no news makes the target fetch the list of the sender
(reverse full sync); that happens at once here.

### HealTimer

`timer.handle` is `healTimer`: null, a timer that is set, or one that ran, for the code
holds on to the latter until it sets the next. `timer.others` counts set timers that it no
longer holds. `heals` are the heals under way, of the timer and of the admin command, with
the size of their pool and their failures; what an attempt does to member lists is in
`Healer`, whether a timer begins a heal is free. Names of heals bound how many overlap. The
ready event may come twice, as two calls of `bootstrap` may overlap.

### RequestProxy

`send[r]` is the `RequestProxySend` of a request at the node it reached, with
the stage it is in; `calls` are the requests it has sent over TChannel, which may
be handled after the sender gave up on them; `inflight` is `numInflightRequests`.
A ring is its set of servers, each at one point (`Owner` is the lookup), because
forwarding only asks who owns a key and whether two rings are equal; the nodes'
rings change independently (`ChangeRing`). `served` and `miscounted` are history:
who let which attempt in with which ring, and whether the counter was ever held to its
maximum. The lag of the event loop is not modelled: with back-pressure on, a
request may be refused at any time.

### Joiner and Lifecycle

`joins[s]` is a `Joiner` with the closures of `join` and `joinGroup`: the hosts left in
this round (`pool`), those joined so far, and the present group with its
answers. A group is a subset of the pool, preferred hosts first. `requests` are the client's
`requestsById`, and those it was to answer at the next tick or has canceled. The answer of
a request, a refusal and a scan of wedged requests all call back through `Answer`,
and by `Pinged` for the self eviction; `OnJoin` is what `bootstrap` does in the
same step. TChannel may never complete a request (before `destroy()`), because
that is what the scan is there for. A scan cancels any of the requests in
flight, since any may be the overdue ones. The limit of the client is meant for
all protocol requests; here only joins and the eviction use it up. Every bootstrap puts the list it has
discovered in the place of `bootstrapHosts`, whoever else is joining by then, and each round of a join takes its hosts from
there; `/admin/reload` does the same in `ReloadSpec`. Gossip is reduced to whether it runs, and
the member list to the local status; `Gossip` and `Membership` have the rest.

## Runs

| run | bounds | shows |
|---|---|---|
| `membership` | one other member, clock to 3, batches of 2 | `TimersFollowMembers`, `DisseminatesBeliefs`, `ScheduledMovesOn`; `Membership` implements `MemberView` |
| `swim` | two observers that may leave and rejoin, clock to 3, 3 faults | `NoneAheadOfSubject`, `Convergence`, `GoneIsUnpingable`, `DeadIsForgotten` |
| `dissemination` | two nodes, one member, 2 versions, piggyback count 1, two pings or ping-reqs at a time, one reverse job, 2 news, 1 loss | `PendingIsCurrent`, `Converges`, `DiesOut` |
| `gossip` | three others, all of them helpers, 2 starts, one change of the list | `OneProbe`, `LoopAlive`, `EveryMemberProbed`, `FallsSilent` |
| `lifecycle` | two hosts, two joins, join size 2, one retry, one request at a time, one late completion, one hook, one ping | `JoinedEnough`, `AnsweredOnce`, `QuietOnceDestroyed`, `JoinEndsIfHostsSuffice`, `EvictionEnds` |
| `ring` | four servers of three points on a circle of 12 hashes, batches of 2, two hash functions | `TreeHoldsServers`, `LookupsFollowCircle`, `OthersKeepTheirOrder` |
| `damper` | two flapping members, four others, 3 asked, 2 needed, limit 20 %, 2 subprotocols and overwritten timers at most | `TimersFollow`, `NobodyOverlooked`, `DampedWithinLimit`, `DampedIsReleased` |
| `healer` | two processes against one, one may leave, one is a newcomer, one dead host, one failure ends a heal, one partition | `HealSpares`, `EverybodyMeets` |
| `heal_timer` | two heals of the timer and one of the admin command at a time, three targets, two failures end a heal, ready emitted twice | `OneChain`, `HealsAgain`, `HealsCease` |
| `join_hangs` | as `lifecycle`, with one hook more, the list of hosts reloaded once | the code breaks `JoinEnds` |
| `stuck_faulty` | as `swim`, but observers do not leave | the code breaks `FaultyIsReaped` |
| `proxy` | three nodes, two keys, one request, one retry, room for one in flight, 2 changes of rings, one node destroyed | `InflightCounted`, `HandledOncePerTry`, `OneOwnerPerRing`, `EveryRequestAnswered` |

The type invariants of `RequestProxy`, `Lifecycle`, `Dissemination` and `Damper` are checked in their runs, too,
for the bounds they contain; those of all state machines but `Ring` are proved below, for any values of the constants.

Why the bounds are enough. `Membership`: the listeners treat addresses apart, except
the local one, so one other member and the local one meet every branch, and a
batch of two meets both at once; three readings of the clock give an old, a
present and a refuting incarnation, and the theorems below hold for all bounds.
`Swim`: two observers are what it takes for one to bring back what the other has
forgotten; three faults allow, for instance, a false alarm, a crash and a
late message in one behaviour, or both observers leaving with a suspect in their lists. `Dissemination`: with one piggyback allowed, every
change runs out before it is known to have arrived, which is what full sync is
for; two pings at a time are what it takes to exceed that limit, and the safety properties, which are
proved for any number, hold with two members as well. `Gossip`: the second start, with a stop before it, doubles
the loop; with three others a shuffle can put a member before or behind the
index, and one entry or eviction moves the index against the list, after which
the rounds are as before. `RequestProxy`:
a request that is rerouted to its own node counts twice there, which exceeds the room for one,
and two changes make two rings differ from what they were and equal again.
`Lifecycle`: with room for one request, a group of two is never sent as a whole, so every join
mixes refused and sent requests and needs its retry; the second join is a second
bootstrap or an admin join and competes with the first and the eviction for the client, and a second
bootstrap brings a list of its own.
`Ring`: twelve points in every order in which four servers come and go make a tree up to five levels
deep, and every rotation and colour flip of insertion and removal happens (only the
branch for a missing sibling does not, balance excludes it); of the two hash
functions one has collisions between servers and within one. `Damper`: with six members and 20 %
the limit lets two be damped and not three, and one only when a member has
left; two overlapping subprotocols are what one overwritten timer
takes. `Healer`: a side of two has somebody in danger who does not heal, a
newcomer and a process that leaves are the two ways to be no ordinary target, a dead host spends the
only failure a heal is allowed. The proof about heals holds without these bounds. `HealTimer`:
two ready events are two overlapping bootstraps, two names for heals of the timer are what it takes to see a
second chain, and two failures of three targets let a heal end for either reason.

Fairness. `Membership`: live timeouts run (`setTimeout`). `Swim`: time passes, gossip
between any two that can reach each other goes round (the iterator visits every
pingable member in each round of the protocol period, and `Dissemination`'s
`Converges` shows that news passes on) among those that have not left, probes of a dead process fail, timeouts run; no
fault, no restart and no return of who left is owed. `Dissemination`: requests that were sent are handled,
answers received, and a node that can ping another again and again does
(strong fairness on `SendPing`, since all places may be taken while other pings are
under way); no ping-req is owed. `Gossip`: timers run, the iterator's ticks in vain and those that find a
member happen, requests are answered or time out (TChannel's timeout, and
the client's scan for wedged requests). `RequestProxy`: bodies are read, connections
made or refused, requests answered or timed out, retry timers run, and the
application answers what it was given; no node is owed a stable ring. `Lifecycle`:
of the timers, ticks, hooks and the answers of a destroyed channel some step is taken as
long as one can be (`Progress`); TChannel and the commands owe nothing. `Damper`: the expiration timer runs and each damped member
has in the end been damped for long enough. `Healer`: gossip goes round and timeouts run (weak fairness),
heals go on; and of the heals tried again and again - the pool is shuffled -
some choose a process that runs and has not left, and not every request to those is
lost (strong fairness). `HealTimer`: timers run, the provider calls back, attempts end, at worst by their
timeout (weak fairness), and a heal that each timer may begin by chance begins some time (strong fairness). `Ring` promises nothing that takes time. Where a system may stop because its
bounds are used up, the configuration does not check deadlock; `membership` does.

### What the violations mean

* `FaultyIsReaped`: `schedule` ignores a second call for the same
  state. If a member is found faulty again at a newer incarnation without
  being seen alive in between, the timeout of the older incarnation stays; when
  it runs, its `makeTombstone` is older than the entry and ignored, and the
  record left behind blocks any later schedule. The same holds of a suspect that is
  suspected again and its `makeFaulty`. The weaker `ScheduledMovesOn` and
  `DeadIsForgotten` hold: unless observers also crash for good, some other
  observer's transition moves the member on for all.
* `JoinEnds`: a round takes its hosts from the list as it is when the round starts, but the
  number to join from the list as it was when the join began. If the list has become shorter - by `/admin/reload`,
  or because a second `bootstrap` has discovered another one - a group can be
  empty; only answers end a group, so nothing ends this one. `JoinEndsIfHostsSuffice` is what is left: a join
  ends as long as the list is never shorter than what a join under way was to join. `JoinsHangForWantOfHosts` proves that
  there is no other way to hang.

Observations of the code that no document of it contradicts, so that no run is about them. An observer that leaves and
rejoins has no transition for those that were suspect, faulty or tombstones, and schedules one only when it hears news of them. If all
that could have moved a member on have left or rejoined, or the others' records are of an older incarnation, it stays where it
is, and if it is a suspect it goes on being pinged and owning keys: `GoneIsUnpingable` and `DeadIsForgotten` except this (`StrandedByLeaving`) and are
false otherwise. A bootstrap that overlaps one that has made the process ready makes a node that has left meanwhile alive again, with
its state transitions still disabled. Changes that
came by a full sync have no id, and compare equal by id. Stop and start while a
ping is in flight leave two loops, each setting `protocolPeriodTimer`, of which the next stop clears one; `FallsSilent`
shows that the other ends by itself, `OneProbe` that the two never probe at once. A
destination is looked up when the request comes, the checksum that vouches for
it is taken when it leaves; only `enforceKeyConsistency` makes the receiver look
the keys up itself, and on an empty ring every node takes itself for the owner, which
is why `OneOwnerPerRing` asks for a ring with servers. Two overlapping
subprotocols of the damper overwrite each other's timer, and the older chain runs on without flappers
until it notices. A node that is told to leave before it is ready finds gossip stopped already; the ready event starts it, whatever the
local status is by then. After an error `handleOrProxyAll` goes on to add later responses to the
array that it has given to the callback. A ping of a heal that is no news may make the target fetch the whole list of the healer.

## Proofs

Every proof is along an inductive invariant `IInv`: it holds initially, every
action keeps it, and it implies the property. The properties are not inductive
alone; what `IInv` adds is what the code relies on silently.

| module | theorem | what `IInv` adds, and why |
|---|---|---|
| `MembershipProofs` | `TypeCorrect`, `TimersAlwaysFollowMembers`, `ChangesFollowMembers`, `RingFollowsMembers`, `MembershipImplementsView`; of the update rules alone `SupersedesIsTotal`, `UpdatesCommute`, `LateUpdatesIgnored` | the local member's incarnation is not ahead of the clock (or a refutation would move it back), a ready node knows itself, before that nobody else, no transition is kept for the local member, a member without an entry has at most a tombstone's record |
| `FailureDetectionProofs` (`Swim`) | `SwimTypeCorrect`, `OnlySubjectMovesOn`, `EntriesMoveForward`, `EntriesMoveOn` | the subject's incarnation is a past reading of the clock, so that a refutation moves it on and leaves nobody ahead; a timeout that is to run is for the status of the entry, so what it does moves the entry forward or is ignored; for `EntriesMoveOn` also: a record is never of a later incarnation than the entry, nor of another status, but for what a forgotten tombstone leaves behind, and an observer that has left has none |
| `DisseminationProofs` | `DisseminationTypeCorrect`, `PendingStaysCurrent`, `PiggybackIsLimited`, `ReverseFullSyncsLimited`; of the full sync alone `FullSyncsReconcile` | the messages under way are well formed: two listeners bring list and changes up to date from the same message; a count together with the messages under way that may still add to it is within the limit, but for one more for each place of a message beside the first, for the sender counts only when the answer comes; the jobs of a node, a sum over the nodes it asks, change one at a time |
| `DamperProofs` | `DamperTypeCorrect`, `TimersFollowAlways`, `NobodyEverOverlooked`, `LimitIsKept` | each timer that was overwritten was set by a subprotocol, so timers and subprotocols together stay as few as the subprotocols begun. Whom a subprotocol damps is a fold over its answers: that the steps of the fold keep the limit, and nobody both flapper and damped, carries over to the result by induction on its length |
| `FailureDetectionProofs` (`Gossip`) | `OneProbeAtATime`, `LoopNeverEnds`, `GossipTypeCorrect`, `NextFinds`, `NoTickInVain` | `isPinging` says whether there is a probe, and there is one at most; so a loop turned away runs on by its timer, and the callback that would end the last loop is its own; every loop, on a timer or waiting for its probe, was begun by a start; the list names nobody twice and has all that are pingable, so the iterator finds one of them |
| `RequestProxyProofs` | `NoAttemptHandledTwice`, `HandledBoundedly`, `OneOwner`, `AnsweredForGood`, `CounterTells`, `NoAnswerLost`, `ProxyTypeCorrect` | attempts of a request leave one by one, each in one message that is served once; what is under way has keys, and they are not its own node's; with `EnforceKeyConsistency` whoever served a request owned all its keys then, on its ring; each step changes what one request or call weighs in the counter (two for one that is rerouted), and a request waits only while it has retries left; for `NoAnswerLost` (`UInv`) that the attempt it waits for is under way, handled or answered |
| `LifecycleProofs` | `JoinsAreEnough`, `HostsCountOnce`, `DestroyedStaysQuiet`, `JoinsHangForWantOfHosts`, `JoinsWaitForAnswers`, `EvictionWaitsForAnswers`, `LifecycleTypeCorrect` | a join knows its requests by its number and retry only, so: no two open requests of a group are about one host, none is about a host that was counted, none is of a retry to come; the rest of a round, the group and the joined are apart; a join that waits for its delay has a retry left, and what the client lets through is at most the room it has left; for the three about waiting (`WInv`) that every host of a group that has neither joined nor failed has a request the client will call back about, and every ping of an eviction too |
| `CircleProofs` | `LoopPrefers`, `LoopEnds`, `OwnerIsPreferred`, `PreferenceListUnique`, `OthersKeepOrder`, `OnlyNewcomersDisplace`, `OwnersStay` | not a state machine: the invariant is of the loop, that it has found the servers of the points it passed, in the order in which it met them; it passes one point more each turn, but for the one turn past the last point, and so comes back to where it began |
| `HealerProofs` (`Healer`) | `HealCostsNobody`, `HealerTypeCorrect` | the process that heals is alive in its own list (it sends that entry), and what is on its way to a target is harmless for whatever the target answered with; both are decided one step before they matter |
| `HealerProofs` (`HealTimer`) | `OneChainOnly`, `QuietForGood`, `HealTimerTypeCorrect` | until the process is destroyed, `healTimer` is null exactly while the healer is stopped, and then no heal of the timer is under way, so `start` needs to look at nothing else |

`HealCostsNobody` and `MembershipImplementsView` are about steps: the lemma about the step
uses the invariant of the state before it. `LifecycleProofs` proves its invariant
for reloads of the list of hosts too (`ReloadSpec`); it and `RequestProxyProofs` use the library's
facts about finite sets to count joined hosts, requests and calls. `OneOwner` assumes
`EnforceKeyConsistency`, an option of the code; the mutant of `OneOwnerPerRing` shows
that without the check two nodes may handle a request on the same ring.

`EntriesMoveForward`, `AnsweredForGood`, `LimitIsKept` and `NoTickInVain` are about steps, too. `QuietForGood`
is the safety half of `HealsCease`: once a destroyed process has no timer and no heal left it never has
one again; that it gets there is liveness. `JoinsWaitForAnswers` and `EvictionWaitsForAnswers` are the safety
halves of `JoinEndsIfHostsSuffice` and `EvictionEnds`: nobody waits for an answer that cannot come. The first is about `Spec` and
`ReloadSpec`, and has the premise of the property it is half of; `JoinsHangForWantOfHosts` has none, and says that the
empty group of the finding `join_hangs` is the only thing a join waits for in vain. `NoAnswerLost` is that of `EveryRequestAnswered`.
`EntriesMoveOn` stands beside `FaultyIsReaped`, which the code breaks: an entry that should move on has a transition whose
timeout will run, *unless* its record was made at an older incarnation, or the observer left and has heard nothing new of the member since it rejoined; those are the only ways to get stuck. `SupersedesIsTotal`, `UpdatesCommute` and
`LateUpdatesIgnored` are why the order, the repetition and the delay of gossip do not matter, but for
tombstones of members nobody knows; `FullSyncsReconcile` is the step that `Converges` rests on.

The theorems of `CircleProofs` are about any finite or infinite set of points, with any collisions (`LoopEnds` needs it finite): when
the loop ends it has the preference list, `lookup` answers the first of that, there is no other list, and when servers come and go
the rest keep their order, so a key moves only to a newcomer or from a server that is gone. `OthersKeepOrder` is what
`OthersKeepTheirOrder` checks on the tree, and that the tree answers like the circle is `LookupsFollowCircle`, which stays with TLC.

The prover has no induction over data to offer: the library's theorems of induction take what is to be proved as an operator,
which its backends cannot instantiate. `DamperProofs` and `DisseminationProofs` do it with sets of numbers instead, and `CircleProofs` for the turns of a loop
(a set with 0 and the successor of each is `Nat`, by well-foundedness), for a fold over a list and a sum over a set of nodes.

Assumptions about constants are in the modules that declare them, and TLC evaluates them in every run: the local address is not among the others,
bounds are natural numbers (positive where an initial state or a first step needs
it), nodes of `RequestProxy` are positive numbers (points on its ring), its `Requests`, the `Hosts` of the
joiner, the `Members` of the iterator, the `Others` of the damper and the `Nodes` of `Dissemination` are finite, the damper has a
member that never flaps, `NoOne` and `Anyone` of `Dissemination` are not nodes, the sides of a partition are disjoint and the healing
process is on one of them and does not leave.

Only model-checked: all liveness properties (the prover handles neither fairness nor ENABLED),
and `Ring` on `RBTree` (`TreeHoldsServers`, `LookupsFollowCircle`), whose operators are recursive, which the prover does not read:
that the tree is sorted, balanced and complete, and that its iterators stop where those of `Circle` do.

## Not modelled, and why

Tracing, statistics, logging and lag sampling observe and change nothing.
Configuration, discovery providers and back-off delays read input, and so does the command
line (`main.js`), which parses options and starts one process. The middleware
hides tombstones from peers of old versions, and transports bytes. TChannel is
the environment: it answers, fails or times out.

Of components that are modelled in part: what heals that overlap, of one
process or of several, do to the member lists together (`HealTimer` lets them overlap, `Healer` has one at a time), and
the probability of a heal, which is free; `handleOrProxyAll`,
which makes one request of `RequestProxy` per owner and collects the answers; the
maximum piggyback count that follows the size of the ring; the merge of join responses by
checksum, of which `Membership` takes the result; hosts named twice in a list.

## Plan

1. Done: member list, transitions, cluster view, dissemination, protocol period with its iterator, request proxy, joins, client, self eviction and the life of a process, the hash ring, damping, healing and its timer.
2. Done: proofs of the safety properties of every state machine but `Ring`, and of the operators they rest on: update rules, iterator, full sync.
3. Done: consistent hashing proved for a circle of points as such, without the tree, which stays with TLC; the safety halves of `JoinEndsIfHostsSuffice`, `EvictionEnds` and `EveryRequestAnswered`.
4. Left: what heals of two processes at once do to member lists; `handleOrProxyAll`.
