------------------------------ MODULE Lifecycle ------------------------------
(***************************************************************************)
(* The life of one process: bootstrap() with its join, the admin commands  *)
(* join and leave, the self eviction (lib/self-evict.js) and destroy(), at *)
(* any moment of each other. Of gossip it matters here only whether it     *)
(* runs, of the member list only the status of the local member.           *)
(***************************************************************************)
EXTENDS Joiner

CONSTANTS
  PreHooks,       \* the hooks of the self eviction, by when they run
  PostHooks,
  MaxPings,       \* how many members selfEvictionMaxPingRatio allows to ping
  MaxReloads      \* bound: how often the list of hosts is reloaded

ASSUME BoundsAssumption == MaxPings \in Nat /\ MaxReloads \in Nat

VARIABLES
  discovered,     \* bootstrapHosts names somebody, be it this process
  isReady,
  status,         \* status of the local member; none before there is one
  gossiping,      \* ~gossip.isStopped
  enabled,        \* stateTransitions.enabled
  evict,          \* the self eviction: its phase and what it waits for
  reloads

list == <<bootstrapHosts, discovered>>

node == <<isReady, status, gossiping, enabled>>

vars == <<destroyed, list, joins, requests, node, evict, reloads>>

Init ==
  /\ destroyed = FALSE
  /\ bootstrapHosts = {}
  /\ joins = [s \in Joins |-> NoJoin]
  /\ requests = {}
  /\ discovered = FALSE
  /\ isReady = FALSE
  /\ status = "none"
  /\ gossiping = FALSE
  /\ enabled = TRUE
  /\ evict = [phase |-> "none", hooks |-> {}, pings |-> {}]
  /\ reloads = 0

-----------------------------------------------------------------------------
(***************************************************************************)
(* Bootstrap and join.                                                     *)
(***************************************************************************)

\* The joins that have just called back.
Returned == {s \in Joins : joins[s].stage # "done" /\ joins'[s].stage = "done"}

\* Mutant: only the joiner looks whether the process was destroyed.
OnJoinAnyway ==
  IF \E s \in Returned : joins[s].kind = "bootstrap" /\ joins'[s].outcome = "ok"
  THEN isReady' = TRUE /\ gossiping' = TRUE /\ UNCHANGED <<status, enabled>>
  ELSE UNCHANGED node

\* onJoin of bootstrap(): the process is ready, and gossips (autoGossip). The
\* onJoin of the admin command only responds.
OnJoin ==
  IF ~destroyed /\ \E s \in Returned :
       joins[s].kind = "bootstrap" /\ joins'[s].outcome = "ok"
  THEN isReady' = TRUE /\ gossiping' = TRUE /\ UNCHANGED <<status, enabled>>
  ELSE UNCHANGED node

\* bootstrap(): unless it is ready already, discover the hosts.
Bootstrap(s) ==
  /\ Unused(s) /\ ~isReady
  /\ joins' = [joins EXCEPT ![s].stage = "discovering"]
  /\ UNCHANGED <<destroyed, list, requests, node, evict, reloads>>

\* onHostsDiscovered: the list replaces the one there was, whoever else is
\* joining by that. Then makeLocalAlive, and join; but there may be no hosts,
\* or no list.
Discovered(s) ==
  /\ joins[s].stage = "discovering"
  /\ \/ \E hosts \in SUBSET Hosts :
          /\ bootstrapHosts' = hosts /\ discovered' = TRUE
          /\ StartJoin(s, hosts, "bootstrap") /\ status' = "alive"
     \/ /\ \/ bootstrapHosts' = {} /\ discovered' = FALSE
           \/ UNCHANGED list
        /\ joins' = [joins EXCEPT ![s] = Ended(@, "error")]
        /\ UNCHANGED <<requests, status>>
  /\ UNCHANGED <<destroyed, isReady, gossiping, enabled, evict, reloads>>

\* /admin/member/join of a member that did not leave joins (once more).
AdminJoin(s) ==
  /\ ~destroyed /\ discovered /\ status \notin {"none", "leave"}
  /\ Unused(s)
  /\ StartJoin(s, bootstrapHosts, "admin")
  /\ UNCHANGED <<destroyed, list, node, evict, reloads>>

\* /admin/member/join of a member that left.
Rejoin ==
  /\ ~destroyed /\ status = "leave"
  /\ status' = "alive"
  /\ gossiping' = TRUE
  /\ enabled' = TRUE
  /\ UNCHANGED <<destroyed, list, joins, requests, isReady, evict, reloads>>

\* /admin/member/leave, with the listener of LocalMemberLeaveEvent.
Leave ==
  /\ ~destroyed /\ status \notin {"none", "leave"}
  /\ status' = "leave"
  /\ gossiping' = FALSE
  /\ enabled' = FALSE
  /\ UNCHANGED <<destroyed, list, joins, requests, isReady, evict, reloads>>

\* /admin/reload reads another list of hosts, be it an empty one. Only
\* ReloadSpec takes this step.
Reload ==
  /\ ~destroyed /\ reloads < MaxReloads
  /\ \E hosts \in (SUBSET Hosts) \ {bootstrapHosts} :
       /\ bootstrapHosts' = hosts
       /\ discovered' \in IF hosts = {} THEN BOOLEAN ELSE {TRUE}
  /\ reloads' = reloads + 1
  /\ UNCHANGED <<destroyed, joins, requests, node, evict>>

-----------------------------------------------------------------------------
(***************************************************************************)
(* Self eviction. A phase waits for its hooks or pings and ends at the next *)
(* tick.                                                                   *)
(***************************************************************************)

\* initiate(). A second call only gets an error.
SelfEvict ==
  /\ evict.phase = "none"
  /\ evict' = [evict EXCEPT !.phase = "pre_evict", !.hooks = PreHooks]
  /\ UNCHANGED <<destroyed, list, joins, requests, node, reloads>>

HookDone ==
  /\ \E h \in evict.hooks : evict' = [evict EXCEPT !.hooks = @ \ {h}]
  /\ UNCHANGED <<destroyed, list, joins, requests, node, reloads>>

\* Mutant: all members are counted, not those that are pinged.
EvictCountsAll ==
  /\ evict.phase = "pre_evict" /\ evict.hooks = {}
  /\ status' = "faulty"
  /\ \E members \in SUBSET Hosts :
       /\ Cardinality(members) <= IF isReady THEN MaxPings ELSE 0
       /\ Send(Evictor, members, 0)
       /\ evict' = [evict EXCEPT !.phase = "evicting",
                                !.pings = IF members = {} THEN {} ELSE Hosts]
  /\ UNCHANGED <<destroyed, list, joins, isReady, gossiping, enabled, reloads>>

\* _evict: be faulty, and tell some of the pingable members. A process that
\* is not ready knows none.
Evict ==
  /\ evict.phase = "pre_evict" /\ evict.hooks = {}
  /\ status' = "faulty"
  /\ \E members \in SUBSET Hosts :
       /\ Cardinality(members) <= IF isReady THEN MaxPings ELSE 0
       /\ Send(Evictor, members, 0)
       /\ evict' = [evict EXCEPT !.phase = "evicting", !.pings = members]
  /\ UNCHANGED <<destroyed, list, joins, isReady, gossiping, enabled, reloads>>

\* afterPing, for all the pings of the self eviction among these.
Pinged(answered) ==
  evict' = [evict EXCEPT !.pings =
    @ \ {q.host : q \in {a \in answered : a.by = Evictor}}]

PostEvict ==
  /\ evict.phase = "evicting" /\ evict.pings = {}
  /\ evict' = [evict EXCEPT !.phase = "post_evict", !.hooks = PostHooks]
  /\ UNCHANGED <<destroyed, list, joins, requests, node, reloads>>

\* _done, and the application's callback.
Done ==
  /\ evict.phase = "post_evict" /\ evict.hooks = {}
  /\ evict' = [evict EXCEPT !.phase = "done"]
  /\ UNCHANGED <<destroyed, list, joins, requests, node, reloads>>

EvictStep == HookDone \/ Evict \/ PostEvict \/ Done

-----------------------------------------------------------------------------
(***************************************************************************)
(* The rest of the process.                                                *)
(***************************************************************************)

Destroy ==
  /\ ~destroyed
  /\ destroyed' = TRUE
  /\ gossiping' = FALSE
  /\ enabled' = FALSE
  /\ UNCHANGED <<list, joins, requests, isReady, status, evict, reloads>>

\* What the client and the joiners do, with the callbacks that follow.
Completion ==
  /\ \E q \in requests : \E ok \in BOOLEAN : Complete(q, ok) /\ Pinged({q})
  /\ OnJoin
  /\ UNCHANGED <<destroyed, list, reloads>>

Refusal ==
  /\ \E q \in requests : Refuse(q) /\ Pinged({q})
  /\ OnJoin
  /\ UNCHANGED <<destroyed, list, reloads>>

LateCompletion ==
  /\ \E q \in requests : CompleteCanceled(q)
  /\ UNCHANGED <<destroyed, list, node, evict, reloads>>

WedgedTimer ==
  /\ \E overdue \in SUBSET InStage("inflight") : Scan(overdue) /\ Pinged(overdue)
  /\ OnJoin
  /\ UNCHANGED <<destroyed, list, reloads>>

JoinTimer(s) ==
  /\ Retry(s) \/ Return(s)
  /\ OnJoin
  /\ UNCHANGED <<destroyed, list, evict, reloads>>

Next ==
  \/ \E s \in Joins : Bootstrap(s) \/ Discovered(s) \/ AdminJoin(s) \/ JoinTimer(s)
  \/ Rejoin \/ Leave
  \/ SelfEvict \/ EvictStep
  \/ Completion \/ Refusal \/ LateCompletion \/ WedgedTimer
  \/ Destroy

Spec == Init /\ [][Next]_vars

\* What is bound to happen: hosts are discovered or not, timers and ticks run,
\* hooks call back, and a channel that is destroyed fails what is in flight.
\* Before that TChannel owes nothing: a request may stay without an answer
\* until the client cancels it. Each of these steps takes something on, so
\* that one of them happens as long as one can is all that is assumed.
Progress ==
  \/ \E s \in Joins : Discovered(s) \/ JoinTimer(s)
  \/ EvictStep
  \/ Refusal \/ WedgedTimer \/ (destroyed /\ Completion)

Fairness == WF_vars(Progress)

FairSpec == Spec /\ Fairness

\* The same, with lists of hosts that are reloaded while the process lives.
ReloadSpec == Init /\ [][Next \/ Reload]_vars /\ Fairness

-----------------------------------------------------------------------------
(***************************************************************************)
(* Properties.                                                             *)
(***************************************************************************)

TypeOK ==
  /\ destroyed \in BOOLEAN
  /\ bootstrapHosts \subseteq Hosts
  /\ joins \in [Joins -> JoinRecord]
  /\ requests \subseteq Request
  /\ discovered \in BOOLEAN /\ isReady \in BOOLEAN
  /\ status \in {"none", "alive", "leave", "faulty"}
  /\ gossiping \in BOOLEAN /\ enabled \in BOOLEAN
  /\ evict \in [phase : {"none", "pre_evict", "evicting", "post_evict", "done"},
                hooks : SUBSET (PreHooks \union PostHooks), pings : SUBSET Hosts]
  /\ reloads \in 0..MaxReloads
  /\ Cardinality(InStage("inflight")) <= MaxInflight

\* A join that ends well was answered by as many different hosts as it was
\* to join, in however many groups and rounds; a process is ready only after
\* one that bootstrap() made.
JoinedEnough ==
  /\ \A s \in Joins : joins[s].outcome = "ok" =>
       Cardinality(joins[s].joined) >= joins[s].size
  /\ isReady => \E s \in Joins :
       joins[s].kind = "bootstrap" /\ joins[s].outcome = "ok"

\* Whatever TChannel completes after the client canceled it: a group counts
\* each of its hosts once, as joined or as failed.
AnsweredOnce == \A s \in Joins : joins[s].ok \intersect joins[s].failed = {}

\* Once destroyed, nothing brings gossip or state transitions back - not a
\* join that was under way, nor a self eviction.
QuietOnceDestroyed == destroyed => ~gossiping /\ ~enabled

\* Every bootstrap() and every join calls back, though TChannel may never
\* answer, the client refuse requests, and the process be destroyed.
\* lib/gossip/joiner.js:103, "We will try and try to join other nodes until
\* `joinSize` is reached or `maxJoinDuration` is exceeded", promises it
\* whatever becomes of the list of hosts.
JoinEnds == []<>(\A s \in Joins : joins[s].stage \in {"none", "done"})

\* The list has as many hosts as every join under way was to join.
HostsSuffice ==
  \A s \in Joins : joins[s].stage \in {"group", "delay"} =>
    joins[s].size <= Cardinality(bootstrapHosts)

\* So they do as long as no other bootstrap() and no reload puts a list in its
\* place that is too short for a join under way.
JoinEndsIfHostsSuffice == []HostsSuffice => JoinEnds

\* A self eviction ends, whatever happens to its pings and to the process.
EvictionEnds == []<>(evict.phase \in {"none", "done"})
=============================================================================
