------------------------------- MODULE Joiner -------------------------------
(***************************************************************************)
(* Joining a cluster (lib/gossip/joiner.js) through the client that all    *)
(* protocol requests of a process go through (client.js,                   *)
(* client_request.js). A join asks groups of hosts until joinSize of them  *)
(* have answered; the client limits the requests in flight and cancels     *)
(* those that TChannel never completes. Lifecycle adds what else happens   *)
(* to the process.                                                         *)
(***************************************************************************)
EXTENDS Integers, FiniteSets, FiniteSetsExt

CONSTANTS
  Hosts,          \* the hosts that bootstrap lists may name, besides this one
  Preferred,      \* those of them that run on another machine
  MaxJoins,       \* bound: joins of this process; several may overlap
  JoinSize,       \* joinSize
  Parallelism,    \* parallelismFactor
  MaxRetries,     \* bound: groups until maxJoinDuration is surely exceeded
  MaxInflight,    \* inflightClientRequestsLimit
  MaxLate         \* bound: requests that are completed after being canceled

ASSUME HostsAssumption == IsFiniteSet(Hosts) /\ Preferred \subseteq Hosts
ASSUME SizesAssumption ==
  /\ MaxJoins \in Nat /\ JoinSize \in Nat \ {0} /\ Parallelism \in Nat \ {0}
  /\ MaxRetries \in Nat /\ MaxInflight \in Nat \ {0}
  /\ MaxLate \in Nat

VARIABLES
  destroyed,      \* ringpop.destroyed, and with it the channel's, the client's
  bootstrapHosts, \* ringpop.bootstrapHosts, without this process itself
  joins,          \* the joiners
  requests        \* requests that the client has yet to answer, or canceled

\* Joins are numbered in the order they begin in. The client's requests are
\* made by one of them or by the self eviction.
Joins == 1..MaxJoins
Evictor == 0

\* A request that is refused is answered with an error at the next tick and
\* never counts; a canceled one was answered, but TChannel will complete it
\* still. Any other is in requestsById.
Request ==
  [by : Joins \union {Evictor}, host : Hosts, retry : 0..MaxRetries,
   stage : {"inflight", "refused", "canceled"}]

\* returning calls back at the next tick without having asked anybody.
JoinRecord ==
  [kind : {"bootstrap", "admin"}, outcome : {"none", "ok", "error"},
   stage : {"none", "discovering", "returning", "group", "delay", "done"},
   size : 0..JoinSize, pool : SUBSET Hosts, retries : 0..MaxRetries,
   joined : SUBSET Hosts, numJoined : Nat,
   group : SUBSET Hosts, ok : SUBSET Hosts, failed : SUBSET Hosts]

NoJoin ==
  [kind |-> "bootstrap", outcome |-> "none", stage |-> "none", size |-> 0,
   pool |-> {}, retries |-> 0, joined |-> {}, numJoined |-> 0,
   group |-> {}, ok |-> {}, failed |-> {}]

-----------------------------------------------------------------------------
(***************************************************************************)
(* The client.                                                             *)
(***************************************************************************)

InStage(stage) == {q \in requests : q.stage = stage}

\* Mutant: one more than the limit is let through.
RoomOverLimit == MaxInflight + 1 - Cardinality(InStage("inflight"))

Room == MaxInflight - Cardinality(InStage("inflight"))

\* _request(), once for each of the hosts: those beyond the limit are refused,
\* and all are when the channel is destroyed.
Send(by, hosts, retry) ==
  \E accepted \in SUBSET hosts :
    /\ Cardinality(accepted) =
         IF destroyed THEN 0 ELSE Min({Cardinality(hosts), Max({Room, 0})})
    /\ requests' = requests \union
         {[by |-> by, host |-> h, retry |-> retry,
           stage |-> IF h \in accepted THEN "inflight" ELSE "refused"] : h \in hosts}

\* scanForWedgedRequests: the overdue requests, whoever made them. TChannel
\* will complete some of them yet.
Cancel(overdue) ==
  /\ ~destroyed
  /\ overdue # {} /\ overdue \subseteq InStage("inflight")
  /\ \E late \in SUBSET overdue :
       /\ Cardinality(InStage("canceled")) + Cardinality(late) <= MaxLate
       /\ requests' = (requests \ overdue) \union
            {[q EXCEPT !.stage = "canceled"] : q \in late}

-----------------------------------------------------------------------------
(***************************************************************************)
(* The joiner. Its operators take and return the record of one join.       *)
(***************************************************************************)

\* Mutant: a new round also asks the hosts that were joined.
RoundRepeats(hosts, j) == IF j.pool = {} THEN hosts ELSE j.pool

\* The hosts left in this round; when there are none a new round starts, with
\* the list of hosts as it is then, whatever list the join began with.
Round(hosts, j) == IF j.pool = {} THEN hosts \ j.joined ELSE j.pool

\* selectGroup: as many as may be needed, preferred hosts first.
Groups(hosts, j) ==
  LET pool == Round(hosts, j)
      wanted == (j.size - j.numJoined) * Parallelism
  IN {g \in SUBSET pool :
       /\ Cardinality(g) = Min({wanted, Cardinality(pool)})
       /\ g \subseteq Preferred \/ Preferred \intersect pool \subseteq g}

\* joinGroup. A group without hosts never completes.
JoinGroup(s, hosts, j) ==
  \E g \in Groups(hosts, j) :
    /\ joins' = [joins EXCEPT ![s] =
         [j EXCEPT !.stage = "group", !.pool = Round(hosts, j) \ g, !.group = g,
                   !.ok = {}, !.failed = {}]]
    /\ Send(s, g, j.retries)

\* The next join that may begin.
Unused(s) ==
  joins[s].stage = "none" /\ \A t \in Joins : t < s => joins[t].stage # "none"

\* The constructor and join(), with this list of hosts.
StartJoin(s, hosts, kind) ==
  LET j == [NoJoin EXCEPT !.kind = kind,
                          !.size = Min({JoinSize, Cardinality(hosts)})]
  IN
    IF destroyed \/ hosts = {}
    THEN /\ joins' = [joins EXCEPT ![s] =
              [j EXCEPT !.stage = "returning",
                        !.outcome = IF destroyed THEN "error" ELSE "ok"]]
         /\ UNCHANGED requests
    ELSE JoinGroup(s, hosts, j)

\* What is left of a join that called back.
Ended(j, outcome) ==
  [NoJoin EXCEPT !.stage = "done", !.outcome = outcome, !.kind = j.kind,
                 !.size = j.size, !.joined = j.joined]

\* The group's answers, complete or enough.
GroupComplete(j) ==
  \/ Cardinality(j.ok) >= j.size - j.numJoined
  \/ Cardinality(j.ok) + Cardinality(j.failed) >= Cardinality(j.group)

\* onJoin of join(): what becomes of a join when a group is complete.
AfterGroup(j, exceeded) ==
  LET heard == [j EXCEPT !.joined = @ \union j.ok,
                         !.numJoined = @ + Cardinality(j.ok)]
  IN IF destroyed THEN Ended(j, "error")
     ELSE IF heard.numJoined >= j.size THEN Ended(heard, "ok")
     ELSE IF exceeded \/ j.retries = MaxRetries THEN Ended(heard, "error")
     ELSE [heard EXCEPT !.stage = "delay"]

\* The join after answers to its present group; any other answer comes too
\* late and changes nothing.
AfterAnswers(s, answered, ok, exceeded) ==
  LET j == joins[s]
      hosts == {q.host : q \in {a \in answered : a.by = s /\ a.retry = j.retries}}
      told == IF ok THEN [j EXCEPT !.ok = @ \union hosts]
                    ELSE [j EXCEPT !.failed = @ \union hosts]
  IN IF j.stage # "group" \/ hosts = {} THEN j
     ELSE IF GroupComplete(told) THEN AfterGroup(told, exceeded)
     ELSE told

\* Any join may have lasted longer than maxJoinDuration.
Answer(answered, ok) ==
  \E exceeded \in SUBSET {q.by : q \in answered} :
    joins' = [s \in Joins |-> AfterAnswers(s, answered, ok, s \in exceeded)]

-----------------------------------------------------------------------------
(***************************************************************************)
(* Steps of the client and of the joiners; none of them changes what they  *)
(* know of the process.                                                    *)
(***************************************************************************)

\* TChannel completes a request.
Complete(q, ok) ==
  /\ q.stage = "inflight"
  /\ requests' = requests \ {q}
  /\ Answer({q}, ok)

\* Mutant: a request that was refused is not answered.
RefuseSilently(q) ==
  /\ q.stage = "refused"
  /\ requests' = requests \ {q}
  /\ UNCHANGED joins

Refuse(q) ==
  /\ q.stage = "refused"
  /\ requests' = requests \ {q}
  /\ Answer({q}, FALSE)

\* Mutant: nobody looks whether the request was canceled.
CompleteCanceledTwice(q) ==
  /\ q.stage = "canceled"
  /\ requests' = requests \ {q}
  /\ Answer({q}, TRUE)

\* TChannel completes a request that was canceled: nobody is told.
CompleteCanceled(q) ==
  /\ q.stage = "canceled"
  /\ requests' = requests \ {q}
  /\ UNCHANGED joins

Scan(overdue) == Cancel(overdue) /\ Answer(overdue, FALSE)

\* The delay is over. Its timer is never cleared.
Retry(s) ==
  /\ joins[s].stage = "delay"
  /\ JoinGroup(s, bootstrapHosts, [joins[s] EXCEPT !.retries = @ + 1])

\* The next tick of a join that asked nobody.
Return(s) ==
  /\ joins[s].stage = "returning"
  /\ joins' = [joins EXCEPT ![s] = Ended(@, @.outcome)]
  /\ UNCHANGED requests
=============================================================================
