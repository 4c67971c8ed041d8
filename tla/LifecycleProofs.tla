--------------------------- MODULE LifecycleProofs ---------------------------
(***************************************************************************)
(* Proofs about Lifecycle and the Joiner in it, for every set of hosts and *)
(* every bound.                                                            *)
(*                                                                         *)
(* A join knows its requests by its number and retry only. That a host is  *)
(* counted once needs that no two of them are about the same host, that    *)
(* none is open about a host that has been counted, and that those of a    *)
(* later retry do not exist yet. That as many hosts were joined as are     *)
(* counted needs that what is left of a round was not joined before.       *)
(***************************************************************************)
EXTENDS Lifecycle, FiniteSetTheorems, TLAPS

JoinTyped ==
  [kind : {"bootstrap", "admin"}, outcome : {"none", "ok", "error"},
   stage : {"none", "discovering", "returning", "group", "delay", "done"},
   size : Nat, pool : SUBSET Hosts, retries : Nat,
   joined : SUBSET Hosts, numJoined : Nat,
   group : SUBSET Hosts, ok : SUBSET Hosts, failed : SUBSET Hosts]

RequestTyped ==
  [by : Joins \union {Evictor}, host : Hosts, retry : Nat,
   stage : {"inflight", "refused", "canceled"}]

Typed ==
  /\ bootstrapHosts \subseteq Hosts
  /\ joins \in [Joins -> JoinTyped]
  /\ requests \subseteq RequestTyped

\* What a join knows of its hosts: what is left of the round, the group, and
\* those it has joined are apart, and those are counted.
Counted(j) ==
  /\ j.numJoined = Cardinality(j.joined)
  /\ j.pool \intersect j.joined = {}
  /\ j.stage = "group" =>
       /\ j.group \intersect j.joined = {} /\ j.group \intersect j.pool = {}
       /\ j.ok \subseteq j.group

\* As many hosts were joined as the join was to.
Enough(j) == Cardinality(j.joined) >= j.size

JoinSane(j) ==
  /\ j.ok \intersect j.failed = {}
  /\ j.stage \in {"group", "delay"} => Counted(j)
  /\ j.stage \in {"none", "discovering", "group", "delay"} => j.outcome = "none"
  /\ j.outcome = "ok" => Enough(j)

\* The requests that will be answered.
Open == {q \in requests : q.by \in Joins /\ q.stage \in {"inflight", "refused"}}

\* Where an open request of a join may come from.
OpenSane(q, j) ==
  /\ j.stage \in {"group", "delay", "done"}
  /\ j.stage \in {"group", "delay"} => q.retry <= j.retries
  /\ j.stage = "group" /\ q.retry = j.retries =>
       q.host \in j.group \ (j.ok \union j.failed)

Requested ==
  /\ \A q \in Open : OpenSane(q, joins[q.by])
  /\ \A q, r \in Open : q.by = r.by /\ q.host = r.host /\ q.retry = r.retry => q = r

ReadyAfterJoin ==
  isReady => \E s \in Joins :
    joins[s].stage = "done" /\ joins[s].kind = "bootstrap" /\ joins[s].outcome = "ok"

JInv == Typed /\ (\A s \in Joins : JoinSane(joins[s])) /\ Requested

IInv == JInv /\ ReadyAfterJoin /\ QuietOnceDestroyed

-----------------------------------------------------------------------------
(***************************************************************************)
(* Lemmas about sets of hosts and about one join.                          *)
(***************************************************************************)

\* Sets of hosts are finite, and counted apart when they are apart.
LEMMA HostSets ==
  /\ Cardinality({}) = 0
  /\ \A S \in SUBSET Hosts : IsFiniteSet(S) /\ Cardinality(S) \in Nat
  /\ \A S, T \in SUBSET Hosts :
       S \intersect T = {} => Cardinality(S \union T) = Cardinality(S) + Cardinality(T)
<1>1. \A S \in SUBSET Hosts : IsFiniteSet(S) /\ Cardinality(S) \in Nat
  BY HostsAssumption, FS_Subset, FS_CardinalityType
<1>2. ASSUME NEW S \in SUBSET Hosts, NEW T \in SUBSET Hosts, S \intersect T = {}
      PROVE  Cardinality(S \union T) = Cardinality(S) + Cardinality(T)
  <2>1. Cardinality(S \union T) = Cardinality(S) + Cardinality(T) - Cardinality(S \intersect T)
    BY <1>1, FS_Union
  <2> QED BY <1>1, <1>2, <2>1, FS_EmptySet
<1> QED BY <1>1, <1>2, FS_EmptySet

\* The smaller of two numbers.
LEMMA MinOfTwo ==
  ASSUME NEW a \in Nat, NEW b \in Nat
  PROVE  Min({a, b}) \in Nat /\ Min({a, b}) <= a /\ Min({a, b}) <= b
<1>1. \E x \in {a, b} : \A y \in {a, b} : x <= y
  OBVIOUS
<1>2. Min({a, b}) \in {a, b} /\ \A y \in {a, b} : Min({a, b}) <= y
  BY <1>1 DEF Min
<1> QED BY <1>2

\* A join that has not begun is sane.
LEMMA NoJoinSane == NoJoin \in JoinTyped /\ JoinSane(NoJoin)
  BY HostSets DEF NoJoin, JoinTyped, JoinSane, Counted

\* What is left of a join that called back.
LEMMA EndedSane ==
  ASSUME NEW j \in JoinTyped, NEW outcome \in {"none", "ok", "error"},
         outcome = "ok" => Enough(j),
         NEW k, k = Ended(j, outcome)
  PROVE  /\ k \in JoinTyped /\ JoinSane(k)
         /\ k.stage = "done" /\ k.outcome = outcome /\ k.kind = j.kind
<1>1. /\ k \in JoinTyped
      /\ k.stage = "done" /\ k.outcome = outcome
      /\ k.kind = j.kind /\ k.size = j.size
      /\ k.joined = j.joined
      /\ k.ok = {} /\ k.failed = {}
  BY DEF Ended, NoJoin, JoinTyped
<1> QED BY <1>1 DEF JoinSane, Enough

\* A group that is asked: its record, and what is left of the round.
LEMMA GroupSane ==
  ASSUME NEW j \in JoinTyped, NEW hosts \in SUBSET Hosts,
         j.outcome = "none", j.numJoined = Cardinality(j.joined),
         j.pool \intersect j.joined = {},
         NEW g, g \subseteq Round(hosts, j),
         NEW k, k = [j EXCEPT !.stage = "group", !.pool = Round(hosts, j) \ g, !.group = g,
                              !.ok = {}, !.failed = {}]
  PROVE  /\ k \in JoinTyped /\ JoinSane(k)
         /\ k.stage = "group" /\ k.retries = j.retries
         /\ k.group = g /\ k.ok = {} /\ k.failed = {}
<1>1. Round(hosts, j) \subseteq Hosts /\ Round(hosts, j) \intersect j.joined = {}
  BY DEF Round, JoinTyped
<1>2. /\ k \in JoinTyped
      /\ k.stage = "group" /\ k.pool = Round(hosts, j) \ g /\ k.group = g
      /\ k.ok = {} /\ k.failed = {} /\ k.retries = j.retries
      /\ k.outcome = j.outcome /\ k.joined = j.joined /\ k.numJoined = j.numJoined
  BY <1>1 DEF JoinTyped
<1> QED BY <1>1, <1>2 DEF JoinSane, Counted

\* The next group of a join is asked: at a retry it has no requests of yet.
LEMMA JoinGroupKeeps ==
  ASSUME JInv, NEW s \in Joins, NEW hosts \in SUBSET Hosts, NEW j \in JoinTyped,
         j.outcome = "none", j.numJoined = Cardinality(j.joined),
         j.pool \intersect j.joined = {},
         \A q \in Open : q.by = s => q.retry < j.retries,
         JoinGroup(s, hosts, j), bootstrapHosts' \subseteq Hosts
  PROVE  /\ JInv'
         /\ joins'[s].stage = "group"
         /\ \A t \in Joins \ {s} : joins'[t] = joins[t]
<1>1. PICK g \in Groups(hosts, j) :
        /\ joins' = [joins EXCEPT ![s] =
             [j EXCEPT !.stage = "group", !.pool = Round(hosts, j) \ g, !.group = g,
                       !.ok = {}, !.failed = {}]]
        /\ Send(s, g, j.retries)
  BY DEF JoinGroup
<1>2. joins \in [Joins -> JoinTyped] /\ requests \subseteq RequestTyped
  BY DEF JInv, Typed
<1>3. g \subseteq Round(hosts, j) /\ g \subseteq Hosts
  BY <1>2 DEF Groups, Round, JoinTyped
<1> DEFINE k == [j EXCEPT !.stage = "group", !.pool = Round(hosts, j) \ g, !.group = g,
                          !.ok = {}, !.failed = {}]
<1>4. /\ k \in JoinTyped /\ JoinSane(k)
      /\ k.stage = "group" /\ k.retries = j.retries
      /\ k.group = g /\ k.ok = {} /\ k.failed = {}
  BY <1>2, <1>3, GroupSane
<1>5. joins' = [joins EXCEPT ![s] = k]
  BY <1>1
<1> HIDE DEF k
<1>6. /\ joins' \in [Joins -> JoinTyped] /\ joins'[s] = k
      /\ \A t \in Joins \ {s} : joins'[t] = joins[t]
  BY <1>2, <1>4, <1>5
<1>7. PICK accepted \in SUBSET g :
        requests' = requests \union
          {[by |-> s, host |-> h, retry |-> j.retries,
            stage |-> IF h \in accepted THEN "inflight" ELSE "refused"] : h \in g}
  BY <1>1 DEF Send
<1>8. ASSUME NEW q \in requests' \ requests
      PROVE  /\ q \in RequestTyped /\ q.by = s /\ q.retry = j.retries /\ q.host \in g
             /\ q = [by |-> s, host |-> q.host, retry |-> j.retries,
                     stage |-> IF q.host \in accepted THEN "inflight" ELSE "refused"]
  <2>1. PICK h \in g : q = [by |-> s, host |-> h, retry |-> j.retries,
                            stage |-> IF h \in accepted THEN "inflight" ELSE "refused"]
    BY <1>7, <1>8
  <2>2. q.host = h
    BY <2>1
  <2> QED BY <1>3, <2>1, <2>2 DEF RequestTyped, JoinTyped
<1>9. Typed'
  BY <1>2, <1>6, <1>8 DEF Typed
<1>10. \A t \in Joins : JoinSane(joins'[t])
  BY <1>4, <1>6 DEF JInv
<1>11. \A q \in Open' : q \in Open \/ q \in requests' \ requests
  BY DEF Open
<1>12. \A q \in Open' : OpenSane(q, joins'[q.by])
  <2>1. ASSUME NEW q \in Open PROVE OpenSane(q, joins'[q.by])
    <3>1. CASE q.by = s
      <4>1. q.retry < j.retries /\ q.retry \in Nat /\ j.retries \in Nat
        BY <3>1, <1>2 DEF Open, RequestTyped, JoinTyped
      <4> QED BY <3>1, <4>1, <1>4, <1>6 DEF OpenSane
    <3>2. CASE q.by # s
      BY <3>2, <1>6 DEF JInv, Requested, Open
    <3> QED BY <3>1, <3>2
  <2>2. ASSUME NEW q \in requests' \ requests PROVE OpenSane(q, joins'[q.by])
    BY <1>4, <1>6, <1>8 DEF OpenSane, JoinTyped
  <2> QED BY <1>11, <2>1, <2>2
<1>13. \A q, r \in Open' : q.by = r.by /\ q.host = r.host /\ q.retry = r.retry => q = r
  <2>1. \A q \in Open, r \in requests' \ requests : ~(q.by = r.by /\ q.retry = r.retry)
    BY <1>2, <1>8 DEF Open, RequestTyped, JoinTyped
  <2>2. \A q, r \in requests' \ requests : q.host = r.host => q = r
    BY <1>8
  <2>3. \A q, r \in Open : q.by = r.by /\ q.host = r.host /\ q.retry = r.retry => q = r
    BY DEF JInv, Requested
  <2> QED BY <1>11, <2>1, <2>2, <2>3
<1> QED BY <1>4, <1>6, <1>9, <1>10, <1>12, <1>13 DEF JInv, Requested

\* What a join is when a group is complete.
LEMMA AfterGroupSane ==
  ASSUME NEW j \in JoinTyped, JoinSane(j), j.stage = "group", NEW exceeded,
         NEW k, k = AfterGroup(j, exceeded)
  PROVE  /\ k \in JoinTyped /\ JoinSane(k)
         /\ k.kind = j.kind
         /\ k.stage = "done" \/ (k.stage = "delay" /\ k.retries = j.retries)
<1> DEFINE heard == [j EXCEPT !.joined = @ \union j.ok,
                              !.numJoined = @ + Cardinality(j.ok)]
<1>1. j.ok \in SUBSET Hosts /\ j.joined \in SUBSET Hosts /\ j.numJoined \in Nat
  BY DEF JoinTyped
<1>2. Cardinality(j.ok) \in Nat
  BY <1>1, HostSets
<1>3. j.ok \intersect j.joined = {} /\ j.ok \intersect j.pool = {} /\ j.numJoined = Cardinality(j.joined)
  BY DEF JoinSane, Counted
<1>4. Cardinality(j.joined \union j.ok) = j.numJoined + Cardinality(j.ok)
  BY <1>1, <1>3, HostSets
<1>5. j.pool \intersect j.joined = {} /\ j.outcome = "none" /\ j.ok \intersect j.failed = {}
  BY DEF JoinSane, Counted
<1>6. /\ heard \in JoinTyped
      /\ heard.joined = j.joined \union j.ok
      /\ heard.numJoined = j.numJoined + Cardinality(j.ok)
      /\ heard.kind = j.kind /\ heard.size = j.size /\ heard.retries = j.retries
      /\ heard.pool = j.pool /\ heard.ok = j.ok /\ heard.failed = j.failed
      /\ heard.outcome = j.outcome
  <2>1. j.joined \union j.ok \in SUBSET Hosts /\ j.numJoined + Cardinality(j.ok) \in Nat
    BY <1>1, <1>2
  <2>2. heard = [[j EXCEPT !.joined = j.joined \union j.ok]
                   EXCEPT !.numJoined = j.numJoined + Cardinality(j.ok)]
    BY DEF JoinTyped
  <2> HIDE DEF heard
  <2> QED BY <2>1, <2>2 DEF JoinTyped
<1> HIDE DEF heard
<1>7. CASE k = Ended(j, "error")
  BY <1>7, EndedSane
<1>8. CASE heard.numJoined >= heard.size /\ k = Ended(heard, "ok")
  <2>1. heard \in JoinTyped /\ heard.kind = j.kind
    BY <1>6
  <2>2. Enough(heard)
    BY <1>4, <1>6, <1>8 DEF Enough
  <2>3. JoinSane(k) /\ k \in JoinTyped /\ k.stage = "done" /\ k.kind = heard.kind
    <3>1. k = Ended(heard, "ok")
      BY <1>8
    <3> QED BY <2>1, <2>2, <3>1, EndedSane
  <2> QED BY <2>1, <2>3
<1>9. CASE k = Ended(heard, "error")
  <2>1. heard \in JoinTyped /\ heard.kind = j.kind
    BY <1>6
  <2>2. JoinSane(k) /\ k \in JoinTyped /\ k.stage = "done" /\ k.kind = heard.kind
    BY <1>9, <2>1, EndedSane
  <2> QED BY <2>1, <2>2
<1>10. CASE k = [heard EXCEPT !.stage = "delay"]
  <2>1. /\ k \in JoinTyped /\ k.stage = "delay" /\ k.joined = heard.joined
        /\ k.numJoined = heard.numJoined /\ k.pool = heard.pool /\ k.kind = heard.kind
        /\ k.ok = heard.ok /\ k.failed = heard.failed /\ k.outcome = heard.outcome
        /\ k.retries = heard.retries
    BY <1>6, <1>10 DEF JoinTyped
  <2>2. k.pool \intersect k.joined = {}
    BY <1>3, <1>5, <1>6, <2>1
  <2>3. JoinSane(k)
    BY <1>4, <1>5, <1>6, <2>1, <2>2 DEF JoinSane, Counted
  <2> QED BY <2>1, <2>3, <1>6
<1> QED
  BY <1>6, <1>7, <1>8, <1>9, <1>10 DEF AfterGroup, heard

\* What answers do to a join: each host they are from is counted once.
LEMMA AfterAnswersSane ==
  ASSUME JInv, NEW s \in Joins, NEW answered, answered \subseteq requests,
         \A q \in answered : q.stage \in {"inflight", "refused"},
         NEW ok \in BOOLEAN, NEW exceeded,
         NEW k, k = AfterAnswers(s, answered, ok, exceeded)
  PROVE  /\ k \in JoinTyped /\ JoinSane(k) /\ k.kind = joins[s].kind
         /\ \A q \in Open \ answered : q.by = s => OpenSane(q, k)
         /\ joins[s].stage \in {"none", "discovering", "returning", "delay", "done"} =>
              k = joins[s]
<1> DEFINE j == joins[s]
           hosts == {q.host : q \in {a \in answered : a.by = s /\ a.retry = j.retries}}
           told == IF ok THEN [j EXCEPT !.ok = @ \union hosts]
                         ELSE [j EXCEPT !.failed = @ \union hosts]
<1>1. j \in JoinTyped /\ JoinSane(j) /\ requests \subseteq RequestTyped
  BY DEF JInv, Typed
<1>2. k = IF j.stage # "group" \/ hosts = {} THEN j
          ELSE IF GroupComplete(told) THEN AfterGroup(told, exceeded) ELSE told
  BY Zenon DEF AfterAnswers
<1>3. \A q \in Open : q.by = s => OpenSane(q, j)
  BY DEF JInv, Requested
<1>4. CASE j.stage # "group" \/ hosts = {}
  BY <1>1, <1>2, <1>3, <1>4
<1>5. CASE j.stage = "group" /\ hosts # {}
  <2>1. ASSUME NEW h \in hosts
        PROVE  h \in j.group \ (j.ok \union j.failed) /\ h \in Hosts
    <3>1. PICK a \in answered : a.by = s /\ a.retry = j.retries /\ h = a.host
      BY <2>1
    <3>2. a \in Open
      BY <3>1 DEF Open
    <3> QED BY <1>1, <1>3, <1>5, <3>1, <3>2 DEF OpenSane, RequestTyped
  <2>2. \A q \in Open \ answered : q.by = s /\ q.retry = j.retries => q.host \notin hosts
    BY DEF JInv, Requested, Open
  <2> HIDE DEF hosts
  <2>3. /\ told \in JoinTyped /\ told.stage = "group" /\ told.retries = j.retries
        /\ told.kind = j.kind /\ told.group = j.group /\ told.pool = j.pool
        /\ told.joined = j.joined /\ told.numJoined = j.numJoined
        /\ told.outcome = j.outcome /\ told.size = j.size
        /\ \/ told.ok = j.ok \union hosts /\ told.failed = j.failed
           \/ told.ok = j.ok /\ told.failed = j.failed \union hosts
    BY <1>1, <1>5, <2>1 DEF JoinTyped
  <2> HIDE DEF told
  <2>4. told.ok \intersect told.failed = {} /\ told.ok \subseteq told.group
    BY <1>1, <1>5, <2>1, <2>3 DEF JoinSane, Counted
  <2>5. JoinSane(told)
    BY <1>1, <1>5, <2>3, <2>4 DEF JoinSane, Counted
  <2>6. CASE k = told
    <3>1. \A q \in Open \ answered : q.by = s => OpenSane(q, k)
      BY <1>3, <1>5, <2>2, <2>3, <2>6 DEF OpenSane
    <3> QED BY <1>5, <2>3, <2>5, <2>6, <3>1
  <2>7. CASE k = AfterGroup(told, exceeded)
    <3>1. /\ k \in JoinTyped /\ JoinSane(k) /\ k.kind = told.kind
          /\ k.stage = "done" \/ (k.stage = "delay" /\ k.retries = told.retries)
      BY <2>3, <2>5, <2>7, AfterGroupSane
    <3>2. \A q \in Open \ answered : q.by = s => OpenSane(q, k)
      BY <1>3, <1>5, <2>3, <3>1 DEF OpenSane
    <3> QED BY <1>5, <2>3, <3>1, <3>2
  <2> QED BY <1>2, <1>5, <2>6, <2>7
<1> QED BY <1>4, <1>5

-----------------------------------------------------------------------------
(***************************************************************************)
(* Lemmas about all the joins of the process.                              *)
(***************************************************************************)

\* Answers, a refusal or a scan keep what the joins and their requests say.
LEMMA AnswerKeeps ==
  ASSUME JInv, NEW answered, answered \subseteq requests,
         \A q \in answered : q.stage \in {"inflight", "refused"},
         NEW ok \in BOOLEAN, Answer(answered, ok),
         requests' \subseteq RequestTyped, Open' \subseteq Open \ answered,
         UNCHANGED bootstrapHosts
  PROVE  /\ JInv'
         /\ \A s \in Joins : /\ joins'[s].kind = joins[s].kind
                             /\ joins[s].stage = "done" => joins'[s] = joins[s]
<1>1. PICK exceeded :
        joins' = [s \in Joins |-> AfterAnswers(s, answered, ok, s \in exceeded)]
  BY DEF Answer
<1>2. ASSUME NEW s \in Joins
      PROVE  /\ joins'[s] \in JoinTyped /\ JoinSane(joins'[s])
             /\ joins'[s].kind = joins[s].kind
             /\ \A q \in Open \ answered : q.by = s => OpenSane(q, joins'[s])
             /\ joins[s].stage \in {"none", "discovering", "returning", "delay", "done"} =>
                  joins'[s] = joins[s]
  <2>1. joins'[s] = AfterAnswers(s, answered, ok, s \in exceeded)
    BY <1>1
  <2> QED BY <2>1, AfterAnswersSane
<1>3. joins' = [s \in Joins |-> joins'[s]]
  BY <1>1
<1>4. Typed'
  BY <1>2, <1>3 DEF JInv, Typed
<1>5. Requested'
  <2>1. \A q \in Open' : OpenSane(q, joins'[q.by])
    BY <1>2 DEF Open
  <2>2. \A q, r \in Open' : q.by = r.by /\ q.host = r.host /\ q.retry = r.retry => q = r
    BY DEF JInv, Requested
  <2> QED BY <2>1, <2>2 DEF Requested
<1> QED BY <1>2, <1>4, <1>5 DEF JInv

\* One join changes that has no open requests.
LEMMA OneChanges ==
  ASSUME JInv, NEW s \in Joins, NEW k \in JoinTyped, JoinSane(k),
         joins[s].stage \in {"none", "discovering", "returning"} \/ k.stage = "done",
         joins' = [joins EXCEPT ![s] = k], UNCHANGED requests,
         bootstrapHosts' \subseteq Hosts
  PROVE  JInv' /\ \A t \in Joins : joins'[t] = IF t = s THEN k ELSE joins[t]
<1>1. joins \in [Joins -> JoinTyped]
  BY DEF JInv, Typed
<1>2. \A t \in Joins : joins'[t] = IF t = s THEN k ELSE joins[t]
  BY <1>1
<1>3. Typed'
  BY <1>1 DEF JInv, Typed
<1>4. Requested'
  BY <1>2 DEF JInv, Requested, Open, OpenSane
<1> QED BY <1>2, <1>3, <1>4 DEF JInv

\* A join begins.
LEMMA StartJoinKeeps ==
  ASSUME JInv, NEW s \in Joins, NEW hosts \in SUBSET Hosts,
         NEW kind \in {"bootstrap", "admin"},
         joins[s].stage \in {"none", "discovering"},
         StartJoin(s, hosts, kind), bootstrapHosts' \subseteq Hosts
  PROVE  /\ JInv'
         /\ joins'[s].stage # "done"
         /\ \A t \in Joins \ {s} : joins'[t] = joins[t]
<1> DEFINE size == Min({JoinSize, Cardinality(hosts)})
           j == [NoJoin EXCEPT !.kind = kind, !.size = size]
<1>2. size \in Nat /\ size <= Cardinality(hosts)
  BY HostSets, MinOfTwo, SizesAssumption
<1> HIDE DEF size
<1>3. /\ j \in JoinTyped /\ j.size = size /\ j.outcome = "none" /\ j.retries = 0
      /\ j.joined = {} /\ j.numJoined = 0 /\ j.pool = {} /\ j.ok = {} /\ j.failed = {}
  BY <1>2, NoJoinSane DEF NoJoin, JoinTyped
<1> HIDE DEF j
<1>4. \A q \in Open : q.by # s
  BY DEF JInv, Requested, OpenSane
<1>5. CASE JoinGroup(s, hosts, j)
  BY <1>3, <1>4, <1>5, HostSets, JoinGroupKeeps
<1>6. ASSUME NEW outcome \in {"ok", "error"}, outcome = "ok" => hosts = {},
             joins' = [joins EXCEPT ![s] = [j EXCEPT !.stage = "returning", !.outcome = outcome]],
             UNCHANGED requests
      PROVE  /\ JInv' /\ joins'[s].stage # "done"
             /\ \A t \in Joins \ {s} : joins'[t] = joins[t]
  <2> DEFINE k == [[j EXCEPT !.stage = "returning"] EXCEPT !.outcome = outcome]
  <2>1. /\ k \in JoinTyped /\ k.stage = "returning" /\ k.outcome = outcome
        /\ k.ok = {} /\ k.failed = {} /\ k.joined = {} /\ k.size = size
    BY <1>3 DEF JoinTyped
  <2>2. joins' = [joins EXCEPT ![s] = k]
    BY <1>6
  <2> HIDE DEF k
  <2>3. outcome = "ok" => Enough(k)
    BY <1>2, <1>6, <2>1, HostSets DEF Enough
  <2>4. JoinSane(k)
    BY <2>1, <2>3 DEF JoinSane
  <2>5. JInv' /\ \A t \in Joins : joins'[t] = IF t = s THEN k ELSE joins[t]
    BY <1>6, <2>1, <2>2, <2>4, OneChanges
  <2> QED BY <2>1, <2>5
<1> QED BY <1>5, <1>6 DEF StartJoin, j, size

\* The delay of a join is over, or it returns without having asked anybody.
LEMMA JoinTimerKeeps ==
  ASSUME JInv, NEW s \in Joins, Retry(s) \/ Return(s), UNCHANGED bootstrapHosts
  PROVE  /\ JInv'
         /\ joins'[s].kind = joins[s].kind
         /\ joins[s].stage # "done"
         /\ \A t \in Joins \ {s} : joins'[t] = joins[t]
<1>1. joins[s] \in JoinTyped /\ JoinSane(joins[s]) /\ bootstrapHosts \in SUBSET Hosts
  BY DEF JInv, Typed
<1>2. CASE Retry(s)
  <2> DEFINE j == [joins[s] EXCEPT !.retries = @ + 1]
  <2>1. joins[s].stage = "delay" /\ JoinGroup(s, bootstrapHosts, j)
    BY <1>2 DEF Retry
  <2>2. /\ j \in JoinTyped /\ j.retries = joins[s].retries + 1
        /\ j.outcome = joins[s].outcome /\ j.numJoined = joins[s].numJoined
        /\ j.joined = joins[s].joined /\ j.pool = joins[s].pool /\ j.kind = joins[s].kind
    BY <1>1 DEF JoinTyped
  <2>3. joins'[s].kind = j.kind
    <3>1. PICK g \in Groups(bootstrapHosts, j) :
            joins' = [joins EXCEPT ![s] =
              [j EXCEPT !.stage = "group", !.pool = Round(bootstrapHosts, j) \ g, !.group = g,
                        !.ok = {}, !.failed = {}]]
      BY <2>1 DEF JoinGroup
    <3> HIDE DEF j
    <3> QED BY <2>2, <3>1 DEF JInv, Typed, JoinTyped
  <2> HIDE DEF j
  <2>4. j.outcome = "none" /\ j.numJoined = Cardinality(j.joined) /\ j.pool \intersect j.joined = {}
    BY <1>1, <2>1, <2>2 DEF JoinSane, Counted
  <2>5. \A q \in Open : q.by = s => q.retry < j.retries
    <3>1. ASSUME NEW q \in Open, q.by = s PROVE q.retry < j.retries
      <4>1. OpenSane(q, joins[s])
        BY <3>1 DEF JInv, Requested
      <4>2. q.retry <= joins[s].retries
        BY <2>1, <4>1 DEF OpenSane
      <4>3. q.retry \in Nat /\ joins[s].retries \in Nat
        BY <1>1 DEF JInv, Typed, Open, RequestTyped, JoinTyped
      <4> QED BY <2>2, <4>2, <4>3
    <3> QED BY <3>1
  <2> QED BY <1>1, <2>1, <2>2, <2>3, <2>4, <2>5, JoinGroupKeeps
<1>3. CASE Return(s)
  <2> DEFINE k == Ended(joins[s], joins[s].outcome)
  <2>1. /\ joins[s].stage = "returning"
        /\ joins' = [joins EXCEPT ![s] = k] /\ UNCHANGED requests
    BY <1>3 DEF Return
  <2>2. /\ joins[s].outcome \in {"none", "ok", "error"}
        /\ joins[s].outcome = "ok" => Enough(joins[s])
    BY <1>1 DEF JoinSane, JoinTyped
  <2>3. k \in JoinTyped /\ JoinSane(k) /\ k.stage = "done" /\ k.kind = joins[s].kind
    BY <1>1, <2>2, EndedSane
  <2> HIDE DEF k
  <2>4. JInv' /\ \A t \in Joins : joins'[t] = IF t = s THEN k ELSE joins[t]
    BY <1>1, <2>1, <2>3, OneChanges
  <2> QED BY <2>1, <2>3, <2>4
<1> QED BY <1>2, <1>3

\* A process becomes ready with a join of bootstrap() only, and is ready ever
\* after; and a callback brings nothing back that destroy() stopped.
LEMMA OnJoinKeeps ==
  ASSUME IInv, OnJoin \/ UNCHANGED <<isReady, gossiping, enabled>>,
         \A s \in Joins : /\ joins'[s].kind = joins[s].kind
                          /\ joins[s].stage = "done" => joins'[s] = joins[s],
         UNCHANGED destroyed
  PROVE  ReadyAfterJoin' /\ QuietOnceDestroyed'
<1>1. CASE UNCHANGED <<isReady, gossiping, enabled>>
  BY <1>1 DEF IInv, ReadyAfterJoin, QuietOnceDestroyed
<1>2. CASE ~destroyed /\ \E s \in Returned :
             joins[s].kind = "bootstrap" /\ joins'[s].outcome = "ok"
  <2>1. ReadyAfterJoin'
    BY <1>2 DEF Returned, ReadyAfterJoin
  <2> QED BY <1>2, <2>1 DEF QuietOnceDestroyed
<1> QED BY <1>1, <1>2 DEF OnJoin, node

\* Requests that nobody will hear of come and go.
LEMMA OthersRequests ==
  ASSUME JInv, requests' \subseteq RequestTyped, Open' \subseteq Open,
         UNCHANGED <<bootstrapHosts, joins>>
  PROVE  JInv'
  BY DEF JInv, Typed, Requested

-----------------------------------------------------------------------------
\* The process begins without joins.
LEMMA InitIInv == Init => IInv
<1> SUFFICES ASSUME Init PROVE IInv
  OBVIOUS
<1>1. Typed
  BY NoJoinSane DEF Init, Typed
<1>2. \A s \in Joins : JoinSane(joins[s])
  BY NoJoinSane DEF Init
<1>3. Requested
  BY DEF Init, Requested, Open
<1> QED BY <1>1, <1>2, <1>3 DEF Init, IInv, JInv, ReadyAfterJoin, QuietOnceDestroyed

\* Every step of the process, and every reload of the list of hosts.
LEMMA NextIInv == IInv /\ [Next \/ Reload]_vars => IInv'
<1> SUFFICES ASSUME IInv, [Next \/ Reload]_vars PROVE IInv'
  OBVIOUS
<1>t. /\ JInv /\ joins \in [Joins -> JoinTyped] /\ requests \subseteq RequestTyped
      /\ bootstrapHosts \in SUBSET Hosts /\ \A s \in Joins : JoinSane(joins[s])
  BY DEF IInv, JInv, Typed
<1>begins. ASSUME NEW s \in Joins, JInv', joins[s].stage # "done",
                  joins'[s].kind = joins[s].kind \/ joins'[s].stage # "done",
                  \A t \in Joins \ {s} : joins'[t] = joins[t],
                  UNCHANGED <<isReady, gossiping, enabled, destroyed>>
           PROVE  IInv'
  BY <1>begins DEF IInv, ReadyAfterJoin, QuietOnceDestroyed
<1>bootstrap. ASSUME NEW s \in Joins, Bootstrap(s) PROVE IInv'
  <2> DEFINE k == [joins[s] EXCEPT !.stage = "discovering"]
  <2>1. /\ joins[s].stage = "none" /\ joins' = [joins EXCEPT ![s] = k]
        /\ UNCHANGED <<requests, bootstrapHosts, isReady, gossiping, enabled, destroyed>>
    BY <1>bootstrap DEF Bootstrap, Unused, list, node
  <2>2. k \in JoinTyped /\ JoinSane(k) /\ k.stage = "discovering"
    BY <1>t, <2>1 DEF JoinTyped, JoinSane, Enough
  <2> HIDE DEF k
  <2>3. JInv' /\ \A t \in Joins : joins'[t] = IF t = s THEN k ELSE joins[t]
    BY <1>t, <2>1, <2>2, OneChanges
  <2> QED BY <1>begins, <2>1, <2>2, <2>3
<1>discovered. ASSUME NEW s \in Joins, Discovered(s) PROVE IInv'
  <2>1. /\ joins[s].stage = "discovering" /\ bootstrapHosts' \subseteq Hosts
        /\ UNCHANGED <<isReady, gossiping, enabled, destroyed>>
    BY <1>t, <1>discovered DEF Discovered, list
  <2>2. ASSUME NEW hosts \in SUBSET Hosts, StartJoin(s, hosts, "bootstrap") PROVE IInv'
    BY <1>t, <1>begins, <2>1, <2>2, StartJoinKeeps
  <2>3. CASE joins' = [joins EXCEPT ![s] = Ended(@, "error")] /\ UNCHANGED requests
    <3> DEFINE k == Ended(joins[s], "error")
    <3>1. k \in JoinTyped /\ JoinSane(k) /\ k.stage = "done" /\ k.kind = joins[s].kind
      BY <1>t, EndedSane
    <3>2. joins' = [joins EXCEPT ![s] = k]
      BY <2>3
    <3> HIDE DEF k
    <3>3. JInv' /\ \A t \in Joins : joins'[t] = IF t = s THEN k ELSE joins[t]
      BY <1>t, <2>1, <2>3, <3>1, <3>2, OneChanges
    <3> QED BY <1>begins, <2>1, <3>1, <3>3
  <2> QED BY <1>discovered, <2>2, <2>3 DEF Discovered
<1>admin. ASSUME NEW s \in Joins, AdminJoin(s) PROVE IInv'
  <2>1. /\ joins[s].stage = "none" /\ StartJoin(s, bootstrapHosts, "admin")
        /\ UNCHANGED <<bootstrapHosts, isReady, gossiping, enabled, destroyed>>
    BY <1>admin DEF AdminJoin, Unused, list, node
  <2> QED BY <1>t, <1>begins, <2>1, StartJoinKeeps
<1>timer. ASSUME NEW s \in Joins, JoinTimer(s) PROVE IInv'
  <2>1. (Retry(s) \/ Return(s)) /\ OnJoin /\ UNCHANGED <<destroyed, bootstrapHosts>>
    BY <1>timer DEF JoinTimer, list
  <2>2. /\ JInv' /\ joins'[s].kind = joins[s].kind /\ joins[s].stage # "done"
        /\ \A t \in Joins \ {s} : joins'[t] = joins[t]
    BY <1>t, <2>1, JoinTimerKeeps
  <2> QED BY <2>1, <2>2, OnJoinKeeps DEF IInv
<1>answer. ASSUME NEW answered, answered \subseteq requests,
                  \A q \in answered : q.stage \in {"inflight", "refused"},
                  NEW ok \in BOOLEAN, Answer(answered, ok), OnJoin,
                  requests' \subseteq RequestTyped, Open' \subseteq Open \ answered,
                  UNCHANGED <<destroyed, list>>
           PROVE  IInv'
  <2>1. UNCHANGED bootstrapHosts
    BY <1>answer DEF list
  <2>2. /\ JInv'
        /\ \A s \in Joins : /\ joins'[s].kind = joins[s].kind
                            /\ joins[s].stage = "done" => joins'[s] = joins[s]
    BY <1>t, <1>answer, <2>1, AnswerKeeps
  <2> QED BY <1>answer, <2>2, OnJoinKeeps DEF IInv
<1>completion. CASE Completion \/ Refusal
  <2>1. PICK q \in requests, ok \in BOOLEAN :
          /\ q.stage \in {"inflight", "refused"}
          /\ requests' = requests \ {q} /\ Answer({q}, ok)
    BY <1>completion DEF Completion, Refusal, Complete, Refuse
  <2>2. OnJoin /\ UNCHANGED <<destroyed, list>>
    BY <1>completion DEF Completion, Refusal
  <2>3. requests' \subseteq RequestTyped /\ Open' \subseteq Open \ {q}
    BY <1>t, <2>1 DEF Open
  <2> QED BY <1>answer, <2>1, <2>2, <2>3
<1>late. CASE LateCompletion
  <2>1. PICK q \in requests : requests' = requests \ {q} /\ UNCHANGED joins
    BY <1>late DEF LateCompletion, CompleteCanceled
  <2>2. JInv'
    BY <1>t, <1>late, <2>1, OthersRequests DEF LateCompletion, Open, list
  <2> QED BY <1>late, <2>1, <2>2, OnJoinKeeps DEF LateCompletion, node, IInv
<1>wedged. CASE WedgedTimer
  <2>1. PICK overdue \in SUBSET InStage("inflight") : Scan(overdue)
    BY <1>wedged DEF WedgedTimer
  <2>2. OnJoin /\ UNCHANGED <<destroyed, list>>
    BY <1>wedged DEF WedgedTimer
  <2>3. PICK late \in SUBSET overdue :
          requests' = (requests \ overdue) \union {[q EXCEPT !.stage = "canceled"] : q \in late}
    BY <2>1 DEF Scan, Cancel
  <2>4. overdue \subseteq requests /\ \A q \in overdue : q.stage = "inflight"
    BY DEF InStage
  <2>5. ASSUME NEW q \in late
        PROVE  /\ [q EXCEPT !.stage = "canceled"] \in RequestTyped
               /\ [q EXCEPT !.stage = "canceled"].stage = "canceled"
    BY <1>t, <2>4 DEF RequestTyped
  <2>6. requests' \subseteq RequestTyped /\ Open' \subseteq Open \ overdue
    BY <1>t, <2>3, <2>5 DEF Open
  <2>7. Answer(overdue, FALSE)
    BY <2>1 DEF Scan
  <2> QED BY <1>answer, <2>2, <2>4, <2>6, <2>7
<1>evict. CASE Evict
  <2>1. PICK members \in SUBSET Hosts : Send(Evictor, members, 0)
    BY <1>evict DEF Evict
  <2>2. PICK accepted :
          requests' = requests \union
            {[by |-> Evictor, host |-> h, retry |-> 0,
              stage |-> IF h \in accepted THEN "inflight" ELSE "refused"] : h \in members}
    BY <2>1 DEF Send
  <2>3. \A q \in requests' \ requests : q \in RequestTyped /\ q.by = Evictor
    BY <2>2 DEF RequestTyped
  <2>4. Evictor \notin Joins
    BY SizesAssumption DEF Evictor, Joins
  <2>5. requests' \subseteq RequestTyped /\ Open' \subseteq Open
    BY <1>t, <2>3, <2>4 DEF Open
  <2>6. JInv'
    BY <1>t, <1>evict, <2>5, OthersRequests DEF Evict, list
  <2> QED BY <1>evict, <2>6, OnJoinKeeps DEF Evict, IInv
<1>quiet. CASE SelfEvict \/ HookDone \/ PostEvict \/ Done \/ Reload
  <2>1. UNCHANGED <<destroyed, joins, requests, isReady, gossiping, enabled>>
    BY <1>quiet DEF SelfEvict, HookDone, PostEvict, Done, Reload, node
  <2>2. bootstrapHosts' \subseteq Hosts
    BY <1>quiet DEF SelfEvict, HookDone, PostEvict, Done, Reload, list, IInv, JInv, Typed
  <2>3. JInv'
    BY <1>t, <2>1, <2>2 DEF JInv, Typed, Requested, Open
  <2> QED BY <2>1, <2>3, OnJoinKeeps DEF IInv
<1>commands. CASE Rejoin \/ Leave \/ Destroy
  <2>1. UNCHANGED <<bootstrapHosts, joins, requests, isReady>>
    BY <1>commands DEF Rejoin, Leave, Destroy, list
  <2>2. QuietOnceDestroyed'
    BY <1>commands DEF Rejoin, Leave, Destroy, QuietOnceDestroyed
  <2>3. JInv'
    BY <1>t, <2>1 DEF JInv, Typed, Requested, Open
  <2> QED BY <2>1, <2>2, <2>3 DEF IInv, ReadyAfterJoin
<1>stutter. CASE UNCHANGED vars
  <2>1. UNCHANGED <<bootstrapHosts, joins, requests, isReady, gossiping, enabled, destroyed>>
    BY <1>stutter DEF vars, list, node
  <2>2. JInv'
    BY <1>t, <2>1 DEF JInv, Typed, Requested, Open
  <2> QED BY <2>1, <2>2, OnJoinKeeps DEF IInv
<1> QED
  BY <1>bootstrap, <1>discovered, <1>admin, <1>timer, <1>completion, <1>late, <1>wedged,
     <1>evict, <1>quiet, <1>commands, <1>stutter DEF Next, EvictStep

\* In every reachable state, whether the list of hosts is reloaded or not.
THEOREM Invariance == (Spec => []IInv) /\ (ReloadSpec => []IInv)
<1>1. IInv /\ [Next]_vars => IInv'
  BY NextIInv
<1>2. Spec => []IInv
  BY InitIInv, <1>1, PTL DEF Spec
<1>3. ReloadSpec => []IInv
  BY InitIInv, NextIInv, PTL DEF ReloadSpec
<1> QED BY <1>2, <1>3

\* A join that ends well was answered by as many different hosts as it was to
\* join, and only after one of bootstrap() is the process ready
\* (lib/gossip/joiner.js, index.js).
THEOREM JoinsAreEnough == Spec => []JoinedEnough
<1>1. IInv => JoinedEnough
  BY DEF IInv, JInv, JoinSane, Enough, ReadyAfterJoin, JoinedEnough
<1> QED BY <1>1, Invariance, PTL

\* A group counts each of its hosts once, though requests are refused,
\* canceled and completed late (client.js, lib/gossip/joiner.js).
THEOREM HostsCountOnce == Spec => []AnsweredOnce
<1>1. IInv => AnsweredOnce
  BY DEF IInv, JInv, JoinSane, AnsweredOnce
<1> QED BY <1>1, Invariance, PTL

\* Nothing that is under way brings gossip or the state transitions back once
\* the process is destroyed (destroy() in index.js).
THEOREM DestroyedStaysQuiet == Spec => []QuietOnceDestroyed
<1>1. IInv => QuietOnceDestroyed
  BY DEF IInv
<1> QED BY <1>1, Invariance, PTL

-----------------------------------------------------------------------------
(***************************************************************************)
(* The bounds: a join asks no more groups than it may, and the client has  *)
(* no more requests in flight than its limit, whoever makes them.          *)
(***************************************************************************)

\* A join that waits for its delay has a retry left.
JoinBounded(j) ==
  /\ j.size <= JoinSize
  /\ j.retries <= MaxRetries
  /\ j.stage = "delay" => j.retries < MaxRetries

InflightLimited ==
  IsFiniteSet(requests) /\ Cardinality(InStage("inflight")) <= MaxInflight

RequestsBounded == InflightLimited /\ \A q \in requests : q.retry <= MaxRetries

ProcessTyped ==
  /\ destroyed \in BOOLEAN /\ discovered \in BOOLEAN /\ isReady \in BOOLEAN
  /\ status \in {"none", "alive", "leave", "faulty"}
  /\ gossiping \in BOOLEAN /\ enabled \in BOOLEAN
  /\ evict \in [phase : {"none", "pre_evict", "evicting", "post_evict", "done"},
                hooks : SUBSET (PreHooks \union PostHooks), pings : SUBSET Hosts]
  /\ reloads \in 0..MaxReloads

Bounds == RequestsBounded /\ \A s \in Joins : JoinBounded(joins[s])

LInv == IInv /\ Bounds /\ ProcessTyped

\* The larger of two numbers.
LEMMA MaxOfTwo ==
  ASSUME NEW a \in Int, NEW b \in Int
  PROVE  Max({a, b}) \in {a, b}
<1>1. \E x \in {a, b} : \A y \in {a, b} : x >= y
  OBVIOUS
<1> QED BY <1>1 DEF Max

\* The records of a set of hosts, or of requests, are as many at most.
LEMMA ImageBound ==
  ASSUME NEW S, IsFiniteSet(S), NEW f, f = [x \in S |-> f[x]]
  PROVE  LET T == {f[x] : x \in S} IN IsFiniteSet(T) /\ Cardinality(T) <= Cardinality(S)
<1> DEFINE T == {f[x] : x \in S}
<1>1. f \in Surjection(S, T)
  BY DEF Surjection
<1> QED BY <1>1, FS_Surjection

\* What is sent is refused beyond the limit.
LEMMA SendBounded ==
  ASSUME RequestsBounded, NEW hosts \in SUBSET Hosts, NEW by, NEW retry \in 0..MaxRetries,
         Send(by, hosts, retry)
  PROVE  RequestsBounded'
<1>1. PICK accepted \in SUBSET hosts :
        /\ Cardinality(accepted) =
             IF destroyed THEN 0 ELSE Min({Cardinality(hosts), Max({Room, 0})})
        /\ requests' = requests \union
             {[by |-> by, host |-> h, retry |-> retry,
               stage |-> IF h \in accepted THEN "inflight" ELSE "refused"] : h \in hosts}
  BY DEF Send
<1> DEFINE f == [h \in hosts |-> [by |-> by, host |-> h, retry |-> retry,
                   stage |-> IF h \in accepted THEN "inflight" ELSE "refused"]]
           g == [h \in accepted |-> f[h]]
           sent == {f[h] : h \in hosts}
           counted == {g[h] : h \in accepted}
<1>2. requests' = requests \union sent
  BY <1>1
<1>3. IsFiniteSet(hosts) /\ IsFiniteSet(accepted) /\ Cardinality(accepted) \in Nat /\ Cardinality(hosts) \in Nat
  BY HostSets
<1>4. IsFiniteSet(sent)
  <2>1. f = [h \in hosts |-> f[h]]
    OBVIOUS
  <2> HIDE DEF f
  <2> QED BY <1>3, <2>1, ImageBound
<1>5. IsFiniteSet(counted) /\ Cardinality(counted) <= Cardinality(accepted)
  <2>1. g = [h \in accepted |-> g[h]]
    OBVIOUS
  <2> HIDE DEF g
  <2> QED BY <1>3, <2>1, ImageBound
<1>6. InStage("inflight")' \subseteq InStage("inflight") \union counted
  <2>1. ASSUME NEW q \in sent, q.stage = "inflight" PROVE q \in counted
    <3>1. PICK h \in hosts : q = f[h]
      BY <2>1
    <3>2. h \in accepted
      BY <2>1, <3>1
    <3> QED BY <3>1, <3>2
  <2> HIDE DEF sent, counted
  <2> QED BY <1>2, <2>1 DEF InStage
<1>7. /\ IsFiniteSet(requests) /\ InStage("inflight") \in SUBSET requests
      /\ Cardinality(InStage("inflight")) <= MaxInflight
  BY DEF RequestsBounded, InflightLimited, InStage
<1>8. IsFiniteSet(InStage("inflight")) /\ Cardinality(InStage("inflight")) \in Nat
  BY <1>7, FS_Subset, FS_CardinalityType
<1>9. Cardinality(accepted) <= MaxInflight - Cardinality(InStage("inflight"))
  <2>1. Room \in Nat
    BY <1>7, <1>8, SizesAssumption DEF Room
  <2>2. Max({Room, 0}) \in Nat /\ Max({Room, 0}) = Room
    BY <2>1, MaxOfTwo DEF Max
  <2>3. Min({Cardinality(hosts), Room}) <= Room
    BY <1>3, <2>1, MinOfTwo
  <2>4. Cardinality(accepted) = 0 \/ Cardinality(accepted) = Min({Cardinality(hosts), Room})
    BY <1>1, <2>2
  <2>5. Cardinality(accepted) <= Room
    BY <2>1, <2>3, <2>4
  <2> QED BY <2>5 DEF Room
<1> HIDE DEF sent, counted
<1>10. /\ IsFiniteSet(InStage("inflight") \union counted)
       /\ Cardinality(InStage("inflight") \union counted)
            = Cardinality(InStage("inflight")) + Cardinality(counted)
              - Cardinality(InStage("inflight") \intersect counted)
  BY <1>5, <1>8, FS_Union
<1>11. Cardinality(InStage("inflight") \intersect counted) \in Nat /\ Cardinality(counted) \in Nat
  BY <1>5, <1>8, FS_Intersection, FS_CardinalityType
<1>12. Cardinality(InStage("inflight") \union counted) <= MaxInflight
  BY <1>3, <1>5, <1>8, <1>9, <1>10, <1>11, SizesAssumption
<1>13. Cardinality(InStage("inflight")') <= MaxInflight
  <2>1. /\ Cardinality(InStage("inflight")') <= Cardinality(InStage("inflight") \union counted)
        /\ IsFiniteSet(InStage("inflight")')
    BY <1>6, <1>10, FS_Subset
  <2> QED BY <1>10, <1>12, <2>1, FS_CardinalityType, SizesAssumption
<1>14. IsFiniteSet(requests')
  BY <1>2, <1>4, <1>7, FS_Union
<1>15. \A q \in requests' : q.retry <= MaxRetries
  BY <1>2 DEF RequestsBounded, sent
<1> QED BY <1>13, <1>14, <1>15 DEF RequestsBounded, InflightLimited, InStage

\* Nothing new is in flight.
LEMMA FewerInflight ==
  ASSUME RequestsBounded, IsFiniteSet(requests'),
         InStage("inflight")' \subseteq InStage("inflight"),
         \A q \in requests' : q.retry <= MaxRetries
  PROVE  RequestsBounded'
<1>1. IsFiniteSet(InStage("inflight"))
  BY FS_Subset DEF RequestsBounded, InflightLimited, InStage
<1>2. /\ Cardinality(InStage("inflight")') <= Cardinality(InStage("inflight"))
      /\ IsFiniteSet(InStage("inflight")')
  BY <1>1, FS_Subset
<1>3. Cardinality(InStage("inflight")') \in Nat /\ Cardinality(InStage("inflight")) \in Nat
  BY <1>1, <1>2, FS_CardinalityType
<1>4. Cardinality(InStage("inflight")') <= MaxInflight
  BY <1>2, <1>3, SizesAssumption DEF RequestsBounded, InflightLimited
<1> QED BY <1>4 DEF RequestsBounded, InflightLimited

\* A group that is asked keeps the bounds, if its join does.
LEMMA JoinGroupBounded ==
  ASSUME Typed, RequestsBounded, NEW s \in Joins, NEW hosts \in SUBSET Hosts,
         NEW j \in JoinTyped, j.size <= JoinSize, j.retries <= MaxRetries,
         \A t \in Joins : JoinBounded(joins[t]),
         JoinGroup(s, hosts, j)
  PROVE  RequestsBounded' /\ \A t \in Joins : JoinBounded(joins'[t])
<1>1. PICK g \in Groups(hosts, j) :
        /\ joins' = [joins EXCEPT ![s] =
             [j EXCEPT !.stage = "group", !.pool = Round(hosts, j) \ g, !.group = g,
                       !.ok = {}, !.failed = {}]]
        /\ Send(s, g, j.retries)
  BY DEF JoinGroup
<1>2. g \in SUBSET Hosts /\ j.retries \in 0..MaxRetries
  BY SizesAssumption DEF Groups, Round, JoinTyped
<1>3. RequestsBounded'
  BY <1>1, <1>2, SendBounded
<1> DEFINE k == [j EXCEPT !.stage = "group", !.pool = Round(hosts, j) \ g, !.group = g,
                          !.ok = {}, !.failed = {}]
<1>4. k.stage = "group" /\ k.size = j.size /\ k.retries = j.retries
  BY DEF JoinTyped
<1>5. joins' = [joins EXCEPT ![s] = k]
  BY <1>1
<1> HIDE DEF k
<1>6. \A t \in Joins : joins'[t] = IF t = s THEN k ELSE joins[t]
  BY <1>5 DEF Typed
<1> QED BY <1>3, <1>4, <1>6 DEF JoinBounded

\* A join that called back.
LEMMA EndedBounded ==
  ASSUME NEW j \in JoinTyped, JoinBounded(j), NEW outcome
  PROVE  JoinBounded(Ended(j, outcome))
<1>1. /\ Ended(j, outcome).size = j.size /\ Ended(j, outcome).retries = 0
      /\ Ended(j, outcome).stage = "done"
  BY DEF Ended, NoJoin
<1> QED BY <1>1, SizesAssumption DEF JoinBounded

\* Answers change neither size nor retries, and the last retry has no delay.
LEMMA AfterAnswersBounded ==
  ASSUME NEW s \in Joins, joins[s] \in JoinTyped, JoinBounded(joins[s]),
         NEW answered, answered \subseteq requests, requests \subseteq RequestTyped,
         NEW ok \in BOOLEAN, NEW exceeded
  PROVE  JoinBounded(AfterAnswers(s, answered, ok, exceeded))
<1> DEFINE j == joins[s]
           hosts == {q.host : q \in {a \in answered : a.by = s /\ a.retry = j.retries}}
           told == IF ok THEN [j EXCEPT !.ok = @ \union hosts]
                         ELSE [j EXCEPT !.failed = @ \union hosts]
           heard == [told EXCEPT !.joined = @ \union told.ok,
                                 !.numJoined = @ + Cardinality(told.ok)]
           k == AfterAnswers(s, answered, ok, exceeded)
<1>1. k = IF j.stage # "group" \/ hosts = {} THEN j
          ELSE IF GroupComplete(told) THEN AfterGroup(told, exceeded) ELSE told
  BY Zenon DEF AfterAnswers
<1>2. hosts \subseteq Hosts
  BY DEF RequestTyped
<1> HIDE DEF hosts
<1>3. /\ told \in JoinTyped /\ told.size = j.size /\ told.retries = j.retries
      /\ told.stage = j.stage
  BY <1>2 DEF JoinTyped
<1> HIDE DEF told
<1>4. JoinBounded(told)
  BY <1>3 DEF JoinBounded
<1>5. heard \in JoinTyped /\ heard.size = told.size /\ heard.retries = told.retries /\ heard.stage = told.stage
  <2>1. Cardinality(told.ok) \in Nat
    BY <1>3, HostSets DEF JoinTyped
  <2>2. heard = [[told EXCEPT !.joined = told.joined \union told.ok]
                   EXCEPT !.numJoined = told.numJoined + Cardinality(told.ok)]
    BY <1>3 DEF JoinTyped
  <2>3. told.joined \union told.ok \in SUBSET Hosts /\ told.numJoined + Cardinality(told.ok) \in Nat
    BY <1>3, <2>1 DEF JoinTyped
  <2> HIDE DEF heard
  <2> QED BY <1>3, <2>2, <2>3 DEF JoinTyped
<1>6. AfterGroup(told, exceeded) =
        IF destroyed THEN Ended(told, "error")
        ELSE IF heard.numJoined >= told.size THEN Ended(heard, "ok")
        ELSE IF exceeded \/ told.retries = MaxRetries THEN Ended(heard, "error")
        ELSE [heard EXCEPT !.stage = "delay"]
  BY Zenon DEF AfterGroup, heard
<1> HIDE DEF heard
<1>7. JoinBounded(heard)
  BY <1>4, <1>5 DEF JoinBounded
<1>8. ASSUME told.retries # MaxRetries PROVE JoinBounded([heard EXCEPT !.stage = "delay"])
  BY <1>3, <1>5, <1>7, <1>8, SizesAssumption DEF JoinBounded, JoinTyped
<1>9. JoinBounded(AfterGroup(told, exceeded))
  BY <1>3, <1>4, <1>5, <1>6, <1>7, <1>8, EndedBounded
<1> QED BY <1>1, <1>4, <1>9

\* Answers take requests away, and the joins keep their bounds.
LEMMA AnswerBounded ==
  ASSUME Typed, NEW answered, answered \subseteq requests, NEW ok \in BOOLEAN,
         \A s \in Joins : JoinBounded(joins[s]),
         Answer(answered, ok)
  PROVE  \A s \in Joins : JoinBounded(joins'[s])
<1>1. PICK exceeded :
        joins' = [s \in Joins |-> AfterAnswers(s, answered, ok, s \in exceeded)]
  BY DEF Answer
<1>2. \A s \in Joins : joins'[s] = AfterAnswers(s, answered, ok, s \in exceeded)
  BY <1>1
<1> QED BY <1>2, AfterAnswersBounded DEF Typed

-----------------------------------------------------------------------------
\* The process begins without joins and requests.
LEMMA InitLInv == Init => LInv
<1> SUFFICES ASSUME Init PROVE LInv
  OBVIOUS
<1>1. IInv
  BY InitIInv
<1>2. \A s \in Joins : JoinBounded(joins[s])
  BY SizesAssumption DEF Init, NoJoin, JoinBounded
<1>3. InStage("inflight") = {}
  BY DEF Init, InStage
<1>4. RequestsBounded
  BY <1>3, FS_EmptySet, SizesAssumption DEF Init, RequestsBounded, InflightLimited
<1>5. ProcessTyped
  <2>1. evict \in [phase : {"none", "pre_evict", "evicting", "post_evict", "done"},
                  hooks : SUBSET (PreHooks \union PostHooks), pings : SUBSET Hosts]
    BY DEF Init
  <2>2. reloads \in 0..MaxReloads
    BY BoundsAssumption DEF Init
  <2> QED BY <2>1, <2>2 DEF Init, ProcessTyped
<1> QED BY <1>1, <1>2, <1>4, <1>5 DEF LInv, Bounds

\* What a step changes besides joins and requests is well formed.
LEMMA ProcessStaysTyped == ProcessTyped /\ [Next \/ Reload]_vars => ProcessTyped'
<1> SUFFICES ASSUME ProcessTyped, [Next \/ Reload]_vars PROVE ProcessTyped'
  OBVIOUS
<1> USE DEF ProcessTyped
<1>pinged. ASSUME NEW answered, Pinged(answered), OnJoin, UNCHANGED <<destroyed, list, reloads>>
           PROVE  ProcessTyped'
  BY <1>pinged DEF Pinged, OnJoin, node, list
<1>1. ASSUME NEW s \in Joins, Bootstrap(s) \/ Discovered(s) \/ AdminJoin(s)
      PROVE  ProcessTyped'
  BY <1>1 DEF Bootstrap, Discovered, AdminJoin, node, list
<1>2. ASSUME NEW s \in Joins, JoinTimer(s) PROVE ProcessTyped'
  BY <1>2 DEF JoinTimer, OnJoin, node, list
<1>3. CASE Rejoin \/ Leave \/ Destroy
  BY <1>3 DEF Rejoin, Leave, Destroy, list
<1>4. CASE SelfEvict \/ HookDone \/ PostEvict \/ Done
  BY <1>4 DEF SelfEvict, HookDone, PostEvict, Done, node, list
<1>5. CASE Evict
  BY <1>5 DEF Evict, list
<1>6. CASE Completion
  BY <1>6, <1>pinged DEF Completion
<1>7. CASE Refusal
  BY <1>7, <1>pinged DEF Refusal
<1>8. CASE WedgedTimer
  BY <1>8, <1>pinged DEF WedgedTimer
<1>9. CASE LateCompletion
  BY <1>9 DEF LateCompletion, node, list
<1>10. CASE Reload
  <2>1. UNCHANGED <<destroyed, isReady, status, gossiping, enabled, evict>>
    BY <1>10 DEF Reload, node
  <2>2. discovered' \in BOOLEAN
    BY <1>10 DEF Reload
  <2>3. reloads' \in 0..MaxReloads
    BY <1>10, BoundsAssumption DEF Reload
  <2> QED BY <2>1, <2>2, <2>3
<1>11. CASE UNCHANGED vars
  BY <1>11 DEF vars, node, list
<1> QED
  BY <1>1, <1>2, <1>3, <1>4, <1>5, <1>6, <1>7, <1>8, <1>9, <1>10, <1>11 DEF Next, EvictStep

\* Every step keeps the bounds.
LEMMA NextLInv == LInv /\ [Next \/ Reload]_vars => LInv'
<1> SUFFICES ASSUME LInv, [Next \/ Reload]_vars PROVE LInv'
  OBVIOUS
<1>t. /\ Typed /\ JInv /\ joins \in [Joins -> JoinTyped] /\ requests \subseteq RequestTyped
      /\ RequestsBounded /\ \A s \in Joins : JoinBounded(joins[s]) /\ JoinSane(joins[s])
      /\ bootstrapHosts \in SUBSET Hosts
  BY DEF LInv, IInv, JInv, Typed, Bounds
<1>one. ASSUME NEW s \in Joins, NEW k, JoinBounded(k), joins' = [joins EXCEPT ![s] = k],
               UNCHANGED requests
        PROVE  Bounds'
  BY <1>t, <1>one DEF Bounds, RequestsBounded, InflightLimited, InStage
<1>same. ASSUME UNCHANGED <<joins, requests>> PROVE Bounds'
  BY <1>t, <1>same DEF Bounds, RequestsBounded, InflightLimited, InStage
<1>start. ASSUME NEW s \in Joins, NEW hosts \in SUBSET Hosts,
                 NEW kind \in {"bootstrap", "admin"}, StartJoin(s, hosts, kind)
          PROVE  Bounds'
  <2> DEFINE size == Min({JoinSize, Cardinality(hosts)})
             j == [NoJoin EXCEPT !.kind = kind, !.size = size]
  <2>1. size \in Nat /\ size <= JoinSize
    BY HostSets, MinOfTwo, SizesAssumption
  <2> HIDE DEF size
  <2>2. j \in JoinTyped /\ j.size = size /\ j.retries = 0
    BY <2>1, NoJoinSane DEF NoJoin, JoinTyped
  <2> HIDE DEF j
  <2>3. CASE JoinGroup(s, hosts, j)
    <3>1. j.size <= JoinSize /\ j.retries <= MaxRetries
      BY <2>1, <2>2, SizesAssumption
    <3>2. RequestsBounded' /\ \A t \in Joins : JoinBounded(joins'[t])
      BY <1>t, <2>2, <2>3, <3>1, JoinGroupBounded
    <3> QED BY <3>2 DEF Bounds
  <2>4. ASSUME NEW outcome,
               joins' = [joins EXCEPT ![s] = [j EXCEPT !.stage = "returning", !.outcome = outcome]],
               UNCHANGED requests
        PROVE  Bounds'
    <3> DEFINE k == [j EXCEPT !.stage = "returning", !.outcome = outcome]
    <3>1. k.size = size /\ k.retries = 0 /\ k.stage = "returning"
      BY <2>2 DEF JoinTyped
    <3>2. joins' = [joins EXCEPT ![s] = k] /\ UNCHANGED requests
      BY <2>4
    <3> HIDE DEF k
    <3>3. JoinBounded(k)
      BY <2>1, <3>1, SizesAssumption DEF JoinBounded
    <3> QED BY <1>one, <3>2, <3>3
  <2> QED BY <1>start, <2>3, <2>4 DEF StartJoin, j, size
<1>answer. ASSUME NEW answered, answered \subseteq requests, NEW ok \in BOOLEAN,
                  Answer(answered, ok), requests' = requests \ answered
           PROVE  Bounds'
  <2>1. \A s \in Joins : JoinBounded(joins'[s])
    BY <1>t, <1>answer, AnswerBounded
  <2>2. IsFiniteSet(requests')
    BY <1>t, <1>answer, FS_Subset DEF RequestsBounded, InflightLimited
  <2>3. RequestsBounded'
    BY <1>t, <1>answer, <2>2, FewerInflight DEF InStage, RequestsBounded
  <2> QED BY <2>1, <2>3 DEF Bounds
<1>bootstrap. ASSUME NEW s \in Joins, Bootstrap(s) PROVE Bounds'
  <2> DEFINE k == [joins[s] EXCEPT !.stage = "discovering"]
  <2>1. joins' = [joins EXCEPT ![s] = k] /\ UNCHANGED requests
    BY <1>bootstrap DEF Bootstrap
  <2>2. k.size = joins[s].size /\ k.retries = joins[s].retries /\ k.stage = "discovering"
    BY <1>t DEF JoinTyped
  <2> HIDE DEF k
  <2>3. JoinBounded(k)
    BY <1>t, <2>2 DEF JoinBounded
  <2> QED BY <1>one, <2>1, <2>3
<1>discovered. ASSUME NEW s \in Joins, Discovered(s) PROVE Bounds'
  <2>1. ASSUME NEW hosts \in SUBSET Hosts, StartJoin(s, hosts, "bootstrap") PROVE Bounds'
    BY <1>start, <2>1
  <2>2. CASE joins' = [joins EXCEPT ![s] = Ended(@, "error")] /\ UNCHANGED requests
    <3>1. JoinBounded(Ended(joins[s], "error"))
      BY <1>t, EndedBounded
    <3>2. joins' = [joins EXCEPT ![s] = Ended(joins[s], "error")]
      BY <2>2
    <3> QED BY <1>one, <2>2, <3>1, <3>2
  <2> QED BY <1>discovered, <2>1, <2>2 DEF Discovered
<1>admin. ASSUME NEW s \in Joins, AdminJoin(s) PROVE Bounds'
  BY <1>t, <1>admin, <1>start DEF AdminJoin
<1>retry. ASSUME NEW s \in Joins, Retry(s) PROVE Bounds'
  <2> DEFINE j == [joins[s] EXCEPT !.retries = @ + 1]
  <2>1. joins[s].stage = "delay" /\ JoinGroup(s, bootstrapHosts, j)
    BY <1>retry DEF Retry
  <2>2. j \in JoinTyped /\ j.retries = joins[s].retries + 1 /\ j.size = joins[s].size
    BY <1>t DEF JoinTyped
  <2> HIDE DEF j
  <2>3. j.retries <= MaxRetries /\ j.size <= JoinSize
    BY <1>t, <2>1, <2>2, SizesAssumption DEF JoinBounded, JoinTyped
  <2> QED BY <1>t, <2>1, <2>2, <2>3, JoinGroupBounded DEF Bounds
<1>return. ASSUME NEW s \in Joins, Return(s) PROVE Bounds'
  <2>1. JoinBounded(Ended(joins[s], joins[s].outcome))
    BY <1>t, EndedBounded
  <2>2. joins' = [joins EXCEPT ![s] = Ended(joins[s], joins[s].outcome)] /\ UNCHANGED requests
    BY <1>return DEF Return
  <2> QED BY <1>one, <2>1, <2>2
<1>completion. ASSUME Completion \/ Refusal PROVE Bounds'
  <2>1. PICK q \in requests, ok \in BOOLEAN : requests' = requests \ {q} /\ Answer({q}, ok)
    BY <1>completion DEF Completion, Refusal, Complete, Refuse
  <2> QED BY <1>answer, <2>1
<1>late. ASSUME LateCompletion PROVE Bounds'
  <2>1. PICK q \in requests : requests' = requests \ {q} /\ UNCHANGED joins
    BY <1>late DEF LateCompletion, CompleteCanceled
  <2>2. IsFiniteSet(requests')
    BY <1>t, <2>1, FS_Subset DEF RequestsBounded, InflightLimited
  <2>3. RequestsBounded'
    BY <1>t, <2>1, <2>2, FewerInflight DEF InStage, RequestsBounded
  <2> QED BY <1>t, <2>1, <2>3 DEF Bounds
<1>wedged. ASSUME WedgedTimer PROVE Bounds'
  <2>1. PICK overdue \in SUBSET InStage("inflight") : Scan(overdue)
    BY <1>wedged DEF WedgedTimer
  <2>2. PICK late \in SUBSET overdue :
          requests' = (requests \ overdue) \union {[q EXCEPT !.stage = "canceled"] : q \in late}
    BY <2>1 DEF Scan, Cancel
  <2>3. overdue \subseteq requests /\ late \subseteq requests
    BY DEF InStage
  <2> DEFINE f == [q \in late |-> [q EXCEPT !.stage = "canceled"]]
             canceled == {f[q] : q \in late}
  <2>4. requests' = (requests \ overdue) \union canceled
    BY <2>2
  <2>5. \A q \in canceled : q.stage = "canceled" /\ q.retry <= MaxRetries
    BY <1>t, <2>3 DEF RequestTyped, RequestsBounded
  <2>6. IsFiniteSet(canceled)
    <3>1. f = [q \in late |-> f[q]]
      OBVIOUS
    <3>2. IsFiniteSet(late)
      BY <1>t, <2>3, FS_Subset DEF RequestsBounded, InflightLimited
    <3> HIDE DEF f
    <3> QED BY <3>1, <3>2, ImageBound
  <2> HIDE DEF canceled
  <2>7. IsFiniteSet(requests')
    BY <1>t, <2>4, <2>6, FS_Subset, FS_Union DEF RequestsBounded, InflightLimited
  <2>8. RequestsBounded'
    BY <1>t, <2>4, <2>5, <2>7, FewerInflight DEF InStage, RequestsBounded
  <2>9. \A s \in Joins : JoinBounded(joins'[s])
    BY <1>t, <2>1, <2>3, AnswerBounded DEF Scan
  <2> QED BY <2>8, <2>9 DEF Bounds
<1>evict. ASSUME Evict PROVE Bounds'
  <2>1. PICK members \in SUBSET Hosts : Send(Evictor, members, 0) /\ UNCHANGED joins
    BY <1>evict DEF Evict
  <2>2. 0 \in 0..MaxRetries
    BY SizesAssumption
  <2> QED BY <1>t, <2>1, <2>2, SendBounded DEF Bounds
<1>quiet. ASSUME \/ Rejoin \/ Leave \/ Destroy \/ SelfEvict \/ HookDone \/ PostEvict \/ Done
                 \/ Reload \/ UNCHANGED vars
          PROVE  Bounds'
  BY <1>quiet, <1>same
  DEF Rejoin, Leave, Destroy, SelfEvict, HookDone, PostEvict, Done, Reload, vars
<1>bounds. Bounds'
  BY <1>bootstrap, <1>discovered, <1>admin, <1>retry, <1>return, <1>completion, <1>late,
     <1>wedged, <1>evict, <1>quiet DEF Next, JoinTimer, EvictStep
<1>iinv. IInv'
  BY NextIInv DEF LInv
<1>process. ProcessTyped'
  BY ProcessStaysTyped DEF LInv
<1> QED BY <1>bounds, <1>iinv, <1>process DEF LInv

\* The process is well formed: no join asks more often than it may, and no
\* more requests are in flight than inflightClientRequestsLimit allows,
\* whoever makes them and whatever the client cancels (client.js).
THEOREM LifecycleTypeCorrect == Spec => []TypeOK
<1>1. LInv => TypeOK
  <2> SUFFICES ASSUME LInv PROVE TypeOK
    OBVIOUS
  <2>1. ASSUME NEW s \in Joins PROVE joins[s] \in JoinRecord
    <3>1. joins[s] \in JoinTyped /\ JoinBounded(joins[s])
      BY DEF LInv, IInv, JInv, Typed, Bounds
    <3>2. joins[s].size \in 0..JoinSize /\ joins[s].retries \in 0..MaxRetries
      BY <3>1, SizesAssumption DEF JoinBounded, JoinTyped
    <3> QED BY <3>1, <3>2 DEF JoinTyped, JoinRecord
  <2>2. joins \in [Joins -> JoinRecord]
    BY <2>1 DEF LInv, IInv, JInv, Typed
  <2>3. ASSUME NEW q \in requests PROVE q \in Request
    <3>1. q \in RequestTyped /\ q.retry \in 0..MaxRetries
      BY SizesAssumption DEF LInv, IInv, JInv, Typed, Bounds, RequestsBounded, RequestTyped
    <3> QED BY <3>1 DEF RequestTyped, Request
  <2> QED BY <2>2, <2>3 DEF LInv, IInv, JInv, Typed, Bounds, RequestsBounded, InflightLimited,
                            ProcessTyped, TypeOK
<1>2. LInv /\ [Next]_vars => LInv'
  BY NextLInv
<1> QED BY <1>1, <1>2, InitLInv, PTL DEF Spec

-----------------------------------------------------------------------------
(***************************************************************************)
(* Nobody waits in vain: what a join or a self eviction still counts on is *)
(* a request that the client will answer. This is what is left of JoinEnds *)
(* and EvictionEnds without fairness. The exception is a join whose group  *)
(* is empty. It can only come to that when the list of hosts has become    *)
(* shorter than what the join was to join, by a reload or by the hosts     *)
(* that another bootstrap() discovered.                                    *)
(***************************************************************************)

\* The client has yet to answer this request.
Asked(open, by, host, retry) ==
  \E q \in open :
    q.by = by /\ q.host = host /\ q.retry = retry /\ q.stage \in {"inflight", "refused"}

\* The join asked nobody and waits for an answer.
Starved(j) == j.stage = "group" /\ j.group = {}

\* The join has joined fewer hosts than it is to, and those of its group that
\* did not answer yet will.
Waits(open, s, j) ==
  /\ j.stage \in {"group", "delay"} => j.numJoined < j.size
  /\ j.stage = "group" =>
       /\ Starved(j) \/ ~GroupComplete(j)
       /\ \A h \in j.group \ (j.ok \union j.failed) : Asked(open, s, h, j.retries)

EvictionWaits == \A h \in evict.pings : Asked(requests, Evictor, h, 0)

WInv ==
  /\ LInv
  /\ \A s \in Joins : Waits(requests, s, joins[s])
  /\ EvictionWaits

\* While there are hosts to join, a group is not empty.
LEMMA GroupsNotEmpty ==
  ASSUME NEW hosts \in SUBSET Hosts, NEW j \in JoinTyped, j.numJoined < j.size,
         j.numJoined = Cardinality(j.joined), NEW g \in Groups(hosts, j)
  PROVE  /\ g \in SUBSET Hosts
         /\ g = {} => Cardinality(hosts) < j.size
<1>1. g \subseteq Round(hosts, j) /\ Round(hosts, j) \in SUBSET Hosts
  BY DEF Groups, Round, JoinTyped
<1>2. Cardinality(Round(hosts, j)) \in Nat
  BY <1>1, HostSets
<1>3. ASSUME Round(hosts, j) = {} PROVE Cardinality(hosts) < j.size
  <2>1. j.joined \in SUBSET Hosts /\ hosts \subseteq j.joined
    BY <1>3 DEF Round, JoinTyped
  <2>2. /\ Cardinality(hosts) <= Cardinality(j.joined)
        /\ Cardinality(hosts) \in Nat /\ Cardinality(j.joined) \in Nat
    BY <2>1, HostSets, FS_Subset
  <2> QED BY <2>2 DEF JoinTyped
<1>4. Round(hosts, j) # {} => Cardinality(Round(hosts, j)) > 0
  BY <1>1, <1>2, HostSets, FS_EmptySet
<1>5. (j.size - j.numJoined) * Parallelism \in Nat /\ (j.size - j.numJoined) * Parallelism > 0
  <2>1. ASSUME NEW a \in Nat, NEW b \in Nat, a > 0, b > 0 PROVE a * b \in Nat /\ a * b > 0
    BY <2>1
  <2>2. j.size - j.numJoined \in Nat /\ j.size - j.numJoined > 0
    BY DEF JoinTyped
  <2>3. Parallelism \in Nat /\ Parallelism > 0
    BY SizesAssumption
  <2> QED BY <2>1, <2>2, <2>3
<1>6. Cardinality(g) =
        Min({(j.size - j.numJoined) * Parallelism, Cardinality(Round(hosts, j))})
  BY DEF Groups
<1>7. ASSUME NEW a \in Nat, NEW b \in Nat, a > 0, b > 0
      PROVE  Min({a, b}) \in Nat /\ Min({a, b}) > 0
  <2>1. \E x \in {a, b} : \A y \in {a, b} : x <= y
    OBVIOUS
  <2> QED BY <1>7, <2>1 DEF Min
<1>8. Round(hosts, j) # {} => g # {}
  <2>1. ASSUME Round(hosts, j) # {} PROVE Cardinality(g) > 0
    BY <1>2, <1>4, <1>5, <1>6, <1>7, <2>1
  <2> QED BY <2>1, HostSets
<1> QED BY <1>1, <1>3, <1>8

\* Every host that a request goes to will answer.
LEMMA SendAsks ==
  ASSUME NEW hosts, NEW by, NEW retry, Send(by, hosts, retry)
  PROVE  requests \subseteq requests' /\ \A h \in hosts : Asked(requests', by, h, retry)
<1>1. PICK accepted \in SUBSET hosts :
        requests' = requests \union
          {[by |-> by, host |-> h, retry |-> retry,
            stage |-> IF h \in accepted THEN "inflight" ELSE "refused"] : h \in hosts}
  BY DEF Send
<1>2. ASSUME NEW h \in hosts PROVE Asked(requests', by, h, retry)
  <2> DEFINE q == [by |-> by, host |-> h, retry |-> retry,
                   stage |-> IF h \in accepted THEN "inflight" ELSE "refused"]
  <2>1. q \in requests'
    BY <1>1
  <2>2. q.by = by /\ q.host = h /\ q.retry = retry /\ q.stage \in {"inflight", "refused"}
    OBVIOUS
  <2> QED BY <2>1, <2>2 DEF Asked
<1> QED BY <1>1, <1>2

\* A join waits on while no request it counts on goes.
LEMMA WaitsOn ==
  ASSUME NEW s, NEW j, Waits(requests, s, j),
         \A h \in j.group \ (j.ok \union j.failed) :
           j.stage = "group" /\ Asked(requests, s, h, j.retries) =>
             Asked(requests', s, h, j.retries)
  PROVE  Waits(requests', s, j)
  BY DEF Waits

\* The group that a join asks next will answer, if there are hosts to ask.
LEMMA JoinGroupWaits ==
  ASSUME JInv, NEW s \in Joins, NEW hosts \in SUBSET Hosts,
         NEW j \in JoinTyped, j.numJoined = Cardinality(j.joined),
         j.numJoined < j.size, JoinGroup(s, hosts, j)
  PROVE  /\ Waits(requests', s, joins'[s])
         /\ Starved(joins'[s]) => Cardinality(hosts) < joins'[s].size
         /\ requests \subseteq requests'
         /\ \A t \in Joins \ {s} : joins'[t] = joins[t]
<1>1. PICK g \in Groups(hosts, j) :
        /\ joins' = [joins EXCEPT ![s] =
             [j EXCEPT !.stage = "group", !.pool = Round(hosts, j) \ g, !.group = g,
                       !.ok = {}, !.failed = {}]]
        /\ Send(s, g, j.retries)
  BY DEF JoinGroup
<1>2. joins \in [Joins -> JoinTyped]
  BY DEF JInv, Typed
<1>3. g \in SUBSET Hosts /\ (g = {} => Cardinality(hosts) < j.size)
  BY GroupsNotEmpty
<1> DEFINE k == [j EXCEPT !.stage = "group", !.pool = Round(hosts, j) \ g, !.group = g,
                          !.ok = {}, !.failed = {}]
<1>4. /\ k.stage = "group" /\ k.retries = j.retries /\ k.size = j.size
      /\ k.numJoined = j.numJoined
      /\ k.group = g /\ k.ok = {} /\ k.failed = {}
  BY DEF JoinTyped
<1>5. joins' = [joins EXCEPT ![s] = k]
  BY <1>1
<1> HIDE DEF k
<1>6. joins'[s] = k /\ \A t \in Joins \ {s} : joins'[t] = joins[t]
  BY <1>2, <1>5
<1>7. requests \subseteq requests' /\ \A h \in g : Asked(requests', s, h, j.retries)
  BY <1>1, SendAsks
<1>8. g # {} => ~GroupComplete(k)
  <2>1. j.size \in Nat /\ j.numJoined \in Nat /\ j.numJoined < j.size
    BY DEF JoinTyped
  <2>2. Cardinality(g) \in Nat /\ (g # {} => Cardinality(g) > 0)
    BY <1>3, HostSets, FS_EmptySet
  <2> QED BY <1>4, <2>1, <2>2, HostSets DEF GroupComplete
<1>9. \A h \in k.group \ (k.ok \union k.failed) : Asked(requests', s, h, k.retries)
  BY <1>4, <1>7
<1>10. Waits(requests', s, k)
  <2>1. Starved(k) \/ ~GroupComplete(k)
    BY <1>4, <1>8 DEF Starved
  <2> QED BY <1>4, <1>9, <2>1 DEF Waits
<1>11. Starved(k) => Cardinality(hosts) < k.size
  BY <1>3, <1>4 DEF Starved
<1> QED BY <1>6, <1>7, <1>10, <1>11

\* Whatever the answers do to a join, it waits for the others only.
LEMMA AfterAnswersWaits ==
  ASSUME JInv, NEW s \in Joins, Waits(requests, s, joins[s]),
         NEW answered, answered \subseteq requests,
         \A q \in answered : q.stage \in {"inflight", "refused"},
         NEW ok \in BOOLEAN, NEW exceeded, requests \ answered \subseteq requests',
         NEW k, k = AfterAnswers(s, answered, ok, exceeded)
  PROVE  Waits(requests', s, k) /\ (Starved(k) => Starved(joins[s]))
<1> DEFINE j == joins[s]
           hosts == {q.host : q \in {a \in answered : a.by = s /\ a.retry = j.retries}}
           told == IF ok THEN [j EXCEPT !.ok = @ \union hosts]
                         ELSE [j EXCEPT !.failed = @ \union hosts]
<1>1. j \in JoinTyped /\ JoinSane(j) /\ requests \subseteq RequestTyped
  BY DEF JInv, Typed
<1>2. k = IF j.stage # "group" \/ hosts = {} THEN j
          ELSE IF GroupComplete(told) THEN AfterGroup(told, exceeded) ELSE told
  BY Zenon DEF AfterAnswers
<1>3. ASSUME NEW h, h \notin hosts, Asked(requests, s, h, j.retries)
      PROVE  Asked(requests', s, h, j.retries)
  <2>1. PICK q \in requests : /\ q.by = s /\ q.host = h /\ q.retry = j.retries
                              /\ q.stage \in {"inflight", "refused"}
    BY <1>3 DEF Asked
  <2>2. q \notin answered
    BY <1>3, <2>1
  <2> QED BY <2>1, <2>2 DEF Asked
<1>4. CASE j.stage # "group" \/ hosts = {}
  <2>1. k = j
    BY <1>2, <1>4
  <2>2. \A h \in j.group \ (j.ok \union j.failed) :
          j.stage = "group" /\ Asked(requests, s, h, j.retries) => Asked(requests', s, h, j.retries)
    BY <1>3, <1>4
  <2> QED BY <2>1, <2>2, WaitsOn
<1>5. CASE j.stage = "group" /\ hosts # {}
  <2>1. hosts \subseteq Hosts
    BY <1>1 DEF RequestTyped
  <2> HIDE DEF hosts
  <2>2. /\ told \in JoinTyped /\ told.stage = "group" /\ told.retries = j.retries
        /\ told.group = j.group /\ told.size = j.size /\ told.numJoined = j.numJoined
        /\ told.ok \union told.failed = (j.ok \union j.failed) \union hosts
    BY <1>1, <1>5, <2>1 DEF JoinTyped
  <2> HIDE DEF told
  <2>3. told.numJoined < told.size
    BY <1>5, <2>2 DEF Waits
  <2>4. CASE ~GroupComplete(told) /\ k = told
    <3>1. \A h \in told.group \ (told.ok \union told.failed) : Asked(requests', s, h, told.retries)
      BY <1>3, <1>5, <2>2 DEF Waits
    <3>2. ~GroupComplete(told)
      BY <2>4 DEF GroupComplete
    <3>3. Starved(told) => Starved(j)
      BY <1>5, <2>2 DEF Starved
    <3> QED BY <2>2, <2>3, <2>4, <3>1, <3>2, <3>3 DEF Waits
  <2>5. CASE k = AfterGroup(told, exceeded)
    <3> DEFINE heard == [told EXCEPT !.joined = @ \union told.ok,
                                     !.numJoined = @ + Cardinality(told.ok)]
    <3>1. k = IF destroyed THEN Ended(told, "error")
              ELSE IF heard.numJoined >= told.size THEN Ended(heard, "ok")
              ELSE IF exceeded \/ told.retries = MaxRetries THEN Ended(heard, "error")
              ELSE [heard EXCEPT !.stage = "delay"]
      BY <2>5, Zenon DEF AfterGroup, heard
    <3>2. Cardinality(told.ok) \in Nat /\ told.numJoined \in Nat /\ told.size \in Nat
      BY <2>2, HostSets DEF JoinTyped
    <3>3. heard.size = told.size
      BY <2>2 DEF JoinTyped
    <3>4. heard \in JoinTyped
      <4>1. told.joined \union told.ok \in SUBSET Hosts /\ told.numJoined + Cardinality(told.ok) \in Nat
        BY <2>2, <3>2 DEF JoinTyped
      <4>2. heard = [[told EXCEPT !.joined = told.joined \union told.ok]
                       EXCEPT !.numJoined = told.numJoined + Cardinality(told.ok)]
        BY <2>2 DEF JoinTyped
      <4> HIDE DEF heard
      <4> QED BY <2>2, <4>1, <4>2 DEF JoinTyped
    <3> HIDE DEF heard
    <3>5. ASSUME NEW i, NEW outcome, k = Ended(i, outcome)
          PROVE  Waits(requests', s, k) /\ ~Starved(k)
      <4>1. k.stage = "done"
        BY <3>5 DEF Ended, NoJoin
      <4> QED BY <4>1 DEF Waits, Starved
    <3>6. CASE ~(heard.numJoined >= told.size) /\ k = [heard EXCEPT !.stage = "delay"]
      <4>1. /\ k.stage = "delay" /\ k.size = heard.size
            /\ k.numJoined = heard.numJoined
        BY <3>4, <3>6 DEF JoinTyped
      <4>2. k.numJoined < k.size
        BY <3>2, <3>3, <3>4, <3>6, <4>1 DEF JoinTyped
      <4> QED BY <4>1, <4>2 DEF Waits, Starved
    <3> QED BY <3>1, <3>5, <3>6
  <2> QED BY <1>2, <1>5, <2>4, <2>5
<1> QED BY <1>4, <1>5

\* Answers leave the others to wait for, the self eviction included.
LEMMA AnswerWaits ==
  ASSUME WInv, NEW answered, answered \subseteq requests,
         \A q \in answered : q.stage \in {"inflight", "refused"},
         NEW ok \in BOOLEAN, Answer(answered, ok), Pinged(answered),
         requests \ answered \subseteq requests'
  PROVE  /\ \A s \in Joins : /\ Waits(requests', s, joins'[s])
                             /\ Starved(joins'[s]) => Starved(joins[s])
         /\ EvictionWaits'
<1>1. PICK exceeded :
        joins' = [s \in Joins |-> AfterAnswers(s, answered, ok, s \in exceeded)]
  BY DEF Answer
<1>2. ASSUME NEW s \in Joins
      PROVE  Waits(requests', s, joins'[s]) /\ (Starved(joins'[s]) => Starved(joins[s]))
  <2>1. joins'[s] = AfterAnswers(s, answered, ok, s \in exceeded)
    BY <1>1
  <2>2. JInv /\ Waits(requests, s, joins[s])
    BY DEF WInv, LInv, IInv
  <2> QED BY <2>1, <2>2, AfterAnswersWaits
<1>3. ASSUME NEW h \in evict'.pings PROVE Asked(requests', Evictor, h, 0)
  <2>1. evict'.pings \subseteq
          evict.pings \ {q.host : q \in {a \in answered : a.by = Evictor}}
    BY DEF Pinged
  <2>2. PICK q \in requests : /\ q.by = Evictor /\ q.host = h /\ q.retry = 0
                              /\ q.stage \in {"inflight", "refused"}
    BY <1>3, <2>1 DEF WInv, EvictionWaits, Asked
  <2>3. q \notin answered
    BY <1>3, <2>1, <2>2
  <2> QED BY <2>2, <2>3 DEF Asked
<1> QED BY <1>2, <1>3 DEF EvictionWaits

\* The process begins without anybody who waits.
LEMMA InitWInv == Init => WInv
<1> SUFFICES ASSUME Init PROVE WInv
  OBVIOUS
<1>1. \A s \in Joins : joins[s].stage = "none"
  BY DEF Init, NoJoin
<1>2. EvictionWaits
  BY DEF Init, EvictionWaits
<1> QED BY <1>1, <1>2, InitLInv DEF WInv, Waits

\* Whatever the process does, the client still has the requests that joins
\* and the self eviction wait for; a join is starved only for want of hosts.
LEMMA NextWInv ==
  WInv /\ [Next \/ Reload]_vars =>
    /\ WInv'
    /\ \A s \in Joins : Starved(joins'[s]) /\ ~Starved(joins[s]) =>
         Cardinality(bootstrapHosts') < joins'[s].size
<1> SUFFICES ASSUME WInv, [Next \/ Reload]_vars
             PROVE  /\ WInv'
                    /\ \A s \in Joins : Starved(joins'[s]) /\ ~Starved(joins[s]) =>
                         Cardinality(bootstrapHosts') < joins'[s].size
  OBVIOUS
<1> DEFINE WaitsNext(s) ==
             /\ Waits(requests', s, joins'[s])
             /\ Starved(joins'[s]) =>
                  Starved(joins[s]) \/ Cardinality(bootstrapHosts') < joins'[s].size
           Waiting == (\A s \in Joins : WaitsNext(s)) /\ EvictionWaits'
<1>t. /\ JInv /\ joins \in [Joins -> JoinTyped] /\ bootstrapHosts \in SUBSET Hosts
      /\ \A s \in Joins : JoinSane(joins[s]) /\ Waits(requests, s, joins[s])
      /\ EvictionWaits /\ ProcessTyped
  BY DEF WInv, LInv, IInv, JInv, Typed
\* Requests that were asked are asked still.
<1>asked. ASSUME NEW by, NEW h, NEW retry, Asked(requests, by, h, retry),
                 \A q \in requests : q.stage \in {"inflight", "refused"} => q \in requests'
          PROVE  Asked(requests', by, h, retry)
  BY <1>asked DEF Asked
<1>waits. ASSUME NEW s \in Joins, joins'[s] = joins[s],
                 \A q \in requests : q.stage \in {"inflight", "refused"} => q \in requests'
          PROVE  WaitsNext(s)
  BY <1>t, <1>asked, <1>waits, WaitsOn
\* One join changes, to a stage in which it waits for no answers.
<1>one. ASSUME NEW s \in Joins, NEW k, k.stage \notin {"group", "delay"},
               joins' = [joins EXCEPT ![s] = k], UNCHANGED <<requests, evict>>
        PROVE  Waiting
  <2>1. WaitsNext(s)
    BY <1>t, <1>one DEF Waits, Starved
  <2>2. \A r \in Joins \ {s} : WaitsNext(r)
    BY <1>t, <1>one, <1>waits
  <2>3. EvictionWaits'
    BY <1>t, <1>one DEF EvictionWaits
  <2> QED BY <2>1, <2>2, <2>3
\* One join asks a group.
<1>group. ASSUME NEW s \in Joins, NEW hosts \in SUBSET Hosts, bootstrapHosts' = hosts,
                 NEW j \in JoinTyped, j.numJoined = Cardinality(j.joined),
                 j.numJoined < j.size, JoinGroup(s, hosts, j), UNCHANGED evict
          PROVE  Waiting
  <2>1. /\ WaitsNext(s) /\ requests \subseteq requests'
        /\ \A r \in Joins \ {s} : joins'[r] = joins[r]
    BY <1>t, <1>group, JoinGroupWaits
  <2>2. \A r \in Joins \ {s} : WaitsNext(r)
    BY <2>1, <1>waits
  <2>3. EvictionWaits'
    BY <1>t, <1>group, <2>1, <1>asked DEF EvictionWaits
  <2> QED BY <2>1, <2>2, <2>3
<1>start. ASSUME NEW s \in Joins, NEW hosts \in SUBSET Hosts, bootstrapHosts' = hosts,
                 NEW kind \in {"bootstrap", "admin"}, StartJoin(s, hosts, kind),
                 UNCHANGED evict
          PROVE  Waiting
  <2> DEFINE size == Min({JoinSize, Cardinality(hosts)})
             j == [NoJoin EXCEPT !.kind = kind, !.size = size]
  <2>1. size \in Nat
    BY HostSets, MinOfTwo, SizesAssumption
  <2>2. hosts # {} => size > 0
    <3>1. ASSUME hosts # {} PROVE size > 0
      <4>1. Cardinality(hosts) \in Nat /\ Cardinality(hosts) # 0
        BY <3>1, HostSets, FS_EmptySet
      <4>2. \E x \in {JoinSize, Cardinality(hosts)} :
              \A y \in {JoinSize, Cardinality(hosts)} : x <= y
        BY <4>1, SizesAssumption
      <4>3. size \in {JoinSize, Cardinality(hosts)}
        BY <4>2 DEF Min
      <4> QED BY <4>1, <4>3, SizesAssumption
    <3> QED BY <3>1
  <2> HIDE DEF size
  <2>3. j \in JoinTyped /\ j.size = size /\ j.numJoined = 0 /\ j.joined = {}
    BY <2>1, NoJoinSane DEF NoJoin, JoinTyped
  <2> HIDE DEF j
  <2>4. CASE hosts # {} /\ JoinGroup(s, hosts, j)
    <3>1. j.numJoined = Cardinality(j.joined) /\ j.numJoined < j.size
      BY <2>1, <2>2, <2>3, <2>4, HostSets
    <3> QED BY <1>start, <1>group, <2>3, <2>4, <3>1
  <2>5. ASSUME NEW outcome,
               joins' = [joins EXCEPT ![s] = [j EXCEPT !.stage = "returning", !.outcome = outcome]],
               UNCHANGED requests
        PROVE  Waiting
    <3> DEFINE k == [j EXCEPT !.stage = "returning", !.outcome = outcome]
    <3>1. k.stage = "returning"
      BY <2>3 DEF JoinTyped
    <3>2. joins' = [joins EXCEPT ![s] = k]
      BY <2>5
    <3> HIDE DEF k
    <3> QED BY <1>start, <1>one, <2>5, <3>1, <3>2
  <2> QED BY <1>start, <2>4, <2>5 DEF StartJoin, j, size
<1>answer. ASSUME NEW answered, answered \subseteq requests,
                  \A q \in answered : q.stage \in {"inflight", "refused"},
                  NEW ok \in BOOLEAN, Answer(answered, ok), Pinged(answered),
                  requests \ answered \subseteq requests'
           PROVE  Waiting
  BY <1>answer, AnswerWaits
<1>bootstrap. ASSUME NEW s \in Joins, Bootstrap(s) PROVE Waiting
  <2> DEFINE k == [joins[s] EXCEPT !.stage = "discovering"]
  <2>1. joins' = [joins EXCEPT ![s] = k] /\ UNCHANGED <<requests, evict>>
    BY <1>bootstrap DEF Bootstrap
  <2>2. k.stage = "discovering"
    BY <1>t DEF JoinTyped
  <2> HIDE DEF k
  <2> QED BY <1>one, <2>1, <2>2
<1>discovered. ASSUME NEW s \in Joins, Discovered(s) PROVE Waiting
  <2>1. UNCHANGED evict
    BY <1>discovered DEF Discovered
  <2>2. ASSUME NEW hosts \in SUBSET Hosts, bootstrapHosts' = hosts,
               StartJoin(s, hosts, "bootstrap")
        PROVE  Waiting
    BY <1>start, <2>1, <2>2
  <2>3. CASE joins' = [joins EXCEPT ![s] = Ended(@, "error")] /\ UNCHANGED requests
    <3>1. Ended(joins[s], "error").stage = "done"
      BY DEF Ended, NoJoin
    <3>2. joins' = [joins EXCEPT ![s] = Ended(joins[s], "error")]
      BY <2>3
    <3> QED BY <1>one, <2>1, <2>3, <3>1, <3>2
  <2> QED BY <1>discovered, <2>2, <2>3 DEF Discovered
<1>admin. ASSUME NEW s \in Joins, AdminJoin(s) PROVE Waiting
  <2>1. bootstrapHosts' = bootstrapHosts /\ UNCHANGED evict /\ StartJoin(s, bootstrapHosts, "admin")
    BY <1>admin DEF AdminJoin, list
  <2> QED BY <1>t, <1>start, <2>1
<1>retry. ASSUME NEW s \in Joins, Retry(s), UNCHANGED <<evict, bootstrapHosts>>
          PROVE  Waiting
  <2> DEFINE j == [joins[s] EXCEPT !.retries = @ + 1]
  <2>1. joins[s].stage = "delay" /\ JoinGroup(s, bootstrapHosts, j)
    BY <1>retry DEF Retry
  <2>2. /\ j \in JoinTyped /\ j.size = joins[s].size
        /\ j.numJoined = joins[s].numJoined /\ j.joined = joins[s].joined
    BY <1>t, <2>1 DEF JoinTyped
  <2> HIDE DEF j
  <2>3. j.numJoined = Cardinality(j.joined) /\ j.numJoined < j.size
    BY <1>t, <2>1, <2>2 DEF Waits, JoinSane, Counted
  <2>4. bootstrapHosts' = bootstrapHosts /\ UNCHANGED evict
    BY <1>retry
  <2> QED BY <1>t, <1>group, <2>1, <2>2, <2>3, <2>4
<1>return. ASSUME NEW s \in Joins, Return(s), UNCHANGED evict PROVE Waiting
  <2>1. Ended(joins[s], joins[s].outcome).stage = "done"
    BY DEF Ended, NoJoin
  <2>2. joins' = [joins EXCEPT ![s] = Ended(joins[s], joins[s].outcome)] /\ UNCHANGED requests
    BY <1>return DEF Return
  <2> QED BY <1>return, <1>one, <2>1, <2>2
<1>completion. ASSUME Completion \/ Refusal PROVE Waiting
  <2>1. PICK q \in requests, ok \in BOOLEAN :
          /\ q.stage \in {"inflight", "refused"}
          /\ requests' = requests \ {q} /\ Answer({q}, ok) /\ Pinged({q})
    BY <1>completion DEF Completion, Refusal, Complete, Refuse
  <2> QED BY <1>answer, <2>1
<1>late. ASSUME LateCompletion PROVE Waiting
  <2>1. PICK q \in requests : /\ q.stage = "canceled" /\ requests' = requests \ {q}
                              /\ UNCHANGED <<joins, evict>>
    BY <1>late DEF LateCompletion, CompleteCanceled
  <2>2. \A p \in requests : p.stage \in {"inflight", "refused"} => p \in requests'
    BY <2>1
  <2>3. \A s \in Joins : WaitsNext(s)
    BY <1>waits, <2>1, <2>2
  <2> QED BY <1>t, <1>asked, <2>1, <2>2, <2>3 DEF EvictionWaits
<1>wedged. ASSUME WedgedTimer PROVE Waiting
  <2>1. PICK overdue \in SUBSET InStage("inflight") : Scan(overdue) /\ Pinged(overdue)
    BY <1>wedged DEF WedgedTimer
  <2>2. overdue \subseteq requests /\ \A q \in overdue : q.stage = "inflight"
    BY DEF InStage
  <2>3. Answer(overdue, FALSE) /\ requests \ overdue \subseteq requests'
    BY <2>1 DEF Scan, Cancel
  <2> QED BY <1>answer, <2>1, <2>2, <2>3
<1>evict. ASSUME Evict PROVE Waiting
  <2>1. PICK members \in SUBSET Hosts :
          /\ Send(Evictor, members, 0)
          /\ evict' = [evict EXCEPT !.phase = "evicting", !.pings = members]
          /\ UNCHANGED joins
    BY <1>evict DEF Evict
  <2>2. requests \subseteq requests' /\ \A h \in members : Asked(requests', Evictor, h, 0)
    BY <2>1, SendAsks
  <2>3. \A s \in Joins : WaitsNext(s)
    BY <1>waits, <2>1, <2>2
  <2>4. evict'.pings \subseteq members
    BY <1>t, <2>1 DEF ProcessTyped
  <2> QED BY <2>2, <2>3, <2>4 DEF EvictionWaits
<1>quiet. ASSUME \/ Rejoin \/ Leave \/ Destroy \/ SelfEvict \/ HookDone \/ PostEvict \/ Done
                 \/ Reload \/ UNCHANGED vars
          PROVE  Waiting
  <2>1. UNCHANGED <<joins, requests>>
    BY <1>quiet DEF Rejoin, Leave, Destroy, SelfEvict, HookDone, PostEvict, Done, Reload, vars
  <2>2. evict'.pings \subseteq evict.pings
    BY <1>t, <1>quiet
    DEF ProcessTyped, Rejoin, Leave, Destroy, SelfEvict, HookDone, PostEvict, Done, Reload, vars
  <2>3. \A s \in Joins : WaitsNext(s)
    BY <1>waits, <2>1
  <2> QED BY <1>t, <2>1, <2>2, <2>3 DEF EvictionWaits
<1>waiting. Waiting
  BY <1>bootstrap, <1>discovered, <1>admin, <1>retry, <1>return, <1>completion, <1>late,
     <1>wedged, <1>evict, <1>quiet DEF Next, JoinTimer, EvictStep, list
<1>linv. LInv'
  BY NextLInv DEF WInv
<1> QED BY <1>waiting, <1>linv DEF WInv

\* In every reachable state, whether the list of hosts is reloaded or not; and
\* every step is one in which joins starve only for want of hosts.
LEMMA EverybodyWaits ==
  Init /\ [][Next \/ Reload]_vars =>
    /\ []WInv
    /\ [][\A s \in Joins : Starved(joins'[s]) /\ ~Starved(joins[s]) =>
            Cardinality(bootstrapHosts') < joins'[s].size]_vars
<1> DEFINE Fed == \A s \in Joins : Starved(joins'[s]) /\ ~Starved(joins[s]) =>
                    Cardinality(bootstrapHosts') < joins'[s].size
<1>1. WInv /\ [Next \/ Reload]_vars => WInv'
  BY NextWInv
<1>2. WInv /\ [Next \/ Reload]_vars => [Fed]_vars
  BY NextWInv
<1> HIDE DEF Fed
<1>3. Init /\ [][Next \/ Reload]_vars => []WInv /\ [][Fed]_vars
  BY <1>1, <1>2, InitWInv, PTL
<1> QED BY <1>3 DEF Fed

\* The client has yet to answer a request that the present group of this join
\* waits for.
WaitsForAnswer(s) ==
  \E q \in requests :
    /\ q.by = s /\ q.retry = joins[s].retries
    /\ q.stage \in {"inflight", "refused"}
    /\ q.host \in joins[s].group \ (joins[s].ok \union joins[s].failed)

\* A group that asked somebody is complete when nobody is left to answer.
LEMMA FedJoinsWait ==
  ASSUME WInv, NEW s \in Joins, joins[s].stage = "group", ~Starved(joins[s])
  PROVE  WaitsForAnswer(s)
<1> DEFINE j == joins[s]
<1>1. j \in JoinTyped /\ JoinSane(j) /\ Waits(requests, s, j)
  BY DEF WInv, LInv, IInv, JInv, Typed
<1>2. j.stage = "group" /\ ~Starved(j)
  OBVIOUS
<1> HIDE DEF j
<1>3. /\ j.ok \in SUBSET Hosts /\ j.failed \in SUBSET Hosts /\ j.group \in SUBSET Hosts
      /\ j.ok \union j.failed \in SUBSET Hosts
  BY <1>1 DEF JoinTyped
<1>4. j.ok \intersect j.failed = {}
  BY <1>1 DEF JoinSane
<1>5. Cardinality(j.ok \union j.failed) < Cardinality(j.group)
  BY <1>1, <1>2, <1>3, <1>4, HostSets DEF Waits, GroupComplete
<1>6. ~(j.group \subseteq j.ok \union j.failed)
  <2>1. ASSUME j.group \subseteq j.ok \union j.failed PROVE FALSE
    <3>1. Cardinality(j.group) <= Cardinality(j.ok \union j.failed)
      BY <1>3, <2>1, HostSets, FS_Subset
    <3> QED BY <1>3, <1>5, <3>1, HostSets
  <2> QED BY <2>1
<1>7. PICK h \in j.group \ (j.ok \union j.failed) : Asked(requests, s, h, j.retries)
  BY <1>1, <1>2, <1>6 DEF Waits
<1> QED BY <1>7 DEF Asked, WaitsForAnswer, j

\* A join comes to hang in one way only, whoever reloads the list of hosts and
\* however bootstrap()s overlap: by asking a group without hosts, when the
\* list that is in place by then is shorter than what the join was to join.
\* While it waits for a group that asked somebody, the client has yet to
\* answer one of its requests, whatever was refused, canceled or came late
\* (join(), selectGroup() and joinGroup() in lib/gossip/joiner.js, client.js,
\* index.js:323).
THEOREM JoinsHangForWantOfHosts ==
  Spec \/ ReloadSpec =>
    /\ [](\A s \in Joins :
            joins[s].stage = "group" => joins[s].group = {} \/ WaitsForAnswer(s))
    /\ [][\A s \in Joins : Starved(joins'[s]) /\ ~Starved(joins[s]) =>
            Cardinality(bootstrapHosts') < joins'[s].size]_vars
<1> DEFINE Fed == \A s \in Joins : Starved(joins'[s]) /\ ~Starved(joins[s]) =>
                    Cardinality(bootstrapHosts') < joins'[s].size
           Answered == \A s \in Joins :
             joins[s].stage = "group" => joins[s].group = {} \/ WaitsForAnswer(s)
<1>1. WInv => Answered
  BY FedJoinsWait DEF Starved
<1>2. [Next]_vars => [Next \/ Reload]_vars
  OBVIOUS
<1>3. Init /\ [][Next \/ Reload]_vars => []WInv /\ [][Fed]_vars
  BY EverybodyWaits
<1> HIDE DEF Fed, Answered
<1>4. Spec \/ ReloadSpec => []Answered /\ [][Fed]_vars
  BY <1>1, <1>2, <1>3, PTL DEF Spec, ReloadSpec
<1> QED BY <1>4 DEF Fed, Answered

\* So no join hangs as long as the list of hosts has as many hosts as each join
\* under way was to join: while a group is not complete, the client has yet to
\* answer a request of it. This is JoinEndsIfHostsSuffice without fairness.
THEOREM JoinsWaitForAnswers ==
  Spec \/ ReloadSpec =>
    ([]HostsSuffice => [](\A s \in Joins : joins[s].stage = "group" => WaitsForAnswer(s)))
<1> DEFINE Fed == \A s \in Joins : Starved(joins'[s]) /\ ~Starved(joins[s]) =>
                    Cardinality(bootstrapHosts') < joins'[s].size
           Nobody == \A s \in Joins : ~Starved(joins[s])
           Answered == \A s \in Joins : joins[s].stage = "group" => WaitsForAnswer(s)
<1>1. WInv /\ Nobody => Answered
  BY FedJoinsWait
<1>2. Init => Nobody
  BY DEF Init, NoJoin, Starved
<1>3. Nobody /\ [Fed]_vars /\ HostsSuffice' /\ WInv' => Nobody'
  <2> SUFFICES ASSUME Nobody, [Fed]_vars, HostsSuffice', WInv' PROVE Nobody'
    OBVIOUS
  <2>1. CASE UNCHANGED vars
    BY <2>1 DEF vars
  <2>2. ASSUME Fed, NEW s \in Joins, Starved(joins'[s]) PROVE FALSE
    <3>1. Cardinality(bootstrapHosts') < joins'[s].size
      BY <2>2
    <3>2. joins'[s].size <= Cardinality(bootstrapHosts')
      BY <2>2 DEF HostsSuffice, Starved
    <3>3. joins'[s].size \in Nat /\ Cardinality(bootstrapHosts') \in Nat
      BY HostSets DEF WInv, LInv, IInv, JInv, Typed, JoinTyped
    <3> QED BY <3>1, <3>2, <3>3
  <2> QED BY <2>1, <2>2
<1>4. [Next]_vars => [Next \/ Reload]_vars
  OBVIOUS
<1>5. Init /\ [][Next \/ Reload]_vars => []WInv /\ [][Fed]_vars
  BY EverybodyWaits
<1> HIDE DEF Fed, Nobody, Answered
<1>6. Spec \/ ReloadSpec => ([]HostsSuffice => []Answered)
  BY <1>1, <1>2, <1>3, <1>4, <1>5, PTL DEF Spec, ReloadSpec
<1> QED BY <1>6 DEF Answered

\* Nor does a self eviction hang: the client has yet to answer each of the
\* pings it waits for, also when the process is destroyed meanwhile (_evict in
\* lib/self-evict.js, client.js).
THEOREM EvictionWaitsForAnswers ==
  Spec => [](\A h \in evict.pings :
               \E q \in requests : /\ q.by = Evictor /\ q.host = h
                                   /\ q.stage \in {"inflight", "refused"})
<1>1. WInv => \A h \in evict.pings :
        \E q \in requests : /\ q.by = Evictor /\ q.host = h
                            /\ q.stage \in {"inflight", "refused"}
  BY DEF WInv, EvictionWaits, Asked
<1>2. [Next]_vars => [Next \/ Reload]_vars
  OBVIOUS
<1> QED BY <1>1, <1>2, EverybodyWaits, PTL DEF Spec
=============================================================================
