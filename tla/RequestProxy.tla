---------------------------- MODULE RequestProxy ----------------------------
(***************************************************************************)
(* Forwarding of requests (lib/request-proxy/index.js, send.js). A request *)
(* that reaches a node is sent to the node that owns its keys on the hash  *)
(* ring, and sent again, to whoever owns them by then, when that fails.    *)
(* Meanwhile the rings of the nodes change, each by itself.                *)
(*                                                                         *)
(* A hash ring is the set of its servers, each at one point: the nodes and *)
(* the keys are their points, and a key belongs to the first server at or  *)
(* after it. Checksums are equal when the sets are.                        *)
(***************************************************************************)
EXTENDS Integers, FiniteSets, FiniteSetsExt

CONSTANTS
  Nodes,                  \* the nodes, as their points on the ring
  Keys,                   \* the keys, as their points on the ring
  Requests,
  EnforceConsistency,     \* enforceConsistency, true by default
  EnforceKeyConsistency,  \* enforceKeyConsistency, false by default
  MaxInflight,            \* maxInflightRequests
  MaxRetries,             \* maxRetries
  MaxChanges,             \* bound: changes of rings
  MaxDestroyed            \* bound: nodes that are destroyed

ASSUME PointsAssumption == Nodes \subseteq Nat \ {0} /\ Keys \subseteq Nat
ASSUME RequestsAssumption == IsFiniteSet(Requests)
ASSUME LimitsAssumption ==
  /\ MaxInflight \in Nat \ {0} /\ MaxRetries \in Nat
  /\ MaxChanges \in Nat /\ MaxDestroyed \in Nat
ASSUME OptionsAssumption ==
  /\ EnforceConsistency \in BOOLEAN /\ EnforceKeyConsistency \in BOOLEAN

VARIABLES
  ring,           \* ring[n]: the servers on n's hash ring
  changes,        \* how many changes of rings there were
  backpressure,   \* backpressureEnabled, which can be set at any time
  destroyed,      \* the nodes that were destroyed
  inflight,       \* numInflightRequests of n
  miscounted,     \* n has counted requestProxy.miscount.increment
  send,           \* what has become of a request at the node it reached
  calls,          \* forwarded requests: under way, handled, answered
  served          \* who let which attempt in, and what its ring was then

vars == <<ring, changes, backpressure, destroyed, inflight, miscounted, send,
          calls, served>>

\* What a request goes through at the node that proxies it: its body is read,
\* a connection is made, it is sent, it waits for the next attempt, or the
\* node handles it itself. A dropped one had its retry timer cleared.
InProgress == {"body", "connecting", "sent", "waiting", "local"}

Init ==
  /\ ring = [n \in Nodes |-> Nodes]
  /\ changes = 0
  /\ backpressure \in BOOLEAN
  /\ destroyed = {}
  /\ inflight = [n \in Nodes |-> 0]
  /\ miscounted = [n \in Nodes |-> FALSE]
  /\ send = [r \in Requests |->
       [stage |-> "new", at |-> 0, keys |-> {}, pinned |-> FALSE,
        dest |-> 0, to |-> 0, retries |-> 0]]
  /\ calls = {}
  /\ served = {}

-----------------------------------------------------------------------------
(***************************************************************************)
(* Lookups and counters.                                                   *)
(***************************************************************************)

\* HashRing.lookup on a ring that is not empty.
Owner(servers, k) ==
  LET after == {s \in servers : s >= k} IN
    IF after # {} THEN Min(after) ELSE Min(servers)

\* ringpop.lookup(k) on n: the local address when the ring is empty.
Lookup(n, k) == IF ring[n] = {} THEN n ELSE Owner(ring[n], k)

Owners(n, keys) == {Lookup(n, k) : k \in keys}

\* Mutant: the counter is not held to its maximum.
IncrementedOver(count) == count + 1

\* _incrementInflightRequests, _decrementInflightRequests.
Incremented(count) == IF count + 1 > MaxInflight THEN MaxInflight ELSE count + 1
Decremented(count) == IF count = 0 THEN 0 ELSE count - 1

CountUp(n) ==
  /\ inflight' = [inflight EXCEPT ![n] = Incremented(@)]
  /\ miscounted' = [miscounted EXCEPT ![n] = @ \/ inflight[n] + 1 > MaxInflight]

\* _shouldRespondWithTooManyReqs: too many are in flight; or the event loop
\* lags, which may be so at any time.
MayRefuse == backpressure
MustRefuse(n) == backpressure /\ inflight[n] + 1 > MaxInflight

-----------------------------------------------------------------------------
(***************************************************************************)
(* At the node a request reaches.                                          *)
(***************************************************************************)

Goes(r, stage) == send' = [send EXCEPT ![r].stage = stage]

\* onProxy: the request is no longer in flight, and is answered.
Finish(r) ==
  /\ Goes(r, "answered")
  /\ inflight' = [inflight EXCEPT ![send[r].at] = Decremented(@)]
  /\ UNCHANGED miscounted

\* Mutant: an attempt does not count.
SendToUncounted(r, d, retries) ==
  IF send[r].at \in destroyed
  THEN Finish(r)
  ELSE /\ send' = [send EXCEPT ![r].stage = "connecting", ![r].to = d]
       /\ UNCHANGED <<inflight, miscounted>>

\* RequestProxySend.send(): fails at once if the channel is gone.
SendTo(r, d, retries) ==
  IF send[r].at \in destroyed
  THEN Finish(r)
  ELSE /\ send' = [send EXCEPT ![r].stage = "connecting", ![r].to = d,
                               ![r].retries = retries]
       /\ UNCHANGED <<inflight, miscounted>>

\* handleOrProxy, handleOrProxyAll: keys that another node owns are proxied
\* to it, unless this one has too much to do. A pinned request has the option
\* skipLookupOnRetry.
ProxyReq(r, n) ==
  /\ send[r].stage = "new"
  /\ \E keys \in (SUBSET Keys) \ {{}} : \E d \in Nodes \ {n}, pinned \in BOOLEAN :
       /\ Owners(n, keys) = {d}
       /\ \/ /\ MayRefuse
             /\ send' = [send EXCEPT ![r].stage = "answered", ![r].at = n]
             /\ UNCHANGED <<inflight, miscounted>>
          \/ /\ ~MustRefuse(n)
             /\ send' = [send EXCEPT ![r].stage = "body", ![r].at = n,
                                     ![r].keys = keys, ![r].dest = d,
                                     ![r].pinned = pinned]
             /\ CountUp(n)
  /\ UNCHANGED <<ring, changes, backpressure, destroyed, calls, served>>

\* Mutant: a malformed body is answered but stays counted.
BodyReadUncounted(r) ==
  /\ send[r].stage = "body"
  /\ \/ SendTo(r, send[r].dest, 0)
     \/ Goes(r, "answered") /\ UNCHANGED <<inflight, miscounted>>
  /\ UNCHANGED <<ring, changes, backpressure, destroyed, calls, served>>

\* onBody: the body was read, or is malformed.
BodyRead(r) ==
  /\ send[r].stage = "body"
  /\ SendTo(r, send[r].dest, 0) \/ Finish(r)
  /\ UNCHANGED <<ring, changes, backpressure, destroyed, calls, served>>

\* The connection is there: the request leaves with the checksum of the ring
\* as it is now. Or it fails; then nothing is retried.
Connected(r) ==
  /\ send[r].stage = "connecting"
  /\ \/ /\ send[r].at \notin destroyed
        /\ Goes(r, "sent")
        /\ calls' = calls \union
             {[req |-> r, try |-> send[r].retries, to |-> send[r].to,
               checksum |-> ring[send[r].at], stage |-> "request", ok |-> FALSE]}
        /\ UNCHANGED <<inflight, miscounted>>
     \/ Finish(r) /\ UNCHANGED calls
  /\ UNCHANGED <<ring, changes, backpressure, destroyed, served>>

\* onSend with an error: give up, or wait for the next attempt. A retry is
\* scheduled on a destroyed node, too.
Failed(r) ==
  IF send[r].retries >= MaxRetries
  THEN Finish(r)
  ELSE Goes(r, "waiting") /\ UNCHANGED <<inflight, miscounted>>

\* The call that the send is waiting for; none is once the channel is closed.
Awaited(r, c) ==
  /\ send[r].stage = "sent" /\ send[r].at \notin destroyed
  /\ c.req = r /\ c.try = send[r].retries

Answered(r) ==
  \E c \in calls :
    /\ Awaited(r, c) /\ c.stage = "answer"
    /\ calls' = calls \ {c}
    /\ IF c.ok THEN Finish(r) ELSE Failed(r)
    /\ UNCHANGED <<ring, changes, backpressure, destroyed, served>>

\* No answer in time, though the request may be handled yet; or the channel
\* was closed.
TimedOut(r) ==
  /\ send[r].stage = "sent"
  /\ Failed(r)
  /\ UNCHANGED <<ring, changes, backpressure, destroyed, calls, served>>

\* rerouteRetry to this node itself, by handleRequest. It counts once more,
\* as ingress; too many requests are an answer like any other.
HandleLocally(r, n) ==
  \/ /\ MayRefuse
     /\ Finish(r) /\ UNCHANGED served
  \/ /\ ~MustRefuse(n)
     /\ send' = [send EXCEPT ![r].stage = "local", ![r].retries = @ + 1]
     /\ CountUp(n)
     /\ served' = served \union
          {[req |-> r, try |-> send[r].retries + 1, by |-> n, ring |-> ring[n]]}

\* Mutant: diverged keys are not answered for.
DivergedSilently(r) == Goes(r, "waiting") /\ UNCHANGED <<inflight, miscounted>>

\* abortOnKeyDivergence.
Diverged(r) == Finish(r)

\* attemptRetry: look the keys up again.
AttemptRetry(r) ==
  LET n == send[r].at
      dests == IF send[r].pinned THEN {send[r].dest} ELSE Owners(n, send[r].keys)
  IN
    /\ send[r].stage = "waiting"
    /\ \/ Cardinality(dests) > 1 /\ Diverged(r) /\ UNCHANGED served
       \/ dests = {n} /\ HandleLocally(r, n)
       \/ \E d \in Nodes \ {n} :
            dests = {d} /\ SendTo(r, d, send[r].retries + 1) /\ UNCHANGED served
    /\ UNCHANGED <<ring, changes, backpressure, destroyed, calls>>

\* The application has answered the request that was rerouted to this node.
\* It was counted twice.
LocalDone(r) ==
  /\ send[r].stage = "local"
  /\ Goes(r, "answered")
  /\ inflight' = [inflight EXCEPT ![send[r].at] = Decremented(Decremented(@))]
  /\ UNCHANGED <<ring, changes, backpressure, destroyed, miscounted, calls, served>>

-----------------------------------------------------------------------------
(***************************************************************************)
(* At the node it is sent to.                                              *)
(***************************************************************************)

\* Mutant: nobody asks whose keys these are.
InvalidIgnoringKeys(c) == EnforceConsistency /\ c.checksum # ring[c.to]

\* The checks of handleRequest that are enforced.
Invalid(c) ==
  \/ EnforceConsistency /\ c.checksum # ring[c.to]
  \/ EnforceKeyConsistency /\ Owners(c.to, send[c.req].keys) # {c.to}

\* An answer nobody waits for any more is dropped.
Reply(c, ok) ==
  calls' = (calls \ {c}) \union
    (IF Awaited(c.req, c) /\ c.to \notin destroyed
     THEN {[c EXCEPT !.stage = "answer", !.ok = ok]} ELSE {})

\* handleRequest: refuse the request as invalid, answer that there are too
\* many, or hand it to the application.
HandleRequest(c) ==
  /\ c.stage = "request" /\ c.to \notin destroyed
  /\ \/ /\ Invalid(c)
        /\ Reply(c, FALSE)
        /\ UNCHANGED <<inflight, miscounted, served>>
     \/ /\ ~Invalid(c) /\ MayRefuse
        /\ Reply(c, TRUE)
        /\ UNCHANGED <<inflight, miscounted, served>>
     \/ /\ ~Invalid(c) /\ ~MustRefuse(c.to)
        /\ calls' = (calls \ {c}) \union {[c EXCEPT !.stage = "handling"]}
        /\ CountUp(c.to)
        /\ served' = served \union
             {[req |-> c.req, try |-> c.try, by |-> c.to, ring |-> ring[c.to]]}
  /\ UNCHANGED <<ring, changes, backpressure, destroyed, send>>

\* onResponse: the application has answered, or failed.
Respond(c) ==
  /\ c.stage = "handling"
  /\ \E ok \in BOOLEAN : Reply(c, ok)
  /\ inflight' = [inflight EXCEPT ![c.to] = Decremented(@)]
  /\ UNCHANGED <<ring, changes, backpressure, destroyed, miscounted, send, served>>

-----------------------------------------------------------------------------
(***************************************************************************)
(* Around them.                                                            *)
(***************************************************************************)

\* A node's member list has put a server on its ring, or taken it off.
ChangeRing(n) ==
  /\ changes < MaxChanges
  /\ changes' = changes + 1
  /\ \E s \in Nodes :
       ring' = [ring EXCEPT ![n] = IF s \in @ THEN @ \ {s} ELSE @ \union {s}]
  /\ UNCHANGED <<backpressure, destroyed, inflight, miscounted, send, calls, served>>

SetBackpressure ==
  /\ backpressure' = ~backpressure
  /\ UNCHANGED <<ring, changes, destroyed, inflight, miscounted, send, calls, served>>

\* destroy(): the timers of retries are cleared and nothing answers for
\* them; the channel is closed.
Destroy(n) ==
  /\ n \notin destroyed /\ Cardinality(destroyed) < MaxDestroyed
  /\ destroyed' = destroyed \union {n}
  /\ send' = [r \in Requests |->
       IF send[r].at = n /\ send[r].stage = "waiting"
       THEN [send[r] EXCEPT !.stage = "dropped"] ELSE send[r]]
  /\ UNCHANGED <<ring, changes, backpressure, inflight, miscounted, calls, served>>

SendStep(r) ==
  \/ BodyRead(r) \/ Connected(r) \/ Answered(r) \/ TimedOut(r)
  \/ AttemptRetry(r) \/ LocalDone(r)

Next ==
  \/ \E r \in Requests : SendStep(r) \/ \E n \in Nodes : ProxyReq(r, n)
  \/ \E c \in calls : HandleRequest(c) \/ Respond(c)
  \/ \E n \in Nodes : ChangeRing(n) \/ Destroy(n)
  \/ SetBackpressure

Spec == Init /\ [][Next]_vars

\* Bodies are read, connections made or refused, calls answered or timed
\* out, timers run, and the application answers what it was given.
FairSpec == Spec /\ \A r \in Requests : WF_vars(SendStep(r))

-----------------------------------------------------------------------------
(***************************************************************************)
(* Properties.                                                             *)
(***************************************************************************)

TypeOK ==
  /\ ring \in [Nodes -> SUBSET Nodes]
  /\ changes \in 0..MaxChanges
  /\ backpressure \in BOOLEAN
  /\ destroyed \subseteq Nodes
  /\ inflight \in [Nodes -> 0..MaxInflight]
  /\ miscounted \in [Nodes -> BOOLEAN]
  /\ send \in [Requests ->
       [stage : InProgress \union {"new", "answered", "dropped"},
        at : Nodes \union {0}, keys : SUBSET Keys, pinned : BOOLEAN,
        dest : Nodes \union {0}, to : Nodes \union {0}, retries : 0..MaxRetries]]
  /\ calls \subseteq
       [req : Requests, try : 0..MaxRetries, to : Nodes, checksum : SUBSET Nodes,
        stage : {"request", "handling", "answer"}, ok : BOOLEAN]
  /\ served \subseteq
       [req : Requests, try : 0..MaxRetries, by : Nodes, ring : SUBSET Nodes]

\* The requests that n has in flight, as proxy and as handler.
Actual(n) ==
  LET here == {r \in Requests : send[r].at = n} IN
    Cardinality({r \in here : send[r].stage \in InProgress \union {"dropped"}})
      + Cardinality({r \in here : send[r].stage = "local"})
      + Cardinality({c \in calls : c.to = n /\ c.stage = "handling"})

\* Whatever becomes of requests - malformed, unreachable, retried, rerouted
\* to this node, aborted, handled after their sender gave up - the counter
\* that back-pressure acts on tells how many are in flight. It may only be
\* too low, and only once it was held to its maximum without back-pressure.
InflightCounted ==
  \A n \in Nodes :
    /\ inflight[n] <= Actual(n)
    /\ ~miscounted[n] => inflight[n] = Actual(n)

\* An application sees a request at most once per attempt, though attempts
\* overlap: one that timed out may be handled after the ones that follow.
HandledOncePerTry ==
  \A s, t \in served : s.req = t.req /\ s.try = t.try => s = t

\* Two nodes only ever handle the same request if their rings differ when
\* they let it in - or are both empty: then each takes itself for the owner.
OneOwnerPerRing ==
  \A s, t \in served :
    s.req = t.req /\ s.ring = t.ring /\ s.ring # {} => s.by = t.by

\* Every request that is proxied is answered, unless destroy() comes while
\* it waits for a retry.
EveryRequestAnswered ==
  \A r \in Requests :
    send[r].stage \in InProgress ~> send[r].stage \in {"answered", "dropped"}
=============================================================================
