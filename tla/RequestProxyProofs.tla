-------------------------- MODULE RequestProxyProofs --------------------------
(***************************************************************************)
(* Proofs about RequestProxy, for every set of nodes, keys and requests,   *)
(* and every bound.                                                        *)
(*                                                                         *)
(* That no attempt is handled twice needs an order among the attempts of a *)
(* request: what was sent or served belongs to an attempt that has left,   *)
(* and each has left once, though answers to old ones may come yet. That   *)
(* one ring has one owner needs that the keys of a request never change    *)
(* once it is proxied, and who looked them up before it was served.        *)
(***************************************************************************)
EXTENDS RequestProxy, FiniteSetTheorems, TLAPS

Stages == InProgress \union {"new", "answered", "dropped"}

Sends ==
  [stage : Stages, at : Nodes \union {0}, keys : SUBSET Keys, pinned : BOOLEAN,
   dest : Nodes \union {0}, to : Nodes \union {0}, retries : Nat]

Calls ==
  [req : Requests, try : Nat, to : Nodes, checksum : SUBSET Nodes,
   stage : {"request", "handling", "answer"}, ok : BOOLEAN]

Served == [req : Requests, try : Nat, by : Nodes, ring : SUBSET Nodes]

Typed ==
  /\ ring \in [Nodes -> SUBSET Nodes]
  /\ send \in [Requests -> Sends]
  /\ calls \subseteq Calls
  /\ served \subseteq Served

\* A request that is under way has keys, and they are not its own node's.
Proxied(s) ==
  /\ s.stage \in InProgress => s.at \in Nodes /\ s.dest \in Nodes \ {s.at} /\ s.keys # {}
  /\ s.stage = "connecting" => s.to \in Nodes
  /\ s.stage \in {"new", "body"} => s.retries = 0

\* The attempt has left the node.
Left(r, try) ==
  /\ send[r].stage # "new"
  /\ try <= send[r].retries
  /\ send[r].stage \in {"body", "connecting"} => try < send[r].retries

\* Attempts leave one by one, each in one message, which is served once.
Attempts ==
  /\ \A c \in calls : Left(c.req, c.try)
  /\ \A s \in served : Left(s.req, s.try)
  /\ \A c, d \in calls : c.req = d.req /\ c.try = d.try => c = d
  /\ \A c \in calls, s \in served :
       c.stage = "request" => ~(s.req = c.req /\ s.try = c.try)
  /\ HandledOncePerTry

\* The owners of the keys on n's ring when these were its servers.
OwnersOn(servers, n, keys) ==
  {IF servers = {} THEN n ELSE Owner(servers, k) : k \in keys}

\* Whoever served a request owned its keys then, on a ring of its own.
ServedByOwner ==
  \A s \in served : OwnersOn(s.ring, s.by, send[s.req].keys) = {s.by}

IInv ==
  /\ Typed
  /\ \A r \in Requests : Proxied(send[r])
  /\ Attempts
  /\ EnforceKeyConsistency => ServedByOwner

USE DEF Stages, InProgress

-----------------------------------------------------------------------------
(***************************************************************************)
(* Lemmas about what a step does to a request or a call.                   *)
(***************************************************************************)

\* A request moves on without being sent again; calls may be over.
LEMMA MovesOn ==
  ASSUME IInv, NEW r \in Requests, send[r].stage \in InProgress,
         NEW stage \in {"sent", "waiting", "local", "answered", "dropped"},
         send' = [send EXCEPT ![r].stage = stage],
         calls' \subseteq calls, UNCHANGED <<ring, served>>
  PROVE  IInv'
<1>1. send[r] \in Sends /\ send \in [Requests -> Sends]
  BY DEF IInv, Typed
<1>2. send' = [send EXCEPT ![r] = [send[r] EXCEPT !.stage = stage]]
  OBVIOUS
<1>3. [send[r] EXCEPT !.stage = stage] \in Sends
  BY <1>1 DEF Sends
<1>4. \A q \in Requests :
        /\ send'[q].keys = send[q].keys /\ send'[q].retries = send[q].retries
        /\ send'[q] = IF q = r THEN [send[r] EXCEPT !.stage = stage] ELSE send[q]
  BY <1>1, <1>2 DEF Sends
<1>5. Typed'
  BY <1>1, <1>2, <1>3 DEF IInv, Typed
<1>6. \A q \in Requests : Proxied(send'[q])
  BY <1>1, <1>4 DEF IInv, Proxied, Sends
<1>7. ASSUME NEW q \in Requests, NEW try, Left(q, try) PROVE Left(q, try)'
  BY <1>1, <1>4, <1>7 DEF Left, Sends
<1>8. Attempts'
  BY <1>7 DEF IInv, Typed, Attempts, Calls, Served, HandledOncePerTry
<1>9. ServedByOwner => ServedByOwner'
  BY <1>4 DEF IInv, Typed, Served, ServedByOwner
<1> QED BY <1>5, <1>6, <1>8, <1>9 DEF IInv

\* A request is sent, again or for the first time.
LEMMA SendsNext ==
  ASSUME IInv, NEW r \in Requests, send[r].stage \in InProgress,
         NEW d \in Nodes, NEW retries \in Nat,
         \/ retries > send[r].retries
         \/ retries = send[r].retries /\ send[r].stage = "body",
         SendTo(r, d, retries), UNCHANGED <<ring, calls, served>>
  PROVE  IInv'
<1>1. CASE Finish(r)
  BY <1>1, MovesOn DEF Finish, Goes
<1>2. CASE send' = [send EXCEPT ![r].stage = "connecting", ![r].to = d, ![r].retries = retries]
  <2> DEFINE next == [[[send[r] EXCEPT !.stage = "connecting"] EXCEPT !.to = d]
                        EXCEPT !.retries = retries]
  <2>1. send[r] \in Sends /\ send \in [Requests -> Sends]
    BY DEF IInv, Typed
  <2>2. send' = [send EXCEPT ![r] = next]
    BY <1>2
  <2>3. /\ next \in Sends
        /\ next.stage = "connecting" /\ next.to = d /\ next.retries = retries
        /\ next.keys = send[r].keys /\ next.at = send[r].at /\ next.dest = send[r].dest
    BY <2>1 DEF Sends
  <2> HIDE DEF next
  <2>4. \A q \in Requests : send'[q] = IF q = r THEN next ELSE send[q]
    BY <2>1, <2>2
  <2>5. Typed'
    BY <2>1, <2>2, <2>3 DEF IInv, Typed
  <2>6. \A q \in Requests : Proxied(send'[q])
    BY <2>3, <2>4 DEF IInv, Proxied
  <2>7. ASSUME NEW q \in Requests, NEW try \in Nat, Left(q, try) PROVE Left(q, try)'
    BY <2>1, <2>3, <2>4, <2>7 DEF Left, Sends
  <2>8. Attempts'
    BY <2>7 DEF IInv, Typed, Attempts, Calls, Served, HandledOncePerTry
  <2>9. ServedByOwner => ServedByOwner'
    BY <2>3, <2>4 DEF IInv, Typed, Served, ServedByOwner
  <2> QED BY <2>5, <2>6, <2>8, <2>9 DEF IInv
<1> QED BY <1>1, <1>2 DEF SendTo

\* A call that was handled changes, or is over.
LEMMA CallChanges ==
  ASSUME IInv, NEW c \in calls, NEW d \in Calls,
         d.req = c.req, d.try = c.try, d.stage # "request",
         calls' \subseteq (calls \ {c}) \union {d}, UNCHANGED <<ring, send, served>>
  PROVE  IInv'
<1>1. Typed'
  BY DEF IInv, Typed
<1>2. \A r, try : Left(r, try)' = Left(r, try)
  BY DEF Left
<1>3. Attempts'
  <2>1. \A e \in calls' : Left(e.req, e.try)'
    BY <1>2 DEF IInv, Attempts
  <2>2. \A s \in served' : Left(s.req, s.try)'
    BY <1>2 DEF IInv, Attempts
  <2>3. \A e, f \in calls' : e.req = f.req /\ e.try = f.try => e = f
    BY DEF IInv, Attempts
  <2>4. \A e \in calls', s \in served' :
          e.stage = "request" => ~(s.req = e.req /\ s.try = e.try)
    BY DEF IInv, Attempts
  <2> QED BY <2>1, <2>2, <2>3, <2>4 DEF IInv, Attempts, HandledOncePerTry
<1> QED BY <1>1, <1>3 DEF IInv, ServedByOwner

\* A call and what becomes of it are about the same attempt.
LEMMA CallTyped ==
  ASSUME NEW c \in Calls, NEW stage \in {"handling", "answer"}, NEW ok \in BOOLEAN
  PROVE  /\ [c EXCEPT !.stage = stage] \in Calls
         /\ [c EXCEPT !.stage = stage].req = c.req
         /\ [c EXCEPT !.stage = stage].try = c.try
         /\ [c EXCEPT !.stage = stage].stage = stage
         /\ [c EXCEPT !.stage = stage, !.ok = ok] \in Calls
         /\ [c EXCEPT !.stage = stage, !.ok = ok].req = c.req
         /\ [c EXCEPT !.stage = stage, !.ok = ok].try = c.try
         /\ [c EXCEPT !.stage = stage, !.ok = ok].stage = stage
  BY DEF Calls

\* An answer ends a call or waits to be received.
LEMMA ReplyKeeps ==
  ASSUME IInv, NEW c \in calls, NEW ok \in BOOLEAN, Reply(c, ok),
         UNCHANGED <<ring, send, served>>
  PROVE  IInv'
<1>1. c \in Calls
  BY DEF IInv, Typed
<1>2. calls' \subseteq (calls \ {c}) \union {[c EXCEPT !.stage = "answer", !.ok = ok]}
  BY DEF Reply
<1> QED BY <1>1, <1>2, CallTyped, CallChanges

\* Someone serves an attempt that has left and that nobody served before.
LEMMA ServedOnceMore ==
  ASSUME Typed, NEW r \in Requests, NEW try \in Nat, NEW n \in Nodes,
         served' = served \union {[req |-> r, try |-> try, by |-> n, ring |-> ring[n]]},
         \A s \in served : ~(s.req = r /\ s.try = try),
         HandledOncePerTry
  PROVE  /\ served' \subseteq Served
         /\ HandledOncePerTry'
<1>1. ring[n] \in SUBSET Nodes
  BY DEF Typed
<1>2. [req |-> r, try |-> try, by |-> n, ring |-> ring[n]] \in Served
  BY <1>1 DEF Served
<1> QED BY <1>2 DEF Typed, HandledOncePerTry

\* The owners of keys on a node's ring.
LEMMA OwnersAreOn ==
  ASSUME NEW n, NEW keys
  PROVE  Owners(n, keys) = OwnersOn(ring[n], n, keys)
  BY DEF Owners, OwnersOn, Lookup

-----------------------------------------------------------------------------
\* Nothing is proxied, sent or served at first.
LEMMA InitIInv == Init => IInv
  BY DEF Init, IInv, Typed, Sends, Proxied, Attempts, Left, HandledOncePerTry, ServedByOwner

\* A request is proxied.
LEMMA ProxyReqKeeps ==
  ASSUME IInv, NEW r \in Requests, NEW n \in Nodes, ProxyReq(r, n)
  PROVE  IInv'
<1>1. send[r] \in Sends /\ send \in [Requests -> Sends] /\ send[r].stage = "new"
  BY DEF IInv, Typed, ProxyReq
<1>2. PICK next \in Sends :
        /\ send' = [send EXCEPT ![r] = next]
        /\ Proxied(next) /\ next.stage \in {"body", "answered"}
  <2>1. n \in Nodes \union {0} /\ send[r].retries = 0
    BY <1>1 DEF IInv, Proxied
  <2>2. PICK keys \in (SUBSET Keys) \ {{}}, d \in Nodes \ {n}, pinned \in BOOLEAN :
          \/ send' = [send EXCEPT ![r].stage = "answered", ![r].at = n]
          \/ send' = [send EXCEPT ![r].stage = "body", ![r].at = n, ![r].keys = keys,
                                  ![r].dest = d, ![r].pinned = pinned]
    BY DEF ProxyReq
  <2>3. CASE send' = [send EXCEPT ![r].stage = "answered", ![r].at = n]
    <3> DEFINE next == [[send[r] EXCEPT !.stage = "answered"] EXCEPT !.at = n]
    <3>1. send' = [send EXCEPT ![r] = next]
      BY <2>3
    <3>2. next \in Sends /\ next.stage = "answered"
      BY <1>1, <2>1 DEF Sends
    <3> HIDE DEF next
    <3> QED BY <3>1, <3>2 DEF Proxied
  <2>4. CASE send' = [send EXCEPT ![r].stage = "body", ![r].at = n, ![r].keys = keys,
                                  ![r].dest = d, ![r].pinned = pinned]
    <3> DEFINE next == [[[[[send[r] EXCEPT !.stage = "body"] EXCEPT !.at = n]
                          EXCEPT !.keys = keys] EXCEPT !.dest = d] EXCEPT !.pinned = pinned]
    <3>1. send' = [send EXCEPT ![r] = next]
      BY <2>4
    <3>2. /\ next \in Sends /\ next.stage = "body" /\ next.at = n
          /\ next.keys = keys /\ next.dest = d /\ next.retries = send[r].retries
      BY <1>1, <2>1 DEF Sends
    <3> HIDE DEF next
    <3>3. Proxied(next)
      BY <2>1, <3>2 DEF Proxied
    <3> QED BY <3>1, <3>2, <3>3
  <2> QED BY <2>2, <2>3, <2>4
<1>3. \A q \in Requests : send'[q] = IF q = r THEN next ELSE send[q]
  BY <1>1, <1>2
<1>4. /\ \A c \in calls : c.req # r
      /\ \A s \in served : s.req # r
  BY <1>1 DEF IInv, Attempts, Left
<1>5. UNCHANGED <<ring, calls, served>>
  BY DEF ProxyReq
<1>6. Typed'
  BY <1>1, <1>2, <1>5 DEF IInv, Typed
<1>7. \A q \in Requests : Proxied(send'[q])
  BY <1>2, <1>3 DEF IInv
<1>8. ASSUME NEW q \in Requests \ {r}, NEW try, Left(q, try) PROVE Left(q, try)'
  BY <1>3, <1>8 DEF Left
<1>9. Attempts'
  BY <1>4, <1>5, <1>8 DEF IInv, Typed, Attempts, Calls, Served, HandledOncePerTry
<1>10. ServedByOwner => ServedByOwner'
  BY <1>3, <1>4, <1>5 DEF IInv, Typed, Served, ServedByOwner
<1> QED BY <1>6, <1>7, <1>9, <1>10 DEF IInv

\* A request leaves: its attempt is on its way and has not been served.
LEMMA ConnectedKeeps ==
  ASSUME IInv, NEW r \in Requests, Connected(r)
  PROVE  IInv'
<1>1. /\ send[r] \in Sends /\ send \in [Requests -> Sends]
      /\ send[r].stage = "connecting" /\ UNCHANGED <<ring, served>>
  BY DEF IInv, Typed, Connected
<1>2. CASE Finish(r) /\ UNCHANGED calls
  BY <1>1, <1>2, MovesOn DEF Finish, Goes
<1>3. CASE Goes(r, "sent") /\ ~ UNCHANGED calls
  <2> DEFINE call == [req |-> r, try |-> send[r].retries, to |-> send[r].to,
                      checksum |-> ring[send[r].at], stage |-> "request", ok |-> FALSE]
             next == [send[r] EXCEPT !.stage = "sent"]
  <2>1. calls' = calls \union {call} /\ send' = [send EXCEPT ![r] = next]
    BY <1>3 DEF Connected, Goes
  <2>2. call \in Calls
    BY <1>1 DEF IInv, Typed, Proxied, Sends, Calls
  <2>3. call.req = r /\ call.try = send[r].retries
    OBVIOUS
  <2>4. /\ next \in Sends /\ next.stage = "sent" /\ next.retries = send[r].retries
        /\ next.keys = send[r].keys /\ next.at = send[r].at /\ next.dest = send[r].dest
    BY <1>1 DEF Sends
  <2> HIDE DEF call, next
  <2>5. \A q \in Requests : send'[q] = IF q = r THEN next ELSE send[q]
    BY <1>1, <2>1
  <2>6. Typed'
    BY <1>1, <2>1, <2>2, <2>4 DEF IInv, Typed
  <2>7. \A q \in Requests : Proxied(send'[q])
    BY <1>1, <2>4, <2>5 DEF IInv, Proxied
  <2>8. ASSUME NEW q \in Requests, NEW try, Left(q, try) PROVE Left(q, try)'
    BY <1>1, <2>4, <2>5, <2>8 DEF Left, Sends
  <2>9. ASSUME NEW try, try = send[r].retries PROVE Left(r, try)'
    BY <1>1, <2>4, <2>5, <2>9 DEF Left, Sends
  <2>10. ~Left(r, send[r].retries)
    BY <1>1 DEF Left, Sends
  <2>11. Attempts'
    <3>1. \A c \in calls' : Left(c.req, c.try)'
      BY <2>1, <2>3, <2>8, <2>9 DEF IInv, Typed, Attempts, Calls
    <3>2. \A s \in served' : Left(s.req, s.try)'
      BY <1>1, <2>8 DEF IInv, Typed, Attempts, Served
    <3>3. /\ \A c \in calls : ~(c.req = r /\ c.try = send[r].retries)
          /\ \A s \in served : ~(s.req = r /\ s.try = send[r].retries)
      BY <2>10 DEF IInv, Attempts
    <3>4. \A c, d \in calls' : c.req = d.req /\ c.try = d.try => c = d
      BY <2>1, <2>3, <3>3 DEF IInv, Attempts
    <3>5. \A c \in calls', s \in served' :
            c.stage = "request" => ~(s.req = c.req /\ s.try = c.try)
      BY <1>1, <2>1, <2>3, <3>3 DEF IInv, Attempts
    <3> QED BY <1>1, <3>1, <3>2, <3>4, <3>5 DEF IInv, Attempts, HandledOncePerTry
  <2>12. ServedByOwner => ServedByOwner'
    BY <1>1, <2>4, <2>5 DEF IInv, Typed, Served, ServedByOwner
  <2> QED BY <2>6, <2>7, <2>11, <2>12 DEF IInv
<1>4. CASE Goes(r, "sent") /\ UNCHANGED calls
  BY <1>1, <1>4, MovesOn DEF Goes
<1> QED BY <1>2, <1>3, <1>4 DEF Connected

\* A request is refused or handed to the application.
LEMMA HandleRequestKeeps ==
  ASSUME IInv, NEW c \in calls, HandleRequest(c)
  PROVE  IInv'
<1>1. c \in Calls /\ c.stage = "request" /\ UNCHANGED <<ring, send>>
  BY DEF IInv, Typed, HandleRequest
<1>2. CASE UNCHANGED served
  <2>1. CASE Reply(c, FALSE) \/ Reply(c, TRUE)
    BY <1>1, <1>2, <2>1, ReplyKeeps
  <2>2. CASE calls' = (calls \ {c}) \union {[c EXCEPT !.stage = "handling"]}
    BY <1>1, <1>2, <2>2, CallTyped, CallChanges
  <2> QED BY <2>1, <2>2 DEF HandleRequest
<1>3. CASE /\ ~Invalid(c)
           /\ calls' = (calls \ {c}) \union {[c EXCEPT !.stage = "handling"]}
           /\ served' = served \union
                {[req |-> c.req, try |-> c.try, by |-> c.to, ring |-> ring[c.to]]}
  <2> DEFINE handling == [c EXCEPT !.stage = "handling"]
             new == [req |-> c.req, try |-> c.try, by |-> c.to, ring |-> ring[c.to]]
  <2>1. /\ handling \in Calls /\ handling.req = c.req /\ handling.try = c.try
        /\ handling.stage = "handling"
    BY <1>1, CallTyped
  <2>2. c.req \in Requests /\ c.try \in Nat /\ c.to \in Nodes
    BY <1>1 DEF Calls
  <2>3. \A s \in served : ~(s.req = c.req /\ s.try = c.try)
    BY <1>1 DEF IInv, Attempts
  <2>4. served' \subseteq Served /\ HandledOncePerTry'
    BY <1>3, <2>2, <2>3, ServedOnceMore DEF IInv, Attempts
  <2>5. new.req = c.req /\ new.try = c.try /\ new.by = c.to /\ new.ring = ring[c.to]
    OBVIOUS
  <2>6. calls' = (calls \ {c}) \union {handling} /\ served' = served \union {new}
    BY <1>3
  <2> HIDE DEF handling, new
  <2>7. Typed'
    BY <1>1, <2>1, <2>4, <2>6 DEF IInv, Typed
  <2>8. \A r, try : Left(r, try)' = Left(r, try)
    BY <1>1 DEF Left
  <2>9. Attempts'
    <3>1. \A d \in calls' : Left(d.req, d.try)'
      BY <2>1, <2>6, <2>8 DEF IInv, Attempts
    <3>2. \A s \in served' : Left(s.req, s.try)'
      BY <2>5, <2>6, <2>8 DEF IInv, Attempts
    <3>3. \A d, e \in calls' : d.req = e.req /\ d.try = e.try => d = e
      BY <2>1, <2>6 DEF IInv, Attempts
    <3>4. \A d \in calls', s \in served' :
            d.stage = "request" => ~(s.req = d.req /\ s.try = d.try)
      BY <2>1, <2>5, <2>6 DEF IInv, Attempts
    <3> QED BY <2>4, <3>1, <3>2, <3>3, <3>4 DEF Attempts
  <2>10. ASSUME EnforceKeyConsistency, ServedByOwner PROVE ServedByOwner'
    <3>1. OwnersOn(new.ring, new.by, send[new.req].keys) = {new.by}
      BY <1>3, <2>5, <2>10, OwnersAreOn DEF Invalid
    <3> QED BY <1>1, <2>6, <2>10, <3>1 DEF ServedByOwner
  <2> QED BY <1>1, <2>7, <2>9, <2>10 DEF IInv
<1> QED BY <1>2, <1>3 DEF HandleRequest

\* A request waits no longer: its keys are looked up again.
LEMMA AttemptRetryKeeps ==
  ASSUME IInv, NEW r \in Requests, AttemptRetry(r)
  PROVE  IInv'
<1>1. /\ send[r] \in Sends /\ send \in [Requests -> Sends]
      /\ send[r].stage = "waiting" /\ UNCHANGED <<ring, calls>>
  BY DEF IInv, Typed, AttemptRetry
<1>2. send[r].at \in Nodes /\ send[r].dest \in Nodes \ {send[r].at}
  BY <1>1 DEF IInv, Proxied
<1>3. CASE Finish(r) /\ UNCHANGED served
  BY <1>1, <1>3, MovesOn DEF Finish, Goes
<1>4. ASSUME NEW d \in Nodes, SendTo(r, d, send[r].retries + 1), UNCHANGED served
      PROVE  IInv'
  BY <1>1, <1>4, SendsNext DEF Sends
<1>5. CASE /\ Owners(send[r].at, send[r].keys) = {send[r].at}
           /\ send' = [send EXCEPT ![r].stage = "local", ![r].retries = @ + 1]
           /\ served' = served \union
                {[req |-> r, try |-> send[r].retries + 1, by |-> send[r].at,
                  ring |-> ring[send[r].at]]}
  <2> DEFINE next == [[send[r] EXCEPT !.stage = "local"] EXCEPT !.retries = send[r].retries + 1]
             new == [req |-> r, try |-> send[r].retries + 1, by |-> send[r].at,
                     ring |-> ring[send[r].at]]
  <2>1. send' = [send EXCEPT ![r] = next]
    BY <1>1, <1>5 DEF Sends
  <2>2. /\ next \in Sends /\ next.stage = "local" /\ next.retries = send[r].retries + 1
        /\ next.keys = send[r].keys /\ next.at = send[r].at /\ next.dest = send[r].dest
    <3>1. send[r].retries + 1 \in Nat
      BY <1>1 DEF Sends
    <3>2. [send[r] EXCEPT !.stage = "local"] \in Sends
      BY <1>1 DEF Sends
    <3> QED BY <1>1, <3>1, <3>2 DEF Sends
  <2>3. /\ new.req = r /\ new.try = send[r].retries + 1
        /\ new.by = send[r].at /\ new.ring = ring[send[r].at]
    OBVIOUS
  <2>4. served' = served \union {new}
    BY <1>5
  <2>5. send[r].retries \in Nat
    BY <1>1 DEF Sends
  <2>6. /\ \A c \in calls : ~(c.req = r /\ c.try = send[r].retries + 1)
        /\ \A s \in served : ~(s.req = r /\ s.try = send[r].retries + 1)
    BY <2>5 DEF IInv, Typed, Calls, Served, Attempts, Left
  <2>7. served' \subseteq Served /\ HandledOncePerTry'
    BY <1>2, <1>5, <2>5, <2>6, ServedOnceMore DEF IInv, Attempts
  <2> HIDE DEF next, new
  <2>8. \A q \in Requests : send'[q] = IF q = r THEN next ELSE send[q]
    BY <1>1, <2>1
  <2>9. Typed'
    BY <1>1, <2>1, <2>2, <2>7 DEF IInv, Typed
  <2>10. \A q \in Requests : Proxied(send'[q])
    BY <1>1, <2>2, <2>8 DEF IInv, Proxied
  <2>11. ASSUME NEW q \in Requests, NEW try \in Nat, Left(q, try) PROVE Left(q, try)'
    BY <1>1, <2>2, <2>5, <2>8, <2>11 DEF Left
  <2>12. ASSUME NEW try, try = send[r].retries + 1 PROVE Left(r, try)'
    BY <2>2, <2>5, <2>8, <2>12 DEF Left
  <2>13. Attempts'
    <3>1. \A c \in calls' : Left(c.req, c.try)'
      BY <1>1, <2>11 DEF IInv, Typed, Attempts, Calls
    <3>2. \A s \in served' : Left(s.req, s.try)'
      BY <2>3, <2>4, <2>11, <2>12 DEF IInv, Typed, Attempts, Served
    <3>3. \A c \in calls', s \in served' :
            c.stage = "request" => ~(s.req = c.req /\ s.try = c.try)
      BY <1>1, <2>3, <2>4, <2>6 DEF IInv, Attempts
    <3> QED BY <1>1, <2>7, <3>1, <3>2, <3>3 DEF IInv, Attempts
  <2>14. ASSUME ServedByOwner PROVE ServedByOwner'
    <3>1. OwnersOn(new.ring, new.by, send[r].keys) = {new.by}
      BY <1>5, <2>3, OwnersAreOn
    <3>2. \A s \in served : send'[s.req].keys = send[s.req].keys
      BY <2>2, <2>8 DEF IInv, Typed, Served
    <3> QED BY <2>2, <2>3, <2>4, <2>8, <2>14, <3>1, <3>2 DEF ServedByOwner
  <2> QED BY <2>9, <2>10, <2>13, <2>14 DEF IInv
<1>6. CASE \E d \in Nodes : SendTo(r, d, send[r].retries + 1) /\ UNCHANGED served
  BY <1>4, <1>6
<1> QED BY <1>1, <1>2, <1>3, <1>5, <1>6 DEF AttemptRetry, Diverged, HandleLocally

\* A node is destroyed: whoever waits there is dropped.
LEMMA DestroyKeeps ==
  ASSUME IInv, NEW n \in Nodes, Destroy(n)
  PROVE  IInv'
<1>1. send \in [Requests -> Sends] /\ UNCHANGED <<ring, calls, served>>
  BY DEF IInv, Typed, Destroy
<1>2. /\ send' \in [Requests -> Sends]
      /\ \A q \in Requests :
           /\ send'[q].keys = send[q].keys /\ send'[q].retries = send[q].retries
           /\ \/ send'[q] = send[q]
              \/ send[q].stage = "waiting" /\ send'[q].stage = "dropped"
  BY <1>1 DEF Destroy, Sends
<1>3. Typed'
  BY <1>1, <1>2 DEF IInv, Typed
<1>4. \A q \in Requests : Proxied(send'[q])
  BY <1>2 DEF IInv, Proxied
<1>5. ASSUME NEW q \in Requests, NEW try, Left(q, try) PROVE Left(q, try)'
  BY <1>2, <1>5 DEF Left
<1>6. Attempts'
  BY <1>1, <1>5 DEF IInv, Typed, Attempts, Calls, Served, HandledOncePerTry
<1>7. ServedByOwner => ServedByOwner'
  BY <1>1, <1>2 DEF IInv, Typed, Served, ServedByOwner
<1> QED BY <1>3, <1>4, <1>6, <1>7 DEF IInv

\* Every step keeps the order of the attempts and who served them.
LEMMA NextIInv == IInv /\ [Next]_vars => IInv'
<1> SUFFICES ASSUME IInv, [Next]_vars PROVE IInv'
  OBVIOUS
<1>same. ASSUME UNCHANGED <<send, calls, served>>, ring' \in [Nodes -> SUBSET Nodes]
         PROVE  IInv'
  BY <1>same DEF IInv, Typed, Attempts, Left, HandledOncePerTry, ServedByOwner
<1>body. ASSUME NEW r \in Requests, BodyRead(r) PROVE IInv'
  <2>1. /\ send[r].stage = "body" /\ send[r].retries = 0 /\ send[r].dest \in Nodes
        /\ UNCHANGED <<ring, calls, served>>
    BY <1>body DEF BodyRead, IInv, Proxied
  <2>2. CASE SendTo(r, send[r].dest, 0)
    BY <2>1, <2>2, SendsNext
  <2>3. CASE Finish(r)
    BY <2>1, <2>3, MovesOn DEF Finish, Goes
  <2> QED BY <1>body, <2>2, <2>3 DEF BodyRead
<1>failed. ASSUME NEW r \in Requests, send[r].stage = "sent", Finish(r) \/ Failed(r),
                  calls' \subseteq calls, UNCHANGED <<ring, served>>
           PROVE  IInv'
  BY <1>failed, MovesOn DEF Failed, Finish, Goes
<1>answered. ASSUME NEW r \in Requests, Answered(r) PROVE IInv'
  BY <1>answered, <1>failed DEF Answered, Awaited
<1>timeout. ASSUME NEW r \in Requests, TimedOut(r) PROVE IInv'
  BY <1>timeout, <1>failed DEF TimedOut
<1>local. ASSUME NEW r \in Requests, LocalDone(r) PROVE IInv'
  BY <1>local, MovesOn DEF LocalDone, Goes
<1>send. ASSUME NEW r \in Requests, SendStep(r) PROVE IInv'
  BY <1>send, <1>body, <1>answered, <1>timeout, <1>local, ConnectedKeeps, AttemptRetryKeeps
     DEF SendStep
<1>respond. ASSUME NEW c \in calls, Respond(c) PROVE IInv'
  BY <1>respond, ReplyKeeps DEF Respond
<1>ring. ASSUME NEW n \in Nodes, ChangeRing(n) PROVE IInv'
  BY <1>ring, <1>same DEF ChangeRing, IInv, Typed
<1>pressure. CASE SetBackpressure
  BY <1>pressure, <1>same DEF SetBackpressure, IInv, Typed
<1>stutter. CASE UNCHANGED vars
  BY <1>stutter, <1>same DEF vars, IInv, Typed
<1> QED
  BY <1>send, <1>respond, <1>ring, <1>pressure, <1>stutter,
     ProxyReqKeeps, HandleRequestKeeps, DestroyKeeps DEF Next

\* In every reachable state.
THEOREM Invariance == Spec => []IInv
  BY InitIInv, NextIInv, PTL DEF Spec

\* No attempt of a request is handled twice, whatever times out, is retried
\* or answered late (lib/request-proxy/send.js), on any number of nodes.
THEOREM NoAttemptHandledTwice == Spec => []HandledOncePerTry
<1>1. IInv => HandledOncePerTry
  BY DEF IInv, Attempts
<1> QED BY <1>1, Invariance, PTL

\* If key consistency is enforced (handleRequest in
\* lib/request-proxy/index.js), nodes whose rings are the same and not empty
\* never both handle a request - with or without comparing checksums.
THEOREM OneOwner ==
  ASSUME EnforceKeyConsistency
  PROVE  Spec => []OneOwnerPerRing
<1>1. ASSUME IInv PROVE OneOwnerPerRing
  <2> SUFFICES ASSUME NEW s \in served, NEW t \in served,
                      s.req = t.req, s.ring = t.ring, s.ring # {}
               PROVE  s.by = t.by
    BY DEF OneOwnerPerRing
  <2>1. /\ OwnersOn(s.ring, s.by, send[s.req].keys) = {s.by}
        /\ OwnersOn(t.ring, t.by, send[t.req].keys) = {t.by}
    BY <1>1 DEF IInv, ServedByOwner
  <2>2. OwnersOn(s.ring, s.by, send[s.req].keys) = OwnersOn(t.ring, t.by, send[t.req].keys)
    BY DEF OwnersOn
  <2> QED BY <2>1, <2>2
<1> QED BY <1>1, Invariance, PTL

-----------------------------------------------------------------------------
(***************************************************************************)
(* The counter of requests in flight. It is compared with the number of    *)
(* requests and calls, which a step changes by those of one of them.       *)
(***************************************************************************)

Proxies(s, n) == s.at = n /\ s.stage \in InProgress \union {"dropped"}
Reroutes(s, n) == s.at = n /\ s.stage = "local"
Handles(c, n) == c.to = n /\ c.stage = "handling"

Proxying(sends, n) == {r \in Requests : Proxies(sends[r], n)}
Rerouting(sends, n) == {r \in Requests : Reroutes(sends[r], n)}
Handling(requests, n) == {c \in requests : Handles(c, n)}

\* What n has in flight, as proxy and as handler.
InProxy(sends, n) == Cardinality(Proxying(sends, n)) + Cardinality(Rerouting(sends, n))
Handled(requests, n) == Cardinality(Handling(requests, n))

InFlight(sends, requests, n) == InProxy(sends, n) + Handled(requests, n)

One(condition) == IF condition THEN 1 ELSE 0

\* How often a request counts at n.
Weight(s, n) == One(Proxies(s, n)) + One(Reroutes(s, n))

\* The counter tells what is in flight, or less if it was held to its maximum.
Tells(count, mis, actual) == count <= actual /\ (~mis => count = actual)

CountTyped ==
  /\ inflight \in [Nodes -> Nat]
  /\ miscounted \in [Nodes -> BOOLEAN]
  /\ IsFiniteSet(calls)

CInv == IInv /\ CountTyped /\ InflightCounted

\* Weights and counts are natural numbers.
LEMMA CountsAreNat ==
  ASSUME NEW requests, IsFiniteSet(requests)
  PROVE  /\ \A sends, n : InProxy(sends, n) \in Nat
         /\ \A n : Handled(requests, n) \in Nat
         /\ \A sends, n : InFlight(sends, requests, n) \in Nat
<1>1. ASSUME NEW sends, NEW n
      PROVE  IsFiniteSet(Proxying(sends, n)) /\ IsFiniteSet(Rerouting(sends, n))
  <2>1. Proxying(sends, n) \in SUBSET Requests /\ Rerouting(sends, n) \in SUBSET Requests
    BY DEF Proxying, Rerouting
  <2> QED BY <2>1, RequestsAssumption, FS_Subset
<1>2. \A sends, n : InProxy(sends, n) \in Nat
  <2> SUFFICES ASSUME NEW sends, NEW n PROVE InProxy(sends, n) \in Nat
    OBVIOUS
  <2>1. Cardinality(Proxying(sends, n)) \in Nat /\ Cardinality(Rerouting(sends, n)) \in Nat
    BY <1>1, FS_CardinalityType
  <2> QED BY <2>1 DEF InProxy
<1>3. ASSUME NEW n PROVE Handled(requests, n) \in Nat
  <2>1. Handling(requests, n) \in SUBSET requests
    BY DEF Handling
  <2> QED BY <2>1, FS_Subset, FS_CardinalityType DEF Handled
<1> QED BY <1>2, <1>3 DEF InFlight

\* InflightCounted, said with the counts of this section.
LEMMA CountedIs ==
  /\ InflightCounted <=>
       \A n \in Nodes :
         Tells(inflight[n], miscounted[n], InFlight(send, calls, n))
  /\ InflightCounted' <=>
       \A n \in Nodes :
         Tells(inflight'[n], miscounted'[n], InFlight(send', calls', n))
<1>1. ASSUME NEW n
      PROVE  Actual(n) = InFlight(send, calls, n)
  <2>1. {r \in {q \in Requests : send[q].at = n} : send[r].stage \in InProgress \union {"dropped"}}
          = Proxying(send, n)
    BY DEF Proxying, Proxies
  <2>2. {r \in {q \in Requests : send[q].at = n} : send[r].stage = "local"} = Rerouting(send, n)
    BY DEF Rerouting, Reroutes
  <2>3. {c \in calls : c.to = n /\ c.stage = "handling"} = Handling(calls, n)
    BY DEF Handling, Handles
  <2> QED BY <2>1, <2>2, <2>3 DEF Actual, InFlight, InProxy, Handled
<1>2. ASSUME NEW n
      PROVE  Actual(n)' = InFlight(send', calls', n)
  <2>1. {r \in {q \in Requests : send'[q].at = n} : send'[r].stage \in InProgress \union {"dropped"}}
          = Proxying(send', n)
    BY DEF Proxying, Proxies
  <2>2. {r \in {q \in Requests : send'[q].at = n} : send'[r].stage = "local"}
          = Rerouting(send', n)
    BY DEF Rerouting, Reroutes
  <2>3. {c \in calls' : c.to = n /\ c.stage = "handling"} = Handling(calls', n)
    BY DEF Handling, Handles
  <2> QED BY <2>1, <2>2, <2>3 DEF Actual, InFlight, InProxy, Handled
<1> QED BY <1>1, <1>2 DEF InflightCounted, Tells

\* One request more or less in a set that counts requests.
LEMMA OneMoved ==
  ASSUME NEW before, NEW after, NEW x, IsFiniteSet(before), IsFiniteSet(after),
         before \ {x} = after \ {x}
  PROVE  Cardinality(after) = Cardinality(before) - One(x \in before) + One(x \in after)
<1>1. /\ Cardinality(before) \in Nat /\ Cardinality(after) \in Nat
  BY FS_CardinalityType
<1>2. Cardinality(before \ {x}) = Cardinality(before) - One(x \in before)
  BY <1>1, FS_RemoveElement DEF One
<1>3. Cardinality(after \ {x}) = Cardinality(after) - One(x \in after)
  BY <1>1, FS_RemoveElement DEF One
<1> QED BY <1>1, <1>2, <1>3 DEF One

\* When one request changes, a node's count changes by its weight.
LEMMA RequestMoved ==
  ASSUME NEW sends \in [Requests -> Sends], NEW r \in Requests, NEW next \in Sends, NEW n
  PROVE  InProxy([sends EXCEPT ![r] = next], n)
           = InProxy(sends, n) - Weight(sends[r], n) + Weight(next, n)
<1> DEFINE after == [sends EXCEPT ![r] = next]
<1>1. \A q \in Requests : after[q] = IF q = r THEN next ELSE sends[q]
  OBVIOUS
<1> HIDE DEF after
<1>2. /\ Proxying(sends, n) \in SUBSET Requests /\ Proxying(after, n) \in SUBSET Requests
      /\ Rerouting(sends, n) \in SUBSET Requests /\ Rerouting(after, n) \in SUBSET Requests
  BY DEF Proxying, Rerouting
<1>3. /\ IsFiniteSet(Proxying(sends, n)) /\ IsFiniteSet(Proxying(after, n))
      /\ IsFiniteSet(Rerouting(sends, n)) /\ IsFiniteSet(Rerouting(after, n))
  BY <1>2, RequestsAssumption, FS_Subset
<1>4. /\ Proxying(sends, n) \ {r} = Proxying(after, n) \ {r}
      /\ Rerouting(sends, n) \ {r} = Rerouting(after, n) \ {r}
  BY <1>1 DEF Proxying, Rerouting
<1>5. /\ r \in Proxying(sends, n) <=> Proxies(sends[r], n)
      /\ r \in Proxying(after, n) <=> Proxies(next, n)
      /\ r \in Rerouting(sends, n) <=> Reroutes(sends[r], n)
      /\ r \in Rerouting(after, n) <=> Reroutes(next, n)
  BY <1>1 DEF Proxying, Rerouting
<1>6. Cardinality(Proxying(after, n))
        = Cardinality(Proxying(sends, n)) - One(Proxies(sends[r], n)) + One(Proxies(next, n))
  BY <1>3, <1>4, <1>5, OneMoved DEF One
<1>7. Cardinality(Rerouting(after, n))
        = Cardinality(Rerouting(sends, n)) - One(Reroutes(sends[r], n)) + One(Reroutes(next, n))
  BY <1>3, <1>4, <1>5, OneMoved DEF One
<1>8. /\ Cardinality(Proxying(sends, n)) \in Nat /\ Cardinality(Rerouting(sends, n)) \in Nat
  BY <1>3, FS_CardinalityType
<1>9. InProxy(after, n) = InProxy(sends, n) - Weight(sends[r], n) + Weight(next, n)
  BY <1>6, <1>7, <1>8 DEF InProxy, Weight, One
<1> QED BY <1>9 DEF after

\* When one call is replaced or over, a node's count changes by whether it
\* is handled there.
LEMMA CallMoved ==
  ASSUME IsFiniteSet(calls), NEW c \in calls, NEW d, NEW after, NEW n,
         \/ after = calls \ {c} /\ ~Handles(d, n)
         \/ after = (calls \ {c}) \union {d} /\ d \notin calls
         \/ after = (calls \ {c}) \union {d} /\ ~Handles(d, n)
  PROVE  /\ IsFiniteSet(after)
         /\ Handled(after, n) = Handled(calls, n) - One(Handles(c, n)) + One(Handles(d, n))
<1>1. IsFiniteSet(calls \ {c})
  BY FS_RemoveElement
<1>2. IsFiniteSet(after)
  BY <1>1, FS_AddElement
<1> DEFINE rest == Handling(calls, n) \ {c}
<1>3. IsFiniteSet(Handling(calls, n))
  <2>1. Handling(calls, n) \in SUBSET calls
    BY DEF Handling
  <2> QED BY <2>1, FS_Subset
<1>4. IsFiniteSet(rest) /\ Cardinality(rest) = Handled(calls, n) - One(Handles(c, n))
  <2>1. c \in Handling(calls, n) <=> Handles(c, n)
    BY DEF Handling
  <2>2. Cardinality(Handling(calls, n)) \in Nat
    BY <1>3, FS_CardinalityType
  <2> QED BY <1>3, <2>1, <2>2, FS_RemoveElement DEF Handled, One
<1>5. Cardinality(rest) \in Nat
  BY <1>4, FS_CardinalityType
<1>6. CASE ~Handles(d, n)
  <2>1. Handling(after, n) = rest
    BY <1>6 DEF Handling
  <2> QED BY <1>2, <1>4, <1>5, <1>6, <2>1 DEF Handled, One
<1>7. CASE Handles(d, n)
  <2>1. Handling(after, n) = rest \union {d} /\ d \notin rest
    BY <1>7 DEF Handling
  <2>2. Cardinality(Handling(after, n)) = Cardinality(rest) + 1
    BY <1>4, <2>1, FS_AddElement
  <2> QED BY <1>2, <1>4, <1>5, <1>7, <2>2 DEF Handled, One
<1> QED BY <1>6, <1>7

\* What the two functions of the code make of a counter.
LEMMA CountersTell ==
  ASSUME NEW count \in Nat, NEW mis \in BOOLEAN, NEW actual \in Nat, Tells(count, mis, actual)
  PROVE  /\ Incremented(count) \in Nat
         /\ Tells(Incremented(count), mis \/ count + 1 > MaxInflight, actual + 1)
         /\ Decremented(count) \in Nat
         /\ actual >= 1 => Tells(Decremented(count), mis, actual - 1)
  BY LimitsAssumption DEF Tells, Incremented, Decremented

\* One more is in flight at n, and it is counted.
LEMMA CountedUp ==
  ASSUME CountTyped, InflightCounted, NEW n \in Nodes, CountUp(n), IsFiniteSet(calls'),
         \A m \in Nodes : InFlight(send', calls', m)
                            = InFlight(send, calls, m) + One(m = n)
  PROVE  CountTyped' /\ InflightCounted'
<1>1. \A m \in Nodes : /\ InFlight(send, calls, m) \in Nat
                       /\ inflight[m] \in Nat /\ miscounted[m] \in BOOLEAN
  BY CountsAreNat DEF CountTyped
<1>2. \A m \in Nodes : Tells(inflight[m], miscounted[m], InFlight(send, calls, m))
  BY CountedIs
<1>3. /\ Incremented(inflight[n]) \in Nat
      /\ Tells(Incremented(inflight[n]), miscounted[n] \/ inflight[n] + 1 > MaxInflight,
               InFlight(send, calls, n) + 1)
  BY <1>1, <1>2, CountersTell
<1>4. /\ inflight' = [inflight EXCEPT ![n] = Incremented(inflight[n])]
      /\ miscounted' = [miscounted EXCEPT ![n] = miscounted[n] \/ inflight[n] + 1 > MaxInflight]
  BY DEF CountUp
<1>5. CountTyped'
  BY <1>1, <1>3, <1>4 DEF CountTyped
<1>6. ASSUME NEW m \in Nodes
      PROVE  Tells(inflight'[m], miscounted'[m], InFlight(send', calls', m))
  <2>1. CASE m = n
    <3>1. InFlight(send', calls', m) = InFlight(send, calls, n) + 1
      BY <2>1 DEF One
    <3>2. /\ inflight'[m] = Incremented(inflight[n])
          /\ miscounted'[m] = (miscounted[n] \/ inflight[n] + 1 > MaxInflight)
      BY <1>4, <2>1 DEF CountTyped
    <3> QED BY <1>3, <3>1, <3>2
  <2>2. CASE m # n
    <3>1. InFlight(send', calls', m) = InFlight(send, calls, m)
      BY <1>1, <2>2 DEF One
    <3>2. inflight'[m] = inflight[m] /\ miscounted'[m] = miscounted[m]
      BY <1>4, <2>2 DEF CountTyped
    <3> QED BY <1>2, <3>1, <3>2
  <2> QED BY <2>1, <2>2
<1> QED BY <1>5, <1>6, CountedIs

\* One less is in flight at n, and it is counted.
LEMMA CountedDown ==
  ASSUME CountTyped, InflightCounted, NEW n \in Nodes, IsFiniteSet(calls'),
         inflight' = [inflight EXCEPT ![n] = Decremented(@)], UNCHANGED miscounted,
         InFlight(send', calls', n) \in Nat,
         \A m \in Nodes : InFlight(send', calls', m)
                            = InFlight(send, calls, m) - One(m = n)
  PROVE  CountTyped' /\ InflightCounted'
<1>1. \A m \in Nodes : /\ InFlight(send, calls, m) \in Nat
                       /\ inflight[m] \in Nat /\ miscounted[m] \in BOOLEAN
  BY CountsAreNat DEF CountTyped
<1>2. \A m \in Nodes : Tells(inflight[m], miscounted[m], InFlight(send, calls, m))
  BY CountedIs
<1>3. InFlight(send', calls', n) = InFlight(send, calls, n) - 1
  BY DEF One
<1>4. InFlight(send, calls, n) >= 1
  BY <1>1, <1>3
<1>5. /\ Decremented(inflight[n]) \in Nat
      /\ Tells(Decremented(inflight[n]), miscounted[n], InFlight(send, calls, n) - 1)
  BY <1>1, <1>2, <1>4, CountersTell
<1>6. CountTyped'
  BY <1>1, <1>5 DEF CountTyped
<1>7. ASSUME NEW m \in Nodes
      PROVE  Tells(inflight'[m], miscounted'[m], InFlight(send', calls', m))
  <2>1. CASE m = n
    <3>1. inflight'[m] = Decremented(inflight[n]) /\ miscounted'[m] = miscounted[n]
      BY <2>1 DEF CountTyped
    <3> QED BY <1>3, <1>5, <2>1, <3>1
  <2>2. CASE m # n
    <3>1. InFlight(send', calls', m) = InFlight(send, calls, m)
      BY <1>1, <2>2 DEF One
    <3>2. inflight'[m] = inflight[m] /\ miscounted'[m] = miscounted[m]
      BY <2>2 DEF CountTyped
    <3> QED BY <1>2, <3>1, <3>2
  <2> QED BY <2>1, <2>2
<1> QED BY <1>6, <1>7, CountedIs

\* As many are in flight as before.
LEMMA CountedStill ==
  ASSUME CountTyped, InflightCounted, UNCHANGED <<inflight, miscounted>>, IsFiniteSet(calls'),
         \A m \in Nodes : InFlight(send', calls', m)
                            = InFlight(send, calls, m)
  PROVE  CountTyped' /\ InflightCounted'
<1>1. CountTyped'
  BY DEF CountTyped
<1>2. \A m \in Nodes : Tells(inflight'[m], miscounted'[m], InFlight(send', calls', m))
  BY CountedIs
<1> QED BY <1>1, <1>2, CountedIs

\* A request that was rerouted to this node counts twice, and ends.
LEMMA CountedDownTwice ==
  ASSUME CountTyped, InflightCounted, NEW n \in Nodes, IsFiniteSet(calls'),
         inflight' = [inflight EXCEPT ![n] = Decremented(Decremented(@))], UNCHANGED miscounted,
         InFlight(send', calls', n) \in Nat,
         \A m \in Nodes : InFlight(send', calls', m)
                            = InFlight(send, calls, m) - 2 * One(m = n)
  PROVE  CountTyped' /\ InflightCounted'
<1>1. \A m \in Nodes : /\ InFlight(send, calls, m) \in Nat
                       /\ inflight[m] \in Nat /\ miscounted[m] \in BOOLEAN
  BY CountsAreNat DEF CountTyped
<1>2. \A m \in Nodes : Tells(inflight[m], miscounted[m], InFlight(send, calls, m))
  BY CountedIs
<1>3. InFlight(send', calls', n) = InFlight(send, calls, n) - 2
  BY DEF One
<1>4. InFlight(send, calls, n) >= 2
  BY <1>1, <1>3
<1>5. /\ Decremented(inflight[n]) \in Nat
      /\ Tells(Decremented(inflight[n]), miscounted[n], InFlight(send, calls, n) - 1)
  BY <1>1, <1>2, <1>4, CountersTell
<1>6. /\ Decremented(Decremented(inflight[n])) \in Nat
      /\ Tells(Decremented(Decremented(inflight[n])), miscounted[n],
               InFlight(send, calls, n) - 1 - 1)
  <2>1. InFlight(send, calls, n) - 1 \in Nat /\ InFlight(send, calls, n) - 1 >= 1
    BY <1>1, <1>4
  <2> QED BY <1>1, <1>5, <2>1, CountersTell
<1>7. InFlight(send', calls', n) = InFlight(send, calls, n) - 1 - 1
  BY <1>1, <1>3
<1>8. CountTyped'
  BY <1>1, <1>6 DEF CountTyped
<1>9. ASSUME NEW m \in Nodes
      PROVE  Tells(inflight'[m], miscounted'[m], InFlight(send', calls', m))
  <2>1. CASE m = n
    <3>1. inflight'[m] = Decremented(Decremented(inflight[n])) /\ miscounted'[m] = miscounted[n]
      BY <2>1 DEF CountTyped
    <3> QED BY <1>6, <1>7, <2>1, <3>1
  <2>2. CASE m # n
    <3>1. InFlight(send', calls', m) = InFlight(send, calls, m)
      BY <1>1, <2>2 DEF One
    <3>2. inflight'[m] = inflight[m] /\ miscounted'[m] = miscounted[m]
      BY <2>2 DEF CountTyped
    <3> QED BY <1>2, <3>1, <3>2
  <2> QED BY <2>1, <2>2
<1> QED BY <1>8, <1>9, CountedIs

-----------------------------------------------------------------------------
(***************************************************************************)
(* What each step does to the counts.                                      *)
(***************************************************************************)

\* The calls that are handled stay the same.
SameHandled == IsFiniteSet(calls') /\ \A m \in Nodes : Handled(calls', m) = Handled(calls, m)

\* Calls come and go that nobody handles.
LEMMA NoneHandled ==
  ASSUME NEW c, c.stage # "handling", IsFiniteSet(calls),
         calls' = calls \/ calls' = calls \union {c} \/ calls' = calls \ {c}
  PROVE  SameHandled
<1>1. IsFiniteSet(calls')
  BY FS_AddElement, FS_RemoveElement
<1>2. \A m : Handling(calls', m) = Handling(calls, m)
  BY DEF Handling, Handles
<1> QED BY <1>1, <1>2 DEF SameHandled, Handled

\* One request changes, and no call that is handled.
LEMMA SendMoves ==
  ASSUME IInv, CountTyped, SameHandled, NEW r \in Requests, NEW next \in Sends,
         send' = [send EXCEPT ![r] = next], NEW m \in Nodes
  PROVE  /\ InFlight(send', calls', m)
              = InFlight(send, calls, m) - Weight(send[r], m) + Weight(next, m)
         /\ InFlight(send', calls', m) \in Nat
<1>1. send \in [Requests -> Sends] /\ IsFiniteSet(calls) /\ IsFiniteSet(calls')
  BY DEF IInv, Typed, CountTyped, SameHandled
<1>2. InProxy(send', m) = InProxy(send, m) - Weight(send[r], m) + Weight(next, m)
  BY <1>1, RequestMoved
<1>3. /\ InProxy(send, m) \in Nat /\ InProxy(send', m) \in Nat
      /\ Handled(calls, m) \in Nat /\ Handled(calls', m) = Handled(calls, m)
  BY <1>1, CountsAreNat DEF SameHandled
<1>4. Weight(send[r], m) \in Nat /\ Weight(next, m) \in Nat
  BY DEF Weight, One
<1> QED BY <1>2, <1>3, <1>4 DEF InFlight

\* A request in another stage, at the same node.
LEMMA StageTyped ==
  ASSUME NEW s \in Sends, NEW stage \in Stages
  PROVE  /\ [s EXCEPT !.stage = stage] \in Sends
         /\ [s EXCEPT !.stage = stage].stage = stage
         /\ [s EXCEPT !.stage = stage].at = s.at
  BY DEF Sends

\* A request is over, and is counted down once.
LEMMA FinishCounts ==
  ASSUME CInv, NEW r \in Requests, send[r].stage \in InProgress \ {"local"},
         Finish(r), SameHandled
  PROVE  CountTyped' /\ InflightCounted'
<1> DEFINE next == [send[r] EXCEPT !.stage = "answered"]
<1>1. send[r] \in Sends /\ send[r].at \in Nodes
  BY DEF CInv, IInv, Typed, Proxied
<1>2. next \in Sends /\ next.stage = "answered" /\ next.at = send[r].at
  BY <1>1, StageTyped
<1>3. send' = [send EXCEPT ![r] = next]
  BY DEF Finish, Goes
<1> HIDE DEF next
<1>4. ASSUME NEW m \in Nodes
      PROVE  /\ InFlight(send', calls', m) = InFlight(send, calls, m) - One(m = send[r].at)
             /\ InFlight(send', calls', m) \in Nat
  <2>1. Weight(next, m) = 0 /\ Weight(send[r], m) = One(m = send[r].at)
    BY <1>2 DEF Weight, One, Proxies, Reroutes
  <2>2. InFlight(send, calls, m) \in Nat
    BY CountsAreNat DEF CInv, CountTyped
  <2>3. /\ InFlight(send', calls', m)
             = InFlight(send, calls, m) - Weight(send[r], m) + Weight(next, m)
        /\ InFlight(send', calls', m) \in Nat
    BY <1>2, <1>3, SendMoves DEF CInv
  <2> QED BY <2>1, <2>2, <2>3 DEF One
<1> QED BY <1>1, <1>4, CountedDown DEF CInv, Finish, SameHandled

\* A request goes on at its node, and counts as before.
LEMMA GoesOnCounts ==
  ASSUME CInv, NEW r \in Requests, send[r].stage \in InProgress \ {"local"},
         NEW next \in Sends, next.stage \in InProgress \ {"local"}, next.at = send[r].at,
         send' = [send EXCEPT ![r] = next], UNCHANGED <<inflight, miscounted>>, SameHandled
  PROVE  CountTyped' /\ InflightCounted'
<1>1. ASSUME NEW m \in Nodes
      PROVE  InFlight(send', calls', m) = InFlight(send, calls, m)
  <2>1. Weight(next, m) = Weight(send[r], m) /\ Weight(next, m) \in Nat
    BY DEF Weight, One, Proxies, Reroutes
  <2>2. InFlight(send, calls, m) \in Nat
    BY CountsAreNat DEF CInv, CountTyped
  <2>3. InFlight(send', calls', m)
          = InFlight(send, calls, m) - Weight(send[r], m) + Weight(next, m)
    BY SendMoves DEF CInv
  <2> QED BY <2>1, <2>2, <2>3
<1> QED BY <1>1, CountedStill DEF CInv, SameHandled

\* A request is sent, or over because the node is destroyed.
LEMMA SendToCounts ==
  ASSUME CInv, NEW r \in Requests, send[r].stage \in InProgress \ {"local"},
         NEW d \in Nodes, NEW retries \in Nat, SendTo(r, d, retries), SameHandled
  PROVE  CountTyped' /\ InflightCounted'
<1>1. CASE Finish(r)
  BY <1>1, FinishCounts
<1>2. CASE /\ send' = [send EXCEPT ![r].stage = "connecting", ![r].to = d, ![r].retries = retries]
           /\ UNCHANGED <<inflight, miscounted>>
  <2> DEFINE next == [[[send[r] EXCEPT !.stage = "connecting"] EXCEPT !.to = d]
                        EXCEPT !.retries = retries]
  <2>1. send[r] \in Sends /\ send \in [Requests -> Sends]
    BY DEF CInv, IInv, Typed
  <2>2. send' = [send EXCEPT ![r] = next]
    BY <1>2
  <2>3. next \in Sends /\ next.stage = "connecting" /\ next.at = send[r].at
    BY <2>1 DEF Sends
  <2> HIDE DEF next
  <2> QED BY <1>2, <2>2, <2>3, GoesOnCounts
<1> QED BY <1>1, <1>2 DEF SendTo

\* An attempt failed.
LEMMA FailedCounts ==
  ASSUME CInv, NEW r \in Requests, send[r].stage \in InProgress \ {"local"},
         Failed(r), SameHandled
  PROVE  CountTyped' /\ InflightCounted'
<1>1. CASE Finish(r)
  BY <1>1, FinishCounts
<1>2. CASE Goes(r, "waiting") /\ UNCHANGED <<inflight, miscounted>>
  <2> DEFINE next == [send[r] EXCEPT !.stage = "waiting"]
  <2>1. send[r] \in Sends
    BY DEF CInv, IInv, Typed
  <2>2. next \in Sends /\ next.stage = "waiting" /\ next.at = send[r].at
    BY <2>1, StageTyped
  <2>3. send' = [send EXCEPT ![r] = next]
    BY <1>2 DEF Goes
  <2> HIDE DEF next
  <2> QED BY <1>2, <2>2, <2>3, GoesOnCounts
<1> QED BY <1>1, <1>2 DEF Failed

\* A request reaches a node that proxies or refuses it.
LEMMA ProxyReqCounts ==
  ASSUME CInv, NEW r \in Requests, NEW n \in Nodes, ProxyReq(r, n)
  PROVE  CountTyped' /\ InflightCounted'
<1>1. /\ send[r] \in Sends /\ send[r].stage = "new"
      /\ IsFiniteSet(calls) /\ UNCHANGED calls
  BY DEF CInv, IInv, Typed, CountTyped, ProxyReq
<1>2. SameHandled
  BY <1>1 DEF SameHandled
<1>3. \A m \in Nodes : InFlight(send, calls, m) \in Nat /\ Weight(send[r], m) = 0
  BY <1>1, CountsAreNat DEF Weight, One, Proxies, Reroutes
<1>4. PICK keys \in (SUBSET Keys) \ {{}}, d \in Nodes \ {n}, pinned \in BOOLEAN :
        \/ /\ send' = [send EXCEPT ![r].stage = "answered", ![r].at = n]
           /\ UNCHANGED <<inflight, miscounted>>
        \/ /\ send' = [send EXCEPT ![r].stage = "body", ![r].at = n, ![r].keys = keys,
                                   ![r].dest = d, ![r].pinned = pinned]
           /\ CountUp(n)
  BY DEF ProxyReq
<1>5. CASE /\ send' = [send EXCEPT ![r].stage = "answered", ![r].at = n]
           /\ UNCHANGED <<inflight, miscounted>>
  <2> DEFINE next == [[send[r] EXCEPT !.stage = "answered"] EXCEPT !.at = n]
  <2>1. send' = [send EXCEPT ![r] = next]
    BY <1>5
  <2>2. next \in Sends /\ next.stage = "answered"
    BY <1>1 DEF Sends
  <2> HIDE DEF next
  <2>3. ASSUME NEW m \in Nodes
        PROVE  InFlight(send', calls', m) = InFlight(send, calls, m)
    <3>1. Weight(next, m) = 0
      BY <2>2 DEF Weight, One, Proxies, Reroutes
    <3>2. InFlight(send', calls', m)
            = InFlight(send, calls, m) - Weight(send[r], m) + Weight(next, m)
      BY <1>2, <2>1, <2>2, SendMoves DEF CInv
    <3> QED BY <1>3, <3>1, <3>2
  <2> QED BY <1>2, <1>5, <2>3, CountedStill DEF CInv, SameHandled
<1>6. CASE /\ send' = [send EXCEPT ![r].stage = "body", ![r].at = n, ![r].keys = keys,
                                   ![r].dest = d, ![r].pinned = pinned]
           /\ CountUp(n)
  <2> DEFINE next == [[[[[send[r] EXCEPT !.stage = "body"] EXCEPT !.at = n]
                        EXCEPT !.keys = keys] EXCEPT !.dest = d] EXCEPT !.pinned = pinned]
  <2>1. send' = [send EXCEPT ![r] = next]
    BY <1>6
  <2>2. next \in Sends /\ next.stage = "body" /\ next.at = n
    BY <1>1 DEF Sends
  <2> HIDE DEF next
  <2>3. ASSUME NEW m \in Nodes
        PROVE  InFlight(send', calls', m) = InFlight(send, calls, m) + One(m = n)
    <3>1. Weight(next, m) = One(m = n) /\ One(m = n) \in Nat
      BY <2>2 DEF Weight, One, Proxies, Reroutes
    <3>2. InFlight(send', calls', m)
            = InFlight(send, calls, m) - Weight(send[r], m) + Weight(next, m)
      BY <1>2, <2>1, <2>2, SendMoves DEF CInv
    <3> QED BY <1>3, <3>1, <3>2
  <2> QED BY <1>2, <1>6, <2>3, CountedUp DEF CInv, SameHandled
<1> QED BY <1>4, <1>5, <1>6

\* A request leaves, or the connection failed.
LEMMA ConnectedCounts ==
  ASSUME CInv, NEW r \in Requests, Connected(r)
  PROVE  CountTyped' /\ InflightCounted'
<1>1. send[r] \in Sends /\ send[r].stage = "connecting" /\ IsFiniteSet(calls)
  BY DEF CInv, IInv, Typed, CountTyped, Connected
<1>2. CASE Finish(r) /\ UNCHANGED calls
  <2>1. SameHandled
    BY <1>1, <1>2 DEF SameHandled
  <2> QED BY <1>1, <1>2, <2>1, FinishCounts
<1>3. CASE /\ Goes(r, "sent") /\ UNCHANGED <<inflight, miscounted>>
           /\ calls' = calls \union
                {[req |-> r, try |-> send[r].retries, to |-> send[r].to,
                  checksum |-> ring[send[r].at], stage |-> "request", ok |-> FALSE]}
  <2> DEFINE call == [req |-> r, try |-> send[r].retries, to |-> send[r].to,
                      checksum |-> ring[send[r].at], stage |-> "request", ok |-> FALSE]
             next == [send[r] EXCEPT !.stage = "sent"]
  <2>1. SameHandled
    <3>1. call.stage # "handling" /\ calls' = calls \union {call}
      BY <1>3
    <3> HIDE DEF call
    <3> QED BY <1>1, <3>1, NoneHandled
  <2>2. next \in Sends /\ next.stage = "sent" /\ next.at = send[r].at
    BY <1>1, StageTyped
  <2>3. send' = [send EXCEPT ![r] = next]
    BY <1>3 DEF Goes
  <2> HIDE DEF next
  <2> QED BY <1>1, <1>3, <2>1, <2>2, <2>3, GoesOnCounts
<1> QED BY <1>2, <1>3 DEF Connected

\* The keys of a request are looked up again: it is aborted, sent again or
\* rerouted to its own node, where it counts twice.
LEMMA AttemptRetryCounts ==
  ASSUME CInv, NEW r \in Requests, AttemptRetry(r)
  PROVE  CountTyped' /\ InflightCounted'
<1>1. /\ send[r] \in Sends /\ send[r].stage = "waiting" /\ send[r].at \in Nodes
      /\ IsFiniteSet(calls) /\ UNCHANGED calls
  BY DEF CInv, IInv, Typed, CountTyped, AttemptRetry, Proxied
<1>2. SameHandled /\ send[r].retries + 1 \in Nat
  BY <1>1 DEF SameHandled, Sends
<1>3. CASE Finish(r)
  BY <1>1, <1>2, <1>3, FinishCounts
<1>4. ASSUME NEW d \in Nodes, SendTo(r, d, send[r].retries + 1)
      PROVE  CountTyped' /\ InflightCounted'
  BY <1>1, <1>2, <1>4, SendToCounts
<1>5. CASE /\ send' = [send EXCEPT ![r].stage = "local", ![r].retries = @ + 1]
           /\ CountUp(send[r].at)
  <2> DEFINE next == [[send[r] EXCEPT !.stage = "local"] EXCEPT !.retries = send[r].retries + 1]
  <2>1. send' = [send EXCEPT ![r] = next]
    BY <1>1, <1>5 DEF CInv, IInv, Typed, Sends
  <2>2. next \in Sends /\ next.stage = "local" /\ next.at = send[r].at
    <3>1. [send[r] EXCEPT !.stage = "local"] \in Sends
      BY <1>1 DEF Sends
    <3> QED BY <1>1, <1>2, <3>1 DEF Sends
  <2> HIDE DEF next
  <2>3. ASSUME NEW m \in Nodes
        PROVE  InFlight(send', calls', m) = InFlight(send, calls, m) + One(m = send[r].at)
    <3>1. /\ Weight(send[r], m) = One(m = send[r].at) /\ One(m = send[r].at) \in Nat
          /\ Weight(next, m) = One(m = send[r].at) + One(m = send[r].at)
      BY <1>1, <2>2 DEF Weight, One, Proxies, Reroutes
    <3>2. InFlight(send', calls', m)
            = InFlight(send, calls, m) - Weight(send[r], m) + Weight(next, m)
      BY <1>2, <2>1, <2>2, SendMoves DEF CInv
    <3>3. InFlight(send, calls, m) \in Nat
      BY <1>1, CountsAreNat
    <3> QED BY <3>1, <3>2, <3>3
  <2> QED BY <1>1, <1>2, <1>5, <2>3, CountedUp DEF CInv, SameHandled
<1>6. CASE \E d \in Nodes : SendTo(r, d, send[r].retries + 1)
  BY <1>4, <1>6
<1> QED BY <1>1, <1>3, <1>5, <1>6 DEF AttemptRetry, Diverged, HandleLocally

\* The application has answered a request that was rerouted to its node.
LEMMA LocalDoneCounts ==
  ASSUME CInv, NEW r \in Requests, LocalDone(r)
  PROVE  CountTyped' /\ InflightCounted'
<1> DEFINE next == [send[r] EXCEPT !.stage = "answered"]
<1>1. /\ send[r] \in Sends /\ send[r].stage = "local" /\ send[r].at \in Nodes
      /\ IsFiniteSet(calls) /\ UNCHANGED calls
  BY DEF CInv, IInv, Typed, CountTyped, LocalDone, Proxied
<1>2. SameHandled
  BY <1>1 DEF SameHandled
<1>3. next \in Sends /\ next.stage = "answered" /\ next.at = send[r].at
  BY <1>1, StageTyped
<1>4. send' = [send EXCEPT ![r] = next]
  BY DEF LocalDone, Goes
<1> HIDE DEF next
<1>5. ASSUME NEW m \in Nodes
      PROVE  /\ InFlight(send', calls', m) = InFlight(send, calls, m) - 2 * One(m = send[r].at)
             /\ InFlight(send', calls', m) \in Nat
  <2>1. Weight(next, m) = 0 /\ Weight(send[r], m) = 2 * One(m = send[r].at)
    BY <1>1, <1>3 DEF Weight, One, Proxies, Reroutes
  <2>2. InFlight(send, calls, m) \in Nat
    BY <1>1, CountsAreNat
  <2>3. /\ InFlight(send', calls', m)
             = InFlight(send, calls, m) - Weight(send[r], m) + Weight(next, m)
        /\ InFlight(send', calls', m) \in Nat
    BY <1>2, <1>3, <1>4, SendMoves DEF CInv
  <2> QED BY <2>1, <2>2, <2>3 DEF One
<1> QED BY <1>1, <1>2, <1>5, CountedDownTwice DEF CInv, SameHandled, LocalDone

\* A call is answered, or given to the application, and no request changes.
LEMMA CallCounts ==
  ASSUME CInv, NEW c \in calls, NEW d \in Calls, UNCHANGED send,
         NEW m \in Nodes,
         \/ calls' = calls \ {c} /\ ~Handles(d, m)
         \/ calls' = (calls \ {c}) \union {d} /\ d \notin calls
         \/ calls' = (calls \ {c}) \union {d} /\ ~Handles(d, m)
  PROVE  /\ IsFiniteSet(calls')
         /\ InFlight(send', calls', m)
              = InFlight(send, calls, m) - One(Handles(c, m)) + One(Handles(d, m))
         /\ InFlight(send', calls', m) \in Nat
<1>1. IsFiniteSet(calls)
  BY DEF CInv, CountTyped
<1>2. /\ IsFiniteSet(calls')
      /\ Handled(calls', m) = Handled(calls, m) - One(Handles(c, m)) + One(Handles(d, m))
  BY <1>1, CallMoved
<1>3. /\ InProxy(send, m) \in Nat /\ Handled(calls, m) \in Nat /\ Handled(calls', m) \in Nat
  BY <1>1, <1>2, CountsAreNat
<1>4. One(Handles(c, m)) \in Nat /\ One(Handles(d, m)) \in Nat
  BY DEF One
<1> QED BY <1>2, <1>3, <1>4 DEF InFlight

\* A call is refused, or given to the application and counted.
LEMMA HandleRequestCounts ==
  ASSUME CInv, NEW c \in calls, HandleRequest(c)
  PROVE  CountTyped' /\ InflightCounted'
<1>1. /\ c \in Calls /\ c.stage = "request" /\ c.to \in Nodes
      /\ IsFiniteSet(calls) /\ UNCHANGED send
  BY DEF CInv, IInv, Typed, CountTyped, Calls, HandleRequest
<1>2. \A m \in Nodes : InFlight(send, calls, m) \in Nat
  BY <1>1, CountsAreNat
<1>3. ASSUME NEW ok \in BOOLEAN, Reply(c, ok), UNCHANGED <<inflight, miscounted>>
      PROVE  CountTyped' /\ InflightCounted'
  <2> DEFINE answer == [c EXCEPT !.stage = "answer", !.ok = ok]
  <2>1. answer \in Calls /\ answer.stage = "answer"
    BY <1>1, CallTyped
  <2>2. calls' = calls \ {c} \/ calls' = (calls \ {c}) \union {answer}
    BY <1>3 DEF Reply
  <2> HIDE DEF answer
  <2>3. ASSUME NEW m \in Nodes
        PROVE  /\ IsFiniteSet(calls')
               /\ InFlight(send', calls', m) = InFlight(send, calls, m)
    <3>1. ~Handles(c, m) /\ ~Handles(answer, m)
      BY <1>1, <2>1 DEF Handles
    <3>2. /\ IsFiniteSet(calls')
          /\ InFlight(send', calls', m)
               = InFlight(send, calls, m) - One(Handles(c, m)) + One(Handles(answer, m))
      BY <1>1, <2>1, <2>2, <3>1, CallCounts
    <3> QED BY <1>2, <3>1, <3>2 DEF One
  <2> QED BY <1>1, <1>3, <2>3, CountedStill DEF CInv
<1>4. CASE /\ calls' = (calls \ {c}) \union {[c EXCEPT !.stage = "handling"]}
           /\ CountUp(c.to)
  <2> DEFINE handling == [c EXCEPT !.stage = "handling"]
  <2>1. /\ handling \in Calls /\ handling.stage = "handling"
        /\ handling.req = c.req /\ handling.try = c.try
    BY <1>1, CallTyped
  <2>2. handling.to = c.to
    BY <1>1 DEF Calls
  <2>3. calls' = (calls \ {c}) \union {handling}
    BY <1>4
  <2> HIDE DEF handling
  <2>4. handling \notin calls
    BY <1>1, <2>1 DEF CInv, IInv, Attempts
  <2>5. ASSUME NEW m \in Nodes
        PROVE  /\ IsFiniteSet(calls')
               /\ InFlight(send', calls', m) = InFlight(send, calls, m) + One(m = c.to)
    <3>1. ~Handles(c, m) /\ (Handles(handling, m) <=> m = c.to)
      BY <1>1, <2>1, <2>2 DEF Handles
    <3>2. /\ IsFiniteSet(calls')
          /\ InFlight(send', calls', m)
               = InFlight(send, calls, m) - One(Handles(c, m)) + One(Handles(handling, m))
      BY <1>1, <2>1, <2>3, <2>4, CallCounts
    <3> QED BY <1>2, <3>1, <3>2 DEF One
  <2> QED BY <1>1, <1>4, <2>5, CountedUp DEF CInv
<1> QED BY <1>3, <1>4 DEF HandleRequest

\* The application has answered a call.
LEMMA RespondCounts ==
  ASSUME CInv, NEW c \in calls, Respond(c)
  PROVE  CountTyped' /\ InflightCounted'
<1>1. /\ c \in Calls /\ c.stage = "handling" /\ c.to \in Nodes
      /\ IsFiniteSet(calls) /\ UNCHANGED send
  BY DEF CInv, IInv, Typed, CountTyped, Calls, Respond
<1>2. PICK ok \in BOOLEAN : Reply(c, ok)
  BY DEF Respond
<1> DEFINE answer == [c EXCEPT !.stage = "answer", !.ok = ok]
<1>3. answer \in Calls /\ answer.stage = "answer"
  BY <1>1, CallTyped
<1>4. calls' = calls \ {c} \/ calls' = (calls \ {c}) \union {answer}
  BY <1>2 DEF Reply
<1> HIDE DEF answer
<1>5. ASSUME NEW m \in Nodes
      PROVE  /\ IsFiniteSet(calls') /\ InFlight(send', calls', m) \in Nat
             /\ InFlight(send', calls', m) = InFlight(send, calls, m) - One(m = c.to)
  <2>1. (Handles(c, m) <=> m = c.to) /\ ~Handles(answer, m)
    BY <1>1, <1>3 DEF Handles
  <2>2. /\ IsFiniteSet(calls') /\ InFlight(send', calls', m) \in Nat
        /\ InFlight(send', calls', m)
             = InFlight(send, calls, m) - One(Handles(c, m)) + One(Handles(answer, m))
    BY <1>1, <1>3, <1>4, <2>1, CallCounts
  <2>3. InFlight(send, calls, m) \in Nat
    BY <1>1, CountsAreNat
  <2> QED BY <2>1, <2>2, <2>3 DEF One
<1>6. inflight' = [inflight EXCEPT ![c.to] = Decremented(@)] /\ UNCHANGED miscounted
  BY DEF Respond
<1> QED BY <1>1, <1>5, <1>6, CountedDown DEF CInv

\* A node that is destroyed drops who waits there; they stay counted.
LEMMA DestroyCounts ==
  ASSUME CInv, NEW n \in Nodes, Destroy(n)
  PROVE  CountTyped' /\ InflightCounted'
<1>1. /\ send \in [Requests -> Sends] /\ IsFiniteSet(calls)
      /\ UNCHANGED <<inflight, miscounted, calls>>
  BY DEF CInv, IInv, Typed, CountTyped, Destroy
<1>2. \A q \in Requests :
        \/ send'[q] = send[q]
        \/ /\ send[q].stage = "waiting" /\ send'[q].stage = "dropped"
           /\ send'[q].at = send[q].at
  BY <1>1 DEF Destroy, Sends
<1>3. \A m : /\ Proxying(send', m) = Proxying(send, m)
             /\ Rerouting(send', m) = Rerouting(send, m)
  BY <1>2 DEF Proxying, Rerouting, Proxies, Reroutes
<1>4. \A m : InFlight(send', calls', m) = InFlight(send, calls, m)
  BY <1>1, <1>3 DEF InFlight, InProxy
<1> QED BY <1>1, <1>4, CountedStill DEF CInv

\* Nothing is in flight at first.
LEMMA InitCounted == Init => CountTyped /\ InflightCounted
<1> SUFFICES ASSUME Init PROVE CountTyped /\ InflightCounted
  OBVIOUS
<1>1. CountTyped
  BY FS_EmptySet DEF Init, CountTyped
<1>2. \A n : Proxying(send, n) = {} /\ Rerouting(send, n) = {} /\ Handling(calls, n) = {}
  BY DEF Init, Proxying, Rerouting, Handling, Proxies, Reroutes
<1>3. \A n : InFlight(send, calls, n) = 0
  BY <1>2, FS_EmptySet DEF InFlight, InProxy, Handled
<1>4. \A n \in Nodes : Tells(inflight[n], miscounted[n], InFlight(send, calls, n))
  <2> SUFFICES ASSUME NEW n \in Nodes
               PROVE  Tells(inflight[n], miscounted[n], InFlight(send, calls, n))
    OBVIOUS
  <2>1. inflight[n] = 0 /\ miscounted[n] = FALSE
    BY DEF Init
  <2>2. 0 <= 0
    OBVIOUS
  <2> QED BY <1>3, <2>1, <2>2 DEF Tells
<1> QED BY <1>1, <1>4, CountedIs

\* Every step counts what it begins and what it ends.
LEMMA NextCounts == CInv /\ [Next]_vars => CInv'
<1> SUFFICES ASSUME CInv, [Next]_vars PROVE CountTyped' /\ InflightCounted'
  BY NextIInv DEF CInv
<1>same. ASSUME UNCHANGED <<inflight, miscounted, send, calls>>
         PROVE  CountTyped' /\ InflightCounted'
  BY <1>same DEF CInv, CountTyped, InflightCounted, Actual
<1>body. ASSUME NEW r \in Requests, BodyRead(r) PROVE CountTyped' /\ InflightCounted'
  <2>1. /\ send[r].stage = "body" /\ send[r].dest \in Nodes /\ SameHandled
    BY <1>body DEF BodyRead, CInv, IInv, Proxied, CountTyped, SameHandled
  <2>2. CASE SendTo(r, send[r].dest, 0)
    BY <2>1, <2>2, SendToCounts
  <2>3. CASE Finish(r)
    BY <2>1, <2>3, FinishCounts
  <2> QED BY <1>body, <2>2, <2>3 DEF BodyRead
<1>answered. ASSUME NEW r \in Requests, Answered(r) PROVE CountTyped' /\ InflightCounted'
  <2>1. PICK c \in calls :
          /\ Awaited(r, c) /\ c.stage = "answer" /\ calls' = calls \ {c}
          /\ Finish(r) \/ Failed(r)
    BY <1>answered DEF Answered
  <2>2. SameHandled /\ send[r].stage = "sent"
    BY <2>1, NoneHandled DEF CInv, CountTyped, Awaited
  <2> QED BY <2>1, <2>2, FinishCounts, FailedCounts
<1>timeout. ASSUME NEW r \in Requests, TimedOut(r) PROVE CountTyped' /\ InflightCounted'
  <2>1. SameHandled /\ send[r].stage = "sent" /\ Failed(r)
    BY <1>timeout DEF TimedOut, CInv, CountTyped, SameHandled
  <2> QED BY <2>1, FailedCounts
<1>send. ASSUME NEW r \in Requests, SendStep(r) PROVE CountTyped' /\ InflightCounted'
  BY <1>send, <1>body, <1>answered, <1>timeout, ConnectedCounts, AttemptRetryCounts,
     LocalDoneCounts DEF SendStep
<1>ring. ASSUME NEW n \in Nodes, ChangeRing(n) PROVE CountTyped' /\ InflightCounted'
  BY <1>ring, <1>same DEF ChangeRing
<1>pressure. CASE SetBackpressure
  BY <1>pressure, <1>same DEF SetBackpressure
<1>stutter. CASE UNCHANGED vars
  BY <1>stutter, <1>same DEF vars
<1> QED
  BY <1>send, <1>ring, <1>pressure, <1>stutter,
     ProxyReqCounts, HandleRequestCounts, RespondCounts, DestroyCounts DEF Next

\* The counter of every node tells what it has in flight, as proxy and as
\* handler, however requests end (lib/request-proxy/index.js); it is too low
\* at most, and only once it was held to its maximum.
THEOREM CounterTells == Spec => []InflightCounted
<1>1. Init => CInv
  BY InitIInv, InitCounted DEF CInv
<1>2. CInv => InflightCounted
  BY DEF CInv
<1> QED BY <1>1, <1>2, NextCounts, PTL DEF Spec

-----------------------------------------------------------------------------
(***************************************************************************)
(* Types, of which the retries and the counter have bounds: a request      *)
(* waits only when it may be tried once more, and the counter is held to   *)
(* its limits.                                                             *)
(***************************************************************************)

RetriesBounded ==
  \A r \in Requests :
    /\ send[r].retries <= MaxRetries
    /\ send[r].stage = "waiting" => send[r].retries < MaxRetries

AroundTyped ==
  /\ changes \in 0..MaxChanges
  /\ backpressure \in BOOLEAN
  /\ destroyed \subseteq Nodes

CounterBounded == inflight \in [Nodes -> 0..MaxInflight] /\ miscounted \in [Nodes -> BOOLEAN]

TInv == IInv /\ RetriesBounded /\ AroundTyped /\ CounterBounded

\* The two functions of the code keep a counter between its limits.
LEMMA CountersBounded ==
  ASSUME NEW count \in 0..MaxInflight
  PROVE  Incremented(count) \in 0..MaxInflight /\ Decremented(count) \in 0..MaxInflight
  BY LimitsAssumption DEF Incremented, Decremented

\* Whatever counts keeps the counters between their limits.
LEMMA CountKeepsBounds ==
  ASSUME CounterBounded, NEW n \in Nodes,
         \/ CountUp(n)
         \/ inflight' = [inflight EXCEPT ![n] = Decremented(@)] /\ UNCHANGED miscounted
         \/ /\ inflight' = [inflight EXCEPT ![n] = Decremented(Decremented(@))]
            /\ UNCHANGED miscounted
         \/ UNCHANGED <<inflight, miscounted>>
  PROVE  CounterBounded'
<1>1. inflight[n] \in 0..MaxInflight /\ miscounted[n] \in BOOLEAN
  BY DEF CounterBounded
<1>2. /\ Incremented(inflight[n]) \in 0..MaxInflight
      /\ Decremented(inflight[n]) \in 0..MaxInflight
      /\ Decremented(Decremented(inflight[n])) \in 0..MaxInflight
  BY <1>1, CountersBounded
<1> QED BY <1>2 DEF CounterBounded, CountUp

\* A request in another stage has as many retries as before.
LEMMA StageKeepsRetries ==
  ASSUME IInv, RetriesBounded, NEW r \in Requests, NEW stage \in Stages, Goes(r, stage),
         stage = "waiting" => send[r].retries < MaxRetries
  PROVE  RetriesBounded'
<1> DEFINE next == [send[r] EXCEPT !.stage = stage]
<1>1. send[r] \in Sends /\ send \in [Requests -> Sends]
  BY DEF IInv, Typed
<1>2. next.stage = stage /\ next.retries = send[r].retries
  BY <1>1 DEF Sends
<1>3. send' = [send EXCEPT ![r] = next]
  BY DEF Goes
<1> HIDE DEF next
<1> QED BY <1>1, <1>2, <1>3 DEF RetriesBounded

\* A request is over, or is sent with so many retries.
LEMMA SendToBounded ==
  ASSUME TInv, NEW r \in Requests, send[r].stage \in InProgress, NEW d \in Nodes,
         NEW retries \in 0..MaxRetries, Finish(r) \/ SendTo(r, d, retries)
  PROVE  RetriesBounded' /\ CounterBounded'
<1>1. /\ send[r] \in Sends /\ send \in [Requests -> Sends] /\ send[r].at \in Nodes
  BY DEF TInv, IInv, Typed, Proxied
<1>2. CASE Finish(r)
  BY <1>1, <1>2, StageKeepsRetries, CountKeepsBounds DEF TInv, Finish
<1>3. CASE /\ send' = [send EXCEPT ![r].stage = "connecting", ![r].to = d, ![r].retries = retries]
           /\ UNCHANGED <<inflight, miscounted>>
  <2> DEFINE next == [[[send[r] EXCEPT !.stage = "connecting"] EXCEPT !.to = d]
                        EXCEPT !.retries = retries]
  <2>1. send' = [send EXCEPT ![r] = next]
    BY <1>3
  <2>2. next.stage = "connecting" /\ next.retries = retries
    BY <1>1 DEF Sends
  <2> HIDE DEF next
  <2>3. retries <= MaxRetries
    BY LimitsAssumption
  <2>4. RetriesBounded'
    BY <1>1, <2>1, <2>2, <2>3 DEF TInv, RetriesBounded
  <2> QED BY <1>3, <2>4 DEF TInv, CounterBounded
<1> QED BY <1>2, <1>3 DEF SendTo

\* A request is proxied or refused.
LEMMA ProxyReqBounded ==
  ASSUME TInv, NEW r \in Requests, NEW n \in Nodes, ProxyReq(r, n)
  PROVE  RetriesBounded' /\ CounterBounded'
<1>1. send[r] \in Sends /\ send \in [Requests -> Sends]
  BY DEF TInv, IInv, Typed
<1>2. PICK keys \in (SUBSET Keys) \ {{}}, d \in Nodes \ {n}, pinned \in BOOLEAN :
        \/ /\ send' = [send EXCEPT ![r].stage = "answered", ![r].at = n]
           /\ UNCHANGED <<inflight, miscounted>>
        \/ /\ send' = [send EXCEPT ![r].stage = "body", ![r].at = n, ![r].keys = keys,
                                   ![r].dest = d, ![r].pinned = pinned]
           /\ CountUp(n)
  BY DEF ProxyReq
<1>3. PICK next :
        /\ send' = [send EXCEPT ![r] = next]
        /\ next.stage # "waiting" /\ next.retries = send[r].retries
  <2>1. CASE send' = [send EXCEPT ![r].stage = "answered", ![r].at = n]
    <3> DEFINE next == [[send[r] EXCEPT !.stage = "answered"] EXCEPT !.at = n]
    <3>1. send' = [send EXCEPT ![r] = next]
      BY <2>1
    <3>2. next.stage # "waiting" /\ next.retries = send[r].retries
      BY <1>1 DEF Sends
    <3> HIDE DEF next
    <3> QED BY <3>1, <3>2
  <2>2. CASE send' = [send EXCEPT ![r].stage = "body", ![r].at = n, ![r].keys = keys,
                                  ![r].dest = d, ![r].pinned = pinned]
    <3> DEFINE next == [[[[[send[r] EXCEPT !.stage = "body"] EXCEPT !.at = n]
                          EXCEPT !.keys = keys] EXCEPT !.dest = d] EXCEPT !.pinned = pinned]
    <3>1. send' = [send EXCEPT ![r] = next]
      BY <2>2
    <3>2. next.stage # "waiting" /\ next.retries = send[r].retries
      BY <1>1 DEF Sends
    <3> HIDE DEF next
    <3> QED BY <3>1, <3>2
  <2> QED BY <1>2, <2>1, <2>2
<1>4. RetriesBounded'
  BY <1>1, <1>3 DEF TInv, RetriesBounded
<1>5. CounterBounded'
  BY <1>2, CountKeepsBounds DEF TInv
<1> QED BY <1>4, <1>5

\* A request is tried again, aborted or rerouted to its own node.
LEMMA AttemptRetryBounded ==
  ASSUME TInv, NEW r \in Requests, AttemptRetry(r)
  PROVE  RetriesBounded' /\ CounterBounded'
<1>1. /\ send[r] \in Sends /\ send \in [Requests -> Sends]
      /\ send[r].stage = "waiting" /\ send[r].at \in Nodes
  BY DEF TInv, IInv, Typed, AttemptRetry, Proxied
<1>2. send[r].retries \in Nat /\ send[r].retries < MaxRetries
  BY <1>1 DEF TInv, RetriesBounded, Sends
<1>3. send[r].retries + 1 \in 0..MaxRetries
  BY <1>2, LimitsAssumption
<1>4. CASE Finish(r) \/ \E d \in Nodes : SendTo(r, d, send[r].retries + 1)
  BY <1>1, <1>3, <1>4, SendToBounded
<1>5. CASE /\ send' = [send EXCEPT ![r].stage = "local", ![r].retries = @ + 1]
           /\ CountUp(send[r].at)
  <2> DEFINE next == [[send[r] EXCEPT !.stage = "local"] EXCEPT !.retries = send[r].retries + 1]
  <2>1. send' = [send EXCEPT ![r] = next]
    BY <1>1, <1>5 DEF Sends
  <2>2. next.stage = "local" /\ next.retries = send[r].retries + 1
    BY <1>1 DEF Sends
  <2> HIDE DEF next
  <2>3. send[r].retries + 1 <= MaxRetries
    BY <1>3, LimitsAssumption
  <2>4. RetriesBounded'
    BY <1>1, <2>1, <2>2, <2>3 DEF TInv, RetriesBounded
  <2> QED BY <1>1, <1>5, <2>4, CountKeepsBounds DEF TInv
<1> QED BY <1>1, <1>4, <1>5 DEF AttemptRetry, Diverged, HandleLocally

\* An attempt failed: a request waits only when it has retries left.
LEMMA FailedBounded ==
  ASSUME TInv, NEW r \in Requests, send[r].stage = "sent", Finish(r) \/ Failed(r)
  PROVE  RetriesBounded' /\ CounterBounded'
<1>1. send[r].at \in Nodes /\ send[r].retries \in Nat
  BY DEF TInv, IInv, Typed, Proxied, Sends
<1>2. CASE Finish(r)
  BY <1>1, <1>2, StageKeepsRetries, CountKeepsBounds DEF TInv, Finish
<1>3. CASE /\ send[r].retries < MaxRetries /\ Goes(r, "waiting")
           /\ UNCHANGED <<inflight, miscounted>>
  BY <1>1, <1>3, StageKeepsRetries, CountKeepsBounds DEF TInv
<1>4. send[r].retries >= MaxRetries \/ send[r].retries < MaxRetries
  BY <1>1, LimitsAssumption
<1> QED BY <1>2, <1>3, <1>4 DEF Failed

\* Every step keeps the bounds.
LEMMA NextBounded == TInv /\ [Next]_vars => TInv'
<1> SUFFICES ASSUME TInv, [Next]_vars
             PROVE  RetriesBounded' /\ AroundTyped' /\ CounterBounded'
  BY NextIInv DEF TInv
<1> DEFINE Bounded == RetriesBounded /\ CounterBounded
<1>around. AroundTyped'
  <2>1. CASE UNCHANGED <<changes, backpressure, destroyed>>
    BY <2>1 DEF TInv, AroundTyped
  <2>2. ASSUME NEW n \in Nodes, ChangeRing(n) PROVE AroundTyped'
    BY <2>2, LimitsAssumption DEF TInv, AroundTyped, ChangeRing
  <2>3. CASE SetBackpressure
    BY <2>3 DEF TInv, AroundTyped, SetBackpressure
  <2>4. ASSUME NEW n \in Nodes, Destroy(n) PROVE AroundTyped'
    BY <2>4 DEF TInv, AroundTyped, Destroy
  <2> QED
    BY <2>1, <2>2, <2>3, <2>4
    DEF Next, vars, SendStep, BodyRead, Connected, Answered, TimedOut, AttemptRetry, LocalDone,
        ProxyReq, HandleRequest, Respond
<1>same. ASSUME UNCHANGED <<send, inflight, miscounted>> PROVE Bounded'
  BY <1>same DEF TInv, RetriesBounded, CounterBounded
<1>body. ASSUME NEW r \in Requests, BodyRead(r) PROVE Bounded'
  <2>1. send[r].stage = "body" /\ send[r].dest \in Nodes
    BY <1>body DEF BodyRead, TInv, IInv, Proxied
  <2>2. 0 \in 0..MaxRetries
    BY LimitsAssumption
  <2> QED BY <1>body, <2>1, <2>2, SendToBounded DEF BodyRead
<1>connected. ASSUME NEW r \in Requests, Connected(r) PROVE Bounded'
  <2>1. send[r].stage = "connecting" /\ send[r].at \in Nodes
    BY <1>connected DEF Connected, TInv, IInv, Proxied
  <2>2. CASE Finish(r)
    BY <2>1, <2>2, StageKeepsRetries, CountKeepsBounds DEF TInv, Finish
  <2>3. CASE Goes(r, "sent") /\ UNCHANGED <<inflight, miscounted>>
    BY <2>1, <2>3, StageKeepsRetries, CountKeepsBounds DEF TInv
  <2> QED BY <1>connected, <2>2, <2>3 DEF Connected
<1>answered. ASSUME NEW r \in Requests, Answered(r) PROVE Bounded'
  BY <1>answered, FailedBounded DEF Answered, Awaited
<1>timeout. ASSUME NEW r \in Requests, TimedOut(r) PROVE Bounded'
  BY <1>timeout, FailedBounded DEF TimedOut
<1>local. ASSUME NEW r \in Requests, LocalDone(r) PROVE Bounded'
  <2>1. send[r].stage = "local" /\ send[r].at \in Nodes
    BY <1>local DEF LocalDone, TInv, IInv, Proxied
  <2> QED BY <1>local, <2>1, StageKeepsRetries, CountKeepsBounds DEF TInv, LocalDone
<1>send. ASSUME NEW r \in Requests, SendStep(r) PROVE Bounded'
  BY <1>send, <1>body, <1>connected, <1>answered, <1>timeout, <1>local, AttemptRetryBounded
     DEF SendStep
<1>handle. ASSUME NEW c \in calls, HandleRequest(c) PROVE Bounded'
  <2>1. c.to \in Nodes /\ UNCHANGED send
    BY <1>handle DEF HandleRequest, TInv, IInv, Typed, Calls
  <2>2. CounterBounded'
    BY <1>handle, <2>1, CountKeepsBounds DEF TInv, HandleRequest
  <2> QED BY <2>1, <2>2 DEF TInv, RetriesBounded
<1>respond. ASSUME NEW c \in calls, Respond(c) PROVE Bounded'
  <2>1. c.to \in Nodes /\ UNCHANGED send
    BY <1>respond DEF Respond, TInv, IInv, Typed, Calls
  <2>2. CounterBounded'
    BY <1>respond, <2>1, CountKeepsBounds DEF TInv, Respond
  <2> QED BY <2>1, <2>2 DEF TInv, RetriesBounded
<1>ring. ASSUME NEW n \in Nodes, ChangeRing(n) PROVE Bounded'
  BY <1>ring, <1>same DEF ChangeRing
<1>pressure. ASSUME SetBackpressure PROVE Bounded'
  BY <1>pressure, <1>same DEF SetBackpressure
<1>destroy. ASSUME NEW n \in Nodes, Destroy(n) PROVE Bounded'
  <2>1. \A q \in Requests :
          /\ send'[q].retries = send[q].retries
          /\ send'[q].stage = "waiting" => send[q].stage = "waiting"
    BY <1>destroy DEF Destroy, TInv, IInv, Typed, Sends
  <2> QED BY <1>destroy, <2>1 DEF Destroy, TInv, RetriesBounded, CounterBounded
<1>stutter. ASSUME UNCHANGED vars PROVE Bounded'
  BY <1>stutter, <1>same DEF vars
<1>bounded. Bounded'
  BY <1>send, <1>handle, <1>respond, <1>ring, <1>pressure, <1>destroy, <1>stutter,
     ProxyReqBounded DEF Next
<1> QED BY <1>around, <1>bounded

\* The state of the proxies is well formed: no request is tried more often
\* than it may, and no counter exceeds its limit (lib/request-proxy).
THEOREM ProxyTypeCorrect == Spec => []TypeOK
<1>1. Init => TInv
  <2>1. Init => RetriesBounded /\ AroundTyped /\ CounterBounded
    BY LimitsAssumption DEF Init, RetriesBounded, AroundTyped, CounterBounded
  <2> QED BY <2>1, InitIInv DEF TInv
<1>2. ASSUME TInv PROVE TypeOK
  <2>1. send \in [Requests ->
          [stage : InProgress \union {"new", "answered", "dropped"},
           at : Nodes \union {0}, keys : SUBSET Keys, pinned : BOOLEAN,
           dest : Nodes \union {0}, to : Nodes \union {0}, retries : 0..MaxRetries]]
    BY <1>2, LimitsAssumption DEF TInv, IInv, Typed, Sends, RetriesBounded
  <2>2. \A r \in Requests, try \in Nat : Left(r, try) => try \in 0..MaxRetries
    BY <1>2, LimitsAssumption DEF TInv, IInv, Typed, Sends, RetriesBounded, Left
  <2>3. \A c \in calls : c \in Calls /\ c.try \in 0..MaxRetries
    BY <1>2, <2>2 DEF TInv, IInv, Typed, Calls, Attempts
  <2>4. \A s \in served : s \in Served /\ s.try \in 0..MaxRetries
    BY <1>2, <2>2 DEF TInv, IInv, Typed, Served, Attempts
  <2> QED
    BY <1>2, <2>1, <2>3, <2>4
    DEF TypeOK, TInv, IInv, Typed, Calls, Served, AroundTyped, CounterBounded
<1> QED BY <1>1, <1>2, NextBounded, PTL DEF Spec

-----------------------------------------------------------------------------
\* Applications together let a request in at most once for the first attempt
\* and once for every retry that maxRetries allows, whatever becomes of the
\* answers (attemptRetry in lib/request-proxy/send.js).
THEOREM HandledBoundedly ==
  Spec => [](\A r \in Requests :
               /\ IsFiniteSet({s \in served : s.req = r})
               /\ Cardinality({s \in served : s.req = r}) <= MaxRetries + 1)
<1>1. ASSUME TypeOK, HandledOncePerTry, NEW r \in Requests
      PROVE  /\ IsFiniteSet({s \in served : s.req = r})
             /\ Cardinality({s \in served : s.req = r}) <= MaxRetries + 1
  <2> DEFINE times == {s \in served : s.req = r}
             f == [s \in times |-> s.try]
  <2>1. f \in [times -> 0..MaxRetries]
    BY <1>1 DEF TypeOK
  <2>2. \A s, t \in times : f[s] = f[t] => s = t
    BY <1>1 DEF HandledOncePerTry
  <2> HIDE DEF times, f
  <2>3. f \in Injection(times, 0..MaxRetries)
    BY <2>1, <2>2 DEF Injection, IsInjective
  <2>4. IsFiniteSet(0..MaxRetries) /\ Cardinality(0..MaxRetries) = MaxRetries + 1
    BY FS_Interval, LimitsAssumption
  <2>5. IsFiniteSet(times) /\ Cardinality(times) <= MaxRetries + 1
    BY <2>3, <2>4, FS_Injection
  <2> QED BY <2>5 DEF times
<1>2. TypeOK /\ HandledOncePerTry =>
        \A r \in Requests : /\ IsFiniteSet({s \in served : s.req = r})
                            /\ Cardinality({s \in served : s.req = r}) <= MaxRetries + 1
  BY <1>1
<1> QED BY <1>2, ProxyTypeCorrect, NoAttemptHandledTwice, PTL

\* A request that was answered stays as it is.
AnsweredStays ==
  \A r \in Requests :
    send[r].stage = "answered" =>
      /\ send'[r] = send[r]
      /\ \A c \in calls' :
           c.req = r => \E b \in calls : b.req = r /\ b.try = c.try

\* A request is answered once: neither a retry, nor a late answer, nor the time
\* out of an attempt, nor destroy() answers it again or sends it anywhere
\* (onSend and attemptRetry in lib/request-proxy/send.js).
THEOREM AnsweredForGood == Spec => [][AnsweredStays]_vars
<1>1. ASSUME IInv, [Next]_vars, NEW r \in Requests, send[r].stage = "answered"
      PROVE  /\ send'[r] = send[r]
             /\ \A c \in calls' :
                  c.req = r => \E b \in calls : b.req = r /\ b.try = c.try
  <2>t. send \in [Requests -> Sends] /\ calls \subseteq Calls
    BY <1>1 DEF IInv, Typed
  <2>1. ASSUME NEW q \in Requests, SendStep(q)
        PROVE  /\ q # r
               /\ \A p \in Requests \ {q} : send'[p] = send[p]
               /\ \A c \in calls' : c \in calls \/ c.req = q
    <3>1. q # r
      BY <1>1, <2>1 DEF SendStep, BodyRead, Connected, Answered, TimedOut, AttemptRetry,
                        LocalDone, Awaited
    <3>goes. ASSUME NEW stage, Goes(q, stage)
             PROVE  \A p \in Requests \ {q} : send'[p] = send[p]
      BY <2>t, <3>goes DEF Goes
    <3>finish. ASSUME Finish(q) \/ Failed(q) PROVE \A p \in Requests \ {q} : send'[p] = send[p]
      BY <3>finish, <3>goes DEF Finish, Failed
    <3>to. ASSUME NEW d, NEW retries, SendTo(q, d, retries)
           PROVE  \A p \in Requests \ {q} : send'[p] = send[p]
      BY <2>t, <3>to, <3>finish DEF SendTo
    <3>2. CASE BodyRead(q)
      BY <3>1, <3>2, <3>finish, <3>to DEF BodyRead
    <3>3. CASE Connected(q)
      BY <3>1, <3>3, <3>finish, <3>goes DEF Connected
    <3>4. CASE Answered(q) \/ TimedOut(q)
      BY <3>1, <3>4, <3>finish DEF Answered, TimedOut
    <3>5. CASE AttemptRetry(q)
      <4>1. ASSUME NEW n, HandleLocally(q, n)
            PROVE  \A p \in Requests \ {q} : send'[p] = send[p]
        BY <2>t, <4>1, <3>finish DEF HandleLocally
      <4>2. ASSUME Diverged(q) PROVE \A p \in Requests \ {q} : send'[p] = send[p]
        BY <4>2, <3>finish DEF Diverged
      <4>3. UNCHANGED calls
        BY <3>5 DEF AttemptRetry
      <4>4. \A p \in Requests \ {q} : send'[p] = send[p]
        BY <3>5, <3>to, <4>1, <4>2 DEF AttemptRetry
      <4> QED BY <3>1, <4>3, <4>4
    <3>6. CASE LocalDone(q)
      BY <3>1, <3>6, <3>goes DEF LocalDone
    <3> QED BY <2>1, <3>2, <3>3, <3>4, <3>5, <3>6 DEF SendStep
  <2>2. ASSUME NEW q \in Requests, NEW n \in Nodes, ProxyReq(q, n)
        PROVE  q # r /\ (\A p \in Requests \ {q} : send'[p] = send[p]) /\ UNCHANGED calls
    BY <1>1, <2>2, <2>t DEF ProxyReq
  <2>3. ASSUME NEW c \in calls, HandleRequest(c) \/ Respond(c)
        PROVE  /\ UNCHANGED send
               /\ \A d \in calls' : d \in calls \/ (d.req = c.req /\ d.try = c.try)
    BY <2>3, <2>t DEF HandleRequest, Respond, Reply, Calls
  <2>4. ASSUME NEW n \in Nodes, Destroy(n)
        PROVE  send'[r] = send[r] /\ UNCHANGED calls
    BY <1>1, <2>4 DEF Destroy
  <2>5. CASE UNCHANGED <<send, calls>>
    BY <2>5
  <2> QED
    BY <1>1, <2>1, <2>2, <2>3, <2>4, <2>5 DEF Next, ChangeRing, SetBackpressure, vars
<1>2. IInv /\ [Next]_vars => AnsweredStays
  BY <1>1 DEF AnsweredStays
<1> QED BY <1>2, Invariance, PTL DEF Spec

-----------------------------------------------------------------------------
(***************************************************************************)
(* No answer is lost: a request waits for its time out only because the    *)
(* node it was sent to is slow, or because one of the two was destroyed.   *)
(***************************************************************************)

\* The attempt that the request waits for is on its way, there or back.
UnderWay(r) ==
  \E c \in calls : c.req = r /\ c.try = send[r].retries /\ c.to = send[r].to

Awaiting(r) ==
  /\ send[r].stage = "sent"
  /\ send[r].at \notin destroyed /\ send[r].to \notin destroyed

UInv == IInv /\ \A r \in Requests : Awaiting(r) => UnderWay(r)

\* A request that stays as it is still waits for the same call.
LEMMA StaysUnderWay ==
  ASSUME UInv, NEW r \in Requests, Awaiting(r)', send'[r] = send[r],
         destroyed \subseteq destroyed',
         \A c \in calls : c.req = r /\ c.to \notin destroyed' =>
           \E d \in calls' : d.req = c.req /\ d.try = c.try /\ d.to = c.to
  PROVE  UnderWay(r)'
<1>1. Awaiting(r)
  BY DEF Awaiting
<1>2. PICK c \in calls : c.req = r /\ c.try = send[r].retries /\ c.to = send[r].to
  BY <1>1 DEF UInv, UnderWay
<1>3. c.to \notin destroyed'
  BY <1>2 DEF Awaiting
<1> QED BY <1>2, <1>3 DEF UnderWay

\* A step of the node that proxies a request leaves the other requests alone,
\* and sends nothing unless it is connected.
LEMMA SendStepAlone ==
  ASSUME IInv, NEW q \in Requests, SendStep(q)
  PROVE  /\ \A p \in Requests \ {q} : send'[p] = send[p]
         /\ \A c \in calls : c.req # q => c \in calls'
         /\ send'[q].stage # "sent" \/ (Connected(q) /\ Goes(q, "sent"))
<1>t. send \in [Requests -> Sends]
  BY DEF IInv, Typed
<1>goes. ASSUME NEW stage, Goes(q, stage)
         PROVE  (\A p \in Requests \ {q} : send'[p] = send[p]) /\ send'[q].stage = stage
  BY <1>t, <1>goes DEF Goes, Sends
<1>finish. ASSUME Finish(q) \/ Failed(q)
           PROVE  (\A p \in Requests \ {q} : send'[p] = send[p]) /\ send'[q].stage # "sent"
  <2>1. CASE Goes(q, "answered")
    BY <1>goes, <2>1
  <2>2. CASE Goes(q, "waiting")
    BY <1>goes, <2>2
  <2> QED BY <1>finish, <2>1, <2>2 DEF Finish, Failed
<1>to. ASSUME NEW d, NEW retries, SendTo(q, d, retries)
       PROVE  (\A p \in Requests \ {q} : send'[p] = send[p]) /\ send'[q].stage # "sent"
  <2>1. CASE Finish(q)
    BY <1>finish, <2>1
  <2>2. CASE send' = [send EXCEPT ![q].stage = "connecting", ![q].to = d,
                                  ![q].retries = retries]
    BY <1>t, <2>2 DEF Sends
  <2> QED BY <1>to, <2>1, <2>2 DEF SendTo
<1>body. CASE BodyRead(q)
  BY <1>body, <1>finish, <1>to DEF BodyRead
<1>connected. CASE Connected(q)
  BY <1>connected, <1>finish, <1>goes DEF Connected
<1>answered. CASE Answered(q) \/ TimedOut(q)
  BY <1>answered, <1>finish DEF Answered, TimedOut, Awaited
<1>retry. CASE AttemptRetry(q)
  <2>1. ASSUME NEW n, HandleLocally(q, n)
        PROVE  (\A p \in Requests \ {q} : send'[p] = send[p]) /\ send'[q].stage # "sent"
    <3>1. CASE Finish(q)
      BY <1>finish, <3>1
    <3>2. CASE send' = [send EXCEPT ![q].stage = "local", ![q].retries = @ + 1]
      BY <1>t, <3>2 DEF Sends
    <3> QED BY <2>1, <3>1, <3>2 DEF HandleLocally
  <2>2. UNCHANGED calls
    BY <1>retry DEF AttemptRetry
  <2> QED BY <1>retry, <1>finish, <1>to, <2>1, <2>2 DEF AttemptRetry, Diverged
<1>local. CASE LocalDone(q)
  BY <1>local, <1>goes DEF LocalDone
<1> QED BY <1>body, <1>connected, <1>answered, <1>retry, <1>local DEF SendStep

\* What the node does that a request was sent to answers it, if it can.
LEMMA HandlingUnderWay ==
  ASSUME UInv, NEW c \in calls, HandleRequest(c) \/ Respond(c),
         NEW r \in Requests, Awaiting(r)'
  PROVE  UnderWay(r)'
<1>1. UNCHANGED <<send, destroyed>> /\ calls \subseteq Calls
  BY DEF HandleRequest, Respond, UInv, IInv, Typed
<1>2. Awaiting(r)
  BY <1>1 DEF Awaiting
<1>3. PICK d \in calls : d.req = r /\ d.try = send[r].retries /\ d.to = send[r].to
  BY <1>2 DEF UInv, UnderWay
<1>4. CASE d # c
  <2>1. d \in calls'
    BY <1>4 DEF HandleRequest, Respond, Reply
  <2> QED BY <1>1, <1>3, <2>1 DEF UnderWay
<1>5. CASE d = c
  <2>1. Awaited(c.req, c) /\ c.to \notin destroyed
    BY <1>2, <1>3, <1>5 DEF Awaiting, Awaited
  <2>2. ASSUME NEW ok \in BOOLEAN, Reply(c, ok) PROVE UnderWay(r)'
    <3> DEFINE e == [c EXCEPT !.stage = "answer", !.ok = ok]
    <3>1. e \in calls'
      BY <2>1, <2>2 DEF Reply
    <3>2. e.req = c.req /\ e.try = c.try /\ e.to = c.to
      BY <1>1 DEF Calls
    <3> HIDE DEF e
    <3> QED BY <1>1, <1>3, <1>5, <3>1, <3>2 DEF UnderWay
  <2>3. ASSUME calls' = (calls \ {c}) \union {[c EXCEPT !.stage = "handling"]}
        PROVE  UnderWay(r)'
    <3> DEFINE e == [c EXCEPT !.stage = "handling"]
    <3>1. e \in calls'
      BY <2>3
    <3>2. e.req = c.req /\ e.try = c.try /\ e.to = c.to
      BY <1>1 DEF Calls
    <3> HIDE DEF e
    <3> QED BY <1>1, <1>3, <1>5, <3>1, <3>2 DEF UnderWay
  <2> QED BY <2>2, <2>3 DEF HandleRequest, Respond
<1> QED BY <1>4, <1>5

\* Every step keeps under way what is awaited.
LEMMA NextUInv == UInv /\ [Next]_vars => UInv'
<1> SUFFICES ASSUME UInv, [Next]_vars, NEW r \in Requests, Awaiting(r)' PROVE UnderWay(r)'
  BY NextIInv DEF UInv
<1>t. IInv /\ send \in [Requests -> Sends]
  BY DEF UInv, IInv, Typed
<1>send. ASSUME NEW q \in Requests, SendStep(q) PROVE UnderWay(r)'
  <2>1. UNCHANGED destroyed
    BY <1>send DEF SendStep, BodyRead, Connected, Answered, TimedOut, AttemptRetry, LocalDone
  <2>2. CASE r # q
    BY <1>t, <1>send, <2>1, <2>2, SendStepAlone, StaysUnderWay
  <2>3. CASE r = q
    <3>1. Connected(r) /\ Goes(r, "sent")
      BY <1>t, <1>send, <2>3, SendStepAlone DEF Awaiting
    <3>2. send[r] \in Sends /\ send'[r] = [send[r] EXCEPT !.stage = "sent"]
      BY <1>t, <3>1 DEF Goes
    <3>3. ~Finish(r)
      BY <1>t, <3>2 DEF Finish, Goes, Sends
    <3> DEFINE c == [req |-> r, try |-> send[r].retries, to |-> send[r].to,
                     checksum |-> ring[send[r].at], stage |-> "request", ok |-> FALSE]
    <3>4. c \in calls'
      BY <3>1, <3>3 DEF Connected
    <3>5. c.req = r /\ c.try = send'[r].retries /\ c.to = send'[r].to
      BY <3>2 DEF Sends
    <3> HIDE DEF c
    <3> QED BY <3>4, <3>5 DEF UnderWay
  <2> QED BY <2>2, <2>3
<1>proxy. ASSUME NEW q \in Requests, NEW n \in Nodes, ProxyReq(q, n) PROVE UnderWay(r)'
  <2>1. UNCHANGED <<calls, destroyed>> /\ \A p \in Requests \ {q} : send'[p] = send[p]
    BY <1>t, <1>proxy DEF ProxyReq
  <2>2. send'[q].stage # "sent"
    BY <1>t, <1>proxy DEF ProxyReq, Sends
  <2>3. r # q
    BY <2>2 DEF Awaiting
  <2> QED BY <2>1, <2>3, StaysUnderWay
<1>handle. ASSUME NEW c \in calls, HandleRequest(c) \/ Respond(c) PROVE UnderWay(r)'
  BY <1>handle, HandlingUnderWay
<1>destroy. ASSUME NEW n \in Nodes, Destroy(n) PROVE UnderWay(r)'
  <2>1. UNCHANGED calls /\ destroyed \subseteq destroyed'
    BY <1>destroy DEF Destroy
  <2>2. send'[r] = IF send[r].at = n /\ send[r].stage = "waiting"
                   THEN [send[r] EXCEPT !.stage = "dropped"] ELSE send[r]
    BY <1>destroy DEF Destroy
  <2>3. send'[r] = send[r]
    BY <1>t, <2>2 DEF Awaiting, Sends
  <2> QED BY <2>1, <2>3, StaysUnderWay
<1>same. ASSUME UNCHANGED <<send, calls, destroyed>> PROVE UnderWay(r)'
  BY <1>same, StaysUnderWay
<1> QED
  BY <1>send, <1>proxy, <1>handle, <1>destroy, <1>same
  DEF Next, ChangeRing, SetBackpressure, vars

\* As long as neither node is destroyed, the attempt a request waits for is on
\* its way, handled, or answered: no answer is lost, and a time out means that
\* the other node is slow (lib/request-proxy/index.js, send.js).
THEOREM NoAnswerLost == Spec => [](\A r \in Requests : Awaiting(r) => UnderWay(r))
<1>1. Init => UInv
  BY InitIInv DEF Init, UInv, Awaiting
<1>2. UInv => \A r \in Requests : Awaiting(r) => UnderWay(r)
  BY DEF UInv
<1> QED BY <1>1, <1>2, NextUInv, PTL DEF Spec
=============================================================================
