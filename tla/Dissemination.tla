---------------------------- MODULE Dissemination ----------------------------
(***************************************************************************)
(* How news of the members spreads (lib/gossip/dissemination.js with       *)
(* ping-sender.js and ping-req-sender.js, and server/protocol/ping.js,     *)
(* ping-req.js and join.js).                                               *)
(* Every node keeps the changes it applied lately and piggybacks each on a *)
(* limited number of pings and ping responses. Once two nodes have nothing *)
(* left to tell each other and their checksums differ, the one pinged      *)
(* answers with its whole member list, and fetches the pinger's.           *)
(*                                                                         *)
(* A node may have several pings and ping-reqs under way at once: those of *)
(* its gossip, those it sends to help another or to be helped, and those   *)
(* of its self eviction. Each counts its changes when its answer comes.    *)
(*                                                                         *)
(* What is spread is abstracted to versions: an entry of a member is a     *)
(* number, 0 when the member is unknown, and a greater one supersedes a    *)
(* smaller one (Member!Supersedes is a total order). The last version is   *)
(* the tombstone. The members are third parties: no node is told of        *)
(* itself.                                                                 *)
(***************************************************************************)
EXTENDS Integers, FiniteSets, Functions

CONSTANTS
  Nodes,
  Addresses,            \* the members the news is about
  MaxVersion,           \* bound: versions of an entry, the last a tombstone
  MaxPiggyback,         \* dissemination.maxPiggybackCount
  MaxJobs,              \* maxReverseFullSyncJobs
  MaxPings,             \* bound: pings and ping-reqs under way at a time
  MaxNews,              \* bound: changes made by the nodes themselves
  MaxLost               \* bound: messages lost

ASSUME ParametersAssumption ==
  /\ MaxVersion \in Nat \ {0} /\ MaxPiggyback \in Nat \ {0}
  /\ MaxJobs \in Nat /\ MaxPings \in Nat /\ MaxNews \in Nat /\ MaxLost \in Nat

NoOne == "no source"
Anyone == "anyone"
ASSUME NodesAssumption ==
  IsFiniteSet(Nodes) /\ NoOne \notin Nodes /\ Anyone \notin Nodes

\* A change on the wire, by its version and its source, whose id it bears.
\* In a full sync it has no id, and no source that is compared with anyone.
NoChange == [ver |-> 0, src |-> NoOne]
Pings == 1..MaxPings
Idle == [stage |-> "idle"]

VARIABLES
  ver,        \* ver[n][x]: the entry of x in n's member list
  pending,    \* changes[x] of n: the version, who made it, how often it was sent
  ping,       \* the pings and ping-reqs sent, and the answers on their way back
  jobs,       \* jobs[n][o]: reverse full syncs n has asked o for
  news,       \* how many changes the nodes have made themselves
  lost        \* how many messages have been lost

vars == <<ver, pending, ping, jobs, news, lost>>

None == [ver |-> 0, src |-> NoOne, count |-> 0]

Init ==
  /\ ver = [n \in Nodes |-> [x \in Addresses |-> 0]]
  /\ pending = [n \in Nodes |-> [x \in Addresses |-> None]]
  /\ ping = [p \in Pings |-> Idle]
  /\ jobs = [n \in Nodes |-> [o \in Nodes |-> 0]]
  /\ news = 0
  /\ lost = 0

-----------------------------------------------------------------------------
(***************************************************************************)
(* The member list, as far as gossip sees it.                              *)
(***************************************************************************)

Tombstone == MaxVersion

\* shouldProcessGossip on versions.
IsNews(old, new) == new > old /\ ~(old = 0 /\ new = Tombstone)

\* Mutant: tombstones count.
ChecksumWithTombstones(list) == list

\* membership.checksum: tombstones are left out.
Checksum(list) == [x \in Addresses |-> IF list[x] = Tombstone THEN 0 ELSE list[x]]

\* membership.update() on a node with this list, and recordChange() for what
\* it applied.
ListAfter(list, message) ==
  [x \in Addresses |->
     IF IsNews(list[x], message[x].ver) THEN message[x].ver ELSE list[x]]

\* Mutant: a change that is still being piggybacked is not replaced.
RecordedKeepsFirst(list, changes, message) ==
  [x \in Addresses |->
     IF IsNews(list[x], message[x].ver) /\ changes[x].ver = 0
     THEN [ver |-> message[x].ver, src |-> message[x].src, count |-> 0]
     ELSE changes[x]]

Recorded(list, changes, message) ==
  [x \in Addresses |->
     IF IsNews(list[x], message[x].ver)
     THEN [ver |-> message[x].ver, src |-> message[x].src, count |-> 0]
     ELSE changes[x]]

-----------------------------------------------------------------------------
(***************************************************************************)
(* Issuing changes.                                                        *)
(***************************************************************************)

Exhausted(change) == change.ver # 0 /\ change.count >= MaxPiggyback

\* _issueAs: what is left to tell anyone but the node the change came from.
\* A change that has been sent often enough is dropped, not sent.
Issued(changes, except) ==
  [x \in Addresses |->
     IF changes[x].src = except \/ Exhausted(changes[x])
     THEN NoChange ELSE [ver |-> changes[x].ver, src |-> changes[x].src]]

\* Mutant: an exhausted change is not sent, but stays.
RemainingKeeps(changes, except) == changes

Remaining(changes, except) ==
  [x \in Addresses |->
     IF changes[x].src # except /\ Exhausted(changes[x]) THEN None ELSE changes[x]]

\* membershipAsChanges: every member, without ids.
FullSync(list) == [x \in Addresses |-> [ver |-> list[x], src |-> NoOne]]

\* change.id === issuedChange.id: an id belongs to one change by one node,
\* but all changes of full syncs have the id undefined.
SameId(change, issued) ==
  change.src = issued.src /\ (change.src = NoOne \/ change.ver = issued.ver)

\* The counts go up for what was issued.
Bumped(changes, message) ==
  [x \in Addresses |->
     IF /\ changes[x].ver # 0 /\ message[x].ver # 0
        /\ SameId(changes[x], message[x])
     THEN [changes[x] EXCEPT !.count = @ + 1] ELSE changes[x]]

IsEmpty(message) == \A x \in Addresses : message[x].ver = 0

-----------------------------------------------------------------------------
\* reverseFullSyncJobs of n.
Running(n) == FoldFunction(+, 0, jobs[n])

-----------------------------------------------------------------------------
(***************************************************************************)
(* Actions.                                                                *)
(***************************************************************************)

\* Node n finds out something about x by itself: a failed probe, a timeout.
Originate(n, x) ==
  LET new == [y \in Addresses |-> IF y = x THEN [ver |-> ver[n][x] + 1, src |-> n]
                                           ELSE NoChange] IN
    /\ ver[n][x] < MaxVersion /\ news < MaxNews
    /\ news' = news + 1
    /\ ver' = [ver EXCEPT ![n] = ListAfter(@, new)]
    /\ pending' = [pending EXCEPT ![n] = Recorded(ver[n], @, new)]
    /\ UNCHANGED <<ping, jobs, lost>>

\* issueAsSender on n: the changes and the checksum of this moment, to o. Which
\* of the places that are free it takes is a matter of naming only.
Issue(p, n, o, kind) ==
  /\ n # o /\ ping[p] = Idle
  /\ \A q \in Pings : q < p => ping[q] # Idle
  /\ ping' = [ping EXCEPT ![p] =
       [stage |-> "request", kind |-> kind, from |-> n, to |-> o,
        checksum |-> Checksum(ver[n]), issued |-> Issued(pending[n], Anyone)]]
  /\ pending' = [pending EXCEPT ![n] = Remaining(@, Anyone)]
  /\ UNCHANGED <<ver, jobs, news, lost>>

\* sendPing: by gossip, by a node that helps another, or by self eviction.
SendPing(p, n, o) == Issue(p, n, o, "ping")

\* PingReqSender.send: n asks o to ping a third member.
SendPingReq(p, n, o) == Issue(p, n, o, "ping-req")

\* Mutant: nothing to tell is nothing to tell.
NeedsFullSyncNever(list, answer, checksum) == FALSE

\* issueAsReceiver falls back on a full sync.
NeedsFullSync(list, answer, checksum) ==
  IsEmpty(answer) /\ Checksum(list) # checksum

\* What issueAsReceiver makes of a list and changes, and sends back for p.
FullSyncs(p, list, changes) ==
  NeedsFullSync(list, Issued(changes, ping[p].from), ping[p].checksum)

AnswerTo(p, list, changes) ==
  IF FullSyncs(p, list, changes) THEN FullSync(list) ELSE Issued(changes, ping[p].from)

\* issueAsReceiver on the node that p was sent to. The counts go up although
\* nothing confirms that the answer arrives.
Answer(p, list, changes) ==
  LET answer == AnswerTo(p, list, changes) IN
    /\ pending' = [pending EXCEPT ![ping[p].to] =
                      Bumped(Remaining(changes, ping[p].from), answer)]
    /\ ping' = [ping EXCEPT ![p] =
         [stage |-> "answer", kind |-> ping[p].kind, from |-> ping[p].from,
          issued |-> ping[p].issued, answer |-> answer]]

\* handlePing: update(), then issueAsReceiver, and after a full sync,
\* tryStartReverseFullSync unless MaxJobs are running.
HandlePing(p) ==
  LET n == ping[p].from
      o == ping[p].to
      list == ListAfter(ver[o], ping[p].issued)
      changes == Recorded(ver[o], pending[o], ping[p].issued)
  IN
    /\ ping[p].stage = "request" /\ ping[p].kind = "ping"
    /\ ver' = [ver EXCEPT ![o] = list]
    /\ Answer(p, list, changes)
    /\ jobs' = IF FullSyncs(p, list, changes) /\ Running(o) < MaxJobs
               THEN [jobs EXCEPT ![o][n] = @ + 1] ELSE jobs
    /\ UNCHANGED <<news, lost>>

\* handlePingReq: update(), and a ping to the member in question, which is one
\* of SendPing's when it is a node.
HandlePingReq(p) ==
  LET o == ping[p].to IN
    /\ ping[p].stage = "request" /\ ping[p].kind = "ping-req"
    /\ ver' = [ver EXCEPT ![o] = ListAfter(@, ping[p].issued)]
    /\ pending' = [pending EXCEPT ![o] = Recorded(ver[o], @, ping[p].issued)]
    /\ ping' = [ping EXCEPT ![p].stage = "helping"]
    /\ UNCHANGED <<jobs, news, lost>>

\* The callback of that ping: issueAsReceiver with what is left by now, and the
\* checksum of then. It starts no reverse full sync.
AnswerPingReq(p) ==
  LET o == ping[p].to IN
    /\ ping[p].stage = "helping"
    /\ Answer(p, ver[o], pending[o])
    /\ UNCHANGED <<ver, jobs, news, lost>>

\* The answer to a ping arrives: onIssue counts what was issued, then update().
ReceiveAnswer(p) ==
  LET n == ping[p].from
      confirmed == Bumped(pending[n], ping[p].issued) IN
    /\ ping[p].stage = "answer" /\ ping[p].kind = "ping"
    /\ ver' = [ver EXCEPT ![n] = ListAfter(@, ping[p].answer)]
    /\ pending' = [pending EXCEPT ![n] = Recorded(ver[n], confirmed, ping[p].answer)]
    /\ ping' = [ping EXCEPT ![p] = Idle]
    /\ UNCHANGED <<jobs, news, lost>>

\* The answer to a ping-req arrives: update() comes first here, then onIssue.
ReceivePingReqAnswer(p) ==
  LET n == ping[p].from
      recorded == Recorded(ver[n], pending[n], ping[p].answer) IN
    /\ ping[p].stage = "answer" /\ ping[p].kind = "ping-req"
    /\ ver' = [ver EXCEPT ![n] = ListAfter(@, ping[p].answer)]
    /\ pending' = [pending EXCEPT ![n] = Bumped(recorded, ping[p].issued)]
    /\ ping' = [ping EXCEPT ![p] = Idle]
    /\ UNCHANGED <<jobs, news, lost>>

\* The message or its answer is lost: it times out, no count goes up.
LosePing(p) ==
  /\ ping[p] # Idle /\ lost < MaxLost
  /\ ping' = [ping EXCEPT ![p] = Idle]
  /\ lost' = lost + 1
  /\ UNCHANGED <<ver, pending, jobs, news>>

\* _reverseFullSync: n joins o and merges o's member list into its own. The
\* list is as of the moment o answers.
ReverseFullSync(n, o) ==
  LET answer == FullSync(ver[o]) IN
    /\ jobs[n][o] > 0
    /\ jobs' = [jobs EXCEPT ![n][o] = @ - 1]
    /\ ver' = [ver EXCEPT ![n] = ListAfter(@, answer)]
    /\ pending' = [pending EXCEPT ![n] = Recorded(ver[n], @, answer)]
    /\ UNCHANGED <<ping, news, lost>>

\* The join fails: the job is over all the same.
LoseReverseFullSync(n, o) ==
  /\ jobs[n][o] > 0 /\ lost < MaxLost
  /\ jobs' = [jobs EXCEPT ![n][o] = @ - 1]
  /\ lost' = lost + 1
  /\ UNCHANGED <<ver, pending, ping, news>>

\* A ping or ping-req under way comes one step further.
Arrives(p) ==
  \/ HandlePing(p) \/ HandlePingReq(p) \/ AnswerPingReq(p)
  \/ ReceiveAnswer(p) \/ ReceivePingReqAnswer(p)

Next ==
  \/ \E n \in Nodes, x \in Addresses : Originate(n, x)
  \/ \E p \in Pings, n, o \in Nodes : SendPing(p, n, o) \/ SendPingReq(p, n, o)
  \/ \E p \in Pings : Arrives(p) \/ LosePing(p)
  \/ \E n, o \in Nodes : ReverseFullSync(n, o) \/ LoseReverseFullSync(n, o)

Spec == Init /\ [][Next]_vars

\* Gossip goes round: every node pings every other again and again, and what
\* is not lost arrives. No node need ever send a ping-req.
FairSpec ==
  /\ Spec
  /\ \A n \in Nodes : \A o \in Nodes \ {n} :
       /\ SF_vars(\E p \in Pings : SendPing(p, n, o))
       /\ WF_vars(ReverseFullSync(n, o))
  /\ \A p \in Pings : WF_vars(Arrives(p))

-----------------------------------------------------------------------------
(***************************************************************************)
(* Properties.                                                             *)
(***************************************************************************)

\* The messages of n under way that carry a change of x: each may still raise
\* the count of the change that n piggybacks.
Carrying(n, x) ==
  {p \in Pings : /\ ping[p] # Idle /\ ping[p].from = n
                 /\ ping[p].issued[x].ver # 0}

\* No change is sent more often than MaxPiggyback allows, but for once more for
\* each message that was under way at the same time as another: all of them
\* were issued before any was counted.
PiggybackLimited ==
  \A n \in Nodes, x \in Addresses :
    pending[n][x].count + Cardinality(Carrying(n, x)) <= MaxPiggyback + MaxPings - 1

TypeOK ==
  /\ ver \in [Nodes -> [Addresses -> 0..MaxVersion]]
  /\ \A n \in Nodes, x \in Addresses :
       /\ pending[n][x].ver \in 0..MaxVersion
       /\ pending[n][x].src \in Nodes \union {NoOne}
       /\ pending[n][x].count \in Nat
  /\ PiggybackLimited
  /\ \A p \in Pings : ping[p].stage \in {"idle", "request", "helping", "answer"}
  /\ jobs \in [Nodes -> [Nodes -> 0..MaxJobs]]
  /\ news \in 0..MaxNews /\ lost \in 0..MaxLost

\* What a node still piggybacks about a member is what it believes, though
\* answers, reverse full syncs and pings of others come in between.
PendingIsCurrent ==
  \A n \in Nodes, x \in Addresses :
    pending[n][x].ver # 0 => pending[n][x].ver = ver[n][x]

\* All checksums are equal in the end, though every change is sent only so
\* often, some messages are lost after their changes were counted, and two
\* nodes with changes left to tell do not compare checksums.
Converges ==
  <>[](\A n, o \in Nodes : Checksum(ver[n]) = Checksum(ver[o]))

\* Gossip dies out: no node has changes or full syncs left to send.
DiesOut ==
  <>[](\A n, o \in Nodes :
         jobs[n][o] = 0 /\ \A x \in Addresses : pending[n][x] = None)
=============================================================================
