------------------------- MODULE DisseminationProofs -------------------------
(***************************************************************************)
(* Proofs about Dissemination, for every number of nodes and members, and  *)
(* every bound.                                                            *)
(*                                                                         *)
(* A node's list and the changes it piggybacks are brought up to date by   *)
(* two listeners of one event, from messages that were put together some   *)
(* time before. That they agree is inductive once the messages under way   *)
(* are well formed.                                                        *)
(***************************************************************************)
EXTENDS Dissemination, FiniteSetTheorems, TLAPS

Lists == [Addresses -> 0..MaxVersion]
Changes == [Addresses -> [ver : 0..MaxVersion, src : Nodes \union {NoOne}, count : Nat]]
Messages == [Addresses -> [ver : 0..MaxVersion, src : Nodes \union {NoOne}]]

Kinds == {"ping", "ping-req"}

\* A message on its way, or being dealt with, and an answer on its way back. No
\* node sends either to itself.
Requests ==
  {r \in [stage : {"request", "helping"}, kind : Kinds, from : Nodes, to : Nodes,
          checksum : Lists, issued : Messages] : r.from # r.to}
Answers ==
  [stage : {"answer"}, kind : Kinds, from : Nodes, issued : Messages, answer : Messages]
UnderWay == {Idle} \union Requests \union Answers

WellFormed ==
  /\ ver \in [Nodes -> Lists]
  /\ pending \in [Nodes -> Changes]
  /\ ping \in [Pings -> UnderWay]

\* The changes of one node say what its list does.
Current(list, changes) ==
  \A x \in Addresses : changes[x].ver # 0 => changes[x].ver = list[x]

IInv == WellFormed /\ PendingIsCurrent

-----------------------------------------------------------------------------
(***************************************************************************)
(* Lemmas about one node's list and changes.                               *)
(***************************************************************************)

\* What a message changes in the list it changes in what is piggybacked.
LEMMA RecordedCurrent ==
  ASSUME NEW list \in Lists, NEW changes \in Changes, NEW message \in Messages,
         Current(list, changes)
  PROVE  /\ ListAfter(list, message) \in Lists
         /\ Recorded(list, changes, message) \in Changes
         /\ Current(ListAfter(list, message), Recorded(list, changes, message))
  BY DEF Lists, Changes, Messages, Current, ListAfter, Recorded

\* Dropping what was sent often enough leaves nothing out of date.
LEMMA RemainingCurrent ==
  ASSUME NEW list \in Lists, NEW changes \in Changes, NEW except, Current(list, changes)
  PROVE  Remaining(changes, except) \in Changes /\ Current(list, Remaining(changes, except))
  BY ParametersAssumption DEF Lists, Changes, Current, Remaining, None

\* Counting changes no version.
LEMMA BumpedTyped ==
  ASSUME NEW changes \in Changes, NEW message
  PROVE  /\ Bumped(changes, message) \in Changes
         /\ \A x \in Addresses : Bumped(changes, message)[x].ver = changes[x].ver
<1> DEFINE new == Bumped(changes, message)
<1>1. ASSUME NEW x \in Addresses
      PROVE  /\ new[x] \in [ver : 0..MaxVersion, src : Nodes \union {NoOne}, count : Nat]
             /\ new[x].ver = changes[x].ver
  BY DEF Changes, Bumped
<1>2. new = [x \in Addresses |-> new[x]]
  BY DEF Bumped
<1> HIDE DEF new
<1>3. new \in Changes
  BY <1>1, <1>2 DEF Changes
<1> QED BY <1>1, <1>3 DEF new

LEMMA BumpedCurrent ==
  ASSUME NEW list \in Lists, NEW changes \in Changes, NEW message, Current(list, changes)
  PROVE  Bumped(changes, message) \in Changes /\ Current(list, Bumped(changes, message))
  BY BumpedTyped DEF Current

\* What is issued is a message.
LEMMA IssuedTyped ==
  ASSUME NEW changes \in Changes, NEW except
  PROVE  Issued(changes, except) \in Messages
  BY ParametersAssumption DEF Changes, Messages, Issued, NoChange

\* What a node finds out by itself is one too.
LEMMA OriginalTyped ==
  ASSUME NEW list \in Lists, NEW n \in Nodes, NEW x \in Addresses, list[x] < MaxVersion
  PROVE  [y \in Addresses |-> IF y = x THEN [ver |-> list[x] + 1, src |-> n] ELSE NoChange]
           \in Messages
<1>1. list[x] + 1 \in 0..MaxVersion /\ 0 \in 0..MaxVersion
  BY ParametersAssumption DEF Lists
<1>2. [ver |-> list[x] + 1, src |-> n] \in [ver : 0..MaxVersion, src : Nodes \union {NoOne}]
  BY <1>1
<1>3. NoChange \in [ver : 0..MaxVersion, src : Nodes \union {NoOne}]
  BY <1>1 DEF NoChange
<1> QED BY <1>2, <1>3 DEF Messages

\* And so is a full sync.
LEMMA FullSyncTyped ==
  ASSUME NEW list \in Lists
  PROVE  FullSync(list) \in Messages
  BY DEF Lists, Messages, FullSync

\* A checksum is of a list.
LEMMA ChecksumTyped ==
  ASSUME NEW list \in Lists
  PROVE  Checksum(list) \in Lists
  BY ParametersAssumption DEF Lists, Checksum

\* What is under way, by its stage.
LEMMA Stages ==
  ASSUME NEW m \in UnderWay
  PROVE  /\ m.stage \in {"request", "helping"} => m \in Requests /\ m # Idle
         /\ m.stage = "answer" => m \in Answers /\ m # Idle
         /\ m.stage \in {"idle", "request", "helping", "answer"}
<1>1. Idle.stage = "idle"
  BY DEF Idle
<1>2. \A r \in Requests : r.stage \in {"request", "helping"}
  BY DEF Requests
<1>3. \A a \in Answers : a.stage = "answer"
  BY DEF Answers
<1> QED BY <1>1, <1>2, <1>3 DEF UnderWay

\* What is sent back is a message.
LEMMA AnswerTyped ==
  ASSUME NEW p, NEW list \in Lists, NEW changes \in Changes
  PROVE  AnswerTo(p, list, changes) \in Messages
  BY IssuedTyped, FullSyncTyped DEF AnswerTo

\* One node's list and changes are replaced by ones that agree.
LEMMA NodeKeeps ==
  ASSUME IInv, NEW n \in Nodes, NEW list \in Lists, NEW changes \in Changes,
         Current(list, changes),
         ver' = [ver EXCEPT ![n] = list], pending' = [pending EXCEPT ![n] = changes],
         ping' \in [Pings -> UnderWay]
  PROVE  IInv'
<1>1. WellFormed'
  BY DEF IInv, WellFormed
<1>2. PendingIsCurrent'
  BY DEF IInv, WellFormed, PendingIsCurrent, Current
<1> QED BY <1>1, <1>2 DEF IInv

\* The node that answers a message keeps its list and its changes together.
LEMMA AnswerKeeps ==
  ASSUME IInv, NEW p \in Pings, ping[p] \in Requests,
         NEW list \in Lists, NEW changes \in Changes, Current(list, changes),
         ver' = [ver EXCEPT ![ping[p].to] = list], Answer(p, list, changes)
  PROVE  IInv'
<1> DEFINE answer == AnswerTo(p, list, changes)
           rest == Remaining(changes, ping[p].from)
           after == Bumped(rest, answer)
           reply == [stage |-> "answer", kind |-> ping[p].kind, from |-> ping[p].from,
                     issued |-> ping[p].issued, answer |-> answer]
<1>1. /\ ping[p].to \in Nodes /\ ping[p].from \in Nodes
      /\ ping[p].kind \in Kinds /\ ping[p].issued \in Messages
  BY DEF Requests
<1>2. answer \in Messages
  BY AnswerTyped
<1>3. /\ pending' = [pending EXCEPT ![ping[p].to] = after]
      /\ ping' = [ping EXCEPT ![p] = reply]
  BY DEF Answer
<1> HIDE DEF answer
<1>4. rest \in Changes /\ Current(list, rest)
  BY RemainingCurrent
<1> HIDE DEF rest
<1>5. after \in Changes /\ Current(list, after)
  BY <1>4, BumpedCurrent
<1>6. reply \in UnderWay
  BY <1>1, <1>2 DEF UnderWay, Answers
<1> HIDE DEF after, reply
<1>7. ping' \in [Pings -> UnderWay]
  BY <1>3, <1>6 DEF IInv, WellFormed
<1> QED BY <1>1, <1>3, <1>5, <1>7, NodeKeeps

-----------------------------------------------------------------------------
\* Every list is empty at first.
LEMMA InitIInv == Init => IInv
  BY ParametersAssumption DEF Init, IInv, WellFormed, PendingIsCurrent, Lists, Changes, None, UnderWay

\* Every step of a node keeps its list and its changes together.
LEMMA NextIInv == IInv /\ [Next]_vars => IInv'
<1> SUFFICES ASSUME IInv, [Next]_vars PROVE IInv'
  OBVIOUS
<1>t. /\ ver \in [Nodes -> Lists] /\ pending \in [Nodes -> Changes]
      /\ ping \in [Pings -> UnderWay]
  BY DEF IInv, WellFormed
<1>n. ASSUME NEW n \in Nodes
      PROVE  ver[n] \in Lists /\ pending[n] \in Changes /\ Current(ver[n], pending[n])
  BY <1>t DEF IInv, PendingIsCurrent, Current
<1>same. ASSUME UNCHANGED <<ver, pending>>,
                ping' \in [Pings -> UnderWay]
         PROVE  IInv'
  BY <1>same DEF IInv, WellFormed, PendingIsCurrent
<1>stage. ASSUME NEW p \in Pings
          PROVE  /\ ping[p].stage \in {"request", "helping"} => ping[p] \in Requests
                 /\ ping[p].stage = "answer" => ping[p] \in Answers
  BY <1>t, Stages
<1>originate. ASSUME NEW n \in Nodes, NEW x \in Addresses, Originate(n, x) PROVE IInv'
  <2> DEFINE new == [y \in Addresses |-> IF y = x THEN [ver |-> ver[n][x] + 1, src |-> n]
                                                  ELSE NoChange]
  <2>1. new \in Messages
    BY <1>n, <1>originate, OriginalTyped DEF Originate
  <2>2. /\ ver' = [ver EXCEPT ![n] = ListAfter(ver[n], new)]
        /\ pending' = [pending EXCEPT ![n] = Recorded(ver[n], pending[n], new)]
        /\ ping' = ping
    BY <1>originate DEF Originate
  <2> HIDE DEF new
  <2> QED BY <1>t, <1>n, <2>1, <2>2, RecordedCurrent, NodeKeeps
<1>send. ASSUME NEW p \in Pings, NEW n \in Nodes, NEW o \in Nodes, NEW kind \in Kinds,
                Issue(p, n, o, kind)
         PROVE  IInv'
  <2> DEFINE request == [stage |-> "request", kind |-> kind, from |-> n, to |-> o,
                         checksum |-> Checksum(ver[n]), issued |-> Issued(pending[n], Anyone)]
  <2>1. /\ ver' = [ver EXCEPT ![n] = ver[n]]
        /\ pending' = [pending EXCEPT ![n] = Remaining(pending[n], Anyone)]
        /\ ping' = [ping EXCEPT ![p] = request]
        /\ n # o
    BY <1>send, <1>t DEF Issue
  <2>2. Checksum(ver[n]) \in Lists /\ Issued(pending[n], Anyone) \in Messages
    BY <1>n, IssuedTyped, ChecksumTyped
  <2>3. request \in UnderWay
    BY <2>1, <2>2 DEF UnderWay, Requests
  <2> HIDE DEF request
  <2>4. ping' \in [Pings -> UnderWay]
    BY <1>t, <2>1, <2>3
  <2> QED BY <1>n, <2>1, <2>4, RemainingCurrent, NodeKeeps
<1>handle. ASSUME NEW p \in Pings, HandlePing(p) PROVE IInv'
  <2> DEFINE o == ping[p].to
             list == ListAfter(ver[o], ping[p].issued)
             changes == Recorded(ver[o], pending[o], ping[p].issued)
  <2>1. ping[p] \in Requests
    BY <1>handle, <1>stage DEF HandlePing
  <2>2. o \in Nodes /\ ping[p].issued \in Messages
    BY <2>1 DEF Requests
  <2>3. list \in Lists /\ changes \in Changes /\ Current(list, changes)
    BY <1>n, <2>2, RecordedCurrent
  <2>4. ver' = [ver EXCEPT ![o] = list] /\ Answer(p, list, changes)
    BY <1>handle DEF HandlePing
  <2> HIDE DEF list, changes
  <2> QED BY <2>1, <2>3, <2>4, AnswerKeeps
<1>help. ASSUME NEW p \in Pings, HandlePingReq(p) PROVE IInv'
  <2> DEFINE o == ping[p].to
             helping == [ping[p] EXCEPT !.stage = "helping"]
  <2>1. ping[p] \in Requests
    BY <1>help, <1>stage DEF HandlePingReq
  <2>2. o \in Nodes /\ ping[p].issued \in Messages /\ helping \in UnderWay
    BY <2>1 DEF Requests, UnderWay
  <2>3. /\ ver' = [ver EXCEPT ![o] = ListAfter(ver[o], ping[p].issued)]
        /\ pending' = [pending EXCEPT ![o] = Recorded(ver[o], pending[o], ping[p].issued)]
        /\ ping' = [ping EXCEPT ![p] = helping]
    BY <1>help, <1>t DEF HandlePingReq
  <2> HIDE DEF o, helping
  <2>4. ping' \in [Pings -> UnderWay]
    BY <1>t, <2>2, <2>3
  <2> QED BY <1>n, <2>2, <2>3, <2>4, RecordedCurrent, NodeKeeps
<1>answer. ASSUME NEW p \in Pings, AnswerPingReq(p) PROVE IInv'
  <2> DEFINE o == ping[p].to
  <2>1. ping[p] \in Requests
    BY <1>answer, <1>stage DEF AnswerPingReq
  <2>2. o \in Nodes
    BY <2>1 DEF Requests
  <2>3. ver' = [ver EXCEPT ![o] = ver[o]] /\ Answer(p, ver[o], pending[o])
    BY <1>answer, <1>t, <2>2 DEF AnswerPingReq
  <2> QED BY <1>n, <2>1, <2>2, <2>3, AnswerKeeps
<1>receive. ASSUME NEW p \in Pings, ReceiveAnswer(p) PROVE IInv'
  <2> DEFINE n == ping[p].from
             confirmed == Bumped(pending[n], ping[p].issued)
  <2>1. ping[p] \in Answers
    BY <1>receive, <1>stage DEF ReceiveAnswer
  <2>2. n \in Nodes /\ ping[p].answer \in Messages
    BY <2>1 DEF Answers
  <2>3. confirmed \in Changes /\ Current(ver[n], confirmed)
    BY <1>n, <2>2, BumpedCurrent
  <2>4. /\ ver' = [ver EXCEPT ![n] = ListAfter(ver[n], ping[p].answer)]
        /\ pending' = [pending EXCEPT ![n] = Recorded(ver[n], confirmed, ping[p].answer)]
        /\ ping' = [ping EXCEPT ![p] = Idle]
    BY <1>receive DEF ReceiveAnswer
  <2> HIDE DEF n, confirmed
  <2>5. ping' \in [Pings -> UnderWay]
    BY <1>t, <2>4 DEF UnderWay
  <2> QED BY <1>n, <2>2, <2>3, <2>4, <2>5, RecordedCurrent, NodeKeeps
<1>helped. ASSUME NEW p \in Pings, ReceivePingReqAnswer(p) PROVE IInv'
  <2> DEFINE n == ping[p].from
             list == ListAfter(ver[n], ping[p].answer)
             recorded == Recorded(ver[n], pending[n], ping[p].answer)
             after == Bumped(recorded, ping[p].issued)
  <2>1. ping[p] \in Answers
    BY <1>helped, <1>stage DEF ReceivePingReqAnswer
  <2>2. n \in Nodes /\ ping[p].answer \in Messages
    BY <2>1 DEF Answers
  <2>3. list \in Lists /\ recorded \in Changes /\ Current(list, recorded)
    BY <1>n, <2>2, RecordedCurrent
  <2>4. /\ ver' = [ver EXCEPT ![n] = list]
        /\ pending' = [pending EXCEPT ![n] = after]
        /\ ping' = [ping EXCEPT ![p] = Idle]
    BY <1>helped DEF ReceivePingReqAnswer
  <2> HIDE DEF n, list, recorded
  <2>5. after \in Changes /\ Current(list, after)
    BY <2>3, BumpedCurrent
  <2> HIDE DEF after
  <2>6. ping' \in [Pings -> UnderWay]
    BY <1>t, <2>4 DEF UnderWay
  <2> QED BY <2>2, <2>3, <2>4, <2>5, <2>6, NodeKeeps
<1>lose. ASSUME NEW p \in Pings, LosePing(p) PROVE IInv'
  <2>1. ping' \in [Pings -> UnderWay]
    BY <1>lose, <1>t DEF LosePing, UnderWay
  <2> QED BY <1>lose, <1>same, <2>1 DEF LosePing
<1>sync. ASSUME NEW n \in Nodes, NEW o \in Nodes, ReverseFullSync(n, o) PROVE IInv'
  <2>1. FullSync(ver[o]) \in Messages
    BY <1>n, FullSyncTyped
  <2>2. /\ ver' = [ver EXCEPT ![n] = ListAfter(ver[n], FullSync(ver[o]))]
        /\ pending' = [pending EXCEPT ![n] = Recorded(ver[n], pending[n], FullSync(ver[o]))]
        /\ ping' = ping
    BY <1>sync DEF ReverseFullSync
  <2> QED BY <1>t, <1>n, <2>1, <2>2, RecordedCurrent, NodeKeeps
<1>fail. ASSUME NEW n \in Nodes, NEW o \in Nodes, LoseReverseFullSync(n, o) PROVE IInv'
  BY <1>fail, <1>t, <1>same DEF LoseReverseFullSync
<1>stutter. CASE UNCHANGED vars
  BY <1>stutter, <1>t, <1>same DEF vars
<1>arrive. ASSUME NEW p \in Pings, Arrives(p) PROVE IInv'
  BY <1>arrive, <1>handle, <1>help, <1>answer, <1>receive, <1>helped DEF Arrives
<1>issue. ASSUME NEW p \in Pings, NEW n \in Nodes, NEW o \in Nodes,
                 SendPing(p, n, o) \/ SendPingReq(p, n, o)
          PROVE  IInv'
  BY <1>issue, <1>send DEF SendPing, SendPingReq, Kinds
<1> QED
  BY <1>originate, <1>issue, <1>arrive, <1>lose, <1>sync, <1>fail, <1>stutter DEF Next

\* In every reachable state.
THEOREM Invariance == Spec => []IInv
  BY InitIInv, NextIInv, PTL DEF Spec

\* A node never piggybacks about a member anything but what it believes
\* (recordChange in lib/gossip/dissemination.js, update() in
\* lib/membership/index.js).
THEOREM PendingStaysCurrent == Spec => []PendingIsCurrent
<1>1. IInv => PendingIsCurrent
  BY DEF IInv
<1> QED BY <1>1, Invariance, PTL

-----------------------------------------------------------------------------
(***************************************************************************)
(* How often a change is sent. As receiver a node counts what it issues,   *)
(* which it does below the limit only; as sender it counts when the answer *)
(* comes, and then the limit may have been reached meanwhile.              *)
(***************************************************************************)

\* A count that does not go up, or stays within the limit.
Within(count, before) == count <= before \/ count <= MaxPiggyback

\* What is recorded or remains has not been sent more often.
LEMMA CountsStay ==
  ASSUME NEW list \in Lists, NEW changes \in Changes, NEW message \in Messages, NEW except,
         NEW x \in Addresses
  PROVE  /\ Recorded(list, changes, message)[x].count <= changes[x].count
         /\ Remaining(changes, except)[x].count <= changes[x].count
  BY DEF Changes, Recorded, Remaining, None

\* What is issued is below the limit.
LEMMA IssuedBelow ==
  ASSUME NEW changes \in Changes, NEW except, NEW x \in Addresses,
         Issued(changes, except)[x].ver # 0
  PROVE  changes[x].src # except /\ changes[x].count < MaxPiggyback
<1>1. changes[x].src # except /\ ~Exhausted(changes[x]) /\ changes[x].ver # 0
  BY DEF Issued, NoChange
<1>2. changes[x].count \in Nat
  BY DEF Changes
<1> QED BY <1>1, <1>2, ParametersAssumption DEF Exhausted

\* A change is counted at most once for a message.
LEMMA BumpedOnce ==
  ASSUME NEW changes \in Changes, NEW message, NEW x \in Addresses
  PROVE  \/ Bumped(changes, message)[x] = changes[x]
         \/ /\ changes[x].ver # 0 /\ message[x].ver # 0 /\ SameId(changes[x], message[x])
            /\ Bumped(changes, message)[x].count = changes[x].count + 1
  BY DEF Bumped, Changes

\* What a receiver counts stays within the limit, a full sync included: then
\* every change of the list that has no id either is exhausted and dropped.
LEMMA ReceiverCounts ==
  ASSUME NEW list \in Lists, NEW changes \in Changes, NEW n \in Nodes, NEW answer,
         \/ answer = Issued(changes, n)
         \/ answer = FullSync(list) /\ IsEmpty(Issued(changes, n)),
         NEW x \in Addresses
  PROVE  Within(Bumped(Remaining(changes, n), answer)[x].count, changes[x].count)
<1> DEFINE rest == Remaining(changes, n)
<1>1. rest \in Changes
  BY ParametersAssumption DEF Changes, Remaining, None
<1>2. rest[x].count <= changes[x].count /\ rest[x].count \in Nat /\ changes[x].count \in Nat
  BY <1>1 DEF Changes, Remaining, None
<1>3. rest[x].ver # 0 =>
        rest[x] = changes[x] /\ ~(changes[x].src # n /\ Exhausted(changes[x]))
  BY DEF Remaining, None
<1> HIDE DEF rest
<1>4. CASE Bumped(rest, answer)[x] = rest[x]
  BY <1>2, <1>4 DEF Within, rest
<1>5. CASE /\ rest[x].ver # 0 /\ answer[x].ver # 0 /\ SameId(rest[x], answer[x])
           /\ Bumped(rest, answer)[x].count = rest[x].count + 1
  <2>1. CASE answer = Issued(changes, n)
    <3>1. changes[x].count < MaxPiggyback
      BY <1>5, <2>1, IssuedBelow
    <3> QED BY <1>2, <1>3, <1>5, <3>1, ParametersAssumption DEF Within, rest
  <2>2. CASE answer = FullSync(list) /\ IsEmpty(Issued(changes, n))
    <3>1. changes[x].src = NoOne
      BY <1>3, <1>5, <2>2 DEF FullSync, SameId
    <3>2. changes[x].src # n /\ Issued(changes, n)[x].ver = 0 /\ changes[x].ver # 0
      BY <1>3, <1>5, <2>2, <3>1, NodesAssumption DEF IsEmpty
    <3>3. Exhausted(changes[x])
      BY <3>2 DEF Issued
    <3> QED BY <1>3, <1>5, <3>2, <3>3
  <2> QED BY <2>1, <2>2
<1> QED BY <1>1, <1>4, <1>5, BumpedOnce DEF rest

\* The messages that carry a change are some of those under way.
LEMMA SomePings ==
  ASSUME NEW S \in SUBSET Pings
  PROVE  /\ IsFiniteSet(S) /\ Cardinality(S) \in Nat
         /\ Cardinality(S) <= MaxPings
         /\ S # Pings => Cardinality(S) < MaxPings
         /\ \A T \in SUBSET S : Cardinality(T) \in Nat /\ Cardinality(T) <= Cardinality(S)
         /\ \A p \in S : \A T \in SUBSET (S \ {p}) : Cardinality(T) < Cardinality(S)
<1>1. IsFiniteSet(Pings) /\ Cardinality(Pings) = MaxPings
  BY ParametersAssumption, FS_Interval DEF Pings
<1>2. IsFiniteSet(S) /\ Cardinality(S) \in Nat /\ Cardinality(S) <= MaxPings
  BY <1>1, FS_Subset, FS_CardinalityType
<1>3. S # Pings => Cardinality(S) < MaxPings
  <2>1. S # Pings => Cardinality(S) # Cardinality(Pings)
    BY <1>1, FS_Subset
  <2> QED BY <1>1, <1>2, <2>1, ParametersAssumption
<1>4. \A T \in SUBSET S : Cardinality(T) \in Nat /\ Cardinality(T) <= Cardinality(S)
  BY <1>2, FS_Subset, FS_CardinalityType
<1>5. ASSUME NEW p \in S, NEW T \in SUBSET (S \ {p}) PROVE Cardinality(T) < Cardinality(S)
  <2>1. T \in SUBSET S /\ T # S
    OBVIOUS
  <2>2. Cardinality(T) # Cardinality(S)
    BY <1>2, <2>1, FS_Subset
  <2> QED BY <1>2, <1>4, <2>1, <2>2
<1> QED BY <1>2, <1>3, <1>4, <1>5

\* What may happen to the count of a change and to the messages that carry it:
\* no more of either; up to the limit, while another node's message takes a
\* place; below the limit, when it is issued; one more, when an answer comes.
Counts(before, after, carry, still) ==
  \/ after <= before /\ still \subseteq carry
  \/ after <= MaxPiggyback /\ still \subseteq carry /\ carry # Pings
  \/ after < MaxPiggyback
  \/ after <= before + 1 /\ \E p \in carry : still \subseteq carry \ {p}

LEMMA CountsLimited ==
  ASSUME NEW before \in Nat, NEW after \in Nat,
         NEW carry \in SUBSET Pings, NEW still \in SUBSET Pings,
         Counts(before, after, carry, still),
         before + Cardinality(carry) <= MaxPiggyback + MaxPings - 1
  PROVE  after + Cardinality(still) <= MaxPiggyback + MaxPings - 1
<1> DEFINE c == Cardinality(carry)
           d == Cardinality(still)
<1>1. c \in Nat /\ d \in Nat /\ d <= MaxPings /\ MaxPings \in Nat /\ MaxPiggyback \in Nat
  BY SomePings, ParametersAssumption
<1>2. still \subseteq carry => d <= c
  BY SomePings
<1>3. carry # Pings => c < MaxPings
  BY SomePings
<1>4. \A p \in carry : still \subseteq carry \ {p} => d < c
  BY SomePings
<1> HIDE DEF c, d
<1>5. CASE after <= before /\ still \subseteq carry
  BY <1>1, <1>2, <1>5 DEF c, d
<1>6. CASE after <= MaxPiggyback /\ still \subseteq carry /\ carry # Pings
  BY <1>1, <1>2, <1>3, <1>6 DEF c, d
<1>7. CASE after < MaxPiggyback
  BY <1>1, <1>7 DEF c, d
<1>8. CASE after <= before + 1 /\ \E p \in carry : still \subseteq carry \ {p}
  <2>1. d < c
    BY <1>4, <1>8
  <2> QED BY <1>1, <1>8, <2>1 DEF c, d
<1> QED BY <1>5, <1>6, <1>7, <1>8 DEF Counts

\* So the counts of one node, in a step that leaves those of others alone.
LEMMA LimitKept ==
  ASSUME IInv, IInv', PiggybackLimited, NEW n \in Nodes, NEW changes \in Changes,
         pending' = [pending EXCEPT ![n] = changes],
         \A x \in Addresses :
           Counts(pending[n][x].count, changes[x].count, Carrying(n, x), Carrying(n, x)'),
         \A m \in Nodes \ {n}, x \in Addresses : Carrying(m, x)' \subseteq Carrying(m, x)
  PROVE  PiggybackLimited'
<1> SUFFICES ASSUME NEW m \in Nodes, NEW x \in Addresses
             PROVE  pending'[m][x].count + Cardinality(Carrying(m, x)')
                      <= MaxPiggyback + MaxPings - 1
  BY DEF PiggybackLimited
<1>1. pending[m][x].count \in Nat /\ pending'[m][x].count \in Nat
  BY DEF IInv, WellFormed, Changes
<1>2. Carrying(m, x) \in SUBSET Pings /\ Carrying(m, x)' \in SUBSET Pings
  BY DEF Carrying
<1>3. Counts(pending[m][x].count, pending'[m][x].count, Carrying(m, x), Carrying(m, x)')
  <2>1. CASE m = n
    <3>1. pending'[m] = changes
      BY <2>1 DEF IInv, WellFormed
    <3> QED BY <2>1, <3>1
  <2>2. CASE m # n
    <3>1. pending'[m] = pending[m]
      BY <2>2 DEF IInv, WellFormed
    <3>2. Carrying(m, x)' \subseteq Carrying(m, x)
      BY <2>2
    <3> QED BY <1>1, <3>1, <3>2 DEF Counts
  <2> QED BY <2>1, <2>2
<1>4. pending[m][x].count + Cardinality(Carrying(m, x)) <= MaxPiggyback + MaxPings - 1
  BY DEF PiggybackLimited
<1> QED BY <1>1, <1>2, <1>3, <1>4, CountsLimited

\* No message comes to carry more than it does when it is answered or lost.
LEMMA CarryingStays ==
  ASSUME IInv, NEW p \in Pings, NEW new, ping' = [ping EXCEPT ![p] = new],
         \/ new = Idle
         \/ ping[p] # Idle /\ new.from = ping[p].from /\ new.issued = ping[p].issued,
         NEW m \in Nodes, NEW x \in Addresses
  PROVE  /\ Carrying(m, x)' \subseteq Carrying(m, x)
         /\ new = Idle => p \notin Carrying(m, x)'
<1>1. ping'[p] = new /\ \A q \in Pings : q # p => ping'[q] = ping[q]
  BY DEF IInv, WellFormed
<1> QED BY <1>1 DEF Carrying

\* Every step keeps the counts limited.
LEMMA NextLimited == IInv /\ PiggybackLimited /\ [Next]_vars => PiggybackLimited'
<1> SUFFICES ASSUME IInv, PiggybackLimited, [Next]_vars PROVE PiggybackLimited'
  OBVIOUS
<1>i. IInv'
  BY NextIInv
<1>t. /\ ver \in [Nodes -> Lists] /\ pending \in [Nodes -> Changes]
      /\ ping \in [Pings -> UnderWay] /\ pending' \in [Nodes -> Changes]
  BY <1>i DEF IInv, WellFormed
<1>c. ASSUME NEW n \in Nodes, NEW x \in Addresses PROVE pending[n][x].count \in Nat
  BY <1>t DEF Changes
<1>stage. ASSUME NEW p \in Pings
          PROVE  /\ ping[p].stage \in {"request", "helping"}
                      => ping[p] \in Requests /\ ping[p] # Idle
                 /\ ping[p].stage = "answer" => ping[p] \in Answers /\ ping[p] # Idle
  BY <1>t, Stages
<1>same. ASSUME pending' = pending,
                \A m \in Nodes, x \in Addresses : Carrying(m, x)' \subseteq Carrying(m, x)
         PROVE  PiggybackLimited'
  <2>1. CASE Nodes = {}
    BY <2>1 DEF PiggybackLimited
  <2>2. ASSUME NEW n \in Nodes PROVE PiggybackLimited'
    <3>1. pending' = [pending EXCEPT ![n] = pending[n]] /\ pending[n] \in Changes
      BY <1>t, <1>same
    <3>2. \A x \in Addresses :
            Counts(pending[n][x].count, pending[n][x].count, Carrying(n, x), Carrying(n, x)')
      BY <1>c, <1>same DEF Counts
    <3> QED BY <1>i, <1>same, <3>1, <3>2, LimitKept
  <2> QED BY <2>1, <2>2
<1>record. ASSUME NEW n \in Nodes, NEW message \in Messages,
                  pending' = [pending EXCEPT ![n] = Recorded(ver[n], pending[n], message)],
                  \A m \in Nodes, x \in Addresses : Carrying(m, x)' \subseteq Carrying(m, x)
           PROVE  PiggybackLimited'
  <2> DEFINE after == Recorded(ver[n], pending[n], message)
  <2>1. after \in Changes
    BY <1>t, <1>record
  <2>2. \A x \in Addresses : after[x].count <= pending[n][x].count
    BY <1>t, <1>record, CountsStay
  <2> HIDE DEF after
  <2>3. \A x \in Addresses :
          Counts(pending[n][x].count, after[x].count, Carrying(n, x), Carrying(n, x)')
    BY <1>record, <2>2 DEF Counts
  <2> QED BY <1>i, <1>record, <2>1, <2>3, LimitKept DEF after
<1>quiet. ASSUME UNCHANGED ping
          PROVE  \A m \in Nodes, x \in Addresses : Carrying(m, x)' \subseteq Carrying(m, x)
  BY <1>quiet DEF Carrying
<1>originate. ASSUME NEW n \in Nodes, NEW x \in Addresses, Originate(n, x)
              PROVE  PiggybackLimited'
  <2> DEFINE new == [y \in Addresses |-> IF y = x THEN [ver |-> ver[n][x] + 1, src |-> n]
                                                  ELSE NoChange]
  <2>1. new \in Messages
    <3>1. ver[n] \in Lists /\ ver[n][x] < MaxVersion
      BY <1>t, <1>originate DEF Originate
    <3> QED BY <3>1, OriginalTyped
  <2>2. pending' = [pending EXCEPT ![n] = Recorded(ver[n], pending[n], new)] /\ UNCHANGED ping
    BY <1>originate DEF Originate
  <2> HIDE DEF new
  <2> QED BY <2>1, <2>2, <1>record, <1>quiet
<1>send. ASSUME NEW p \in Pings, NEW n \in Nodes, NEW o \in Nodes, NEW kind \in Kinds,
                Issue(p, n, o, kind)
         PROVE  PiggybackLimited'
  <2> DEFINE issued == Issued(pending[n], Anyone)
             request == [stage |-> "request", kind |-> kind, from |-> n, to |-> o,
                         checksum |-> Checksum(ver[n]), issued |-> issued]
             after == Remaining(pending[n], Anyone)
  <2>1. /\ pending' = [pending EXCEPT ![n] = after]
        /\ ping' = [ping EXCEPT ![p] = request]
    BY <1>send DEF Issue
  <2>2. request.issued = issued /\ request.from = n
    OBVIOUS
  <2>3. \A x \in Addresses : after[x].count <= pending[n][x].count
    BY <1>t DEF Changes, Remaining, None
  <2>4. \A x \in Addresses : issued[x].ver # 0 => pending[n][x].count < MaxPiggyback
    BY <1>t, IssuedBelow
  <2> HIDE DEF issued, request, after
  <2>5. after \in Changes
    BY <1>t, <2>1
  <2>6. ping'[p] = request /\ \A q \in Pings : q # p => ping'[q] = ping[q]
    BY <1>t, <2>1
  <2>7. ASSUME NEW m \in Nodes, NEW x \in Addresses, m # n \/ issued[x].ver = 0
        PROVE  Carrying(m, x)' \subseteq Carrying(m, x)
    BY <2>2, <2>6, <2>7 DEF Carrying
  <2>8. ASSUME NEW x \in Addresses
        PROVE  Counts(pending[n][x].count, after[x].count, Carrying(n, x), Carrying(n, x)')
    <3>1. CASE issued[x].ver = 0
      BY <2>3, <2>7, <3>1 DEF Counts
    <3>2. CASE issued[x].ver # 0
      <4>1. after[x].count \in Nat
        BY <2>5 DEF Changes
      <4>2. after[x].count < MaxPiggyback
        BY <1>c, <2>3, <2>4, <3>2, <4>1, ParametersAssumption
      <4> QED BY <4>2 DEF Counts
    <3> QED BY <3>1, <3>2
  <2> QED BY <1>i, <2>1, <2>5, <2>7, <2>8, LimitKept
<1>reply. ASSUME NEW p \in Pings, ping[p] \in Requests, ping[p] # Idle,
                 NEW o \in Nodes, o = ping[p].to,
                 NEW list \in Lists, NEW changes \in Changes,
                 \A x \in Addresses : changes[x].count <= pending[o][x].count,
                 Answer(p, list, changes)
          PROVE  PiggybackLimited'
  <2> DEFINE n == ping[p].from
             answer == AnswerTo(p, list, changes)
             after == Bumped(Remaining(changes, n), answer)
             reply == [stage |-> "answer", kind |-> ping[p].kind, from |-> n,
                       issued |-> ping[p].issued, answer |-> answer]
  <2>1. o \in Nodes /\ n \in Nodes /\ n # o
    BY <1>reply DEF Requests
  <2>2. /\ pending' = [pending EXCEPT ![o] = after]
        /\ ping' = [ping EXCEPT ![p] = reply]
    BY <1>reply DEF Answer
  <2>3. reply.issued = ping[p].issued /\ reply.from = ping[p].from
    OBVIOUS
  <2>4. \A x \in Addresses : Within(after[x].count, changes[x].count)
    <3>1. \/ answer = Issued(changes, n)
          \/ answer = FullSync(list) /\ IsEmpty(Issued(changes, n))
      BY DEF AnswerTo, FullSyncs, NeedsFullSync
    <3> HIDE DEF answer, n
    <3> QED BY <1>reply, <2>1, <3>1, ReceiverCounts
  <2> HIDE DEF after, reply
  <2>5. after \in Changes
    BY <1>t, <2>1, <2>2
  <2>6. ASSUME NEW m \in Nodes, NEW x \in Addresses
        PROVE  Carrying(m, x)' \subseteq Carrying(m, x)
    BY <1>reply, <2>2, <2>3, CarryingStays
  <2>7. ASSUME NEW x \in Addresses
        PROVE  Counts(pending[o][x].count, after[x].count, Carrying(o, x), Carrying(o, x)')
    <3>1. p \notin Carrying(o, x)
      BY <2>1 DEF Carrying
    <3>2. changes[x].count <= pending[o][x].count
      BY <1>reply
    <3>3. /\ changes[x].count \in Nat /\ after[x].count \in Nat
          /\ pending[o][x].count \in Nat
      BY <1>reply, <1>c, <2>1, <2>5 DEF Changes
    <3>4. after[x].count <= pending[o][x].count \/ after[x].count <= MaxPiggyback
      BY <2>4, <3>2, <3>3, ParametersAssumption DEF Within
    <3>5. Carrying(o, x)' \subseteq Carrying(o, x) /\ Carrying(o, x) # Pings
      BY <1>reply, <2>1, <2>6, <3>1
    <3> QED BY <3>4, <3>5 DEF Counts
  <2> QED BY <1>i, <2>1, <2>2, <2>5, <2>6, <2>7, LimitKept
<1>handle. ASSUME NEW p \in Pings, HandlePing(p) PROVE PiggybackLimited'
  <2> DEFINE o == ping[p].to
             list == ListAfter(ver[o], ping[p].issued)
             changes == Recorded(ver[o], pending[o], ping[p].issued)
  <2>1. ping[p] \in Requests /\ ping[p] # Idle
    BY <1>handle, <1>stage DEF HandlePing
  <2>2. o \in Nodes /\ ping[p].issued \in Messages
    BY <2>1 DEF Requests
  <2>3. list \in Lists /\ changes \in Changes
    BY <1>t, <2>2 DEF Lists, Changes, Messages, ListAfter, Recorded
  <2>4. \A x \in Addresses : changes[x].count <= pending[o][x].count
    BY <1>t, <2>2, CountsStay
  <2>5. Answer(p, list, changes)
    BY <1>handle DEF HandlePing
  <2> HIDE DEF list, changes
  <2> QED BY <2>1, <2>2, <2>3, <2>4, <2>5, <1>reply
<1>help. ASSUME NEW p \in Pings, HandlePingReq(p) PROVE PiggybackLimited'
  <2> DEFINE o == ping[p].to
             helping == [ping[p] EXCEPT !.stage = "helping"]
  <2>1. ping[p] \in Requests /\ ping[p] # Idle
    BY <1>help, <1>stage DEF HandlePingReq
  <2>2. o \in Nodes /\ ping[p].issued \in Messages
    BY <2>1 DEF Requests
  <2>3. helping.from = ping[p].from /\ helping.issued = ping[p].issued
    BY <2>1 DEF Requests
  <2>4. /\ pending' = [pending EXCEPT ![o] = Recorded(ver[o], pending[o], ping[p].issued)]
        /\ ping' = [ping EXCEPT ![p] = helping]
    BY <1>help, <1>t DEF HandlePingReq
  <2> HIDE DEF o, helping
  <2>5. \A m \in Nodes, x \in Addresses : Carrying(m, x)' \subseteq Carrying(m, x)
    BY <2>1, <2>3, <2>4, CarryingStays
  <2> QED BY <2>2, <2>4, <2>5, <1>record
<1>answer. ASSUME NEW p \in Pings, AnswerPingReq(p) PROVE PiggybackLimited'
  <2>1. ping[p] \in Requests /\ ping[p] # Idle
    BY <1>answer, <1>stage DEF AnswerPingReq
  <2>2. ping[p].to \in Nodes
    BY <2>1 DEF Requests
  <2>3. Answer(p, ver[ping[p].to], pending[ping[p].to])
    BY <1>answer DEF AnswerPingReq
  <2>4. /\ ver[ping[p].to] \in Lists /\ pending[ping[p].to] \in Changes
        /\ \A x \in Addresses : pending[ping[p].to][x].count <= pending[ping[p].to][x].count
    BY <1>t, <1>c, <2>2
  <2> QED BY <2>1, <2>2, <2>3, <2>4, <1>reply
<1>count. ASSUME NEW p \in Pings, NEW n \in Nodes, NEW changes \in Changes,
                 ping[p] \in Answers, ping[p] # Idle, n = ping[p].from,
                 pending' = [pending EXCEPT ![n] = changes],
                 ping' = [ping EXCEPT ![p] = Idle],
                 \A x \in Addresses :
                   \/ changes[x].count <= pending[n][x].count
                   \/ /\ ping[p].issued[x].ver # 0
                      /\ changes[x].count <= pending[n][x].count + 1
          PROVE  PiggybackLimited'
  <2>1. ASSUME NEW m \in Nodes, NEW x \in Addresses
        PROVE  Carrying(m, x)' \subseteq Carrying(m, x) /\ p \notin Carrying(m, x)'
    BY <1>count, CarryingStays
  <2>2. ASSUME NEW x \in Addresses
        PROVE  Counts(pending[n][x].count, changes[x].count, Carrying(n, x), Carrying(n, x)')
    <3>1. CASE changes[x].count <= pending[n][x].count
      BY <2>1, <3>1 DEF Counts
    <3>2. CASE /\ ping[p].issued[x].ver # 0
               /\ changes[x].count <= pending[n][x].count + 1
      <4>1. p \in Carrying(n, x)
        BY <1>count, <3>2 DEF Carrying
      <4> QED BY <2>1, <3>2, <4>1 DEF Counts
    <3> QED BY <1>count, <3>1, <3>2
  <2> QED BY <1>i, <1>count, <2>1, <2>2, LimitKept
<1>receive. ASSUME NEW p \in Pings, ReceiveAnswer(p) PROVE PiggybackLimited'
  <2> DEFINE n == ping[p].from
             confirmed == Bumped(pending[n], ping[p].issued)
             after == Recorded(ver[n], confirmed, ping[p].answer)
  <2>1. ping[p] \in Answers /\ ping[p] # Idle
    BY <1>receive, <1>stage DEF ReceiveAnswer
  <2>2. n \in Nodes /\ ping[p].answer \in Messages
    BY <2>1 DEF Answers
  <2>3. pending' = [pending EXCEPT ![n] = after] /\ ping' = [ping EXCEPT ![p] = Idle]
    BY <1>receive DEF ReceiveAnswer
  <2>4. confirmed \in Changes
    BY <1>t, <2>2, BumpedTyped
  <2>5. \A x \in Addresses : after[x].count <= confirmed[x].count
    BY <1>t, <2>2, <2>4, CountsStay
  <2>6. \A x \in Addresses :
          \/ confirmed[x] = pending[n][x]
          \/ /\ ping[p].issued[x].ver # 0
             /\ confirmed[x].count = pending[n][x].count + 1
    BY <1>t, <2>2, BumpedOnce
  <2> HIDE DEF n, confirmed, after
  <2>7. after \in Changes
    BY <1>t, <2>2, <2>3
  <2>8. ASSUME NEW x \in Addresses
        PROVE  \/ after[x].count <= pending[n][x].count
               \/ /\ ping[p].issued[x].ver # 0
                  /\ after[x].count <= pending[n][x].count + 1
    BY <2>5, <2>6
  <2> QED BY <1>count, <2>1, <2>2, <2>3, <2>7, <2>8 DEF n
<1>helped. ASSUME NEW p \in Pings, ReceivePingReqAnswer(p) PROVE PiggybackLimited'
  <2> DEFINE n == ping[p].from
             recorded == Recorded(ver[n], pending[n], ping[p].answer)
             after == Bumped(recorded, ping[p].issued)
  <2>1. ping[p] \in Answers /\ ping[p] # Idle
    BY <1>helped, <1>stage DEF ReceivePingReqAnswer
  <2>2. n \in Nodes /\ ping[p].answer \in Messages
    BY <2>1 DEF Answers
  <2>3. pending' = [pending EXCEPT ![n] = after] /\ ping' = [ping EXCEPT ![p] = Idle]
    BY <1>helped DEF ReceivePingReqAnswer
  <2>4. recorded \in Changes
    BY <1>t, <2>2 DEF Lists, Changes, Messages, Recorded
  <2>5. \A x \in Addresses : recorded[x].count <= pending[n][x].count
    BY <1>t, <2>2, CountsStay
  <2> HIDE DEF recorded
  <2>6. \A x \in Addresses :
          \/ after[x] = recorded[x]
          \/ ping[p].issued[x].ver # 0 /\ after[x].count = recorded[x].count + 1
    BY <2>4, BumpedOnce
  <2> HIDE DEF n, after
  <2>7. after \in Changes
    BY <1>t, <2>2, <2>3
  <2>8. ASSUME NEW x \in Addresses
        PROVE  \/ after[x].count <= pending[n][x].count
               \/ /\ ping[p].issued[x].ver # 0
                  /\ after[x].count <= pending[n][x].count + 1
    <3>1. recorded[x].count \in Nat /\ pending[n][x].count \in Nat
      BY <1>c, <2>2, <2>4 DEF Changes
    <3> QED BY <2>5, <2>6, <3>1
  <2> QED BY <1>count, <2>1, <2>2, <2>3, <2>7, <2>8 DEF n
<1>lose. ASSUME NEW p \in Pings, LosePing(p) PROVE PiggybackLimited'
  <2>1. \A m \in Nodes, x \in Addresses : Carrying(m, x)' \subseteq Carrying(m, x)
    BY <1>lose, CarryingStays DEF LosePing
  <2> QED BY <1>lose, <1>same, <2>1 DEF LosePing
<1>sync. ASSUME NEW n \in Nodes, NEW o \in Nodes, ReverseFullSync(n, o) PROVE PiggybackLimited'
  <2>1. FullSync(ver[o]) \in Messages
    BY <1>t, FullSyncTyped
  <2>2. /\ pending' = [pending EXCEPT ![n] = Recorded(ver[n], pending[n], FullSync(ver[o]))]
        /\ UNCHANGED ping
    BY <1>sync DEF ReverseFullSync
  <2> QED BY <2>1, <2>2, <1>record, <1>quiet
<1>fail. ASSUME NEW n \in Nodes, NEW o \in Nodes, LoseReverseFullSync(n, o)
         PROVE  PiggybackLimited'
  BY <1>fail, <1>same, <1>quiet DEF LoseReverseFullSync
<1>stutter. ASSUME UNCHANGED vars PROVE PiggybackLimited'
  BY <1>stutter, <1>same, <1>quiet DEF vars
<1>arrive. ASSUME NEW p \in Pings, Arrives(p) PROVE PiggybackLimited'
  BY <1>arrive, <1>handle, <1>help, <1>answer, <1>receive, <1>helped DEF Arrives
<1>issue. ASSUME NEW p \in Pings, NEW n \in Nodes, NEW o \in Nodes,
                 SendPing(p, n, o) \/ SendPingReq(p, n, o)
          PROVE  PiggybackLimited'
  BY <1>issue, <1>send DEF SendPing, SendPingReq, Kinds
<1> QED
  BY <1>originate, <1>issue, <1>arrive, <1>lose, <1>sync, <1>fail, <1>stutter DEF Next

\* Nothing is counted and nothing under way at first.
LEMMA InitLimited == Init => PiggybackLimited
<1> SUFFICES ASSUME Init, NEW n \in Nodes, NEW x \in Addresses
             PROVE  pending[n][x].count + Cardinality(Carrying(n, x))
                      <= MaxPiggyback + MaxPings - 1
  BY DEF PiggybackLimited
<1>1. pending[n][x].count = 0
  BY DEF Init, None
<1>2. Carrying(n, x) = {}
  BY DEF Init, Carrying
<1>3. Cardinality({}) = 0
  BY FS_EmptySet
<1> QED BY <1>1, <1>2, <1>3, ParametersAssumption

\* A node sends a change at most maxPiggybackCount times, and once more for each
\* of its pings and ping-reqs that was under way beside another: as sender it
\* counts only when the answer comes, in the callback of each
\* (issueAsSender in lib/gossip/dissemination.js).
THEOREM PiggybackIsLimited == Spec => []PiggybackLimited
  BY InitIInv, InitLimited, NextIInv, NextLimited, PTL DEF Spec

-----------------------------------------------------------------------------
(***************************************************************************)
(* How many reverse full syncs a node runs is a sum over the nodes it asks *)
(* for them. A sum is a fold over a set; what it does is proved by         *)
(* induction on the size of the set, over sets of numbers.                 *)
(***************************************************************************)

\* A set of numbers has a least one.
LEMMA LeastNumber ==
  ASSUME NEW S \in SUBSET Nat, S # {}
  PROVE  \E n \in S : \A k \in S : n <= k
<1>1. PICK n \in S : \A k \in S : ~(<<k, n>> \in OpToRel(<, Nat))
  BY NatLessThanWellFounded, WFMin
<1>2. \A k \in S : ~(k < n)
  BY <1>1 DEF OpToRel
<1> QED BY <1>2

\* A set of numbers with 0 and with the successor of each has them all.
LEMMA AllNumbers ==
  ASSUME NEW S \in SUBSET Nat, 0 \in S, \A n \in S : n + 1 \in S
  PROVE  S = Nat
<1> SUFFICES ASSUME Nat \ S # {} PROVE FALSE
  OBVIOUS
<1>1. PICK n \in Nat \ S : \A k \in Nat \ S : n <= k
  BY LeastNumber
<1>2. n # 0 /\ n - 1 \in Nat
  BY <1>1
<1>3. n - 1 \in S
  BY <1>1, <1>2
<1>4. (n - 1) + 1 \in S
  BY <1>3
<1> QED BY <1>1, <1>4

\* The sum over s, when g has the sums over the sets with an element less.
SumStep(g, fun, s) ==
  IF s = {} THEN 0 ELSE LET x == CHOOSE x \in s : TRUE IN fun[x] + g[s \ {x}]

IsSum(g, fun, sets) == g = [s \in sets |-> SumStep(g, fun, s)]

\* The subsets of S of at most k elements.
UpTo(S, k) == {s \in SUBSET S : Cardinality(s) <= k}

\* What FoldFunction is defined to be.
LEMMA SumIs ==
  ASSUME NEW fun
  PROVE  FoldFunction(+, 0, fun) =
           (CHOOSE g : g = [s \in SUBSET (DOMAIN fun) |-> SumStep(g, fun, s)])[DOMAIN fun]
  BY DEF FoldFunction, FoldFunctionOnSet, MapThenFoldSet, SumStep

\* An element less.
LEMMA OneLess ==
  ASSUME NEW S, IsFiniteSet(S), NEW k \in Nat, NEW s \in UpTo(S, k + 1), s # {},
         NEW x, x = CHOOSE y \in s : TRUE
  PROVE  x \in s /\ s \ {x} \in UpTo(S, k)
<1>1. x \in s
  OBVIOUS
<1>2. IsFiniteSet(s) /\ Cardinality(s) \in Nat
  BY FS_Subset, FS_CardinalityType DEF UpTo
<1>3. Cardinality(s \ {x}) = Cardinality(s) - 1
  BY <1>1, <1>2, FS_RemoveElement
<1> QED BY <1>1, <1>2, <1>3 DEF UpTo

\* The subsets of a finite set are the ones of at most its size.
LEMMA AllSubsets ==
  ASSUME NEW S, IsFiniteSet(S)
  PROVE  Cardinality(S) \in Nat /\ UpTo(S, Cardinality(S)) = SUBSET S
<1>1. \A s \in SUBSET S : Cardinality(s) <= Cardinality(S)
  BY FS_Subset
<1> QED BY <1>1, FS_CardinalityType DEF UpTo

\* Only the empty set has no element.
LEMMA OnlyEmpty ==
  ASSUME NEW S, IsFiniteSet(S)
  PROVE  UpTo(S, 0) = {{}}
<1>1. \A s \in SUBSET S : IsFiniteSet(s) /\ Cardinality(s) \in Nat
  BY FS_Subset, FS_CardinalityType
<1>2. \A s \in SUBSET S : Cardinality(s) = 0 <=> s = {}
  BY <1>1, FS_EmptySet
<1> QED BY <1>1, <1>2 DEF UpTo

\* There is a sum over sets of every size.
LEMMA SumsExist ==
  ASSUME NEW S, IsFiniteSet(S), NEW fun, NEW n \in Nat
  PROVE  \E g : IsSum(g, fun, UpTo(S, n))
<1> DEFINE Sizes == {k \in Nat : \E g : IsSum(g, fun, UpTo(S, k))}
<1>1. 0 \in Sizes
  <2> DEFINE g == [s \in UpTo(S, 0) |-> 0]
  <2>1. \A h : [s \in UpTo(S, 0) |-> SumStep(h, fun, s)] = g
    BY OnlyEmpty DEF SumStep
  <2>2. IsSum(g, fun, UpTo(S, 0))
    BY <2>1 DEF IsSum
  <2> QED BY <2>2
<1>2. ASSUME NEW k \in Sizes PROVE k + 1 \in Sizes
  <2>1. PICK g : IsSum(g, fun, UpTo(S, k))
    OBVIOUS
  <2> DEFINE h == [s \in UpTo(S, k + 1) |-> SumStep(g, fun, s)]
  <2>2. UpTo(S, k) \subseteq UpTo(S, k + 1)
    <3>1. \A s \in SUBSET S : Cardinality(s) \in Nat
      BY FS_Subset, FS_CardinalityType
    <3> QED BY <3>1 DEF UpTo
  <2>3. \A s \in UpTo(S, k) : h[s] = g[s]
    BY <2>1, <2>2 DEF IsSum
  <2>4. ASSUME NEW s \in UpTo(S, k + 1)
        PROVE  SumStep(h, fun, s) = SumStep(g, fun, s)
    <3>1. CASE s = {}
      BY <3>1 DEF SumStep
    <3>2. CASE s # {}
      <4> DEFINE x == CHOOSE y \in s : TRUE
      <4>1. s \ {x} \in UpTo(S, k)
        BY <3>2, OneLess
      <4> HIDE DEF h
      <4>2. h[s \ {x}] = g[s \ {x}]
        BY <2>3, <4>1
      <4> QED BY <3>2, <4>2 DEF SumStep
    <3> QED BY <3>1, <3>2
  <2>5. h = [s \in UpTo(S, k + 1) |-> SumStep(h, fun, s)]
    <3> HIDE DEF h
    <3>1. [s \in UpTo(S, k + 1) |-> SumStep(h, fun, s)]
            = [s \in UpTo(S, k + 1) |-> SumStep(g, fun, s)]
      BY <2>4
    <3> QED BY <3>1 DEF h
  <2>6. IsSum(h, fun, UpTo(S, k + 1))
    BY <2>5 DEF IsSum
  <2> QED BY <2>6
<1> HIDE DEF Sizes
<1>3. Sizes = Nat
  BY <1>1, <1>2, AllNumbers DEF Sizes
<1> QED BY <1>3 DEF Sizes

\* The sums that a fold takes, of every set.
Sums(fun) == CHOOSE g : g = [s \in SUBSET (DOMAIN fun) |-> SumStep(g, fun, s)]

LEMMA SumsAre ==
  ASSUME NEW S, IsFiniteSet(S), NEW fun, DOMAIN fun = S
  PROVE  /\ FoldFunction(+, 0, fun) = Sums(fun)[S]
         /\ \A s \in SUBSET S : Sums(fun)[s] = SumStep(Sums(fun), fun, s)
<1>1. \E g : g = [s \in SUBSET S |-> SumStep(g, fun, s)]
  <2>1. \E g : IsSum(g, fun, UpTo(S, Cardinality(S)))
    BY AllSubsets, SumsExist
  <2>2. \E g : IsSum(g, fun, SUBSET S)
    BY <2>1, AllSubsets
  <2> QED BY <2>2, Zenon DEF IsSum
<1>2. Sums(fun) = [s \in SUBSET S |-> SumStep(Sums(fun), fun, s)]
  BY <1>1 DEF Sums
<1>3. FoldFunction(+, 0, fun) = Sums(fun)[S]
  BY SumIs DEF Sums
<1> HIDE DEF Sums
<1> QED BY <1>2, <1>3

\* What a fold with + returns, under a name that takes no operator.
Total(fun) == FoldFunction(+, 0, fun)

\* What a node runs is a total, in the next state too.
LEMMA RunningIs ==
  ASSUME NEW CONSTANT n \in Nodes
  PROVE  Running(n) = Total(jobs[n]) /\ Running(n)' = Total(jobs'[n])
<1>1. Running(n) = Total(jobs[n])
  BY DEF Running, Total
<1>2. (Running(n) = Total(jobs[n]))'
  BY <1>1, PTL
<1> QED BY <1>1, <1>2

\* A sum changes with one summand by as much, is not less than it, and is 0
\* when they all are.
LEMMA SumChanges ==
  ASSUME NEW S, IsFiniteSet(S), NEW fun \in [S -> Nat], NEW o \in S, NEW v \in Nat
  PROVE  /\ Total(fun) \in Nat
         /\ fun[o] <= Total(fun)
         /\ (\A x \in S : fun[x] = 0) => Total(fun) = 0
         /\ Total([fun EXCEPT ![o] = v]) + fun[o] = Total(fun) + v
<1> DEFINE new == [fun EXCEPT ![o] = v]
           F == Sums(fun)
           G == Sums(new)
           Good(s) == /\ F[s] \in Nat /\ G[s] \in Nat
                      /\ o \in s => G[s] + fun[o] = F[s] + v /\ fun[o] <= F[s]
                      /\ o \notin s => G[s] = F[s]
                      /\ (\A x \in S : fun[x] = 0) => F[s] = 0
           Sizes == {k \in Nat : \A s \in UpTo(S, k) : Good(s)}
<1>1. new \in [S -> Nat] /\ DOMAIN new = S /\ new[o] = v /\ \A x \in S \ {o} : new[x] = fun[x]
  OBVIOUS
<1>2. /\ Total(fun) = F[S]
      /\ \A s \in SUBSET S : F[s] = SumStep(F, fun, s)
  BY SumsAre DEF Total
<1>3. /\ Total(new) = G[S]
      /\ \A s \in SUBSET S : G[s] = SumStep(G, new, s)
  <2>1. \A f \in [S -> Nat] : Total(f) = Sums(f)[S]
    BY SumsAre DEF Total
  <2>2. \A f \in [S -> Nat], s \in SUBSET S : Sums(f)[s] = SumStep(Sums(f), f, s)
    BY SumsAre DEF Total
  <2> HIDE DEF new
  <2> QED BY <1>1, <2>1, <2>2
<1> HIDE DEF F, G, new
<1>4. 0 \in Sizes
  <2>1. F[{}] = 0 /\ G[{}] = 0
    BY <1>2, <1>3 DEF SumStep
  <2>2. Good({})
    BY <2>1
  <2> HIDE DEF Good
  <2>3. \A s \in UpTo(S, 0) : Good(s)
    BY <2>2, OnlyEmpty
  <2> QED BY <2>3
<1>5. ASSUME NEW k \in Sizes PROVE k + 1 \in Sizes
  <2>1. ASSUME NEW s \in UpTo(S, k + 1) PROVE Good(s)
    <3>0. s \in SUBSET S
      BY DEF UpTo
    <3>1. CASE s = {}
      <4>1. F[s] = 0 /\ G[s] = 0
        BY <1>2, <1>3, <3>0, <3>1 DEF SumStep
      <4> QED BY <3>1, <4>1
    <3>2. CASE s # {}
      <4> DEFINE x == CHOOSE y \in s : TRUE
      <4>1. x \in s /\ s \ {x} \in UpTo(S, k)
        BY <3>2, OneLess
      <4>2. F[s] = fun[x] + F[s \ {x}] /\ G[s] = new[x] + G[s \ {x}]
        BY <1>2, <1>3, <3>0, <3>2 DEF SumStep
      <4>3. x \in S /\ fun[x] \in Nat /\ new[x] \in Nat /\ fun[o] \in Nat
        BY <1>1, <3>0, <4>1
      <4> HIDE DEF x
      <4>4. Good(s \ {x})
        BY <4>1
      <4>5. CASE x = o
        BY <1>1, <4>1, <4>2, <4>3, <4>4, <4>5
      <4>6. CASE x # o
        BY <1>1, <4>1, <4>2, <4>3, <4>4, <4>6
      <4> QED BY <4>5, <4>6
    <3> QED BY <3>1, <3>2
  <2> QED BY <2>1
<1> HIDE DEF Sizes
<1>6. Sizes = Nat
  BY <1>4, <1>5, AllNumbers DEF Sizes
<1>7. Good(S)
  <2>1. Cardinality(S) \in Sizes /\ S \in UpTo(S, Cardinality(S))
    BY <1>6, AllSubsets
  <2> QED BY <2>1 DEF Sizes
<1> QED BY <1>2, <1>3, <1>7 DEF new

-----------------------------------------------------------------------------
(***************************************************************************)
(* Type correctness: the limit on reverse full syncs, and every bound.     *)
(***************************************************************************)

\* Jobs are counted, and no node runs more than it may.
JobsLimited ==
  /\ jobs \in [Nodes -> [Nodes -> Nat]]
  /\ \A n \in Nodes : Running(n) <= MaxJobs

Bounded == JobsLimited /\ news \in 0..MaxNews /\ lost \in 0..MaxLost

\* A node asks another for one more, or for one less.
LEMMA JobsCounted ==
  ASSUME JobsLimited, NEW n \in Nodes, NEW o \in Nodes, NEW v \in Nat,
         jobs' = [jobs EXCEPT ![n][o] = v], Running(n) + v <= MaxJobs + jobs[n][o]
  PROVE  JobsLimited'
<1>1. jobs[n] \in [Nodes -> Nat] /\ MaxJobs \in Nat
  BY ParametersAssumption DEF JobsLimited
<1>2. jobs' = [jobs EXCEPT ![n] = [jobs[n] EXCEPT ![o] = v]]
  BY DEF JobsLimited
<1>3. jobs' \in [Nodes -> [Nodes -> Nat]]
  BY <1>1, <1>2 DEF JobsLimited
<1>4. ASSUME NEW m \in Nodes PROVE Running(m)' <= MaxJobs
  <2>1. CASE m # n
    <3>1. jobs'[m] = jobs[m]
      BY <1>2, <2>1 DEF JobsLimited
    <3> QED BY <3>1, RunningIs DEF JobsLimited
  <2>2. CASE m = n
    <3>1. jobs'[n] = [jobs[n] EXCEPT ![o] = v]
      BY <1>2 DEF JobsLimited
    <3>2. /\ Running(n) \in Nat
          /\ Total([jobs[n] EXCEPT ![o] = v]) + jobs[n][o] = Running(n) + v
      BY <1>1, NodesAssumption, SumChanges, RunningIs
    <3>3. Running(n)' + jobs[n][o] = Running(n) + v
      BY <3>1, <3>2, RunningIs
    <3>4. Running(n)' \in Nat
      <4>1. jobs'[n] \in [Nodes -> Nat]
        BY <1>3
      <4>2. Total(jobs'[n]) \in Nat
        BY <4>1, NodesAssumption, SumChanges
      <4> QED BY <4>2, RunningIs
    <3>5. jobs[n][o] \in Nat
      BY <1>1
    <3> QED BY <1>1, <2>2, <3>2, <3>3, <3>4, <3>5
  <2> QED BY <2>1, <2>2
<1> QED BY <1>3, <1>4 DEF JobsLimited

\* A job that is over leaves one less.
LEMMA JobOver ==
  ASSUME JobsLimited, NEW n \in Nodes, NEW o \in Nodes, jobs[n][o] > 0,
         jobs' = [jobs EXCEPT ![n][o] = @ - 1]
  PROVE  JobsLimited'
<1>1. jobs[n] \in [Nodes -> Nat] /\ jobs[n][o] \in Nat /\ MaxJobs \in Nat
  BY ParametersAssumption DEF JobsLimited
<1>2. Running(n) \in Nat /\ Running(n) <= MaxJobs
  BY <1>1, NodesAssumption, SumChanges, RunningIs DEF JobsLimited
<1>3. jobs[n][o] - 1 \in Nat
  BY <1>1
<1>4. jobs' = [jobs EXCEPT ![n][o] = jobs[n][o] - 1]
  BY DEF JobsLimited
<1>5. Running(n) + (jobs[n][o] - 1) <= MaxJobs + jobs[n][o]
  BY <1>1, <1>2
<1> QED BY <1>3, <1>4, <1>5, JobsCounted

\* There are no jobs at first.
LEMMA InitBounded == Init => Bounded
<1> SUFFICES ASSUME Init PROVE Bounded
  OBVIOUS
<1>1. jobs \in [Nodes -> [Nodes -> Nat]]
  BY DEF Init
<1>2. ASSUME NEW n \in Nodes PROVE Running(n) = 0
  <2>1. jobs[n] \in [Nodes -> Nat] /\ \A o \in Nodes : jobs[n][o] = 0
    BY DEF Init
  <2> QED BY <2>1, NodesAssumption, SumChanges, RunningIs
<1> QED BY <1>1, <1>2, ParametersAssumption DEF Init, Bounded, JobsLimited

\* A job starts only while there are fewer than MaxJobs.
LEMMA NextBounded == IInv /\ Bounded /\ [Next]_vars => Bounded'
<1> SUFFICES ASSUME IInv, Bounded, [Next]_vars PROVE Bounded'
  OBVIOUS
<1>1. /\ JobsLimited /\ news \in 0..MaxNews /\ lost \in 0..MaxLost
      /\ MaxNews \in Nat /\ MaxLost \in Nat /\ MaxJobs \in Nat
  BY ParametersAssumption DEF Bounded
<1>same. ASSUME UNCHANGED jobs PROVE JobsLimited'
  BY <1>1, <1>same, RunningIs DEF JobsLimited
<1>originate. ASSUME NEW n \in Nodes, NEW x \in Addresses, Originate(n, x) PROVE Bounded'
  BY <1>1, <1>same, <1>originate DEF Originate, Bounded
<1>send. ASSUME NEW p \in Pings, NEW n \in Nodes, NEW o \in Nodes,
                SendPing(p, n, o) \/ SendPingReq(p, n, o)
         PROVE  Bounded'
  BY <1>1, <1>same, <1>send DEF SendPing, SendPingReq, Issue, Bounded
<1>handle. ASSUME NEW p \in Pings, HandlePing(p) PROVE Bounded'
  <2> DEFINE n == ping[p].from
             o == ping[p].to
  <2>1. n \in Nodes /\ o \in Nodes
    <3>1. ping[p] \in Requests
      BY <1>handle, Stages DEF HandlePing, IInv, WellFormed
    <3> QED BY <3>1 DEF Requests
  <2>2. \/ UNCHANGED jobs
        \/ Running(o) < MaxJobs /\ jobs' = [jobs EXCEPT ![o][n] = @ + 1]
    BY <1>handle DEF HandlePing
  <2>3. UNCHANGED <<news, lost>>
    BY <1>handle DEF HandlePing
  <2> HIDE DEF n, o
  <2>4. ASSUME Running(o) < MaxJobs, jobs' = [jobs EXCEPT ![o][n] = @ + 1] PROVE JobsLimited'
    <3>1. jobs[o] \in [Nodes -> Nat] /\ jobs[o][n] \in Nat
      BY <1>1, <2>1 DEF JobsLimited
    <3>2. Running(o) \in Nat
      BY <2>1, <3>1, NodesAssumption, SumChanges, RunningIs
    <3>3. /\ jobs[o][n] + 1 \in Nat
          /\ Running(o) + (jobs[o][n] + 1) <= MaxJobs + jobs[o][n]
      BY <1>1, <2>4, <3>1, <3>2
    <3>4. jobs' = [jobs EXCEPT ![o][n] = jobs[o][n] + 1]
      BY <1>1, <2>1, <2>4 DEF JobsLimited
    <3> QED BY <1>1, <2>1, <3>3, <3>4, JobsCounted
  <2> QED BY <1>1, <1>same, <2>2, <2>3, <2>4 DEF Bounded
<1>arrive. ASSUME NEW p \in Pings, Arrives(p) PROVE Bounded'
  <2>1. CASE HandlePingReq(p)
    BY <1>1, <1>same, <2>1 DEF HandlePingReq, Bounded
  <2>2. CASE AnswerPingReq(p)
    BY <1>1, <1>same, <2>2 DEF AnswerPingReq, Bounded
  <2>3. CASE ReceiveAnswer(p)
    BY <1>1, <1>same, <2>3 DEF ReceiveAnswer, Bounded
  <2>4. CASE ReceivePingReqAnswer(p)
    BY <1>1, <1>same, <2>4 DEF ReceivePingReqAnswer, Bounded
  <2> QED BY <1>arrive, <1>handle, <2>1, <2>2, <2>3, <2>4 DEF Arrives
<1>lose. ASSUME NEW p \in Pings, LosePing(p) PROVE Bounded'
  BY <1>1, <1>same, <1>lose DEF LosePing, Bounded
<1>sync. ASSUME NEW n \in Nodes, NEW o \in Nodes, ReverseFullSync(n, o) PROVE Bounded'
  BY <1>1, <1>sync, JobOver DEF ReverseFullSync, Bounded
<1>fail. ASSUME NEW n \in Nodes, NEW o \in Nodes, LoseReverseFullSync(n, o) PROVE Bounded'
  <2>1. JobsLimited'
    BY <1>1, <1>fail, JobOver DEF LoseReverseFullSync
  <2>2. news' \in 0..MaxNews /\ lost' \in 0..MaxLost
    BY <1>1, <1>fail DEF LoseReverseFullSync
  <2> QED BY <2>1, <2>2 DEF Bounded
<1>stutter. ASSUME UNCHANGED vars PROVE Bounded'
  BY <1>1, <1>same, <1>stutter DEF vars, Bounded
<1> QED
  BY <1>originate, <1>send, <1>arrive, <1>lose, <1>sync, <1>fail, <1>stutter DEF Next

\* No node runs more reverse full syncs than maxReverseFullSyncJobs, in
\* whatever order pings are answered and joins end or fail (tryStartReverseFullSync in lib/gossip/dissemination.js).
THEOREM ReverseFullSyncsLimited == Spec => [](\A n \in Nodes : Running(n) <= MaxJobs)
<1>1. Init => IInv /\ Bounded
  BY InitIInv, InitBounded
<1>2. Bounded => \A n \in Nodes : Running(n) <= MaxJobs
  BY DEF Bounded, JobsLimited
<1> QED BY <1>1, <1>2, NextIInv, NextBounded, PTL DEF Spec

\* What is believed, what is piggybacked and what is under way are well formed
\* and within their bounds, the number of jobs a node runs for another too.
THEOREM DisseminationTypeCorrect == Spec => []TypeOK
<1>1. Init => IInv /\ PiggybackLimited /\ Bounded
  BY InitIInv, InitBounded, InitLimited
<1>2. IInv /\ PiggybackLimited /\ Bounded => TypeOK
  <2> SUFFICES ASSUME IInv, PiggybackLimited, Bounded PROVE TypeOK
    OBVIOUS
  <2>1. /\ ver \in [Nodes -> Lists] /\ pending \in [Nodes -> Changes]
        /\ ping \in [Pings -> UnderWay]
    BY DEF IInv, WellFormed
  <2>2. ASSUME NEW n \in Nodes, NEW o \in Nodes PROVE jobs[n][o] \in 0..MaxJobs
    <3>1. jobs[n] \in [Nodes -> Nat] /\ Running(n) <= MaxJobs
      BY DEF Bounded, JobsLimited
    <3>2. Running(n) \in Nat /\ jobs[n][o] <= Running(n)
      BY <3>1, NodesAssumption, SumChanges, RunningIs
    <3> QED BY <3>1, <3>2, ParametersAssumption
  <2>3. jobs \in [Nodes -> [Nodes -> 0..MaxJobs]]
    BY <2>2 DEF Bounded, JobsLimited
  <2>4. \A p \in Pings : ping[p].stage \in {"idle", "request", "helping", "answer"}
    BY <2>1, Stages
  <2>5. \A n \in Nodes, x \in Addresses :
          /\ pending[n][x].ver \in 0..MaxVersion
          /\ pending[n][x].src \in Nodes \union {NoOne}
          /\ pending[n][x].count \in Nat
    BY <2>1 DEF Changes
  <2>6. ver \in [Nodes -> [Addresses -> 0..MaxVersion]]
    BY <2>1 DEF Lists
  <2> QED BY <2>3, <2>4, <2>5, <2>6 DEF TypeOK, Bounded
<1> QED BY <1>1, <1>2, NextIInv, NextLimited, NextBounded, PTL DEF Spec

-----------------------------------------------------------------------------
(***************************************************************************)
(* What full syncs achieve.                                                *)
(***************************************************************************)

\* Two nodes whose checksums differ agree after a full sync and a reverse full
\* sync, whether the second takes the pinger's list from before the first or
\* from after it, though neither is told of a tombstone it does not know;
\* then neither list has news for the other (issueAsReceiver and
\* _reverseFullSync in lib/gossip/dissemination.js).
THEOREM FullSyncsReconcile ==
  ASSUME NEW mine \in Lists, NEW yours \in Lists, NEW sent \in Lists,
         sent = mine \/ sent = ListAfter(mine, FullSync(yours))
  PROVE  LET ours == ListAfter(mine, FullSync(yours))
             theirs == ListAfter(yours, FullSync(sent))
         IN /\ Checksum(ours) = Checksum(theirs)
            /\ ListAfter(ours, FullSync(theirs)) = ours
            /\ ListAfter(theirs, FullSync(ours)) = theirs
<1> DEFINE ours == ListAfter(mine, FullSync(yours))
           theirs == ListAfter(yours, FullSync(sent))
<1>1. ours \in Lists /\ theirs \in Lists
  BY DEF Lists, ListAfter, FullSync
<1>2. ASSUME NEW x \in Addresses
      PROVE  /\ ours[x] = IF IsNews(mine[x], yours[x]) THEN yours[x] ELSE mine[x]
             /\ theirs[x] = IF IsNews(yours[x], sent[x]) THEN sent[x] ELSE yours[x]
             /\ sent[x] \in {mine[x], ours[x]}
             /\ mine[x] \in 0..MaxVersion /\ yours[x] \in 0..MaxVersion
  BY DEF Lists, ListAfter, FullSync
<1> HIDE DEF ours, theirs
<1>3. ASSUME NEW x \in Addresses
      PROVE  /\ \/ ours[x] = theirs[x]
                \/ ours[x] \in {0, Tombstone} /\ theirs[x] \in {0, Tombstone}
             /\ ~IsNews(ours[x], theirs[x]) /\ ~IsNews(theirs[x], ours[x])
  BY <1>2, ParametersAssumption DEF IsNews, Tombstone
<1>4. Checksum(ours) = Checksum(theirs)
  BY <1>1, <1>3, ParametersAssumption DEF Checksum, Tombstone, Lists
<1>5. ListAfter(ours, FullSync(theirs)) = ours /\ ListAfter(theirs, FullSync(ours)) = theirs
  BY <1>1, <1>3 DEF ListAfter, FullSync, Lists
<1> QED BY <1>4, <1>5 DEF ours, theirs
=============================================================================
