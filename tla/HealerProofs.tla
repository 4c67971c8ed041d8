---------------------------- MODULE HealerProofs ----------------------------
(***************************************************************************)
(* Proofs about Healer, for all sides, hosts and bounds, and about         *)
(* HealTimer, for any names, bounds and number of ready events.            *)
(*                                                                         *)
(* That a heal costs nobody its place is a property of its steps, and      *)
(* needs two facts about the states between them: the process that heals   *)
(* has not left, so that it may send its own entry to the target; and what *)
(* is on its way to the target is harmless for whatever the target         *)
(* answered with, for nobody looks at that again when it arrives.          *)
(***************************************************************************)
EXTENDS Healer, HealTimer, TLAPS

\* No process is ever without an entry of itself.
KnowsItself == \A n \in Nodes : Known(view[n][n])

\* The process that heals does not leave.
LocalStays == view[Local][Local].status = "alive"

\* A change does not cost a member its place with who has this entry of it.
Harmless(entry, change) ==
  isStatusPingable(entry.status) /\ Known(change) /\ shouldProcessGossip(entry, change)
    => isStatusPingable(change.status)

\* What is on its way to the target costs nobody of its answer a place.
SendsHarmless ==
  heal.stage = "ping" => \A m \in Nodes : Harmless(heal.answer[m], heal.changes[m])

IInv == TypeOK /\ KnowsItself /\ LocalStays /\ SendsHarmless

-----------------------------------------------------------------------------
(***************************************************************************)
(* Lemmas about lists.                                                     *)
(***************************************************************************)

\* The process that heals is one of the processes.
LEMMA LocalIsNode == Local \in Nodes /\ Local \notin Leavers
  BY HealerAssumption DEF Nodes

\* The clock reads an incarnation.
LEMMA NowIsIncarnation ==
  ASSUME TypeOK
  PROVE  Now \in Incarnation
  BY HealerAssumption DEF TypeOK, Now, Incarnation

\* A known entry can be given another status or incarnation.
LEMMA EntryChanged ==
  ASSUME NEW entry \in Entry, Known(entry)
  PROVE  /\ \A status \in Status : [entry EXCEPT !.status = status] \in Entry
         /\ \A status \in Status : [entry EXCEPT !.status = status].status = status
         /\ \A inc \in Incarnation : [entry EXCEPT !.inc = inc] \in Entry
         /\ \A inc \in Incarnation : [entry EXCEPT !.inc = inc].status = entry.status
<1>1. entry \in [status : Status, inc : Incarnation]
  BY DEF Entry, Entries, Known, Absent
<1> QED BY <1>1 DEF Entry, Entries

\* A list about one member only is a list.
LEMMA OnlyTyped ==
  ASSUME NEW m \in Nodes, NEW entry \in Entry
  PROVE  Only(m, entry) \in Lists
  BY DEF Only, Lists, Entry, Entries

\* What update() makes of each entry: well formed, and the entry of oneself
\* keeps its status.
LEMMA UpdatedTyped ==
  ASSUME TypeOK, KnowsItself, NEW n \in Nodes, NEW changes \in Lists
  PROVE  /\ Updated(n, changes) \in Lists
         /\ Updated(n, changes)[n].status = view[n][n].status
<1>1. view[n] \in Lists
  BY DEF TypeOK
<1>2. ASSUME NEW m \in Nodes
      PROVE  view[n][m] \in Entry /\ changes[m] \in Entry
  BY <1>1 DEF Lists
<1>3. Known(view[n][n])
  BY DEF KnowsItself
<1>4. /\ [view[n][n] EXCEPT !.inc = Now] \in Entry
      /\ [view[n][n] EXCEPT !.inc = Now].status = view[n][n].status
  BY <1>2, <1>3, EntryChanged, NowIsIncarnation
<1>5. Updated(n, changes) \in [Nodes -> Entry]
  BY <1>2, <1>4 DEF Updated
<1>6. Updated(n, changes)[n].status = view[n][n].status
  BY <1>2, <1>4 DEF Updated
<1> QED BY <1>5, <1>6 DEF Lists

\* Whatever a process hears, the invariant stays; a heal is not touched.
LEMMA HearsKeeps ==
  ASSUME TypeOK, KnowsItself, LocalStays,
         NEW n \in Nodes, NEW changes \in Lists, Hears(n, changes)
  PROVE  /\ view' \in [Nodes -> Lists]
         /\ KnowsItself'
         /\ LocalStays'
<1>1. view \in [Nodes -> Lists] /\ view' = [view EXCEPT ![n] = Updated(n, changes)]
  BY DEF TypeOK, Hears
<1>2. Updated(n, changes) \in Lists /\ Updated(n, changes)[n].status = view[n][n].status
  BY UpdatedTyped
<1>3. view' \in [Nodes -> Lists]
  BY <1>1, <1>2
<1>4. \A m \in Nodes : view'[m][m].status = view[m][m].status
  BY <1>1, <1>2
<1>5. KnowsItself'
  BY <1>4 DEF KnowsItself, Known
<1>6. LocalStays'
  BY <1>4, LocalIsNode DEF LocalStays
<1> QED BY <1>3, <1>5, <1>6

\* A heal that goes on with another host, or is over, is well formed, and has
\* nothing under way yet.
LEMMA HealNextKeeps ==
  ASSUME NEW pool \in SUBSET Hosts, NEW failures \in 0..maxNumberOfFailures,
         HealNext(pool, failures)
  PROVE  IsHeal(heal') /\ heal'.stage \in {"idle", "join"}
<1>1. CASE pool = {} \/ failures = maxNumberOfFailures
  BY <1>1 DEF HealNext, IsHeal, NoHeal
<1>2. CASE ~(pool = {} \/ failures = maxNumberOfFailures)
  <2>1. PICK h \in pool :
          heal' = [stage |-> "join", pool |-> pool \ {h}, failures |-> failures, target |-> h]
    BY <1>2 DEF HealNext
  <2>2. failures \in 0..maxNumberOfFailures - 1
    BY <1>2, HealerAssumption
  <2> QED BY <2>1, <2>2 DEF IsHeal
<1> QED BY <1>1, <1>2

\* An attempt is over, either way.
LEMMA AttemptOver ==
  ASSUME TypeOK, heal # NoHeal, AttemptFails \/ AttemptSucceeds
  PROVE  IsHeal(heal') /\ heal'.stage \in {"idle", "join"}
<1>1. heal.pool \subseteq Hosts /\ heal.failures \in 0..maxNumberOfFailures - 1
  BY DEF TypeOK, IsHeal
<1>2. heal.failures \in 0..maxNumberOfFailures /\ heal.failures + 1 \in 0..maxNumberOfFailures
  BY <1>1, HealerAssumption
<1>3. CASE AttemptFails
  <2>1. HealNext(heal.pool, heal.failures + 1)
    BY <1>3 DEF AttemptFails
  <2> QED BY <1>1, <1>2, <2>1, HealNextKeeps
<1>4. CASE AttemptSucceeds
  <2> DEFINE pool == heal.pool \ {m \in Nodes : isStatusPingable(heal.answer[m].status)}
  <2>1. HealNext(pool, heal.failures)
    BY <1>4 DEF AttemptSucceeds
  <2>2. pool \in SUBSET Hosts
    BY <1>1
  <2> HIDE DEF pool
  <2> QED BY <1>2, <2>1, <2>2, HealNextKeeps
<1> QED BY <1>3, <1>4

-----------------------------------------------------------------------------
(***************************************************************************)
(* Lemmas about what a heal does to a member.                              *)
(***************************************************************************)

\* Nobody is suspected in a list only if nobody is in danger from the other.
LEMMA NobodySuspected ==
  ASSUME NEW current \in Lists, NEW new \in Lists, Suspects(current, new) = Nobody,
         NEW m \in Nodes
  PROVE  Harmless(current[m], new[m])
<1>1. current[m] \in Entry /\ new[m] \in Entry
  BY DEF Lists
<1>2. SUFFICES ASSUME isStatusPingable(current[m].status), Known(new[m]),
                      shouldProcessGossip(current[m], new[m]), ~isStatusPingable(new[m].status)
               PROVE  FALSE
  BY DEF Harmless
<1>3. Known(current[m])
  BY <1>2 DEF Known, isStatusPingable
<1>4. current[m].inc \in Int /\ new[m].inc \in Int
  BY <1>1 DEF Entry, Entries, Absent, Incarnation
<1>5. nodeWouldBecomeUnPingable(current[m], new[m])
  BY <1>2, <1>3, <1>4 DEF nodeWouldBecomeUnPingable, shouldProcessGossip
<1>6. Suspects(current, new)[m] = [new[m] EXCEPT !.status = "suspect"]
  BY <1>2, <1>3, <1>5 DEF Suspects
<1>7. Suspects(current, new)[m].status = "suspect"
  BY <1>1, <1>2, <1>6, EntryChanged DEF Status
<1>8. Suspects(current, new)[m] = Absent
  BY DEF Nobody
<1> QED BY <1>7, <1>8 DEF Absent

\* Suspects are harmless, whatever they are told to.
LEMMA SuspectsHarmless ==
  ASSUME NEW current \in Lists, NEW new \in Lists
  PROVE  /\ Suspects(current, new) \in Lists
         /\ \A m \in Nodes, entry \in Entry : Harmless(entry, Suspects(current, new)[m])
<1>1. ASSUME NEW m \in Nodes
      PROVE  /\ Suspects(current, new)[m] \in Entry
             /\ Suspects(current, new)[m].status \in {"suspect", "absent"}
  <2>1. new[m] \in Entry
    BY DEF Lists
  <2>2. CASE Known(current[m]) /\ Known(new[m]) /\ nodeWouldBecomeUnPingable(current[m], new[m])
    <3>1. Suspects(current, new)[m] = [new[m] EXCEPT !.status = "suspect"]
      BY <2>2 DEF Suspects
    <3>2. /\ [new[m] EXCEPT !.status = "suspect"] \in Entry
          /\ [new[m] EXCEPT !.status = "suspect"].status = "suspect"
      BY <2>1, <2>2, EntryChanged DEF Status
    <3> QED BY <3>1, <3>2
  <2>3. CASE ~(Known(current[m]) /\ Known(new[m]) /\ nodeWouldBecomeUnPingable(current[m], new[m]))
    <3>1. Suspects(current, new)[m] = Absent
      BY <2>3 DEF Suspects
    <3> QED BY <3>1 DEF Absent, Entry, Entries
  <2> QED BY <2>2, <2>3
<1>2. Suspects(current, new) = [m \in Nodes |-> Suspects(current, new)[m]]
  BY DEF Suspects
<1>3. Suspects(current, new) \in Lists
  BY <1>1, <1>2 DEF Lists
<1> QED BY <1>1, <1>3 DEF Harmless, Known, isStatusPingable

\* Changes that are harmless for a list spare it when they are applied.
LEMMA UpdatedSpares ==
  ASSUME TypeOK, KnowsItself, NEW n \in Nodes, NEW changes \in Lists, NEW m \in Nodes,
         Harmless(view[n][m], changes[m])
  PROVE  Spared(view[n][m], Updated(n, changes)[m])
<1>1. CASE m = n
  BY <1>1, UpdatedTyped DEF Spared
<1>2. CASE m # n
  BY <1>2 DEF Spared, Updated, Harmless
<1> QED BY <1>1, <1>2

\* What was merged from a list is harmless for it, when neither list is
\* dangerous for the other.
LEMMA MergedHarmless ==
  ASSUME TypeOK, KnowsItself, LocalStays, NEW answer \in Lists,
         Suspects(answer, view[Local]) = Nobody,
         NEW m \in Nodes
  PROVE  Harmless(answer[m], Updated(Local, answer)[m])
<1>1. view[Local] \in Lists
  BY LocalIsNode DEF TypeOK
<1>2. CASE m = Local
  BY <1>2, UpdatedTyped, LocalIsNode DEF Harmless, LocalStays, isStatusPingable
<1>3. CASE m # Local /\ Updated(Local, answer)[m] = answer[m]
  BY <1>3 DEF Harmless
<1>4. CASE m # Local /\ Updated(Local, answer)[m] = view[Local][m]
  BY <1>1, <1>4, NobodySuspected
<1>5. m # Local => Updated(Local, answer)[m] \in {view[Local][m], answer[m]}
  BY DEF Updated
<1> QED BY <1>2, <1>3, <1>4, <1>5

-----------------------------------------------------------------------------
(***************************************************************************)
(* The inductive invariant.                                                *)
(***************************************************************************)

\* The invariant holds when the processes have started.
LEMMA InitEstablishes == Init => IInv
<1> SUFFICES ASSUME Init PROVE IInv
  OBVIOUS
<1>1. splits \in 0..MaxSplits /\ 1 \in Incarnation
  BY HealerAssumption DEF Init, Incarnation
<1>2. Absent \in Entry /\ [status |-> "alive", inc |-> 1] \in Entry
  BY <1>1 DEF Entry, Entries, Status
<1>3. view \in [Nodes -> Lists]
  BY <1>2 DEF Init, Lists
<1>4. \A n \in Nodes : view[n][n] = [status |-> "alive", inc |-> 1]
  BY DEF Init, SameSide
<1>5. KnowsItself /\ LocalStays
  BY <1>4, LocalIsNode DEF KnowsItself, LocalStays, Known
<1>6. IsHeal(heal) /\ heal.stage = "idle"
  BY DEF Init, IsHeal, NoHeal
<1> QED BY <1>1, <1>3, <1>5, <1>6 DEF IInv, TypeOK, SendsHarmless, Init

\* Whoever hears something while the heal stays as it is.
LEMMA GossipKeeps ==
  ASSUME IInv, NEW n \in Nodes, NEW changes \in Lists, Hears(n, changes),
         UNCHANGED <<connected, splits, heal>>
  PROVE  IInv'
<1>1. view' \in [Nodes -> Lists] /\ KnowsItself' /\ LocalStays'
  BY HearsKeeps DEF IInv
<1> QED BY <1>1 DEF IInv, TypeOK, SendsHarmless

\* Steps that change no list, and begin or end an attempt.
LEMMA HealKeeps ==
  ASSUME IInv, IsHeal(heal'), heal'.stage \in {"idle", "join"},
         UNCHANGED <<connected, splits, view>>
  PROVE  IInv'
  BY DEF IInv, TypeOK, KnowsItself, LocalStays, SendsHarmless

\* A heal begins.
LEMMA HealStarts ==
  ASSUME IInv, Heal
  PROVE  IInv'
<1>1. Targets \in SUBSET Hosts /\ 0 \in 0..maxNumberOfFailures
  BY HealerAssumption DEF Targets
<1>2. HealNext(Targets, 0)
  BY DEF Heal
<1>3. IsHeal(heal') /\ heal'.stage \in {"idle", "join"}
  BY <1>1, <1>2, HealNextKeeps
<1> QED BY <1>3, HealKeeps DEF Heal

\* The answer of a target is the list it has.
LEMMA JoinAnsweredKeeps ==
  ASSUME IInv, JoinAnswered
  PROVE  IInv'
<1>1. heal.pool \subseteq Hosts /\ heal.failures \in 0..maxNumberOfFailures - 1
  BY DEF IInv, TypeOK, IsHeal, JoinAnswered, NoHeal
<1>2. view[heal.target] \in Lists /\ heal.target \in Nodes
  BY DEF IInv, TypeOK, JoinAnswered
<1>3. heal' = [stage |-> "answer", pool |-> heal.pool, failures |-> heal.failures,
               target |-> heal.target, answer |-> view[heal.target]]
  BY DEF JoinAnswered
<1>4. IsHeal(heal') /\ heal'.stage = "answer"
  BY <1>1, <1>2, <1>3 DEF IsHeal
<1> QED BY <1>4 DEF IInv, TypeOK, KnowsItself, LocalStays, SendsHarmless, JoinAnswered

\* What Local takes from the answer is harmless for its own list; what it
\* sends to the target, for the answer.
LEMMA ProcessChangesKeeps ==
  ASSUME IInv, ProcessChanges
  PROVE  /\ IInv'
         /\ \A m \in Nodes : Spared(view[Local][m], view'[Local][m])
<1> DEFINE forA == Suspects(view[Local], heal.answer)
           forB == Suspects(heal.answer, view[Local])
           merging == forA = Nobody /\ forB = Nobody
           taken == IF merging THEN heal.answer ELSE forA
           sent == IF merging THEN Updated(Local, taken) ELSE forB
<1>1. /\ heal # NoHeal /\ heal.pool \subseteq Hosts /\ heal.failures \in 0..maxNumberOfFailures - 1
      /\ heal.target \in Nodes /\ heal.answer \in Lists
  BY DEF IInv, TypeOK, IsHeal, ProcessChanges, NoHeal
<1>2. view \in [Nodes -> Lists] /\ view[Local] \in Lists
  BY LocalIsNode DEF IInv, TypeOK
<1>3. forA \in Lists /\ forB \in Lists
      /\ \A m \in Nodes, entry \in Entry : Harmless(entry, forA[m]) /\ Harmless(entry, forB[m])
  BY <1>1, <1>2, SuspectsHarmless
<1>4. /\ view' = [view EXCEPT ![Local] = Updated(Local, taken)]
      /\ \/ AttemptSucceeds
         \/ heal' = [stage |-> "ping", pool |-> heal.pool, failures |-> heal.failures,
                     target |-> heal.target, answer |-> heal.answer, changes |-> sent]
      /\ UNCHANGED <<connected, splits>>
  BY DEF ProcessChanges
<1>5. taken \in Lists
  BY <1>1, <1>3
<1>6. ASSUME NEW m \in Nodes
      PROVE  Harmless(view[Local][m], taken[m])
  <2>1. CASE merging
    BY <1>1, <1>2, <2>1, NobodySuspected
  <2>2. CASE ~merging
    BY <1>2, <1>3, <2>2 DEF Lists
  <2> QED BY <2>1, <2>2
<1>7. ASSUME NEW m \in Nodes
      PROVE  Harmless(heal.answer[m], sent[m])
  <2>1. CASE merging
    BY <1>1, <2>1, MergedHarmless DEF IInv
  <2>2. CASE ~merging
    BY <1>1, <1>3, <2>2 DEF Lists
  <2> QED BY <2>1, <2>2
<1>8. Updated(Local, taken) \in Lists
  BY <1>5, UpdatedTyped, LocalIsNode DEF IInv
<1>9. sent \in Lists
  BY <1>3, <1>8
<1> HIDE DEF taken, sent, forA, forB, merging
<1>10. Hears(Local, taken)
  BY <1>4 DEF Hears
<1>11. view' \in [Nodes -> Lists] /\ KnowsItself' /\ LocalStays'
  BY <1>5, <1>10, HearsKeeps, LocalIsNode DEF IInv
<1>12. IsHeal(heal') /\ SendsHarmless'
  <2>1. CASE AttemptSucceeds
    <3>1. IsHeal(heal') /\ heal'.stage \in {"idle", "join"}
      BY <1>1, <2>1, AttemptOver DEF IInv
    <3> QED BY <3>1 DEF SendsHarmless
  <2>2. CASE heal' = [stage |-> "ping", pool |-> heal.pool, failures |-> heal.failures,
                      target |-> heal.target, answer |-> heal.answer, changes |-> sent]
    <3>1. IsHeal(heal')
      BY <1>1, <1>9, <2>2 DEF IsHeal
    <3> QED BY <1>7, <2>2, <3>1 DEF SendsHarmless
  <2> QED BY <1>4, <2>1, <2>2
<1>13. IInv'
  BY <1>4, <1>11, <1>12 DEF IInv, TypeOK
<1>14. ASSUME NEW m \in Nodes
       PROVE  Spared(view[Local][m], view'[Local][m])
  BY <1>2, <1>4, <1>5, <1>6, UpdatedSpares, LocalIsNode DEF IInv
<1> QED BY <1>13, <1>14

\* A ping arrives: the target hears what was sent, or all that Local believes.
LEMMA PingArrivesKeeps ==
  ASSUME IInv, PingArrives
  PROVE  IInv'
<1>1. heal # NoHeal /\ heal.target \in Nodes /\ heal.changes \in Lists
  BY DEF IInv, TypeOK, IsHeal, PingArrives, NoHeal
<1>2. view[Local] \in Lists
  BY LocalIsNode DEF IInv, TypeOK
<1>3. PICK changes \in Lists : Hears(heal.target, changes)
  BY <1>1, <1>2 DEF PingArrives
<1>4. view' \in [Nodes -> Lists] /\ KnowsItself' /\ LocalStays'
  BY <1>1, <1>3, HearsKeeps DEF IInv
<1>5. IsHeal(heal') /\ heal'.stage \in {"idle", "join"}
  BY <1>1, AttemptOver DEF IInv, PingArrives
<1> QED BY <1>4, <1>5 DEF IInv, TypeOK, SendsHarmless, PingArrives

\* Every step keeps the invariant.
LEMMA NextKeeps == IInv /\ [Next]_vars => IInv'
<1> SUFFICES ASSUME IInv, [Next]_vars PROVE IInv'
  OBVIOUS
<1> USE DEF IInv
<1>1. CASE Split
  <2>1. splits' \in 0..MaxSplits
    BY <1>1, HealerAssumption DEF Split, TypeOK
  <2>2. connected' \in BOOLEAN /\ UNCHANGED <<view, heal>>
    BY <1>1 DEF Split
  <2> QED BY <2>1, <2>2 DEF TypeOK, KnowsItself, LocalStays, SendsHarmless
<1>2. CASE Reconnect
  BY <1>2 DEF Reconnect, TypeOK, KnowsItself, LocalStays, SendsHarmless
<1>3. ASSUME NEW n \in Nodes, NEW m \in Nodes, Suspect(n, m)
      PROVE  IInv'
  <2>1. view[n][m] \in Entry /\ Known(view[n][m])
    BY <1>3 DEF TypeOK, Lists, Suspect, Known
  <2>2. Only(m, [view[n][m] EXCEPT !.status = "suspect"]) \in Lists
    BY <2>1, EntryChanged, OnlyTyped DEF Status
  <2> QED BY <1>3, <2>2, GossipKeeps DEF Suspect
<1>4. ASSUME NEW n \in Nodes, NEW m \in Nodes, SuspectTimeout(n, m)
      PROVE  IInv'
  <2>1. view[n][m] \in Entry /\ Known(view[n][m])
    BY <1>4 DEF TypeOK, Lists, SuspectTimeout, Known
  <2>2. Only(m, [view[n][m] EXCEPT !.status = "faulty"]) \in Lists
    BY <2>1, EntryChanged, OnlyTyped DEF Status
  <2> QED BY <1>4, <2>2, GossipKeeps DEF SuspectTimeout
<1>5. ASSUME NEW n \in Nodes, NEW m \in Nodes, Tell(n, m)
      PROVE  IInv'
  <2>1. view[n] \in Lists
    BY DEF TypeOK
  <2> QED BY <1>5, <2>1, GossipKeeps DEF Tell
<1>6. ASSUME NEW n \in Leavers, Leave(n)
      PROVE  IInv'
  <2> DEFINE left == [status |-> "leave", inc |-> Now]
  <2>1. left \in Entry
    BY NowIsIncarnation DEF Entry, Entries, Status
  <2>2. view' = [view EXCEPT ![n] = [view[n] EXCEPT ![n] = left]]
    BY <1>6 DEF Leave
  <2>3. Known(left)
    BY DEF Known
  <2> HIDE DEF left
  <2>4. view' \in [Nodes -> Lists]
    BY <2>1, <2>2 DEF TypeOK, Lists
  <2>5. view'[Local] = view[Local]
    BY <2>2, LocalIsNode DEF TypeOK
  <2>6. \A m \in Nodes : m # n => view'[m] = view[m]
    BY <2>2 DEF TypeOK
  <2>7. n \in Nodes => view'[n][n] = left
    BY <2>2 DEF TypeOK, Lists
  <2>8. KnowsItself'
    BY <2>3, <2>6, <2>7 DEF KnowsItself
  <2>9. LocalStays'
    BY <2>5 DEF LocalStays
  <2> QED BY <1>6, <2>4, <2>8, <2>9 DEF Leave, TypeOK, SendsHarmless
<1>7. CASE Heal
  BY <1>7, HealStarts
<1>8. CASE JoinAnswered
  BY <1>8, JoinAnsweredKeeps
<1>9. CASE JoinFails
  <2>1. heal # NoHeal /\ AttemptFails /\ UNCHANGED <<connected, splits, view>>
    BY <1>9 DEF JoinFails, NoHeal
  <2> QED BY <2>1, AttemptOver, HealKeeps
<1>10. CASE ProcessChanges
  BY <1>10, ProcessChangesKeeps
<1>11. CASE PingArrives
  BY <1>11, PingArrivesKeeps
<1>12. CASE PingFails
  <2>1. heal # NoHeal /\ AttemptFails /\ UNCHANGED <<connected, splits, view>>
    BY <1>12 DEF PingFails, NoHeal
  <2> QED BY <2>1, AttemptOver, HealKeeps
<1>13. CASE UNCHANGED vars
  BY <1>13 DEF vars, TypeOK, KnowsItself, LocalStays, SendsHarmless
<1> QED
  BY <1>1, <1>2, <1>3, <1>4, <1>5, <1>6, <1>7, <1>8, <1>9, <1>10, <1>11, <1>12, <1>13
  DEF Next, HealStep

\* The invariant holds in every state of every behaviour.
THEOREM Invariance == Spec => []IInv
<1> QED BY InitEstablishes, NextKeeps, PTL DEF Spec

\* Every member list and the heal under way are well formed.
THEOREM HealerTypeCorrect == Spec => []TypeOK
<1>1. IInv => TypeOK
  BY DEF IInv
<1> QED BY <1>1, Invariance, PTL

-----------------------------------------------------------------------------
(***************************************************************************)
(* What a heal costs.                                                      *)
(***************************************************************************)

\* No member that Local pings ceases to be pinged when Local acts on the
\* answer to a heal, and what it sends costs no member its place with the
\* target, unless the target has heard something of that member since.
THEOREM HealCostsNobody == Spec => HealSpares
<1> DEFINE AnswerSpares ==
             heal.stage = "answer" /\ heal' # heal =>
               \A m \in Nodes : Spared(view[Local][m], view'[Local][m])
           PingSpares ==
             heal.stage = "ping" =>
               LET target == view[heal.target]
               IN \A m \in Nodes : target[m] = heal.answer[m] =>
                    Spared(target[m], Updated(heal.target, heal.changes)[m])
<1>1. IInv /\ [Next]_vars => AnswerSpares
  <2> SUFFICES ASSUME IInv, [Next]_vars, heal.stage = "answer", heal' # heal
               PROVE  \A m \in Nodes : Spared(view[Local][m], view'[Local][m])
    OBVIOUS
  <2>1. heal # NoHeal
    BY DEF NoHeal
  <2>2. JoinFails \/ ProcessChanges
    BY <2>1 DEF Next, HealStep, vars, Split, Reconnect, Suspect, SuspectTimeout, Tell, Leave,
               Heal, JoinAnswered, PingArrives, PingFails
  <2>3. CASE JoinFails
    BY <2>3 DEF JoinFails, Spared
  <2>4. CASE ProcessChanges
    BY <2>4, ProcessChangesKeeps
  <2> QED BY <2>2, <2>3, <2>4
<1>2. IInv => PingSpares
  <2> SUFFICES ASSUME IInv, heal.stage = "ping", NEW m \in Nodes,
                      view[heal.target][m] = heal.answer[m]
               PROVE  Spared(view[heal.target][m], Updated(heal.target, heal.changes)[m])
    OBVIOUS
  <2>1. heal.target \in Nodes /\ heal.changes \in Lists
    BY DEF IInv, TypeOK, IsHeal, NoHeal
  <2>2. Harmless(view[heal.target][m], heal.changes[m])
    BY DEF IInv, SendsHarmless
  <2> QED BY <2>1, <2>2, UpdatedSpares DEF IInv
<1>3. IInv /\ [Next]_vars => [AnswerSpares /\ PingSpares]_vars
  BY <1>1, <1>2
<1> QED BY <1>3, Invariance, PTL DEF Spec, HealSpares
-----------------------------------------------------------------------------
(***************************************************************************)
(* When a process heals. start() only looks at healTimer. That this is     *)
(* enough needs that while the process lives, healTimer is null only       *)
(* before anything was begun: it keeps the timer that ran for as long as a *)
(* heal is under way.                                                      *)
(***************************************************************************)

\* Until the process is destroyed, healTimer tells whether healing began.
HandleTells ==
  ~destroyed =>
    /\ isStopped <=> timer.handle = "null"
    /\ timer.handle = "null" => \A h \in Periodic : ~Busy(h)

\* Once it is destroyed the healer is stopped for good.
StopsForGood == destroyed => isStopped

TimerIInv == TimerTypeOK /\ OneChain /\ HandleTells /\ StopsForGood

-----------------------------------------------------------------------------
\* What scheduleNext() makes of a timer that is not set.
LEMMA ScheduledOne ==
  ASSUME NEW t \in Timers, t.others = 0, t.handle # "set"
  PROVE  /\ Scheduled(t) \in Timers
         /\ Scheduled(t).handle = "set" /\ Scheduled(t).others = 0
  BY DEF Scheduled, Timers

\* Nothing is under way at first.
LEMMA TimerInitIInv == TimerInit => TimerIInv
<1> SUFFICES ASSUME TimerInit PROVE TimerIInv
  OBVIOUS
<1>1. NotHealing \in HealRecord
  BY HealTimerAssumption DEF NotHealing, HealRecord
<1>2. \A h \in Periodic : ~Busy(h)
  BY DEF TimerInit, Busy, NotHealing
<1>3. TimerTypeOK
  <2>1. readies \in 0..MaxReadies /\ timer \in Timers
    BY HealTimerAssumption DEF TimerInit, Timers
  <2>2. heals \in [Periodic \union Admin -> HealRecord]
    BY <1>1 DEF TimerInit
  <2> QED BY <2>1, <2>2 DEF TimerInit, TimerTypeOK
<1> QED BY <1>2, <1>3 DEF TimerInit, TimerIInv, OneChain, HandleTells, StopsForGood

\* A heal calls back: that of the timer is the chain, and hands it on.
LEMMA CallBackKeeps ==
  ASSUME TimerIInv, NEW h \in Periodic \union Admin, Busy(h), CallBack(h),
         UNCHANGED <<destroyed, readies, isStopped>>
  PROVE  TimerIInv'
<1>1. NotHealing \in HealRecord
  BY HealTimerAssumption DEF NotHealing, HealRecord
<1>2. /\ heals' \in [Periodic \union Admin -> HealRecord]
      /\ ~Busy(h)' /\ \A g \in (Periodic \union Admin) \ {h} : heals'[g] = heals[g]
  BY <1>1 DEF CallBack, TimerIInv, TimerTypeOK, Busy, NotHealing
<1>3. CASE h \in Periodic
  <2>1. timer.handle # "set" /\ timer.others = 0 /\ timer \in Timers
    BY <1>3 DEF TimerIInv, OneChain, TimerTypeOK
  <2>2. timer' \in Timers /\ timer'.handle = "set" /\ timer'.others = 0
    BY <1>3, <2>1, ScheduledOne DEF CallBack
  <2>3. \A g \in Periodic : ~Busy(g)'
    BY <1>2, <1>3 DEF TimerIInv, OneChain, Busy
  <2>4. ~destroyed => ~isStopped
    BY <1>3 DEF TimerIInv, HandleTells
  <2> QED BY <1>2, <2>2, <2>3, <2>4 DEF TimerIInv, TimerTypeOK, OneChain, HandleTells, StopsForGood
<1>4. CASE h \notin Periodic
  <2>1. UNCHANGED timer /\ \A g \in Periodic : Busy(g)' <=> Busy(g)
    BY <1>2, <1>4 DEF CallBack, Busy
  <2> QED BY <1>2, <2>1 DEF TimerIInv, TimerTypeOK, OneChain, HandleTells, StopsForGood
<1> QED BY <1>3, <1>4

\* A heal goes on with its next target, or calls back.
LEMMA healNextKeeps ==
  ASSUME TimerIInv, NEW h \in Periodic \union Admin, Busy(h),
         NEW targets \in 0..MaxTargets, NEW failures \in 0..MaxFailures,
         healNext(h, targets, failures),
         UNCHANGED <<destroyed, readies, isStopped>>
  PROVE  TimerIInv'
<1>1. CASE targets > 0 /\ failures < MaxFailures
  <2> DEFINE next == [stage |-> "attempting", targets |-> targets - 1, failures |-> failures]
  <2>1. heals' = [heals EXCEPT ![h] = next] /\ UNCHANGED timer
    BY <1>1 DEF healNext
  <2>2. next \in HealRecord /\ next.stage = "attempting"
    BY <1>1, HealTimerAssumption DEF HealRecord
  <2> HIDE DEF next
  <2>3. /\ heals' \in [Periodic \union Admin -> HealRecord]
        /\ \A g \in Periodic \union Admin : Busy(g)' <=> Busy(g)
    BY <2>1, <2>2 DEF TimerIInv, TimerTypeOK, Busy
  <2> QED BY <2>1, <2>3 DEF TimerIInv, TimerTypeOK, OneChain, HandleTells, StopsForGood
<1>2. CASE ~(targets > 0 /\ failures < MaxFailures)
  BY <1>2, CallBackKeeps DEF healNext
<1> QED BY <1>1, <1>2

\* A heal begins, of the admin command or instead of the next timer.
LEMMA BeginTyped ==
  ASSUME TimerTypeOK, NEW h \in Periodic \union Admin, Begin(h)
  PROVE  /\ heals' \in [Periodic \union Admin -> HealRecord]
         /\ Busy(h)' /\ \A g \in (Periodic \union Admin) \ {h} : Busy(g)' <=> Busy(g)
<1> DEFINE begun == [NotHealing EXCEPT !.stage = "discovering"]
<1>1. begun \in HealRecord /\ begun.stage = "discovering"
  BY HealTimerAssumption DEF NotHealing, HealRecord
<1>2. heals' = [heals EXCEPT ![h] = begun]
  BY DEF Begin
<1> HIDE DEF begun
<1> QED BY <1>1, <1>2 DEF TimerTypeOK, Busy

\* The timer runs: the chain goes on as a timer or as a heal, or it ends.
LEMMA HealTimerKeeps ==
  ASSUME TimerIInv, HealTimer
  PROVE  TimerIInv'
<1>1. PICK t \in Ran : Run(t)
  BY DEF HealTimer
<1>2. timer \in Timers /\ timer.others = 0
  BY DEF TimerIInv, TimerTypeOK, OneChain
<1>3. /\ timer.handle = "set"
      /\ t \in Timers /\ t.handle = "ran" /\ t.others = 0
  BY <1>2 DEF Ran, Timers
<1>4. \A h \in Periodic : ~Busy(h)
  BY <1>3 DEF TimerIInv, OneChain
<1>5. UNCHANGED <<destroyed, readies, isStopped>>
  BY DEF HealTimer
<1>6. CASE isStopped /\ timer' = t /\ UNCHANGED heals
  <2>1. destroyed
    BY <1>3, <1>6 DEF TimerIInv, HandleTells
  <2>2. \A h \in Periodic : ~Busy(h)'
    BY <1>4, <1>6 DEF Busy
  <2> QED BY <1>3, <1>5, <1>6, <2>1, <2>2 DEF TimerIInv, TimerTypeOK, OneChain, HandleTells, StopsForGood
<1>7. CASE ~isStopped /\ timer' = Scheduled(t) /\ UNCHANGED heals
  <2>1. timer' \in Timers /\ timer'.handle = "set" /\ timer'.others = 0
    BY <1>3, <1>7, ScheduledOne
  <2>2. \A h \in Periodic : ~Busy(h)'
    BY <1>4, <1>7 DEF Busy
  <2> QED BY <1>5, <1>7, <2>1, <2>2 DEF TimerIInv, TimerTypeOK, OneChain, HandleTells, StopsForGood
<1>8. CASE ~isStopped /\ timer' = t /\ \E h \in Periodic : Begin(h)
  <2>1. PICK h \in Periodic : Begin(h)
    BY <1>8
  <2>2. /\ heals' \in [Periodic \union Admin -> HealRecord]
        /\ Busy(h)' /\ \A g \in (Periodic \union Admin) \ {h} : Busy(g)' <=> Busy(g)
    BY <2>1, BeginTyped DEF TimerIInv
  <2>3. \A g \in Periodic : Busy(g)' => g = h
    BY <1>4, <2>2
  <2> QED BY <1>3, <1>5, <1>8, <2>2, <2>3 DEF TimerIInv, TimerTypeOK, OneChain, HandleTells, StopsForGood
<1> QED BY <1>1, <1>6, <1>7, <1>8 DEF Run

\* Every step keeps the invariant.
LEMMA TimerNextIInv == TimerIInv /\ [TimerNext]_timerVars => TimerIInv'
<1> SUFFICES ASSUME TimerIInv, [TimerNext]_timerVars PROVE TimerIInv'
  OBVIOUS
<1>same. ASSUME UNCHANGED heals PROVE \A h \in Periodic : Busy(h)' <=> Busy(h)
  BY <1>same DEF Busy
<1>1. CASE Ready
  <2>1. UNCHANGED <<destroyed, heals>> /\ ~destroyed /\ readies' \in 0..MaxReadies
    BY <1>1, HealTimerAssumption DEF Ready, TimerIInv, TimerTypeOK
  <2>2. CASE timer.handle # "null"
    BY <1>1, <2>1, <2>2, <1>same
    DEF Ready, Start, TimerIInv, TimerTypeOK, OneChain, HandleTells, StopsForGood
  <2>3. CASE timer.handle = "null"
    <3>1. isStopped' = FALSE /\ timer' = Scheduled(timer)
      BY <1>1, <2>3 DEF Ready, Start
    <3>2. timer' \in Timers /\ timer'.handle = "set" /\ timer'.others = 0
      BY <2>3, <3>1, ScheduledOne DEF TimerIInv, TimerTypeOK, OneChain
    <3>3. \A h \in Periodic : ~Busy(h)'
      BY <2>1, <2>3, <1>same DEF TimerIInv, HandleTells
    <3> QED BY <2>1, <3>1, <3>2, <3>3 DEF TimerIInv, TimerTypeOK, OneChain, HandleTells, StopsForGood
  <2> QED BY <2>2, <2>3
<1>2. CASE HealTimer
  BY <1>2, HealTimerKeeps
<1>3. CASE Destroy
  <2>1. timer \in Timers /\ timer' = [timer EXCEPT !.handle = "null"]
    BY <1>3 DEF Destroy, TimerIInv, TimerTypeOK
  <2>2. timer' \in Timers /\ timer'.handle = "null" /\ timer'.others = timer.others
    BY <2>1 DEF Timers
  <2>3. destroyed' /\ isStopped' /\ destroyed' \in BOOLEAN /\ isStopped' \in BOOLEAN
    BY <1>3 DEF Destroy
  <2>4. UNCHANGED <<readies, heals>> /\ \A h \in Periodic : Busy(h)' <=> Busy(h)
    BY <1>3, <1>same DEF Destroy
  <2> QED BY <2>2, <2>3, <2>4 DEF TimerIInv, TimerTypeOK, OneChain, HandleTells, StopsForGood
<1>4. ASSUME NEW h \in Periodic \union Admin, HostsDiscovered(h)
      PROVE  TimerIInv'
  <2>1. Busy(h) /\ UNCHANGED <<destroyed, readies, isStopped>>
    BY <1>4 DEF HostsDiscovered, Busy
  <2>2. 0 \in 0..MaxFailures
    BY HealTimerAssumption
  <2> QED BY <1>4, <2>1, <2>2, CallBackKeeps, healNextKeeps DEF HostsDiscovered
<1>5. ASSUME NEW h \in Periodic \union Admin, HealAttempted(h)
      PROVE  TimerIInv'
  <2>1. Busy(h) /\ UNCHANGED <<destroyed, readies, isStopped>>
    BY <1>5 DEF HealAttempted, Busy
  <2>2. heals[h].targets \in 0..MaxTargets /\ heals[h].failures \in 0..MaxFailures - 1
    BY DEF TimerIInv, TimerTypeOK, HealRecord
  <2>3. /\ heals[h].failures \in 0..MaxFailures
        /\ heals[h].failures + 1 \in 0..MaxFailures
    BY <2>2, HealTimerAssumption
  <2>4. \A left \in 0..heals[h].targets : left \in 0..MaxTargets
    BY <2>2, HealTimerAssumption
  <2> QED BY <1>5, <2>1, <2>2, <2>3, <2>4, healNextKeeps DEF HealAttempted
<1>6. ASSUME NEW h \in Periodic \union Admin, AdminHeal(h)
      PROVE  TimerIInv'
  <2>1. h \in Admin /\ Begin(h) /\ UNCHANGED <<destroyed, readies, isStopped, timer>>
    BY <1>6 DEF AdminHeal
  <2>2. /\ heals' \in [Periodic \union Admin -> HealRecord]
        /\ \A g \in Periodic : Busy(g)' <=> Busy(g)
    BY <2>1, BeginTyped, HealTimerAssumption DEF TimerIInv
  <2> QED BY <2>1, <2>2 DEF TimerIInv, TimerTypeOK, OneChain, HandleTells, StopsForGood
<1>7. CASE UNCHANGED timerVars
  BY <1>7, <1>same DEF timerVars, TimerIInv, TimerTypeOK, OneChain, HandleTells, StopsForGood
<1> QED BY <1>1, <1>2, <1>3, <1>4, <1>5, <1>6, <1>7 DEF TimerNext, TimerHealStep

\* The invariant holds in every reachable state.
THEOREM TimerInvariance == TimerSpec => []TimerIInv
<1> QED BY TimerInitIInv, TimerNextIInv, PTL DEF TimerSpec

\* Timer, healer and heals are well formed; no heal goes on after too many
\* failures.
THEOREM HealTimerTypeCorrect == TimerSpec => []TimerTypeOK
<1>1. TimerIInv => TimerTypeOK
  BY DEF TimerIInv
<1> QED BY <1>1, TimerInvariance, PTL

\* There is one chain of timers and heals while the healer is started, for
\* any number of ready events and heals of the admin command (start(), stop()
\* and _run() in discover_provider_healer.js).
THEOREM OneChainOnly == TimerSpec => []OneChain
<1>1. TimerIInv => OneChain
  BY DEF TimerIInv
<1> QED BY <1>1, TimerInvariance, PTL

-----------------------------------------------------------------------------
\* The process is destroyed, and no timer or heal of the healer's is left.
Quiet == destroyed /\ timer.handle # "set" /\ \A h \in Periodic : ~Busy(h)

\* A destroyed healer that is quiet stays so: the admin command is gone, no
\* other timer is left to run, and a heal of the admin command sets none.
LEMMA QuietStays == TimerIInv /\ Quiet /\ [TimerNext]_timerVars => Quiet'
<1> SUFFICES ASSUME TimerIInv, Quiet, [TimerNext]_timerVars PROVE Quiet'
  OBVIOUS
<1>1. Ran = {}
  BY DEF Quiet, Ran, TimerIInv, OneChain, TimerTypeOK
<1>2. ASSUME NEW h \in Periodic \union Admin, TimerHealStep(h) PROVE Quiet'
  <2>1. h \notin Periodic /\ UNCHANGED destroyed
    BY <1>2 DEF Quiet, TimerHealStep, HostsDiscovered, HealAttempted, Busy
  <2>2. PICK record : heals' = [heals EXCEPT ![h] = record] /\ UNCHANGED timer
    BY <1>2, <2>1 DEF TimerHealStep, HostsDiscovered, HealAttempted, healNext, CallBack
  <2>3. \A g \in Periodic : heals'[g] = heals[g]
    BY <2>1, <2>2 DEF TimerIInv, TimerTypeOK
  <2> QED BY <2>1, <2>2, <2>3 DEF Quiet, Busy
<1>3. CASE UNCHANGED timerVars
  BY <1>3 DEF timerVars, Quiet, Busy
<1> QED BY <1>1, <1>2, <1>3 DEF TimerNext, Ready, HealTimer, Destroy, AdminHeal, Quiet

\* Once a destroyed process has no timer and no heal of its timer left, it
\* heals no more: whatever the admin command began runs out without another
\* (stop() in discover_provider_healer.js, destroy() in index.js).
THEOREM QuietForGood == TimerSpec => [](Quiet => []Quiet)
  BY TimerInvariance, QuietStays, PTL DEF TimerSpec
=============================================================================
