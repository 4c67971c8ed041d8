-------------------------- MODULE MembershipProofs --------------------------
(***************************************************************************)
(* Proofs about Membership, for every set of nodes and every bound.        *)
(*                                                                         *)
(* The invariants of Membership are not inductive one by one: whether the  *)
(* ring loses a member at its eviction depends on the timers only evicting *)
(* tombstones, that on every record being cancelled or replaced when news  *)
(* arrives, and that on the records being gone while the state transitions *)
(* are disabled. IInv puts together what they need of each other.          *)
(***************************************************************************)
EXTENDS Membership, TLAPS

\* The local member never has a transition, is never stashed, is at no
\* incarnation this host's clock has not reached, and is there once ready.
LocalSane ==
  /\ timers[Local] = NoTimer
  /\ stashed[Local] = Absent
  /\ members[Local].inc <= clock
  /\ members[Local].status \in {"absent", "alive", "faulty", "leave"}
  /\ ready => Known(members[Local])

\* Before the node is ready it knows, schedules and records no other member.
BootingSane ==
  ~ready => \A m \in Others :
    members[m] = Absent /\ timers[m] = NoTimer /\ changes[m] = Absent

\* While the state transitions are disabled nothing is scheduled.
DisabledSane == ~enabled => \A m \in Nodes : timers[m] = NoTimer

IInv ==
  /\ TypeOK
  /\ RingIsPingable
  /\ TimerMatchesStatus
  /\ TimerNotAhead
  /\ DisseminatesBeliefs
  /\ LocalSane
  /\ BootingSane
  /\ DisabledSane

-----------------------------------------------------------------------------
(***************************************************************************)
(* Lemmas about the update rule and the listeners.                         *)
(***************************************************************************)

\* An accepted change is never about an older incarnation, and never makes a
\* tombstone of a member that is not known.
LEMMA AcceptedIsNews ==
  ASSUME NEW member \in Entry, NEW gossip \in Change,
         shouldProcessGossip(member, gossip)
  PROVE  /\ Known(member) => gossip.inc >= member.inc
         /\ Known(member) => Supersedes(gossip, member)
         /\ ~Known(member) => gossip.status # "tombstone"
  BY DEF shouldProcessGossip, Supersedes, Known, Entry, Entries, Change,
         Incarnation, Absent, Status

\* What TimerMatchesStatus and TimerNotAhead say of one member.
Fits(timer, member) ==
  timer.state # "none" =>
    /\ \/ timer.state = member.status
       \/ timer.state = "tombstone" /\ ~Known(member)
    /\ Known(member) => timer.inc <= member.inc

\* Handling an update leaves a record that fits the updated member.
LEMMA HandledFits ==
  ASSUME NEW active \in BOOLEAN, NEW timer \in Timer, NEW member \in Entry,
         NEW new \in Change,
         Fits(timer, member),
         Known(member) => new.inc >= member.inc,
         ~Known(member) => new.status # "tombstone",
         ~active => timer = NoTimer
  PROVE  /\ handleUpdate(active, timer, new) \in Timer
         /\ Fits(handleUpdate(active, timer, new), new)
         /\ ~active => handleUpdate(active, timer, new) = NoTimer
<1>1. new \in [status : Status, inc : Incarnation] /\ Known(new)
  BY DEF Change, Known, Status
<1>2. CASE new.status \in {"alive", "leave"}
  BY <1>2 DEF handleUpdate, NoTimer, Timer, Timers, Fits
<1>3. CASE new.status \notin {"alive", "leave"}
  <2>1. new.status \in {"suspect", "faulty", "tombstone"}
    BY <1>1, <1>3 DEF Status
  <2>2. CASE ~active
    <3>1. handleUpdate(active, timer, new) = NoTimer
      BY <2>2, <1>3 DEF handleUpdate, schedule
    <3> QED BY <3>1 DEF NoTimer, Timer, Timers, Fits
  <2>3. CASE active /\ timer.state = new.status
    BY <2>3, <1>3, <1>1, <2>1
       DEF handleUpdate, schedule, Timer, Timers, Fits, NoTimer, Entry, Entries,
           Incarnation, Absent, Known
  <2>4. CASE active /\ timer.state # new.status
    BY <2>4, <1>3, <1>1, <2>1
       DEF handleUpdate, schedule, Timer, Timers, Fits, NoTimer, Incarnation
  <2> QED BY <2>2, <2>3, <2>4
<1> QED BY <1>2, <1>3

\* The two invariants of the timers, together, for every member.
LEMMA FitsIsInvariants ==
  (\A m \in Nodes : Fits(timers[m], members[m]))
    <=> TimerMatchesStatus /\ TimerNotAhead
  BY DEF Fits, TimerMatchesStatus, TimerNotAhead

\* Applying updates that are news, and running the listeners on records that
\* fit, restores every relation between members, timers, ring and changes.
LEMMA ApplyPreserves ==
  ASSUME TypeOK, RingIsPingable, DisseminatesBeliefs,
         NEW D \in SUBSET Nodes, NEW updates \in [D -> Change],
         NEW base \in [Nodes -> Timer],
         \A m \in Nodes : Fits(base[m], members[m]),
         \A m \in Nodes : ~enabled \/ m = Local => base[m] = NoTimer,
         \A m \in D : Known(members[m]) => updates[m].inc >= members[m].inc,
         \A m \in D : ~Known(members[m]) => updates[m].status # "tombstone",
         members' = MembersAfter(updates),
         onUpdated(updates, base)
  PROVE  /\ members' \in [Nodes -> Entry]
         /\ timers' \in [Nodes -> Timer]
         /\ changes' \in [Nodes -> Entry]
         /\ ring' \in SUBSET Nodes
         /\ RingIsPingable'
         /\ TimerMatchesStatus' /\ TimerNotAhead'
         /\ DisseminatesBeliefs'
         /\ \A m \in Nodes : ~enabled \/ m = Local => timers'[m] = NoTimer
<1>1. DOMAIN updates = D /\ \A m \in D : updates[m] \in Change
  OBVIOUS
<1>2. \A m \in D : updates[m] \in Entry /\ Known(updates[m])
  BY <1>1 DEF Change, Entry, Entries, Known, Status
<1>3. /\ members' \in [Nodes -> Entry]
      /\ \A m \in D : members'[m] = updates[m]
      /\ \A m \in Nodes \ D : members'[m] = members[m]
  BY <1>1, <1>2 DEF MembersAfter, TypeOK
<1>4. /\ changes' \in [Nodes -> Entry]
      /\ \A m \in D : changes'[m] = updates[m]
      /\ \A m \in Nodes \ D : changes'[m] = changes[m]
  BY <1>1, <1>2 DEF ChangesAfter, onUpdated, TypeOK
<1>5. /\ \A m \in D : timers'[m] = handleUpdate(enabled /\ m # Local, base[m], updates[m])
      /\ \A m \in Nodes \ D : timers'[m] = base[m]
      /\ DOMAIN timers' = Nodes
      /\ timers' = [m \in Nodes |-> timers'[m]]
  BY <1>1 DEF TimersAfter, onUpdated
<1>6. \A m \in Nodes : /\ timers'[m] \in Timer
                       /\ Fits(timers'[m], members'[m])
                       /\ ~enabled \/ m = Local => timers'[m] = NoTimer
  <2> TAKE m \in Nodes
  <2>1. CASE m \in D
    <3>1. members[m] \in Entry /\ base[m] \in Timer
      BY DEF TypeOK
    <3>2. (enabled /\ m # Local) \in BOOLEAN
      BY DEF TypeOK
    <3>3. ~(enabled /\ m # Local) => base[m] = NoTimer
      OBVIOUS
    <3>4. updates[m] \in Change
      BY <2>1, <1>1
    <3>5. /\ handleUpdate(enabled /\ m # Local, base[m], updates[m]) \in Timer
          /\ Fits(handleUpdate(enabled /\ m # Local, base[m], updates[m]), updates[m])
          /\ ~(enabled /\ m # Local) =>
               handleUpdate(enabled /\ m # Local, base[m], updates[m]) = NoTimer
      BY <2>1, <3>1, <3>2, <3>3, <3>4, HandledFits
    <3> QED BY <2>1, <3>5, <1>3, <1>5
  <2>2. CASE m \notin D
    BY <2>2, <1>3, <1>5
  <2> QED BY <2>1, <2>2
<1>7. timers' \in [Nodes -> Timer]
  BY <1>5, <1>6
<1>8. TimerMatchesStatus' /\ TimerNotAhead'
  BY <1>6 DEF Fits, TimerMatchesStatus, TimerNotAhead
<1>9. DisseminatesBeliefs'
  BY <1>3, <1>4 DEF DisseminatesBeliefs
<1>10. ring' \in SUBSET Nodes /\ RingIsPingable'
  BY <1>1, <1>3 DEF RingAfter, onUpdated, TypeOK, RingIsPingable
<1> QED BY <1>3, <1>4, <1>6, <1>7, <1>8, <1>9, <1>10

-----------------------------------------------------------------------------
(***************************************************************************)
(* Inductiveness, one step per entry point.                                *)
(***************************************************************************)

LEMMA InitIInv == Init => IInv
<1> SUFFICES ASSUME Init PROVE IInv
  OBVIOUS
<1>1. Absent \in Entry /\ NoTimer \in Timer /\ 1 \in Incarnation
  BY BoundsAssumption DEF Entry, Entries, Timer, Timers, Incarnation
<1>2. TypeOK
  BY <1>1 DEF Init, TypeOK
<1>3. RingIsPingable
  BY DEF Init, RingIsPingable, Absent, isStatusPingable
<1>4. TimerMatchesStatus /\ TimerNotAhead /\ DisabledSane
  BY DEF Init, TimerMatchesStatus, TimerNotAhead, DisabledSane, NoTimer
<1>5. DisseminatesBeliefs /\ BootingSane
  BY DEF Init, DisseminatesBeliefs, BootingSane, Known, Absent, Nodes
<1>6. LocalSane
  BY DEF Init, LocalSane, Absent, Nodes
<1> QED BY <1>2, <1>3, <1>4, <1>5, <1>6 DEF IInv

\* What update() applies of a batch is news about known members.
LEMMA UpdatesAreNews ==
  ASSUME TypeOK, LocalSane, ready, NEW D \in SUBSET Nodes,
         NEW batch \in Batches(D)
  PROVE  /\ Accepted(batch) \in SUBSET D
         /\ UpdatesOf(batch) \in [Accepted(batch) -> Change]
         /\ \A m \in Accepted(batch) :
              /\ Known(members[m]) => UpdatesOf(batch)[m].inc >= members[m].inc
              /\ ~Known(members[m]) => UpdatesOf(batch)[m].status # "tombstone"
         /\ Local \in Accepted(batch) =>
              UpdatesOf(batch)[Local] = [status |-> members[Local].status, inc |-> clock]
<1>1. DOMAIN batch = D /\ \A m \in D : batch[m] \in Change
  BY DEF Batches
<1>2. Accepted(batch) \in SUBSET D
  BY <1>1 DEF Accepted
<1>3. \A m \in Accepted(batch) :
        UpdatesOf(batch)[m] = IF m = Local THEN reincarnated ELSE batch[m]
  BY DEF UpdatesOf
<1>4. reincarnated \in Change /\ reincarnated.inc = clock
      /\ reincarnated.status = members[Local].status
      /\ Known(members[Local]) /\ clock \in Nat /\ members[Local].inc \in Nat
  BY DEF reincarnated, LocalSane, TypeOK, Change, Status, Known, Nodes, Entry,
         Entries, Incarnation, Absent
<1>5. ASSUME NEW m \in Accepted(batch)
      PROVE  /\ UpdatesOf(batch)[m] \in Change
             /\ Known(members[m]) => UpdatesOf(batch)[m].inc >= members[m].inc
             /\ ~Known(members[m]) => UpdatesOf(batch)[m].status # "tombstone"
  <2>1. CASE m = Local
    BY <2>1, <1>3, <1>4 DEF LocalSane
  <2>2. CASE m # Local
    <3>1. members[m] \in Entry /\ batch[m] \in Change
      BY <1>1, <1>2, <1>5 DEF TypeOK
    <3>2. shouldProcessGossip(members[m], batch[m])
      BY <1>5 DEF Accepted
    <3> QED BY <3>1, <3>2, <2>2, <1>3, AcceptedIsNews
  <2> QED BY <2>1, <2>2
<1>6. UpdatesOf(batch) \in [Accepted(batch) -> Change]
  BY <1>5 DEF UpdatesOf
<1> QED BY <1>2, <1>3, <1>4, <1>5, <1>6 DEF reincarnated

\* update(), from records that fit the members: the present ones, or those a
\* timeout left behind.
LEMMA UpdatePreserves ==
  ASSUME IInv, NEW D \in SUBSET Nodes, NEW batch \in Batches(D),
         NEW base \in [Nodes -> Timer],
         \A m \in Nodes : Fits(base[m], members[m]),
         \A m \in Nodes : timers[m] = NoTimer => base[m] = NoTimer,
         update(batch, base), UNCHANGED <<clock, ready, enabled>>
  PROVE  IInv'
<1> USE DEF IInv
<1>1. CASE ~ready
  <2>1. stash(batch, base)
    BY <1>1 DEF update
  <2>2. stashed' \in [Nodes -> Entry] /\ stashed'[Local] = Absent
    <3>1. DOMAIN batch = D /\ \A m \in D : batch[m] \in Entry
      BY DEF Batches, Change, Entry, Entries
    <3> QED BY <2>1, <3>1 DEF stash, MergedWith, TypeOK, LocalSane, Nodes
  <2>3. TypeOK'
    BY <2>1, <2>2 DEF TypeOK, stash
  <2>4. RingIsPingable' /\ DisseminatesBeliefs'
    BY <2>1 DEF stash, RingIsPingable, DisseminatesBeliefs
  <2>5. TimerMatchesStatus' /\ TimerNotAhead'
    BY <2>1 DEF stash, Fits, TimerMatchesStatus, TimerNotAhead
  <2>6. LocalSane' /\ DisabledSane'
    BY <2>1, <2>2 DEF stash, LocalSane, DisabledSane, Nodes
  <2>7. BootingSane'
    BY <2>1 DEF stash, BootingSane, Nodes
  <2> QED BY <2>3, <2>4, <2>5, <2>6, <2>7
<1>2. CASE ready
  <2> DEFINE updates == UpdatesOf(batch)
  <2>1. apply(updates, base)
    BY <1>2 DEF update
  <2>2. /\ Accepted(batch) \in SUBSET Nodes
        /\ updates \in [Accepted(batch) -> Change]
        /\ \A m \in Accepted(batch) :
              /\ Known(members[m]) => updates[m].inc >= members[m].inc
              /\ ~Known(members[m]) => updates[m].status # "tombstone"
        /\ Local \in Accepted(batch) =>
              updates[Local] = [status |-> members[Local].status, inc |-> clock]
    BY <1>2, UpdatesAreNews
  <2>3. \A m \in Nodes : ~enabled \/ m = Local => base[m] = NoTimer
    BY DEF DisabledSane, LocalSane
  <2>4. members' = MembersAfter(updates) /\ onUpdated(updates, base)
        /\ stashed' = stashed
    BY <2>1 DEF apply
  <2> HIDE DEF updates
  <2>5. /\ members' \in [Nodes -> Entry]
        /\ timers' \in [Nodes -> Timer]
        /\ changes' \in [Nodes -> Entry]
        /\ ring' \in SUBSET Nodes
        /\ RingIsPingable'
        /\ TimerMatchesStatus' /\ TimerNotAhead'
        /\ DisseminatesBeliefs'
        /\ \A m \in Nodes : ~enabled \/ m = Local => timers'[m] = NoTimer
    BY <2>2, <2>3, <2>4, ApplyPreserves
  <2>6. TypeOK'
    BY <2>4, <2>5 DEF TypeOK
  <2>7. LocalSane'
    <3>1. members'[Local] = IF Local \in Accepted(batch)
                            THEN [status |-> members[Local].status, inc |-> clock]
                            ELSE members[Local]
      BY <2>2, <2>4 DEF MembersAfter, Nodes
    <3>2. clock \in Nat
      BY DEF TypeOK, Incarnation
    <3> QED BY <3>1, <3>2, <2>4, <2>5 DEF LocalSane, Known, Nodes
  <2>8. BootingSane' /\ DisabledSane'
    BY <1>2, <2>5 DEF BootingSane, DisabledSane
  <2> QED BY <2>5, <2>6, <2>7, <2>8
<1> QED BY <1>1, <1>2

\* The present records fit, and so does what a timeout leaves behind.
LEMMA PresentRecordsFit ==
  ASSUME IInv
  PROVE  /\ timers \in [Nodes -> Timer]
         /\ \A m \in Nodes : Fits(timers[m], members[m])
  BY FitsIsInvariants DEF IInv, TypeOK

LEMMA FiredRecordsFit ==
  ASSUME IInv, NEW m \in Nodes, timers[m].live
  PROVE  /\ fire(m) \in [Nodes -> Timer]
         /\ \A n \in Nodes : Fits(fire(m)[n], members[n])
         /\ \A n \in Nodes : timers[n] = NoTimer => fire(m)[n] = NoTimer
<1>1. /\ timers \in [Nodes -> Timer]
      /\ \A n \in Nodes : Fits(timers[n], members[n])
  BY PresentRecordsFit
<1>2. timers[m] # NoTimer /\ timers[m] \in Timer
  BY <1>1 DEF NoTimer
<1>3. /\ [timers[m] EXCEPT !.live = FALSE] \in Timer
      /\ [timers[m] EXCEPT !.live = FALSE].state = timers[m].state
      /\ [timers[m] EXCEPT !.live = FALSE].inc = timers[m].inc
  BY <1>2 DEF Timer, Timers
<1>4. /\ fire(m)[m] = [timers[m] EXCEPT !.live = FALSE]
      /\ \A n \in Nodes \ {m} : fire(m)[n] = timers[n]
  BY <1>1 DEF fire, Fired, Fired
<1>5. fire(m) \in [Nodes -> Timer]
  BY <1>1, <1>3 DEF fire, Fired, Fired
<1>6. \A n \in Nodes : Fits(fire(m)[n], members[n])
  <2>1. Fits(fire(m)[m], members[m])
    BY <1>1, <1>3, <1>4 DEF Fits
  <2> QED BY <1>1, <1>4, <2>1
<1>7. \A n \in Nodes : timers[n] = NoTimer => fire(m)[n] = NoTimer
  BY <1>2, <1>4
<1> QED BY <1>5, <1>6, <1>7

\* setLocalStatus restores everything that apply() does.
LEMMA SetLocalStatusPreserves ==
  ASSUME IInv, NEW status \in {"alive", "faulty", "leave"},
         Known(members[Local]) \/ status # "leave",
         setLocalStatus(status),
         enabled' \in BOOLEAN,
         ~enabled' => ~enabled \/ status = "leave",
         UNCHANGED <<clock, ready, stashed>>
  PROVE  IInv'
<1> USE DEF IInv
<1> DEFINE own == [a \in {Local} |-> [status |-> status, inc |-> clock]]
           base == IF status = "leave" /\ Known(members[Local])
                   THEN [m \in Nodes |-> NoTimer] ELSE timers
<1>1. members' = MembersAfter(own) /\ onUpdated(own, base)
  BY DEF setLocalStatus
<1>2. /\ own \in [{Local} -> Change] /\ own[Local] = [status |-> status, inc |-> clock]
      /\ {Local} \in SUBSET Nodes
      /\ clock \in Nat
  BY DEF Change, Status, TypeOK, Nodes, Incarnation
<1>3. /\ base \in [Nodes -> Timer]
      /\ \A m \in Nodes : Fits(base[m], members[m])
      /\ \A m \in Nodes : ~enabled \/ m = Local => base[m] = NoTimer
      /\ status = "leave" => \A m \in Nodes : base[m] = NoTimer
  <2>1. CASE status = "leave"
    BY <2>1 DEF Fits, NoTimer, Timer, Timers
  <2>2. CASE status # "leave"
    BY <2>2, PresentRecordsFit DEF DisabledSane, LocalSane
  <2> QED BY <2>1, <2>2
<1>4. \A m \in {Local} :
        /\ Known(members[m]) => own[m].inc >= members[m].inc
        /\ ~Known(members[m]) => own[m].status # "tombstone"
  BY <1>2 DEF LocalSane
<1> HIDE DEF own, base
<1>5. /\ members' \in [Nodes -> Entry]
      /\ timers' \in [Nodes -> Timer]
      /\ changes' \in [Nodes -> Entry]
      /\ ring' \in SUBSET Nodes
      /\ RingIsPingable'
      /\ TimerMatchesStatus' /\ TimerNotAhead'
      /\ DisseminatesBeliefs'
      /\ \A m \in Nodes : ~enabled \/ m = Local => timers'[m] = NoTimer
  BY <1>1, <1>2, <1>3, <1>4, ApplyPreserves
<1>6. /\ members'[Local] = [status |-> status, inc |-> clock]
      /\ \A m \in Nodes \ {Local} :
           /\ members'[m] = members[m]
           /\ timers'[m] = base[m]
           /\ changes'[m] = changes[m]
      /\ status = "leave" => timers'[Local] = NoTimer
  BY <1>1, <1>2 DEF onUpdated, MembersAfter, TimersAfter, ChangesAfter, Nodes,
                    handleUpdate
<1>7. TypeOK' /\ LocalSane'
  BY <1>2, <1>5, <1>6 DEF TypeOK, LocalSane, Known, Nodes
<1>8. BootingSane'
  <2>1. \A m \in Others : ~ready => base[m] = NoTimer
    BY DEF base, BootingSane, Nodes
  <2> QED BY <1>6, <2>1, LocalAssumption DEF BootingSane, Nodes
<1>9. DisabledSane'
  BY <1>3, <1>5, <1>6 DEF DisabledSane, Nodes
<1> QED BY <1>5, <1>7, <1>8, <1>9

\* Every step of the node preserves the invariant.
LEMMA NextIInv == IInv /\ [Next]_vars => IInv'
<1> SUFFICES ASSUME IInv, [Next]_vars PROVE IInv'
  OBVIOUS
<1> USE DEF IInv
<1>1. CASE Tick
  <2>1. clock' \in Incarnation /\ clock' > clock /\ clock \in Nat
    BY <1>1, BoundsAssumption DEF Tick, TypeOK, Incarnation
  <2>2. TypeOK' /\ LocalSane'
    <3>1. members[Local].inc \in Nat
      BY DEF TypeOK, Nodes, Entry, Entries, Incarnation, Absent
    <3> QED BY <1>1, <2>1, <3>1 DEF Tick, TypeOK, LocalSane
  <2> QED
    BY <1>1, <2>2 DEF Tick, RingIsPingable, TimerMatchesStatus, TimerNotAhead,
                      DisseminatesBeliefs, BootingSane, DisabledSane
<1>2. CASE Bootstrap
  BY <1>2, SetLocalStatusPreserves DEF Bootstrap, TypeOK
<1>3. CASE JoinAnswered
  BY <1>3, UpdatePreserves, PresentRecordsFit DEF JoinAnswered
<1>4. CASE SetAndReady
  <2> DEFINE U == {n \in Nodes : Known(stashed[n])}
             updates == [m \in U |-> stashed[m]]
  <2>1. /\ DOMAIN updates = U /\ \A m \in U : updates[m] = stashed[m]
        /\ Local \notin U
        /\ updates \in [U -> Change]
    BY DEF TypeOK, LocalSane, Entry, Entries, Known, Absent, Nodes, Change
  <2>2. /\ ~ready /\ ready' /\ Known(members[Local]) /\ enabled' = enabled
        /\ members' = [m \in Nodes |->
             IF m \in DOMAIN updates /\ updates[m].status # "tombstone"
             THEN updates[m] ELSE members[m]]
        /\ timers' = TimersAfter(updates, timers)
        /\ ring' = ring \union
             {m \in DOMAIN updates : isStatusPingable(updates[m].status)}
        /\ stashed' = [m \in Nodes |-> Absent]
        /\ UNCHANGED <<clock, changes>>
    BY <1>4 DEF SetAndReady
  <2> HIDE DEF updates
  <2>3. \A m \in Others : /\ members[m] = Absent /\ timers[m] = NoTimer
                          /\ changes[m] = Absent
    BY <2>2 DEF BootingSane
  <2>4. Absent \in Entry /\ ready' \in BOOLEAN
    BY <2>2, <1>4 DEF Entry, Entries, SetAndReady
  <2>5. /\ members' \in [Nodes -> Entry]
        /\ \A m \in Nodes : members'[m] =
             IF m \in U /\ updates[m].status # "tombstone"
             THEN updates[m] ELSE members[m]
    BY <2>1, <2>2 DEF TypeOK, Change, Entry, Entries
  <2>6. \A m \in Nodes :
          /\ timers'[m] = IF m \in U THEN handleUpdate(enabled /\ m # Local, timers[m], updates[m])
                                     ELSE timers[m]
          /\ timers'[m] \in Timer
          /\ ~enabled \/ m = Local => timers'[m] = NoTimer
          /\ Fits(timers'[m], members'[m])
    <3> TAKE m \in Nodes
    <3>1. timers'[m] = IF m \in U THEN handleUpdate(enabled /\ m # Local, timers[m], updates[m])
                                  ELSE timers[m]
      BY <2>1, <2>2 DEF TimersAfter
    <3>2. CASE m \notin U
      BY <3>1, <3>2, <2>5, PresentRecordsFit DEF DisabledSane, LocalSane
    <3>3. CASE m \in U
      <4>1. /\ m \in Others /\ members[m] = Absent /\ timers[m] = NoTimer
            /\ updates[m] \in Change
        BY <3>3, <2>1, <2>3 DEF Nodes
      <4>2. CASE updates[m].status \in {"alive", "leave"}
        BY <4>1, <4>2, <3>1, <3>3 DEF handleUpdate, Timer, Timers, Fits, NoTimer
      <4>3. CASE updates[m].status \notin {"alive", "leave"} /\ ~enabled
        BY <4>1, <4>3, <3>1, <3>3 DEF handleUpdate, schedule, Timer, Timers, Fits, NoTimer
      <4>4. CASE updates[m].status \notin {"alive", "leave"} /\ enabled
        <5>1. updates[m].status \in {"suspect", "faulty", "tombstone"}
              /\ updates[m].inc \in Incarnation
          BY <4>1, <4>4 DEF Change, Status
        <5>2. timers'[m] = [state |-> updates[m].status,
                            inc |-> updates[m].inc, live |-> TRUE]
          BY <4>1, <4>4, <3>1, <3>3, <5>1, <2>1
             DEF handleUpdate, schedule, NoTimer
        <5>3. members'[m] = IF updates[m].status # "tombstone"
                            THEN updates[m] ELSE Absent
          BY <2>5, <3>3, <4>1
        <5>4. timers'[m] \in Timer
          BY <5>1, <5>2 DEF Timer, Timers
        <5>5. Fits(timers'[m], members'[m])
          BY <5>1, <5>2, <5>3 DEF Fits, Known, Absent, Incarnation
        <5> QED BY <5>4, <5>5, <4>4, <2>1, <3>1, <3>3
      <4> QED BY <4>2, <4>3, <4>4
    <3> QED BY <3>2, <3>3
  <2>7. timers' \in [Nodes -> Timer]
    <3>1. timers' = [m \in Nodes |-> timers'[m]]
      BY <2>2 DEF TimersAfter
    <3> QED BY <2>6, <3>1
  <2>8. TimerMatchesStatus' /\ TimerNotAhead'
    BY <2>6 DEF Fits, TimerMatchesStatus, TimerNotAhead
  <2>9. ring' \in SUBSET Nodes /\ RingIsPingable'
    BY <2>1, <2>2, <2>3, <2>5
       DEF TypeOK, RingIsPingable, Nodes, Absent, isStatusPingable
  <2>10. DisseminatesBeliefs'
    <3>1. \A m \in Others : ~Known(changes'[m])
      BY <2>2, <2>3 DEF Known, Absent
    <3>2. members'[Local] = members[Local] /\ changes'[Local] = changes[Local]
      BY <2>1, <2>2, <2>5 DEF Nodes
    <3> QED BY <3>1, <3>2 DEF DisseminatesBeliefs, Nodes
  <2>11. TypeOK' /\ LocalSane' /\ BootingSane' /\ DisabledSane'
    BY <2>1, <2>2, <2>4, <2>5, <2>6, <2>7, <2>9
       DEF TypeOK, LocalSane, BootingSane, DisabledSane, Nodes
  <2> QED BY <2>8, <2>9, <2>10, <2>11
<1>5. CASE Gossip
  BY <1>5, UpdatePreserves, PresentRecordsFit DEF Gossip
<1>6. ASSUME NEW m \in Others, ProbeFailed(m) PROVE IInv'
  <2>1. PICK inc \in Incarnation : makeChange(m, inc, "suspect", timers)
    BY <1>6 DEF ProbeFailed
  <2>2. [a \in {m} |-> [status |-> "suspect", inc |-> inc]] \in Batches({m})
    BY DEF Batches, Change, Status
  <2>3. {m} \in SUBSET Nodes
    BY DEF Nodes
  <2> QED BY <1>6, <2>1, <2>2, <2>3, UpdatePreserves, PresentRecordsFit
          DEF ProbeFailed, makeChange
<1>7. ASSUME NEW m \in Nodes, timers[m].live, NEW status \in {"faulty", "tombstone"},
             makeChange(m, timers[m].inc, status, fire(m)),
             UNCHANGED <<clock, ready, enabled>>
      PROVE IInv'
  <2>1. timers[m].inc \in Incarnation
    BY <1>7 DEF TypeOK, Timer, Timers, NoTimer
  <2>2. [a \in {m} |-> [status |-> status, inc |-> timers[m].inc]] \in Batches({m})
    BY <2>1 DEF Batches, Change, Status
  <2>3. {m} \in SUBSET Nodes
    OBVIOUS
  <2> QED BY <1>7, <2>2, <2>3, UpdatePreserves, FiredRecordsFit DEF makeChange
<1>8. ASSUME NEW m \in Nodes, Timeout(m) PROVE IInv'
  <2>1. CASE SuspectTimeout(m)
    BY <2>1, <1>7 DEF SuspectTimeout, NextStatus
  <2>2. CASE FaultyTimeout(m)
    BY <2>2, <1>7 DEF FaultyTimeout, NextStatus
  <2>3. CASE TombstoneTimeout(m)
    <3>1. /\ timers[m].live /\ timers[m].state = "tombstone"
          /\ timers' = fire(m)
          /\ members' = IF m = Local THEN members ELSE [members EXCEPT ![m] = Absent]
          /\ UNCHANGED <<clock, ready, stashed, enabled, ring, changes>>
      BY <2>3 DEF TombstoneTimeout
    <3>2. /\ fire(m) \in [Nodes -> Timer]
          /\ \A n \in Nodes : Fits(fire(m)[n], members[n])
          /\ \A n \in Nodes : timers[n] = NoTimer => fire(m)[n] = NoTimer
      BY <3>1, FiredRecordsFit
    <3>3. m # Local
      BY <3>1 DEF LocalSane, NoTimer
    <3>4. /\ members' \in [Nodes -> Entry] /\ members'[m] = Absent
          /\ \A n \in Nodes \ {m} : members'[n] = members[n]
      BY <3>1, <3>3 DEF TypeOK, Entry, Entries
    <3>5. members[m].status = "tombstone" \/ members[m] = Absent
      BY <3>1 DEF TimerMatchesStatus, TypeOK, Known, Entry, Entries, Status
    <3>6. timers'[m].state = "tombstone"
      BY <3>1 DEF fire, Fired, TypeOK, Timer
    <3>7. TimerMatchesStatus' /\ TimerNotAhead'
      <4>1. \A n \in Nodes : Fits(timers'[n], members'[n])
        <5>1. Fits(timers'[m], members'[m])
          BY <3>4, <3>6 DEF Fits, Known, Absent
        <5> QED BY <3>1, <3>2, <3>4, <5>1
      <4> QED BY <4>1 DEF Fits, TimerMatchesStatus, TimerNotAhead
    <3>8. RingIsPingable' /\ DisseminatesBeliefs'
      BY <3>1, <3>4, <3>5
         DEF RingIsPingable, DisseminatesBeliefs, isStatusPingable, Absent, Known
    <3>9. TypeOK' /\ LocalSane' /\ BootingSane' /\ DisabledSane'
      BY <3>1, <3>2, <3>3, <3>4
         DEF TypeOK, LocalSane, BootingSane, DisabledSane, Nodes
    <3> QED BY <3>7, <3>8, <3>9
  <2> QED BY <1>8, <2>1, <2>2, <2>3 DEF Timeout
<1>9. ASSUME NEW m \in Nodes, Exhaust(m) PROVE IInv'
  <2>1. /\ changes' \in [Nodes -> Entry] /\ changes'[m] = Absent
        /\ \A n \in Nodes \ {m} : changes'[n] = changes[n]
    BY <1>9 DEF Exhaust, TypeOK, Entry, Entries
  <2> QED BY <1>9, <2>1
    DEF Exhaust, TypeOK, RingIsPingable, TimerMatchesStatus, TimerNotAhead,
        DisseminatesBeliefs, LocalSane, BootingSane, DisabledSane, Known,
        Absent, Nodes
<1>10. CASE Leave
  BY <1>10, SetLocalStatusPreserves DEF Leave
<1>11. CASE Rejoin
  BY <1>11, SetLocalStatusPreserves DEF Rejoin
<1>12. CASE Reap
  <2> DEFINE faulty == {m \in Nodes : members[m].status = "faulty"}
             batch == [m \in faulty |-> [status |-> "tombstone", inc |-> members[m].inc]]
  <2>1. batch \in Batches(faulty) /\ faulty \in SUBSET Nodes
    BY DEF Batches, Change, Status, TypeOK, Entry, Entries, Absent
  <2>2. update(batch, timers) /\ UNCHANGED <<clock, ready, enabled>>
    BY <1>12 DEF Reap
  <2> HIDE DEF batch, faulty
  <2> QED BY <2>1, <2>2, UpdatePreserves, PresentRecordsFit
<1>13. CASE SelfEvict
  BY <1>13, SetLocalStatusPreserves DEF SelfEvict, LocalSane, TypeOK
<1>14. CASE UNCHANGED vars
  BY <1>14 DEF vars, TypeOK, RingIsPingable, TimerMatchesStatus, TimerNotAhead,
               DisseminatesBeliefs, LocalSane, BootingSane, DisabledSane
<1> QED BY <1>1, <1>2, <1>3, <1>4, <1>5, <1>6, <1>8, <1>9, <1>10, <1>11,
           <1>12, <1>13, <1>14 DEF Next

LEMMA SpecIInv == Spec => []IInv
  BY InitIInv, NextIInv, PTL DEF Spec

\* Every reachable state is well typed.
THEOREM TypeCorrect == Spec => []TypeOK
  BY SpecIInv, PTL DEF IInv

\* The ring always holds exactly the members the list calls alive or suspect.
THEOREM RingFollowsMembers == Spec => []RingIsPingable
  BY SpecIInv, PTL DEF IInv

\* A scheduled transition is always the one its member's status calls for,
\* and was scheduled for no later incarnation than the one remembered.
THEOREM TimersAlwaysFollowMembers == Spec => []TimersFollowMembers
<1>1. IInv => TimersFollowMembers
  BY DEF IInv, TimersFollowMembers
<1> QED BY SpecIInv, <1>1, PTL

\* A change still being disseminated is what the node believes of its member.
THEOREM ChangesFollowMembers == Spec => []DisseminatesBeliefs
  BY SpecIInv, PTL DEF IInv

-----------------------------------------------------------------------------
(***************************************************************************)
(* Membership implements MemberView.                                       *)
(***************************************************************************)

\* MemberView reads entries with the same operators as Membership.
LEMMA ViewReadsAlike ==
  /\ View!Absent = Absent
  /\ View!Nodes = Nodes
  /\ View!Entries(Incarnation) = Entry
  /\ \A a : View!Known(a) <=> Known(a)
  /\ \A a : View!isStatusPingable(a) <=> isStatusPingable(a)
  /\ \A a, b : View!Supersedes(a, b) <=> Supersedes(a, b)
<1>1. \A a : View!statusPrecedence(a) = statusPrecedence(a)
  BY DEF View!statusPrecedence, statusPrecedence
<1>2. /\ View!Absent = Absent
      /\ View!Nodes = Nodes
      /\ \A a : View!Known(a) <=> Known(a)
      /\ \A a : View!isStatusPingable(a) <=> isStatusPingable(a)
  BY DEF View!Absent, Absent, View!Nodes, Nodes, View!Known, Known,
         View!isStatusPingable, isStatusPingable
<1>3. View!Entries(Incarnation) = Entry
  BY <1>2 DEF View!Entries, Entry, Entries, View!Status, Status
<1>4. \A a, b : View!Supersedes(a, b) <=> Supersedes(a, b)
  BY <1>1 DEF View!Supersedes, Supersedes
<1> QED BY <1>2, <1>3, <1>4

\* What the update rule lets through is a step forward for every member.
LEMMA UpdateLearns ==
  ASSUME IInv, IInv', NEW D \in SUBSET Nodes, NEW batch \in Batches(D),
         NEW base, update(batch, base), clock' = clock
  PROVE  View!Learn
<1> USE DEF IInv
<1>1. CASE ~ready
  BY <1>1 DEF update, stash, View!Learn
<1>2. CASE ready
  <2>1. members' = MembersAfter(UpdatesOf(batch))
    BY <1>2 DEF update, apply
  <2>2. /\ Accepted(batch) \in SUBSET D
        /\ UpdatesOf(batch) \in [Accepted(batch) -> Change]
        /\ Local \in Accepted(batch) =>
              UpdatesOf(batch)[Local] = [status |-> members[Local].status, inc |-> clock]
    BY <1>2, UpdatesAreNews
  <2>3. \A m \in Nodes : members'[m] =
          IF m \in Accepted(batch) THEN UpdatesOf(batch)[m] ELSE members[m]
    BY <2>1, <2>2 DEF MembersAfter
  <2> SUFFICES ASSUME NEW m \in Nodes, m \in Accepted(batch)
               PROVE  View!FirstHeard(m) \/ View!Advances(m)
    BY <2>3 DEF View!Learn, View!Nodes, Nodes
  <2>4. CASE m = Local
    <3>1. Known(members[Local]) /\ members[Local].inc \in Nat /\ clock \in Nat
      BY <1>2 DEF LocalSane, TypeOK, Entry, Entries, Absent, Incarnation, Nodes
    <3>2. members'[Local] = [status |-> members[Local].status, inc |-> clock]
      BY <2>2, <2>3, <2>4
    <3> QED BY <2>4, <3>1, <3>2, ViewReadsAlike DEF LocalSane, View!Advances, Known
  <2>5. CASE m # Local
    <3>1. batch[m] \in Change /\ members[m] \in Entry
      BY <2>2 DEF Batches, TypeOK
    <3>2. shouldProcessGossip(members[m], batch[m])
      BY DEF Accepted
    <3>3. members'[m] = batch[m]
      BY <2>3, <2>5 DEF UpdatesOf
    <3>4. Known(batch[m])
      BY <3>1 DEF Known, Change, Status
    <3> QED BY <3>1, <3>2, <3>3, <3>4, <2>5, AcceptedIsNews, ViewReadsAlike
            DEF View!FirstHeard, View!Advances
  <2> QED BY <2>4, <2>5
<1> QED BY <1>1, <1>2

\* A change of the local status is a step forward of the local member.
LEMMA SetLocalStatusLearns ==
  ASSUME IInv, IInv', NEW status \in {"alive", "faulty", "leave"},
         setLocalStatus(status), clock' = clock
  PROVE  View!Learn
<1> USE DEF IInv
<1>1. /\ members'[Local] = [status |-> status, inc |-> clock]
      /\ \A m \in Nodes \ {Local} : members'[m] = members[m]
  BY DEF setLocalStatus, MembersAfter, Nodes
<1>2. Known(members[Local]) => members[Local].inc <= clock
  BY DEF LocalSane
<1>3. clock \in Nat /\ members[Local].inc \in Nat
  BY DEF TypeOK, Entry, Entries, Absent, Incarnation, Nodes
<1>4. View!FirstHeard(Local) \/ View!Advances(Local)
  BY <1>1, <1>2, <1>3, ViewReadsAlike DEF View!FirstHeard, View!Advances, Known
<1> QED BY <1>1, <1>4 DEF View!Learn, View!Nodes, Nodes

\* A reachable step of the node is a step of the abstract list, or leaves
\* list and ring alone.
LEMMA NextImplements ==
  IInv /\ IInv' /\ [Next]_vars => [View!Next]_(View!vvars)
<1> SUFFICES ASSUME IInv, IInv', [Next]_vars
             PROVE  [View!Next]_(View!vvars)
  OBVIOUS
<1> USE DEF IInv
<1>0. View!Learn \/ View!Forget => View!Next
  <2>1. ring' = {m \in Nodes : isStatusPingable(members'[m].status)}
    BY DEF RingIsPingable
  <2>2. members' \in [Nodes -> Entry]
    BY DEF TypeOK
  <2>3. ring' = View!Pingable(members')
    BY <2>1, ViewReadsAlike DEF View!Pingable
  <2> QED BY <2>2, <2>3, ViewReadsAlike DEF View!Next
<1> SUFFICES View!Learn \/ View!Forget \/ UNCHANGED <<members, ring>>
  BY <1>0 DEF View!vvars
<1>1. CASE Tick \/ UNCHANGED vars \/ \E m \in Nodes : Exhaust(m)
  BY <1>1 DEF Tick, vars, Exhaust
<1>2. CASE Bootstrap
  BY <1>2, SetLocalStatusLearns DEF Bootstrap
<1>3. CASE JoinAnswered \/ Gossip
  BY <1>3, UpdateLearns DEF JoinAnswered, Gossip
<1>4. CASE SetAndReady
  <2>1. ~ready /\ members' = [m \in Nodes |->
          IF m \in {n \in Nodes : Known(stashed[n])} /\ stashed[m].status # "tombstone"
          THEN stashed[m] ELSE members[m]]
    BY <1>4 DEF SetAndReady
  <2>2. ~Known(stashed[Local]) /\ \A m \in Others : ~Known(members[m])
    BY <2>1 DEF LocalSane, BootingSane, Known, Absent
  <2> QED BY <2>1, <2>2, ViewReadsAlike DEF View!Learn, View!FirstHeard, Nodes
<1>5. ASSUME NEW m \in Others, ProbeFailed(m) PROVE View!Learn
  <2>1. PICK inc \in Incarnation : makeChange(m, inc, "suspect", timers)
    BY <1>5 DEF ProbeFailed
  <2>2. [a \in {m} |-> [status |-> "suspect", inc |-> inc]] \in Batches({m})
    BY DEF Batches, Change, Status
  <2>3. {m} \in SUBSET Nodes
    BY DEF Nodes
  <2> QED BY <1>5, <2>1, <2>2, <2>3, UpdateLearns DEF ProbeFailed, makeChange
<1>6. ASSUME NEW m \in Nodes, Timeout(m) PROVE View!Learn \/ View!Forget
  <2>1. timers[m] \in Timer /\ timers[m].live
    BY <1>6 DEF Timeout, SuspectTimeout, FaultyTimeout, TombstoneTimeout, TypeOK
  <2>2. ASSUME NEW status \in {"faulty", "tombstone"}, clock' = clock,
               makeChange(m, timers[m].inc, status, fire(m))
        PROVE  View!Learn
    <3>1. timers[m].inc \in Incarnation
      BY <2>1 DEF Timer, Timers, NoTimer
    <3>2. [a \in {m} |-> [status |-> status, inc |-> timers[m].inc]] \in Batches({m})
      BY <3>1 DEF Batches, Change, Status
    <3>3. {m} \in SUBSET Nodes
      OBVIOUS
    <3> QED BY <2>2, <3>2, <3>3, UpdateLearns DEF makeChange
  <2>3. CASE SuspectTimeout(m) \/ FaultyTimeout(m)
    BY <2>2, <2>3 DEF SuspectTimeout, FaultyTimeout, NextStatus
  <2>4. CASE TombstoneTimeout(m)
    <3>1. m # Local
      BY <2>1 DEF LocalSane, NoTimer
    <3>2. members' = [members EXCEPT ![m] = Absent] /\ timers[m].state = "tombstone"
      BY <2>4, <3>1 DEF TombstoneTimeout
    <3>3. members[m].status = "tombstone" \/ members[m] = Absent
      BY <3>2 DEF TimerMatchesStatus, TypeOK, Known, Entry, Entries, Status
    <3>4. /\ members'[m] = Absent
          /\ \A n \in Nodes \ {m} : members'[n] = members[n]
      BY <3>2 DEF TypeOK
    <3> QED BY <3>1, <3>3, <3>4, ViewReadsAlike
            DEF View!Learn, View!Forget, View!Forgets
  <2> QED BY <1>6, <2>3, <2>4 DEF Timeout
<1>7. CASE Leave \/ Rejoin \/ SelfEvict
  BY <1>7, SetLocalStatusLearns DEF Leave, Rejoin, SelfEvict
<1>8. CASE Reap
  <2> DEFINE faulty == {m \in Nodes : members[m].status = "faulty"}
             batch == [m \in faulty |-> [status |-> "tombstone", inc |-> members[m].inc]]
  <2>1. batch \in Batches(faulty) /\ faulty \in SUBSET Nodes
    BY DEF Batches, Change, Status, TypeOK, Entry, Entries, Absent
  <2>2. update(batch, timers) /\ clock' = clock
    BY <1>8 DEF Reap
  <2> HIDE DEF batch, faulty
  <2> QED BY <2>1, <2>2, UpdateLearns
<1> QED BY <1>1, <1>2, <1>3, <1>4, <1>5, <1>6, <1>7, <1>8 DEF Next

\* Whatever batches, timeouts, failed probes and commands do to a node, its
\* member list only moves forward or forgets tombstones, and its ring is the
\* set of pingable members at every step.
THEOREM MembershipImplementsView == Spec => ImplementsView
<1>1. Init => View!Init
  BY ViewReadsAlike DEF Init, View!Init
<1>2. Spec => View!Spec
  BY <1>1, SpecIInv, NextImplements, PTL DEF Spec, View!Spec
<1> QED BY <1>2 DEF ImplementsView


-----------------------------------------------------------------------------
(***************************************************************************)
(* The order of updates (lib/membership/member.js). Every process applies  *)
(* the rule to the updates that reach it, some of them late, twice or in   *)
(* another order; all are to end up with the same member list.             *)
(***************************************************************************)

\* What gossip can say of a member, at any incarnation.
AnyChange == [status : Status, inc : Int]

\* Two different changes of a member are never on a par: one of them
\* supersedes the other, and what supersedes that one supersedes both.
THEOREM SupersedesIsTotal ==
  ASSUME NEW a \in AnyChange, NEW b \in AnyChange, NEW c \in AnyChange
  PROVE  /\ ~Supersedes(a, a)
         /\ a # b => Supersedes(a, b) \/ Supersedes(b, a)
         /\ Supersedes(a, b) /\ Supersedes(b, c) => Supersedes(a, c)
<1>1. /\ statusPrecedence(a.status) \in Int /\ statusPrecedence(b.status) \in Int
      /\ statusPrecedence(c.status) \in Int
      /\ statusPrecedence(a.status) = statusPrecedence(b.status) => a.status = b.status
  BY DEF AnyChange, Status, statusPrecedence
<1>2. a.inc \in Int /\ b.inc \in Int /\ c.inc \in Int
  BY DEF AnyChange
<1>3. a.status = b.status /\ a.inc = b.inc => a = b
  BY DEF AnyChange
<1> QED BY <1>1, <1>2, <1>3 DEF Supersedes

\* Hearing a change of a known member is taking the greater of the two.
LEMMA HeardIsGreater ==
  ASSUME NEW member \in AnyChange, NEW gossip \in AnyChange
  PROVE  /\ shouldProcessGossip(member, gossip) <=> Supersedes(gossip, member)
         /\ Heard(member, gossip) \in AnyChange
         /\ ~Supersedes(member, Heard(member, gossip))
         /\ ~Supersedes(gossip, Heard(member, gossip))
<1>1. Known(member)
  BY DEF AnyChange, Status, Known
<1>2. shouldProcessGossip(member, gossip) <=> Supersedes(gossip, member)
  BY <1>1 DEF shouldProcessGossip, Supersedes
<1>3. CASE Supersedes(gossip, member)
  BY <1>2, <1>3, SupersedesIsTotal DEF Heard
<1>4. CASE ~Supersedes(gossip, member)
  BY <1>2, <1>4, SupersedesIsTotal DEF Heard
<1> QED BY <1>2, <1>3, <1>4

\* Two changes of a member leave the same entry in whatever order they are
\* applied - unless the member is unknown and one of them is a tombstone, which
\* is not accepted then (shouldProcessGossip).
THEOREM UpdatesCommute ==
  ASSUME NEW member \in AnyChange \union {Absent}, NEW a \in AnyChange, NEW b \in AnyChange,
         Known(member) \/ (a.status # "tombstone" /\ b.status # "tombstone")
  PROVE  Heard(Heard(member, a), b) = Heard(Heard(member, b), a)
<1>1. CASE member \in AnyChange
  BY <1>1, HeardIsGreater, SupersedesIsTotal DEF Heard
<1>2. CASE member = Absent
  <2>1. ~Known(member)
    BY <1>2 DEF Known, Absent
  <2>2. Heard(member, a) = a /\ Heard(member, b) = b
    BY <2>1 DEF Heard, shouldProcessGossip
  <2>3. Heard(a, b) = Heard(b, a)
    BY HeardIsGreater, SupersedesIsTotal DEF Heard
  <2> QED BY <2>2, <2>3
<1> QED BY <1>1, <1>2

\* A change that was applied, or was old then, is ignored when it comes again,
\* however far the entry has moved on meanwhile, as MemberView promises; only
\* the tombstone of a member that was unknown may be accepted later.
THEOREM LateUpdatesIgnored ==
  ASSUME NEW member \in AnyChange \union {Absent}, NEW gossip \in AnyChange,
         Known(Heard(member, gossip)), NEW later \in AnyChange,
         later = Heard(member, gossip) \/ Supersedes(later, Heard(member, gossip))
  PROVE  ~shouldProcessGossip(later, gossip)
<1> DEFINE heard == Heard(member, gossip)
<1>1. heard \in AnyChange
  BY DEF Heard, Known, Absent
<1>2. ~Supersedes(gossip, heard)
  <2>1. CASE member \in AnyChange
    BY <2>1, HeardIsGreater
  <2>2. CASE member = Absent
    BY <1>1, <2>2, SupersedesIsTotal DEF Heard, Known, Absent
  <2> QED BY <2>1, <2>2
<1> HIDE DEF heard
<1>3. ~Supersedes(gossip, later)
  BY <1>1, <1>2, SupersedesIsTotal DEF heard
<1> QED BY <1>3, HeardIsGreater
=============================================================================
