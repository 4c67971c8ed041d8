----------------------- MODULE FailureDetectionProofs -----------------------
(***************************************************************************)
(* Proofs about failure detection: about Gossip, the protocol period and   *)
(* the probes of one process, for every set of members and every bound,    *)
(* and about Swim, what all processes make of one of them, for every       *)
(* number of observers, every bound on the clock and every number of       *)
(* faults.                                                                 *)
(***************************************************************************)
EXTENDS Swim, Gossip, FiniteSetTheorems, SequenceTheorems, TLAPS

(***************************************************************************)
(* The protocol period. A loop may run on a timer while the probe in       *)
(* flight belongs to an admin tick, or wait for a probe while an admin     *)
(* tick is turned away. That the last loop never ends with somebody        *)
(* else's probe needs that there is at most one probe, and of that, that   *)
(* isPinging says so.                                                      *)
(***************************************************************************)

\* What is recorded of a probe.
ProbeOf(for, target, stage, waiting, refused) ==
  [for |-> for, target |-> target, stage |-> stage, waiting |-> waiting, refused |-> refused]

\* isPinging says whether there is a probe, and there is one at most.
ProbeSlot ==
  \/ ~isPinging /\ probes = <<>>
  \/ /\ isPinging
     /\ \E for \in {"loop", "admin"} : \E target, stage, waiting, refused :
          probes = <<ProbeOf(for, target, stage, waiting, refused)>>

LoopTyped ==
  /\ isStopped \in BOOLEAN /\ isPinging \in BOOLEAN
  /\ loop \in [handle : {"null", "set", "ran"}, others : Nat]

GossipIInv == LoopTyped /\ ProbeSlot /\ LoopAlive

-----------------------------------------------------------------------------
\* The only probe is removed.
LEMMA RemoveOnly == ASSUME NEW p PROVE RemoveAt(<<p>>, 1) = <<>>
  BY DEF RemoveAt

\* The loop after run() has a timer that is set.
LEMMA RunSets ==
  ASSUME NEW l \in [handle : {"null", "set", "ran"}, others : Nat]
  PROVE  Run(l) \in [handle : {"null", "set", "ran"}, others : Nat] /\ Run(l).handle = "set"
  BY DEF Run

\* A timer that is due was set; with it gone the loop is still well formed.
LEMMA DueTyped ==
  ASSUME LoopTyped, NEW l, Due(l)
  PROVE  l \in [handle : {"null", "set", "ran"}, others : Nat]
  BY DEF LoopTyped, Due

\* The slot of the probes by the number in it.
LEMMA OneAtMost == ASSUME ProbeSlot PROVE OneProbe
<1>1. CASE ~isPinging /\ probes = <<>>
  BY <1>1 DEF OneProbe
<1>2. CASE isPinging /\ \E p : probes = <<p>>
  <2>1. Len(probes) = 1 /\ probes # <<>>
    BY <1>2
  <2> QED BY <1>2, <2>1 DEF OneProbe
<1> QED BY <1>1, <1>2 DEF ProbeSlot

\* The end of the probe, with whatever verdict.
LEMMA EndKeeps ==
  ASSUME GossipIInv, NEW i \in DOMAIN probes, NEW outcome, End(i, outcome)
  PROVE  GossipIInv'
<1>1. PICK for \in {"loop", "admin"} : \E target, stage, waiting, refused :
        probes = <<ProbeOf(for, target, stage, waiting, refused)>>
  BY DEF GossipIInv, ProbeSlot
<1>2. PICK p : probes = <<p>> /\ p.for = for
  BY <1>1 DEF ProbeOf
<1>3. i = 1 /\ probes[i].for = for
  BY <1>2
<1>4. probes' = <<>> /\ isPinging' = FALSE /\ isStopped' = isStopped
  BY <1>2, <1>3, RemoveOnly DEF End
<1>5. loop' = Callback(for, loop)
  BY <1>3 DEF End
<1>6. LoopTyped'
  BY <1>4, <1>5, RunSets DEF GossipIInv, LoopTyped, Callback
<1>7. LoopAlive'
  <2>1. CASE for = "loop"
    BY <2>1, <1>4, <1>5, RunSets DEF GossipIInv, LoopTyped, LoopAlive, Runs, Callback
  <2>2. CASE for = "admin"
    BY <2>2, <1>2, <1>4, <1>5 DEF GossipIInv, LoopAlive, Runs, Callback
  <2> QED BY <2>1, <2>2
<1> QED BY <1>4, <1>6, <1>7 DEF GossipIInv, ProbeSlot

\* The probe goes on, for whom it was made.
LEMMA GoesOnKeeps ==
  ASSUME GossipIInv, NEW for \in {"loop", "admin"}, NEW target,
         NEW stage, NEW waiting, NEW refused, NEW stage2, NEW waiting2, NEW refused2,
         probes = <<ProbeOf(for, target, stage, waiting, refused)>>,
         probes' = <<ProbeOf(for, target, stage2, waiting2, refused2)>>,
         UNCHANGED <<isStopped, isPinging, loop>>
  PROVE  GossipIInv'
<1>1. (\E j \in DOMAIN probes : probes[j].for = "loop") =>
        \E j \in DOMAIN probes' : probes'[j].for = "loop"
  BY DEF ProbeOf
<1>2. ProbeSlot'
  BY DEF GossipIInv, ProbeSlot
<1>3. LoopAlive'
  BY <1>1 DEF GossipIInv, LoopAlive, Runs
<1>4. LoopTyped'
  BY DEF GossipIInv, LoopTyped
<1> QED BY <1>2, <1>3, <1>4 DEF GossipIInv

-----------------------------------------------------------------------------
\* Gossip begins stopped, without a probe.
LEMMA GossipInitIInv == GossipInit => GossipIInv
<1> SUFFICES ASSUME GossipInit PROVE GossipIInv
  OBVIOUS
<1>1. LoopTyped
  BY DEF GossipInit, LoopTyped
<1>2. ProbeSlot
  BY Zenon DEF GossipInit, ProbeSlot
<1>3. LoopAlive
  BY Zenon DEF GossipInit, LoopAlive
<1> QED BY <1>1, <1>2, <1>3 DEF GossipIInv

\* Every step keeps at most one probe and, while started, a loop.
LEMMA GossipNextIInv == GossipIInv /\ [GossipNext]_gossipVars => GossipIInv'
<1> SUFFICES ASSUME GossipIInv, [GossipNext]_gossipVars PROVE GossipIInv'
  OBVIOUS
<1>same. ASSUME UNCHANGED <<isStopped, isPinging, loop, probes>> PROVE GossipIInv'
  BY <1>same DEF GossipIInv, LoopTyped, ProbeSlot, LoopAlive, Runs
<1>start. CASE Start
  <2>1. isStopped' = FALSE /\ loop' = Run(loop) /\ UNCHANGED <<isPinging, probes>>
    BY <1>start DEF Start
  <2> QED BY <2>1, RunSets DEF GossipIInv, LoopTyped, ProbeSlot, LoopAlive, Runs
<1>stop. CASE Stop
  BY <1>stop DEF Stop, GossipIInv, LoopTyped, ProbeSlot, LoopAlive
<1>ready. CASE Ready
  BY <1>ready, <1>same DEF Ready
<1>vain. ASSUME NEW for, NEW l \in [handle : {"null", "set", "ran"}, others : Nat],
                for = "loop" \/ l = loop, TickInVain(for, l)
         PROVE  GossipIInv'
  <2>1. UNCHANGED <<isStopped, isPinging, probes>> /\ loop' = Callback(for, l)
    BY <1>vain DEF TickInVain
  <2>2. LoopTyped'
    BY <2>1, RunSets DEF Callback, GossipIInv, LoopTyped
  <2>3. LoopAlive'
    BY <1>vain, <2>1, RunSets DEF Callback, GossipIInv, LoopAlive, Runs
  <2> QED BY <2>1, <2>2, <2>3 DEF GossipIInv, ProbeSlot
<1>ping. ASSUME NEW for \in {"loop", "admin"},
                NEW l \in [handle : {"null", "set", "ran"}, others : Nat],
                for = "loop" \/ l = loop, TickPings(for, l)
         PROVE  GossipIInv'
  <2>1. probes = <<>> /\ isPinging' = TRUE /\ isStopped' = isStopped /\ loop' = l
    BY <1>ping DEF TickPings, MayPing, GossipIInv, ProbeSlot
  <2>2. probes' = <<ProbeOf(for, Target(it'), "ping", {}, FALSE)>>
    BY <1>ping, <2>1 DEF TickPings, ProbeOf
  <2>3. ProbeSlot'
    BY <2>1, <2>2 DEF ProbeSlot
  <2>4. LoopAlive'
    <3>1. CASE for = "loop"
      BY <3>1, <2>2 DEF LoopAlive, Runs, ProbeOf
    <3>2. CASE l = loop
      BY <3>2, <2>1 DEF GossipIInv, LoopAlive, Runs
    <3> QED BY <1>ping, <3>1, <3>2
  <2> QED BY <2>1, <2>3, <2>4 DEF GossipIInv, LoopTyped
<1>period. CASE PeriodPings \/ PeriodInVain
  BY <1>period, <1>vain, <1>ping, DueTyped DEF PeriodPings, PeriodInVain, GossipIInv
<1>admin. CASE AdminTick
  BY <1>admin, <1>vain, <1>ping DEF AdminTick, GossipIInv, LoopTyped
<1>probe. ASSUME NEW i \in DOMAIN probes, ProbeStep(i) PROVE GossipIInv'
  <2>1. PICK for \in {"loop", "admin"} : \E target, stage, waiting, refused :
          probes = <<ProbeOf(for, target, stage, waiting, refused)>>
    BY DEF GossipIInv, ProbeSlot
  <2>2. PICK target, stage, waiting, refused :
          probes = <<ProbeOf(for, target, stage, waiting, refused)>>
    BY <2>1
  <2>3. i = 1
    BY <2>2
  <2>4. CASE PingAnswered(i) \/ HelperReached(i)
    BY <2>4, EndKeeps DEF PingAnswered, HelperReached
  <2>5. CASE PingFailed(i)
    <3>1. CASE End(i, "suspect")
      BY <3>1, EndKeeps
    <3>2. ASSUME NEW asked,
                 probes' = [probes EXCEPT ![i].stage = "ping-req", ![i].waiting = asked],
                 UNCHANGED <<isStopped, isPinging, loop>>
          PROVE  GossipIInv'
      <4>1. probes' = <<ProbeOf(for, target, "ping-req", asked, refused)>>
        <5>1. probes' = [probes EXCEPT ![1] =
                [[probes[1] EXCEPT !.stage = "ping-req"] EXCEPT !.waiting = asked]]
          BY <2>3, <3>2
        <5>2. [probes[1] EXCEPT !.stage = "ping-req"]
                = ProbeOf(for, target, "ping-req", waiting, refused)
          BY <2>2 DEF ProbeOf
        <5>3. [ProbeOf(for, target, "ping-req", waiting, refused) EXCEPT !.waiting = asked]
                = ProbeOf(for, target, "ping-req", asked, refused)
          BY DEF ProbeOf
        <5>4. probes' = [probes EXCEPT ![1] =
                           ProbeOf(for, target, "ping-req", asked, refused)]
          BY <5>1, <5>2, <5>3
        <5> QED BY <2>2, <5>4
      <4> QED BY <2>2, <3>2, <4>1, GoesOnKeeps
    <3> QED BY <2>5, <3>1, <3>2 DEF PingFailed
  <2>6. ASSUME NEW h, NEW told, HelperFailed(i, h, told) PROVE GossipIInv'
    <3>1. CASE \E outcome : End(i, outcome)
      BY <3>1, EndKeeps
    <3>2. CASE /\ probes' = [probes EXCEPT ![i].waiting = @ \ {h}, ![i].refused = @ \/ told]
               /\ UNCHANGED <<isStopped, isPinging, loop>>
      <4>1. probes[1].waiting = waiting /\ probes[1].refused = refused
        BY <2>2 DEF ProbeOf
      <4>2. probes' = <<ProbeOf(for, target, stage, waiting \ {h}, refused \/ told)>>
        <5>1. probes' = [probes EXCEPT ![1] =
                [[probes[1] EXCEPT !.waiting = waiting \ {h}] EXCEPT !.refused = refused \/ told]]
          BY <2>3, <3>2, <4>1
        <5>2. [probes[1] EXCEPT !.waiting = waiting \ {h}]
                = ProbeOf(for, target, stage, waiting \ {h}, refused)
          BY <2>2 DEF ProbeOf
        <5>3. [ProbeOf(for, target, stage, waiting \ {h}, refused)
                 EXCEPT !.refused = refused \/ told]
                = ProbeOf(for, target, stage, waiting \ {h}, refused \/ told)
          BY DEF ProbeOf
        <5>4. probes' = [probes EXCEPT ![1] =
                           ProbeOf(for, target, stage, waiting \ {h}, refused \/ told)]
          BY <5>1, <5>2, <5>3
        <5> QED BY <2>2, <5>4
      <4> QED BY <2>2, <3>2, <4>2, GoesOnKeeps
    <3> QED BY <2>6, <3>1, <3>2 DEF HelperFailed
  <2> QED BY <1>probe, <2>4, <2>5, <2>6 DEF ProbeStep
<1>list. ASSUME NEW m \in Others, Enter(m) \/ ChangeStatus(m) \/ Evict(m) PROVE GossipIInv'
  BY <1>list, <1>same DEF Enter, ChangeStatus, Evict, ListChanges
<1>stutter. CASE UNCHANGED gossipVars
  BY <1>stutter, <1>same DEF gossipVars
<1> QED
  BY <1>start, <1>stop, <1>ready, <1>period, <1>admin, <1>probe, <1>list, <1>stutter DEF GossipNext

\* In every reachable state.
THEOREM GossipInvariance == GossipSpec => []GossipIInv
  BY GossipInitIInv, GossipNextIInv, PTL DEF GossipSpec

\* However often gossip is started, stopped and ticked by hand
\* (lib/gossip/index.js), one probe is in flight at a time.
THEOREM OneProbeAtATime == GossipSpec => []OneProbe
<1>1. GossipIInv => OneProbe
  BY OneAtMost DEF GossipIInv
<1> QED BY <1>1, GossipInvariance, PTL

\* While gossip is started some loop exists: stop(), start() and ticks in
\* flight at any moment do not end the last one.
THEOREM LoopNeverEnds == GossipSpec => []LoopAlive
<1>1. GossipIInv => LoopAlive
  BY DEF GossipIInv
<1> QED BY <1>1, GossipInvariance, PTL

-----------------------------------------------------------------------------
(***************************************************************************)
(* The iterator, for every list and whatever of it is pingable.            *)
(***************************************************************************)

\* The lists of members in some order are those that name nobody twice.
LEMMA OrdersAre == ASSUME NEW s PROVE s \in Orders <=> s \in Seq(Members) /\ IsInjective(s)
<1>1. ASSUME s \in Orders PROVE s \in Seq(Members) /\ IsInjective(s)
  <2>1. PICK S \in SUBSET Members : s \in SetToSeqs(S)
    BY <1>1 DEF Orders, SetToAllKPermutations
  <2>2. Cardinality(S) \in Nat
    BY MembersAssumption, FS_Subset, FS_CardinalityType DEF MembersAssumption
  <2>3. s \in [1..Cardinality(S) -> S] /\ \A i, j \in 1..Cardinality(S) : i # j => s[i] # s[j]
    BY <2>1 DEF SetToSeqs
  <2> QED BY <2>2, <2>3 DEF IsInjective
<1>2. ASSUME s \in Seq(Members), IsInjective(s) PROVE s \in Orders
  <2> DEFINE n == Len(s)
  <2>1. n \in Nat /\ s \in [1..n -> ToSet(s)] /\ ToSet(s) \in SUBSET Members
    BY <1>2 DEF ToSet
  <2>2. s \in Surjection(1..n, ToSet(s)) /\ s \in Injection(1..n, ToSet(s))
    BY <1>2, <2>1 DEF Surjection, Injection, ToSet
  <2>3. IsFiniteSet(1..n) /\ Cardinality(1..n) = n
    BY <2>1, FS_Interval
  <2>4. Cardinality(ToSet(s)) = n
    BY <2>2, <2>3, FS_Surjection
  <2>5. s \in SetToSeqs(ToSet(s))
    BY <1>2, <2>1, <2>4 DEF SetToSeqs, IsInjective
  <2> QED BY <2>1, <2>5 DEF Orders, SetToAllKPermutations
<1> QED BY <1>1, <1>2

\* The least of some numbers.
LEMMA LeastOf ==
  ASSUME NEW S \in SUBSET Nat, S # {}
  PROVE  Min(S) \in S /\ \A k \in S : Min(S) <= k
<1>1. PICK n \in S : \A k \in S : ~(<<k, n>> \in OpToRel(<, Nat))
  BY NatLessThanWellFounded, WFMin
<1>2. \A k \in S : ~(k < n)
  BY <1>1 DEF OpToRel
<1>3. \A k \in S : n <= k
  BY <1>2
<1> QED BY <1>3 DEF Min

\* The first pingable member behind the index.
LEMMA FirstAhead ==
  ASSUME NEW i, IsIterator(i), NEW P, Ahead(i, P) # {},
         NEW n, n = Min(Ahead(i, P))
  PROVE  /\ n \in i.index + 1 .. Len(i.members) /\ i.members[n] \in P
         /\ \A k \in i.index + 1 .. n - 1 : i.members[k] \notin P
<1> USE DEF IsIterator
<1>1. i.members \in Seq(Members) /\ i.index \in Nat /\ Len(i.members) \in Nat
  BY OrdersAre
<1>2. Ahead(i, P) \in SUBSET Nat
  BY <1>1 DEF Ahead
<1>3. n \in Ahead(i, P) /\ \A k \in Ahead(i, P) : n <= k
  BY <1>2, LeastOf
<1>4. n \in i.index + 1 .. Len(i.members) /\ i.members[n] \in P
  BY <1>3 DEF Ahead
<1>5. ASSUME NEW k \in i.index + 1 .. n - 1, i.members[k] \in P PROVE FALSE
  <2>1. k \in i.index + 1 .. Len(i.members) /\ ~(n <= k)
    BY <1>1, <1>4
  <2> QED BY <1>3, <1>5, <2>1 DEF Ahead
<1> QED BY <1>4, <1>5

\* next() stops at a pingable member if there is one in the list, and passes
\* over none on its way, be it on in this round or into one that is shuffled;
\* the list names the same members (lib/membership/iterator.js).
THEOREM NextFinds ==
  ASSUME NEW i, IsIterator(i), NEW P,
         NEW r \in next(i, P)
  PROVE  /\ IsIterator(r)
         /\ ToSet(r.members) = ToSet(i.members)
         /\ i.members # <<>> => r.index \in 1..Len(r.members)
         /\ ToSet(i.members) \intersect P # {} => r.members[r.index] \in P
         /\ \/ r.members = i.members /\ \A k \in i.index + 1 .. r.index - 1 : i.members[k] \notin P
            \/ /\ \A k \in i.index + 1 .. Len(i.members) : i.members[k] \notin P
               /\ \A k \in 1 .. r.index - 1 : r.members[k] \notin P
<1> USE DEF IsIterator
<1> DEFINE seen == {i.members[k] : k \in i.index + 1 .. Len(i.members)}
<1>1. /\ i.members \in Seq(Members) /\ i.index \in Nat /\ Len(i.members) \in Nat
      /\ DOMAIN i.members = 1..Len(i.members)
  BY OrdersAre
<1>2. CASE Ahead(i, P) # {}
  <2>1. r = [i EXCEPT !.index = Min(Ahead(i, P))]
    BY <1>2 DEF next
  <2>2. /\ r.index \in i.index + 1 .. Len(i.members) /\ i.members[r.index] \in P
        /\ \A k \in i.index + 1 .. r.index - 1 : i.members[k] \notin P
    BY <1>2, <2>1, FirstAhead
  <2>3. r.members = i.members /\ IsIterator(r)
    BY <1>1, <2>1, <2>2
  <2> QED BY <1>1, <2>2, <2>3
<1>3. CASE Ahead(i, P) = {} /\ seen = ToSet(i.members)
  <2>1. r = [i EXCEPT !.index = Len(i.members)]
    BY <1>3 DEF next
  <2>2. ToSet(i.members) \intersect P = {}
    BY <1>3 DEF Ahead
  <2>3. i.members # <<>> => Len(i.members) # 0
    BY <1>1
  <2>4. \A k \in i.index + 1 .. Len(i.members) : i.members[k] \notin P
    BY <1>1, <1>3 DEF Ahead
  <2> QED BY <1>1, <2>1, <2>2, <2>3, <2>4
<1>4. CASE Ahead(i, P) = {} /\ seen # ToSet(i.members)
  <2>1. PICK round \in NewRounds(i) :
          r = [round EXCEPT !.index = IF Ahead(round, P) # {} THEN Min(Ahead(round, P))
                 ELSE Min({k \in 1..Len(round.members) : AllVisited(round, seen, k)})]
    BY <1>4 DEF next
  <2>2. /\ IsIterator(round) /\ round.index = 0
        /\ ToSet(round.members) = ToSet(i.members)
    BY DEF NewRounds, Shuffles
  <2>3. /\ round.members \in Seq(Members) /\ Len(round.members) \in Nat
        /\ DOMAIN round.members = 1..Len(round.members)
    BY <2>2, OrdersAre
  <2>0. \A k \in i.index + 1 .. Len(i.members) : i.members[k] \notin P
    BY <1>1, <1>4 DEF Ahead
  <2>7. seen \subseteq ToSet(i.members)
    BY <1>1 DEF ToSet
  <2>4. Len(round.members) # 0
    <3>1. PICK m \in ToSet(i.members) : m \notin seen
      BY <1>4, <2>7
    <3>2. m \in ToSet(round.members)
      BY <2>2, <3>1
    <3> QED BY <2>3, <3>2 DEF ToSet
  <2>5. CASE Ahead(round, P) # {}
    <3>1. r = [round EXCEPT !.index = Min(Ahead(round, P))]
      BY <2>1, <2>5
    <3>2. /\ r.index \in 1 .. Len(round.members) /\ round.members[r.index] \in P
          /\ \A k \in 1 .. r.index - 1 : round.members[k] \notin P
      BY <2>2, <2>5, <3>1, FirstAhead
    <3>3. r.members = round.members /\ IsIterator(r)
      BY <2>2, <2>3, <3>1, <3>2
    <3> QED BY <2>0, <2>2, <3>2, <3>3
  <2>6. CASE Ahead(round, P) = {}
    <3> DEFINE ends == {k \in 1..Len(round.members) : AllVisited(round, seen, k)}
    <3>0. \A k \in 1 .. Len(round.members) : round.members[k] \notin P
      BY <2>2, <2>3, <2>6 DEF Ahead
    <3>1. ToSet(round.members) \intersect P = {}
      BY <2>3, <3>0 DEF ToSet
    <3>2. SubSeq(round.members, 1, Len(round.members)) = round.members
      BY <2>3, SubSeqFull
    <3>3. AllVisited(round, seen, Len(round.members))
      BY <2>2, <2>7, <3>2 DEF AllVisited
    <3>4. Len(round.members) \in ends
      BY <2>3, <2>4, <3>3
    <3>5. ends \in SUBSET Nat
      OBVIOUS
    <3> HIDE DEF ends
    <3>6. Min(ends) \in ends
      BY <3>4, <3>5, LeastOf
    <3>7. Min(ends) \in 1..Len(round.members)
      BY <3>6 DEF ends
    <3>8. r = [round EXCEPT !.index = Min(ends)]
      BY <2>1, <2>6 DEF ends
    <3>9. r.members = round.members /\ r.index = Min(ends) /\ IsIterator(r)
      BY <2>2, <3>7, <3>8
    <3> QED BY <2>0, <2>2, <2>3, <3>0, <3>1, <3>7, <3>9
  <2> QED BY <2>5, <2>6
<1> QED BY <1>2, <1>3, <1>4

-----------------------------------------------------------------------------
(***************************************************************************)
(* Types. The number of timers that protocolPeriodTimer has lost is        *)
(* bounded, because every loop, whether it runs on a timer or waits for    *)
(* its probe, was begun by a start of its own. Targets are Others, because *)
(* the iterator stops only at pingable members.                            *)
(***************************************************************************)

SetTimers(l) == l.others + IF l.handle = "set" THEN 1 ELSE 0

InFlight == IF \E i \in DOMAIN probes : probes[i].for = "loop" THEN 1 ELSE 0

\* Every loop was begun by a start.
LoopsCounted == SetTimers(loop) + InFlight <= starts

ListTyped ==
  /\ ready \in BOOLEAN /\ churn \in 0..MaxChurn
  /\ IsIterator(it)
  /\ pingable \subseteq ToSet(it.members) \ {Local}
  /\ ~ready => it.members = <<Local>>

ProbesTyped ==
  /\ \A i \in DOMAIN probes : probes[i] \in Probes
  /\ verdict \in {"none", "reached", "suspect", "inconclusive"}

LoopsTyped == LoopsCounted /\ starts \in 0..MaxStarts

\* Orders by their elements.
LEMMA OrderOf ==
  ASSUME NEW s \in Orders
  PROVE  /\ s \in Seq(Members) /\ IsInjective(s) /\ Len(s) \in Nat /\ DOMAIN s = 1..Len(s)
         /\ ToSet(s) \in SUBSET Members
  BY OrdersAre DEF ToSet

\* A member that joins, at whatever position.
LEMMA JoinedIsOrder ==
  ASSUME NEW s \in Orders, NEW m \in Members \ ToSet(s), NEW p \in 1..Len(s)
  PROVE  /\ InsertAt(s, p, m) \in Orders
         /\ ToSet(InsertAt(s, p, m)) = ToSet(s) \union {m}
<1> DEFINE r == InsertAt(s, p, m)
<1>1. /\ s \in Seq(Members) /\ Len(s) \in Nat /\ DOMAIN s = 1..Len(s)
      /\ \A j, k \in 1..Len(s) : s[j] = s[k] => j = k
      /\ \A j \in 1..Len(s) : s[j] # m
  BY OrderOf DEF ToSet, IsInjective
<1>2. /\ r \in Seq(Members) /\ Len(r) = Len(s) + 1 /\ DOMAIN r = 1..Len(s) + 1
      /\ \A j \in 1..Len(s) + 1 :
           r[j] = IF j < p THEN s[j] ELSE IF j = p THEN m ELSE s[j - 1]
  BY <1>1 DEF InsertAt
<1> HIDE DEF r
<1>3. \A j, k \in 1..Len(s) + 1 : r[j] = r[k] => j = k
  <2> SUFFICES ASSUME NEW j \in 1..Len(s) + 1, NEW k \in 1..Len(s) + 1, r[j] = r[k], j < k
               PROVE  FALSE
    BY <1>1
  <2>1. CASE k < p
    BY <1>1, <1>2, <2>1
  <2>2. CASE k = p
    BY <1>1, <1>2, <2>2
  <2>3. CASE k > p /\ j < p
    <3>1. r[k] = s[k - 1] /\ r[j] = s[j] /\ k - 1 # j /\ k - 1 \in 1..Len(s) /\ j \in 1..Len(s)
      BY <1>1, <1>2, <2>3
    <3> QED BY <1>1, <3>1
  <2>4. CASE k > p /\ j = p
    BY <1>1, <1>2, <2>4
  <2>5. CASE k > p /\ j > p
    <3>1. r[k] = s[k - 1] /\ r[j] = s[j - 1] /\ k - 1 # j - 1
      BY <1>1, <1>2, <2>5
    <3>2. k - 1 \in 1..Len(s) /\ j - 1 \in 1..Len(s)
      BY <1>1, <2>5
    <3> QED BY <1>1, <3>1, <3>2
  <2> QED BY <1>1, <2>1, <2>2, <2>3, <2>4, <2>5
<1>4. r \in Orders
  BY <1>2, <1>3, OrdersAre DEF IsInjective
<1>5. ASSUME NEW j \in 1..Len(s) PROVE s[j] \in ToSet(r)
  <2>1. CASE j < p
    BY <1>1, <1>2, <2>1 DEF ToSet
  <2>2. CASE j >= p
    <3>1. j + 1 \in 1..Len(s) + 1 /\ r[j + 1] = s[j]
      BY <1>1, <1>2, <2>2
    <3> QED BY <1>2, <3>1 DEF ToSet
  <2> QED BY <2>1, <2>2
<1>6. m \in ToSet(r)
  BY <1>1, <1>2 DEF ToSet
<1>7. ASSUME NEW j \in 1..Len(s) + 1 PROVE r[j] \in ToSet(s) \union {m}
  <2>1. CASE j < p
    BY <1>1, <1>2, <2>1 DEF ToSet
  <2>2. CASE j = p
    BY <1>2, <2>2
  <2>3. CASE j > p
    <3>1. r[j] = s[j - 1] /\ j - 1 \in 1..Len(s)
      BY <1>1, <1>2, <2>3
    <3> QED BY <1>1, <3>1 DEF ToSet
  <2> QED BY <1>1, <2>1, <2>2, <2>3
<1>8. ToSet(r) = ToSet(s) \union {m}
  BY <1>1, <1>2, <1>5, <1>6, <1>7 DEF ToSet
<1> QED BY <1>4, <1>8 DEF r

\* A member that is evicted.
LEMMA EvictedIsOrder ==
  ASSUME NEW s \in Orders, NEW m \in ToSet(s)
  PROVE  /\ RemoveFirst(s, m) \in Orders
         /\ ToSet(RemoveFirst(s, m)) = ToSet(s) \ {m}
<1>1. /\ s \in Seq(Members) /\ Len(s) \in Nat /\ DOMAIN s = 1..Len(s)
      /\ \A j, k \in 1..Len(s) : s[j] = s[k] => j = k
  BY OrderOf DEF IsInjective
<1>2. PICK p \in 1..Len(s) : s[p] = m
  BY <1>1 DEF ToSet
<1> DEFINE r == RemoveAt(s, p)
<1>3. RemoveFirst(s, m) = r
  <2>1. {j \in 1..Len(s) : s[j] = m} = {p}
    BY <1>1, <1>2
  <2>2. Min({p}) = p
    <3>1. {p} \in SUBSET Nat /\ {p} # {}
      BY <1>1
    <3>2. Min({p}) \in {p}
      BY <3>1, LeastOf
    <3> QED BY <3>2
  <2> QED BY <1>2, <2>1, <2>2 DEF RemoveFirst, SelectInSeq
<1>4. /\ r \in Seq(Members) /\ Len(r) = Len(s) - 1 /\ DOMAIN r = 1..Len(s) - 1
      /\ \A j \in 1..Len(s) - 1 : r[j] = IF j < p THEN s[j] ELSE s[j + 1]
  <2> DEFINE front == SubSeq(s, 1, p - 1)  back == SubSeq(s, p + 1, Len(s))
  <2>1. /\ front \in Seq(Members) /\ Len(front) = p - 1
        /\ \A j \in 1..p - 1 : front[j] = s[j]
    BY <1>1
  <2>2. /\ back \in Seq(Members) /\ Len(back) = Len(s) - p
        /\ \A j \in 1..Len(s) - p : back[j] = s[p + j]
    <3>1. \A j \in p + 1 .. Len(s) : s[j] \in Members
      BY <1>1
    <3>2. /\ back \in Seq(Members)
          /\ Len(back) = IF p + 1 <= Len(s) THEN Len(s) - (p + 1) + 1 ELSE 0
          /\ \A j \in 1 .. Len(s) - (p + 1) + 1 : back[j] = s[p + 1 + j - 1]
      BY <1>1, <3>1, SubSeqProperties
    <3> HIDE DEF back
    <3>n. \A n \in Nat : \A q \in 1..n :
            n - (q + 1) + 1 = n - q /\ (~(q + 1 <= n) => n - q = 0)
      OBVIOUS
    <3>3. Len(s) - (p + 1) + 1 = Len(s) - p /\ (~(p + 1 <= Len(s)) => Len(s) - p = 0)
      BY <1>1, <3>n
    <3>4. \A j \in 1 .. Len(s) - p : p + 1 + j - 1 = p + j
      BY <1>1
    <3>5. Len(back) = Len(s) - p
      BY <3>2, <3>3
    <3> QED BY <3>2, <3>3, <3>4, <3>5
  <2> HIDE DEF front, back
  <2>3. /\ front \o back \in Seq(Members) /\ Len(front \o back) = Len(s) - 1
        /\ \A j \in 1..Len(s) - 1 :
             (front \o back)[j] = IF j <= p - 1 THEN front[j] ELSE back[j - (p - 1)]
    <3>1. p - 1 + (Len(s) - p) = Len(s) - 1
      BY <1>1
    <3>2. /\ front \o back \in Seq(Members) /\ Len(front \o back) = Len(front) + Len(back)
          /\ \A j \in 1..Len(front) + Len(back) :
               (front \o back)[j] = IF j <= Len(front) THEN front[j] ELSE back[j - Len(front)]
      BY <2>1, <2>2, ConcatProperties
    <3>3. Len(front) = p - 1 /\ Len(front) + Len(back) = Len(s) - 1
      BY <2>1, <2>2, <3>1
    <3> QED BY <3>2, <3>3
  <2>4. ASSUME NEW j \in 1..Len(s) - 1, ~(j < p)
        PROVE  back[j - (p - 1)] = s[j + 1]
    <3>1. j - (p - 1) \in 1..Len(s) - p /\ p + (j - (p - 1)) = j + 1
      BY <1>1, <2>4
    <3> QED BY <2>2, <3>1
  <2>5. r = front \o back
    BY DEF RemoveAt, front, back
  <2>6. ASSUME NEW j \in 1..Len(s) - 1
        PROVE  r[j] = IF j < p THEN s[j] ELSE s[j + 1]
    BY <1>1, <2>1, <2>3, <2>4, <2>5
  <2>7. r \in Seq(Members) /\ Len(r) = Len(s) - 1
    BY <2>3, <2>5
  <2>8. DOMAIN r = 1..Len(s) - 1
    BY <2>7
  <2> QED BY <2>6, <2>7, <2>8
<1> HIDE DEF r
<1>5. \A j, k \in 1..Len(s) - 1 : r[j] = r[k] => j = k
  <2> SUFFICES ASSUME NEW j \in 1..Len(s) - 1, NEW k \in 1..Len(s) - 1, r[j] = r[k], j < k
               PROVE  FALSE
    BY <1>1
  <2>1. CASE k < p
    BY <1>1, <1>4, <2>1
  <2>2. CASE k >= p /\ j < p
    <3>1. r[k] = s[k + 1] /\ r[j] = s[j] /\ k + 1 # j /\ k + 1 \in 1..Len(s) /\ j \in 1..Len(s)
      BY <1>1, <1>4, <2>2
    <3> QED BY <1>1, <3>1
  <2>3. CASE k >= p /\ j >= p
    <3>1. r[k] = s[k + 1] /\ r[j] = s[j + 1] /\ k + 1 # j + 1
      BY <1>1, <1>4, <2>3
    <3>2. k + 1 \in 1..Len(s) /\ j + 1 \in 1..Len(s)
      BY <1>1, <2>3
    <3> QED BY <1>1, <3>1, <3>2
  <2> QED BY <1>1, <2>1, <2>2, <2>3
<1>6. r \in Orders
  BY <1>4, <1>5, OrdersAre DEF IsInjective
<1>7. ASSUME NEW j \in 1..Len(s), j # p PROVE s[j] \in ToSet(r)
  <2>1. CASE j < p
    BY <1>1, <1>4, <2>1 DEF ToSet
  <2>2. CASE j > p
    <3>1. j - 1 \in 1..Len(s) - 1 /\ r[j - 1] = s[j]
      BY <1>1, <1>4, <2>2
    <3> QED BY <1>4, <3>1 DEF ToSet
  <2> QED BY <1>1, <1>7, <2>1, <2>2
<1>8. ASSUME NEW j \in 1..Len(s) - 1 PROVE r[j] \in ToSet(s) \ {m}
  <2>1. CASE j < p
    BY <1>1, <1>2, <1>4, <2>1 DEF ToSet
  <2>2. CASE ~(j < p)
    <3>1. j + 1 \in 1..Len(s) /\ j + 1 # p /\ r[j] = s[j + 1]
      BY <1>1, <1>4, <2>2
    <3> QED BY <1>1, <1>2, <3>1 DEF ToSet
  <2> QED BY <2>1, <2>2
<1>9. ToSet(r) \subseteq ToSet(s) \ {m}
  BY <1>4, <1>8 DEF ToSet
<1>10. ToSet(s) \ {m} \subseteq ToSet(r)
  BY <1>1, <1>2, <1>7 DEF ToSet
<1> QED BY <1>3, <1>6, <1>9, <1>10

\* The list and the iterator in it stay well formed, with pingable members in
\* the list.
LEMMA NextListTyped == ListTyped /\ [GossipNext]_gossipVars => ListTyped'
<1> SUFFICES ASSUME ListTyped, [GossipNext]_gossipVars PROVE ListTyped'
  OBVIOUS
<1>same. ASSUME UNCHANGED <<ready, list>> PROVE ListTyped'
  BY <1>same DEF ListTyped, list
<1>i. it.members \in Orders /\ it.index \in Nat /\ IsIterator(it)
  BY DEF ListTyped, IsIterator
<1>start. CASE Start
  <2>1. PICK shuffled \in Shuffles(it) : it' = [it EXCEPT !.members = shuffled]
    BY <1>start DEF Start
  <2>2. UNCHANGED <<ready, pingable, churn>>
    BY <1>start DEF Start
  <2>5. it.members = <<Local>> => shuffled = <<Local>>
    <3> SUFFICES ASSUME it.members = <<Local>> PROVE shuffled = <<Local>>
      OBVIOUS
    <3>1. /\ shuffled \in Seq(Members) /\ Len(shuffled) \in Nat /\ DOMAIN shuffled = 1..Len(shuffled)
          /\ \A j, k \in 1..Len(shuffled) : shuffled[j] = shuffled[k] => j = k
      BY <2>1, OrderOf DEF Shuffles, IsInjective
    <3>2. ToSet(shuffled) = {Local}
      BY <2>1 DEF Shuffles, ToSet
    <3>3. \A j \in 1..Len(shuffled) : shuffled[j] = Local
      BY <3>1, <3>2 DEF ToSet
    <3>4. Len(shuffled) # 0
      BY <3>1, <3>2 DEF ToSet
    <3>5. Len(shuffled) = 1
      BY <3>1, <3>3, <3>4
    <3> QED BY <3>1, <3>3, <3>5
  <2>3. it'.members = shuffled /\ it'.index = it.index /\ it' \in [members : Orders, index : Nat]
    <3>1. it \in [members : Orders, index : Nat] /\ shuffled \in Orders
      BY <1>i, <2>1 DEF Shuffles, IsIterator
    <3> QED BY <2>1, <3>1
  <2>4. ToSet(it'.members) = ToSet(it.members)
    BY <2>1, <2>3 DEF Shuffles
  <2> QED BY <2>2, <2>3, <2>4, <2>5 DEF ListTyped, IsIterator
<1>stop. CASE Stop
  BY <1>stop, <1>same DEF Stop
<1>ready. CASE Ready
  <2>1. PICK others \in SetToAllKPermutations(Others) :
          it' = [it EXCEPT !.members = @ \o others] /\ pingable' \in SUBSET ToSet(others)
    BY <1>ready DEF Ready
  <2>2. PICK S \in SUBSET Others : others \in SetToSeqs(S)
    BY <2>1 DEF SetToAllKPermutations
  <2>3. Cardinality(S) \in Nat
    BY <2>2, MembersAssumption, FS_Subset, FS_CardinalityType DEF MembersAssumption, Others
  <2> DEFINE n == Cardinality(S)  r == <<Local>> \o others
  <2>4. others \in [1..n -> S] /\ \A j, k \in 1..n : j # k => others[j] # others[k]
    BY <2>2 DEF SetToSeqs
  <2>5. /\ others \in Seq(Members) /\ Len(others) = n /\ <<Local>> \in Seq(Members)
        /\ \A j \in 1..n : others[j] # Local
    BY <2>2, <2>3, <2>4, GossipAssumption DEF GossipAssumption, Others
  <2>6. /\ r \in Seq(Members) /\ Len(r) = n + 1 /\ r[1] = Local
        /\ \A j \in 2..n + 1 : r[j] = others[j - 1]
    BY <2>3, <2>5
  <2> HIDE DEF n, r
  <2>7. DOMAIN r = 1..n + 1
    BY <2>6
  <2>8. \A j \in 2..n + 1 : j - 1 \in 1..n
    BY <2>3 DEF n
  <2>9. IsInjective(r)
    <3> SUFFICES ASSUME NEW j \in 1..n + 1, NEW k \in 1..n + 1, r[j] = r[k], j # k PROVE FALSE
      BY <2>7 DEF IsInjective
    <3>1. CASE j = 1 \/ k = 1
      BY <2>3, <2>5, <2>6, <2>8, <3>1 DEF n
    <3>2. CASE j # 1 /\ k # 1
      <4>1. j \in 2..n + 1 /\ k \in 2..n + 1 /\ j - 1 # k - 1
        BY <2>3, <3>2 DEF n
      <4> QED BY <2>4, <2>6, <2>8, <4>1 DEF n
    <3> QED BY <3>1, <3>2
  <2>10. r \in Orders
    BY <2>6, <2>9, OrdersAre
  <2>11. ToSet(others) \subseteq ToSet(r) \ {Local}
    <3>1. ASSUME NEW j \in 1..n PROVE others[j] \in ToSet(r)
      <4>1. j + 1 \in 2..n + 1 /\ r[j + 1] = others[j]
        BY <2>3, <2>6 DEF n
      <4> QED BY <2>3, <2>7, <4>1 DEF n, ToSet
    <3> QED BY <2>4, <2>5, <3>1 DEF n, ToSet
  <2>12. it'.members = r /\ IsIterator(it')
    BY <1>i, <1>ready, <2>1, <2>10 DEF Ready, ListTyped, IsIterator, r
  <2>13. ready' = TRUE /\ churn' = churn
    BY <1>ready DEF Ready
  <2> QED BY <2>1, <2>11, <2>12, <2>13 DEF ListTyped
<1>next. ASSUME it' \in next(it, pingable), ready, UNCHANGED <<ready, pingable, churn>>
         PROVE  ListTyped'
  <2>1. IsIterator(it') /\ ToSet(it'.members) = ToSet(it.members)
    BY <1>i, <1>next, NextFinds
  <2> QED BY <1>next, <2>1 DEF ListTyped
<1>vain. ASSUME NEW for, NEW l, TickInVain(for, l) PROVE ListTyped'
  BY <1>vain, <1>next, <1>same DEF TickInVain, MayPing, list
<1>ping. ASSUME NEW for, NEW l, TickPings(for, l) PROVE ListTyped'
  BY <1>ping, <1>next DEF TickPings, MayPing
<1>tick. CASE PeriodPings \/ PeriodInVain \/ AdminTick
  BY <1>tick, <1>vain, <1>ping DEF PeriodPings, PeriodInVain, AdminTick
<1>probe. ASSUME NEW i \in DOMAIN probes, ProbeStep(i) PROVE ListTyped'
  <2>1. ready' = ready /\ UNCHANGED list
    BY <1>probe DEF ProbeStep, PingAnswered, PingFailed, HelperReached, HelperFailed, End
  <2> QED BY <2>1, <1>same
<1>list. ASSUME NEW m \in Others, Enter(m) \/ ChangeStatus(m) \/ Evict(m) PROVE ListTyped'
  <2>1. m \in Members /\ m # Local
    BY DEF Others
  <2>2. ready' = ready /\ ready /\ churn' \in 0..MaxChurn
    BY <1>list, GossipAssumption
    DEF Enter, ChangeStatus, Evict, ListChanges, ListTyped, GossipAssumption
  <2>3. CASE Enter(m)
    <3>1. PICK p \in 1..Len(it.members) : it' = Joined(it, m, p)
      BY <2>3 DEF Enter
    <3>2. m \in Members \ ToSet(it.members) /\ pingable' \subseteq pingable \union {m}
      BY <2>1, <2>3 DEF Enter
    <3>3. it'.members = InsertAt(it.members, p, m) /\ it' = [it EXCEPT !.members = it'.members]
      BY <1>i, <3>1 DEF Joined, IsIterator
    <3>4. IsIterator(it') /\ ToSet(it'.members) = ToSet(it.members) \union {m}
      BY <1>i, <3>2, <3>3, JoinedIsOrder DEF IsIterator
    <3> QED BY <2>1, <2>2, <3>2, <3>4 DEF ListTyped
  <2>4. CASE ChangeStatus(m)
    BY <2>1, <2>2, <2>4 DEF ChangeStatus, SymDiff, ListTyped
  <2>5. CASE Evict(m)
    <3>1. m \in ToSet(it.members) /\ m \notin pingable /\ it' = Evicted(it, m) /\ pingable' = pingable
      BY <2>5 DEF Evict
    <3>2. it'.members = RemoveFirst(it.members, m) /\ it' = [it EXCEPT !.members = it'.members]
      BY <1>i, <3>1 DEF Evicted, IsIterator
    <3>3. IsIterator(it') /\ ToSet(it'.members) = ToSet(it.members) \ {m}
      BY <1>i, <3>1, <3>2, EvictedIsOrder DEF IsIterator
    <3> QED BY <2>2, <3>1, <3>3 DEF ListTyped
  <2> QED BY <1>list, <2>3, <2>4, <2>5
<1>stutter. CASE UNCHANGED gossipVars
  BY <1>stutter, <1>same DEF gossipVars, list
<1> QED
  BY <1>start, <1>stop, <1>ready, <1>tick, <1>probe, <1>list, <1>stutter DEF GossipNext

\* Probes stay well formed: the target was pingable when it was chosen, and
\* so were the helpers.
LEMMA NextProbesTyped ==
  GossipIInv /\ ListTyped /\ ProbesTyped /\ [GossipNext]_gossipVars => ProbesTyped'
<1> SUFFICES ASSUME GossipIInv, ListTyped, ProbesTyped, [GossipNext]_gossipVars PROVE ProbesTyped'
  OBVIOUS
<1>same. ASSUME UNCHANGED <<probes, verdict>> PROVE ProbesTyped'
  BY <1>same DEF ProbesTyped
<1>p. pingable \subseteq Others
  <2>1. ToSet(it.members) \in SUBSET Members
    BY OrderOf DEF ListTyped, IsIterator
  <2> QED BY <2>1 DEF ListTyped, Others
<1>ping. ASSUME NEW for \in {"loop", "admin"}, NEW l, TickPings(for, l) PROVE ProbesTyped'
  <2> DEFINE p == [for |-> for, target |-> Target(it'), stage |-> "ping", waiting |-> {}, refused |-> FALSE]
  <2>1. probes = <<>> /\ probes' = Append(probes, p) /\ verdict' = "none"
    BY <1>ping DEF TickPings, MayPing, GossipIInv, ProbeSlot
  <2>2. Target(it') \in Others
    BY <1>ping, <1>p DEF TickPings
  <2>3. p \in Probes
    BY <2>2 DEF Probes
  <2> HIDE DEF p
  <2>4. probes' = <<p>>
    BY <2>1
  <2> QED BY <2>1, <2>3, <2>4 DEF ProbesTyped
<1>tick. CASE PeriodPings \/ PeriodInVain \/ AdminTick
  BY <1>tick, <1>ping, <1>same DEF PeriodPings, PeriodInVain, AdminTick, TickInVain
<1>probe. ASSUME NEW i \in DOMAIN probes, ProbeStep(i) PROVE ProbesTyped'
  <2>1. PICK p : probes = <<p>>
    BY DEF GossipIInv, ProbeSlot
  <2>2. i = 1 /\ p \in Probes
    BY <2>1 DEF ProbesTyped
  <2>3. ASSUME NEW outcome \in {"reached", "suspect", "inconclusive"}, End(i, outcome) PROVE ProbesTyped'
    <3>1. probes' = <<>> /\ verdict' = outcome
      BY <2>1, <2>2, <2>3, RemoveOnly DEF End
    <3> QED BY <3>1 DEF ProbesTyped
  <2>4. ASSUME NEW asked \in Helpers(probes[i].target),
               probes' = [probes EXCEPT ![i].stage = "ping-req", ![i].waiting = asked],
               verdict' = verdict
        PROVE  ProbesTyped'
    <3>1. asked \in SUBSET Others
      BY <1>p DEF Helpers, kSubset
    <3>2. DOMAIN probes' = {1} /\ probes'[1] = [p EXCEPT !.stage = "ping-req", !.waiting = asked]
      BY <2>1, <2>2, <2>4
    <3>3. probes'[1] \in Probes
      BY <2>2, <3>1, <3>2 DEF Probes
    <3> QED BY <2>4, <3>2, <3>3 DEF ProbesTyped
  <2>5. ASSUME NEW h \in Others, NEW told \in BOOLEAN,
               probes' = [probes EXCEPT ![i].waiting = @ \ {h}, ![i].refused = @ \/ told],
               verdict' = verdict
        PROVE  ProbesTyped'
    <3>1. DOMAIN probes' = {1}
          /\ probes'[1] = [p EXCEPT !.waiting = p.waiting \ {h}, !.refused = p.refused \/ told]
      BY <2>1, <2>2, <2>5
    <3>2. p.waiting \ {h} \in SUBSET Others /\ (p.refused \/ told) \in BOOLEAN
      BY <2>2 DEF Probes
    <3>3. probes'[1] \in Probes
      BY <2>2, <3>1, <3>2 DEF Probes
    <3> QED BY <2>5, <3>1, <3>3 DEF ProbesTyped
  <2>6. CASE PingAnswered(i) \/ HelperReached(i)
    BY <2>3, <2>6 DEF PingAnswered, HelperReached
  <2>7. CASE PingFailed(i)
    BY <2>3, <2>4, <2>7 DEF PingFailed
  <2>8. ASSUME NEW h \in Others, NEW told \in BOOLEAN, HelperFailed(i, h, told) PROVE ProbesTyped'
    <3>1. CASE probes[i].waiting = {h}
      BY <2>3, <2>8, <3>1 DEF HelperFailed
    <3>2. CASE probes[i].waiting # {h}
      BY <2>5, <2>8, <3>2 DEF HelperFailed
    <3> QED BY <3>1, <3>2
  <2> QED BY <1>probe, <2>6, <2>7, <2>8 DEF ProbeStep
<1>rest. CASE \/ Start \/ Stop \/ Ready \/ UNCHANGED gossipVars
              \/ \E m \in Others : Enter(m) \/ ChangeStatus(m) \/ Evict(m)
  BY <1>rest, <1>same
  DEF Start, Stop, Ready, gossipVars, Enter, ChangeStatus, Evict, ListChanges
<1> QED BY <1>tick, <1>probe, <1>rest DEF GossipNext

\* What the loop's own steps do to the number of timers.
LEMMA TimersCount ==
  ASSUME LoopTyped
  PROVE  /\ SetTimers(loop) \in Nat /\ loop.others <= SetTimers(loop)
         /\ \A l \in [handle : {"null", "set", "ran"}, others : Nat] :
              SetTimers(l) \in Nat /\ SetTimers(Run(l)) = SetTimers(l) + 1
         /\ \A l : Due(l) => SetTimers(l) = SetTimers(loop) - 1
  BY DEF LoopTyped, SetTimers, Run, Due

\* Each step leaves at most as many loops as there were starts.
LEMMA NextLoopsTyped ==
  GossipIInv /\ LoopsTyped /\ [GossipNext]_gossipVars => LoopsTyped'
<1> SUFFICES ASSUME GossipIInv, LoopsTyped, [GossipNext]_gossipVars PROVE LoopsTyped'
  OBVIOUS
<1> USE TimersCount
<1>t. LoopTyped /\ starts \in Nat /\ InFlight \in 0..1
  BY GossipAssumption DEF GossipIInv, LoopsTyped, InFlight, GossipAssumption
<1>same. ASSUME UNCHANGED <<loop, probes, starts>> PROVE LoopsTyped'
  BY <1>same DEF LoopsTyped, LoopsCounted, InFlight
<1>start. CASE Start
  <2>1. starts' = starts + 1 /\ starts < MaxStarts /\ loop' = Run(loop) /\ InFlight' = InFlight
    BY <1>start DEF Start, InFlight
  <2>2. SetTimers(loop') = SetTimers(loop) + 1
    BY <1>t, <2>1 DEF LoopTyped
  <2> QED BY <1>t, <2>1, <2>2, GossipAssumption DEF LoopsTyped, LoopsCounted, GossipAssumption
<1>stop. CASE Stop
  <2>1. starts' = starts /\ loop' = [loop EXCEPT !.handle = "null"] /\ InFlight' = InFlight
    BY <1>stop DEF Stop, InFlight
  <2>2. SetTimers(loop') <= SetTimers(loop) /\ SetTimers(loop') \in Nat
    BY <1>t, <2>1 DEF SetTimers, LoopTyped
  <2> QED BY <1>t, <2>1, <2>2 DEF LoopsTyped, LoopsCounted
<1>vain. ASSUME NEW for, NEW l \in [handle : {"null", "set", "ran"}, others : Nat],
                (l = loop /\ for = "admin") \/ Due(l), TickInVain(for, l)
         PROVE  LoopsTyped'
  <2>1. starts' = starts /\ loop' = Callback(for, l) /\ InFlight' = InFlight
    BY <1>vain DEF TickInVain, InFlight
  <2>2. SetTimers(loop') <= SetTimers(loop) /\ SetTimers(loop') \in Nat
    BY <1>t, <1>vain, <2>1 DEF Callback
  <2> QED BY <1>t, <2>1, <2>2 DEF LoopsTyped, LoopsCounted
<1>ping. ASSUME NEW for \in {"loop", "admin"},
                NEW l \in [handle : {"null", "set", "ran"}, others : Nat],
                (l = loop /\ for = "admin") \/ Due(l), TickPings(for, l)
         PROVE  LoopsTyped'
  <2>1. probes = <<>> /\ starts' = starts /\ loop' = l
    BY <1>ping DEF TickPings, MayPing, GossipIInv, ProbeSlot
  <2>2. probes' = <<ProbeOf(for, Target(it'), "ping", {}, FALSE)>>
    BY <1>ping, <2>1 DEF TickPings, ProbeOf
  <2>3. InFlight = 0
    BY <2>1 DEF InFlight
  <2>4. InFlight' \in 0..1 /\ (for = "admin" => InFlight' = 0)
    BY <2>2 DEF InFlight, ProbeOf
  <2>5. SetTimers(l) + InFlight' <= SetTimers(loop) /\ SetTimers(l) \in Nat
    BY <1>t, <1>ping, <2>4
  <2>6. SetTimers(loop) <= starts /\ SetTimers(loop) \in Nat
    BY <1>t, <2>3 DEF LoopsTyped, LoopsCounted
  <2>7. SetTimers(loop') + InFlight' <= starts'
    BY <1>t, <2>1, <2>4, <2>5, <2>6
  <2> QED BY <2>1, <2>7 DEF LoopsTyped, LoopsCounted
<1>period. CASE PeriodPings \/ PeriodInVain
  BY <1>period, <1>vain, <1>ping, <1>t, DueTyped DEF PeriodPings, PeriodInVain
<1>admin. CASE AdminTick
  BY <1>admin, <1>vain, <1>ping, <1>t DEF AdminTick, LoopTyped
<1>probe. ASSUME NEW i \in DOMAIN probes, ProbeStep(i) PROVE LoopsTyped'
  <2>1. PICK p : probes = <<p>>
    BY DEF GossipIInv, ProbeSlot
  <2>2. i = 1
    BY <2>1
  <2>3. ASSUME NEW outcome, End(i, outcome) PROVE LoopsTyped'
    <3>1. probes' = <<>> /\ loop' = Callback(p.for, loop) /\ starts' = starts
      BY <2>1, <2>2, <2>3, RemoveOnly DEF End
    <3>2. InFlight = (IF p.for = "loop" THEN 1 ELSE 0) /\ InFlight' = 0
      BY <2>1, <3>1 DEF InFlight
    <3>3. SetTimers(loop') <= SetTimers(loop) + InFlight /\ SetTimers(loop') \in Nat
      BY <1>t, <3>1, <3>2 DEF Callback, LoopTyped
    <3> QED BY <1>t, <3>1, <3>2, <3>3 DEF LoopsTyped, LoopsCounted
  <2>4. ASSUME DOMAIN probes' = DOMAIN probes, probes'[1].for = probes[1].for, UNCHANGED <<loop, starts>>
        PROVE  LoopsTyped'
    <3>1. InFlight' = InFlight
      BY <2>1, <2>4 DEF InFlight
    <3> QED BY <2>4, <3>1 DEF LoopsTyped, LoopsCounted
  <2>5. CASE PingAnswered(i) \/ HelperReached(i)
    BY <2>3, <2>5 DEF PingAnswered, HelperReached
  <2>6. CASE PingFailed(i)
    <3>1. CASE End(i, "suspect")
      BY <2>3, <3>1
    <3>2. ASSUME NEW asked,
                 probes' = [probes EXCEPT ![i].stage = "ping-req", ![i].waiting = asked],
                 UNCHANGED <<loop, starts>>
          PROVE  LoopsTyped'
      <4>1. DOMAIN probes' = DOMAIN probes /\ probes'[1] = [p EXCEPT !.stage = "ping-req", !.waiting = asked]
        BY <2>1, <2>2, <3>2
      <4>2. probes'[1].for = p.for
        BY <4>1
      <4> QED BY <2>1, <2>4, <3>2, <4>1, <4>2
    <3> QED BY <2>6, <3>1, <3>2 DEF PingFailed
  <2>7. ASSUME NEW h, NEW told, HelperFailed(i, h, told) PROVE LoopsTyped'
    <3>1. CASE \E outcome : End(i, outcome)
      BY <2>3, <3>1
    <3>2. CASE /\ probes' = [probes EXCEPT ![i].waiting = @ \ {h}, ![i].refused = @ \/ told]
               /\ UNCHANGED <<loop, starts>>
      <4>1. DOMAIN probes' = DOMAIN probes
            /\ probes'[1] = [p EXCEPT !.waiting = p.waiting \ {h}, !.refused = p.refused \/ told]
        BY <2>1, <2>2, <3>2
      <4>2. probes'[1].for = p.for
        BY <4>1
      <4> QED BY <2>1, <2>4, <3>2, <4>1, <4>2
    <3> QED BY <2>7, <3>1, <3>2 DEF HelperFailed
  <2> QED BY <1>probe, <2>5, <2>6, <2>7 DEF ProbeStep
<1>rest. CASE \/ Ready \/ UNCHANGED gossipVars
              \/ \E m \in Others : Enter(m) \/ ChangeStatus(m) \/ Evict(m)
  BY <1>rest, <1>same
  DEF Ready, gossipVars, Enter, ChangeStatus, Evict, ListChanges
<1> QED BY <1>start, <1>stop, <1>period, <1>admin, <1>probe, <1>rest DEF GossipNext

\* All types, in every reachable state.
LEMMA GossipTyped == GossipSpec => [](GossipIInv /\ ListTyped /\ ProbesTyped /\ LoopsTyped)
<1>1. GossipInit => ListTyped /\ ProbesTyped /\ LoopsTyped
  <2> SUFFICES ASSUME GossipInit PROVE ListTyped /\ ProbesTyped /\ LoopsTyped
    OBVIOUS
  <2>1. <<Local>> \in Orders
    <3>1. <<Local>> \in Seq(Members)
      BY GossipAssumption DEF GossipAssumption
    <3>2. IsInjective(<<Local>>)
      BY DEF IsInjective
    <3> QED BY <3>1, <3>2, OrdersAre
  <2>2. ListTyped
    <3>1. IsIterator(it) /\ it.members = <<Local>>
      BY <2>1 DEF GossipInit, IsIterator
    <3>2. ready \in BOOLEAN /\ pingable = {}
      BY DEF GossipInit
    <3>3. churn \in 0..MaxChurn
      BY GossipAssumption DEF GossipInit, GossipAssumption
    <3> QED BY <3>1, <3>2, <3>3 DEF ListTyped
  <2>3. ProbesTyped
    BY DEF GossipInit, ProbesTyped
  <2>4. LoopsTyped
    BY GossipAssumption DEF GossipInit, LoopsTyped, LoopsCounted, SetTimers, InFlight, GossipAssumption
  <2> QED BY <2>2, <2>3, <2>4
<1> QED BY <1>1, GossipInvariance, NextListTyped, NextProbesTyped, NextLoopsTyped, PTL DEF GossipSpec

\* The protocol period is well formed, its iterator walks a list that names
\* nobody twice while members come, go and are shuffled, and gossip never
\* has more timers that it lost hold of than it was started
\* (lib/gossip/index.js, lib/membership/iterator.js).
THEOREM GossipTypeCorrect == GossipSpec => []GossipTypeOK
<1>1. ASSUME GossipIInv, ListTyped, ProbesTyped, LoopsTyped PROVE GossipTypeOK
  <2>1. LoopTyped /\ starts \in Nat /\ InFlight \in 0..1 /\ starts <= MaxStarts
    BY <1>1, GossipAssumption DEF GossipIInv, LoopsTyped, InFlight, GossipAssumption
  <2>2. loop.others \in 0..MaxStarts
    BY <1>1, <2>1, TimersCount, GossipAssumption
    DEF LoopsTyped, LoopsCounted, LoopTyped, GossipAssumption
  <2>3. loop \in Loops
    BY <2>1, <2>2 DEF LoopTyped, Loops
  <2>4. probes \in Seq(Probes)
    <3>1. CASE probes = <<>>
      BY <3>1
    <3>2. CASE \E p : probes = <<p>>
      <4>1. PICK p : probes = <<p>>
        BY <3>2
      <4>2. p \in Probes
        BY <1>1, <4>1 DEF ProbesTyped
      <4> QED BY <4>1, <4>2
    <3> QED BY <1>1, <3>1, <3>2 DEF GossipIInv, ProbeSlot
  <2> QED BY <1>1, <2>1, <2>3, <2>4 DEF GossipTypeOK, ListTyped, ProbesTyped, LoopsTyped, LoopTyped
<1> QED BY <1>1, GossipTyped, PTL

\* Whoever ticks while a member may be pinged.
NobodyPassedOver ==
  MayPing /\ pingable # {} => \A for, l : ~TickInVain(for, l)

\* A tick that may ping does so as long as anybody in the list is pingable,
\* wherever evictions and newcomers have left the iterator's index: it gives
\* up only when it has seen them all (next() in lib/membership/iterator.js).
THEOREM NoTickInVain == GossipSpec => [][NobodyPassedOver]_gossipVars
<1>1. ASSUME ListTyped, MayPing, pingable # {}, NEW for, NEW l, TickInVain(for, l) PROVE FALSE
  <2>1. it' \in next(it, pingable) /\ Target(it') \notin pingable
    BY <1>1 DEF TickInVain
  <2>2. ToSet(it.members) \intersect pingable # {}
    BY <1>1 DEF ListTyped
  <2>3. it'.members[it'.index] \in pingable
    BY <1>1, <2>1, <2>2, NextFinds DEF ListTyped
  <2> QED BY <2>1, <2>3 DEF Target
<1>2. ListTyped /\ [GossipNext]_gossipVars => [NobodyPassedOver]_gossipVars
  BY <1>1 DEF NobodyPassedOver
<1> QED BY <1>2, GossipTyped, PTL DEF GossipSpec

-----------------------------------------------------------------------------
(***************************************************************************)
(* The cluster. That nobody is ahead of Subject is not inductive alone: a  *)
(* refutation must not move Subject's own incarnation back, and it does    *)
(* not because that is never ahead of the clock; and what timeouts write   *)
(* must be an entry, which is a matter of types.                           *)
(***************************************************************************)

\* Subject's incarnation is a past reading of the clock.
OwnInPast == own.inc <= clock

\* Who left has cleared all transitions, and schedules none.
LeftIdle == \A n \in Observers : life[n] = "left" => timer[n] = NoTimer

IInv == TypeOK /\ NoneAheadOfSubject /\ OwnInPast /\ LeftIdle

USE DEF Incarnation, Entry, Entries, Change, Absent

-----------------------------------------------------------------------------
(***************************************************************************)
(* Lemmas about hearing and refuting.                                      *)
(***************************************************************************)

\* An entry that is known, or pingable, is one a message can carry.
LEMMA KnownIsChange ==
  ASSUME NEW entry \in Entry
  PROVE  /\ Known(entry) => entry \in Change
         /\ isStatusPingable(entry.status) => entry \in Change
  BY DEF Known, isStatusPingable

\* What handleUpdate makes of a record: well formed, and at no later
\* incarnation than the record or the update.
LEMMA HandledTimer ==
  ASSUME NEW change \in Change, NEW base \in Timers(Incarnation), NEW last \in Nat,
         change.inc <= last, base.inc <= last, NEW active \in BOOLEAN
  PROVE  /\ handleUpdate(active, base, change) \in Timers(Incarnation)
         /\ handleUpdate(active, base, change).inc <= last
         /\ base = NoTimer => handleUpdate(FALSE, base, change) = NoTimer
<1>1. CASE change.status \in {"alive", "leave"}
  BY <1>1 DEF handleUpdate, NoTimer, Timers
<1>2. CASE change.status \in {"suspect", "faulty", "tombstone"}
  BY <1>2 DEF handleUpdate, schedule, NoTimer, Timers
<1> QED BY <1>1, <1>2 DEF Status

\* A timeout that has run leaves a well-formed record at the incarnation it had,
\* and one that is set has the incarnation of an entry.
LEMMA FiredTimer ==
  ASSUME NEW record \in Timers(Incarnation)
  PROVE  /\ Fired(record) \in Timers(Incarnation)
         /\ Fired(record).inc = record.inc
         /\ record.state # "none" => record.inc \in Incarnation
<1>1. CASE record = NoTimer
  <2>1. Fired(record) = NoTimer
    <3>1. NoTimer \in [state : {"none"}, inc : {0}, live : {FALSE}]
      BY DEF NoTimer
    <3>2. [NoTimer EXCEPT !.live = FALSE] \in [state : {"none"}, inc : {0}, live : {FALSE}]
      BY <3>1
    <3>3. [NoTimer EXCEPT !.live = FALSE] = NoTimer
      BY <3>1, <3>2
    <3> QED BY <1>1, <3>3 DEF Fired
  <2> QED BY <1>1, <2>1 DEF NoTimer
<1>2. CASE record \in [state : {"suspect", "faulty", "tombstone"}, inc : Incarnation, live : BOOLEAN]
  BY <1>2 DEF Fired, Timers
<1> QED BY <1>1, <1>2 DEF Timers

\* Learning in the terms of the observer's new entry and record; who left is
\* not changed by it.
LEMMA LearnIs ==
  ASSUME TypeOK, NEW n \in Observers, NEW change, NEW base, Learn(n, change, base)
  PROVE  /\ view' = [view EXCEPT ![n] = Heard(view[n], change)]
         /\ timer' = [timer EXCEPT ![n] =
              IF shouldProcessGossip(view[n], change)
              THEN handleUpdate(life[n] # "left", base, change) ELSE base]
         /\ life' \in [Observers -> {"member", "left", "back"}]
         /\ \A o \in Observers : life'[o] = "left" <=> life[o] = "left"
         /\ \A o \in Observers : o # n => life'[o] = life[o]
         /\ life'[n] = "member" => shouldProcessGossip(view[n], change) \/ life[n] = "member"
<1>1. n \notin Left <=> life[n] # "left"
  BY DEF Left
<1>2. life' = [life EXCEPT ![n] =
                 IF shouldProcessGossip(view[n], change) /\ life[n] = "back"
                 THEN "member" ELSE life[n]]
  BY DEF Learn
<1>3. life \in [Observers -> {"member", "left", "back"}]
  BY DEF TypeOK
<1> QED BY <1>1, <1>2, <1>3 DEF Learn

\* Whatever an observer is told that is not ahead of Subject, neither its
\* entry nor its record is ahead of Subject afterwards.
LEMMA LearnKeeps ==
  ASSUME IInv, NEW n \in Observers, NEW change \in Change, NEW base \in Timers(Incarnation),
         change.inc <= own.inc, base.inc <= own.inc,
         life[n] = "left" => base = NoTimer,
         Learn(n, change, base)
  PROVE  /\ view' \in [Observers -> Entry]
         /\ timer' \in [Observers -> Timers(Incarnation)]
         /\ \A o \in Observers : view'[o].inc <= own.inc /\ timer'[o].inc <= own.inc
         /\ LeftIdle'
<1> DEFINE active == life[n] # "left"
           record == IF shouldProcessGossip(view[n], change)
                     THEN handleUpdate(active, base, change) ELSE base
           entry == Heard(view[n], change)
<1>1. own.inc \in Nat
  BY BoundsAssumption DEF IInv, TypeOK
<1>2. record \in Timers(Incarnation) /\ record.inc <= own.inc
      /\ (life[n] = "left" => record = NoTimer)
  <2>1. active \in BOOLEAN /\ (life[n] = "left" => active = FALSE)
    OBVIOUS
  <2> HIDE DEF active
  <2> QED BY <1>1, <2>1, HandledTimer
<1>3. entry \in Entry /\ entry.inc <= own.inc
  BY DEF Heard, IInv, TypeOK, NoneAheadOfSubject
<1>4. /\ view' = [view EXCEPT ![n] = entry]
      /\ timer' = [timer EXCEPT ![n] = record]
      /\ \A o \in Observers : life'[o] = "left" <=> life[o] = "left"
  BY LearnIs DEF IInv
<1> HIDE DEF active, record, entry
<1>5. LeftIdle'
  BY <1>2, <1>4 DEF LeftIdle, IInv, TypeOK
<1> QED BY <1>2, <1>3, <1>4, <1>5 DEF IInv, TypeOK, NoneAheadOfSubject

\* A refutation moves Subject on, not past the clock.
LEMMA RefuteAdvances ==
  ASSUME IInv, NEW change, Refute(change)
  PROVE  own' \in Change /\ own.inc <= own'.inc /\ own'.inc <= clock
<1>1. own \in Change /\ own.inc <= clock /\ clock \in Incarnation
  BY DEF IInv, TypeOK, OwnInPast
<1>2. own' = [own EXCEPT !.inc = clock] \/ own' = own
  BY DEF Refute
<1> QED BY <1>1, <1>2, BoundsAssumption

\* An observer heard something, and all else stayed as it was.
LEMMA LearnPreserves ==
  ASSUME IInv, NEW n \in Observers, NEW change \in Change, NEW base \in Timers(Incarnation),
         change.inc <= own.inc, base.inc <= own.inc,
         life[n] = "left" => base = NoTimer,
         Learn(n, change, base),
         UNCHANGED <<clock, up, own, running>>,
         faults' \in 0..MaxFaults, late' \subseteq late
  PROVE  IInv'
<1>1. life' \in [Observers -> {"member", "left", "back"}]
  BY LearnIs DEF IInv
<1> QED BY <1>1, LearnKeeps DEF IInv, TypeOK, NoneAheadOfSubject, OwnInPast

\* Subject moved on, and who observes it stayed as they were.
LEMMA OwnAdvances ==
  ASSUME IInv, own' \in Change, own.inc <= own'.inc, own'.inc <= clock,
         UNCHANGED <<clock, running, life, view, timer>>,
         up' \in BOOLEAN, faults' \in 0..MaxFaults, late' \subseteq late
  PROVE  IInv'
<1>1. \A o \in Observers : view[o].inc \in Int /\ timer[o].inc \in Int
  BY BoundsAssumption DEF IInv, TypeOK, Timers, NoTimer
<1>2. \A m \in late : m.entry.inc \in Int
  BY BoundsAssumption DEF IInv, TypeOK
<1>3. own.inc \in Int /\ own'.inc \in Int
  BY BoundsAssumption DEF IInv, TypeOK
<1>4. NoneAheadOfSubject'
  BY <1>1, <1>2, <1>3 DEF IInv, NoneAheadOfSubject
<1> QED BY <1>4 DEF IInv, TypeOK, OwnInPast, LeftIdle

\* Faults are counted up to their bound.
LEMMA FaultCounted ==
  ASSUME TypeOK, Fault
  PROVE  faults' \in 0..MaxFaults
  BY BoundsAssumption DEF TypeOK, Fault

-----------------------------------------------------------------------------
(***************************************************************************)
(* The invariant.                                                          *)
(***************************************************************************)

\* The cluster starts with Subject alive and nobody who knows it.
LEMMA InitIInv == Init => IInv
  BY BoundsAssumption
     DEF Init, IInv, TypeOK, NoneAheadOfSubject, OwnInPast, LeftIdle, Status, Timers, NoTimer

\* One step for each action.
LEMMA NextIInv == IInv /\ [Next]_vars => IInv'
<1> SUFFICES ASSUME IInv, [Next]_vars PROVE IInv'
  OBVIOUS
<1> USE BoundsAssumption
<1>t. /\ clock \in Incarnation /\ faults \in 0..MaxFaults /\ own \in Change
      /\ up \in BOOLEAN /\ running \subseteq Observers
      /\ life \in [Observers -> {"member", "left", "back"}]
      /\ view \in [Observers -> Entry] /\ timer \in [Observers -> Timers(Incarnation)]
  BY DEF IInv, TypeOK
<1>n. /\ \A n \in Observers : view[n].inc <= own.inc /\ timer[n].inc <= own.inc
      /\ \A m \in late : m.entry.inc <= own.inc
      /\ own.inc <= clock
      /\ \A n \in Observers : life[n] = "left" => timer[n] = NoTimer
  BY DEF IInv, NoneAheadOfSubject, OwnInPast, LeftIdle
<1>tick. CASE Tick
  BY <1>tick, <1>t DEF Tick, IInv, TypeOK, NoneAheadOfSubject, OwnInPast, LeftIdle
<1>delay. CASE Delay
  <2>1. PICK to \in Observers \union {Subject} :
          \E entry \in {view[o] : o \in running \ {to}} \union (IF up THEN {own} ELSE {}) :
            Known(entry) /\ late' = late \union {[to |-> to, entry |-> entry]}
    BY <1>delay DEF Delay
  <2>2. PICK entry \in {view[o] : o \in running \ {to}} \union (IF up THEN {own} ELSE {}) :
          Known(entry) /\ late' = late \union {[to |-> to, entry |-> entry]}
    BY <2>1
  <2>3. entry \in Change /\ entry.inc <= own.inc
    <3>1. CASE entry = own
      BY <3>1, <1>t
    <3>2. CASE \E o \in Observers : entry = view[o]
      BY <3>2, <2>2, <1>t, <1>n, KnownIsChange
    <3> QED BY <3>1, <3>2, <1>t
  <2>4. faults' \in 0..MaxFaults /\ UNCHANGED <<clock, up, own, running, life, view, timer>>
    BY <1>delay, FaultCounted DEF Delay, IInv
  <2> QED BY <2>2, <2>3, <2>4 DEF IInv, TypeOK, NoneAheadOfSubject, OwnInPast, LeftIdle
<1>deliver. CASE DeliverLate
  <2>1. PICK m \in late :
          /\ late' = late \ {m}
          /\ \/ /\ m.to \in running
                /\ Learn(m.to, m.entry, timer[m.to])
                /\ UNCHANGED own
             \/ /\ m.to = Subject /\ up
                /\ Refute(m.entry)
                /\ UNCHANGED <<life, view, timer>>
             \/ UNCHANGED <<own, life, view, timer>>
          /\ UNCHANGED <<clock, faults, up, running>>
    BY <1>deliver DEF DeliverLate
  <2>2. m.entry \in Change /\ m.entry.inc <= own.inc
    BY <1>n DEF IInv, TypeOK
  <2>3. CASE m.to \in running /\ Learn(m.to, m.entry, timer[m.to]) /\ UNCHANGED own
    BY <2>1, <2>2, <2>3, <1>t, <1>n, LearnPreserves
  <2>4. CASE Refute(m.entry) /\ UNCHANGED <<life, view, timer>>
    BY <2>1, <2>4, <1>t, RefuteAdvances, OwnAdvances
  <2>5. CASE UNCHANGED <<own, life, view, timer>>
    BY <2>1, <2>5 DEF IInv, TypeOK, NoneAheadOfSubject, OwnInPast, LeftIdle
  <2> QED BY <2>1, <2>3, <2>4, <2>5
<1>crash. CASE Crash
  BY <1>crash, FaultCounted DEF Crash, IInv, TypeOK, NoneAheadOfSubject, OwnInPast, LeftIdle
<1>boot. CASE Boot
  <2>1. own' \in Change /\ own.inc <= own'.inc /\ own'.inc <= clock
    BY <1>boot, <1>t DEF Boot, Status
  <2> QED BY <1>boot, <1>t, <2>1, OwnAdvances DEF Boot
<1>status. ASSUME NEW status \in Status, SetLocalStatus(status) PROVE IInv'
  <2>1. own' \in Change /\ own.inc <= own'.inc /\ own'.inc <= clock
    BY <1>status, <1>t, <1>n DEF SetLocalStatus
  <2>2. faults' \in 0..MaxFaults
    BY <1>status, FaultCounted DEF SetLocalStatus, IInv
  <2> QED BY <1>status, <1>t, <2>1, <2>2, OwnAdvances DEF SetLocalStatus
<1>commands. CASE Leave \/ Rejoin \/ SelfEvict
  BY <1>commands, <1>status DEF Leave, Rejoin, SelfEvict, Status
<1>hear. ASSUME NEW n \in Observers, HearSubject(n) PROVE IInv'
  BY <1>hear, <1>t, <1>n, LearnPreserves DEF HearSubject
<1>refute. ASSUME NEW n \in Observers, SubjectHears(n) PROVE IInv'
  BY <1>refute, <1>t, RefuteAdvances, OwnAdvances DEF SubjectHears
<1>tell. ASSUME NEW n \in Observers, NEW o \in Observers, HearObserver(n, o) PROVE IInv'
  <2>1. view[o] \in Change /\ view[o].inc <= own.inc
    BY <1>tell, <1>t, <1>n, KnownIsChange DEF HearObserver
  <2> QED BY <1>tell, <1>t, <1>n, <2>1, LearnPreserves DEF HearObserver
<1>suspect. ASSUME NEW n \in Observers, Suspect(n), faults' \in 0..MaxFaults,
                   UNCHANGED <<clock, up, own, running, late>>
            PROVE  IInv'
  <2>1. view[n] \in Change /\ view[n].inc <= own.inc
    BY <1>suspect, <1>t, <1>n, KnownIsChange DEF Suspect
  <2>2. [status |-> "suspect", inc |-> view[n].inc] \in Change
    BY <2>1 DEF Status
  <2> QED BY <1>suspect, <1>t, <1>n, <2>1, <2>2, LearnPreserves DEF Suspect
<1>probe. ASSUME NEW n \in Observers, ProbeDead(n) \/ FalseAlarm(n) PROVE IInv'
  BY <1>probe, <1>suspect, <1>t, FaultCounted DEF ProbeDead, FalseAlarm, IInv
<1>transit. ASSUME NEW n \in Observers, NEW state \in {"suspect", "faulty"}, Transit(n, state)
            PROVE  IInv'
  <2>1. /\ timer[n].inc \in Incarnation /\ timer[n].inc <= own.inc
        /\ Fired(timer[n]) \in Timers(Incarnation) /\ Fired(timer[n]).inc <= own.inc
        /\ life[n] # "left"
    BY <1>transit, <1>t, <1>n, FiredTimer DEF Transit, NoTimer
  <2>2. [status |-> NextStatus[state], inc |-> timer[n].inc] \in Change
    BY <2>1 DEF NextStatus, Status
  <2> QED BY <1>transit, <1>t, <2>1, <2>2, LearnPreserves DEF Transit
<1>forget. ASSUME NEW n \in Observers, TombstoneTimeout(n) PROVE IInv'
  <2>1. Fired(timer[n]) \in Timers(Incarnation) /\ Fired(timer[n]).inc <= own.inc
    BY <1>t, <1>n, FiredTimer
  <2>2. life[n] # "left"
    BY <1>forget, <1>n DEF TombstoneTimeout, NoTimer
  <2> QED BY <1>forget, <1>t, <1>n, <2>1, <2>2
          DEF TombstoneTimeout, IInv, TypeOK, NoneAheadOfSubject, OwnInPast, LeftIdle
<1>timeout. ASSUME NEW n \in Observers, Timeout(n) PROVE IInv'
  BY <1>timeout, <1>transit, <1>forget DEF Timeout, SuspectTimeout, FaultyTimeout
<1>reap. ASSUME NEW n \in Observers, Reap(n) PROVE IInv'
  <2>1. view[n] \in Change /\ view[n].inc <= own.inc
    BY <1>reap, <1>t, <1>n DEF Reap
  <2>2. [status |-> "tombstone", inc |-> view[n].inc] \in Change
    BY <2>1 DEF Status
  <2>3. faults' \in 0..MaxFaults
    BY <1>reap, FaultCounted DEF Reap, IInv
  <2> QED BY <1>reap, <1>t, <1>n, <2>1, <2>2, <2>3, LearnPreserves DEF Reap
<1>cleared. ASSUME NEW n \in Observers, faults' \in 0..MaxFaults,
                   UNCHANGED <<clock, up, own, running, late>>,
                   life' \in [Observers -> {"member", "left", "back"}],
                   \A o \in Observers : o # n => life'[o] = life[o],
                   view' \in [Observers -> Entry],
                   \A o \in Observers : view'[o] = view[o] \/ view'[o].inc = 0,
                   timer' = [timer EXCEPT ![n] = NoTimer]
            PROVE  IInv'
  <2>1. NoTimer \in Timers(Incarnation) /\ NoTimer.inc = 0
    BY DEF Timers, NoTimer
  <2>2. own.inc \in Nat
    BY <1>t
  <2> HIDE DEF NoTimer
  <2>3. timer' \in [Observers -> Timers(Incarnation)] /\ TypeOK'
    BY <1>cleared, <1>t, <2>1 DEF IInv, TypeOK
  <2>4. NoneAheadOfSubject'
    BY <1>cleared, <1>t, <1>n, <2>1, <2>2 DEF NoneAheadOfSubject
  <2>5. LeftIdle'
    BY <1>cleared, <1>t, <1>n DEF LeftIdle
  <2> QED BY <1>cleared, <1>n, <2>3, <2>4, <2>5 DEF IInv, OwnInPast
<1>restart. ASSUME NEW n \in Observers, Restart(n) PROVE IInv'
  <2>1. faults' \in 0..MaxFaults
    BY <1>restart, FaultCounted DEF Restart, IInv
  <2> QED BY <1>restart, <1>t, <2>1, <1>cleared DEF Restart
<1>leave. ASSUME NEW n \in Observers, LeaveObserver(n) PROVE IInv'
  <2>1. faults' \in 0..MaxFaults
    BY <1>leave, FaultCounted DEF LeaveObserver, IInv
  <2> QED BY <1>leave, <1>t, <2>1, <1>cleared DEF LeaveObserver
<1>rejoin. ASSUME NEW n \in Observers, RejoinObserver(n) PROVE IInv'
  BY <1>rejoin, <1>t, <1>n
     DEF RejoinObserver, IInv, TypeOK, NoneAheadOfSubject, OwnInPast, LeftIdle
<1>stutter. CASE UNCHANGED vars
  BY <1>stutter DEF vars, IInv, TypeOK, NoneAheadOfSubject, OwnInPast, LeftIdle
<1> QED
  BY <1>tick, <1>delay, <1>deliver, <1>crash, <1>boot, <1>commands, <1>hear, <1>refute,
     <1>tell, <1>probe, <1>timeout, <1>reap, <1>leave, <1>rejoin, <1>restart,
     <1>stutter DEF Next

\* In every reachable state of the cluster.
THEOREM Invariance == Spec => []IInv
  BY InitIInv, NextIInv, PTL DEF Spec

\* Every state of the cluster is well formed (lib/membership,
\* lib/gossip/state_transitions.js), for any number of observers.
THEOREM SwimTypeCorrect == Spec => []TypeOK
<1>1. IInv => TypeOK
  BY DEF IInv
<1> QED BY <1>1, Invariance, PTL

\* No observer, message or timeout is ever ahead of the incarnation Subject
\* chose last, through crashes, restarts, late messages and false alarms:
\* only _reincarnate() and bootstrap() make incarnations.
THEOREM OnlySubjectMovesOn == Spec => []NoneAheadOfSubject
<1>1. IInv => NoneAheadOfSubject
  BY DEF IInv
<1> QED BY <1>1, Invariance, PTL

-----------------------------------------------------------------------------
(***************************************************************************)
(* What MemberView promises of one process's member list, each observer's  *)
(* entry of Subject keeps here, where others tell it and it may restart.   *)
(***************************************************************************)

\* An entry is first heard of, replaced by one that supersedes it, or it is
\* a tombstone that is forgotten.
MovesForward(old, new) ==
  \/ new = old
  \/ ~Known(old) /\ Known(new) /\ new.status # "tombstone"
  \/ Known(old) /\ Known(new) /\ Supersedes(new, old)
  \/ old.status = "tombstone" /\ new = Absent

\* A timeout that has yet to run is for the status of the entry: an observer
\* forgets nothing but tombstones.
TimersFit == \A n \in Observers : timer[n].live => timer[n].state = view[n].status

\* A step of the cluster, as far as the entries and incarnations go.
StepsForward ==
  /\ own'.inc >= own.inc
  /\ \A n \in Observers : MovesForward(view[n], view'[n]) \/ Restart(n)

\* What is heard moves an entry forward.
LEMMA HeardForward ==
  ASSUME NEW old \in Entry, NEW change \in Change
  PROVE  MovesForward(old, Heard(old, change))
  BY DEF MovesForward, Heard, shouldProcessGossip, Supersedes, Known, Status

\* So does learning, for one observer, and nothing changes for the others.
LEMMA LearnForward ==
  ASSUME IInv, NEW n \in Observers, NEW change \in Change, NEW base, Learn(n, change, base)
  PROVE  \A o \in Observers : MovesForward(view[o], view'[o])
<1>1. view \in [Observers -> Entry] /\ view' = [view EXCEPT ![n] = Heard(view[n], change)]
  BY LearnIs DEF IInv, TypeOK
<1>2. MovesForward(view[n], Heard(view[n], change))
  BY <1>1, HeardForward
<1>3. \A o \in Observers \ {n} : view'[o] = view[o]
  BY <1>1
<1>4. view'[n] = Heard(view[n], change)
  BY <1>1
<1> QED BY <1>2, <1>3, <1>4 DEF MovesForward

\* It replaces the timeout with the entry.
LEMMA LearnFits ==
  ASSUME IInv, TimersFit, NEW n \in Observers, NEW change \in Change,
         NEW base, base.live => base = timer[n] /\ life[n] # "left", Learn(n, change, base)
  PROVE  TimersFit'
<1> DEFINE active == life[n] # "left"
           record == IF shouldProcessGossip(view[n], change)
                     THEN handleUpdate(active, base, change) ELSE base
           entry == Heard(view[n], change)
<1>1. record.live => record.state = entry.status
  <2>1. base.live => active /\ base.state = view[n].status
    BY DEF TimersFit
  <2>2. active \in BOOLEAN
    OBVIOUS
  <2> HIDE DEF active
  <2> QED BY <2>1, <2>2 DEF Heard, handleUpdate, schedule, NoTimer
<1>2. view' = [view EXCEPT ![n] = entry] /\ timer' = [timer EXCEPT ![n] = record]
  BY LearnIs DEF IInv
<1> HIDE DEF active, record, entry
<1> QED BY <1>1, <1>2 DEF TimersFit, IInv, TypeOK

\* Every step keeps them together.
LEMMA NextFits == IInv /\ TimersFit /\ [Next]_vars => TimersFit'
<1> SUFFICES ASSUME IInv, TimersFit, [Next]_vars PROVE TimersFit'
  OBVIOUS
<1>t. /\ own \in Change /\ running \subseteq Observers
      /\ view \in [Observers -> Entry] /\ timer \in [Observers -> Timers(Incarnation)]
      /\ late \subseteq [to : Observers \union {Subject}, entry : Change]
  BY DEF IInv, TypeOK
<1>same. ASSUME UNCHANGED <<view, timer>> PROVE TimersFit'
  BY <1>same DEF TimersFit
<1>learn. ASSUME NEW n \in Observers, NEW change \in Change, Learn(n, change, timer[n])
          PROVE  TimersFit'
  <2>1. timer[n].live => life[n] # "left"
    BY DEF IInv, LeftIdle, NoTimer
  <2> QED BY <1>learn, <2>1, LearnFits
<1>1. CASE Tick \/ Delay \/ Crash \/ Boot \/ Leave \/ Rejoin \/ SelfEvict
  BY <1>1, <1>same DEF Tick, Delay, Crash, Boot, Leave, Rejoin, SelfEvict, SetLocalStatus
<1>2. CASE DeliverLate
  <2>1. PICK m \in late : \/ m.to \in running /\ Learn(m.to, m.entry, timer[m.to])
                          \/ UNCHANGED <<life, view, timer>>
    BY <1>2 DEF DeliverLate
  <2>2. m.entry \in Change
    BY <1>t
  <2> QED BY <1>t, <2>1, <2>2, <1>learn, <1>same
<1>3. ASSUME NEW n \in Observers, HearSubject(n) PROVE TimersFit'
  BY <1>3, <1>t, <1>learn DEF HearSubject
<1>4. ASSUME NEW n \in Observers, SubjectHears(n) PROVE TimersFit'
  BY <1>4, <1>same DEF SubjectHears
<1>5. ASSUME NEW n \in Observers, NEW o \in Observers, HearObserver(n, o) PROVE TimersFit'
  BY <1>5, <1>t, <1>learn, KnownIsChange DEF HearObserver
<1>6. ASSUME NEW n \in Observers, Suspect(n) PROVE TimersFit'
  <2>1. [status |-> "suspect", inc |-> view[n].inc] \in Change
    BY <1>6, <1>t, KnownIsChange DEF Suspect, Status
  <2> QED BY <1>6, <2>1, <1>learn DEF Suspect
<1>7. ASSUME NEW n \in Observers, NEW state \in {"suspect", "faulty"}, Transit(n, state)
      PROVE  TimersFit'
  <2>1. [status |-> NextStatus[state], inc |-> timer[n].inc] \in Change
    BY <1>7, <1>t, FiredTimer DEF Transit, NextStatus, Status
  <2>2. ~Fired(timer[n]).live
    BY <1>t DEF Fired, Timers, NoTimer
  <2> QED BY <1>7, <2>1, <2>2, LearnFits DEF Transit
<1>8. ASSUME NEW n \in Observers, TombstoneTimeout(n) PROVE TimersFit'
  <2>1. ~Fired(timer[n]).live
    BY <1>t DEF Fired, Timers, NoTimer
  <2> HIDE DEF Fired
  <2> QED BY <1>8, <1>t, <2>1 DEF TombstoneTimeout, TimersFit
<1>9. ASSUME NEW n \in Observers, Reap(n) PROVE TimersFit'
  <2>1. [status |-> "tombstone", inc |-> view[n].inc] \in Change
    BY <1>9, <1>t DEF Reap, Status
  <2> QED BY <1>9, <2>1, <1>learn DEF Reap
<1>10. ASSUME NEW n \in Observers, Restart(n) PROVE TimersFit'
  BY <1>10, <1>t DEF Restart, TimersFit, NoTimer
<1>11. CASE UNCHANGED vars
  BY <1>11, <1>same DEF vars
<1>12. ASSUME NEW n \in Observers, LeaveObserver(n) PROVE TimersFit'
  BY <1>12, <1>t DEF LeaveObserver, TimersFit, NoTimer
<1>13. ASSUME NEW n \in Observers, RejoinObserver(n) PROVE TimersFit'
  BY <1>13, <1>same DEF RejoinObserver
<1> QED
  BY <1>1, <1>2, <1>3, <1>4, <1>5, <1>6, <1>7, <1>8, <1>9, <1>10, <1>11, <1>12, <1>13
  DEF Next, ProbeDead, FalseAlarm, Timeout, SuspectTimeout, FaultyTimeout

\* Every step but a restart moves entries forward.
LEMMA NextForward == IInv /\ TimersFit /\ [Next]_vars => StepsForward
<1> SUFFICES ASSUME IInv, TimersFit, [Next]_vars PROVE StepsForward
  OBVIOUS
<1> USE BoundsAssumption
<1>t. /\ clock \in Incarnation /\ own \in Change /\ running \subseteq Observers
      /\ view \in [Observers -> Entry] /\ timer \in [Observers -> Timers(Incarnation)]
      /\ late \subseteq [to : Observers \union {Subject}, entry : Change]
      /\ own.inc <= clock
  BY DEF IInv, TypeOK, OwnInPast
<1>same. ASSUME UNCHANGED view, own'.inc >= own.inc PROVE StepsForward
  BY <1>same DEF StepsForward, MovesForward
<1>learn. ASSUME NEW n \in Observers, NEW change \in Change, NEW base, Learn(n, change, base),
                 UNCHANGED own
          PROVE  StepsForward
  BY <1>learn, <1>t, LearnForward DEF StepsForward
<1>refute. ASSUME NEW change, Refute(change), UNCHANGED view PROVE StepsForward
  BY <1>refute, <1>same, <1>t, RefuteAdvances
<1>1. CASE Tick \/ Delay \/ Crash
  BY <1>1, <1>same, <1>t DEF Tick, Delay, Crash
<1>2. CASE DeliverLate
  <2>1. PICK m \in late :
          \/ m.to \in running /\ Learn(m.to, m.entry, timer[m.to]) /\ UNCHANGED own
          \/ Refute(m.entry) /\ UNCHANGED <<life, view, timer>>
          \/ UNCHANGED <<own, life, view, timer>>
    BY <1>2 DEF DeliverLate
  <2>2. m.entry \in Change
    BY <1>t
  <2> QED BY <1>t, <2>1, <2>2, <1>learn, <1>refute, <1>same
<1>3. CASE Boot \/ Leave \/ Rejoin \/ SelfEvict
  BY <1>3, <1>same, <1>t DEF Boot, Leave, Rejoin, SelfEvict, SetLocalStatus
<1>4. ASSUME NEW n \in Observers, HearSubject(n) PROVE StepsForward
  BY <1>4, <1>t, <1>learn DEF HearSubject
<1>5. ASSUME NEW n \in Observers, SubjectHears(n) PROVE StepsForward
  BY <1>5, <1>refute DEF SubjectHears
<1>6. ASSUME NEW n \in Observers, NEW o \in Observers, HearObserver(n, o) PROVE StepsForward
  BY <1>6, <1>t, <1>learn, KnownIsChange DEF HearObserver
<1>7. ASSUME NEW n \in Observers, Suspect(n), UNCHANGED own PROVE StepsForward
  <2>1. [status |-> "suspect", inc |-> view[n].inc] \in Change
    BY <1>7, <1>t, KnownIsChange DEF Suspect, Status
  <2> QED BY <1>7, <2>1, <1>learn DEF Suspect
<1>8. ASSUME NEW n \in Observers, NEW state \in {"suspect", "faulty"}, Transit(n, state)
      PROVE  StepsForward
  <2>1. [status |-> NextStatus[state], inc |-> timer[n].inc] \in Change
    BY <1>8, <1>t, FiredTimer DEF Transit, NextStatus, Status
  <2> QED BY <1>8, <2>1, <1>learn DEF Transit
<1>9. ASSUME NEW n \in Observers, TombstoneTimeout(n) PROVE StepsForward
  <2>1. view[n].status = "tombstone" /\ view' = [view EXCEPT ![n] = Absent] /\ UNCHANGED own
    BY <1>9, <1>t DEF TombstoneTimeout, TimersFit
  <2>2. \A o \in Observers : MovesForward(view[o], view'[o])
    BY <1>t, <2>1 DEF MovesForward
  <2> QED BY <1>t, <2>1, <2>2 DEF StepsForward
<1>10. ASSUME NEW n \in Observers, Reap(n) PROVE StepsForward
  <2>1. [status |-> "tombstone", inc |-> view[n].inc] \in Change
    BY <1>10, <1>t DEF Reap, Status
  <2> QED BY <1>10, <2>1, <1>learn DEF Reap
<1>11. ASSUME NEW n \in Observers, Restart(n) PROVE StepsForward
  <2>1. view' = [view EXCEPT ![n] = Absent] /\ UNCHANGED own
    BY <1>11 DEF Restart
  <2>2. \A o \in Observers : o = n \/ view'[o] = view[o]
    BY <1>t, <2>1
  <2> QED BY <1>11, <1>t, <2>1, <2>2 DEF StepsForward, MovesForward
<1>12. CASE UNCHANGED vars
  BY <1>12, <1>same, <1>t DEF vars
<1>13. ASSUME NEW n \in Observers, LeaveObserver(n) \/ RejoinObserver(n) PROVE StepsForward
  BY <1>13, <1>same, <1>t DEF LeaveObserver, RejoinObserver
<1> QED
  BY <1>1, <1>2, <1>3, <1>4, <1>5, <1>6, <1>7, <1>8, <1>9, <1>10, <1>11, <1>12, <1>13
  DEF Next, ProbeDead, FalseAlarm, Timeout, SuspectTimeout, FaultyTimeout

\* No observer ever goes back to an older entry, first hears of Subject as of a
\* tombstone, or forgets it in another state, unless it restarts; and Subject
\* never goes back to an older incarnation, not even by a crash: what
\* MemberView promises of one process holds of each in the cluster
\* (lib/membership/member.js, evict() in lib/membership/index.js).
THEOREM EntriesMoveForward == Spec => [][StepsForward]_vars
<1>1. Init => TimersFit
  BY DEF Init, TimersFit, NoTimer
<1> QED BY <1>1, Invariance, NextFits, NextForward, PTL DEF Spec

-----------------------------------------------------------------------------
(***************************************************************************)
(* The transitions of each observer. A record outlives its timeout, so     *)
(* that there is a record for an entry does not say that it will move on:  *)
(* that needs that no record is of a later incarnation than its entry.     *)
(***************************************************************************)

\* The statuses with a transition.
Moving == {"suspect", "faulty", "tombstone"}

\* An entry with a transition has its record, and the timeout has yet to run
\* unless it was scheduled at an older incarnation.
OnItsWay(entry, record) ==
  entry.status \in Moving =>
    /\ record.state = entry.status
    /\ record.live \/ record.inc < entry.inc

\* There is no record for another status than the entry's, but for what a
\* member that is forgotten leaves behind, and none ahead of its entry.
Behind(entry, record) ==
  /\ entry.status \in Moving => record.inc <= entry.inc
  /\ \/ record.state \in {"none", entry.status}
     \/ entry = Absent /\ record.state = "tombstone"
  /\ record.live => record.state = entry.status

\* Of an observer that has not left, or whose entry has changed since it
\* rejoined.
TransitionsPending ==
  \A n \in Observers : life[n] = "member" => OnItsWay(view[n], timer[n])

TransInv == TransitionsPending /\ \A n \in Observers : Behind(view[n], timer[n])

\* News schedules its transition, or keeps the record of an older incarnation.
LEMMA NewsSchedules ==
  ASSUME NEW entry \in Entry, NEW record \in Timers(Incarnation), Behind(entry, record),
         NEW change \in Change, shouldProcessGossip(entry, change)
  PROVE  /\ OnItsWay(change, handleUpdate(TRUE, record, change))
         /\ Behind(change, handleUpdate(TRUE, record, change))
<1> USE BoundsAssumption
<1>1. CASE change.status \in {"alive", "leave"}
  <2>1. handleUpdate(TRUE, record, change) = NoTimer
    BY <1>1 DEF handleUpdate
  <2>2. OnItsWay(change, NoTimer) /\ Behind(change, NoTimer)
    BY <1>1 DEF OnItsWay, Behind, Moving, NoTimer
  <2> QED BY <2>1, <2>2
<1>2. CASE change.status \in Moving /\ record.state # change.status
  <2>1. handleUpdate(TRUE, record, change)
          = [state |-> change.status, inc |-> change.inc, live |-> TRUE]
    BY <1>2 DEF handleUpdate, schedule, Moving
  <2> DEFINE fresh == [state |-> change.status, inc |-> change.inc, live |-> TRUE]
  <2>2. change.inc \in Nat
    OBVIOUS
  <2>3. fresh.state = change.status /\ fresh.inc = change.inc /\ fresh.live
    OBVIOUS
  <2> HIDE DEF fresh
  <2>4. OnItsWay(change, fresh) /\ Behind(change, fresh)
    BY <2>2, <2>3 DEF OnItsWay, Behind
  <2> QED BY <2>1, <2>4 DEF fresh
<1>3. CASE change.status \in Moving /\ record.state = change.status
  <2>1. handleUpdate(TRUE, record, change) = record
    BY <1>3 DEF handleUpdate, schedule, Moving
  <2>2. entry.status = change.status
    BY <1>3 DEF Behind, Moving, shouldProcessGossip, Known, Absent
  <2>3. entry \in Change /\ change.inc > entry.inc
    <3>1. entry \in Change
      BY <1>3, <2>2 DEF Moving, Entry, Entries, Absent
    <3>2. statusPrecedence(change.status) \in Int
      BY DEF statusPrecedence, Status
    <3> QED BY <1>3, <2>2, <3>1, <3>2 DEF shouldProcessGossip, Moving, Known
  <2>4. record.inc \in Nat /\ record.inc <= entry.inc
    BY <1>3, <2>2 DEF Behind, Timers, NoTimer
  <2>5. record.inc < change.inc
    BY <2>3, <2>4
  <2>6. OnItsWay(change, record) /\ Behind(change, record)
    BY <1>3, <2>4, <2>5 DEF OnItsWay, Behind
  <2> QED BY <2>1, <2>6
<1> QED BY <1>1, <1>2, <1>3 DEF Moving, Status

\* A timeout that runs leaves a record as far behind as it was.
LEMMA FiredBehind ==
  ASSUME NEW entry, NEW record \in Timers(Incarnation), Behind(entry, record)
  PROVE  Behind(entry, Fired(record)) /\ Fired(record).state = record.state
<1>1. Fired(record).state = record.state /\ Fired(record).inc = record.inc
      /\ ~Fired(record).live
  <2>1. record.state = "none" \/ record.state # "none"
    OBVIOUS
  <2> QED BY <2>1 DEF Fired, Timers, NoTimer
<1> QED BY <1>1 DEF Behind

\* Learning keeps the transitions of all, when the record it begins with is
\* not ahead and does for an entry that stays.
LEMMA LearnMovesOn ==
  ASSUME IInv, TransInv, NEW n \in Observers, NEW change \in Change,
         NEW base \in Timers(Incarnation), Behind(view[n], base),
         life[n] = "left" => base = NoTimer,
         life[n] = "member" => shouldProcessGossip(view[n], change) \/ OnItsWay(view[n], base),
         Learn(n, change, base)
  PROVE  TransInv'
<1> DEFINE news == shouldProcessGossip(view[n], change)
           record == IF news THEN handleUpdate(life[n] # "left", base, change) ELSE base
           entry == Heard(view[n], change)
<1>t. view \in [Observers -> Entry] /\ timer \in [Observers -> Timers(Incarnation)]
  BY DEF IInv, TypeOK
<1>1. Behind(entry, record) /\ (life'[n] = "member" => OnItsWay(entry, record))
  <2>0. life'[n] = "member" => news \/ life[n] = "member"
    BY LearnIs DEF IInv
  <2>l. life'[n] = "left" <=> life[n] = "left"
    BY LearnIs DEF IInv
  <2>1. CASE news /\ life[n] # "left"
    <3>1. record = handleUpdate(TRUE, base, change) /\ entry = change
      BY <2>1 DEF Heard
    <3> QED BY <2>1, <3>1, <1>t, NewsSchedules
  <2>2. CASE news /\ life[n] = "left"
    <3>1. record = NoTimer
      <4>1. record = handleUpdate(FALSE, NoTimer, change)
        BY <2>2
      <4> QED BY <4>1 DEF handleUpdate, schedule
    <3>2. entry = change /\ Behind(change, NoTimer)
      BY <2>2, BoundsAssumption DEF Heard, Behind, NoTimer
    <3>3. life'[n] # "member"
      BY <2>2, <2>l
    <3> HIDE DEF record, entry
    <3> QED BY <3>1, <3>2, <3>3
  <2>3. CASE ~news
    BY <2>0, <2>3 DEF Heard
  <2> QED BY <2>1, <2>2, <2>3
<1>2. view' = [view EXCEPT ![n] = entry] /\ timer' = [timer EXCEPT ![n] = record]
      /\ \A o \in Observers : o # n => life'[o] = life[o]
  BY LearnIs DEF IInv
<1> HIDE DEF news, record, entry
<1>3. ASSUME NEW o \in Observers
      PROVE  /\ life'[o] = "member" => OnItsWay(view'[o], timer'[o])
             /\ Behind(view'[o], timer'[o])
  <2>1. CASE o = n
    BY <1>1, <1>2, <1>t, <2>1
  <2>2. CASE o # n
    BY <1>2, <1>t, <2>2 DEF TransInv, TransitionsPending
  <2> QED BY <2>1, <2>2
<1> QED BY <1>3 DEF TransInv, TransitionsPending

\* Every step keeps the transitions pending.
LEMMA NextMovesOn == IInv /\ TransInv /\ [Next]_vars => TransInv'
<1> SUFFICES ASSUME IInv, TransInv, [Next]_vars PROVE TransInv'
  OBVIOUS
<1> USE BoundsAssumption
<1>t. /\ own \in Change /\ running \subseteq Observers
      /\ life \in [Observers -> {"member", "left", "back"}]
      /\ view \in [Observers -> Entry] /\ timer \in [Observers -> Timers(Incarnation)]
      /\ late \subseteq [to : Observers \union {Subject}, entry : Change]
  BY DEF IInv, TypeOK
<1>n. \A n \in Observers :
        /\ life[n] = "member" => OnItsWay(view[n], timer[n])
        /\ Behind(view[n], timer[n])
        /\ life[n] = "left" => timer[n] = NoTimer
  BY DEF TransInv, TransitionsPending, IInv, LeftIdle
<1>same. ASSUME UNCHANGED <<life, view, timer>> PROVE TransInv'
  BY <1>same DEF TransInv, TransitionsPending
<1>learn. ASSUME NEW n \in Observers, NEW change \in Change, Learn(n, change, timer[n])
          PROVE  TransInv'
  BY <1>learn, <1>t, <1>n, LearnMovesOn
<1>forgets. ASSUME NEW n \in Observers, NEW record, ~record.live,
                   record.state \in {"none", "tombstone"},
                   \A o \in Observers : o # n => life'[o] = life[o],
                   view' = [view EXCEPT ![n] = Absent], timer' = [timer EXCEPT ![n] = record]
            PROVE  TransInv'
  <2>1. OnItsWay(Absent, record) /\ Behind(Absent, record)
    BY <1>forgets DEF OnItsWay, Behind, Moving, Absent
  <2>2. ASSUME NEW o \in Observers
        PROVE  /\ life'[o] = "member" => OnItsWay(view'[o], timer'[o])
               /\ Behind(view'[o], timer'[o])
    <3>1. CASE o = n
      BY <1>forgets, <1>t, <2>1, <3>1
    <3>2. CASE o # n
      BY <1>forgets, <1>t, <1>n, <3>2
    <3> QED BY <3>1, <3>2
  <2> QED BY <2>2 DEF TransInv, TransitionsPending
<1>1. CASE Tick \/ Delay \/ Crash \/ Boot \/ Leave \/ Rejoin \/ SelfEvict
  BY <1>1, <1>same DEF Tick, Delay, Crash, Boot, Leave, Rejoin, SelfEvict, SetLocalStatus
<1>2. CASE DeliverLate
  <2>1. PICK m \in late : \/ m.to \in running /\ Learn(m.to, m.entry, timer[m.to])
                          \/ UNCHANGED <<life, view, timer>>
    BY <1>2 DEF DeliverLate
  <2>2. m.entry \in Change
    BY <1>t
  <2> QED BY <1>t, <2>1, <2>2, <1>learn, <1>same
<1>3. ASSUME NEW n \in Observers, HearSubject(n) PROVE TransInv'
  BY <1>3, <1>t, <1>learn DEF HearSubject
<1>4. ASSUME NEW n \in Observers, SubjectHears(n) PROVE TransInv'
  BY <1>4, <1>same DEF SubjectHears
<1>5. ASSUME NEW n \in Observers, NEW o \in Observers, HearObserver(n, o) PROVE TransInv'
  BY <1>5, <1>t, <1>learn, KnownIsChange DEF HearObserver
<1>6. ASSUME NEW n \in Observers, Suspect(n) PROVE TransInv'
  <2>1. [status |-> "suspect", inc |-> view[n].inc] \in Change
    BY <1>6, <1>t, KnownIsChange DEF Suspect, Status
  <2> QED BY <1>6, <2>1, <1>learn DEF Suspect
<1>7. ASSUME NEW n \in Observers, NEW state \in {"suspect", "faulty"}, Transit(n, state)
      PROVE  TransInv'
  <2> DEFINE change == [status |-> NextStatus[state], inc |-> timer[n].inc]
  <2>1. /\ change \in Change /\ timer[n].inc \in Incarnation
        /\ Fired(timer[n]) \in Timers(Incarnation)
    BY <1>7, <1>t, FiredTimer DEF Transit, NextStatus, Status
  <2>2. Behind(view[n], Fired(timer[n])) /\ Fired(timer[n]).state = timer[n].state
        /\ Fired(timer[n]).inc = timer[n].inc
    BY <1>t, <1>n, FiredBehind, FiredTimer
  <2>3. view[n].status = state /\ timer[n].state = state /\ timer[n].inc <= view[n].inc
        /\ view[n] \in Change /\ life[n] # "left"
    BY <1>7, <1>t, <1>n DEF Transit, Behind, Moving, Entries, Absent, NoTimer
  <2>4. shouldProcessGossip(view[n], change) \/ OnItsWay(view[n], Fired(timer[n]))
    <3>1. CASE timer[n].inc = view[n].inc
      BY <2>3, <3>1
         DEF shouldProcessGossip, Known, statusPrecedence, NextStatus
    <3>2. CASE timer[n].inc < view[n].inc
      BY <2>2, <2>3, <3>2 DEF OnItsWay
    <3> QED BY <2>1, <2>3, <3>1, <3>2
  <2> HIDE DEF change
  <2> QED BY <1>7, <2>1, <2>2, <2>3, <2>4, LearnMovesOn DEF Transit, change
<1>8. ASSUME NEW n \in Observers, TombstoneTimeout(n) PROVE TransInv'
  <2>1. ~Fired(timer[n]).live /\ Fired(timer[n]).state = "tombstone"
    BY <1>8, <1>t, <1>n, FiredBehind DEF Fired, Timers, NoTimer, TombstoneTimeout
  <2> HIDE DEF Fired
  <2> QED BY <1>8, <2>1, <1>forgets DEF TombstoneTimeout
<1>9. ASSUME NEW n \in Observers, Reap(n) PROVE TransInv'
  <2>1. [status |-> "tombstone", inc |-> view[n].inc] \in Change
    BY <1>9, <1>t DEF Reap, Status
  <2> QED BY <1>9, <2>1, <1>learn DEF Reap
<1>10. ASSUME NEW n \in Observers, Restart(n) PROVE TransInv'
  <2>1. ~NoTimer.live /\ NoTimer.state = "none"
    BY DEF NoTimer
  <2>2. \A o \in Observers : o # n => life'[o] = life[o]
    BY <1>10, <1>t DEF Restart
  <2> HIDE DEF NoTimer
  <2> QED BY <1>10, <2>1, <2>2, <1>forgets DEF Restart
<1>11. CASE UNCHANGED vars
  BY <1>11, <1>same DEF vars
<1>12. ASSUME NEW n \in Observers, LeaveObserver(n) PROVE TransInv'
  <2>1. /\ life' = [life EXCEPT ![n] = "left"] /\ timer' = [timer EXCEPT ![n] = NoTimer]
        /\ view' = view
    BY <1>12 DEF LeaveObserver
  <2>2. Behind(view[n], NoTimer)
    BY <1>t DEF Behind, NoTimer
  <2>3. ASSUME NEW o \in Observers
        PROVE  /\ life'[o] = "member" => OnItsWay(view'[o], timer'[o])
               /\ Behind(view'[o], timer'[o])
    <3>1. CASE o = n
      BY <1>t, <2>1, <2>2, <3>1
    <3>2. CASE o # n
      BY <1>t, <1>n, <2>1, <3>2
    <3> QED BY <3>1, <3>2
  <2> QED BY <2>3 DEF TransInv, TransitionsPending
<1>13. ASSUME NEW n \in Observers, RejoinObserver(n) PROVE TransInv'
  BY <1>13, <1>t, <1>n DEF RejoinObserver, TransInv, TransitionsPending
<1> QED
  BY <1>1, <1>2, <1>3, <1>4, <1>5, <1>6, <1>7, <1>8, <1>9, <1>10, <1>11, <1>12, <1>13
  DEF Next, ProbeDead, FalseAlarm, Timeout, SuspectTimeout, FaultyTimeout

\* An observer that believes Subject suspect, faulty or a tombstone has the
\* record of that transition, and the timeout has yet to run unless the record
\* was made at an older incarnation (schedule() keeps a record of the same
\* state in lib/gossip/state_transitions.js; the run stuck_faulty meets it) -
\* or the observer has left, or rejoined and heard nothing new of Subject
\* since, for leaving clears every transition and rejoining schedules none
\* (lib/on_membership_event.js, server/admin/member.js). Of all the orders of
\* gossip, timeouts, restarts and commands, those two alone leave a member
\* where it is for ever.
THEOREM EntriesMoveOn == Spec => []TransitionsPending
<1>1. Init => TransInv
  BY DEF Init, TransInv, TransitionsPending, OnItsWay, Behind, Moving, NoTimer, Absent
<1>2. TransInv => TransitionsPending
  BY DEF TransInv
<1> QED BY <1>1, <1>2, Invariance, NextMovesOn, PTL DEF Spec
=============================================================================
