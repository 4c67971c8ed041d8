-------------------------------- MODULE Swim --------------------------------
(***************************************************************************)
(* The cluster's view of one of its members. Subject is a ringpop process  *)
(* that boots, crashes, leaves, rejoins and evicts itself; Observers are   *)
(* the other processes, each with its entry and its state transition for   *)
(* Subject. Every member of a cluster plays the part of Subject, and no    *)
(* two interfere: the rules of lib/membership and                          *)
(* lib/gossip/state_transitions.js look at one address at a time.          *)
(*                                                                         *)
(* Gossip is pairwise and one way here: a ping carries what the sender     *)
(* believes, its response what the receiver does, and either may be lost   *)
(* or held up. Which changes a message has room for is left out: what one  *)
(* node believes and another does not is offered to it sooner or later, by *)
(* piggybacking or by a full sync.                                         *)
(***************************************************************************)
EXTENDS StateTransitions

CONSTANTS
  Observers,          \* the processes that keep an entry of Subject
  Leavers,            \* those of them that may leave the cluster and rejoin
  MaxClock,           \* bound: the last reading of Date.now()
  MaxFaults           \* bound: alarms, crashes, commands and late messages

ASSUME LeaversAssumption == Leavers \subseteq Observers
ASSUME BoundsAssumption == MaxClock \in Nat \ {0} /\ MaxFaults \in Nat

Incarnation == 1..MaxClock
Entry == Entries(Incarnation)
Change == [status : Status, inc : Incarnation]

VARIABLES
  clock,      \* Date.now(), the same on every host
  faults,     \* how much has gone wrong, up to MaxFaults
  up,         \* Subject's process runs
  own,        \* its localMember; what it was, while it is down
  running,    \* the observers that run
  life,       \* life[n]: "left" while n has left, "back" after it rejoined, until
              \* its entry of Subject changes, and "member" in any other case
  view,       \* view[n]: Subject in n's member list
  timer,      \* timer[n]: n's state transition for Subject
  late        \* messages held up: who they are for and what they say

vars == <<clock, faults, up, own, running, life, view, timer, late>>

\* Subject's own name, as the addressee of a message.
Subject == "subject"

Init ==
  /\ clock = 1
  /\ faults = 0
  /\ up = TRUE
  /\ own = [status |-> "alive", inc |-> 1]
  /\ running = Observers
  /\ life = [n \in Observers |-> "member"]
  /\ view = [n \in Observers |-> Absent]
  /\ timer = [n \in Observers |-> NoTimer]
  /\ late = {}

Fault == faults < MaxFaults /\ faults' = faults + 1

\* The observers that have stopped their gossip and disabled their
\* transitions, and those that have not.
Left == {n \in Observers : life[n] = "left"}
Present == running \ Left

Tick ==
  /\ clock < MaxClock
  /\ clock' = clock + 1
  /\ UNCHANGED <<faults, up, own, running, life, view, timer, late>>

-----------------------------------------------------------------------------
(***************************************************************************)
(* Hearing and refuting.                                                   *)
(***************************************************************************)

\* update() and its listeners on observer n, for a change of Subject. base is
\* the record of n's state transition when the change comes. An observer that
\* left is updated as well, but schedules nothing.
Learn(n, change, base) ==
  LET news == shouldProcessGossip(view[n], change)
  IN /\ view' = [view EXCEPT ![n] = Heard(@, change)]
     /\ timer' = [timer EXCEPT ![n] =
          IF news THEN handleUpdate(n \notin Left, base, change) ELSE base]
     /\ life' = [life EXCEPT ![n] = IF news /\ @ = "back" THEN "member" ELSE @]

\* Mutant: a refuted change leaves the incarnation as it is.
RefuteInSilence(change) == own' = own

\* update() on Subject: a change of its own entry that would be accepted is
\* refuted by reincarnating, whatever it says; the status stays.
Refute(change) ==
  own' = IF shouldProcessGossip(own, change)
         THEN [own EXCEPT !.inc = clock] ELSE own

\* Subject and n exchange messages when Subject pings n - a node that left
\* has stopped its gossip - or n pings Subject. Subject may not know yet that
\* n has left.
Contact(n) ==
  /\ up /\ n \in running
  /\ own.status # "leave" \/ (n \in Present /\ isStatusPingable(view[n].status))

HearSubject(n) ==
  /\ Contact(n)
  /\ Learn(n, own, timer[n])
  /\ UNCHANGED <<clock, faults, up, own, running, late>>

\* o pings n, perhaps before it knows that n has left, or n pings o. What is
\* still heard of an o that has left is held up.
HearObserver(n, o) ==
  /\ n \in running /\ o \in Present \ {n}
  /\ Known(view[o])
  /\ Learn(n, view[o], timer[n])
  /\ UNCHANGED <<clock, faults, up, own, running, late>>

SubjectHears(n) ==
  /\ Contact(n) /\ Known(view[n])
  /\ Refute(view[n])
  /\ UNCHANGED <<clock, faults, up, running, life, view, timer, late>>

\* A message is held up on its way: a response after a ping timed out, a
\* request retried, a ping-req's second hop.
Delay ==
  /\ Fault
  /\ \E to \in Observers \union {Subject} :
       \E entry \in {view[o] : o \in running \ {to}} \union
                    (IF up THEN {own} ELSE {}) :
         /\ Known(entry)
         /\ late' = late \union {[to |-> to, entry |-> entry]}
  /\ UNCHANGED <<clock, up, own, running, life, view, timer>>

\* It arrives after all, or it does not.
DeliverLate ==
  \E m \in late :
    /\ late' = late \ {m}
    /\ \/ /\ m.to \in running
          /\ Learn(m.to, m.entry, timer[m.to])
          /\ UNCHANGED own
       \/ /\ m.to = Subject /\ up
          /\ Refute(m.entry)
          /\ UNCHANGED <<life, view, timer>>
       \/ UNCHANGED <<own, life, view, timer>>
    /\ UNCHANGED <<clock, faults, up, running>>

-----------------------------------------------------------------------------
(***************************************************************************)
(* Detecting failures.                                                     *)
(***************************************************************************)

\* The ping and every ping-req failed, or there was nobody to ask: Subject is
\* suspect at the incarnation its entry has by then. A probe of a process
\* that runs may fail too; that is a fault, and the clock has yet to pass
\* the incarnation, as it does between two protocol periods.
Suspect(n) ==
  /\ n \in running /\ isStatusPingable(view[n].status)
  /\ Learn(n, [status |-> "suspect", inc |-> view[n].inc], timer[n])

ProbeDead(n) ==
  /\ ~up
  /\ Suspect(n)
  /\ UNCHANGED <<clock, faults, up, own, running, late>>

FalseAlarm(n) ==
  /\ up /\ view[n].inc < MaxClock
  /\ Suspect(n)
  /\ Fault
  /\ UNCHANGED <<clock, up, own, running, late>>

\* A timeout acts at the incarnation that scheduled it.
Transit(n, state) ==
  /\ n \in running
  /\ timer[n].live /\ timer[n].state = state
  /\ Learn(n, [status |-> NextStatus[state], inc |-> timer[n].inc], Fired(timer[n]))
  /\ UNCHANGED <<clock, faults, up, own, running, late>>

\* Mutant: the timeout of a suspect only clears its record.
SuspectTimeoutForgets(n) ==
  /\ n \in running
  /\ timer[n].live /\ timer[n].state = "suspect"
  /\ timer' = [timer EXCEPT ![n] = NoTimer]
  /\ UNCHANGED <<clock, faults, up, own, running, life, view, late>>

SuspectTimeout(n) == Transit(n, "suspect")

\* What n knows of Subject is news neither to another observer that takes
\* part in gossip nor to Subject. The timeouts of a faulty member (a day) and of a tombstone (a
\* minute) outlast a round of gossip, so they run in no other state.
Settled(n) ==
  /\ \A o \in Present \ {n} : ~shouldProcessGossip(view[o], view[n])
  /\ Contact(n) => ~shouldProcessGossip(own, view[n])

FaultyTimeout(n) == Settled(n) /\ Transit(n, "faulty")

\* Mutant: the timeout of a tombstone clears its record, not the member.
TombstoneTimeoutForgets(n) ==
  /\ n \in running /\ Settled(n)
  /\ timer[n].live /\ timer[n].state = "tombstone"
  /\ timer' = [timer EXCEPT ![n] = NoTimer]
  /\ UNCHANGED <<clock, faults, up, own, running, life, view, late>>

TombstoneTimeout(n) ==
  /\ n \in running /\ Settled(n)
  /\ timer[n].live /\ timer[n].state = "tombstone"
  /\ view' = [view EXCEPT ![n] = Absent]
  /\ timer' = [timer EXCEPT ![n] = Fired(@)]
  /\ UNCHANGED <<clock, faults, up, own, running, life, late>>

\* /admin/member/reap on n.
Reap(n) ==
  /\ n \in running /\ view[n].status = "faulty" /\ view[n].inc < MaxClock
  /\ Fault
  /\ Learn(n, [status |-> "tombstone", inc |-> view[n].inc], timer[n])
  /\ UNCHANGED <<clock, up, own, running, late>>

Timeout(n) == SuspectTimeout(n) \/ FaultyTimeout(n) \/ TombstoneTimeout(n)

-----------------------------------------------------------------------------
(***************************************************************************)
(* Lives of the processes.                                                 *)
(***************************************************************************)

Crash ==
  /\ up /\ Fault
  /\ up' = FALSE
  /\ UNCHANGED <<clock, own, running, life, view, timer, late>>

\* Mutant: incarnations are counted from one again.
BootFromOne ==
  /\ ~up /\ clock > own.inc
  /\ up' = TRUE
  /\ own' = [status |-> "alive", inc |-> 1]
  /\ UNCHANGED <<clock, faults, running, life, view, timer, late>>

\* A process takes longer than a clock tick to come back. It remembers
\* nothing; bootstrap() makes it alive at the present time.
Boot ==
  /\ ~up /\ clock > own.inc
  /\ up' = TRUE
  /\ own' = [status |-> "alive", inc |-> clock]
  /\ UNCHANGED <<clock, faults, running, life, view, timer, late>>

\* setLocalStatus by an admin command or the self eviction.
SetLocalStatus(status) ==
  /\ up /\ clock < MaxClock /\ Fault
  /\ own' = [status |-> status, inc |-> clock]
  /\ UNCHANGED <<clock, up, running, life, view, timer, late>>

Leave == own.status # "leave" /\ SetLocalStatus("leave")
Rejoin == own.status = "leave" /\ SetLocalStatus("alive")
SelfEvict == own.status # "faulty" /\ SetLocalStatus("faulty")

\* /admin/member/leave on an observer stops its gossip and clears all its
\* transitions.
LeaveObserver(n) ==
  /\ n \in (Present \intersect Leavers) /\ Fault
  /\ life' = [life EXCEPT ![n] = "left"]
  /\ timer' = [timer EXCEPT ![n] = NoTimer]
  /\ UNCHANGED <<clock, up, own, running, view, late>>

\* /admin/member/join of an observer that left. The transitions are enabled,
\* but none that was cleared is scheduled again.
RejoinObserver(n) ==
  /\ n \in running \ Present
  /\ life' = [life EXCEPT ![n] = "back"]
  /\ UNCHANGED <<clock, faults, up, own, running, view, timer, late>>

\* An observer restarts with an empty member list; the rest of the cluster
\* tells it of Subject again.
Restart(n) ==
  /\ n \in running /\ Fault
  /\ life' = [life EXCEPT ![n] = "member"]
  /\ view' = [view EXCEPT ![n] = Absent]
  /\ timer' = [timer EXCEPT ![n] = NoTimer]
  /\ UNCHANGED <<clock, up, own, running, late>>

\* An observer crashes and does not come back.
CrashForGood(n) ==
  /\ n \in running /\ Fault
  /\ running' = running \ {n}
  /\ UNCHANGED <<clock, up, own, life, view, timer, late>>

-----------------------------------------------------------------------------
Next ==
  \/ Tick \/ Delay \/ DeliverLate
  \/ Crash \/ Boot \/ Leave \/ Rejoin \/ SelfEvict
  \/ \E n \in Observers :
       \/ HearSubject(n) \/ SubjectHears(n)
       \/ \E o \in Observers : HearObserver(n, o)
       \/ ProbeDead(n) \/ FalseAlarm(n) \/ Timeout(n) \/ Reap(n)
       \/ LeaveObserver(n) \/ RejoinObserver(n) \/ Restart(n)

Spec == Init /\ [][Next]_vars

\* Time passes, gossip goes round among those that take part, probes of a dead
\* process fail and timeouts run. Faults, restarts, rejoining and what one who
\* left may still hear are owed nothing.
Fairness ==
  /\ WF_vars(Tick)
  /\ \A n \in Observers :
       /\ WF_vars(n \in Present /\ HearSubject(n))
       /\ WF_vars(n \in Present /\ SubjectHears(n))
       /\ \A o \in Observers \ {n} : WF_vars(n \in Present /\ HearObserver(n, o))
       /\ WF_vars(n \in Present /\ ProbeDead(n))
       /\ WF_vars(Timeout(n))

FairSpec == Spec /\ Fairness

\* The same, with observers that may crash for good.
CrashNext == Next \/ \E n \in Observers : CrashForGood(n)

CrashSpec == Init /\ [][CrashNext]_vars /\ Fairness

-----------------------------------------------------------------------------
(***************************************************************************)
(* Properties.                                                             *)
(***************************************************************************)

TypeOK ==
  /\ clock \in Incarnation
  /\ faults \in 0..MaxFaults
  /\ up \in BOOLEAN
  /\ own \in Change
  /\ running \subseteq Observers
  /\ life \in [Observers -> {"member", "left", "back"}]
  /\ view \in [Observers -> Entry]
  /\ timer \in [Observers -> Timers(Incarnation)]
  /\ late \subseteq [to : Observers \union {Subject}, entry : Change]

\* No entry, message or timeout in the cluster is ahead of the last
\* incarnation Subject chose, though every observer writes entries of its
\* own (suspect, faulty, tombstone) and old ones arrive late: only Subject
\* moves its incarnation on, so its refutations are always heard.
NoneAheadOfSubject ==
  /\ \A n \in Observers : view[n].inc <= own.inc /\ timer[n].inc <= own.inc
  /\ \A m \in late : m.entry.inc <= own.inc

\* Once Subject stays alive, every observer that takes part ends up with
\* exactly its entry, whatever false alarms, restarts, late messages and
\* timeouts, and even two of its own changes within one tick of the clock,
\* came before.
Convergence ==
  <>[](up /\ own.status = "alive") =>
    <>[](\A n \in Present : view[n] = own)

\* No timeout is to move n's entry on: n cleared it when it left, or n's record
\* is of an older incarnation. Others may still move it on.
Stranded(n) ==
  /\ n \in Present /\ ~timer[n].live
  /\ view[n].status \in {"suspect", "faulty", "tombstone"}

\* Somebody has left, or rejoined without news, and somebody is stranded.
StrandedByLeaving ==
  /\ \E n \in running : life[n] # "member"
  /\ \E n \in Present : Stranded(n)

\* Once Subject is gone for good - dead, left or evicted - no observer keeps
\* pinging it or sending it keys; but a suspect may stay one for ever where
\* those who could have moved it on have left, or have rejoined.
GoneIsUnpingable ==
  <>[]((~up \/ own.status # "alive") /\ ~StrandedByLeaving) =>
    <>[](\A n \in Present : ~isStatusPingable(view[n].status))

\* Once Subject has crashed for good while it was alive, it is forgotten -
\* unless it left in the same tick that it came back in: then the observers
\* may never hear that it did, and no transition removes a member that left -
\* with the same exception.
DeadIsForgotten ==
  <>[](/\ ~up /\ own.status = "alive" /\ ~StrandedByLeaving
       /\ \A n \in Present : view[n].status # "leave") =>
    <>[](\A n \in Present : view[n] = Absent)

\* CHANGES.md:82, "Previously nodes marked as faulty would stay in the
\* memberlist indefinitely. Since, 10.15.0 these nodes will be automatically
\* removed after 24 hours by default": no observer that takes part keeps a
\* dead Subject as faulty for ever.
FaultyIsReaped ==
  \A n \in Observers :
    []<>(up \/ n \notin Present \/ view[n].status # "faulty")
=============================================================================
