------------------------------ MODULE HealTimer ------------------------------
(***************************************************************************)
(* When the healer of one process heals                                    *)
(* (lib/partition_healing/discover_provider_healer.js): the timer that is  *)
(* started when the process is ready and stopped when it is destroyed, the *)
(* heals that it or the admin command begin, and the hosts that each tries *)
(* one after the other. Healer has what an attempt does to member lists.   *)
(*                                                                         *)
(* Between a timer and the next there may be a heal, while healTimer still *)
(* holds the timer that ran. Both bootstrap() calls that may overlap say   *)
(* that the process is ready.                                              *)
(***************************************************************************)
EXTENDS Integers

CONSTANTS
  Periodic,             \* names for heals the timer begins,
  Admin,                \* and for those of the admin command
  MaxTargets,           \* bound: targets in a list of hosts
  MaxFailures,          \* discoverProviderHealerMaxFailures
  MaxReadies            \* bound: how often ready is emitted

ASSUME HealTimerAssumption ==
  /\ Periodic \intersect Admin = {}
  /\ MaxTargets \in Nat /\ MaxFailures \in Nat \ {0} /\ MaxReadies \in Nat

VARIABLES
  destroyed,
  readies,
  isStopped,
  timer,    \* healTimer, and the set timers it no longer holds
  heals     \* the heals under way

timerVars == <<destroyed, readies, isStopped, timer, heals>>

\* handle is healTimer: null, a timer that is set, or one that ran.
Timers == [handle : {"null", "set", "ran"}, others : Nat]

\* A heal waits for the discover provider, or attempts one target with this
\* many left.
HealRecord ==
  [stage : {"none", "discovering", "attempting"},
   targets : 0..MaxTargets, failures : 0..MaxFailures - 1]

NotHealing == [stage |-> "none", targets |-> 0, failures |-> 0]

TimerInit ==
  /\ destroyed = FALSE
  /\ readies = 0
  /\ isStopped = TRUE
  /\ timer = [handle |-> "null", others |-> 0]
  /\ heals = [h \in Periodic \union Admin |-> NotHealing]

Busy(h) == heals[h].stage # "none"

-----------------------------------------------------------------------------
(***************************************************************************)
(* Heals.                                                                  *)
(***************************************************************************)

\* scheduleNext(): set a timer and hold on to it, whatever was held before.
Scheduled(t) ==
  [handle |-> "set", others |-> IF t.handle = "set" THEN t.others + 1 ELSE t.others]

\* heal(). The code bounds no number of heals; here one without a name waits.
Begin(h) ==
  /\ ~Busy(h)
  /\ heals' = [heals EXCEPT ![h] = [NotHealing EXCEPT !.stage = "discovering"]]

\* Mutant: only a heal without failures schedules the next one.
CallBackOnSuccess(h) ==
  /\ heals' = [heals EXCEPT ![h] = NotHealing]
  /\ timer' = IF h \in Periodic /\ heals[h].failures = 0 THEN Scheduled(timer) ELSE timer

\* The callback of a heal, however it went: that of the timer schedules the
\* next one, that of the admin command responds.
CallBack(h) ==
  /\ heals' = [heals EXCEPT ![h] = NotHealing]
  /\ timer' = IF h \in Periodic THEN Scheduled(timer) ELSE timer

\* healNext(): take a target from the pool, or call back.
healNext(h, targets, failures) ==
  IF targets > 0 /\ failures < MaxFailures
  THEN /\ heals' = [heals EXCEPT ![h] =
            [stage |-> "attempting", targets |-> targets - 1, failures |-> failures]]
       /\ UNCHANGED timer
  ELSE CallBack(h)

\* onHostsDiscovered(), with an error or a list of hosts.
HostsDiscovered(h) ==
  /\ heals[h].stage = "discovering"
  /\ CallBack(h) \/ \E targets \in 0..MaxTargets : healNext(h, targets, 0)
  /\ UNCHANGED <<destroyed, readies, isStopped>>

\* onHealAttempt(): a failure, or a success that may spare other targets.
HealAttempted(h) ==
  /\ heals[h].stage = "attempting"
  /\ \/ healNext(h, heals[h].targets, heals[h].failures + 1)
     \/ \E left \in 0..heals[h].targets : healNext(h, left, heals[h].failures)
  /\ UNCHANGED <<destroyed, readies, isStopped>>

\* /admin/healpartition/disco. Before the process is ready it gets an error.
AdminHeal(h) ==
  /\ h \in Admin /\ readies > 0 /\ ~destroyed
  /\ Begin(h)
  /\ UNCHANGED <<destroyed, readies, isStopped, timer>>

-----------------------------------------------------------------------------
(***************************************************************************)
(* The timer.                                                              *)
(***************************************************************************)

\* Mutant: started again while a heal is under way.
StartUnlessSet ==
  IF timer.handle = "set" THEN UNCHANGED <<isStopped, timer>>
  ELSE isStopped' = FALSE /\ timer' = Scheduled(timer)

\* start(), and _run(), which does not heal before there was a timer.
Start ==
  IF timer.handle # "null" THEN UNCHANGED <<isStopped, timer>>
  ELSE isStopped' = FALSE /\ timer' = Scheduled(timer)

\* The ready event, with discoverProviderHealerPeriodicEnabled.
Ready ==
  /\ ~destroyed /\ readies < MaxReadies
  /\ readies' = readies + 1
  /\ Start
  /\ UNCHANGED <<destroyed, heals>>

\* The timers after one of them ran.
Ran ==
  {t \in {[timer EXCEPT !.handle = "ran"]} : timer.handle = "set"}
    \union {t \in {[timer EXCEPT !.others = @ - 1]} : timer.others > 0}

\* Mutant: _run() does not look whether it was stopped.
RunAnyway(t) ==
  \/ timer' = Scheduled(t) /\ UNCHANGED heals
  \/ t.handle # "null" /\ timer' = t /\ \E h \in Periodic : Begin(h)

\* _run(): by chance a heal, or else the next timer.
Run(t) ==
  \/ isStopped /\ timer' = t /\ UNCHANGED heals
  \/ ~isStopped /\ timer' = Scheduled(t) /\ UNCHANGED heals
  \/ ~isStopped /\ t.handle # "null" /\ timer' = t /\ \E h \in Periodic : Begin(h)

HealTimer ==
  /\ \E t \in Ran : Run(t)
  /\ UNCHANGED <<destroyed, readies, isStopped>>

\* The destroyed event, once: stop().
Destroy ==
  /\ ~destroyed
  /\ destroyed' = TRUE
  /\ isStopped' = TRUE
  /\ timer' = [timer EXCEPT !.handle = "null"]
  /\ UNCHANGED <<readies, heals>>

TimerHealStep(h) == HostsDiscovered(h) \/ HealAttempted(h)

TimerNext ==
  \/ Ready \/ HealTimer \/ Destroy
  \/ \E h \in Periodic \union Admin : TimerHealStep(h) \/ AdminHeal(h)

TimerSpec == TimerInit /\ [][TimerNext]_timerVars

\* Timers run, the provider calls back, attempts have a time-out, and a chance
\* that comes again and again is taken.
TimerFairness ==
  /\ WF_timerVars(HealTimer)
  /\ SF_timerVars(HealTimer /\ heals' # heals)
  /\ \A h \in Periodic \union Admin : WF_timerVars(TimerHealStep(h))

TimerFairSpec == TimerSpec /\ TimerFairness

-----------------------------------------------------------------------------
(***************************************************************************)
(* Properties.                                                             *)
(***************************************************************************)

TimerTypeOK ==
  /\ destroyed \in BOOLEAN /\ isStopped \in BOOLEAN
  /\ readies \in 0..MaxReadies
  /\ timer \in Timers
  /\ heals \in [Periodic \union Admin -> HealRecord]

\* While the healer is started there is one chain of timers and heals: a timer
\* that is set or a heal that will set one, however often the process became
\* ready and at whatever moment. After stop() there may be a last one.
OneChain ==
  /\ timer.others = 0
  /\ \A h, g \in Periodic : Busy(h) /\ Busy(g) => h = g
  /\ timer.handle = "set" => \A h \in Periodic : ~Busy(h)
  /\ ~isStopped => timer.handle = "set" \/ \E h \in Periodic : Busy(h)

\* As long as the process lives, it heals again and again, although heals
\* fail and are given up.
HealsAgain == <>[](~isStopped) => []<>(\E h \in Periodic : Busy(h))

\* Every heal ends. Once the process is destroyed they all cease, though one
\* under way then sets another timer that nobody clears.
HealsCease ==
  /\ \A h \in Periodic \union Admin : []<>(~Busy(h))
  /\ destroyed ~> [](timer.handle # "set" /\ \A h \in Periodic : ~Busy(h))
=============================================================================
