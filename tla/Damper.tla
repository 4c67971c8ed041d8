------------------------------- MODULE Damper -------------------------------
(***************************************************************************)
(* Flap damping in one process (lib/gossip/damper.js). Every update of a   *)
(* member raises its damp score, which time lets decay                     *)
(* (lib/membership/member.js). A member whose score reaches the suppress   *)
(* limit is a flapper until the score falls to the reuse limit. While      *)
(* there are flappers a timer starts the damp-req subprotocol: other       *)
(* members are asked for their scores of the flappers, and a flapper that  *)
(* enough of them find flapping too is damped, for a while.                *)
(*                                                                         *)
(* Scores are told apart by the two limits only. One penalty is less than  *)
(* the distance between them.                                              *)
(***************************************************************************)
EXTENDS Integers, SequencesExt, FiniteSetsExt

CONSTANTS
  Others,               \* members that come and go
  Steady,               \* how many more there are, the local one included
  dampReqNVal,          \* how many members are asked
  dampReqRVal,          \* how many of them have to answer
  dampedMaxPercentage,  \* no member is damped when as many are already
  MaxChains             \* bound: subprotocols in flight and overwritten timers

ASSUME DamperAssumption ==
  /\ IsFiniteSet(Others) /\ Steady \in Nat \ {0}
  /\ dampReqNVal \in Nat /\ dampReqRVal \in Nat \ {0}
  /\ dampedMaxPercentage \in Nat /\ MaxChains \in Nat

VARIABLES
  score,            \* score[m], or "unlisted" when m is not in the member list
  flappers,
  dampedMembers,
  dampTimer,        \* null, a timer that is set, or one that ran
  orphans,          \* timers that are set but were overwritten in dampTimer
  expirationTimer,  \* whether it is set
  asking,           \* subprotocols in flight
  destroyed,
  \* History, read by properties only:
  renewed,          \* flappers that left the member list since they were added
  released          \* members above the suppress limit ever since they were undamped

vars == <<score, flappers, dampedMembers, dampTimer, orphans, expirationTimer,
          asking, destroyed, renewed, released>>
history == <<renewed, released>>

Levels == {"reusable", "raised", "suppressed"}
Height == [unlisted |-> 0, reusable |-> 1, raised |-> 2, suppressed |-> 3]

Listed == {m \in Others : score[m] # "unlisted"}

MemberCount == Steady + Cardinality(Listed)

\* A subprotocol: requests without an answer, answers that are still needed,
\* and the flappers asked about which every answer so far confirmed.
Subprotocols ==
  {s \in [pending : 1..dampReqNVal, needed : 1..dampReqRVal, confirmed : SUBSET Others] :
     s.needed <= s.pending}

Init ==
  /\ score \in [Others -> {"unlisted", "reusable"}]
  /\ flappers = {}
  /\ dampedMembers = {}
  /\ dampTimer = "null"
  /\ orphans = 0
  /\ expirationTimer = FALSE
  /\ asking = <<>>
  /\ destroyed = FALSE
  /\ renewed = {} /\ released = {}

-----------------------------------------------------------------------------
(***************************************************************************)
(* Scores, and the flappers they make.                                     *)
(***************************************************************************)

\* removeFlapper() for each of gone: with the last one the timer stops.
TimerWithout(gone) ==
  IF gone \cap flappers # {} /\ flappers \subseteq gone THEN "null" ELSE dampTimer

\* addFlapper() for a member among others: a first one starts the timer.
TimerWith(others) == IF others = {} /\ dampTimer = "null" THEN "set" ELSE dampTimer

\* The timer of _decayMembersDampScore, until the process is destroyed. Who
\* falls to the reuse limit is no flapper any more.
Decay ==
  /\ ~destroyed
  /\ score' \in [Others -> Levels \union {"unlisted"}]
  /\ \A m \in Others :
       IF m \in Listed THEN Height[score'[m]] \in 1..Height[score[m]]
                       ELSE score'[m] = "unlisted"
  /\ LET reusable == {m \in Listed : score[m] # "reusable" /\ score'[m] = "reusable"}
     IN /\ flappers' = flappers \ reusable
        /\ dampTimer' = TimerWithout(reusable)
        /\ renewed' = renewed \ reusable
  /\ released' = {m \in released : score'[m] = "suppressed"}
  /\ UNCHANGED <<dampedMembers, orphans, expirationTimer, asking, destroyed>>

\* _applyUpdatePenalty(): the score decays to a level and rises by one at
\* most. The flapper that has become reusable is removed on the way; a member
\* that reaches the suppress limit becomes a flapper unless it is one already
\* or is damped.
Penalise(m) ==
  /\ m \in Listed
  /\ \E decayed \in Levels, rises \in 0..1 :
       /\ Height[decayed] <= Height[score[m]]
       /\ \E level \in Levels :
            /\ Height[level] = Min({Height[decayed] + rises, 3})
            /\ score' = [score EXCEPT ![m] = level]
            /\ IF decayed = "reusable" /\ score[m] # "reusable"
               THEN /\ flappers' = flappers \ {m}
                    /\ dampTimer' = TimerWithout({m})
               ELSE IF decayed # "suppressed" /\ level = "suppressed"
                         /\ m \notin flappers \union dampedMembers
               THEN /\ flappers' = flappers \union {m}
                    /\ dampTimer' = TimerWith(flappers)
               ELSE UNCHANGED <<flappers, dampTimer>>
            /\ renewed' = renewed \cap flappers'
            /\ released' = {r \in released : score'[r] = "suppressed"}
  /\ UNCHANGED <<dampedMembers, orphans, expirationTimer, asking, destroyed>>

\* The member is evicted; nobody tells the damper.
Evict(m) ==
  /\ m \in Listed
  /\ score' = [score EXCEPT ![m] = "unlisted"]
  /\ renewed' = renewed \union (flappers \cap {m})
  /\ released' = released \ {m}
  /\ UNCHANGED <<flappers, dampedMembers, dampTimer, orphans, expirationTimer,
                 asking, destroyed>>

\* A member is heard of, for the first time or again: its score is fresh.
Enter(m) ==
  /\ m \in Others \ Listed
  /\ score' = [score EXCEPT ![m] = "reusable"]
  /\ UNCHANGED <<flappers, dampedMembers, dampTimer, orphans, expirationTimer,
                 asking, destroyed, history>>

-----------------------------------------------------------------------------
(***************************************************************************)
(* The subprotocol.                                                        *)
(***************************************************************************)

\* _validateDampedClusterLimits().
WithinLimits(damped) ==
  Cardinality(damped) * 100 < dampedMaxPercentage * MemberCount

\* Mutant: the next run is scheduled although the timer was stopped.
ScheduledAnyway(timer, others) ==
  [handle |-> "set", orphans |-> IF timer = "set" THEN others + 1 ELSE others]

\* onSubprotocol(): schedule the next run unless the timer was stopped. It
\* may have been stopped and started meanwhile; then its timer is overwritten.
Scheduled(timer, others) ==
  IF timer = "null" THEN [handle |-> "null", orphans |-> others]
  ELSE [handle |-> "set", orphans |-> IF timer = "set" THEN others + 1 ELSE others]

CallBack(timer, others) ==
  /\ dampTimer' = Scheduled(timer, others).handle
  /\ orphans' = Scheduled(timer, others).orphans

\* The timers that are set, each with what remains when it runs.
Due(timer, others) ==
  \/ dampTimer = "set" /\ timer = "ran" /\ others = orphans
  \/ orphans > 0 /\ timer = dampTimer /\ others = orphans - 1

\* initiateSubprotocol() finds the limit reached, or nobody to ask.
TickInVain ==
  /\ \E timer \in {dampTimer, "ran"}, others \in {orphans, orphans - 1} :
       Due(timer, others) /\ CallBack(timer, others)
  /\ UNCHANGED <<score, flappers, dampedMembers, expirationTimer, asking, destroyed, history>>

\* It asks some of the pingable members that are no flappers.
TickAsks ==
  /\ WithinLimits(dampedMembers)
  /\ \E timer \in {dampTimer, "ran"}, others \in {orphans, orphans - 1} :
       /\ Due(timer, others)
       /\ Len(asking) + others < MaxChains
       /\ dampTimer' = timer /\ orphans' = others
  /\ \E n \in 1..Min({dampReqNVal, Steady - 1 + Cardinality(Listed \ flappers)}) :
       asking' = Append(asking,
         [pending |-> n, needed |-> Min({dampReqRVal, n}), confirmed |-> flappers])
  /\ UNCHANGED <<score, flappers, dampedMembers, expirationTimer, destroyed, history>>

\* Mutant: a flapper is no flapper any more when the limit forbids to damp it.
DampingForgets(done, m) ==
  IF m \in Listed \cap done.flappers
  THEN [flappers |-> done.flappers \ {m},
        damped |-> done.damped \union (IF WithinLimits(done.damped) THEN {m} ELSE {})]
  ELSE done

\* Mutant: the limit is checked before the subprotocol only.
DampingUnlimited(done, m) ==
  IF m \in Listed \cap done.flappers
  THEN [flappers |-> done.flappers \ {m}, damped |-> done.damped \union {m}]
  ELSE done

\* dampMember(): the member is still known and a flapper, and the limit is
\* not reached, with those that were damped just before it.
Damping(done, m) ==
  IF m \in Listed \cap done.flappers /\ WithinLimits(done.damped)
  THEN [flappers |-> done.flappers \ {m}, damped |-> done.damped \union {m}]
  ELSE done

\* The members to damp, in the order in which the answers name them.
Damped(candidates) ==
  {FoldLeft(Damping, [flappers |-> flappers, damped |-> dampedMembers], order) :
     order \in SetToSeqs(candidates)}

\* onFanout(): enough answers.
Conclude(candidates) ==
  \E result \in Damped(candidates) :
    /\ flappers' = result.flappers
    /\ dampedMembers' = result.damped
    /\ expirationTimer' = (expirationTimer \/ result.damped # dampedMembers)
    /\ CallBack(TimerWithout(flappers \ result.flappers), orphans)
    /\ renewed' = renewed \cap flappers'
    /\ UNCHANGED released

\* An answer says which of the flappers are suppressed there too. Only those
\* that all of the answers confirm are damped.
Answered(i) ==
  /\ \E confirmed \in SUBSET asking[i].confirmed :
       IF asking[i].needed = 1
       THEN /\ Conclude(confirmed)
            /\ asking' = RemoveAt(asking, i)
       ELSE /\ asking' = [asking EXCEPT ![i].pending = @ - 1, ![i].needed = @ - 1,
                                        ![i].confirmed = confirmed]
            /\ UNCHANGED <<flappers, dampedMembers, expirationTimer, dampTimer, orphans, history>>
  /\ UNCHANGED <<score, destroyed>>

\* Mutant: the last request decides that too many have failed.
UnattainableAtLast(pending, needed) == pending = 0

Unattainable(pending, needed) == pending < needed

\* A request fails: when too few are left, the subprotocol has failed.
Failed(i) ==
  /\ IF Unattainable(asking[i].pending - 1, asking[i].needed)
     THEN /\ CallBack(dampTimer, orphans)
          /\ asking' = RemoveAt(asking, i)
     ELSE /\ asking' = [asking EXCEPT ![i].pending = @ - 1]
          /\ UNCHANGED <<dampTimer, orphans>>
  /\ UNCHANGED <<score, flappers, dampedMembers, expirationTimer, destroyed, history>>

\* Mutant: the timer stops with the first members it releases.
NeededForNobodyElse(damped) == damped = dampedMembers

\* expireDampedMembers(): some have been damped for long enough.
NeededFor(damped) == damped # {} \/ damped = dampedMembers

ExpirationTick ==
  /\ expirationTimer
  /\ dampedMembers' \in SUBSET dampedMembers
  /\ expirationTimer' = NeededFor(dampedMembers')
  /\ released' = released \union {m \in dampedMembers \ dampedMembers' : score[m] = "suppressed"}
  /\ UNCHANGED <<score, flappers, dampTimer, orphans, asking, destroyed, renewed>>

\* destroy() clears the two timers it knows. Answers may still come in.
Destroy ==
  /\ ~destroyed
  /\ destroyed' = TRUE
  /\ dampTimer' = "null"
  /\ expirationTimer' = FALSE
  /\ UNCHANGED <<score, flappers, dampedMembers, orphans, asking, history>>

Next ==
  \/ Decay \/ TickInVain \/ TickAsks \/ ExpirationTick \/ Destroy
  \/ \E m \in Others : Penalise(m) \/ Evict(m) \/ Enter(m)
  \/ \E i \in DOMAIN asking : Answered(i) \/ Failed(i)

Spec == Init /\ [][Next]_vars

\* The expiration timer runs, and in the end every damped member has been
\* damped for long enough.
Fairness ==
  \A m \in Others : WF_vars(ExpirationTick /\ m \in dampedMembers \ dampedMembers')

FairSpec == Spec /\ Fairness

-----------------------------------------------------------------------------
(***************************************************************************)
(* Properties.                                                             *)
(***************************************************************************)

TypeOK ==
  /\ score \in [Others -> Levels \union {"unlisted"}]
  /\ flappers \subseteq Others /\ dampedMembers \subseteq Others
  /\ dampTimer \in {"null", "set", "ran"}
  /\ orphans \in 0..MaxChains
  /\ expirationTimer \in BOOLEAN /\ destroyed \in BOOLEAN
  /\ asking \in Seq(Subprotocols)
  /\ renewed \subseteq flappers /\ released \subseteq Others

\* While there are flappers - and only then - the damp timer is set or a
\* subprotocol it started has yet to call back, and while members are damped
\* the expiration timer is set: whatever is added and removed meanwhile.
TimersFollow ==
  /\ dampTimer = "ran" => asking # <<>>
  /\ ~destroyed => /\ dampTimer # "null" <=> flappers # {}
                   /\ expirationTimer <=> dampedMembers # {}

\* A member above the suppress limit is a flapper or damped, unless it has
\* been above it ever since its damping expired. A flapper is not damped, and
\* its score is above the reuse limit, unless it left the list meanwhile.
NobodyOverlooked ==
  /\ \A m \in Others :
       score[m] = "suppressed" => m \in flappers \union dampedMembers \union released
  /\ flappers \cap dampedMembers = {}
  /\ \A m \in flappers \ renewed : score[m] \in {"raised", "suppressed"}

\* Nobody is damped beyond the limit, even when one subprotocol damps several
\* or members are evicted: the last one is damped while the others are fewer
\* than the limit allows.
DampedWithinLimit ==
  [][~(dampedMembers' \subseteq dampedMembers) =>
       (Cardinality(dampedMembers') - 1) * 100
         < dampedMaxPercentage * MemberCount]_vars

\* No member stays damped for ever, unless the process is destroyed.
DampedIsReleased ==
  \A m \in Others : m \in dampedMembers ~> (m \notin dampedMembers \/ destroyed)
=============================================================================
