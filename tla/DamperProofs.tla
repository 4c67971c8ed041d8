---------------------------- MODULE DamperProofs ----------------------------
(***************************************************************************)
(* Proofs about Damper, for every finite set of members, every limit and   *)
(* every number of members asked.                                          *)
(*                                                                         *)
(* The members that a subprotocol damps are found by a fold over the order *)
(* in which the answers name them. What each step of the fold preserves,   *)
(* its result has; that is proved by induction on the length of the order. *)
(***************************************************************************)
EXTENDS Damper, FiniteSetTheorems, TLAPS

\* Subprotocols in flight and timers that nobody holds: each of the latter
\* was set by one of the former.
ChainsBounded == Len(asking) + orphans <= MaxChains

IInv == TypeOK /\ ChainsBounded /\ TimersFollow /\ NobodyOverlooked

-----------------------------------------------------------------------------
(***************************************************************************)
(* Induction, without an operator for what is proved: over sets of         *)
(* numbers.                                                                *)
(***************************************************************************)

\* A set of numbers has a least one.
LEMMA LeastNumber ==
  ASSUME NEW S \in SUBSET Nat, S # {}
  PROVE  \E n \in S : \A k \in S : n <= k
<1>1. PICK n \in S : \A k \in S : ~(<<k, n>> \in OpToRel(<, Nat))
  BY NatLessThanWellFounded, WFMin
<1>2. \A k \in S : ~(k < n)
  BY <1>1 DEF OpToRel
<1> QED BY <1>2

\* A set of numbers with 0 and with the successor of each has them all.
LEMMA AllNumbers ==
  ASSUME NEW S \in SUBSET Nat, 0 \in S, \A n \in S : n + 1 \in S
  PROVE  S = Nat
<1> SUFFICES ASSUME Nat \ S # {} PROVE FALSE
  OBVIOUS
<1>1. PICK n \in Nat \ S : \A k \in Nat \ S : n <= k
  BY LeastNumber
<1>2. n # 0 /\ n - 1 \in Nat
  BY <1>1
<1>3. n - 1 \in S
  BY <1>1, <1>2
<1>4. (n - 1) + 1 \in S
  BY <1>3
<1> QED BY <1>1, <1>4

\* Of some of the first numbers, one is the greatest.
LEMMA Greatest ==
  ASSUME NEW n \in Nat, NEW S \in SUBSET (1..n), S # {}
  PROVE  Max(S) \in S /\ S \ {Max(S)} \in SUBSET (1..(n - 1))
<1> DEFINE D == {n - k : k \in S}
<1>1. D \subseteq Nat
  <2>1. \A k \in S : n - k \in Nat
    OBVIOUS
  <2> QED BY <2>1
<1>2. D # {}
  OBVIOUS
<1>3. PICK d \in D : \A e \in D : d <= e
  BY <1>1, <1>2, LeastNumber
<1>4. PICK m \in S : d = n - m
  BY <1>3
<1>5. \A k \in S : n - m <= n - k
  BY <1>3, <1>4
<1>6. \A k \in S : m >= k
  BY <1>5
<1>7. PICK x \in S : x = Max(S) /\ \A y \in S : x >= y
  BY <1>6 DEF Max
<1>8. \A y \in S \ {x} : y \in 1..(n - 1)
  BY <1>7
<1> QED BY <1>7, <1>8

-----------------------------------------------------------------------------
(***************************************************************************)
(* Damping the members of a sequence one after the other is a fold.        *)
(***************************************************************************)

\* The fold up to the last of the places in s, when g has the ones before.
FoldStep(g, base, order, s) ==
  IF s = {} THEN base ELSE Damping(g[s \ {Max(s)}], order[Max(s)])

IsFold(g, base, order, n) ==
  g = [s \in SUBSET (1..n) |-> FoldStep(g, base, order, s)]

\* What FoldLeft is defined to be.
LEMMA FoldIs ==
  ASSUME NEW base, NEW order
  PROVE  FoldLeft(Damping, base, order) =
           (CHOOSE g : g = [s \in SUBSET (DOMAIN order) |-> FoldStep(g, base, order, s)])[DOMAIN order]
  BY DEF FoldLeft, MapThenFoldSet, FoldStep

\* There is a fold of every length: the one before it and one step.
LEMMA FoldExists ==
  ASSUME NEW base, NEW order, NEW n \in Nat
  PROVE  \E g : IsFold(g, base, order, n)
<1> DEFINE Lengths == {k \in Nat : \E g : IsFold(g, base, order, k)}
<1>1. 0 \in Lengths
  <2> DEFINE g == [s \in SUBSET (1..0) |-> base]
  <2>1. \A s \in SUBSET (1..0) : s = {}
    OBVIOUS
  <2>2. \A h : [s \in SUBSET (1..0) |-> FoldStep(h, base, order, s)] = g
    BY <2>1 DEF FoldStep
  <2>3. IsFold(g, base, order, 0)
    BY <2>2 DEF IsFold
  <2> QED BY <2>3
<1>2. ASSUME NEW k \in Lengths PROVE k + 1 \in Lengths
  <2>1. PICK g : IsFold(g, base, order, k)
    OBVIOUS
  <2> DEFINE h == [s \in SUBSET (1..(k + 1)) |-> FoldStep(g, base, order, s)]
  <2>2. \A s \in SUBSET (1..k) : h[s] = g[s]
    BY <2>1 DEF IsFold
  <2>3. ASSUME NEW s \in SUBSET (1..(k + 1))
        PROVE  FoldStep(h, base, order, s) = FoldStep(g, base, order, s)
    <3>1. CASE s = {}
      BY <3>1 DEF FoldStep
    <3>2. CASE s # {}
      <4>1. k + 1 \in Nat /\ (k + 1) - 1 = k
        OBVIOUS
      <4>2. s \ {Max(s)} \in SUBSET (1..k)
        BY <3>2, <4>1, Greatest
      <4> HIDE DEF h
      <4> QED BY <2>2, <4>2 DEF FoldStep
    <3> QED BY <3>1, <3>2
  <2>4. h = [s \in SUBSET (1..(k + 1)) |-> FoldStep(h, base, order, s)]
    <3> HIDE DEF h
    <3>1. [s \in SUBSET (1..(k + 1)) |-> FoldStep(h, base, order, s)]
            = [s \in SUBSET (1..(k + 1)) |-> FoldStep(g, base, order, s)]
      BY <2>3
    <3> QED BY <3>1 DEF h
  <2>5. IsFold(h, base, order, k + 1)
    BY <2>4 DEF IsFold
  <2> QED BY <2>5
<1> HIDE DEF Lengths
<1>3. Lengths = Nat
  BY <1>1, <1>2, AllNumbers DEF Lengths
<1> QED BY <1>3 DEF Lengths

\* What holds at first and of each step holds of the result.
LEMMA FoldPreserves ==
  ASSUME NEW base, NEW n \in Nat, NEW order, DOMAIN order = 1..n,
         NEW R, base \in R,
         \A done \in R, i \in 1..n : Damping(done, order[i]) \in R
  PROVE  FoldLeft(Damping, base, order) \in R
<1>1. \E g : g = [s \in SUBSET (1..n) |-> FoldStep(g, base, order, s)]
  <2>1. \E g : IsFold(g, base, order, n)
    BY FoldExists
  <2> QED BY <2>1, Zenon DEF IsFold
<1> DEFINE iter == CHOOSE f : f = [s \in SUBSET (1..n) |-> FoldStep(f, base, order, s)]
<1>2. iter = [s \in SUBSET (1..n) |-> FoldStep(iter, base, order, s)]
  BY <1>1
<1>3. FoldLeft(Damping, base, order) = iter[1..n]
  BY FoldIs
<1> HIDE DEF iter
<1> DEFINE Lengths == {k \in Nat : \A s \in SUBSET (1..k) : s \in SUBSET (1..n) => iter[s] \in R}
<1>4. 0 \in Lengths
  BY <1>2 DEF FoldStep
<1>5. ASSUME NEW k \in Lengths PROVE k + 1 \in Lengths
  <2>1. ASSUME NEW s \in SUBSET (1..(k + 1)), s \in SUBSET (1..n) PROVE iter[s] \in R
    <3>1. iter[s] = FoldStep(iter, base, order, s)
      BY <1>2, <2>1
    <3>2. CASE s = {}
      BY <3>1, <3>2 DEF FoldStep
    <3>3. CASE s # {}
      <4>1. k + 1 \in Nat /\ (k + 1) - 1 = k
        BY <1>5
      <4>2. s \ {Max(s)} \in SUBSET (1..k) /\ Max(s) \in 1..n
        BY <2>1, <3>3, <4>1, Greatest
      <4>3. iter[s \ {Max(s)}] \in R
        BY <4>2, <2>1
      <4> QED BY <3>1, <3>3, <4>2, <4>3 DEF FoldStep
    <3> QED BY <3>2, <3>3
  <2> QED BY <2>1
<1> HIDE DEF Lengths
<1>6. Lengths = Nat
  BY <1>4, <1>5, AllNumbers DEF Lengths
<1>7. n \in Lengths
  BY <1>6
<1>8. 1..n \in SUBSET (1..n)
  OBVIOUS
<1> QED BY <1>3, <1>7, <1>8 DEF Lengths

-----------------------------------------------------------------------------
(***************************************************************************)
(* Numbers.                                                                *)
(***************************************************************************)

\* The lesser of two numbers.
LEMMA MinOfTwo ==
  ASSUME NEW a \in Nat, NEW b \in Nat
  PROVE  Min({a, b}) \in {a, b} /\ Min({a, b}) <= a /\ Min({a, b}) <= b
<1>1. \E x \in {a, b} : \A y \in {a, b} : x =< y
  OBVIOUS
<1>2. PICK x \in {a, b} : x = Min({a, b}) /\ \A y \in {a, b} : x =< y
  BY <1>1 DEF Min
<1> QED BY <1>2

\* Members are counted.
LEMMA MembersCounted ==
  ASSUME NEW S \in SUBSET Others
  PROVE  IsFiniteSet(S) /\ Cardinality(S) \in Nat
  BY DamperAssumption, FS_Subset, FS_CardinalityType

\* What is left in a sequence without one of its places.
LEMMA RemoveAtTyped ==
  ASSUME NEW S, NEW s \in Seq(S), NEW i \in DOMAIN s
  PROVE  RemoveAt(s, i) \in Seq(S) /\ Len(RemoveAt(s, i)) = Len(s) - 1
<1>1. SubSeq(s, 1, i - 1) \in Seq(S) /\ Len(SubSeq(s, 1, i - 1)) = i - 1
  OBVIOUS
<1>2. SubSeq(s, i + 1, Len(s)) \in Seq(S) /\ Len(SubSeq(s, i + 1, Len(s))) = Len(s) - i
  OBVIOUS
<1>3. \A a, b \in Seq(S) : a \o b \in Seq(S) /\ Len(a \o b) = Len(a) + Len(b)
  OBVIOUS
<1>4. i - 1 + (Len(s) - i) = Len(s) - 1
  OBVIOUS
<1>5. /\ RemoveAt(s, i) \in Seq(S)
      /\ Len(RemoveAt(s, i)) = Len(SubSeq(s, 1, i - 1)) + Len(SubSeq(s, i + 1, Len(s)))
  BY <1>1, <1>2, <1>3 DEF RemoveAt
<1> QED BY <1>1, <1>2, <1>4, <1>5

-----------------------------------------------------------------------------
(***************************************************************************)
(* Damping.                                                                *)
(***************************************************************************)

\* Flappers become damped, nobody else does, and whoever is damped last found
\* the limit not reached.
Outcomes ==
  {done \in [flappers : SUBSET flappers, damped : SUBSET Others] :
     /\ done.flappers \union done.damped = flappers \union dampedMembers
     /\ done.flappers \cap done.damped = {}
     /\ dampedMembers \subseteq done.damped
     /\ done.damped = dampedMembers \/
          (Cardinality(done.damped) - 1) * 100 < dampedMaxPercentage * MemberCount}

\* One member more.
LEMMA DampingOutcome ==
  ASSUME NEW done \in Outcomes, NEW m \in Others
  PROVE  Damping(done, m) \in Outcomes
<1>1. CASE ~(m \in Listed \cap done.flappers /\ WithinLimits(done.damped))
  BY <1>1 DEF Damping
<1>2. CASE m \in Listed \cap done.flappers /\ WithinLimits(done.damped)
  <2> DEFINE damped == done.damped \union {m}
             result == [flappers |-> done.flappers \ {m}, damped |-> damped]
  <2>1. Damping(done, m) = result
    BY <1>2 DEF Damping
  <2>2. m \in done.flappers /\ m \notin done.damped
    BY <1>2 DEF Outcomes
  <2>3. IsFiniteSet(done.damped) /\ Cardinality(done.damped) \in Nat
    BY MembersCounted DEF Outcomes
  <2>4. Cardinality(damped) - 1 = Cardinality(done.damped)
    <3>1. Cardinality(damped) = Cardinality(done.damped) + 1
      BY <2>2, <2>3, FS_AddElement
    <3> QED BY <2>3, <3>1
  <2>5. (Cardinality(damped) - 1) * 100 < dampedMaxPercentage * MemberCount
    BY <1>2, <2>4 DEF WithinLimits
  <2>6. damped \in SUBSET Others
    BY DEF Outcomes
  <2> HIDE DEF damped
  <2>7. result \in [flappers : SUBSET flappers, damped : SUBSET Others]
    BY <2>6 DEF Outcomes
  <2>8. /\ result.flappers \union damped = flappers \union dampedMembers
        /\ result.flappers \cap damped = {}
        /\ dampedMembers \subseteq damped
    BY <2>2 DEF Outcomes, damped
  <2> QED BY <2>1, <2>5, <2>7, <2>8 DEF Outcomes
<1> QED BY <1>1, <1>2

\* All of them, in whatever order.
LEMMA DampedOutcome ==
  ASSUME TypeOK, NobodyOverlooked, NEW candidates \in SUBSET Others
  PROVE  Damped(candidates) \subseteq Outcomes
<1>1. SUFFICES ASSUME NEW order \in SetToSeqs(candidates)
               PROVE  FoldLeft(Damping, [flappers |-> flappers, damped |-> dampedMembers], order)
                        \in Outcomes
  BY DEF Damped
<1>2. [flappers |-> flappers, damped |-> dampedMembers] \in Outcomes
  BY DEF Outcomes, TypeOK, NobodyOverlooked
<1>3. Cardinality(candidates) \in Nat
  BY MembersCounted
<1>4. order \in [1..Cardinality(candidates) -> candidates]
  BY DEF SetToSeqs
<1>5. \A done \in Outcomes, i \in 1..Cardinality(candidates) : Damping(done, order[i]) \in Outcomes
  BY <1>4, DampingOutcome
<1> HIDE DEF Outcomes
<1> QED BY <1>2, <1>3, <1>4, <1>5, FoldPreserves

-----------------------------------------------------------------------------
(***************************************************************************)
(* The timers.                                                             *)
(***************************************************************************)

\* A callback never leaves a timer that ran; it sets one unless the timer was
\* stopped, and overwrites one only if it is set.
LEMMA ScheduledTimer ==
  ASSUME NEW timer \in {"null", "set", "ran"}, NEW others \in Nat, CallBack(timer, others)
  PROVE  /\ dampTimer' \in {"null", "set"} /\ (dampTimer' = "null" <=> timer = "null")
         /\ orphans' \in Nat /\ orphans' <= others + 1
         /\ timer = "ran" => orphans' = others
  BY DEF CallBack, Scheduled

\* A timer that runs leaves no more of them than there were.
LEMMA DueTimer ==
  ASSUME TypeOK, NEW timer, NEW others, Due(timer, others)
  PROVE  /\ timer \in {"null", "set", "ran"} /\ others \in Nat
         /\ timer = "null" <=> dampTimer = "null"
         /\ \/ timer = "ran" /\ others = orphans
            \/ timer = dampTimer /\ others + 1 = orphans
<1>1. orphans \in Nat /\ dampTimer \in {"null", "set", "ran"}
  BY DamperAssumption DEF TypeOK
<1>2. CASE dampTimer = "set" /\ timer = "ran" /\ others = orphans
  BY <1>1, <1>2
<1>3. CASE orphans > 0 /\ timer = dampTimer /\ others = orphans - 1
  BY <1>1, <1>3
<1> QED BY <1>2, <1>3 DEF Due

\* Flappers go: the timer stops with the last one.
LEMMA TimerStops ==
  ASSUME TypeOK, TimersFollow, NEW gone, NEW left, left = flappers \ gone
  PROVE  /\ TimerWithout(gone) \in {dampTimer, "null"}
         /\ ~destroyed => (TimerWithout(gone) # "null" <=> left # {})
<1>1. CASE gone \cap flappers # {} /\ flappers \subseteq gone
  BY <1>1 DEF TimerWithout, TypeOK
<1>2. CASE ~(gone \cap flappers # {} /\ flappers \subseteq gone)
  <2>1. TimerWithout(gone) = dampTimer
    BY <1>2 DEF TimerWithout
  <2>2. left = {} <=> flappers = {}
    BY <1>2
  <2> QED BY <2>1, <2>2 DEF TimersFollow
<1> QED BY <1>1, <1>2

-----------------------------------------------------------------------------
(***************************************************************************)
(* The actions, one after the other.                                       *)
(***************************************************************************)

\* At first nobody flaps.
LEMMA InitIInv == Init => IInv
<1> SUFFICES ASSUME Init PROVE IInv
  OBVIOUS
<1>1. score \in [Others -> Levels \union {"unlisted"}] /\ \A m \in Others : score[m] # "suppressed"
  BY DEF Init, Levels
<1>2. asking \in Seq(Subprotocols) /\ Len(asking) = 0 /\ orphans = 0
  BY DEF Init
<1>3. TypeOK
  <2>1. orphans \in 0..MaxChains
    BY <1>2, DamperAssumption
  <2> QED BY <1>1, <1>2, <2>1 DEF Init, TypeOK
<1>4. ChainsBounded
  BY <1>2, DamperAssumption DEF ChainsBounded
<1>5. TimersFollow /\ NobodyOverlooked
  BY <1>1 DEF Init, TimersFollow, NobodyOverlooked
<1> QED BY <1>3, <1>4, <1>5 DEF IInv

\* Scores decay.
LEMMA DecayKeeps ==
  ASSUME IInv, Decay
  PROVE  IInv'
<1> DEFINE reusable == {m \in Listed : score[m] # "reusable" /\ score'[m] = "reusable"}
<1>1. /\ score' \in [Others -> Levels \union {"unlisted"}]
      /\ flappers' = flappers \ reusable /\ renewed' = renewed \ reusable
      /\ dampTimer' = TimerWithout(reusable)
      /\ released' = {m \in released : score'[m] = "suppressed"}
      /\ UNCHANGED <<dampedMembers, orphans, expirationTimer, asking, destroyed>>
  BY DEF Decay
<1>2. \A m \in Others :
        IF m \in Listed THEN Height[score'[m]] \in 1..Height[score[m]]
                        ELSE score'[m] = "unlisted"
  BY DEF Decay
<1>3. \A m \in Others : score'[m] = "suppressed" => score[m] = "suppressed"
  BY <1>1, <1>2 DEF IInv, TypeOK, Levels, Height, Listed
<1>4. \A m \in Others : score[m] \in {"raised", "suppressed"} =>
        m \in reusable \/ score'[m] \in {"raised", "suppressed"}
  BY <1>1, <1>2 DEF IInv, TypeOK, Levels, Height, Listed
<1>5. \A m \in reusable : score'[m] = "reusable"
  OBVIOUS
<1> HIDE DEF reusable
<1>6. /\ dampTimer' \in {dampTimer, "null"}
      /\ ~destroyed => (dampTimer' # "null" <=> flappers' # {})
  BY <1>1, TimerStops DEF IInv
<1>7. TypeOK'
  BY <1>1, <1>6 DEF IInv, TypeOK
<1>8. TimersFollow'
  BY <1>1, <1>6 DEF IInv, TimersFollow
<1>9. NobodyOverlooked'
  BY <1>1, <1>3, <1>4, <1>5 DEF IInv, TypeOK, NobodyOverlooked
<1> QED BY <1>1, <1>7, <1>8, <1>9 DEF IInv, ChainsBounded

\* A member is penalised: it may cease to be a flapper on the way, or become one.
LEMMA PenaliseKeeps ==
  ASSUME IInv, NEW m \in Others, Penalise(m)
  PROVE  IInv'
<1>1. PICK decayed \in Levels, rises \in 0..1, level \in Levels :
        /\ Height[decayed] <= Height[score[m]]
        /\ Height[level] = Min({Height[decayed] + rises, 3})
        /\ score' = [score EXCEPT ![m] = level]
        /\ IF decayed = "reusable" /\ score[m] # "reusable"
           THEN /\ flappers' = flappers \ {m}
                /\ dampTimer' = TimerWithout({m})
           ELSE IF decayed # "suppressed" /\ level = "suppressed"
                     /\ m \notin flappers \union dampedMembers
           THEN /\ flappers' = flappers \union {m}
                /\ dampTimer' = TimerWith(flappers)
           ELSE UNCHANGED <<flappers, dampTimer>>
  BY DEF Penalise
<1>2. /\ m \in Listed
      /\ renewed' = renewed \cap flappers'
      /\ released' = {r \in released : score'[r] = "suppressed"}
      /\ UNCHANGED <<dampedMembers, orphans, expirationTimer, asking, destroyed>>
  BY DEF Penalise
<1>3. score' \in [Others -> Levels \union {"unlisted"}] /\ score'[m] = level
      /\ \A x \in Others \ {m} : score'[x] = score[x]
  BY <1>1 DEF IInv, TypeOK
<1>4. Height[level] = Height[decayed] \/ Height[level] = Height[decayed] + 1
  <2>1. Height[decayed] \in 1..3
    BY DEF Levels, Height
  <2>2. Min({Height[decayed] + rises, 3}) \in {Height[decayed] + rises, 3}
        /\ Min({Height[decayed] + rises, 3}) <= Height[decayed] + rises
        /\ Min({Height[decayed] + rises, 3}) <= 3
    BY <2>1, MinOfTwo
  <2> QED BY <1>1, <2>1, <2>2
<1>5. decayed = "reusable" => level # "suppressed"
  BY <1>4 DEF Height, Levels
<1>6. decayed # "reusable" => level # "reusable"
  BY <1>4 DEF Height, Levels
<1>7. decayed # "reusable" => score[m] # "reusable"
  BY <1>1, <1>2 DEF Height, Levels, IInv, TypeOK, Listed
<1>8. decayed = "suppressed" => score[m] = "suppressed"
  BY <1>1, <1>2 DEF Height, Levels, IInv, TypeOK, Listed
<1>9. CASE decayed = "reusable" /\ score[m] # "reusable"
  <2>1. flappers' = flappers \ {m} /\ dampTimer' = TimerWithout({m})
    BY <1>1, <1>9
  <2>2. /\ dampTimer' \in {dampTimer, "null"}
        /\ ~destroyed => (dampTimer' # "null" <=> flappers' # {})
    BY <2>1, TimerStops DEF IInv
  <2>3. TypeOK'
    BY <1>2, <1>3, <2>1, <2>2 DEF IInv, TypeOK
  <2>4. TimersFollow'
    BY <1>2, <2>2 DEF IInv, TimersFollow
  <2>5. NobodyOverlooked'
    BY <1>2, <1>3, <1>5, <1>9, <2>1 DEF IInv, TypeOK, NobodyOverlooked
  <2> QED BY <1>2, <2>3, <2>4, <2>5 DEF IInv, ChainsBounded
<1>10. CASE ~(decayed = "reusable" /\ score[m] # "reusable")
  <2>1. m \in flappers => decayed # "reusable" \/ m \in renewed
    BY <1>10 DEF IInv, NobodyOverlooked
  <2>2. CASE decayed # "suppressed" /\ level = "suppressed"
               /\ m \notin flappers \union dampedMembers
    <3>1. flappers' = flappers \union {m} /\ dampTimer' = TimerWith(flappers)
      BY <1>1, <1>10, <2>2
    <3>2. /\ dampTimer' \in {dampTimer, "set"}
          /\ ~destroyed => dampTimer' # "null"
      BY <3>1 DEF IInv, TimersFollow, TimerWith
    <3>3. TypeOK'
      BY <1>2, <1>3, <3>1, <3>2 DEF IInv, TypeOK
    <3>4. TimersFollow'
      BY <1>2, <3>1, <3>2 DEF IInv, TimersFollow
    <3>5. NobodyOverlooked'
      BY <1>2, <1>3, <2>2, <3>1 DEF IInv, TypeOK, NobodyOverlooked
    <3> QED BY <1>2, <3>3, <3>4, <3>5 DEF IInv, ChainsBounded
  <2>3. CASE ~(decayed # "suppressed" /\ level = "suppressed"
                 /\ m \notin flappers \union dampedMembers)
    <3>1. UNCHANGED <<flappers, dampTimer>>
      BY <1>1, <1>10, <2>3
    <3>2. TypeOK'
      BY <1>2, <1>3, <3>1 DEF IInv, TypeOK
    <3>3. TimersFollow'
      BY <1>2, <3>1 DEF IInv, TimersFollow
    <3>4. score'[m] = "suppressed" => m \in flappers \union dampedMembers \union released'
      BY <1>2, <1>3, <1>8, <2>3 DEF IInv, NobodyOverlooked
    <3>5. m \in flappers \ renewed' => score'[m] \in {"raised", "suppressed"}
      BY <1>2, <1>3, <1>6, <2>1, <3>1 DEF IInv, TypeOK, Levels
    <3>6. NobodyOverlooked'
      BY <1>2, <1>3, <3>1, <3>4, <3>5 DEF IInv, TypeOK, NobodyOverlooked
    <3> QED BY <1>2, <3>2, <3>3, <3>6 DEF IInv, ChainsBounded
  <2> QED BY <2>2, <2>3
<1> QED BY <1>9, <1>10

\* A member leaves the list or enters it.
LEMMA ComesAndGoes ==
  ASSUME IInv, NEW m \in Others, Evict(m) \/ Enter(m)
  PROVE  IInv'
<1>1. CASE Evict(m)
  <2>1. /\ score' = [score EXCEPT ![m] = "unlisted"]
        /\ renewed' = renewed \union (flappers \cap {m}) /\ released' = released \ {m}
        /\ UNCHANGED <<flappers, dampedMembers, dampTimer, orphans, expirationTimer,
                       asking, destroyed>>
    BY <1>1 DEF Evict
  <2>2. TypeOK'
    BY <2>1 DEF IInv, TypeOK
  <2>3. NobodyOverlooked'
    BY <2>1 DEF IInv, TypeOK, NobodyOverlooked
  <2> QED BY <2>1, <2>2, <2>3 DEF IInv, ChainsBounded, TimersFollow
<1>2. CASE Enter(m)
  <2>1. /\ m \notin Listed /\ score' = [score EXCEPT ![m] = "reusable"]
        /\ UNCHANGED <<flappers, dampedMembers, dampTimer, orphans, expirationTimer,
                       asking, destroyed, renewed, released>>
    BY <1>2 DEF Enter, history
  <2>2. TypeOK'
    BY <2>1 DEF IInv, TypeOK, Levels
  <2>3. NobodyOverlooked'
    BY <2>1 DEF IInv, TypeOK, NobodyOverlooked, Listed
  <2> QED BY <2>1, <2>2, <2>3 DEF IInv, ChainsBounded, TimersFollow
<1> QED BY <1>1, <1>2

\* A timer runs, and nobody is asked.
LEMMA TickInVainKeeps ==
  ASSUME IInv, TickInVain
  PROVE  IInv'
<1>1. PICK timer \in {dampTimer, "ran"}, others \in {orphans, orphans - 1} :
        Due(timer, others) /\ CallBack(timer, others)
  BY DEF TickInVain
<1>2. UNCHANGED <<score, flappers, dampedMembers, expirationTimer, asking, destroyed,
                  renewed, released>>
  BY DEF TickInVain, history
<1>3. orphans \in Nat /\ orphans <= MaxChains /\ MaxChains \in Nat /\ Len(asking) \in Nat
  BY DamperAssumption DEF IInv, TypeOK
<1>4. /\ dampTimer' \in {"null", "set"} /\ (dampTimer' = "null" <=> dampTimer = "null")
      /\ orphans' \in Nat /\ orphans' <= orphans
  BY <1>1, <1>3, DueTimer, ScheduledTimer DEF IInv
<1>5. TypeOK'
  BY <1>2, <1>3, <1>4 DEF IInv, TypeOK
<1>6. ChainsBounded'
  BY <1>2, <1>3, <1>4 DEF IInv, ChainsBounded
<1>7. TimersFollow'
  BY <1>2, <1>4 DEF IInv, TimersFollow
<1> QED BY <1>2, <1>5, <1>6, <1>7 DEF IInv, NobodyOverlooked

\* A timer runs and starts a subprotocol.
LEMMA TickAsksKeeps ==
  ASSUME IInv, TickAsks
  PROVE  IInv'
<1>1. PICK timer \in {dampTimer, "ran"}, others \in {orphans, orphans - 1} :
        /\ Due(timer, others)
        /\ Len(asking) + others < MaxChains
        /\ dampTimer' = timer /\ orphans' = others
  BY DEF TickAsks
<1>2. PICK n \in 1..Min({dampReqNVal, Steady - 1 + Cardinality(Listed \ flappers)}) :
        asking' = Append(asking,
          [pending |-> n, needed |-> Min({dampReqRVal, n}), confirmed |-> flappers])
  BY DEF TickAsks
<1>3. UNCHANGED <<score, flappers, dampedMembers, expirationTimer, destroyed, renewed, released>>
  BY DEF TickAsks, history
<1> DEFINE asked == [pending |-> n, needed |-> Min({dampReqRVal, n}), confirmed |-> flappers]
<1>4. asked \in Subprotocols
  <2>1. Cardinality(Listed \ flappers) \in Nat
    BY MembersCounted DEF Listed
  <2>2. dampReqNVal \in Nat /\ Steady - 1 + Cardinality(Listed \ flappers) \in Nat
    BY <2>1, DamperAssumption
  <2>3. Min({dampReqNVal, Steady - 1 + Cardinality(Listed \ flappers)}) \in Nat
        /\ Min({dampReqNVal, Steady - 1 + Cardinality(Listed \ flappers)}) <= dampReqNVal
    BY <2>2, MinOfTwo
  <2>4. n \in 1..dampReqNVal /\ n \in Nat /\ dampReqRVal \in Nat \ {0}
    BY <2>2, <2>3, DamperAssumption
  <2>5. Min({dampReqRVal, n}) \in 1..dampReqRVal /\ Min({dampReqRVal, n}) <= n
    BY <2>4, MinOfTwo
  <2>6. flappers \in SUBSET Others
    BY DEF IInv, TypeOK
  <2> QED BY <2>4, <2>5, <2>6 DEF Subprotocols
<1> HIDE DEF asked
<1>5. /\ asking' \in Seq(Subprotocols) /\ Len(asking') = Len(asking) + 1 /\ asking' # <<>>
      /\ Len(asking) \in Nat
  BY <1>2, <1>4 DEF asked, IInv, TypeOK
<1>6. /\ timer \in {"null", "set", "ran"} /\ others \in Nat
      /\ timer = "null" <=> dampTimer = "null"
  BY <1>1, DueTimer DEF IInv
<1>7. others \in 0..MaxChains
  BY <1>1, <1>5, <1>6, DamperAssumption
<1>8. TypeOK'
  BY <1>1, <1>3, <1>5, <1>6, <1>7 DEF IInv, TypeOK
<1>9. ChainsBounded'
  BY <1>1, <1>5, <1>6, DamperAssumption DEF ChainsBounded
<1>10. TimersFollow'
  BY <1>1, <1>3, <1>5, <1>6 DEF IInv, TimersFollow
<1> QED BY <1>3, <1>8, <1>9, <1>10 DEF IInv, NobodyOverlooked

\* A subprotocol calls back, when the timer may have been stopped.
LEMMA CalledBack ==
  ASSUME IInv, NEW i \in DOMAIN asking, asking' = RemoveAt(asking, i),
         NEW timer \in {dampTimer, "null"}, CallBack(timer, orphans)
  PROVE  /\ asking' \in Seq(Subprotocols)
         /\ dampTimer' \in {"null", "set"} /\ (dampTimer' = "null" <=> timer = "null")
         /\ orphans' \in 0..MaxChains
         /\ ChainsBounded'
<1>1. asking \in Seq(Subprotocols) /\ orphans \in Nat /\ MaxChains \in Nat
  BY DamperAssumption DEF IInv, TypeOK
<1>2. /\ asking' \in Seq(Subprotocols) /\ Len(asking') = Len(asking) - 1
      /\ Len(asking) \in Nat /\ Len(asking') \in Nat
  BY <1>1, RemoveAtTyped
<1>3. timer \in {"null", "set", "ran"}
  BY DEF IInv, TypeOK
<1>4. /\ dampTimer' \in {"null", "set"} /\ (dampTimer' = "null" <=> timer = "null")
      /\ orphans' \in Nat /\ orphans' <= orphans + 1
  BY <1>1, <1>3, ScheduledTimer
<1>5. Len(asking') + orphans' <= MaxChains
  BY <1>1, <1>2, <1>4 DEF IInv, ChainsBounded
<1> QED BY <1>1, <1>2, <1>4, <1>5 DEF ChainsBounded

\* The last answer: some flappers are damped.
LEMMA ConcludeKeeps ==
  ASSUME IInv, NEW i \in DOMAIN asking, NEW candidates \in SUBSET Others,
         Conclude(candidates), asking' = RemoveAt(asking, i),
         UNCHANGED <<score, destroyed>>
  PROVE  IInv'
<1>1. PICK result \in Damped(candidates) :
        /\ flappers' = result.flappers
        /\ dampedMembers' = result.damped
        /\ expirationTimer' = (expirationTimer \/ result.damped # dampedMembers)
        /\ CallBack(TimerWithout(flappers \ result.flappers), orphans)
        /\ renewed' = renewed \cap flappers'
        /\ UNCHANGED released
  BY DEF Conclude
<1>2. result \in Outcomes
  BY <1>1, DampedOutcome DEF IInv
<1>3. /\ result.flappers \in SUBSET flappers /\ result.damped \in SUBSET Others
      /\ result.flappers \union result.damped = flappers \union dampedMembers
      /\ result.flappers \cap result.damped = {}
      /\ dampedMembers \subseteq result.damped
  BY <1>2 DEF Outcomes
<1>4. result.flappers = flappers \ (flappers \ result.flappers)
  BY <1>3
<1> DEFINE timer == TimerWithout(flappers \ result.flappers)
<1>5. /\ timer \in {dampTimer, "null"}
      /\ ~destroyed => (timer # "null" <=> result.flappers # {})
  BY <1>4, TimerStops DEF IInv
<1>6. CallBack(timer, orphans)
  BY <1>1
<1> HIDE DEF timer
<1>7. /\ asking' \in Seq(Subprotocols)
      /\ dampTimer' \in {"null", "set"} /\ (dampTimer' = "null" <=> timer = "null")
      /\ orphans' \in 0..MaxChains
      /\ ChainsBounded'
  BY <1>5, <1>6, CalledBack
<1>8. TypeOK'
  BY <1>1, <1>3, <1>7 DEF IInv, TypeOK
<1>9. TimersFollow'
  BY <1>1, <1>3, <1>5, <1>7 DEF IInv, TypeOK, TimersFollow
<1>10. NobodyOverlooked'
  BY <1>1, <1>3 DEF IInv, TypeOK, NobodyOverlooked
<1> QED BY <1>7, <1>8, <1>9, <1>10 DEF IInv

\* An answer comes in, the last that is needed or not.
LEMMA AnsweredKeeps ==
  ASSUME IInv, NEW i \in DOMAIN asking, Answered(i)
  PROVE  IInv'
<1>1. PICK confirmed \in SUBSET asking[i].confirmed :
        IF asking[i].needed = 1
        THEN /\ Conclude(confirmed)
             /\ asking' = RemoveAt(asking, i)
        ELSE /\ asking' = [asking EXCEPT ![i].pending = @ - 1, ![i].needed = @ - 1,
                                         ![i].confirmed = confirmed]
             /\ UNCHANGED <<flappers, dampedMembers, expirationTimer, dampTimer, orphans, history>>
  BY DEF Answered
<1>2. asking \in Seq(Subprotocols) /\ UNCHANGED <<score, destroyed>>
  BY DEF Answered, IInv, TypeOK
<1>3. asking[i] \in Subprotocols /\ confirmed \in SUBSET Others
  BY <1>1, <1>2 DEF Subprotocols
<1>4. CASE asking[i].needed = 1
  BY <1>1, <1>2, <1>3, <1>4, ConcludeKeeps
<1>5. CASE asking[i].needed # 1
  <2> DEFINE left == [pending |-> asking[i].pending - 1, needed |-> asking[i].needed - 1,
                      confirmed |-> confirmed]
  <2>1. asking' = [asking EXCEPT ![i] = left]
    BY <1>1, <1>3, <1>5 DEF Subprotocols
  <2>2. left \in Subprotocols
    BY <1>3, <1>5, DamperAssumption DEF Subprotocols
  <2> HIDE DEF left
  <2>3. asking' \in Seq(Subprotocols) /\ Len(asking') = Len(asking) /\ asking' # <<>>
    BY <1>2, <2>1, <2>2
  <2>4. UNCHANGED <<flappers, dampedMembers, expirationTimer, dampTimer, orphans,
                    renewed, released>>
    BY <1>1, <1>5 DEF history
  <2> QED BY <1>2, <2>3, <2>4
      DEF IInv, TypeOK, ChainsBounded, TimersFollow, NobodyOverlooked
<1> QED BY <1>4, <1>5

\* A request fails, and with it perhaps the subprotocol.
LEMMA FailedKeeps ==
  ASSUME IInv, NEW i \in DOMAIN asking, Failed(i)
  PROVE  IInv'
<1>1. asking \in Seq(Subprotocols) /\ asking[i] \in Subprotocols
  BY DEF IInv, TypeOK
<1>2. UNCHANGED <<score, flappers, dampedMembers, expirationTimer, destroyed, renewed, released>>
  BY DEF Failed, history
<1>3. CASE Unattainable(asking[i].pending - 1, asking[i].needed)
  <2>1. CallBack(dampTimer, orphans) /\ asking' = RemoveAt(asking, i)
    BY <1>3 DEF Failed
  <2>2. /\ asking' \in Seq(Subprotocols)
        /\ dampTimer' \in {"null", "set"} /\ (dampTimer' = "null" <=> dampTimer = "null")
        /\ orphans' \in 0..MaxChains
        /\ ChainsBounded'
    BY <2>1, CalledBack
  <2>3. TimersFollow'
    BY <1>2, <2>2 DEF IInv, TimersFollow
  <2> QED BY <1>2, <2>2, <2>3 DEF IInv, TypeOK, NobodyOverlooked
<1>4. CASE ~Unattainable(asking[i].pending - 1, asking[i].needed)
  <2> DEFINE left == [asking[i] EXCEPT !.pending = @ - 1]
  <2>1. asking' = [asking EXCEPT ![i] = left] /\ UNCHANGED <<dampTimer, orphans>>
    BY <1>4 DEF Failed
  <2>2. left \in Subprotocols
    <3>1. /\ asking[i].pending \in 1..dampReqNVal /\ asking[i].needed \in 1..dampReqRVal
          /\ asking[i].needed <= asking[i].pending - 1
      BY <1>1, <1>4, DamperAssumption DEF Subprotocols, Unattainable
    <3>2. asking[i].pending - 1 \in 1..dampReqNVal
      BY <3>1, DamperAssumption
    <3>3. left \in [pending : 1..dampReqNVal, needed : 1..dampReqRVal, confirmed : SUBSET Others]
      BY <1>1, <3>2 DEF Subprotocols
    <3>4. left.needed = asking[i].needed /\ left.pending = asking[i].pending - 1
      BY <1>1 DEF Subprotocols
    <3> HIDE DEF left
    <3> QED BY <3>1, <3>3, <3>4 DEF Subprotocols
  <2> HIDE DEF left
  <2>3. asking' \in Seq(Subprotocols) /\ Len(asking') = Len(asking) /\ asking' # <<>>
    BY <1>1, <2>1, <2>2
  <2> QED BY <1>2, <2>1, <2>3
      DEF IInv, TypeOK, ChainsBounded, TimersFollow, NobodyOverlooked
<1> QED BY <1>3, <1>4

\* Some are damped no longer.
LEMMA ExpirationKeeps ==
  ASSUME IInv, ExpirationTick
  PROVE  IInv'
<1>1. /\ expirationTimer /\ dampedMembers' \in SUBSET dampedMembers
      /\ expirationTimer' = (dampedMembers' # {} \/ dampedMembers' = dampedMembers)
      /\ released' = released \union
           {m \in dampedMembers \ dampedMembers' : score[m] = "suppressed"}
      /\ UNCHANGED <<score, flappers, dampTimer, orphans, asking, destroyed, renewed>>
  BY DEF ExpirationTick, NeededFor
<1>2. TypeOK'
  BY <1>1 DEF IInv, TypeOK
<1>3. TimersFollow'
  BY <1>1 DEF IInv, TimersFollow
<1>4. NobodyOverlooked'
  BY <1>1 DEF IInv, TypeOK, NobodyOverlooked
<1> QED BY <1>1, <1>2, <1>3, <1>4 DEF IInv, ChainsBounded

-----------------------------------------------------------------------------
\* Every step keeps the invariant.
LEMMA NextIInv == IInv /\ [Next]_vars => IInv'
<1> SUFFICES ASSUME IInv, [Next]_vars PROVE IInv'
  OBVIOUS
<1>1. CASE Decay
  BY <1>1, DecayKeeps
<1>2. CASE TickInVain
  BY <1>2, TickInVainKeeps
<1>3. CASE TickAsks
  BY <1>3, TickAsksKeeps
<1>4. CASE ExpirationTick
  BY <1>4, ExpirationKeeps
<1>5. CASE Destroy
  BY <1>5 DEF Destroy, history, IInv, TypeOK, ChainsBounded, TimersFollow, NobodyOverlooked
<1>6. ASSUME NEW m \in Others, Penalise(m) \/ Evict(m) \/ Enter(m) PROVE IInv'
  BY <1>6, PenaliseKeeps, ComesAndGoes
<1>7. ASSUME NEW i \in DOMAIN asking, Answered(i) \/ Failed(i) PROVE IInv'
  BY <1>7, AnsweredKeeps, FailedKeeps
<1>8. CASE UNCHANGED vars
  BY <1>8 DEF vars, IInv, TypeOK, ChainsBounded, TimersFollow, NobodyOverlooked
<1> QED BY <1>1, <1>2, <1>3, <1>4, <1>5, <1>6, <1>7, <1>8 DEF Next

\* Whoever becomes damped finds the limit not reached: only the last answer of a
\* subprotocol damps anybody.
LEMMA NextWithinLimit ==
  ASSUME IInv, [Next]_vars, ~(dampedMembers' \subseteq dampedMembers)
  PROVE  (Cardinality(dampedMembers') - 1) * 100 < dampedMaxPercentage * MemberCount
<1>1. PICK i \in DOMAIN asking : Answered(i)
  BY DEF Next, Decay, TickInVain, TickAsks, ExpirationTick, Destroy, Penalise, Evict, Enter,
         Failed, vars
<1>2. PICK candidates \in SUBSET asking[i].confirmed : Conclude(candidates)
  BY <1>1 DEF Answered
<1>3. candidates \in SUBSET Others
  BY <1>2 DEF IInv, TypeOK, Subprotocols
<1>4. PICK result \in Damped(candidates) : dampedMembers' = result.damped
  BY <1>2 DEF Conclude
<1>5. result \in Outcomes
  BY <1>3, <1>4, DampedOutcome DEF IInv
<1> QED BY <1>4, <1>5 DEF Outcomes

\* In every reachable state.
THEOREM Invariance == Spec => []IInv
  BY InitIInv, NextIInv, PTL DEF Spec

\* Scores, flappers, timers and subprotocols are well formed
\* (lib/gossip/damper.js): every subprotocol in flight can still get the
\* answers it needs, and timers that were overwritten stay as few as the
\* subprotocols that set them.
THEOREM DamperTypeCorrect == Spec => []TypeOK
<1>1. IInv => TypeOK
  BY DEF IInv
<1> QED BY <1>1, Invariance, PTL

\* The damp timer or a subprotocol is there while there are flappers, and the
\* expiration timer while members are damped, however flappers come and go
\* while subprotocols are in flight (addFlapper(), removeFlapper(),
\* onSubprotocol(), expireDampedMembers()).
THEOREM TimersFollowAlways == Spec => []TimersFollow
<1>1. IInv => TimersFollow
  BY DEF IInv
<1> QED BY <1>1, Invariance, PTL

\* No member above the suppress limit is lost between flappers and damped
\* members, and none is both, for any number of members and subprotocols
\* (addFlapper(), dampMember(), removeFlapper()).
THEOREM NobodyEverOverlooked == Spec => []NobodyOverlooked
<1>1. IInv => NobodyOverlooked
  BY DEF IInv
<1> QED BY <1>1, Invariance, PTL

\* However many members one subprotocol names, in whatever order, the last it
\* damps finds fewer damped than the limit allows (dampMember() and
\* _validateDampedClusterLimits()).
THEOREM LimitIsKept == Spec => DampedWithinLimit
<1>1. IInv /\ [Next]_vars =>
        [~(dampedMembers' \subseteq dampedMembers) =>
           (Cardinality(dampedMembers') - 1) * 100 < dampedMaxPercentage * MemberCount]_vars
  BY NextWithinLimit
<1> QED BY <1>1, Invariance, PTL DEF Spec, DampedWithinLimit
=============================================================================
