---------------------------- MODULE CircleProofs ----------------------------
(***************************************************************************)
(* Proofs about Circle, for every set of points, colliding or not, and     *)
(* every hash: the loop of lookupN returns the preference list, which is   *)
(* what makes the hashing consistent.                                      *)
(*                                                                         *)
(* The loop looks at one point at a time. What it has taken by then are    *)
(* the servers of the points it has passed, and those are known from where *)
(* it is: Passed is the invariant's other half.                            *)
(***************************************************************************)
EXTENDS Circle, FiniteSetTheorems, SequenceTheorems, TLAPS

\* What is computed of points and positions is so for any point.
Positions == [hash : Nat, address : Nat \ {0}] \union {End}

-----------------------------------------------------------------------------
(***************************************************************************)
(* The orders.                                                             *)
(***************************************************************************)

\* A set of numbers has a least one.
LEMMA LeastNumber ==
  ASSUME NEW S \in SUBSET Nat, S # {}
  PROVE  \E n \in S : \A k \in S : n <= k
<1>1. PICK n \in S : \A k \in S : ~(<<k, n>> \in OpToRel(<, Nat))
  BY NatLessThanWellFounded, WFMin
<1>2. \A k \in S : ~(k < n)
  BY <1>1 DEF OpToRel
<1> QED BY <1>2

\* A set of numbers with 0 and with the successor of each has them all.
LEMMA AllNumbers ==
  ASSUME NEW S \in SUBSET Nat, 0 \in S, \A n \in S : n + 1 \in S
  PROVE  S = Nat
<1> SUFFICES ASSUME Nat \ S # {} PROVE FALSE
  OBVIOUS
<1>1. PICK n \in Nat \ S : \A k \in Nat \ S : n <= k
  BY LeastNumber
<1>2. n # 0 /\ n - 1 \in Nat
  BY <1>1
<1>3. n - 1 \in S
  BY <1>1, <1>2
<1>4. (n - 1) + 1 \in S
  BY <1>3
<1> QED BY <1>1, <1>4

\* The end is not a point; it comes before all of them.
LEMMA EndFirst ==
  ASSUME NEW p \in [hash : Nat, address : Nat \ {0}]
  PROVE  p # End /\ Less(End, p)
  BY DEF End, Point, Less

\* Less orders the points and the end.
LEMMA LessOrders ==
  ASSUME NEW p \in Positions, NEW q \in Positions, NEW r \in Positions
  PROVE  /\ ~Less(p, p)
         /\ p = q \/ Less(p, q) \/ Less(q, p)
         /\ Less(p, q) => ~Less(q, p)
         /\ Less(p, q) /\ Less(q, r) => Less(p, r)
<1>1. /\ p.hash \in Int /\ p.address \in Int /\ q.hash \in Int /\ q.address \in Int
      /\ r.hash \in Int /\ r.address \in Int
  BY DEF Positions, End, Point
<1>2. p.hash = q.hash /\ p.address = q.address => p = q
  BY DEF Positions, End, Point
<1> QED BY <1>1, <1>2 DEF Less

\* So does Before, on the way round the circle from any hash.
LEMMA BeforeOrders ==
  ASSUME NEW points, IsCircle(points), NEW hash \in Nat,
         NEW p \in points, NEW q \in points, NEW r \in points
  PROVE  /\ ~Before(hash, p, p)
         /\ p = q \/ Before(hash, p, q) \/ Before(hash, q, p)
         /\ Before(hash, p, q) => ~Before(hash, q, p)
         /\ Before(hash, p, q) /\ Before(hash, q, r) => Before(hash, p, r)
<1>1. p.hash \in Nat /\ q.hash \in Nat /\ r.hash \in Nat
  BY DEF IsCircle
<1>2. p \in Positions /\ q \in Positions /\ r \in Positions
  BY DEF IsCircle, Positions
<1> QED BY <1>1, <1>2, LessOrders DEF Before

\* Points have a first one.
LEMMA FirstIsLeast ==
  ASSUME NEW points, IsCircle(points), points # {}
  PROVE  /\ FirstOf(points) \in points
         /\ \A q \in points : q = FirstOf(points) \/ Less(FirstOf(points), q)
<1>1. PICK h \in {p.hash : p \in points} : \A k \in {p.hash : p \in points} : h <= k
  <2>1. {p.hash : p \in points} \in SUBSET Nat /\ {p.hash : p \in points} # {}
    BY DEF IsCircle
  <2> QED BY <2>1, LeastNumber
<1> DEFINE lowest == {p \in points : p.hash = h}
<1>2. PICK a \in {p.address : p \in lowest} : \A k \in {p.address : p \in lowest} : a <= k
  <2>1. {p.address : p \in lowest} \in SUBSET Nat /\ {p.address : p \in lowest} # {}
    BY <1>1 DEF IsCircle
  <2> QED BY <2>1, LeastNumber
<1>3. PICK p \in lowest : p.address = a
  BY <1>2
<1>4. \A q \in points : ~Less(q, p)
  <2> TAKE q \in points
  <2>1. p.hash \in Nat /\ q.hash \in Nat /\ p.address \in Nat /\ q.address \in Nat
    BY DEF IsCircle
  <2>2. p.hash <= q.hash
    BY <1>1
  <2>3. q.hash = p.hash => p.address <= q.address
    BY <1>2, <1>3
  <2> QED BY <2>1, <2>2, <2>3 DEF Less
<1>5. FirstOf(points) = CHOOSE f \in points : \A q \in points : ~Less(q, f)
  BY DEF FirstOf
<1>6. FirstOf(points) \in points /\ \A q \in points : ~Less(q, FirstOf(points))
  BY <1>4, <1>5
<1>7. \A q \in points : q \in Positions
  BY DEF IsCircle, Positions
<1> QED BY <1>6, <1>7, LessOrders

\* Where upperBound stops.
LEMMA AtOrAfterIs ==
  ASSUME NEW points, IsCircle(points), NEW hash \in Nat, NEW at, at = AtOrAfter(points, hash)
  PROVE  \/ at = End /\ \A q \in points : q.hash < hash
         \/ /\ at \in points /\ at.hash >= hash
            /\ \A q \in points : q.hash >= hash => q = at \/ Less(at, q)
<1> DEFINE rest == {p \in points : p.hash >= hash}
<1>1. \A q \in points : q.hash \in Nat
  BY DEF IsCircle
<1>2. CASE rest = {}
  BY <1>1, <1>2 DEF AtOrAfter, FirstOf
<1>3. CASE rest # {}
  <2>1. IsCircle(rest)
    BY DEF IsCircle
  <2> QED BY <1>3, <2>1, FirstIsLeast DEF AtOrAfter
<1> QED BY <1>2, <1>3

\* Where next() stops.
LEMMA BeyondIs ==
  ASSUME NEW points, IsCircle(points), NEW from, NEW at, at = Beyond(points, from)
  PROVE  \/ at = End /\ \A q \in points : ~Less(from, q)
         \/ /\ at \in points /\ Less(from, at)
            /\ \A q \in points : Less(from, q) => q = at \/ Less(at, q)
<1> DEFINE rest == {p \in points : Less(from, p)}
<1>2. CASE rest = {}
  BY <1>2 DEF Beyond, FirstOf
<1>3. CASE rest # {}
  <2>1. IsCircle(rest)
    BY DEF IsCircle
  <2> QED BY <1>3, <2>1, FirstIsLeast DEF Beyond
<1> QED BY <1>2, <1>3

-----------------------------------------------------------------------------
(***************************************************************************)
(* A turn.                                                                 *)
(***************************************************************************)

\* The points before a position, on the way round the circle from a hash.
Passed(points, hash, at) ==
  IF at = End THEN {p \in points : p.hash >= hash}
  ELSE {p \in points : Before(hash, p, at)}

\* The point at a position, if there is one.
Here(at) == {at} \ {End}

\* A turn passes the point it is at and no other; when it comes back to where
\* the way begins, all are passed.
LEMMA TurnPasses ==
  ASSUME NEW points, IsCircle(points), NEW hash \in Nat,
         NEW at \in points \union {End}, NEW to, to = Beyond(points, at)
  PROVE  Passed(points, hash, at) \union Here(at)
           = IF to = AtOrAfter(points, hash) THEN points ELSE Passed(points, hash, to)
<1> DEFINE first == AtOrAfter(points, hash)
<1>first. \/ first = End /\ \A q \in points : q.hash < hash
          \/ /\ first \in points /\ first.hash >= hash
             /\ \A q \in points : q.hash >= hash => q = first \/ Less(first, q)
  BY AtOrAfterIs
<1> HIDE DEF first
<1>to. \/ to = End /\ \A q \in points : ~Less(at, q)
       \/ /\ to \in points /\ Less(at, to)
          /\ \A q \in points : Less(at, q) => q = to \/ Less(to, q)
  BY BeyondIs
<1>t. \A p \in points : p # End /\ Less(End, p) /\ p.hash \in Nat
  BY EndFirst DEF IsCircle
<1>p. \A p \in points \union {End} : p \in Positions
  BY DEF IsCircle, Positions
<1>less. \A p, q \in points \union {End} :
           /\ ~Less(p, p) /\ (p = q \/ Less(p, q) \/ Less(q, p))
           /\ (Less(p, q) => ~Less(q, p))
           /\ \A r \in points \union {End} : Less(p, q) /\ Less(q, r) => Less(p, r)
  BY <1>p, LessOrders
<1>hash. \A p, q \in points : Less(p, q) => p.hash <= q.hash
  BY <1>t DEF Less
<1>1. CASE at = End
  <2>1. CASE to = End
    BY <1>1, <2>1, <1>to, <1>t, <1>first DEF Passed, Here, first
  <2>2. CASE to \in points
    <3>1. \A q \in points : q = to \/ Less(to, q)
      BY <1>1, <2>2, <1>to, <1>t
    <3>2. CASE to.hash >= hash
      <4>1. \A q \in points : q.hash >= hash
        BY <3>1, <3>2, <2>2, <1>hash, <1>t
      <4>2. to = first
        BY <4>1, <3>1, <2>2, <1>first, <1>less, <1>t
      <4> QED BY <1>1, <4>1, <4>2 DEF Passed, Here, first
    <3>3. CASE to.hash < hash
      <4>1. to # first
        BY <3>3, <2>2, <1>first, <1>t
      <4>2. Passed(points, hash, to) = {p \in points : p.hash >= hash}
        BY <3>1, <3>3, <2>2, <1>less, <1>t DEF Passed, Before
      <4> QED BY <1>1, <4>1, <4>2 DEF Passed, Here, first
    <3> QED BY <3>2, <3>3, <2>2, <1>t
  <2> QED BY <2>1, <2>2, <1>to
<1>2. CASE at \in points /\ at.hash >= hash
  <2>1. first \in points /\ first # End /\ (at = first \/ Less(first, at))
    BY <1>2, <1>first, <1>t
  <2>2. to # first
    BY <1>2, <2>1, <1>to, <1>less
  <2>3. CASE to = End
    <3>1. \A p \in points : p = at \/ Less(p, at)
      BY <1>2, <2>3, <1>to, <1>less, <1>t
    <3> QED BY <1>2, <2>2, <2>3, <3>1, <1>t DEF Passed, Here, Before, first
  <2>4. CASE to \in points
    <3>1. to.hash >= hash /\ Less(at, to)
      BY <1>2, <2>4, <1>to, <1>hash, <1>t
    <3>2. \A p \in points : Less(p, to) <=> p = at \/ Less(p, at)
      BY <1>2, <2>4, <3>1, <1>to, <1>less, <1>t
    <3> QED BY <1>2, <2>2, <2>4, <3>1, <3>2, <1>t DEF Passed, Here, Before, first
  <2> QED BY <2>3, <2>4, <1>to
<1>3. CASE at \in points /\ at.hash < hash
  <2>1. CASE to = End
    <3>1. \A p \in points : p = at \/ Less(p, at)
      BY <1>3, <2>1, <1>to, <1>less, <1>t
    <3>2. \A p \in points : p.hash < hash
      BY <1>3, <3>1, <1>hash, <1>t
    <3>3. first = End
      BY <3>2, <1>first, <1>t
    <3> QED BY <1>3, <2>1, <3>1, <3>2, <3>3, <1>t DEF Passed, Here, Before, first
  <2>2. CASE to \in points /\ to.hash < hash
    <3>1. to # first
      BY <2>2, <1>first, <1>t
    <3>2. \A p \in points : Less(p, to) <=> p = at \/ Less(p, at)
      BY <1>3, <2>2, <1>to, <1>less, <1>t
    <3> QED BY <1>3, <2>2, <3>1, <3>2, <1>t DEF Passed, Here, Before, first
  <2>3. CASE to \in points /\ to.hash >= hash
    <3>1. \A p \in points : p.hash >= hash => p = to \/ Less(to, p)
      BY <1>3, <2>3, <1>to, <1>less, <1>hash, <1>t
    <3>2. to = first
      BY <2>3, <3>1, <1>first, <1>less, <1>t
    <3>3. \A p \in points : p.hash < hash => p = at \/ Less(p, at)
      BY <1>3, <2>3, <1>to, <1>less, <1>hash, <1>t
    <3> QED BY <1>3, <3>2, <3>3, <1>t DEF Passed, Here, Before, first
  <2> QED BY <2>1, <2>2, <2>3, <1>to, <1>t
<1> QED BY <1>1, <1>2, <1>3, <1>t

-----------------------------------------------------------------------------
(***************************************************************************)
(* The loop.                                                               *)
(***************************************************************************)

\* What was found are the servers of the points that were passed, each once
\* and before all that come after it.
Lists(points, hash, passed, found) ==
  /\ found \in Seq(Nat)
  /\ ToSet(found) = Addresses(passed)
  /\ IsInjective(found)
  /\ \A i \in DOMAIN found : \A t \in Addresses(points) :
       (\A j \in 1..i : found[j] # t) => Preferred(points, hash, found[i], t)

\* A server that was found is not taken again.
LEMMA TakenOld ==
  ASSUME NEW found \in Seq(Nat), NEW at, at.address \in ToSet(found)
  PROVE  Taken(found, at) = found
  BY DEF Taken, Contains, ToSet

\* A new one comes last.
LEMMA TakenNew ==
  ASSUME NEW found \in Seq(Nat), NEW at, at # End, at.address \notin ToSet(found),
         at.address \in Nat
  PROVE  /\ Taken(found, at) = Append(found, at.address)
         /\ Taken(found, at) \in Seq(Nat)
         /\ Len(Taken(found, at)) = Len(found) + 1
         /\ Taken(found, at)[Len(found) + 1] = at.address
         /\ \A i \in 1..Len(found) : Taken(found, at)[i] = found[i]
<1>1. Taken(found, at) = Append(found, at.address)
  BY DEF Taken, Contains, ToSet
<1>2. Len(found) \in Nat
  OBVIOUS
<1> QED BY <1>1, <1>2, AppendProperties

\* A turn lists the server of the point it is at.
LEMMA TakenLists ==
  ASSUME NEW points, IsCircle(points), NEW hash \in Nat, NEW at \in points \union {End},
         NEW found, Lists(points, hash, Passed(points, hash, at), found)
  PROVE  Lists(points, hash, Passed(points, hash, at) \union Here(at), Taken(found, at))
<1> DEFINE passed == Passed(points, hash, at)
<1>t. found \in Seq(Nat) /\ Len(found) \in Nat /\ DOMAIN found = 1..Len(found)
  BY DEF Lists
<1>1. CASE at = End
  <2>1. Taken(found, at) = found /\ passed \union Here(at) = passed
    BY <1>1 DEF Taken, Here
  <2> QED BY <2>1
<1>2. CASE at # End /\ at.address \in ToSet(found)
  <2>1. Taken(found, at) = found
    BY <1>2, <1>t, TakenOld
  <2>2. Addresses(passed \union Here(at)) = Addresses(passed)
    BY <1>2 DEF Lists, Addresses, Here
  <2> QED BY <2>1, <2>2 DEF Lists
<1>3. CASE at # End /\ at.address \notin ToSet(found)
  <2> DEFINE longer == Taken(found, at)
             last == Len(found) + 1
  <2>1. at \in points /\ at.address \in Nat
    BY <1>3 DEF IsCircle
  <2>2. /\ longer \in Seq(Nat) /\ Len(longer) = last /\ longer[last] = at.address
        /\ \A i \in 1..Len(found) : longer[i] = found[i]
        /\ DOMAIN longer = 1..last
    BY <1>3, <1>t, <2>1, TakenNew
  <2> HIDE DEF longer
  <2>3. ToSet(longer) = Addresses(passed \union Here(at))
    <3>1. ToSet(longer) = ToSet(found) \union {at.address}
      <4>1. \A i \in 1..last : i = last \/ i \in 1..Len(found)
        BY <1>t
      <4>2. \A i \in 1..last : longer[i] \in ToSet(found) \union {at.address}
        BY <1>t, <2>2, <4>1 DEF ToSet
      <4>3. last \in 1..last /\ \A i \in 1..Len(found) : i \in 1..last
        BY <1>t
      <4>4. \A a \in ToSet(found) \union {at.address} : \E i \in 1..last : longer[i] = a
        BY <1>t, <2>2, <4>3 DEF ToSet
      <4>5. ToSet(longer) = {longer[i] : i \in 1..last}
        BY <2>2 DEF ToSet
      <4> DEFINE wanted == ToSet(found) \union {at.address}
      <4>6. \A i \in 1..last : longer[i] \in wanted
        BY <4>2
      <4>7. \A a \in wanted : \E i \in 1..last : longer[i] = a
        BY <4>4
      <4> HIDE DEF last, wanted
      <4>8. ToSet(longer) = wanted
        BY <4>5, <4>6, <4>7
      <4> QED BY <4>8 DEF wanted
    <3>2. Addresses(passed \union Here(at)) = Addresses(passed) \union {at.address}
      BY <1>3 DEF Addresses, Here
    <3> QED BY <3>1, <3>2 DEF Lists
  <2>4. IsInjective(longer)
    <3>1. \A i \in 1..Len(found) : found[i] # at.address
      BY <1>3, <1>t DEF ToSet
    <3>2. \A i, j \in 1..Len(found) : found[i] = found[j] => i = j
      BY <1>t DEF Lists, IsInjective
    <3>3. \A i \in 1..last : i = last \/ i \in 1..Len(found)
      BY <1>t
    <3> QED BY <2>2, <3>1, <3>2, <3>3 DEF IsInjective
  <2>5. ASSUME NEW i \in DOMAIN longer, NEW t \in Addresses(points),
               \A j \in 1..i : longer[j] # t
        PROVE  Preferred(points, hash, longer[i], t)
    <3>1. CASE i \in 1..Len(found)
      <4>1. \A j \in 1..i : found[j] # t
        BY <1>t, <2>2, <2>5, <3>1
      <4> QED BY <1>t, <2>2, <3>1, <4>1 DEF Lists
    <3>2. CASE i = last
      <4>1. t \notin ToSet(found) /\ t # at.address
        BY <1>t, <2>2, <2>5, <3>2 DEF ToSet
      <4>2. ASSUME NEW q \in points, q.address = t PROVE Before(hash, at, q)
        <5>1. q \notin passed /\ q # at
          BY <4>1, <4>2 DEF Lists, Addresses
        <5>2. ~Before(hash, q, at)
          BY <1>3, <5>1 DEF Passed
        <5> QED BY <2>1, <5>1, <5>2, BeforeOrders
      <4> QED BY <2>1, <2>2, <3>2, <4>2 DEF Preferred
    <3> QED BY <1>t, <2>2, <2>5, <3>1, <3>2
  <2> QED BY <2>2, <2>3, <2>4, <2>5 DEF Lists, longer
<1> QED BY <1>1, <1>2, <1>3

\* The loop as far as its turns go: it has not come back to where it began.
IsPath(points, hash, path, n) ==
  /\ path[1] = [at |-> AtOrAfter(points, hash), found |-> <<>>]
  /\ \A i \in 1..n - 1 : path[i + 1] = Turn(points, path[i])
  /\ \A i \in 2..n - 1 : path[i].at # AtOrAfter(points, hash)

\* The points passed before turn i.
PassedBy(points, hash, i, at) ==
  IF i > 1 /\ at = AtOrAfter(points, hash) THEN points ELSE Passed(points, hash, at)

\* After each turn the servers found are those of the points that are passed.
LEMMA PathLists ==
  ASSUME NEW points, IsCircle(points), NEW hash \in Nat, NEW n \in Nat, NEW path,
         IsPath(points, hash, path, n), NEW i \in 1..n
  PROVE  /\ path[i].at \in points \union {End}
         /\ Lists(points, hash, PassedBy(points, hash, i, path[i].at), path[i].found)
<1> DEFINE first == AtOrAfter(points, hash)
           So(k) == /\ path[k].at \in points \union {End}
                    /\ Lists(points, hash, PassedBy(points, hash, k, path[k].at), path[k].found)
           Done == {k \in Nat : k + 1 \in 1..n => So(k + 1)}
<1>first. first \in points \union {End} /\ Passed(points, hash, first) = {}
  <2>1. CASE first = End /\ \A q \in points : q.hash < hash
    BY <2>1 DEF Passed, IsCircle
  <2>2. CASE /\ first \in points /\ first.hash >= hash
             /\ \A q \in points : q.hash >= hash => q = first \/ Less(first, q)
    <3>1. first # End
      BY <2>2, EndFirst DEF IsCircle
    <3>2. ASSUME NEW q \in points PROVE ~Before(hash, q, first)
      <4>1. q = first \/ Before(hash, first, q)
        BY <2>2 DEF Before, IsCircle
      <4> QED BY <2>2, <4>1, BeforeOrders
    <3> QED BY <2>2, <3>1, <3>2 DEF Passed
  <2> QED BY <2>1, <2>2, AtOrAfterIs
<1>1. 0 \in Done
  <2>1. path[1] = [at |-> first, found |-> <<>>]
    BY DEF IsPath
  <2>2. path[1].at = first /\ path[1].found = <<>>
    BY <2>1
  <2>3. Lists(points, hash, {}, <<>>)
    BY DEF Lists, ToSet, Addresses, IsInjective
  <2>4. PassedBy(points, hash, 1, first) = {}
    BY <1>first DEF PassedBy
  <2>5. So(1)
    BY <1>first, <2>2, <2>3, <2>4
  <2> QED BY <2>5
<1>2. ASSUME NEW k \in Done, (k + 1) + 1 \in 1..n PROVE So((k + 1) + 1)
  <2> DEFINE m == k + 1
             at == path[m].at
             to == Beyond(points, at)
  <2>1. m \in 1..n - 1 /\ m \in Nat /\ m + 1 > 1 /\ So(m)
    BY <1>2
  <2>2. path[m + 1] = Turn(points, path[m])
    BY <2>1 DEF IsPath
  <2>3. path[m + 1].at = to /\ path[m + 1].found = Taken(path[m].found, at)
    BY <2>2 DEF Turn
  <2>4. m = 1 \/ at # first
    BY <2>1 DEF IsPath
  <2>5. PassedBy(points, hash, m, at) = Passed(points, hash, at)
    BY <2>1, <2>4 DEF PassedBy
  <2>6. PassedBy(points, hash, m + 1, to) = Passed(points, hash, at) \union Here(at)
    BY <2>1, TurnPasses DEF PassedBy
  <2>7. Lists(points, hash, Passed(points, hash, at) \union Here(at), Taken(path[m].found, at))
    BY <2>1, <2>5, TakenLists
  <2>8. to \in points \union {End}
    BY BeyondIs
  <2> QED BY <2>3, <2>6, <2>7, <2>8
<1>3. Done = Nat
  <2>1. \A k \in Done : k + 1 \in Done
    BY <1>2
  <2> HIDE DEF Done
  <2>2. Done \in SUBSET Nat
    BY DEF Done
  <2> QED BY <1>1, <2>1, <2>2, AllNumbers
<1>4. i - 1 \in Nat /\ (i - 1) + 1 = i
  OBVIOUS
<1>5. i - 1 \in Done
  BY <1>3, <1>4
<1> QED BY <1>4, <1>5

\* A turn finds one server more at most.
LEMMA TakenOne ==
  ASSUME NEW found \in Seq(Nat), NEW at, at # End => at.address \in Nat
  PROVE  Len(Taken(found, at)) <= Len(found) + 1
<1>1. CASE at = End
  BY <1>1 DEF Taken
<1>2. CASE at # End /\ at.address \in ToSet(found)
  BY <1>2, TakenOld
<1>3. CASE at # End /\ at.address \notin ToSet(found)
  BY <1>3, TakenNew
<1> QED BY <1>1, <1>2, <1>3

\* What the loop of lookupN returns is the preference list of the key, however
\* the points collide: the first n servers round the circle, or all if they
\* are fewer, each once, those that are met first in front
\* (lib/ring/index.js). Without a server, n is 0.
THEOREM LoopPrefers ==
  ASSUME NEW points, IsCircle(points), NEW hash \in Nat,
         NEW n \in Nat, n > 0 \/ points = {},
         NEW walk, IsWalk(points, hash, n, walk)
  PROVE  IsPreferenceList(points, hash, n, walk[Len(walk)].found)
<1> DEFINE last == Len(walk)
           first == AtOrAfter(points, hash)
           at == walk[last].at
           found == walk[last].found
<1>1. last \in Nat /\ last >= 2 /\ last - 1 \in 1..last /\ (last - 1) + 1 = last /\ last \in 1..last
  BY DEF IsWalk
<1>w. /\ walk[1] = [at |-> first, found |-> <<>>]
      /\ \A i \in 1..last - 1 : walk[i + 1] = Turn(points, walk[i])
      /\ \A i \in 2..last : Over(points, hash, n, walk[i]) <=> i = last
  BY DEF IsWalk
<1> HIDE DEF last
<1>2. IsPath(points, hash, walk, last)
  <2>1. \A i \in 2..last - 1 : i \in 2..last /\ i # last
    BY <1>1
  <2> QED BY <1>w, <2>1 DEF IsPath, Over
<1>3. /\ at \in points \union {End}
      /\ Lists(points, hash, PassedBy(points, hash, last, at), found)
  BY <1>1, <1>2, PathLists
<1>4. /\ walk[last - 1].at \in points \union {End}
      /\ walk[last - 1].found \in Seq(Nat)
  BY <1>1, <1>2, PathLists DEF Lists
<1>5. found = Taken(walk[last - 1].found, walk[last - 1].at)
  <2>1. last - 1 \in 1..last - 1
    BY <1>1
  <2>2. walk[(last - 1) + 1] = Turn(points, walk[last - 1])
    BY <1>w, <2>1
  <2> QED BY <1>1, <2>2 DEF Turn
<1>6. PassedBy(points, hash, last, at) \subseteq points
  BY DEF PassedBy, Passed
<1>7. found \in Seq(Nat) /\ Len(found) \in Nat /\ DOMAIN found = 1..Len(found)
  BY <1>3 DEF Lists
<1>8. Len(found) <= n
  <2>1. CASE points = {}
    <3>1. ToSet(found) = {}
      BY <2>1, <1>3, <1>6 DEF Lists, Addresses
    <3>2. 1 \notin DOMAIN found
      BY <3>1 DEF ToSet
    <3>3. Len(found) = 0
      BY <3>2, <1>7
    <3> QED BY <3>3
  <2>2. CASE n > 0
    <3>1. Len(found) <= Len(walk[last - 1].found) + 1
      <4>1. walk[last - 1].at # End => walk[last - 1].at.address \in Nat
        BY <1>4 DEF IsCircle
      <4> QED BY <1>4, <1>5, <4>1, TakenOne
    <3>2. CASE last - 1 = 1
      <4>1. walk[last - 1].found = <<>>
        BY <3>2, <1>w
      <4>2. Len(walk[last - 1].found) = 0
        BY <4>1
      <4> QED BY <2>2, <3>1, <4>2, <1>7
    <3>3. CASE last - 1 # 1
      <4>1. last - 1 \in 2..last /\ last - 1 # last
        BY <1>1, <3>3
      <4>2. ~Over(points, hash, n, walk[last - 1])
        BY <1>w, <4>1
      <4>3. Len(walk[last - 1].found) \in Nat
        BY <1>4
      <4>4. Len(walk[last - 1].found) < n
        BY <4>2, <4>3 DEF Over
      <4> QED BY <3>1, <4>3, <4>4, <1>7
    <3> QED BY <3>2, <3>3
  <2> QED BY <2>1, <2>2
<1>9. Len(found) >= n \/ ToSet(found) = Addresses(points)
  <2>1. Over(points, hash, n, walk[last])
    BY <1>1, <1>w
  <2>2. CASE at = first
    BY <1>1, <1>3, <2>2 DEF PassedBy, Lists
  <2> QED BY <2>1, <2>2 DEF Over
<1>10. ToSet(found) \subseteq Addresses(points) /\ IsInjective(found)
  BY <1>3, <1>6 DEF Lists, Addresses
<1>11. Len(found) = n \/ (Len(found) < n /\ ToSet(found) = Addresses(points))
  BY <1>7, <1>8, <1>9
<1>12. \A i \in DOMAIN found : \A t \in Addresses(points) :
         (\A j \in 1..i : found[j] # t) => Preferred(points, hash, found[i], t)
  BY <1>3 DEF Lists
<1> HIDE DEF found, at, first
<1> QED BY <1>10, <1>11, <1>12 DEF IsPreferenceList, found, last

-----------------------------------------------------------------------------
(***************************************************************************)
(* The loop ends. It passes one point more with each turn, but for the one *)
(* at the end of the points, of which there is one at most.                *)
(***************************************************************************)

\* What the loop goes through.
States(points) == [at : points \union {End}, found : Seq(Addresses(points))]

\* The loop is past the last point and round again.
Round(hash, at) == at # End /\ at.hash < hash

\* Past the last point the loop begins anew, once.
LEMMA TurnsRound ==
  ASSUME NEW points, IsCircle(points), NEW hash \in Nat,
         NEW at \in points \union {End}, NEW to, to = Beyond(points, at),
         to # AtOrAfter(points, hash)
  PROVE  /\ at = End => Round(hash, to)
         /\ Round(hash, at) => Round(hash, to)
         /\ at # End /\ ~Round(hash, at) => ~Round(hash, to)
<1> DEFINE first == AtOrAfter(points, hash)
<1>first. \/ first = End /\ \A q \in points : q.hash < hash
          \/ /\ first \in points /\ first.hash >= hash
             /\ \A q \in points : q.hash >= hash => q = first \/ Less(first, q)
  BY AtOrAfterIs
<1> HIDE DEF first
<1>to. \/ to = End /\ \A q \in points : ~Less(at, q)
       \/ /\ to \in points /\ Less(at, to)
          /\ \A q \in points : Less(at, q) => q = to \/ Less(to, q)
  BY BeyondIs
<1>t. /\ \A p \in points : p # End /\ Less(End, p) /\ p.hash \in Nat
      /\ to # first
  BY EndFirst DEF IsCircle, first
<1>less. \A p, q \in points : (Less(p, q) => ~Less(q, p)) /\ (p.hash < q.hash => Less(p, q))
                              /\ (Less(p, q) => p.hash <= q.hash)
  <2>1. \A p, q \in points : p \in Positions /\ q \in Positions
    BY DEF IsCircle, Positions
  <2> QED BY <1>t, <2>1, LessOrders DEF Less
<1>1. ASSUME at = End \/ Round(hash, at) PROVE Round(hash, to)
  <2>1. \A q \in points : q.hash >= hash => Less(at, q)
    BY <1>1, <1>t, <1>less DEF Round
  <2>2. CASE to = End
    <3>1. first # End
      BY <2>2, <1>t
    <3> QED BY <1>first, <2>1, <2>2, <3>1, <1>to, <1>t
  <2>3. CASE to \in points /\ to.hash >= hash
    <3>1. first \in points /\ Less(at, first) /\ Less(first, to)
      BY <2>1, <2>3, <1>first, <1>t
    <3> QED BY <2>3, <3>1, <1>to, <1>less, <1>t
  <2> QED BY <2>2, <2>3, <1>to, <1>t DEF Round
<1>2. ASSUME at # End, ~Round(hash, at) PROVE ~Round(hash, to)
  <2>1. at \in points /\ at.hash >= hash
    BY <1>2, <1>t DEF Round
  <2> QED BY <2>1, <1>to, <1>less, <1>t DEF Round
<1> QED BY <1>1, <1>2

\* Before it comes back to where it began, the loop has passed as many points
\* as it made turns, but for the one past the last point.
LEMMA PathPasses ==
  ASSUME NEW points, IsCircle(points), IsFiniteSet(points), NEW hash \in Nat,
         NEW n \in Nat, NEW path, IsPath(points, hash, path, n + 1), NEW i \in 1..n
  PROVE  i <= Cardinality(points) + 2
<1> DEFINE first == AtOrAfter(points, hash)
           passed(k) == Passed(points, hash, path[k].at)
           So(k) == Cardinality(passed(k)) = IF Round(hash, path[k].at) THEN k - 2 ELSE k - 1
           Done == {k \in Nat : k + 1 \in 1..n => So(k + 1)}
<1>1. ASSUME NEW k \in 1..n
      PROVE  /\ path[k].at \in points \union {End}
             /\ Passed(points, hash, path[k].at) \in SUBSET points
             /\ k > 1 => path[k].at # first
             /\ k \in 1..n + 1
  <2>1. k \in 1..n + 1 /\ n + 1 \in Nat /\ (k > 1 => k \in 2..(n + 1) - 1)
    OBVIOUS
  <2>2. path[k].at \in points \union {End}
    BY <2>1, PathLists
  <2> QED BY <2>1, <2>2 DEF IsPath, Passed
<1>2. 0 \in Done
  <2>1. path[1].at = first /\ first \in points \union {End}
    BY AtOrAfterIs DEF IsPath
  <2>2. ~Round(hash, first)
    <3>1. first = End \/ (first \in points /\ first.hash >= hash)
      BY AtOrAfterIs
    <3>2. \A p \in points : p.hash \in Nat
      BY DEF IsCircle
    <3> HIDE DEF first
    <3> QED BY <3>1, <3>2 DEF Round
  <2>3. passed(1) = {}
    <3>1. PassedBy(points, hash, 1, first) = Passed(points, hash, first)
      BY DEF PassedBy
    <3>2. path[1].found = <<>> /\ 1 \in 1..n + 1
      BY DEF IsPath
    <3>3. Lists(points, hash, PassedBy(points, hash, 1, first), <<>>)
      BY <2>1, <3>2, PathLists
    <3>4. Addresses(passed(1)) = {}
      BY <2>1, <3>1, <3>3 DEF Lists, ToSet
    <3> QED BY <3>4 DEF Addresses
  <2> QED BY <2>1, <2>2, <2>3, FS_EmptySet
<1>3. ASSUME NEW k \in Done, (k + 1) + 1 \in 1..n PROVE So((k + 1) + 1)
  <2> DEFINE m == k + 1
             at == path[m].at
             to == path[m + 1].at
  <2>1. m \in 1..n /\ m + 1 \in 1..n /\ m + 1 > 1 /\ So(m) /\ m \in 1..(n + 1) - 1
    BY <1>3
  <2>2. to = Beyond(points, at)
    <3>1. path[m + 1] = Turn(points, path[m])
      BY <2>1 DEF IsPath
    <3> QED BY <3>1 DEF Turn
  <2>3. at \in points \union {End} /\ to # first /\ passed(m) \in SUBSET points
    BY <1>1, <2>1
  <2>4. passed(m + 1) = passed(m) \union Here(at)
    BY <2>2, <2>3, TurnPasses
  <2>5. at \notin passed(m)
    BY <2>3, BeforeOrders, EndFirst DEF Passed, IsCircle
  <2>6. IsFiniteSet(passed(m))
    BY <2>3, FS_Subset
  <2>7. Cardinality(passed(m)) \in Nat
    BY <2>6, FS_CardinalityType
  <2>8. Cardinality(passed(m + 1))
          = IF at = End THEN Cardinality(passed(m)) ELSE Cardinality(passed(m)) + 1
    <3>1. CASE at = End
      BY <2>4, <3>1 DEF Here
    <3>2. CASE at # End
      <4>1. passed(m + 1) = passed(m) \union {at}
        BY <2>4, <3>2 DEF Here
      <4> HIDE DEF passed
      <4> QED BY <2>5, <2>6, <3>2, <4>1, FS_AddElement
    <3> QED BY <3>1, <3>2
  <2>9. /\ at = End => Round(hash, to)
        /\ Round(hash, at) => Round(hash, to)
        /\ at # End /\ ~Round(hash, at) => ~Round(hash, to)
    BY <2>2, <2>3, TurnsRound
  <2>10. Round(hash, at) => at # End
    BY DEF Round
  <2> DEFINE size == Cardinality(passed(m))
             size2 == Cardinality(passed(m + 1))
  <2>11. /\ size = IF Round(hash, at) THEN m - 2 ELSE m - 1
         /\ size2 = IF at = End THEN size ELSE size + 1
    BY <2>1, <2>8
  <2> HIDE DEF size, size2
  <2>12. size2 = IF Round(hash, to) THEN (m + 1) - 2 ELSE (m + 1) - 1
    BY <2>1, <2>7, <2>9, <2>10, <2>11 DEF size
  <2> QED BY <2>12 DEF size2
<1>4. Done = Nat
  <2>1. \A k \in Done : k + 1 \in Done
    BY <1>3
  <2> HIDE DEF Done
  <2>2. Done \in SUBSET Nat
    BY DEF Done
  <2> QED BY <1>2, <2>1, <2>2, AllNumbers
<1>5. So(i)
  <2>1. i - 1 \in Nat /\ (i - 1) + 1 = i
    OBVIOUS
  <2>2. i - 1 \in Done
    <3> HIDE DEF Done
    <3> QED BY <1>4, <2>1
  <2>3. (i - 1) + 1 \in 1..n => So((i - 1) + 1)
    BY <2>2
  <2> HIDE DEF So
  <2> QED BY <2>1, <2>3
<1>6. Cardinality(passed(i)) >= i - 2
  <2> DEFINE size == Cardinality(passed(i))
  <2>1. size = IF Round(hash, path[i].at) THEN i - 2 ELSE i - 1
    BY <1>5
  <2> HIDE DEF size
  <2>2. size >= i - 2
    BY <2>1
  <2> QED BY <2>2 DEF size
<1>7. Cardinality(passed(i)) <= Cardinality(points)
  BY <1>1, FS_Subset
<1>8. Cardinality(passed(i)) \in Nat /\ Cardinality(points) \in Nat
  BY <1>1, FS_Subset, FS_CardinalityType
<1> HIDE DEF passed
<1> QED BY <1>6, <1>7, <1>8

\* So many turns of the loop, one after the other.
AreTurns(points, start, n, path) ==
  /\ Len(path) = n + 1 /\ path[1] = start
  /\ \A i \in 1..n : path[i + 1] = Turn(points, path[i])

\* There are as many as one likes.
LEMMA TurnsExist ==
  ASSUME NEW points, NEW start \in States(points), IsCircle(points), NEW n \in Nat
  PROVE  \E path \in Seq(States(points)) : AreTurns(points, start, n, path)
<1> USE DEF AreTurns
<1> DEFINE Begins(path, k) == AreTurns(points, start, k, path)
           Done == {k \in Nat : \E path \in Seq(States(points)) : Begins(path, k)}
<1>1. 0 \in Done
  <2>1. <<start>> \in Seq(States(points)) /\ Begins(<<start>>, 0)
    OBVIOUS
  <2> QED BY <2>1
<1>2. ASSUME NEW k \in Done PROVE k + 1 \in Done
  <2>1. PICK path \in Seq(States(points)) : Begins(path, k)
    OBVIOUS
  <2> DEFINE state == path[k + 1]
             turned == Turn(points, state)
             longer == Append(path, turned)
  <2>2. k \in Nat /\ k + 1 \in 1..Len(path) /\ state \in States(points)
    BY <2>1
  <2>3. turned \in States(points)
    <3>1. Beyond(points, state.at) \in points \union {End}
      BY BeyondIs
    <3>2. Taken(state.found, state.at) \in Seq(Addresses(points))
      <4>1. state.found \in Seq(Addresses(points)) /\ state.at \in points \union {End}
        BY <2>2 DEF States
      <4>2. state.at # End => state.at.address \in Addresses(points)
        BY <4>1 DEF Addresses
      <4> QED BY <4>1, <4>2 DEF Taken
    <3> QED BY <3>1, <3>2 DEF Turn, States
  <2> HIDE DEF turned
  <2>4. /\ longer \in Seq(States(points)) /\ Len(longer) = (k + 1) + 1
        /\ \A i \in 1..k + 1 : longer[i] = path[i]
        /\ longer[(k + 1) + 1] = turned
    BY <2>1, <2>2, <2>3, AppendProperties
  <2> HIDE DEF longer
  <2>5. \A i \in 1..k + 1 : longer[i + 1] = Turn(points, longer[i])
    <3> TAKE i \in 1..k + 1
    <3>1. CASE i = k + 1
      BY <2>4, <3>1 DEF turned
    <3>2. CASE i \in 1..k
      <4>1. i + 1 \in 1..k + 1
        BY <2>2, <3>2
      <4> QED BY <2>1, <2>4, <3>2, <4>1
    <3> QED BY <2>2, <3>1, <3>2
  <2>6. longer[1] = start
    BY <2>1, <2>2, <2>4
  <2>7. Begins(longer, k + 1)
    BY <2>4, <2>5, <2>6
  <2> QED BY <2>2, <2>4, <2>7
<1>3. Done = Nat
  <2> HIDE DEF Done
  <2>1. Done \in SUBSET Nat
    BY DEF Done
  <2> QED BY <1>1, <1>2, <2>1, AllNumbers
<1> QED BY <1>3

\* The loop of lookupN ends, however many servers it is to find: at the latest
\* when it is back where it began, of which the comment there speaks as a
\* guard against a ring out of step with its count (lib/ring/index.js).
THEOREM LoopEnds ==
  ASSUME NEW points, IsCircle(points), IsFiniteSet(points), NEW hash \in Nat, NEW n \in Nat
  PROVE  \E walk : IsWalk(points, hash, n, walk)
<1> DEFINE first == AtOrAfter(points, hash)
           start == [at |-> first, found |-> <<>>]
           most == Cardinality(points) + 3
<1>1. most \in Nat /\ most - 1 \in Nat /\ most >= 3
  BY FS_CardinalityType
<1>2. start \in States(points)
  BY AtOrAfterIs DEF States
<1> HIDE DEF most, start
<1>p. PICK path \in Seq(States(points)) : AreTurns(points, start, most, path)
  BY <1>1, <1>2, TurnsExist
<1>3. /\ path \in Seq(States(points)) /\ Len(path) = most + 1 /\ path[1] = start
      /\ \A i \in 1..most : path[i + 1] = Turn(points, path[i])
  BY <1>p DEF AreTurns
<1>4. \E i \in 2..most : path[i].at = first
  <2> SUFFICES ASSUME \A i \in 2..most : path[i].at # first PROVE FALSE
    OBVIOUS
  <2>1. IsPath(points, hash, path, most + 1)
    <3>1. (most + 1) - 1 = most
      BY <1>1
    <3>2. path[1] = [at |-> first, found |-> <<>>]
      BY <1>3 DEF start
    <3> QED BY <1>3, <3>1, <3>2 DEF IsPath
  <2>2. most \in 1..most
    BY <1>1
  <2>3. most <= Cardinality(points) + 2
    BY <1>1, <2>1, <2>2, PathPasses
  <2> QED BY <2>3, FS_CardinalityType DEF most
<1> DEFINE Ends == {i \in Nat : i \in 2..most /\ Over(points, hash, n, path[i])}
<1>5. Ends \in SUBSET Nat /\ Ends # {}
  BY <1>1, <1>4 DEF Over
<1>6. PICK last \in Ends : \A i \in Ends : last <= i
  BY <1>5, LeastNumber
<1>7. last \in 2..most /\ last \in Nat /\ last >= 2 /\ Over(points, hash, n, path[last])
  BY <1>6
<1>8. \A i \in 2..last : i # last => ~Over(points, hash, n, path[i])
  <2> TAKE i \in 2..last
  <2>1. i \in Nat /\ i \in 2..most
    BY <1>1, <1>7
  <2>2. i # last => ~(last <= i)
    BY <1>7, <2>1
  <2> QED BY <1>6, <2>1, <2>2
<1> DEFINE walk == [i \in 1..last |-> path[i]]
<1>9. \A i \in 1..last : i \in 1..Len(path) /\ path[i] \in States(points)
  BY <1>1, <1>3, <1>7
<1>10. walk \in Seq(States(points)) /\ Len(walk) = last
  BY <1>7, <1>9, IsASeq
<1>11. \A i \in 1..last : walk[i] = path[i]
  OBVIOUS
<1> HIDE DEF walk, Ends
<1>12. walk[1] = start
  BY <1>3, <1>7, <1>11
<1>13. \A i \in 1..last - 1 : walk[i + 1] = Turn(points, walk[i])
  <2> TAKE i \in 1..last - 1
  <2>1. i \in 1..last /\ i + 1 \in 1..last /\ i \in 1..most
    BY <1>1, <1>7
  <2> QED BY <1>3, <1>11, <2>1
<1>14. \A i \in 2..last : Over(points, hash, n, walk[i]) <=> i = last
  <2> TAKE i \in 2..last
  <2>1. i \in 1..last
    BY <1>7
  <2> QED BY <1>7, <1>8, <1>11, <2>1
<1>15. IsWalk(points, hash, n, walk)
  BY <1>7, <1>10, <1>12, <1>13, <1>14 DEF IsWalk, States, start
<1> QED BY <1>15

-----------------------------------------------------------------------------
(***************************************************************************)
(* Preference lists.                                                       *)
(***************************************************************************)

\* Of two servers only one is preferred.
LEMMA PreferredOrders ==
  ASSUME NEW points, IsCircle(points), NEW hash \in Nat,
         NEW s \in Addresses(points), NEW t \in Addresses(points),
         Preferred(points, hash, s, t)
  PROVE  ~Preferred(points, hash, t, s)
<1> SUFFICES ASSUME Preferred(points, hash, t, s) PROVE FALSE
  OBVIOUS
<1>1. PICK p \in points : p.address = s /\ \A q \in points : q.address = t => Before(hash, p, q)
  BY DEF Preferred
<1>2. PICK q \in points : q.address = t /\ \A r \in points : r.address = s => Before(hash, q, r)
  BY DEF Preferred
<1>3. Before(hash, p, q) /\ Before(hash, q, p)
  BY <1>1, <1>2
<1> QED BY <1>3, BeforeOrders

\* The servers of a preference list.
LEMMA ListedServers ==
  ASSUME NEW points, NEW hash, NEW n, NEW list \in Seq(Nat),
         IsPreferenceList(points, hash, n, list)
  PROVE  /\ \A i \in 1..Len(list) : list[i] \in Addresses(points)
         /\ \A i, j \in 1..Len(list) : list[i] = list[j] => i = j
         /\ Len(list) = n \/ (Len(list) < n /\ ToSet(list) = Addresses(points))
         /\ \A i, j \in 1..Len(list) : i < j => Preferred(points, hash, list[i], list[j])
<1>1. Len(list) \in Nat /\ DOMAIN list = 1..Len(list)
  OBVIOUS
<1>2. \A i \in 1..Len(list) : list[i] \in Addresses(points)
  BY <1>1 DEF IsPreferenceList, ToSet
<1>3. \A i, j \in 1..Len(list) : list[i] = list[j] => i = j
  BY <1>1 DEF IsPreferenceList, IsInjective
<1>4. ASSUME NEW i \in 1..Len(list), NEW j \in 1..Len(list), i < j
      PROVE  Preferred(points, hash, list[i], list[j])
  <2>1. \A k \in 1..i : k \in 1..Len(list) /\ k # j
    BY <1>1, <1>4
  <2>2. \A k \in 1..i : list[k] # list[j]
    BY <1>3, <1>4, <2>1
  <2> QED BY <1>1, <1>2, <2>2 DEF IsPreferenceList
<1> QED BY <1>2, <1>3, <1>4 DEF IsPreferenceList

\* The owner of a key, which lookup() finds without a loop, is the first of
\* its preference list; without servers it is nobody (lib/ring/index.js).
THEOREM OwnerIsPreferred ==
  ASSUME NEW points, IsCircle(points), NEW hash \in Nat
  PROVE  IF points = {} THEN Owner(points, hash) = 0
         ELSE IsPreferenceList(points, hash, 1, <<Owner(points, hash)>>)
<1> DEFINE at == AtOrAfter(points, hash)
           begin == Beyond(points, End)
<1>first. \/ at = End /\ \A q \in points : q.hash < hash
          \/ /\ at \in points /\ at.hash >= hash
             /\ \A q \in points : q.hash >= hash => q = at \/ Less(at, q)
  BY AtOrAfterIs
<1>begin. \/ begin = End /\ \A q \in points : ~Less(End, q)
          \/ /\ begin \in points /\ Less(End, begin)
             /\ \A q \in points : Less(End, q) => q = begin \/ Less(begin, q)
  BY BeyondIs
<1>t. \A p \in points : p # End /\ Less(End, p) /\ p.hash \in Nat
  BY EndFirst DEF IsCircle
<1>1. CASE points = {}
  BY <1>1, <1>first, <1>begin DEF Owner, End, Point
<1>2. CASE points # {}
  <2>1. PICK p \in points : /\ Owner(points, hash) = p.address
                            /\ \A q \in points : q = p \/ Before(hash, p, q)
    <3>1. CASE at = End
      <4>1. begin \in points /\ \A q \in points : q = begin \/ Less(begin, q)
        BY <1>2, <1>begin, <1>t
      <4>2. \A q \in points : q.hash < hash
        BY <3>1, <1>first, <1>t
      <4>3. \A q \in points : q = begin \/ Before(hash, begin, q)
        BY <4>1, <4>2, <1>t DEF Before
      <4>4. Owner(points, hash) = begin.address
        BY <3>1 DEF Owner
      <4> QED BY <4>1, <4>3, <4>4
    <3>2. CASE at # End
      <4>1. at \in points /\ at.hash >= hash
            /\ \A q \in points : q.hash >= hash => q = at \/ Less(at, q)
        BY <3>2, <1>first
      <4>2. \A q \in points : q = at \/ Before(hash, at, q)
        BY <4>1, <1>t DEF Before
      <4>3. Owner(points, hash) = at.address
        BY <3>2 DEF Owner
      <4> QED BY <4>1, <4>2, <4>3
    <3> QED BY <3>1, <3>2
  <2> DEFINE list == <<p.address>>
  <2>2. DOMAIN list = {1} /\ Len(list) = 1 /\ list[1] = p.address
    OBVIOUS
  <2>3. ToSet(list) \subseteq Addresses(points) /\ IsInjective(list)
    BY <2>2 DEF ToSet, Addresses, IsInjective
  <2>4. ASSUME NEW i \in DOMAIN list, NEW t \in Addresses(points), \A j \in 1..i : list[j] # t
        PROVE  Preferred(points, hash, list[i], t)
    <3>1. i = 1 /\ t # p.address
      BY <2>2, <2>4
    <3>2. \A q \in points : q.address = t => Before(hash, p, q)
      BY <2>1, <3>1
    <3> QED BY <2>2, <3>1, <3>2 DEF Preferred
  <2> HIDE DEF list
  <2>5. IsPreferenceList(points, hash, 1, list)
    BY <2>2, <2>3, <2>4 DEF IsPreferenceList
  <2> QED BY <1>2, <2>1, <2>5 DEF list
<1> QED BY <1>1, <1>2

\* A key has one preference list: whatever order the servers came in, and
\* whatever tree their points are in, every process that has the same servers
\* gets the same answer (lib/ring/index.js).
THEOREM PreferenceListUnique ==
  ASSUME NEW points, IsCircle(points), NEW hash \in Nat, NEW n \in Nat,
         NEW one \in Seq(Nat), IsPreferenceList(points, hash, n, one),
         NEW other \in Seq(Nat), IsPreferenceList(points, hash, n, other)
  PROVE  one = other
<1>1. ASSUME NEW list \in {one, other}
      PROVE
        /\ Len(list) \in Nat
        /\ \A i \in 1..Len(list) : list[i] \in Addresses(points)
        /\ \A i, j \in 1..Len(list) : list[i] = list[j] => i = j
        /\ Len(list) = n \/ (Len(list) < n /\ ToSet(list) = Addresses(points))
        /\ \A i, j \in 1..Len(list) : i < j => Preferred(points, hash, list[i], list[j])
        /\ \A i \in 1..Len(list) : \A t \in Addresses(points) :
             (\A j \in 1..i : list[j] # t) => Preferred(points, hash, list[i], t)
  <2>1. list \in Seq(Nat) /\ IsPreferenceList(points, hash, n, list)
    OBVIOUS
  <2>2. Len(list) \in Nat /\ DOMAIN list = 1..Len(list)
    BY <2>1
  <2>3. \A i \in 1..Len(list) : \A t \in Addresses(points) :
          (\A j \in 1..i : list[j] # t) => Preferred(points, hash, list[i], t)
    BY <2>1, <2>2 DEF IsPreferenceList
  <2> QED BY <2>1, <2>2, <2>3, ListedServers
<1>2. ASSUME NEW i \in Nat, i \in 1..Len(one), i \in 1..Len(other),
             \A j \in 1..i - 1 : one[j] = other[j]
      PROVE  one[i] = other[i]
  <2> SUFFICES ASSUME one[i] # other[i] PROVE FALSE
    OBVIOUS
  <2>1. ASSUME NEW a \in {one, other}, NEW b \in {one, other}, a[i] # b[i],
               \A j \in 1..i - 1 : a[j] = b[j], i \in 1..Len(a), i \in 1..Len(b)
        PROVE  Preferred(points, hash, a[i], b[i]) /\ a[i] \in Addresses(points)
    <3>1. \A j \in 1..i : j = i \/ j \in 1..i - 1
      BY <1>2
    <3>2. \A j \in 1..i - 1 : j \in 1..Len(b) /\ j # i
      BY <1>1, <2>1
    <3>3. \A j \in 1..i - 1 : a[j] # b[i]
      <4>1. \A j, k \in 1..Len(b) : b[j] = b[k] => j = k
        BY <1>1
      <4> QED BY <2>1, <3>2, <4>1
    <3>5. \A j \in 1..i : a[j] # b[i]
      BY <2>1, <3>1, <3>3
    <3>4. a[i] \in Addresses(points) /\ b[i] \in Addresses(points)
      BY <1>1, <2>1
    <3> QED BY <1>1, <2>1, <3>4, <3>5
  <2>2. /\ Preferred(points, hash, one[i], other[i]) /\ one[i] \in Addresses(points)
        /\ Preferred(points, hash, other[i], one[i]) /\ other[i] \in Addresses(points)
    BY <1>2, <2>1
  <2> QED BY <2>2, PreferredOrders
<1>3. \A i \in 1..Len(one) : i \in 1..Len(other) => one[i] = other[i]
  <2> DEFINE Differ == {i \in Nat : i \in 1..Len(one) /\ i \in 1..Len(other) /\ one[i] # other[i]}
  <2>len. Len(one) \in Nat /\ Len(other) \in Nat
    OBVIOUS
  <2>in. \A i \in Nat : i \in Differ <=>
           i \in 1..Len(one) /\ i \in 1..Len(other) /\ one[i] # other[i]
    OBVIOUS
  <2>sub. Differ \in SUBSET Nat
    OBVIOUS
  <2> HIDE DEF Differ
  <2>0. ASSUME Differ # {} PROVE FALSE
    <3>1. PICK i \in Differ : \A k \in Differ : i <= k
      BY <2>0, <2>sub, LeastNumber
    <3>2. i \in Nat /\ i \in 1..Len(one) /\ i \in 1..Len(other) /\ one[i] # other[i]
      BY <2>in, <2>sub
    <3>3. \A j \in 1..i - 1 : one[j] = other[j]
      <4> TAKE j \in 1..i - 1
      <4>1. j \in Nat /\ ~(i <= j) /\ j \in 1..Len(one) /\ j \in 1..Len(other)
        BY <2>len, <3>2
      <4>2. j \notin Differ
        BY <3>1, <4>1
      <4> QED BY <2>in, <4>1, <4>2
    <3> QED BY <1>2, <3>2, <3>3
  <2>1. \A i \in 1..Len(one) : i \in Nat
    BY <2>len
  <2> QED BY <2>0, <2>1, <2>in
<1>4. ASSUME NEW a \in {one, other}, NEW b \in {one, other},
             \A i \in 1..Len(a) : i \in 1..Len(b) => a[i] = b[i], Len(a) < Len(b)
      PROVE  FALSE
  <2> DEFINE m == Len(a) + 1
  <2>len. Len(a) \in Nat /\ Len(b) \in Nat /\ Len(b) <= n
    BY <1>1
  <2>0. Len(a) = n \/ ToSet(a) = Addresses(points)
    BY <1>1
  <2>1. m \in 1..Len(b) /\ Len(a) # n /\ \A i \in 1..Len(a) : i \in 1..Len(b) /\ i # m
    BY <1>4, <2>len
  <2>2. ToSet(a) = Addresses(points)
    BY <2>0, <2>1
  <2> HIDE DEF m
  <2>3. PICK i \in 1..Len(a) : a[i] = b[m]
    <3>1. b[m] \in ToSet(a)
      BY <1>1, <2>1, <2>2
    <3>2. DOMAIN a = 1..Len(a)
      OBVIOUS
    <3> QED BY <3>1, <3>2 DEF ToSet
  <2>4. b[i] = b[m] /\ i \in 1..Len(b)
    BY <1>4, <2>1, <2>3
  <2> QED BY <1>1, <2>1, <2>4
<1>5. Len(one) = Len(other)
  <2>1. ~(Len(one) < Len(other))
    BY <1>3, <1>4
  <2>2. \A i \in 1..Len(other) : i \in 1..Len(one) => other[i] = one[i]
    BY <1>3
  <2>3. ~(Len(other) < Len(one))
    BY <1>4, <2>2
  <2> QED BY <1>1, <2>1, <2>3
<1> QED BY <1>3, <1>5, SeqEqual

-----------------------------------------------------------------------------
(***************************************************************************)
(* Servers come and go.                                                    *)
(***************************************************************************)

\* Two rings with the same hash function: a server that is on both has the
\* same points on both.
SameHash(before, after) ==
  \A p \in before \union after :
    p.address \in Addresses(before) \intersect Addresses(after) => p \in before \intersect after

\* That is so of the points of any two sets of servers, which are of those
\* servers and no others.
LEMMA PointsFit ==
  ASSUME NEW Servers \in SUBSET (Nat \ {0}), NEW replicas \in Nat \ {0},
         NEW hashOf \in [Servers -> [1..replicas -> Nat]],
         NEW one \in SUBSET Servers, NEW other \in SUBSET Servers
  PROVE  /\ IsCircle(PointsOf(hashOf, replicas, one))
         /\ Addresses(PointsOf(hashOf, replicas, one)) = one
         /\ SameHash(PointsOf(hashOf, replicas, one), PointsOf(hashOf, replicas, other))
<1>1. ASSUME NEW server \in Servers, NEW i \in 1..replicas
      PROVE  /\ Point(hashOf[server][i], server) \in [hash : Nat, address : Nat \ {0}]
             /\ Point(hashOf[server][i], server).address = server
  BY DEF Point
<1>2. ASSUME NEW names \in SUBSET Servers
      PROVE  /\ IsCircle(PointsOf(hashOf, replicas, names))
             /\ Addresses(PointsOf(hashOf, replicas, names)) = names
  <2>1. IsCircle(PointsOf(hashOf, replicas, names))
    BY <1>1 DEF IsCircle, PointsOf
  <2>2. Addresses(PointsOf(hashOf, replicas, names)) \subseteq names
    BY <1>1 DEF Addresses, PointsOf
  <2>3. ASSUME NEW server \in names PROVE server \in Addresses(PointsOf(hashOf, replicas, names))
    <3>1. 1 \in 1..replicas
      OBVIOUS
    <3>2. Point(hashOf[server][1], server) \in PointsOf(hashOf, replicas, names)
      BY <3>1 DEF PointsOf
    <3> QED BY <1>1, <3>1, <3>2 DEF Addresses
  <2> QED BY <2>1, <2>2, <2>3
<1>3. ASSUME NEW names \in SUBSET Servers, NEW others \in SUBSET Servers,
             NEW p \in PointsOf(hashOf, replicas, names), p.address \in others
      PROVE  p \in PointsOf(hashOf, replicas, others)
  <2>1. PICK server \in names, i \in 1..replicas : p = Point(hashOf[server][i], server)
    BY DEF PointsOf
  <2>2. p.address = server
    BY <1>1, <2>1
  <2> QED BY <1>3, <2>1, <2>2 DEF PointsOf
<1>4. SameHash(PointsOf(hashOf, replicas, one), PointsOf(hashOf, replicas, other))
  <2> DEFINE before == PointsOf(hashOf, replicas, one)
             after == PointsOf(hashOf, replicas, other)
  <2>1. Addresses(before) = one /\ Addresses(after) = other
    BY <1>2
  <2>2. \A p \in before : p.address \in other => p \in after
    BY <1>3
  <2>3. \A p \in after : p.address \in one => p \in before
    BY <1>3
  <2> HIDE DEF before, after
  <2>4. SameHash(before, after)
    BY <2>1, <2>2, <2>3 DEF SameHash
  <2> QED BY <2>4 DEF before, after
<1> QED BY <1>2, <1>4

\* Which of two servers is preferred does not depend on the others.
LEMMA PreferredAlike ==
  ASSUME NEW before, NEW after, SameHash(before, after), NEW hash,
         NEW s \in Addresses(before) \intersect Addresses(after),
         NEW t \in Addresses(before) \intersect Addresses(after),
         Preferred(before, hash, s, t)
  PROVE  Preferred(after, hash, s, t)
<1>1. PICK p \in before : p.address = s /\ \A q \in before : q.address = t => Before(hash, p, q)
  BY DEF Preferred
<1>2. p \in after
  BY <1>1 DEF SameHash
<1>3. \A q \in after : q.address = t => q \in before
  BY DEF SameHash
<1> QED BY <1>1, <1>2, <1>3 DEF Preferred

\* Consistent hashing: whatever other servers come and go, two servers that
\* are on the ring before and after keep their order in the preference list
\* of every key, however long the lists (lib/ring/index.js).
THEOREM OthersKeepOrder ==
  ASSUME NEW before, IsCircle(before), NEW after, IsCircle(after), SameHash(before, after),
         NEW hash \in Nat, NEW m \in Nat, NEW n \in Nat,
         NEW old \in Seq(Nat), IsPreferenceList(before, hash, m, old),
         NEW new \in Seq(Nat), IsPreferenceList(after, hash, n, new),
         NEW i \in 1..Len(old), NEW j \in 1..Len(old), i < j,
         NEW k \in 1..Len(new), NEW l \in 1..Len(new), new[k] = old[i], new[l] = old[j]
  PROVE  k < l
<1>1. /\ old[i] \in Addresses(before) /\ old[j] \in Addresses(before)
      /\ old[i] # old[j] /\ Preferred(before, hash, old[i], old[j])
  BY ListedServers
<1>2. new[k] \in Addresses(after) /\ new[l] \in Addresses(after)
  BY ListedServers
<1>3. Preferred(after, hash, new[k], new[l])
  BY <1>1, <1>2, PreferredAlike
<1>4. ~Preferred(after, hash, new[l], new[k])
  BY <1>2, <1>3, PreferredOrders
<1>5. ~(l < k)
  BY <1>4, ListedServers
<1>6. k # l
  BY <1>1
<1> QED BY <1>5, <1>6

\* A server that stays on the ring leaves the preference list of a key only if
\* a server that was not on the ring has come into it.
THEOREM OnlyNewcomersDisplace ==
  ASSUME NEW before, IsCircle(before), NEW after, IsCircle(after), SameHash(before, after),
         NEW hash \in Nat, NEW n \in Nat,
         NEW old \in Seq(Nat), IsPreferenceList(before, hash, n, old),
         NEW new \in Seq(Nat), IsPreferenceList(after, hash, n, new),
         NEW s \in ToSet(old) \ ToSet(new), s \in Addresses(after)
  PROVE  \E t \in ToSet(new) : t \notin Addresses(before)
<1> SUFFICES ASSUME \A t \in ToSet(new) : t \in Addresses(before) PROVE FALSE
  OBVIOUS
<1>t. /\ Len(old) \in Nat /\ DOMAIN old = 1..Len(old)
      /\ Len(new) \in Nat /\ DOMAIN new = 1..Len(new)
  OBVIOUS
<1>1. PICK i \in 1..Len(old) : old[i] = s
  BY <1>t DEF ToSet
<1>2. Len(new) = n
  BY <1>t DEF IsPreferenceList
<1>3. i <= n
  <2>1. Len(old) = n \/ Len(old) < n
    BY ListedServers
  <2>2. Len(old) \in Nat /\ i \in 1..Len(old)
    BY <1>1, <1>t
  <2>3. i \in Int /\ i <= Len(old)
    BY <2>2
  <2>4. Len(old) <= n
    BY <2>1, <2>2
  <2> QED BY <2>2, <2>3, <2>4
<1>4. s \in Addresses(before)
  BY <1>1, ListedServers
<1>5. ASSUME NEW k \in 1..n PROVE \E j \in 1..i - 1 : old[j] = new[k]
  <2>1. new[k] \in ToSet(new) /\ new[k] # s
    BY <1>2, <1>5, <1>t DEF ToSet
  <2>2. new[k] \in Addresses(before) /\ new[k] \in Addresses(after)
    BY <1>2, <2>1, ListedServers
  <2>3. \A j \in 1..k : new[j] # s
    <3>1. \A j \in 1..k : j \in DOMAIN new
      BY <1>2, <1>5, <1>t
    <3> QED BY <3>1 DEF ToSet
  <2>4. Preferred(after, hash, new[k], s)
    BY <1>2, <1>5, <1>t, <2>3 DEF IsPreferenceList
  <2>5. SameHash(after, before)
    BY DEF SameHash
  <2>6. Preferred(before, hash, new[k], s)
    BY <1>4, <2>2, <2>4, <2>5, PreferredAlike
  <2>7. ~Preferred(before, hash, s, new[k])
    BY <1>4, <2>2, <2>6, PreferredOrders
  <2>8. PICK j \in 1..i : old[j] = new[k]
    BY <1>1, <1>t, <2>2, <2>7 DEF IsPreferenceList
  <2>9. j # i
    BY <1>1, <2>1, <2>8
  <2>10. j \in 1..i - 1
    BY <1>1, <2>8, <2>9
  <2> QED BY <2>8, <2>10
<1>6. PICK f : f = [k \in 1..n |-> CHOOSE j \in 1..i - 1 : old[j] = new[k]]
  OBVIOUS
<1>7. \A k \in 1..n : f[k] \in 1..i - 1 /\ old[f[k]] = new[k]
  BY <1>5, <1>6
<1>8. ASSUME NEW k \in 1..n, NEW l \in 1..n, f[k] = f[l] PROVE k = l
  <2>1. \A a, b \in 1..Len(new) : new[a] = new[b] => a = b
    BY ListedServers
  <2>2. k \in 1..Len(new) /\ l \in 1..Len(new)
    BY <1>2
  <2>3. new[k] = new[l]
    BY <1>7, <1>8
  <2> QED BY <2>1, <2>2, <2>3
<1>9. i - 1 \in Nat /\ i - 1 < n
  BY <1>3
<1>10. IsFiniteSet(1..n) /\ Cardinality(1..n) = n
       /\ IsFiniteSet(1..i - 1) /\ Cardinality(1..i - 1) = i - 1
  BY <1>9, FS_Interval
<1>11. f \in [1..n -> 1..i - 1]
  BY <1>6, <1>7
<1>12. \E k, l \in 1..n : k # l /\ f[k] = f[l]
  BY <1>9, <1>10, <1>11, FS_PigeonHole
<1> QED BY <1>8, <1>12

\* In particular a key changes its owner only to a server that is new or from
\* one that is gone: with one server more or less, nobody else's keys move.
THEOREM OwnersStay ==
  ASSUME NEW before, IsCircle(before), before # {}, NEW after, IsCircle(after), after # {},
         SameHash(before, after), NEW hash \in Nat
  PROVE  \/ Owner(after, hash) = Owner(before, hash)
         \/ Owner(after, hash) \notin Addresses(before)
         \/ Owner(before, hash) \notin Addresses(after)
<1> DEFINE was == Owner(before, hash)
           is == Owner(after, hash)
<1>1. IsPreferenceList(before, hash, 1, <<was>>) /\ IsPreferenceList(after, hash, 1, <<is>>)
  BY OwnerIsPreferred
<1> HIDE DEF was, is
<1>2. ToSet(<<was>>) = {was} /\ ToSet(<<is>>) = {is}
  <2>1. \A a : DOMAIN <<a>> = {1} /\ <<a>>[1] = a
    OBVIOUS
  <2> QED BY <2>1 DEF ToSet
<1>3. was \in Nat /\ is \in Nat
  <2>1. was \in Addresses(before) /\ is \in Addresses(after)
    BY <1>1, <1>2 DEF IsPreferenceList
  <2> QED BY <2>1 DEF Addresses, IsCircle
<1>4. <<was>> \in Seq(Nat) /\ <<is>> \in Seq(Nat)
  BY <1>3
<1>5. CASE was # is /\ was \in Addresses(after)
  <2>1. was \in ToSet(<<was>>) \ ToSet(<<is>>)
    BY <1>2, <1>5
  <2>2. \E t \in ToSet(<<is>>) : t \notin Addresses(before)
    BY <1>1, <1>4, <1>5, <2>1, OnlyNewcomersDisplace
  <2>3. is \notin Addresses(before)
    BY <1>2, <2>2
  <2> QED BY <2>3 DEF is
<1> QED BY <1>5 DEF was, is
=============================================================================
