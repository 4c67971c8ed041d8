------------------------------- MODULE Circle -------------------------------
(***************************************************************************)
(* Consistent hashing (lib/ring/index.js) for a set of replica points, as  *)
(* it is apart from the tree that keeps them: the order of the points, the *)
(* positions of an iterator over them, and the lookups. A server may have  *)
(* several points, and points of different servers the same hash.          *)
(***************************************************************************)
EXTENDS Integers, SequencesExt

\* A replica point. Addresses are numbers in the order of the addresses. A key
\* to look up has no address, which sorts first.
Point(hash, address) == [hash |-> hash, address |-> address]

\* Mutant: points with the same hash are the same point.
LessByHash(a, b) == a.hash < b.hash

Less(a, b) == a.hash < b.hash \/ (a.hash = b.hash /\ a.address < b.address)

Same(a, b) == ~Less(a, b) /\ ~Less(b, a)

\* The points of some servers with so many replicas each.
PointsOf(hashOf, replicas, names) ==
  {Point(hashOf[server][i], server) : server \in names, i \in 1..replicas}

IsCircle(points) == points \subseteq [hash : Nat, address : Nat \ {0}]

Addresses(points) == {p.address : p \in points}

-----------------------------------------------------------------------------
(***************************************************************************)
(* Iterators.                                                              *)
(***************************************************************************)

\* Where an iterator is that has passed the last point or has not started.
End == Point(-1, 0)

FirstOf(points) ==
  IF points = {} THEN End
  ELSE CHOOSE p \in points : \A q \in points : ~Less(q, p)

\* upperBound for a key of this hash.
AtOrAfter(points, hash) == FirstOf({p \in points : p.hash >= hash})

\* next: from the end an iterator begins anew.
Beyond(points, at) == FirstOf({p \in points : Less(at, p)})

-----------------------------------------------------------------------------
(***************************************************************************)
(* Lookups.                                                                *)
(***************************************************************************)

\* lookup: the server of the first point at or after the hash, past the last
\* point that of the first of all. 0 is nobody.
Owner(points, hash) ==
  LET at == AtOrAfter(points, hash)
  IN IF at # End THEN at.address ELSE Beyond(points, End).address

\* A turn of the loop in lookupN takes the server of the point, unless it has
\* it already; past the last point there is none.
Taken(found, at) ==
  IF at = End \/ Contains(found, at.address) THEN found ELSE Append(found, at.address)

\* Then it moves on.
Turn(points, walk) ==
  [at |-> Beyond(points, walk.at), found |-> Taken(walk.found, walk.at)]

\* The loop ends with n servers, or where it began. There is a turn before
\* the first test.
Over(points, hash, n, walk) ==
  Len(walk.found) >= n \/ walk.at = AtOrAfter(points, hash)

\* A run of the loop, from before its first turn to its end.
IsWalk(points, hash, n, walk) ==
  /\ walk \in Seq([at : points \union {End}, found : Seq(Addresses(points))])
  /\ Len(walk) >= 2
  /\ walk[1] = [at |-> AtOrAfter(points, hash), found |-> <<>>]
  /\ \A i \in 1..Len(walk) - 1 : walk[i + 1] = Turn(points, walk[i])
  /\ \A i \in 2..Len(walk) : Over(points, hash, n, walk[i]) <=> i = Len(walk)

-----------------------------------------------------------------------------
(***************************************************************************)
(* What the lookups are for.                                               *)
(***************************************************************************)

\* p is met before q on the way round the circle from a hash: first the points
\* from the hash up to the last, then those from the first on.
Before(hash, p, q) ==
  \/ p.hash >= hash /\ q.hash < hash
  \/ (p.hash >= hash <=> q.hash >= hash) /\ Less(p, q)

\* Some point of server s is met before all of server t.
Preferred(points, hash, s, t) ==
  \E p \in points :
    p.address = s /\ \A q \in points : q.address = t => Before(hash, p, q)

\* The preference list of a key: the first n servers round the circle, or all
\* of them if they are fewer, each once.
IsPreferenceList(points, hash, n, list) ==
  /\ ToSet(list) \subseteq Addresses(points)
  /\ IsInjective(list)
  /\ Len(list) = n \/ (Len(list) < n /\ ToSet(list) = Addresses(points))
  /\ \A i \in DOMAIN list : \A t \in Addresses(points) :
       (\A j \in 1..i : list[j] # t) => Preferred(points, hash, list[i], t)
=============================================================================
