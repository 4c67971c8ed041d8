-------------------------------- MODULE Ring --------------------------------
(***************************************************************************)
(* The consistent hash ring of one process (lib/ring/index.js) on the tree *)
(* of RBTree, and the lookups of the facade (index.js). Servers come and   *)
(* go in any order, one by one or in batches; whatever the order was, the  *)
(* same servers must give the same answers, and all processes rely on it.  *)
(***************************************************************************)
EXTENDS RBTree, FiniteSetsExt

CONSTANTS
  Servers,       \* addresses, as numbers in the order of the addresses
  replicaPoints, \* how many points a server has on the ring
  MaxBatch,      \* bound: servers in a list of addRemoveServers
  Hashes,        \* the range of the hash function
  HashFunctions  \* what hashFunc may make of the replicas of each server

ASSUME RingAssumption ==
  /\ Servers \subseteq Nat \ {0}
  /\ Hashes \subseteq Nat
  /\ HashFunctions \subseteq [Servers -> [1..replicaPoints -> Hashes]]

VARIABLES
  hashOf,        \* the hash function
  rbtree,
  servers,
  checksum       \* of the names of the servers; null before there were any

vars == <<hashOf, rbtree, servers, checksum>>

null == {0}

Init ==
  /\ hashOf \in HashFunctions
  /\ rbtree = Nil
  /\ servers = {}
  /\ checksum = null

-----------------------------------------------------------------------------
(***************************************************************************)
(* Servers come and go.                                                    *)
(***************************************************************************)

\* Two replicas of a server may have the same hash; they are one point then.
Replicas(server) == [i \in 1..replicaPoints |-> Point(hashOf[server][i], server)]

addServerReplicas(tree, server) == FoldLeft(insert, tree, Replicas(server))

removeServerReplicas(tree, server) == FoldLeft(remove, tree, Replicas(server))

\* The checksum of the names in alphabetical order stands for their set.
SetServers(tree, names) ==
  /\ rbtree' = tree
  /\ servers' = names
  /\ checksum' = names
  /\ UNCHANGED hashOf

addServer(server) ==
  /\ server \notin servers
  /\ SetServers(addServerReplicas(rbtree, server), servers \union {server})

removeServer(server) ==
  /\ server \in servers
  /\ SetServers(removeServerReplicas(rbtree, server), servers \ {server})

\* Those that are there are not added, those that are not, not removed; a
\* server in both lists comes and goes. Nothing to do leaves the checksum.
addRemoveServers(serversToAdd, serversToRemove) ==
  LET isNew(server) == server \notin servers
      added == SelectSeq(serversToAdd, isNew)
      names == servers \union ToSet(added)
      isThere(server) == server \in names
      removed == SelectSeq(serversToRemove, isThere)
      grown == FoldLeft(addServerReplicas, rbtree, added)
  IN /\ added # <<>> \/ removed # <<>>
     /\ SetServers(FoldLeft(removeServerReplicas, grown, removed), names \ ToSet(removed))

-----------------------------------------------------------------------------
(***************************************************************************)
(* Lookups.                                                                *)
(***************************************************************************)

\* Mutant: past the last point there is nobody.
lookupWithoutWrap(tree, hash) ==
  LET iter == upperBound(tree, Point(hash, 0))
  IN IF iter = <<>> THEN 0 ELSE Last(iter).key.address

\* The server that owns a key: the one of the first point at or after its
\* hash, or past the last point the one of the first. 0 is nobody.
lookup(tree, hash) ==
  LET iter == upperBound(tree, Point(hash, 0))
  IN CASE iter # <<>> -> Last(iter).key.address
       [] iter = <<>> /\ tree # Nil -> min(tree).address
       [] OTHER -> 0

\* The point an iterator is at.
KeyOf(iter) == IF iter = <<>> THEN End ELSE Last(iter).key

\* The loop of lookupN, turn by turn, with an iterator on the tree.
RECURSIVE Successors(_, _, _, _, _)
Successors(tree, iter, first, n, found) ==
  LET result == Taken(found, KeyOf(iter))
      moved == next(tree, iter)
  IN IF Len(result) >= n \/ moved = first THEN result
     ELSE Successors(tree, moved, first, n, result)

lookupN(tree, count, hash, n) ==
  LET iter == upperBound(tree, Point(hash, 0))
  IN Successors(tree, iter, iter, IF n > count THEN count ELSE n, <<>>)

-----------------------------------------------------------------------------
Lists == {list \in SetToAllKPermutations(Servers) : Len(list) <= MaxBatch}

Next ==
  \/ \E server \in Servers : addServer(server) \/ removeServer(server)
  \/ \E serversToAdd, serversToRemove \in Lists : addRemoveServers(serversToAdd, serversToRemove)

Spec == Init /\ [][Next]_vars

-----------------------------------------------------------------------------
(***************************************************************************)
(* Properties.                                                             *)
(***************************************************************************)

\* The ring as it is meant: a set of points on a circle.
Points(names) == PointsOf(hashOf, replicaPoints, names)

\* However servers came and went, with points that collide between servers
\* or within one, the tree holds exactly the points of the present ones, in
\* order and balanced, and the checksum that other nodes compare is theirs
\* (lib/ring/rbtree.js insert and remove).
TreeHoldsServers ==
  /\ servers \subseteq Servers
  /\ checksum \in {servers} \/ (checksum = null /\ servers = {})
  /\ IsRedBlackTree(rbtree)
  /\ ToSet(Keys(rbtree)) = Points(servers)

\* What the lookups answer depends on the servers alone, not on the history
\* of the tree: its iterators stop at the points of the circle in their order,
\* wrapping round past the last, the owner of a key is the first server met,
\* and its preference list has the first n, each once (lookup, lookupN).
LookupsFollowCircle ==
  LET points == Points(servers)
      count == Cardinality(servers)
  IN /\ KeyOf(next(rbtree, <<>>)) = Beyond(points, End)
     /\ \A p \in points : KeyOf(next(rbtree, lowerBound(rbtree, p))) = Beyond(points, p)
     /\ \A hash \in Hashes :
          /\ KeyOf(upperBound(rbtree, Point(hash, 0))) = AtOrAfter(points, hash)
          /\ lookup(rbtree, hash) = Owner(points, hash)
          /\ \A n \in 1..(Cardinality(Servers) + 1) :
               IsPreferenceList(points, hash, Min({n, count}), lookupN(rbtree, count, hash, n))

\* Consistent hashing: when servers come and go, the others keep their order
\* in the preference list of every key; in particular a key changes owner
\* only to a new server or from one that is gone.
OthersKeepTheirOrder ==
  [][\A hash \in Hashes :
       LET stays(server) == server \in servers \intersect servers'
           before == lookupN(rbtree, Cardinality(servers), hash, Cardinality(Servers))
           after == lookupN(rbtree', Cardinality(servers'), hash, Cardinality(Servers))
       IN SelectSeq(before, stays) = SelectSeq(after, stays)]_vars
=============================================================================
