--------------------------- MODULE MemberIterator ---------------------------
(***************************************************************************)
(* The order in which a process probes the others                          *)
(* (lib/membership/iterator.js): round robin through the member list,      *)
(* which is shuffled when a round is through. The list is the one of       *)
(* lib/membership/index.js: members enter it anywhere and are evicted from *)
(* it while the iterator holds an index into it.                           *)
(***************************************************************************)
EXTENDS Integers, SequencesExt, FiniteSetsExt

CONSTANT Members  \* the members there may be

ASSUME MembersAssumption == IsFiniteSet(Members)

\* Every order in which some of the members may be listed.
Orders == SetToAllKPermutations(Members)

\* members[i + 1] is getMemberAt(i); index counts from 1, 0 is before the
\* first member.
IsIterator(it) == it \in [members : Orders, index : Nat]

\* _createMember at getJoinPosition(): anywhere but after the last one.
Joined(it, member, position) == [it EXCEPT !.members = InsertAt(@, position, member)]

\* evict(): the members behind it move up, the index stays.
Evicted(it, member) == [it EXCEPT !.members = RemoveFirst(@, member)]

\* The places after the index at which a pingable member is.
Ahead(it, pingable) == {i \in it.index + 1 .. Len(it.members) : it.members[i] \in pingable}

\* shuffle(): the members in any order.
Shuffles(it) == {order \in Orders : ToSet(order) = ToSet(it.members)}

\* The round is through: a shuffled list, from the start.
NewRounds(it) == {[members |-> shuffled, index |-> 0] : shuffled \in Shuffles(it)}

\* Every member has been looked at, some before the list was shuffled.
AllVisited(it, seen, i) == ToSet(SubSeq(it.members, 1, i)) \union seen = ToSet(it.members)

\* Mutant: the index is not remembered from one call to the next.
nextFromStart(it, pingable) ==
  LET fresh == [it EXCEPT !.index = 0]
  IN {[it EXCEPT !.index = Min(Ahead(fresh, pingable) \union {Len(it.members)})]}

\* next(): the iterator after it has found the next pingable member, its
\* index at that member, or has seen every member in vain.
next(it, pingable) ==
  LET seen == {it.members[i] : i \in it.index + 1 .. Len(it.members)}
      found(round) ==
        IF Ahead(round, pingable) # {} THEN Min(Ahead(round, pingable))
        ELSE Min({i \in 1..Len(round.members) : AllVisited(round, seen, i)})
  IN IF Ahead(it, pingable) # {}
     THEN {[it EXCEPT !.index = Min(Ahead(it, pingable))]}
     ELSE IF seen = ToSet(it.members)
     THEN {[it EXCEPT !.index = Len(it.members)]}
     ELSE {[round EXCEPT !.index = found(round)] : round \in NewRounds(it)}
=============================================================================
