----------------------------- MODULE MemberView -----------------------------
(***************************************************************************)
(* What a member list promises, whatever callbacks and timers maintain it. *)
(* The entry of every member only moves forward in the order of            *)
(* Member!Supersedes, except that a tombstone may be forgotten; a member   *)
(* is never first heard of as a tombstone; the local member only moves to  *)
(* later (or the same) incarnations; and the ring is at every moment the   *)
(* set of pingable members.                                                *)
(***************************************************************************)
EXTENDS Member

CONSTANTS Local, Others, Inc

VARIABLES members, ring

Nodes == Others \union {Local}
vvars == <<members, ring>>

Pingable(list) == {m \in Nodes : isStatusPingable(list[m].status)}

Init ==
  /\ members = [m \in Nodes |-> Absent]
  /\ ring = {}

FirstHeard(m) ==
  /\ ~Known(members[m])
  /\ Known(members'[m]) /\ members'[m].status # "tombstone"

Advances(m) ==
  /\ Known(members[m]) /\ Known(members'[m])
  /\ IF m = Local THEN members'[m].inc >= members[m].inc
                  ELSE Supersedes(members'[m], members[m])

Forgets(m) ==
  /\ m # Local
  /\ members[m].status = "tombstone"
  /\ members'[m] = Absent

\* A batch of news reaches the list, or one tombstone is forgotten.
Learn ==
  \A m \in Nodes : members'[m] = members[m] \/ FirstHeard(m) \/ Advances(m)

Forget ==
  \E m \in Nodes : Forgets(m) /\ \A n \in Nodes \ {m} : members'[n] = members[n]

Next ==
  /\ members' \in [Nodes -> Entries(Inc)]
  /\ Learn \/ Forget
  /\ ring' = Pingable(members')

Spec == Init /\ [][Next]_vvars
=============================================================================
