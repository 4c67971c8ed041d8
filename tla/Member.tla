------------------------------- MODULE Member -------------------------------
(***************************************************************************)
(* What one ringpop node remembers of one member, and the rule by which it *)
(* decides whether a piece of gossip about that member replaces what it    *)
(* remembers (lib/membership/member.js).                                   *)
(*                                                                         *)
(* A member that is not in the member list is the entry Absent: the code   *)
(* looks it up in membersByAddress and finds undefined.                    *)
(***************************************************************************)
EXTENDS Integers

\* Member.Status: the values a change on the wire can carry.
Status == {"alive", "suspect", "faulty", "leave", "tombstone"}

Absent == [status |-> "absent", inc |-> 0]

\* An entry of the member list, or Absent, with incarnations drawn from Inc.
Entries(Inc) == [status : Status, inc : Inc] \union {Absent}

Known(member) == member.status # "absent"

isStatusPingable(status) == status \in {"alive", "suspect"}

statusPrecedence(status) ==
  CASE status = "alive"     -> 0
    [] status = "suspect"   -> 1
    [] status = "faulty"    -> 2
    [] status = "leave"     -> 3
    [] status = "tombstone" -> 4
    [] OTHER                -> -1

\* member is an entry or Absent, gossip an entry.
shouldProcessGossip(member, gossip) ==
  \/ ~Known(member) /\ gossip.status # "tombstone"
  \/ /\ Known(member)
     /\ \/ gossip.inc > member.inc
        \/ /\ gossip.inc = member.inc
           /\ statusPrecedence(gossip.status) > statusPrecedence(member.status)

(***************************************************************************)
(* The order the rule induces on the entries of one address: first by      *)
(* incarnation, then by precedence of status.                              *)
(***************************************************************************)
Supersedes(new, old) ==
  \/ new.inc > old.inc
  \/ new.inc = old.inc /\ statusPrecedence(new.status) > statusPrecedence(old.status)

\* What a node remembers of a member after hearing gossip about it.
Heard(member, gossip) ==
  IF shouldProcessGossip(member, gossip) THEN gossip ELSE member
=============================================================================
