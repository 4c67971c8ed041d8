------------------------------- MODULE Healer -------------------------------
(***************************************************************************)
(* Healing a partition (lib/partition_healing). The network between two    *)
(* sides of a cluster fails for a while; every process declares those on   *)
(* the other side faulty, and does not ping them when the network is back. *)
(* The healer of one process then asks a host from the host list that it   *)
(* does not know or thinks faulty for its member list. If merging the two  *)
(* lists cost somebody its place in either, both sides are made to suspect *)
(* who is in danger, so that those reincarnate; if not, they are merged.   *)
(*                                                                         *)
(* Gossip is pairwise here, with all that the sender believes; Swim has it *)
(* in detail. No partition outlasts the 24 hours after which a faulty      *)
(* member is evicted.                                                      *)
(***************************************************************************)
EXTENDS Member, FiniteSets, FiniteSetsExt

CONSTANTS
  SideA, SideB,         \* the processes on the two sides
  Newcomers,            \* those that may have joined while the network failed
  Leavers,              \* those that may be told to leave
  Local,                \* the one whose healer is modelled
  DeadHosts,            \* hosts in the host list that do not answer
  maxNumberOfFailures,  \* discoverProviderHealerMaxFailures
  MaxSplits             \* bound: how often the network fails

ASSUME HealerAssumption ==
  /\ Local \in SideA \ Leavers /\ SideA \cap SideB = {} /\ DeadHosts \cap (SideA \union SideB) = {}
  /\ maxNumberOfFailures \in Nat \ {0} /\ MaxSplits \in Nat \ {0}

VARIABLES
  connected,   \* whether messages get from one side to the other
  splits,      \* partitions so far; time passes with each
  view,        \* view[n][m]: m in the member list of n
  heal         \* the heal under way

vars == <<connected, splits, view, heal>>

Nodes == SideA \union SideB
Hosts == Nodes \union DeadHosts
Incarnation == 1..MaxSplits + 1
Entry == Entries(Incarnation)
Lists == [Nodes -> Entry]

SameSide(n, m) == n \in SideA <=> m \in SideA

NoHeal == [stage |-> "idle"]

\* A heal, with a request to its present target in flight; answer
\* is the member list that the target sent, changes what it is sent.
IsHeal(h) ==
  \/ h = NoHeal
  \/ /\ h.pool \subseteq Hosts /\ h.failures \in 0..maxNumberOfFailures - 1
     /\ \/ h.stage = "join" /\ h.target \in Hosts
        \/ h.stage = "answer" /\ h.target \in Nodes /\ h.answer \in Lists
        \/ /\ h.stage = "ping" /\ h.target \in Nodes
           /\ h.answer \in Lists /\ h.changes \in Lists

\* Both sides know each other, but for who joined when the network had failed.
Init ==
  /\ connected \in BOOLEAN
  /\ splits = IF connected THEN 0 ELSE 1
  /\ view = [n \in Nodes |-> [m \in Nodes |->
       IF ~connected /\ ~SameSide(n, m) /\ Newcomers \cap {n, m} # {}
       THEN Absent ELSE [status |-> "alive", inc |-> 1]]]
  /\ heal = NoHeal

\* Date.now(): later than whatever was declared of the other side.
Now == splits + 1

Reaches(n, m) == connected \/ SameSide(n, m)

\* update() on n: a change of its own entry is refuted by reincarnating.
Updated(n, changes) ==
  [m \in Nodes |->
    IF ~Known(changes[m]) \/ ~shouldProcessGossip(view[n][m], changes[m]) THEN view[n][m]
    ELSE IF m = n THEN [view[n][n] EXCEPT !.inc = Now]
    ELSE changes[m]]

Hears(n, changes) == view' = [view EXCEPT ![n] = Updated(n, changes)]

Only(m, entry) == [x \in Nodes |-> IF x = m THEN entry ELSE Absent]

-----------------------------------------------------------------------------
(***************************************************************************)
(* The network and the rest of the protocol.                               *)
(***************************************************************************)

Split ==
  /\ connected /\ splits < MaxSplits
  /\ connected' = FALSE
  /\ splits' = splits + 1
  /\ UNCHANGED <<view, heal>>

Reconnect ==
  /\ ~connected
  /\ connected' = TRUE
  /\ UNCHANGED <<splits, view, heal>>

\* A probe of the other side fails.
Suspect(n, m) ==
  /\ ~Reaches(n, m) /\ view[n][m].status = "alive"
  /\ Hears(n, Only(m, [view[n][m] EXCEPT !.status = "suspect"]))
  /\ UNCHANGED <<connected, splits, heal>>

\* The timeout of a suspect.
SuspectTimeout(n, m) ==
  /\ view[n][m].status = "suspect"
  /\ Hears(n, Only(m, [view[n][m] EXCEPT !.status = "faulty"]))
  /\ UNCHANGED <<connected, splits, heal>>

\* /admin/member/leave. Who has left pings nobody.
Leave(n) ==
  /\ n \in Leavers /\ view[n][n].status = "alive" /\ view[n][n].inc < Now
  /\ view' = [view EXCEPT ![n][n] = [status |-> "leave", inc |-> Now]]
  /\ UNCHANGED <<connected, splits, heal>>

Pings(n, m) == view[n][n].status = "alive" /\ isStatusPingable(view[n][m].status)

\* n tells m what it believes, in a ping or in the answer to one.
Tell(n, m) ==
  /\ n # m /\ Reaches(n, m)
  /\ Pings(n, m) \/ Pings(m, n)
  /\ Hears(m, view[n])
  /\ UNCHANGED <<connected, splits, heal>>

-----------------------------------------------------------------------------
(***************************************************************************)
(* A heal (discover_provider_healer.js): one target after the other.       *)
(***************************************************************************)

\* Mutant: who is not in the member list is overlooked.
TargetsKnown ==
  {h \in Nodes \ {Local} : statusPrecedence(view[Local][h].status) >= statusPrecedence("faulty")}

\* _getTargets(): hosts that are not in the member list, or faulty or worse.
Targets ==
  {h \in Hosts \ {Local} :
     \/ h \in DeadHosts
     \/ ~Known(view[Local][h])
     \/ statusPrecedence(view[Local][h].status) >= statusPrecedence("faulty")}

\* healNext(): the heal is over without targets, or with too many failures.
\* Otherwise it goes on with any of them, for the pool was shuffled.
HealNext(pool, failures) ==
  IF pool = {} \/ failures = maxNumberOfFailures THEN heal' = NoHeal
  ELSE \E h \in pool :
         heal' = [stage |-> "join", pool |-> pool \ {h}, failures |-> failures, target |-> h]

\* heal(), from the timer or by the admin command.
Heal ==
  /\ heal = NoHeal /\ Targets # {}
  /\ HealNext(Targets, 0)
  /\ UNCHANGED <<connected, splits, view>>

AttemptFails == HealNext(heal.pool, heal.failures + 1)

\* The hosts that the target can reach need no heal of their own.
AttemptSucceeds ==
  HealNext(heal.pool \ {m \in Nodes : isStatusPingable(heal.answer[m].status)}, heal.failures)

-----------------------------------------------------------------------------
(***************************************************************************)
(* An attempt (healer.js).                                                 *)
(***************************************************************************)

\* handleJoin() on the target.
JoinAnswered ==
  /\ heal.stage = "join" /\ heal.target \in Nodes /\ Reaches(Local, heal.target)
  /\ heal' = [stage |-> "answer", pool |-> heal.pool, failures |-> heal.failures,
              target |-> heal.target, answer |-> view[heal.target]]
  /\ UNCHANGED <<connected, splits, view>>

\* The target does not answer in time, or not at all.
JoinFails ==
  /\ heal.stage \in {"join", "answer"}
  /\ AttemptFails
  /\ UNCHANGED <<connected, splits, view>>

\* Mutant: a newer incarnation is taken for a sign of life.
nodeWouldBecomeUnPingableSameOnly(current, new) ==
  /\ isStatusPingable(current.status) /\ ~isStatusPingable(new.status)
  /\ current.inc = new.inc
  /\ statusPrecedence(new.status) > statusPrecedence(current.status)

nodeWouldBecomeUnPingable(current, new) ==
  /\ isStatusPingable(current.status) /\ ~isStatusPingable(new.status)
  /\ \/ current.inc < new.inc
     \/ /\ current.inc = new.inc
        /\ statusPrecedence(new.status) > statusPrecedence(current.status)

\* The suspects in one list, of those in danger from the other.
Suspects(current, new) ==
  [m \in Nodes |->
    IF Known(current[m]) /\ Known(new[m]) /\ nodeWouldBecomeUnPingable(current[m], new[m])
    THEN [new[m] EXCEPT !.status = "suspect"] ELSE Absent]

Nobody == [m \in Nodes |-> Absent]

\* processChanges(), when the answer comes.
ProcessChanges ==
  /\ heal.stage = "answer"
  /\ LET forA == Suspects(view[Local], heal.answer)
         forB == Suspects(heal.answer, view[Local])
         merging == forA = Nobody /\ forB = Nobody
         merged == Updated(Local, IF merging THEN heal.answer ELSE forA)
     IN /\ view' = [view EXCEPT ![Local] = merged]
        /\ IF ~merging /\ forB = Nobody
           THEN AttemptSucceeds
           ELSE heal' = [stage |-> "ping", pool |-> heal.pool, failures |-> heal.failures,
                         target |-> heal.target, answer |-> heal.answer,
                         changes |-> IF merging THEN merged ELSE forB]
  /\ UNCHANGED <<connected, splits>>

\* handlePing() on the target. When it has nothing to tell, and the lists
\* differ, it fetches the member list of Local (at once here). Of its answer
\* only counts whether there is one.
PingArrives ==
  /\ heal.stage = "ping" /\ Reaches(Local, heal.target)
  /\ \/ Hears(heal.target, heal.changes)
     \/ /\ Updated(heal.target, heal.changes) = view[heal.target]
        /\ Hears(heal.target, view[Local])
  /\ AttemptSucceeds \/ AttemptFails
  /\ UNCHANGED <<connected, splits>>

PingFails ==
  /\ heal.stage = "ping"
  /\ AttemptFails
  /\ UNCHANGED <<connected, splits, view>>

HealStep ==
  \/ JoinAnswered \/ JoinFails \/ ProcessChanges \/ PingArrives \/ PingFails

Next ==
  \/ Split \/ Reconnect
  \/ \E n, m \in Nodes :
       Suspect(n, m) \/ SuspectTimeout(n, m) \/ Tell(n, m)
  \/ \E n \in Leavers : Leave(n)
  \/ Heal \/ HealStep

Spec == Init /\ [][Next]_vars

\* Runs, and has not left.
Stays(n) == n \in Nodes /\ view[n][n].status = "alive"

\* Gossip goes round, timeouts run and heals go on. They are tried again and
\* again, sometimes with a process that runs and has not left, and not every
\* request to those is lost.
Fairness ==
  /\ WF_vars(\E n, m \in Nodes : Tell(n, m) \/ SuspectTimeout(n, m))
  /\ WF_vars(Heal \/ HealStep)
  /\ SF_vars(Heal /\ Stays(heal'.target))
  /\ SF_vars(JoinAnswered /\ Stays(heal.target))
  /\ SF_vars(ProcessChanges /\ Stays(heal.target))
  /\ SF_vars(PingArrives /\ Stays(heal.target) /\ AttemptSucceeds)

FairSpec == Spec /\ Fairness

-----------------------------------------------------------------------------
(***************************************************************************)
(* Properties.                                                             *)
(***************************************************************************)

TypeOK ==
  /\ connected \in BOOLEAN
  /\ splits \in 0..MaxSplits
  /\ view \in [Nodes -> Lists]
  /\ IsHeal(heal)

Spared(before, after) ==
  isStatusPingable(before.status) => isStatusPingable(after.status)

\* A heal costs nobody its place. No member that Local pings ceases to be
\* pinged when Local acts on the answer it got; and what it sends to the
\* target would do so to no member of which the target has heard nothing
\* since it answered.
HealSpares ==
  [][/\ heal.stage = "answer" /\ heal' # heal =>
          \A m \in Nodes : Spared(view[Local][m], view'[Local][m])
     /\ heal.stage = "ping" =>
          LET target == view[heal.target]
          IN \A m \in Nodes : target[m] = heal.answer[m] =>
               Spared(target[m], Updated(heal.target, heal.changes)[m])]_vars

\* When the network stays whole, all processes that have not left end up with
\* each other in their lists, at the incarnation each has, and ping nobody
\* who has left.
EverybodyMeets ==
  <>[]connected =>
    <>[](\A n, m \in Nodes : Stays(n) =>
           IF Stays(m) THEN view[n][m] = view[m][m]
                       ELSE ~isStatusPingable(view[n][m].status))
=============================================================================
