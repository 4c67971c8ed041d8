-------------------------- MODULE StateTransitions --------------------------
(***************************************************************************)
(* The timers that move a member on from suspect to faulty, from faulty to *)
(* tombstone and from tombstone out of the list                            *)
(* (lib/gossip/state_transitions.js): what becomes of the record under one *)
(* address when an update about it is handled and when its timeout runs.   *)
(***************************************************************************)
EXTENDS Member

NoTimer == [state |-> "none", inc |-> 0, live |-> FALSE]

\* The record timers[address]. inc is the incarnation the closure of the
\* timeout captured; live says that the timeout has not run. The code leaves
\* the record in place once it has.
Timers(Inc) ==
  [state : {"suspect", "faulty", "tombstone"}, inc : Inc, live : BOOLEAN]
    \union {NoTimer}

\* schedule: a record of the same state is kept as it is, any other replaced.
\* active is false while the transitions are disabled and for the local
\* member; then nothing is scheduled.
schedule(active, timer, update) ==
  IF ~active \/ timer.state = update.status
  THEN timer
  ELSE [state |-> update.status, inc |-> update.inc, live |-> TRUE]

\* Mutant: a member that left keeps its transition.
handleUpdateKeepsOnLeave(active, timer, update) ==
  IF update.status = "alive" THEN NoTimer
  ELSE IF update.status = "leave" THEN timer
  ELSE schedule(active, timer, update)

\* handleUpdate: alive and leave cancel the transition.
handleUpdate(active, timer, update) ==
  IF update.status \in {"alive", "leave"}
  THEN NoTimer
  ELSE schedule(active, timer, update)

\* What the timeout leaves behind.
Fired(timer) == [timer EXCEPT !.live = FALSE]

\* The status a timeout asks for: makeFaulty, makeTombstone.
NextStatus == [suspect |-> "faulty", faulty |-> "tombstone"]
=============================================================================
