----------------------------- MODULE GmStateRow -----------------------------
(***************************************************************************)
(* The row of table gm_states that a session's turns and its Game Master   *)
(* (GM) runs share, and the pure functions the program applies to it.      *)
(*                                                                         *)
(* The row is only ever written by one upsert statement, given a whole     *)
(* GameMasterState that its writer built from an earlier read.  Save says  *)
(* what the upsert makes of a stale one.                                   *)
(*                                                                         *)
(* Abstractions: a plan is identified by the GM run that produced it; its  *)
(* director notes, dialogue control and retrieval queries are that run's.  *)
(* The progression marker takes the three values the reducer can reach:    *)
(* 0 is the empty marker, 1 is "advanced", 2 is "advanced [advanced]".     *)
(***************************************************************************)
EXTENDS Integers

CONSTANTS
  Avatars,     \* the active, prepared avatars of the session's scenario
  Turns,       \* send-message requests
  Ops,         \* lifecycle requests: start, switch, end, reset
  None,        \* an absent optional field
  NoRow        \* the session has no gm_states row yet

ASSUME DistinctIds ==
  /\ Turns \cap Ops = {}
  /\ None \notin Nat \cup Avatars \cup Turns \cup Ops

(* A turn and the opening of a conversation each start at most one GM run, *)
(* so a run is named by the request that started it.                       *)
RunIds == Turns \cup Ops

Plan == [by : RunIds, avatar : Avatars, after : Nat, consumed : Nat \cup {None}]

State == [progression : 0..2, count : Nat, plan : Plan \cup {None}]

ASSUME SentinelsAreNotData ==
  /\ None \notin Plan
  /\ NoRow \notin State

DefaultState == [progression |-> 0, count |-> 0, plan |-> None]

OrDefault(row) == IF row = NoRow THEN DefaultState ELSE row

Greatest(m, n) == IF m >= n THEN m ELSE n

-----------------------------------------------------------------------------

(* Mutant of MergePlan: the last writer's plan wins, however old.          *)
LastPlanWins(stored, written) == IF written = None THEN stored ELSE written

(* The upsert keeps the stored plan when the writer brings none, or brings *)
(* one generated after an earlier turn.  On a tie the writer wins.         *)
MergePlan(stored, written) ==
  IF \/ written = None
     \/ stored # None /\ written # None /\ stored.after > written.after
  THEN stored
  ELSE written

(* Mutant of Save: the count is the writer's, without GREATEST.            *)
SaveWithStaleCount(row, written) ==
  IF row = NoRow
  THEN written
  ELSE [written EXCEPT !.plan = MergePlan(row.plan, written.plan)]

Save(row, written) ==
  IF row = NoRow
  THEN written
  ELSE [progression |-> written.progression,
        count       |-> Greatest(row.count, written.count),
        plan        |-> MergePlan(row.plan, written.plan)]

(* Mutant of PlanApplies: the turn the plan was prepared for is ignored.   *)
AnyPendingPlanApplies(plan, a, i) ==
  plan # None /\ plan.consumed = None /\ plan.avatar = a

(* When the turn numbered i, answered by avatar a, may use the plan.       *)
PlanApplies(plan, a, i) ==
  /\ plan # None
  /\ plan.consumed = None
  /\ plan.avatar = a
  /\ plan.after = i - 1

(* Mutant of ConsumedBy: a plan in use is not marked.                      *)
NotMarked(state, i) == state

ConsumedBy(state, i) == [state EXCEPT !.plan = [@ EXCEPT !.consumed = i]]

Counted(state) == [state EXCEPT !.count = @ + 1]

(* Mutants of Reduced: the stop at "[advanced]" is forgotten; the reducer  *)
(* counts the exchange as well.                                            *)
ReducedWithoutStop(state, increase) ==
  [state EXCEPT !.progression = IF increase THEN @ + 1 ELSE @]

ReducedAndCounted(state, increase) == Counted(state)

(* reduceGmState: only "increase" moves the marker, and the marker stops   *)
(* at the value that already ends with "[advanced]".                       *)
Reduced(state, increase) ==
  [state EXCEPT !.progression = IF increase /\ @ < 2 THEN @ + 1 ELSE @]

=============================================================================
