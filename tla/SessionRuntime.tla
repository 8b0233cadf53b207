--------------------------- MODULE SessionRuntime ---------------------------
(***************************************************************************)
(* One play session: its players' send-message and lifecycle requests and   *)
(* the Game Master runs they leave behind, interleaved at every await over  *)
(* the rows they share.                                                     *)
(*                                                                          *)
(* The program puts no limit on the requests of a session that are being    *)
(* served at once; its clients do (the web app disables sending and         *)
(* switching while a request is pending).  MaxInFlight = 1 is such a        *)
(* client, and background Game Master runs still overlap its requests.      *)
(***************************************************************************)
EXTENDS SendMessage, Lifecycle

CONSTANT
  MaxInFlight  \* bound: requests the clients of a session leave pending

ASSUME ClientAssumption == MaxInFlight \in Nat

vars == <<session, conv, made, messages, clock, row, run, processing, turn, op>>

Pending == {t \in Turns : InFlight(t)} \cup {o \in Ops : OpInFlight(o)}

ClientIsFree == Cardinality(Pending) < MaxInFlight

Init ==
  /\ StoreInit
  /\ GmInit
  /\ TurnInit
  /\ OpInit

SendRequest ==
  \E t \in Turns, c \in ConvIds, m \in Modes :
    ClientIsFree /\ Receive(t, c, m) /\ UNCHANGED op

LifecycleRequest ==
  \E o \in Ops :
    /\ ClientIsFree
    /\ \/ \E k \in AllKinds, a \in Avatars : BeginOpen(o, k, a)
       \/ \E c \in ConvIds : BeginEnd(o, c)
       \/ BeginReset(o)
    /\ UNCHANGED turn

ServeTurn == \E t \in Turns : TurnStep(t) /\ UNCHANGED op

ServeOp == \E o \in Ops : OpStep(o) /\ UNCHANGED turn

ServeRun == \E r \in RunIds : RunStep(r) /\ UNCHANGED <<turn, op>>

(* Nothing is pending and nothing runs: the session waits for its players.  *)
Quiescent ==
  /\ Pending = {}
  /\ \A r \in RunIds : ~Running(r)
  /\ UNCHANGED vars

Next ==
  \/ SendRequest
  \/ LifecycleRequest
  \/ ServeTurn
  \/ ServeOp
  \/ ServeRun
  \/ Quiescent

Spec == Init /\ [][Next]_vars

(* Every awaited call settles: the database answers, and the adapters of    *)
(* the language models time out.  Players need not send anything.           *)
FairSpec ==
  /\ Spec
  /\ \A t \in Turns : WF_vars(TurnStep(t) /\ UNCHANGED op)
  /\ \A o \in Ops : WF_vars(OpStep(o) /\ UNCHANGED turn)
  /\ \A r \in RunIds : WF_vars(RunStep(r) /\ UNCHANGED <<turn, op>>)

-----------------------------------------------------------------------------
(* Properties of every client. *)

(* Type invariant: the rows, requests and runs stay in their types.         *)
TypeOK == StoreTypeOK /\ GmTypeOK /\ TurnTypeOK /\ OpTypeOK

(* However stale what a writer of gm_states read, its upsert never takes    *)
(* the interaction count back nor replaces a plan by an older one, and the  *)
(* row never vanishes.                                                      *)
RowNeverRegresses ==
  [][row # NoRow =>
       /\ row' # NoRow
       /\ row'.count >= row.count
       /\ row.plan # None => row'.plan # None /\ row'.plan.after >= row.plan.after]_vars

(* The Game Master observes completed exchanges only: the run of a turn is  *)
(* started by nothing but that turn, after its exchange was counted, so a   *)
(* turn that failed or was interrupted schedules no background work.        *)
OnlyCountedTurnsAreObserved ==
  \A t \in Turns : run[t].pc # "idle" => CountedTurn(t)

(* The exchange count is never ahead of the exchanges that completed.       *)
CountedTurns == {t \in Turns : CountedTurn(t)}

CountIsNeverAhead == row # NoRow => row.count <= Cardinality(CountedTurns)

(* A closed conversation is never reopened, though requests that loaded it  *)
(* while it was active still store messages and touch its row.              *)
ClosedStaysClosed ==
  [][\A c \in ConvIds : conv[c].status = "closed" => conv'[c].status # "active"]_vars

(* A reset leaves no message behind, also of a turn that was between two    *)
(* steps when the conversation was deleted.                                 *)
NoOrphanMessages == \A m \in messages : Exists(m.conv)

-----------------------------------------------------------------------------
(* Properties of a client that waits for each answer. *)

(* Background runs write back the count they read, yet every completed      *)
(* exchange is counted exactly once.                                        *)
CountIsExact == OrDefault(row).count = Cardinality(CountedTurns)

(* No two turns are answered with the same plan, also when the first one    *)
(* was interrupted and the player tried again.                              *)
PlanIsUsedOnce ==
  \A t, u \in Turns : t # u /\ turn[t].plan # None => turn[t].plan # turn[u].plan

(* The plan a turn consumes is the one prepared for it: by the run that     *)
(* observed the exchange right before it or, with no reply so far, by an    *)
(* initial run.  This needs an initial run that left a row: without one, a  *)
(* turn takes its index from the stored messages, those of interrupted      *)
(* turns included, and a later turn may find an older plan at its index.    *)
RepliesBefore(t) ==
  {m \in messages : m.role = "avatar" /\ \A n \in messages :
                       n.turn = t /\ n.role = "user" => m.at < n.at}

PlanIsForThisTurn ==
  \A t \in Turns :
    turn[t].plan # None =>
      IF RepliesBefore(t) = {}
      THEN turn[t].plan \in Ops
      ELSE \E m \in RepliesBefore(t) :
             /\ \A n \in RepliesBefore(t) : n.at <= m.at
             /\ m.turn = turn[t].plan

(* What such a client sees is a ledger of exchanges and plans: the runs that *)
(* decide, and the farewells of streams whose run starts when they return,  *)
(* make a plan; the row offers one, and who read the row may write it back. *)
PlanOf(p) == [by |-> p.by, after |-> p.after]

Deciding == {"readState", "readSession", "askModel", "unlock", "route", "savePlan"}

WillDecide(t) == turn[t].pc \in {"checkClose", "close"} /\ turn[t].mode.streaming

MakesPlan(r) == run[r].pc \in Deciding \/ (r \in Turns /\ WillDecide(r))

MadeAfter(r) == IF run[r].pc \in Deciding THEN run[r].turnIndex ELSE TurnIndex(r)

Begun == CountedTurns \cup {o \in Ops : run[o].pc # "idle"}

Making == {[by |-> r, after |-> MadeAfter(r)] : r \in {q \in RunIds : MakesPlan(q)}}

Offer == {PlanOf(p) : p \in {OrDefault(row).plan} \ {None}}

HeldPlans == Offer \cup {PlanOf(p) : p \in {turn[t].state.plan : t \in Turns} \ {None}}

(* No call of a request fails, initial runs succeed, and nothing is reset.  *)
(* Then a row is there before the first turn, and numbers it.               *)
Calm ==
  /\ FaultyRequests = {}
  /\ FaultyRuns \cap Ops = {}
  /\ \A o \in Ops : "reset" \notin Kinds[o]

Ledger ==
  INSTANCE ExchangeLedger WITH
    Exchanges <- Turns,
    Openings <- Ops,
    FirstNumbers <- IF Calm THEN {1} ELSE Nat \ {0},
    begun <- Begun,
    count <- OrDefault(row).count,
    making <- Making,
    held <- HeldPlans,
    offer <- Offer,
    answered <- [t \in Turns |-> turn[t].plan]

(* Whatever the background runs and the counting turns write back of what   *)
(* they read, exchanges are numbered in order and each is counted once,     *)
(* each plan is published once and answers one exchange at most, made after *)
(* the exchange before it, and no older plan comes back.                    *)
ImplementsLedger == Ledger!LedgerSpec

(* A session has at most one active conversation.                           *)
OneActiveConversation == Cardinality(ActiveConvs) <= 1

-----------------------------------------------------------------------------
(* Liveness. *)

(* Every request is answered, every run ends, and the runtime state stops   *)
(* saying that the Game Master is working.                                  *)
RequestsSettle ==
  /\ \A t \in Turns : InFlight(t) ~> ~InFlight(t)
  /\ \A o \in Ops : OpInFlight(o) ~> ~OpInFlight(o)

ProcessingEnds == <>[](~processing)

-----------------------------------------------------------------------------
(* What the documentation says of the program. *)

(* GAME_MASTER_CONTRACT.md: pending guidance from the previous GM turn is   *)
(* consumed at most once, so no run's director notes reach two prompts.     *)
GuidanceIsUsedOnce ==
  \A t, u \in Turns : t # u /\ turn[t].guidance # None => turn[t].guidance # turn[u].guidance

(* GAME_MASTER_CONTRACT.md: progression changes only when a run's output    *)
(* says "increase".                                                         *)
ProgressionOnlyIncreases ==
  [][OrDefault(row').progression >= OrDefault(row).progression]_vars

(* TEST_COVERAGE_PLAN.md: the unlock state changes only through Game Master *)
(* unlocks, so nothing but a reset takes an avatar out of it.               *)
UnlocksAreKept ==
  [][session.unlocked \subseteq session'.unlocked \/ \E o \in Ops : ResetSession(o)]_vars

=============================================================================
