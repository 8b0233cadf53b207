----------------------------- MODULE SendMessage -----------------------------
(***************************************************************************)
(* A send-message request (SendMessageUseCase, and its streaming variant):  *)
(* prepareTurn reads the conversation, the session and the gm_states row,   *)
(* consumes the pending plan and stores the user message; the avatar's      *)
(* model answers; completeTurn stores the answer, clears the director       *)
(* notes, counts the exchange and starts the Game Master in the background. *)
(*                                                                          *)
(* Each awaited call is a step of its own.  The request goes on with the    *)
(* conversation, session and row it read, whatever has changed since.       *)
(* Left out: prompt assembly, retrieval and model selection, which write    *)
(* nothing, and memory refreshes.                                           *)
(***************************************************************************)
EXTENDS GameMasterRun

CONSTANTS
  Modes,        \* the kinds of request that are sent
  HistoryLimit  \* MESSAGE_HISTORY_FETCH_LIMIT

(* streaming: sent to the streaming route; bye: the text is one of the      *)
(* implicit-end policy's terminal signals.                                  *)
Mode == [streaming : BOOLEAN, bye : BOOLEAN]

ASSUME ModesAssumption ==
  /\ Modes \subseteq Mode
  /\ HistoryLimit \in Nat

VARIABLE turn

(* conv, avatar, notes and state are what the request read; prior is its    *)
(* priorUserTurnCount, plan the run whose plan it consumed, guidance the    *)
(* run whose director notes are in its prompt.                              *)
Turn == [pc : {"idle", "readSession", "readState", "countHistory", "rereadState",
               "consume", "saveUser", "askAvatar", "touch", "clearNotes", "readCount",
               "saveCount", "checkClose", "close", "done", "failed", "interrupted"},
         mode : Mode, conv : ConvIds \cup {0}, avatar : Avatars \cup {None},
         notes : RunIds \cup {None}, state : State, prior : Nat,
         plan : RunIds \cup {None}, guidance : RunIds \cup {None}]

IdleTurn == [pc |-> "idle", mode |-> [streaming |-> FALSE, bye |-> FALSE], conv |-> 0,
             avatar |-> None, notes |-> None, state |-> DefaultState,
             prior |-> 0, plan |-> None, guidance |-> None]

TurnInit == turn = [t \in Turns |-> IdleTurn]

TurnTypeOK == turn \in [Turns -> Turn]

Ended == {"done", "failed", "interrupted"}

InFlight(t) == turn[t].pc \notin Ended \cup {"idle"}

TurnIndex(t) == turn[t].prior + 1

(* The exchange was counted: incrementInteractionCount has returned.        *)
CountedTurn(t) == turn[t].pc \in {"checkClose", "close", "done"}

-----------------------------------------------------------------------------
(* prepareTurn *)

GotoTurn(t, pc) == turn' = [turn EXCEPT ![t].pc = pc]

(* What is told of a request that has ended.                                *)
EndTurn(t, pc) ==
  turn' = [turn EXCEPT ![t] = [IdleTurn EXCEPT !.pc = pc,
                                               !.plan = turn[t].plan,
                                               !.guidance = turn[t].guidance]]

(* loadActiveConversation answers 404 or 409 unless the row is active.      *)
Receive(t, c, m) ==
  /\ turn[t].pc = "idle"
  /\ conv[c].status = "active"
  /\ turn' = [turn EXCEPT ![t] = [@ EXCEPT !.pc = "readSession",
                                           !.mode = m,
                                           !.conv = c,
                                           !.avatar = conv[c].avatar]]
  /\ UNCHANGED <<gmVars, storeVars>>

LoadSession(t) ==
  /\ turn[t].pc = "readSession"
  /\ turn' = [turn EXCEPT ![t] = [@ EXCEPT !.pc = "readState", !.notes = session.notes]]
  /\ UNCHANGED <<gmVars, storeVars>>

(* Once the state and the prior count are known: consume the plan it holds  *)
(* if it applies, or build the prompt with the session's notes instead.     *)
Prepared(old, state, prior) ==
  IF PlanApplies(state.plan, old.avatar, prior + 1)
  THEN [old EXCEPT !.state = state, !.prior = prior, !.pc = "consume"]
  ELSE [old EXCEPT !.prior = prior, !.pc = "saveUser", !.guidance = old.notes]

LoadGmState(t) ==
  /\ turn[t].pc = "readState"
  /\ turn' = [turn EXCEPT ![t] = IF row = NoRow
                                 THEN [@ EXCEPT !.pc = "countHistory"]
                                 ELSE Prepared(@, row, row.count)]
  /\ UNCHANGED <<gmVars, storeVars>>

(* loadRecentUserTurnCount: the user messages among the latest few.         *)
RecentUserCount(c) == Cardinality({m \in Latest(c, HistoryLimit) : m.role = "user"})

CountHistory(t) ==
  /\ turn[t].pc = "countHistory"
  /\ turn' = [turn EXCEPT ![t] = [@ EXCEPT !.pc = "rereadState",
                                           !.prior = RecentUserCount(turn[t].conv)]]
  /\ UNCHANGED <<gmVars, storeVars>>

(* consumeNextTurnOrchestration looks the row up again when there was none. *)
RereadGmState(t) ==
  /\ turn[t].pc = "rereadState"
  /\ turn' = [turn EXCEPT ![t] = Prepared(@, OrDefault(row), @.prior)]
  /\ UNCHANGED <<gmVars, storeVars>>

ConsumePlan(t) ==
  /\ turn[t].pc = "consume"
  /\ row' = Save(row, ConsumedBy(turn[t].state, TurnIndex(t)))
  /\ turn' = [turn EXCEPT ![t] = [@ EXCEPT !.pc = "saveUser",
                                           !.plan = turn[t].state.plan.by,
                                           !.guidance = turn[t].state.plan.by,
                                           !.state = DefaultState]]
  /\ UNCHANGED <<gmVars, session, conv, made, messages, clock>>

SaveUserMessage(t) ==
  /\ turn[t].pc = "saveUser"
  /\ InsertMessage(t, turn[t].conv, "user")
  /\ GotoTurn(t, "askAvatar")
  /\ UNCHANGED <<gmVars, session, conv, made, row>>

-----------------------------------------------------------------------------
(* completeTurn *)

(* The avatar's model has answered and the answer is stored.                *)
SaveAvatarMessage(t) ==
  /\ turn[t].pc = "askAvatar"
  /\ InsertMessage(t, turn[t].conv, "avatar")
  /\ GotoTurn(t, "touch")
  /\ UNCHANGED <<gmVars, session, conv, made, row>>

(* The stream's abort signal fires before completeTurn is entered.          *)
Interrupt(t) ==
  /\ turn[t].pc = "askAvatar"
  /\ turn[t].mode.streaming
  /\ EndTurn(t, "interrupted")
  /\ UNCHANGED <<gmVars, storeVars>>

(* Mutant of TouchConversation: the row read at the start is written back.  *)
WriteBackConversation(t) ==
  /\ turn[t].pc = "touch"
  /\ Exists(turn[t].conv)
  /\ conv' = [conv EXCEPT ![turn[t].conv].status = "active"]
  /\ GotoTurn(t, "clearNotes")
  /\ UNCHANGED <<gmVars, session, made, messages, clock, row>>

TouchConversation(t) ==
  /\ turn[t].pc = "touch"
  /\ Exists(turn[t].conv)
  /\ GotoTurn(t, "clearNotes")
  /\ UNCHANGED <<gmVars, storeVars>>

(* The notes are cleared only if the request had read some.                 *)
ClearNotes(t) ==
  /\ turn[t].pc = "clearNotes"
  /\ session' = [session EXCEPT !.notes = IF turn[t].notes # None THEN None ELSE @]
  /\ GotoTurn(t, "readCount")
  /\ UNCHANGED <<gmVars, conv, made, messages, clock, row>>

ReadCount(t) ==
  /\ turn[t].pc = "readCount"
  /\ turn' = [turn EXCEPT ![t] = [@ EXCEPT !.pc = "saveCount", !.state = OrDefault(row)]]
  /\ UNCHANGED <<gmVars, storeVars>>

StartGameMaster(t) == Dispatch(t, TurnIndex(t), turn[t].avatar)

(* A plain request starts the Game Master right after counting; a streamed  *)
(* one when completeTurn returns, after the implicit close of a farewell.   *)
SaveCount(t) ==
  /\ turn[t].pc = "saveCount"
  /\ row' = Save(row, Counted(turn[t].state))
  /\ IF turn[t].mode.bye
     THEN turn' = [turn EXCEPT ![t] = [@ EXCEPT !.pc = "checkClose", !.state = DefaultState]]
     ELSE EndTurn(t, "done")
  /\ IF turn[t].mode.bye /\ turn[t].mode.streaming
     THEN UNCHANGED gmVars
     ELSE StartGameMaster(t)
  /\ UNCHANGED <<session, conv, made, messages, clock>>

ReturnTurn(t) ==
  /\ EndTurn(t, "done")
  /\ IF turn[t].mode.streaming THEN StartGameMaster(t) ELSE UNCHANGED gmVars

(* tryImplicitClose runs EndConversation, whose refusal or failure it only  *)
(* logs.                                                                    *)
CheckImplicitClose(t) ==
  /\ turn[t].pc = "checkClose"
  /\ IF conv[turn[t].conv].status = "active"
     THEN GotoTurn(t, "close") /\ UNCHANGED gmVars
     ELSE ReturnTurn(t)
  /\ UNCHANGED storeVars

ImplicitClose(t) ==
  /\ turn[t].pc = "close"
  /\ CloseConv(turn[t].conv)
  /\ ReturnTurn(t)
  /\ UNCHANGED <<session, made, messages, clock, row>>

ImplicitCloseFails(t) ==
  /\ turn[t].pc = "close"
  /\ t \in FaultyRequests \/ ~Exists(turn[t].conv)
  /\ ReturnTurn(t)
  /\ UNCHANGED storeVars

(* Mutant of TurnFails: background work is scheduled in a finally block.    *)
TurnFailsAndIsObserved(t) ==
  /\ InFlight(t)
  /\ ~CountedTurn(t)
  /\ t \in FaultyRequests
  /\ EndTurn(t, "failed")
  /\ StartGameMaster(t)
  /\ UNCHANGED storeVars

(* A call of the request throws: by a fault, or because a reset deleted the *)
(* conversation.  A stream whose abort signal has fired reports it as an    *)
(* interruption, whatever step it had reached.                              *)
TurnFails(t) ==
  /\ InFlight(t)
  /\ ~CountedTurn(t)
  /\ \/ t \in FaultyRequests
     \/ /\ turn[t].pc \in {"saveUser", "askAvatar", "touch"}
        /\ ~Exists(turn[t].conv)
  /\ \/ EndTurn(t, "failed")
     \/ /\ turn[t].mode.streaming
        /\ turn[t].pc \in {"askAvatar", "touch", "clearNotes", "readCount", "saveCount"}
        /\ EndTurn(t, "interrupted")
  /\ UNCHANGED <<gmVars, storeVars>>

(* The steps of a request that was received. *)
TurnStep(t) ==
  \/ LoadSession(t)
  \/ LoadGmState(t)
  \/ CountHistory(t)
  \/ RereadGmState(t)
  \/ ConsumePlan(t)
  \/ SaveUserMessage(t)
  \/ SaveAvatarMessage(t)
  \/ Interrupt(t)
  \/ TouchConversation(t)
  \/ ClearNotes(t)
  \/ ReadCount(t)
  \/ SaveCount(t)
  \/ CheckImplicitClose(t)
  \/ ImplicitClose(t)
  \/ ImplicitCloseFails(t)
  \/ TurnFails(t)

=============================================================================
