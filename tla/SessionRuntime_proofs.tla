------------------------ MODULE SessionRuntime_proofs ------------------------
(***************************************************************************)
(* SessionRuntime, for any number of avatars, requests and conversations,   *)
(* any limit on pending requests, and any faults: it keeps its types, and   *)
(* the safety properties that hold of every client hold; the interaction    *)
(* count is exact for clients that wait.  TypeInv is the common             *)
(* strengthening; a property that needs more states it next to its proof.   *)
(***************************************************************************)
EXTENDS SessionRuntime, FiniteSetTheorems, WellFoundedInduction, TLAPS

-----------------------------------------------------------------------------
(* Types. *)

Opening == {"findActive", "closePrevious", "create", "activate", "runInitial"}

RunHasAvatar(r) == run[r].pc \in Deciding => run[r].avatar \in Avatars

TurnHasData(t) ==
  /\ InFlight(t) => turn[t].avatar \in Avatars /\ turn[t].conv \in ConvIds
  /\ turn[t].pc = "consume" => turn[t].state.plan \in Plan

OpHasData(o) ==
  /\ op[o].pc \in Opening => op[o].avatar \in Avatars
  /\ op[o].pc = "closePrevious" => op[o].previous \in ConvIds
  /\ op[o].pc \in {"loadConv", "close"} => op[o].target \in ConvIds

StoreInv ==
  /\ StoreTypeOK
  /\ IsFiniteSet(messages)
  /\ \A c \in ConvIds : Exists(c) => conv[c].avatar \in Avatars

RunInv == GmTypeOK /\ \A r \in RunIds : RunHasAvatar(r)

TurnInv == TurnTypeOK /\ \A t \in Turns : TurnHasData(t)

OpInv == OpTypeOK /\ \A o \in Ops : OpHasData(o)

(* TypeOK, with what a step needs to find filled in.                        *)
TypeInv == StoreInv /\ RunInv /\ TurnInv /\ OpInv

LEMMA SaveType ==
  ASSUME NEW old \in State \cup {NoRow}, NEW new \in State
  PROVE  Save(old, new) \in State
BY SMT DEF Save, State, MergePlan, Greatest, Plan

LEMMA DefaultStateType == DefaultState \in State
BY DEF DefaultState, State

LEMMA IdleRunType == IdleRun \in Run
<1>1. NoOutput \in Output
  BY DEF NoOutput, Output, Actions
<1>2. QED
  BY <1>1, DefaultStateType DEF IdleRun, Run

LEMMA SpentType ==
  ASSUME NEW pc, pc \in {"saveNotes", "finish", "done"}
  PROVE  Spent(pc) \in Run /\ Spent(pc).pc = pc
BY IdleRunType DEF Spent, Run

LEMMA RunUpdate ==
  ASSUME RunInv, NEW r \in RunIds, NEW new \in Run,
         new.pc \in Deciding => new.avatar \in Avatars,
         run' = [run EXCEPT ![r] = new], processing' \in BOOLEAN
  PROVE  RunInv'
BY DEF RunInv, GmTypeOK, RunHasAvatar

LEMMA RunStepRunInv ==
  ASSUME StoreInv, RunInv, NEW r \in RunIds, RunStep(r)
  PROVE  RunInv'
<1>1. run[r] \in Run /\ RunHasAvatar(r) /\ processing \in BOOLEAN
  BY DEF RunInv, GmTypeOK
<1>2. row \in State \cup {NoRow} /\ session.unlocked \in SUBSET Avatars
  BY DEF StoreInv, StoreTypeOK, Session
<1> USE <1>1, <1>2, RunUpdate DEF RunHasAvatar, Deciding
<1>3. CASE ReadState(r)
  <2>1. OrDefault(row) \in State
    BY DefaultStateType DEF OrDefault
  <2>2. QED
    BY <1>3, <2>1 DEF ReadState, Run
<1>4. CASE ReadSession(r)
  BY <1>4 DEF ReadSession, Run
<1>5. CASE SessionUnreadable(r)
  BY <1>5 DEF SessionUnreadable, Goto, Run
<1>6. CASE ModelAnswers(r)
  <2>1. PICK out \in Output :
          run' = [run EXCEPT ![r] =
                    [@ EXCEPT !.out = out,
                              !.pc = AfterAnswer(run[r].loaded, run[r].known, out)]]
    BY <1>6, OutputsAssumption DEF ModelAnswers
  <2>2. AfterAnswer(run[r].loaded, run[r].known, out) \in {"unlock", "route", "savePlan"}
    BY DEF AfterAnswer, AfterUnlock
  <2>3. QED
    BY <1>6, <2>1, <2>2 DEF ModelAnswers, Run
<1>7. CASE ApplyUnlocks(r)
  <2>1. AfterUnlock(run[r].loaded, run[r].known, run[r].out) \in {"route", "savePlan"}
    BY DEF AfterUnlock
  <2>2. QED
    BY <1>7, <2>1 DEF ApplyUnlocks, Goto, Run
<1>8. CASE ApplyRouting(r)
  BY <1>8 DEF ApplyRouting, Goto, Run
<1>9. CASE SavePlan(r)
  BY <1>9, SpentType DEF SavePlan
<1>10. CASE SaveNotes(r)
  BY <1>10, SpentType DEF SaveNotes
<1>11. CASE RunFails(r)
  BY <1>11, SpentType DEF RunFails
<1>12. CASE FinishRun(r)
  BY <1>12 DEF FinishRun, Goto, Run
<1>13. QED
  BY <1>3, <1>4, <1>5, <1>6, <1>7, <1>8, <1>9, <1>10, <1>11, <1>12 DEF RunStep

(* What a run writes to the rows is well typed.                             *)
LEMMA SwitchTargetType ==
  ASSUME NEW loaded \in BOOLEAN, NEW known \in SUBSET Avatars, NEW out \in Output
  PROVE  /\ SwitchTarget(loaded, known, out) \in Avatars \cup {None}
         /\ NewlyUnlocked(loaded, known, out) \in SUBSET Avatars
BY DEF SwitchTarget, NewlyUnlocked, Output

LEMMA NextPlanType ==
  ASSUME NEW r \in RunIds, run[r] \in Run, run[r].avatar \in Avatars
  PROVE  NextPlan(r) \in Plan
<1>1. Switched(r) \in Avatars \cup {None}
  BY SwitchTargetType DEF Switched, Run
<1>2. (IF Switched(r) # None THEN Switched(r) ELSE run[r].avatar) \in Avatars
  BY <1>1
<1>3. run[r].turnIndex \in Nat
  BY DEF Run
<1>4. QED
  BY <1>2, <1>3 DEF NextPlan, Plan

LEMMA ReducedType ==
  ASSUME NEW state \in State, NEW increase \in BOOLEAN
  PROVE  Reduced(state, increase) \in State
BY DEF Reduced, State

LEMMA SavePlanWrites ==
  ASSUME RunInv, NEW r \in RunIds, SavePlan(r)
  PROVE  \E new \in State : row' = Save(row, new)
<1>1. run[r] \in Run /\ RunHasAvatar(r)
  BY DEF RunInv, GmTypeOK
<1>2. NextPlan(r) \in Plan
  BY <1>1, NextPlanType DEF SavePlan, RunHasAvatar, Deciding
<1>3. Reduced(run[r].state, run[r].out.increase) \in State
  BY <1>1, ReducedType DEF Run, Output
<1>4. [Reduced(run[r].state, run[r].out.increase) EXCEPT !.plan = NextPlan(r)] \in State
  BY <1>2, <1>3 DEF State
<1>5. QED
  BY <1>4 DEF SavePlan

LEMMA RunStepStoreInv ==
  ASSUME StoreInv, RunInv, NEW r \in RunIds, RunStep(r)
  PROVE  StoreInv'
<1>1. run[r] \in Run /\ RunHasAvatar(r)
  BY DEF RunInv, GmTypeOK
<1>2. session \in Session /\ row \in State \cup {NoRow}
  BY DEF StoreInv, StoreTypeOK
<1> USE DEF StoreInv, StoreTypeOK, Exists
<1>3. CASE UNCHANGED storeVars
  BY <1>3 DEF storeVars
<1>4. CASE ApplyUnlocks(r)
  <2>1. run[r].known \cup Newly(r) \in SUBSET Avatars
    BY <1>1, SwitchTargetType DEF Newly, Run
  <2>2. session' \in Session
    BY <1>2, <1>4, <2>1 DEF ApplyUnlocks, Session
  <2>3. QED
    BY <1>4, <2>2 DEF ApplyUnlocks
<1>5. CASE ApplyRouting(r)
  <2>1. Switched(r) \in Avatars \cup {None}
    BY <1>1, SwitchTargetType DEF Switched, Run
  <2>2. session' \in Session
    BY <1>2, <1>5, <2>1 DEF ApplyRouting, Session
  <2>3. QED
    BY <1>5, <2>2 DEF ApplyRouting
<1>6. CASE SavePlan(r)
  <2>1. row' \in State
    BY <1>2, <1>6, SavePlanWrites, SaveType
  <2>2. QED
    BY <1>6, <2>1 DEF SavePlan
<1>7. CASE SaveNotes(r)
  <2>1. session' \in Session
    BY <1>2, <1>7 DEF SaveNotes, Session
  <2>2. QED
    BY <1>7, <2>1 DEF SaveNotes
<1>8. QED
  BY <1>3, <1>4, <1>5, <1>6, <1>7
     DEF RunStep, ReadState, ReadSession, SessionUnreadable, ModelAnswers, RunFails, FinishRun

LEMMA RunStepTypeInv ==
  ASSUME TypeInv, NEW r \in RunIds, RunStep(r), UNCHANGED <<turn, op>>
  PROVE  TypeInv'
<1>1. StoreInv' /\ RunInv'
  BY RunStepStoreInv, RunStepRunInv DEF TypeInv
<1>2. TurnInv' /\ OpInv'
  BY DEF TypeInv, TurnInv, TurnTypeOK, TurnHasData, InFlight, Ended, OpInv, OpTypeOK, OpHasData
<1>3. QED
  BY <1>1, <1>2 DEF TypeInv

-----------------------------------------------------------------------------
(* Types: the steps of send-message requests. *)

LEMMA IdleTurnType == IdleTurn \in Turn
<1>1. [streaming |-> FALSE, bye |-> FALSE] \in Mode
  BY DEF Mode
<1>2. QED
  BY <1>1, DefaultStateType DEF IdleTurn, Turn

LEMMA TurnUpdate ==
  ASSUME TurnInv, NEW t \in Turns, NEW new \in Turn,
         new.pc \notin Ended \cup {"idle"} => new.avatar \in Avatars /\ new.conv \in ConvIds,
         new.pc = "consume" => new.state.plan \in Plan,
         turn' = [turn EXCEPT ![t] = new]
  PROVE  TurnInv'
BY DEF TurnInv, TurnTypeOK, TurnHasData, InFlight

LEMMA EndTurnType ==
  ASSUME TurnInv, NEW t \in Turns, NEW pc \in Ended, EndTurn(t, pc)
  PROVE  TurnInv'
<1>1. turn[t] \in Turn
  BY DEF TurnInv, TurnTypeOK
<1> DEFINE new == [IdleTurn EXCEPT !.pc = pc, !.plan = turn[t].plan, !.guidance = turn[t].guidance]
<1>2. new \in Turn /\ new.pc = pc
  BY <1>1, IdleTurnType DEF Turn, Ended
<1>3. turn' = [turn EXCEPT ![t] = new]
  BY DEF EndTurn
<1>4. QED
  BY <1>2, <1>3, TurnUpdate DEF Ended

LEMMA PreparedType ==
  ASSUME NEW old \in Turn, NEW state \in State, NEW prior \in Nat
  PROVE  LET new == Prepared(old, state, prior)
         IN  /\ new \in Turn
             /\ new.avatar = old.avatar /\ new.conv = old.conv
             /\ new.pc \in {"consume", "saveUser"}
             /\ new.pc = "consume" => new.state.plan \in Plan
<1>1. state.plan # None => state.plan \in Plan
  BY DEF State
<1>2. CASE PlanApplies(state.plan, old.avatar, prior + 1)
  <2>1. state.plan \in Plan
    BY <1>1, <1>2 DEF PlanApplies
  <2>2. Prepared(old, state, prior) =
          [old EXCEPT !.state = state, !.prior = prior, !.pc = "consume"]
    BY <1>2 DEF Prepared
  <2>3. QED
    BY <2>1, <2>2 DEF Turn
<1>3. CASE ~PlanApplies(state.plan, old.avatar, prior + 1)
  BY <1>3 DEF Prepared, Turn
<1>4. QED
  BY <1>2, <1>3

LEMMA PreparedTurnInv ==
  ASSUME TurnInv, NEW t \in Turns, InFlight(t), NEW state \in State, NEW prior \in Nat,
         turn' = [turn EXCEPT ![t] = Prepared(turn[t], state, prior)]
  PROVE  TurnInv'
<1> DEFINE new == Prepared(turn[t], state, prior)
<1>1. turn[t] \in Turn /\ turn[t].avatar \in Avatars /\ turn[t].conv \in ConvIds
  BY DEF TurnInv, TurnTypeOK, TurnHasData
<1>2. /\ new \in Turn /\ new.avatar \in Avatars /\ new.conv \in ConvIds
      /\ new.pc = "consume" => new.state.plan \in Plan
  BY <1>1, PreparedType
<1> HIDE DEF new
<1>3. turn' = [turn EXCEPT ![t] = new]
  BY DEF new
<1>4. QED
  BY <1>2, <1>3, TurnUpdate

LEMMA RecentUserCountType ==
  ASSUME StoreInv, NEW c \in ConvIds
  PROVE  RecentUserCount(c) \in Nat
<1>1. {m \in Latest(c, HistoryLimit) : m.role = "user"} \subseteq messages
  BY DEF Latest, MessagesOf
<1>2. IsFiniteSet({m \in Latest(c, HistoryLimit) : m.role = "user"})
  BY <1>1, FS_Subset DEF StoreInv
<1>3. QED
  BY <1>2, FS_CardinalityType DEF RecentUserCount

LEMMA TurnStepTurnInv ==
  ASSUME StoreInv, TurnInv, NEW t \in Turns, TurnStep(t)
  PROVE  TurnInv'
<1>1. turn[t] \in Turn /\ TurnHasData(t)
  BY DEF TurnInv, TurnTypeOK
<1>2. row \in State \cup {NoRow} /\ session \in Session
  BY DEF StoreInv, StoreTypeOK
<1>3. OrDefault(row) \in State
  BY <1>2, DefaultStateType DEF OrDefault
<1>4. "done" \in Ended /\ "failed" \in Ended /\ "interrupted" \in Ended /\ "consume" \notin Ended
  BY DEF Ended
<1> USE <1>1, TurnUpdate DEF TurnHasData, InFlight, Ended
<1>5. CASE LoadSession(t)
  BY <1>2, <1>5 DEF LoadSession, Turn, Session
<1>6. CASE LoadGmState(t)
  <2>1. CASE row = NoRow
    BY <1>6, <2>1 DEF LoadGmState, Turn
  <2>2. CASE row # NoRow
    <3>1. row \in State /\ row.count \in Nat
      BY <1>2, <2>2 DEF State
    <3>2. turn' = [turn EXCEPT ![t] = Prepared(turn[t], row, row.count)]
      BY <1>6, <2>2 DEF LoadGmState
    <3>3. QED
      BY <1>6, <3>1, <3>2, PreparedTurnInv DEF LoadGmState
  <2>3. QED
    BY <2>1, <2>2
<1>7. CASE CountHistory(t)
  <2>1. RecentUserCount(turn[t].conv) \in Nat
    BY <1>7, RecentUserCountType DEF CountHistory
  <2>2. QED
    BY <1>7, <2>1 DEF CountHistory, Turn
<1>8. CASE RereadGmState(t)
  <2>1. turn[t].prior \in Nat
    BY DEF Turn
  <2>2. turn' = [turn EXCEPT ![t] = Prepared(turn[t], OrDefault(row), turn[t].prior)]
    BY <1>8 DEF RereadGmState
  <2>3. QED
    BY <1>3, <1>8, <2>1, <2>2, PreparedTurnInv DEF RereadGmState
<1>9. CASE ConsumePlan(t)
  <2>1. turn[t].state.plan.by \in RunIds
    BY <1>9 DEF ConsumePlan, Plan
  <2>2. QED
    BY <1>9, <2>1, DefaultStateType DEF ConsumePlan, Turn
<1>10. CASE SaveUserMessage(t)
  BY <1>10 DEF SaveUserMessage, GotoTurn, Turn
<1>11. CASE SaveAvatarMessage(t)
  BY <1>11 DEF SaveAvatarMessage, GotoTurn, Turn
<1>12. CASE Interrupt(t)
  BY <1>4, <1>12, EndTurnType DEF Interrupt
<1>13. CASE TouchConversation(t)
  BY <1>13 DEF TouchConversation, GotoTurn, Turn
<1>14. CASE ClearNotes(t)
  BY <1>14 DEF ClearNotes, GotoTurn, Turn
<1>15. CASE ReadCount(t)
  BY <1>3, <1>15 DEF ReadCount, Turn
<1>16. CASE SaveCount(t)
  <2>1. CASE turn[t].mode.bye
    BY <1>16, <2>1, DefaultStateType DEF SaveCount, Turn
  <2>2. CASE ~turn[t].mode.bye
    BY <1>4, <1>16, <2>2, EndTurnType DEF SaveCount
  <2>3. QED
    BY <2>1, <2>2
<1>17. CASE CheckImplicitClose(t)
  <2>1. CASE conv[turn[t].conv].status = "active"
    BY <1>17, <2>1 DEF CheckImplicitClose, GotoTurn, Turn
  <2>2. CASE conv[turn[t].conv].status # "active"
    BY <1>4, <1>17, <2>2, EndTurnType DEF CheckImplicitClose, ReturnTurn
  <2>3. QED
    BY <2>1, <2>2
<1>18. CASE ImplicitClose(t)
  BY <1>4, <1>18, EndTurnType DEF ImplicitClose, ReturnTurn
<1>19. CASE ImplicitCloseFails(t)
  BY <1>4, <1>19, EndTurnType DEF ImplicitCloseFails, ReturnTurn
<1>20. CASE TurnFails(t)
  BY <1>4, <1>20, EndTurnType DEF TurnFails
<1>21. QED
  BY <1>5, <1>6, <1>7, <1>8, <1>9, <1>10, <1>11, <1>12, <1>13, <1>14, <1>15, <1>16, <1>17,
     <1>18, <1>19, <1>20 DEF TurnStep

LEMMA InsertMessageType ==
  ASSUME StoreInv, NEW t \in Turns, NEW c \in ConvIds, NEW role \in {"user", "avatar"},
         InsertMessage(t, c, role)
  PROVE  clock' \in Nat /\ messages' \subseteq Message /\ IsFiniteSet(messages')
<1>1. clock' \in Nat
  BY DEF InsertMessage, StoreInv, StoreTypeOK
<1>2. [at |-> clock', turn |-> t, conv |-> c, role |-> role] \in Message
  BY <1>1 DEF Message
<1>3. QED
  BY <1>1, <1>2, FS_AddElement DEF InsertMessage, StoreInv, StoreTypeOK

LEMMA CloseConvType ==
  ASSUME StoreInv, NEW c \in ConvIds, CloseConv(c)
  PROVE  /\ conv' \in [ConvIds -> Conversation]
         /\ \A d \in ConvIds : Exists(d)' => conv'[d].avatar \in Avatars
BY DEF CloseConv, StoreInv, StoreTypeOK, Conversation, Exists

LEMMA ConsumePlanWrites ==
  ASSUME TurnInv, NEW t \in Turns, ConsumePlan(t)
  PROVE  \E new \in State : row' = Save(row, new)
<1>1. turn[t].state \in State /\ turn[t].state.plan \in Plan /\ TurnIndex(t) \in Nat
  BY DEF ConsumePlan, TurnInv, TurnTypeOK, TurnHasData, Turn, TurnIndex
<1>2. ConsumedBy(turn[t].state, TurnIndex(t)) \in State
  BY <1>1 DEF ConsumedBy, State, Plan
<1>3. QED
  BY <1>2 DEF ConsumePlan

LEMMA SaveCountWrites ==
  ASSUME TurnInv, NEW t \in Turns, SaveCount(t)
  PROVE  \E new \in State : row' = Save(row, new)
<1>1. turn[t].state \in State
  BY DEF TurnInv, TurnTypeOK, Turn
<1>2. Counted(turn[t].state) \in State
  BY <1>1 DEF Counted, State
<1>3. QED
  BY <1>2 DEF SaveCount

LEMMA TurnStepStoreInv ==
  ASSUME StoreInv, TurnInv, NEW t \in Turns, TurnStep(t)
  PROVE  StoreInv'
<1>1. turn[t] \in Turn /\ TurnHasData(t)
  BY DEF TurnInv, TurnTypeOK
<1>2. session \in Session /\ row \in State \cup {NoRow}
  BY DEF StoreInv, StoreTypeOK
<1>3. OrDefault(row) \in State
  BY <1>2, DefaultStateType DEF OrDefault
<1> USE DEF StoreInv, StoreTypeOK, Exists
<1>4. CASE UNCHANGED storeVars
  BY <1>4 DEF storeVars
<1>5. CASE ConsumePlan(t)
  <2>1. row' \in State
    BY <1>2, <1>5, ConsumePlanWrites, SaveType
  <2>2. QED
    BY <1>5, <2>1 DEF ConsumePlan
<1>6. CASE SaveUserMessage(t) \/ SaveAvatarMessage(t)
  <2>1. turn[t].conv \in ConvIds
    BY <1>1, <1>6 DEF SaveUserMessage, SaveAvatarMessage, TurnHasData, InFlight, Ended
  <2>2. clock' \in Nat /\ messages' \subseteq Message /\ IsFiniteSet(messages')
    BY <1>6, <2>1, InsertMessageType DEF SaveUserMessage, SaveAvatarMessage
  <2>3. QED
    BY <1>6, <2>2 DEF SaveUserMessage, SaveAvatarMessage
<1>7. CASE ClearNotes(t)
  <2>1. session' \in Session
    BY <1>2, <1>7 DEF ClearNotes, Session
  <2>2. QED
    BY <1>7, <2>1 DEF ClearNotes
<1>8. CASE SaveCount(t)
  <2>1. row' \in State
    BY <1>2, <1>8, SaveCountWrites, SaveType
  <2>2. QED
    BY <1>8, <2>1 DEF SaveCount
<1>9. CASE ImplicitClose(t)
  <2>1. turn[t].conv \in ConvIds
    BY <1>1, <1>9 DEF ImplicitClose, TurnHasData, InFlight, Ended
  <2>2. QED
    BY <1>9, <2>1, CloseConvType DEF ImplicitClose
<1>10. QED
  BY <1>4, <1>5, <1>6, <1>7, <1>8, <1>9
     DEF TurnStep, LoadSession, LoadGmState, CountHistory, RereadGmState, Interrupt,
         TouchConversation, ReadCount, CheckImplicitClose, ImplicitCloseFails, TurnFails

(* A run is started for an avatar and after a known turn.                   *)
LEMMA DispatchRunInv ==
  ASSUME RunInv, NEW r \in RunIds, NEW i \in Nat, NEW a \in Avatars, Dispatch(r, i, a)
  PROVE  RunInv'
<1>1. run[r] \in Run
  BY DEF RunInv, GmTypeOK
<1> DEFINE new == [run[r] EXCEPT !.pc = "readState", !.turnIndex = i, !.avatar = a]
<1>2. new \in Run /\ new.avatar \in Avatars
  BY <1>1 DEF Run
<1>3. run' = [run EXCEPT ![r] = new] /\ processing' \in BOOLEAN
  BY DEF Dispatch
<1>4. QED
  BY <1>2, <1>3, RunUpdate

LEMMA TurnStepRunInv ==
  ASSUME RunInv, TurnInv, NEW t \in Turns, TurnStep(t)
  PROVE  RunInv'
<1>1. CASE UNCHANGED gmVars
  BY <1>1 DEF gmVars, RunInv, GmTypeOK, RunHasAvatar
<1>2. CASE InFlight(t) /\ StartGameMaster(t)
  <2>1. turn[t] \in Turn /\ TurnHasData(t) /\ t \in RunIds
    BY DEF TurnInv, TurnTypeOK, RunIds
  <2>2. turn[t].avatar \in Avatars /\ TurnIndex(t) \in Nat
    BY <1>2, <2>1 DEF TurnHasData, TurnIndex, Turn
  <2>3. QED
    BY <1>2, <2>1, <2>2, DispatchRunInv DEF StartGameMaster
<1>3. QED
  BY <1>1, <1>2
     DEF TurnStep, LoadSession, LoadGmState, CountHistory, RereadGmState, ConsumePlan,
         SaveUserMessage, SaveAvatarMessage, Interrupt, TouchConversation, ClearNotes,
         ReadCount, SaveCount, ReturnTurn, CheckImplicitClose, ImplicitClose,
         ImplicitCloseFails, TurnFails, InFlight, Ended

LEMMA TurnStepTypeInv ==
  ASSUME TypeInv, NEW t \in Turns, TurnStep(t), UNCHANGED op
  PROVE  TypeInv'
<1>1. StoreInv' /\ RunInv' /\ TurnInv'
  BY TurnStepStoreInv, TurnStepRunInv, TurnStepTurnInv DEF TypeInv
<1>2. OpInv'
  BY DEF TypeInv, OpInv, OpTypeOK, OpHasData
<1>3. QED
  BY <1>1, <1>2 DEF TypeInv

-----------------------------------------------------------------------------
(* Types: the steps of lifecycle requests. *)

(* A nonempty set of conversation numbers has a greatest element.           *)
LEMMA GreatestExists ==
  ASSUME NEW n \in Nat, NEW S \in SUBSET (1..n), S # {}
  PROVE  \E m \in S : \A k \in S : k <= m
<1> DEFINE T == {n - k : k \in S}
<1>1. T \subseteq Nat
  <2>1. \A k \in S : n - k \in Nat
    OBVIOUS
  <2>2. QED
    BY <2>1
<1>2. T # {}
  OBVIOUS
<1>3. PICK x \in T : \A y \in T : <<y, x>> \notin OpToRel(<, Nat)
  BY <1>1, <1>2, WFMin, NatLessThanWellFounded
<1>4. \A y \in T : x <= y
  <2> SUFFICES ASSUME NEW y \in T, y < x
               PROVE  FALSE
    BY <1>1
  <2>1. <<y, x>> \in Nat \X Nat
    BY <1>1
  <2>2. QED
    BY <1>3, <2>1 DEF OpToRel
<1>5. PICK m \in S : x = n - m
  OBVIOUS
<1>6. \A k \in S : n - m <= n - k
  BY <1>4, <1>5
<1>7. QED
  BY <1>6

LEMMA NewestActiveType ==
  ASSUME ActiveConvs # {}
  PROVE  NewestActive \in ActiveConvs
<1>1. ActiveConvs \in SUBSET (1..MaxConversations) /\ MaxConversations \in Nat
  BY StoreAssumption DEF ActiveConvs, ConvIds
<1>2. \E c \in ActiveConvs : \A d \in ActiveConvs : d <= c
  BY <1>1, GreatestExists
<1>3. QED
  BY <1>2 DEF NewestActive

LEMMA OpUpdate ==
  ASSUME OpInv, NEW o \in Ops, NEW new \in Op,
         new.pc \in Opening => new.avatar \in Avatars,
         new.pc = "closePrevious" => new.previous \in ConvIds,
         new.pc \in {"loadConv", "close"} => new.target \in ConvIds,
         op' = [op EXCEPT ![o] = new]
  PROVE  OpInv'
BY DEF OpInv, OpTypeOK, OpHasData

LEMMA OpStepOpInv ==
  ASSUME StoreInv, OpInv, NEW o \in Ops, OpStep(o)
  PROVE  OpInv'
<1>1. op[o] \in Op /\ OpHasData(o)
  BY DEF OpInv, OpTypeOK
<1> USE <1>1, OpUpdate DEF OpHasData, Opening
<1>2. CASE FindActive(o)
  <2>1. CASE ActiveConvs = {}
    BY <1>2, <2>1 DEF FindActive, Op
  <2>2. CASE ActiveConvs # {}
    <3>1. NewestActive \in ConvIds
      BY <2>2, NewestActiveType DEF ActiveConvs
    <3>2. QED
      BY <1>2, <2>2, <3>1 DEF FindActive, Op
  <2>3. QED
    BY <2>1, <2>2
<1>3. CASE ClosePrevious(o)
  BY <1>3 DEF ClosePrevious, GotoOp, Op
<1>4. CASE CreateConversation(o)
  <2>1. made + 1 \in ConvIds
    BY <1>4, StoreAssumption DEF CreateConversation, ConvIds, StoreInv, StoreTypeOK
  <2>2. QED
    BY <1>4, <2>1 DEF CreateConversation, Op
<1>5. CASE ActivateAvatar(o)
  BY <1>5 DEF ActivateAvatar, GotoOp, Op
<1>6. CASE RunInitialGameMaster(o)
  BY <1>6 DEF RunInitialGameMaster, GotoOp, Op
<1>7. CASE OpenReturns(o)
  BY <1>7 DEF OpenReturns, GotoOp, Op
<1>8. CASE LoadConversation(o)
  BY <1>8 DEF LoadConversation, GotoOp, Op
<1>9. CASE EndConversation(o)
  BY <1>9 DEF EndConversation, GotoOp, Op
<1>10. CASE ListConversations(o)
  <2>1. {c \in ConvIds : Exists(c)} \in SUBSET ConvIds
    OBVIOUS
  <2>2. QED
    BY <1>10, <2>1 DEF ListConversations, Op
<1>11. CASE \E c \in ConvIds : DeleteMessages(o, c)
  <2>1. PICK c \in ConvIds : DeleteMessages(o, c)
    BY <1>11
  <2>2. op[o].left \ {c} \in SUBSET ConvIds
    BY DEF Op
  <2>3. QED
    BY <2>1, <2>2 DEF DeleteMessages, Op
<1>12. CASE DeleteConversations(o)
  BY <1>12 DEF DeleteConversations, GotoOp, Op
<1>13. CASE ResetSession(o)
  BY <1>13 DEF ResetSession, GotoOp, Op
<1>14. CASE OpFails(o)
  <2>1. PICK rest \in SUBSET op[o].left :
          op' = [op EXCEPT ![o] = [@ EXCEPT !.pc = "failed", !.left = rest]]
    BY <1>14 DEF OpFails
  <2>2. QED
    BY <2>1 DEF Op
<1>15. QED
  BY <1>2, <1>3, <1>4, <1>5, <1>6, <1>7, <1>8, <1>9, <1>10, <1>11, <1>12, <1>13, <1>14
     DEF OpStep

LEMMA OpStepStoreInv ==
  ASSUME StoreInv, OpInv, NEW o \in Ops, OpStep(o)
  PROVE  StoreInv'
<1>1. op[o] \in Op /\ OpHasData(o)
  BY DEF OpInv, OpTypeOK
<1> USE DEF StoreInv, StoreTypeOK, Exists
<1>2. CASE UNCHANGED storeVars
  BY <1>2 DEF storeVars
<1>3. CASE ClosePrevious(o)
  BY <1>1, <1>3, CloseConvType DEF ClosePrevious, OpHasData
<1>4. CASE CreateConversation(o)
  <2>1. made + 1 \in 0..MaxConversations
    BY <1>4, StoreAssumption DEF CreateConversation
  <2>2. op[o].avatar \in Avatars
    BY <1>1, <1>4 DEF CreateConversation, OpHasData, Opening
  <2>3. [status |-> "active", avatar |-> op[o].avatar] \in Conversation
    BY <2>2 DEF Conversation
  <2>4. QED
    BY <1>4, <2>1, <2>2, <2>3 DEF CreateConversation
<1>5. CASE ActivateAvatar(o)
  BY <1>1, <1>5 DEF ActivateAvatar, Session, Op
<1>6. CASE EndConversation(o)
  BY <1>1, <1>6, CloseConvType DEF EndConversation, OpHasData
<1>7. CASE \E c \in ConvIds : DeleteMessages(o, c)
  <2>1. messages' \subseteq messages
    BY <1>7 DEF DeleteMessages
  <2>2. IsFiniteSet(messages')
    BY <2>1, FS_Subset
  <2>3. QED
    BY <1>7, <2>1, <2>2 DEF DeleteMessages
<1>8. CASE DeleteConversations(o)
  <2>1. AbsentConv \in Conversation /\ AbsentConv.status = "absent"
    BY DEF AbsentConv, Conversation
  <2>2. QED
    BY <1>8, <2>1, FS_EmptySet DEF DeleteConversations
<1>9. CASE ResetSession(o)
  <2>1. session' \in Session
    BY <1>9, StoreAssumption DEF ResetSession, Session
  <2>2. QED
    BY <1>9, <2>1 DEF ResetSession
<1>10. QED
  BY <1>2, <1>3, <1>4, <1>5, <1>6, <1>7, <1>8, <1>9
     DEF OpStep, FindActive, RunInitialGameMaster, OpenReturns, LoadConversation,
         ListConversations, OpFails

LEMMA OpStepRunInv ==
  ASSUME RunInv, OpInv, NEW o \in Ops, OpStep(o)
  PROVE  RunInv'
<1>1. CASE UNCHANGED gmVars
  BY <1>1 DEF gmVars, RunInv, GmTypeOK, RunHasAvatar
<1>2. CASE RunInitialGameMaster(o)
  <2>1. op[o].avatar \in Avatars /\ o \in RunIds
    BY <1>2 DEF RunInitialGameMaster, OpInv, OpHasData, Opening, RunIds
  <2>2. QED
    BY <1>2, <2>1, DispatchRunInv DEF RunInitialGameMaster
<1>3. QED
  BY <1>1, <1>2
     DEF OpStep, FindActive, ClosePrevious, CreateConversation, ActivateAvatar, OpenReturns,
         LoadConversation, EndConversation, ListConversations, DeleteMessages,
         DeleteConversations, ResetSession, OpFails

LEMMA OpStepTypeInv ==
  ASSUME TypeInv, NEW o \in Ops, OpStep(o), UNCHANGED turn
  PROVE  TypeInv'
<1>1. StoreInv' /\ RunInv' /\ OpInv'
  BY OpStepStoreInv, OpStepRunInv, OpStepOpInv DEF TypeInv
<1>2. TurnInv'
  BY DEF TypeInv, TurnInv, TurnTypeOK, TurnHasData, InFlight
<1>3. QED
  BY <1>1, <1>2 DEF TypeInv

-----------------------------------------------------------------------------
(* Types: requests arriving, and the theorem. *)

LEMMA ReceiveTypeInv ==
  ASSUME TypeInv, NEW t \in Turns, NEW c \in ConvIds, NEW m \in Modes,
         Receive(t, c, m), UNCHANGED op
  PROVE  TypeInv'
<1>1. turn[t] \in Turn /\ m \in Mode /\ conv[c].avatar \in Avatars
  BY ModesAssumption
     DEF TypeInv, TurnInv, TurnTypeOK, StoreInv, Exists, Receive
<1> DEFINE new == [turn[t] EXCEPT !.pc = "readSession", !.mode = m, !.conv = c,
                                  !.avatar = conv[c].avatar]
<1>2. new \in Turn /\ new.pc = "readSession" /\ new.avatar \in Avatars /\ new.conv = c
  BY <1>1 DEF Turn
<1>3. turn' = [turn EXCEPT ![t] = new]
  BY DEF Receive
<1>4. TurnInv'
  BY <1>2, <1>3, TurnUpdate DEF TypeInv
<1>5. QED
  BY <1>4 DEF Receive, storeVars, gmVars, TypeInv, StoreInv, StoreTypeOK, Exists, RunInv,
              GmTypeOK, RunHasAvatar, OpInv, OpTypeOK, OpHasData

LEMMA BeginTypeInv ==
  ASSUME TypeInv, NEW o \in Ops, UNCHANGED turn,
         \/ \E k \in AllKinds, a \in Avatars : BeginOpen(o, k, a)
         \/ \E c \in ConvIds : BeginEnd(o, c)
         \/ BeginReset(o)
  PROVE  TypeInv'
<1>1. op[o] \in Op
  BY DEF TypeInv, OpInv, OpTypeOK
<1>2. OpInv /\ UNCHANGED <<gmVars, storeVars>>
  BY DEF TypeInv, BeginOpen, BeginEnd, BeginReset
<1>3. OpInv'
  <2> USE <1>1, <1>2, OpUpdate DEF Opening
  <2>1. CASE \E k \in AllKinds, a \in Avatars : BeginOpen(o, k, a)
    <3>1. PICK k \in AllKinds, a \in Avatars :
            op' = [op EXCEPT ![o] = [@ EXCEPT !.pc = "findActive", !.kind = k, !.avatar = a]]
      BY <2>1 DEF BeginOpen
    <3>2. QED
      BY <3>1 DEF Op
  <2>2. CASE \E c \in ConvIds : BeginEnd(o, c)
    <3>1. PICK c \in ConvIds :
            op' = [op EXCEPT ![o] = [@ EXCEPT !.pc = "loadConv", !.kind = "end", !.target = c]]
      BY <2>2 DEF BeginEnd
    <3>2. QED
      BY <3>1 DEF Op, AllKinds
  <2>3. CASE BeginReset(o)
    BY <2>3 DEF BeginReset, Op, AllKinds
  <2>4. QED
    BY <2>1, <2>2, <2>3
<1>4. StoreInv' /\ RunInv' /\ TurnInv'
  BY <1>2 DEF storeVars, gmVars, TypeInv, StoreInv, StoreTypeOK, Exists, RunInv, GmTypeOK,
              RunHasAvatar, TurnInv, TurnTypeOK, TurnHasData, InFlight
<1>5. QED
  BY <1>3, <1>4 DEF TypeInv

LEMMA InitTypeInv == Init => TypeInv
<1> SUFFICES ASSUME Init PROVE TypeInv
  OBVIOUS
<1> USE DEF Init
<1>1. StoreInv
  <2>1. AbsentConv \in Conversation /\ AbsentConv.status = "absent"
    BY DEF AbsentConv, Conversation
  <2>2. session \in Session
    BY StoreAssumption DEF StoreInit, Session
  <2>3. QED
    BY <2>1, <2>2, StoreAssumption, FS_EmptySet DEF StoreInit, StoreInv, StoreTypeOK, Exists
<1>2. RunInv
  <2>1. IdleRun.pc = "idle"
    BY DEF IdleRun
  <2>2. QED
    BY <2>1, IdleRunType DEF GmInit, RunInv, GmTypeOK, RunHasAvatar, Deciding
<1>3. TurnInv
  <2>1. IdleTurn.pc = "idle"
    BY DEF IdleTurn
  <2>2. QED
    BY <2>1, IdleTurnType DEF TurnInit, TurnInv, TurnTypeOK, TurnHasData, InFlight
<1>4. OpInv
  <2>1. IdleOp \in Op /\ IdleOp.pc = "idle"
    BY DEF IdleOp, Op, AllKinds
  <2>2. QED
    BY <2>1 DEF OpInit, OpInv, OpTypeOK, OpHasData, Opening
<1>5. QED
  BY <1>1, <1>2, <1>3, <1>4 DEF TypeInv

LEMMA NextTypeInv == TypeInv /\ [Next]_vars => TypeInv'
<1> SUFFICES ASSUME TypeInv, [Next]_vars PROVE TypeInv'
  OBVIOUS
<1>1. CASE SendRequest
  BY <1>1, ReceiveTypeInv DEF SendRequest
<1>2. CASE LifecycleRequest
  BY <1>2, BeginTypeInv DEF LifecycleRequest
<1>3. CASE ServeTurn
  BY <1>3, TurnStepTypeInv DEF ServeTurn
<1>4. CASE ServeOp
  BY <1>4, OpStepTypeInv DEF ServeOp
<1>5. CASE ServeRun
  BY <1>5, RunStepTypeInv DEF ServeRun
<1>6. CASE UNCHANGED vars
  BY <1>6 DEF vars, TypeInv, StoreInv, StoreTypeOK, Exists, RunInv, GmTypeOK, RunHasAvatar,
              TurnInv, TurnTypeOK, TurnHasData, InFlight, OpInv, OpTypeOK, OpHasData
<1>7. QED
  BY <1>1, <1>2, <1>3, <1>4, <1>5, <1>6 DEF Next, Quiescent

LEMMA TypeInvHolds == Spec => []TypeInv
BY InitTypeInv, NextTypeInv, PTL DEF Spec

(* Every row, request and run stays in its type.                            *)
THEOREM TypeCorrect == Spec => []TypeOK
<1>1. TypeInv => TypeOK
  BY DEF TypeInv, StoreInv, RunInv, TurnInv, OpInv, TypeOK
<1>2. QED
  BY <1>1, TypeInvHolds, PTL

-----------------------------------------------------------------------------
(* Steps. *)

(* What one step is: an arrival, or a step of one request or one run.       *)
LEMMA StepCases ==
  ASSUME [Next]_vars
  PROVE  \/ \E t \in Turns, c \in ConvIds, m \in Modes : Receive(t, c, m) /\ UNCHANGED op
         \/ /\ UNCHANGED <<turn, gmVars, storeVars>>
            /\ \E o \in Ops :
                 \/ \E k \in AllKinds, a \in Avatars : BeginOpen(o, k, a)
                 \/ \E c \in ConvIds : BeginEnd(o, c)
                 \/ BeginReset(o)
         \/ \E t \in Turns : TurnStep(t) /\ UNCHANGED op
         \/ \E o \in Ops : OpStep(o) /\ UNCHANGED turn
         \/ \E r \in RunIds : RunStep(r) /\ UNCHANGED <<turn, op>>
         \/ UNCHANGED vars
BY DEF Next, SendRequest, LifecycleRequest, ServeTurn, ServeOp, ServeRun, Quiescent,
       BeginOpen, BeginEnd, BeginReset

-----------------------------------------------------------------------------
(* The gm_states row. *)

(* The upsert keeps the greater count and the later plan of the two.        *)
LEMMA SaveNeverRegresses ==
  ASSUME NEW old \in State, NEW new \in State
  PROVE  /\ Save(old, new) # NoRow
         /\ Save(old, new).count >= old.count
         /\ old.plan # None => /\ Save(old, new).plan # None
                               /\ Save(old, new).plan.after >= old.plan.after
<1>1. old # NoRow /\ Save(old, new) # NoRow
  BY SaveType, SentinelsAreNotData
<1>2. Save(old, new) = [progression |-> new.progression,
                        count       |-> Greatest(old.count, new.count),
                        plan        |-> MergePlan(old.plan, new.plan)]
  BY <1>1 DEF Save
<1>3. Greatest(old.count, new.count) >= old.count
  BY DEF Greatest, State
<1>4. ASSUME old.plan # None
      PROVE  /\ MergePlan(old.plan, new.plan) # None
             /\ MergePlan(old.plan, new.plan).after >= old.plan.after
  <2>1. old.plan \in Plan /\ new.plan \in Plan \cup {None}
    BY <1>4 DEF State
  <2>2. QED
    BY <1>4, <2>1 DEF MergePlan, Plan
<1>5. QED
  BY <1>1, <1>2, <1>3, <1>4

(* Only the upsert writes the row.                                          *)
LEMMA RowIsOnlySaved ==
  ASSUME TypeInv, [Next]_vars
  PROVE  row' = row \/ \E new \in State : row' = Save(row, new)
<1> USE DEF storeVars
<1>1. CASE \E t \in Turns, c \in ConvIds, m \in Modes : Receive(t, c, m)
  BY <1>1 DEF Receive
<1>2. CASE \E t \in Turns : TurnStep(t)
  <2>1. PICK t \in Turns : TurnStep(t)
    BY <1>2
  <2>2. CASE ConsumePlan(t) \/ SaveCount(t)
    BY <2>2, ConsumePlanWrites, SaveCountWrites DEF TypeInv
  <2>3. CASE ~(ConsumePlan(t) \/ SaveCount(t))
    BY <2>1, <2>3
       DEF TurnStep, LoadSession, LoadGmState, CountHistory, RereadGmState, SaveUserMessage,
           SaveAvatarMessage, Interrupt, TouchConversation, ClearNotes, ReadCount,
           CheckImplicitClose, ImplicitClose, ImplicitCloseFails, TurnFails
  <2>4. QED
    BY <2>2, <2>3
<1>3. CASE \E o \in Ops : OpStep(o)
  BY <1>3
     DEF OpStep, FindActive, ClosePrevious, CreateConversation, ActivateAvatar,
         RunInitialGameMaster, OpenReturns, LoadConversation, EndConversation,
         ListConversations, DeleteMessages, DeleteConversations, ResetSession, OpFails
<1>4. CASE \E r \in RunIds : RunStep(r)
  <2>1. PICK r \in RunIds : RunStep(r)
    BY <1>4
  <2>2. CASE SavePlan(r)
    BY <2>2, SavePlanWrites DEF TypeInv
  <2>3. CASE ~SavePlan(r)
    BY <2>1, <2>3
       DEF RunStep, ReadState, ReadSession, SessionUnreadable, ModelAnswers, ApplyUnlocks,
           ApplyRouting, SaveNotes, RunFails, FinishRun
  <2>4. QED
    BY <2>2, <2>3
<1>5. QED
  BY StepCases, <1>1, <1>2, <1>3, <1>4 DEF vars

(* No writer of gm_states, however stale what it read, takes the count back *)
(* or replaces a plan by an older one.                                      *)
THEOREM RowNeverRegressesHolds == Spec => RowNeverRegresses
<1> DEFINE Kept == row # NoRow =>
                     /\ row' # NoRow
                     /\ row'.count >= row.count
                     /\ row.plan # None => row'.plan # None /\ row'.plan.after >= row.plan.after
<1>1. TypeInv /\ [Next]_vars => [Kept]_vars
  <2> SUFFICES ASSUME TypeInv, [Next]_vars, row # NoRow
               PROVE  Kept
    OBVIOUS
  <2>1. row \in State
    BY DEF TypeInv, StoreInv, StoreTypeOK
  <2>2. CASE row' = row
    <3>1. row.count \in Nat /\ (row.plan # None => row.plan.after \in Nat)
      BY <2>1 DEF State, Plan
    <3>2. QED
      BY <2>2, <3>1
  <2>3. CASE \E new \in State : row' = Save(row, new)
    BY <2>1, <2>3, SaveNeverRegresses
  <2>4. QED
    BY <2>2, <2>3, RowIsOnlySaved
<1>2. QED
  BY <1>1, TypeInvHolds, PTL DEF Spec, RowNeverRegresses

-----------------------------------------------------------------------------
(* Background work. *)

(* A run goes on only after it was started.                                 *)
LEMMA RunStepStartsNothing ==
  ASSUME RunInv, NEW r \in RunIds, RunStep(r), NEW t \in Turns, run'[t].pc # "idle"
  PROVE  run[t].pc # "idle"
<1>1. CASE r = t
  BY <1>1
     DEF RunStep, ReadState, ReadSession, SessionUnreadable, ModelAnswers, ApplyUnlocks,
         ApplyRouting, SavePlan, SaveNotes, RunFails, FinishRun, Running
<1>2. CASE r # t
  <2>1. t \in RunIds /\ run \in [RunIds -> Run]
    BY DEF RunIds, RunInv, GmTypeOK
  <2>2. \E new : run' = [run EXCEPT ![r] = new]
    BY DEF RunStep, ReadState, ReadSession, SessionUnreadable, ModelAnswers, ApplyUnlocks,
           ApplyRouting, SavePlan, SaveNotes, RunFails, FinishRun, Goto
  <2>3. QED
    BY <1>2, <2>1, <2>2
<1>3. QED
  BY <1>1, <1>2

(* A request starts its own run only, and only once its exchange is counted.*)
LEMMA TurnStepStartsItsRun ==
  ASSUME RunInv, TurnInv, NEW t \in Turns, TurnStep(t)
  PROVE  /\ \/ UNCHANGED run
            \/ CountedTurn(t)' /\ \E new : run' = [run EXCEPT ![t] = new]
         /\ CountedTurn(t) => CountedTurn(t)'
         /\ \E new : turn' = [turn EXCEPT ![t] = new]
<1>1. turn \in [Turns -> Turn] /\ IdleTurn \in Turn
  BY IdleTurnType DEF TurnInv, TurnTypeOK
<1>2. \E new : turn' = [turn EXCEPT ![t] = new]
  BY DEF TurnStep, LoadSession, LoadGmState, CountHistory, RereadGmState, ConsumePlan,
         SaveUserMessage, SaveAvatarMessage, Interrupt, TouchConversation, ClearNotes,
         ReadCount, SaveCount, CheckImplicitClose, ImplicitClose, ImplicitCloseFails,
         TurnFails, EndTurn, GotoTurn, ReturnTurn
<1>3. ASSUME EndTurn(t, "done") PROVE CountedTurn(t)'
  BY <1>1, <1>3 DEF EndTurn, CountedTurn, Turn
<1>4. CASE SaveCount(t)
  <2>1. CountedTurn(t)'
    <3>1. CASE turn[t].mode.bye
      <4>1. turn' = [turn EXCEPT ![t] = [@ EXCEPT !.pc = "checkClose", !.state = DefaultState]]
        BY <1>4, <3>1 DEF SaveCount
      <4>2. turn'[t].pc = "checkClose"
        BY <1>1, <4>1 DEF Turn
      <4>3. QED
        BY <4>2 DEF CountedTurn
    <3>2. CASE ~turn[t].mode.bye
      BY <1>3, <1>4, <3>2 DEF SaveCount
    <3>3. QED
      BY <3>1, <3>2
  <2>2. UNCHANGED run \/ \E new : run' = [run EXCEPT ![t] = new]
    BY <1>4 DEF SaveCount, StartGameMaster, Dispatch, gmVars
  <2>3. QED
    BY <1>2, <2>1, <2>2
<1>5. CASE CheckImplicitClose(t) \/ ImplicitClose(t) \/ ImplicitCloseFails(t)
  <2>1. CountedTurn(t)'
    <3>1. CASE EndTurn(t, "done")
      BY <1>3, <3>1
    <3>2. CASE GotoTurn(t, "close")
      BY <1>1, <3>2 DEF GotoTurn, CountedTurn, Turn
    <3>3. QED
      BY <1>5, <3>1, <3>2 DEF CheckImplicitClose, ImplicitClose, ImplicitCloseFails, ReturnTurn
  <2>2. UNCHANGED run \/ \E new : run' = [run EXCEPT ![t] = new]
    BY <1>5 DEF CheckImplicitClose, ImplicitClose, ImplicitCloseFails, ReturnTurn,
                StartGameMaster, Dispatch, gmVars
  <2>3. QED
    BY <1>2, <2>1, <2>2
<1>6. CASE ~(SaveCount(t) \/ CheckImplicitClose(t) \/ ImplicitClose(t) \/ ImplicitCloseFails(t))
  <2>1. UNCHANGED run /\ ~CountedTurn(t)
    BY <1>6 DEF TurnStep, LoadSession, LoadGmState, CountHistory, RereadGmState, ConsumePlan,
         SaveUserMessage, SaveAvatarMessage, Interrupt, TouchConversation, ClearNotes,
         ReadCount, TurnFails, CountedTurn, gmVars
  <2>2. QED
    BY <1>2, <2>1
<1>7. QED
  BY <1>4, <1>5, <1>6

(* The run of a turn is started by that turn, after its exchange was        *)
(* counted: a failed or interrupted turn schedules no background work.      *)
THEOREM OnlyCountedTurnsAreObservedHolds == Spec => []OnlyCountedTurnsAreObserved
<1>1. Init => OnlyCountedTurnsAreObserved
  BY DEF Init, GmInit, OnlyCountedTurnsAreObserved, RunIds, IdleRun
<1>2. TypeInv /\ OnlyCountedTurnsAreObserved /\ [Next]_vars => OnlyCountedTurnsAreObserved'
  <2> SUFFICES ASSUME TypeInv, OnlyCountedTurnsAreObserved, [Next]_vars,
                      NEW u \in Turns, run'[u].pc # "idle"
               PROVE  CountedTurn(u)'
    BY DEF OnlyCountedTurnsAreObserved
  <2>1. /\ run[u].pc # "idle" => CountedTurn(u)
        /\ run \in [RunIds -> Run] /\ turn \in [Turns -> Turn] /\ u \in RunIds
    BY DEF OnlyCountedTurnsAreObserved, TypeInv, RunInv, GmTypeOK, TurnInv, TurnTypeOK, RunIds
  <2>2. CASE \E t \in Turns, c \in ConvIds, m \in Modes : Receive(t, c, m)
    <3>1. PICK t \in Turns, c \in ConvIds, m \in Modes : Receive(t, c, m)
      BY <2>2
    <3>2. turn[t].pc = "idle" /\ run' = run
      BY <3>1 DEF Receive, gmVars
    <3>3. t # u
      BY <2>1, <3>2 DEF CountedTurn
    <3>4. turn'[u] = turn[u]
      BY <2>1, <3>1, <3>3 DEF Receive
    <3>5. QED
      BY <2>1, <3>2, <3>4 DEF CountedTurn
  <2>3. CASE UNCHANGED <<turn, gmVars, storeVars>>
    BY <2>1, <2>3 DEF gmVars, CountedTurn
  <2>4. CASE \E t \in Turns : TurnStep(t)
    <3>1. PICK t \in Turns : TurnStep(t)
      BY <2>4
    <3>2. CASE t = u
      BY <2>1, <3>1, <3>2, TurnStepStartsItsRun DEF TypeInv
    <3>3. CASE t # u
      <4>1. turn'[u] = turn[u] /\ run'[u] = run[u]
        BY <2>1, <3>1, <3>3, TurnStepStartsItsRun DEF TypeInv
      <4>2. QED
        BY <2>1, <4>1 DEF CountedTurn
    <3>4. QED
      BY <3>2, <3>3
  <2>5. CASE \E o \in Ops : OpStep(o) /\ UNCHANGED turn
    <3>1. PICK o \in Ops : OpStep(o) /\ UNCHANGED turn
      BY <2>5
    <3>2. o # u
      BY DistinctIds
    <3>3. run'[u] = run[u]
      BY <2>1, <3>1, <3>2
         DEF OpStep, FindActive, ClosePrevious, CreateConversation, ActivateAvatar,
             RunInitialGameMaster, OpenReturns, LoadConversation, EndConversation,
             ListConversations, DeleteMessages, DeleteConversations, ResetSession, OpFails,
             gmVars, Dispatch
    <3>4. QED
      BY <2>1, <3>1, <3>3 DEF CountedTurn
  <2>6. CASE \E r \in RunIds : RunStep(r) /\ UNCHANGED <<turn, op>>
    BY <2>1, <2>6, RunStepStartsNothing DEF TypeInv, CountedTurn
  <2>7. QED
    BY StepCases, <2>2, <2>3, <2>4, <2>5, <2>6 DEF vars, gmVars, storeVars
<1>3. QED
  BY <1>1, <1>2, TypeInvHolds, PTL DEF Spec

-----------------------------------------------------------------------------
(* Conversations and their messages. *)

(* The numbers of conversations to be created are free.                     *)
FreshIds == \A c \in ConvIds : c > made => conv[c].status = "absent"

(* What a step may do to the conversations.                                 *)
ClosesOne(c) == CloseConv(c) /\ UNCHANGED <<made, messages>>

CreatesOne ==
  /\ made < MaxConversations
  /\ made' = made + 1
  /\ \E a \in Avatars :
       conv' = [conv EXCEPT ![made + 1] = [status |-> "active", avatar |-> a]]
  /\ UNCHANGED messages

DeletesAll ==
  /\ conv' = [c \in ConvIds |-> AbsentConv]
  /\ messages' = {}
  /\ UNCHANGED made

AddsMessage ==
  /\ \E t \in Turns, c \in ConvIds, role \in {"user", "avatar"} : InsertMessage(t, c, role)
  /\ UNCHANGED <<conv, made>>

LEMMA ConversationSteps ==
  ASSUME TypeInv, [Next]_vars
  PROVE  \/ UNCHANGED <<conv, made>> /\ messages' \subseteq messages
         \/ \E c \in ConvIds : ClosesOne(c)
         \/ CreatesOne
         \/ DeletesAll
         \/ AddsMessage
<1> USE DEF storeVars
<1>1. CASE \E t \in Turns, c \in ConvIds, m \in Modes : Receive(t, c, m)
  BY <1>1 DEF Receive
<1>2. CASE \E t \in Turns : TurnStep(t)
  <2>1. PICK t \in Turns : TurnStep(t)
    BY <1>2
  <2>2. CASE SaveUserMessage(t) \/ SaveAvatarMessage(t)
    BY <2>2 DEF SaveUserMessage, SaveAvatarMessage, AddsMessage, TypeInv, TurnInv, TurnHasData,
                InFlight, Ended
  <2>3. CASE ImplicitClose(t)
    BY <2>3 DEF ImplicitClose, ClosesOne, TypeInv, TurnInv, TurnHasData, InFlight, Ended
  <2>4. CASE ~(SaveUserMessage(t) \/ SaveAvatarMessage(t) \/ ImplicitClose(t))
    BY <2>1, <2>4
       DEF TurnStep, LoadSession, LoadGmState, CountHistory, RereadGmState, ConsumePlan,
           Interrupt, TouchConversation, ClearNotes, ReadCount, SaveCount,
           CheckImplicitClose, ImplicitCloseFails, TurnFails
  <2>5. QED
    BY <2>2, <2>3, <2>4
<1>3. CASE \E o \in Ops : OpStep(o)
  <2>1. PICK o \in Ops : OpStep(o)
    BY <1>3
  <2>2. OpHasData(o)
    BY DEF TypeInv, OpInv
  <2>3. CASE ClosePrevious(o) \/ EndConversation(o)
    BY <2>2, <2>3 DEF ClosePrevious, EndConversation, ClosesOne, OpHasData
  <2>4. CASE CreateConversation(o)
    BY <2>2, <2>4 DEF CreateConversation, CreatesOne, OpHasData, Opening
  <2>5. CASE DeleteConversations(o)
    BY <2>5 DEF DeleteConversations, DeletesAll
  <2>6. CASE ~(ClosePrevious(o) \/ EndConversation(o) \/ CreateConversation(o) \/ DeleteConversations(o))
    BY <2>1, <2>6
       DEF OpStep, FindActive, ActivateAvatar, RunInitialGameMaster, OpenReturns,
           LoadConversation, ListConversations, DeleteMessages, ResetSession, OpFails
  <2>7. QED
    BY <2>3, <2>4, <2>5, <2>6
<1>4. CASE \E r \in RunIds : RunStep(r)
  BY <1>4
     DEF RunStep, ReadState, ReadSession, SessionUnreadable, ModelAnswers, ApplyUnlocks,
         ApplyRouting, SavePlan, SaveNotes, RunFails, FinishRun
<1>5. QED
  BY StepCases, <1>1, <1>2, <1>3, <1>4 DEF vars

LEMMA FreshIdsHold == Spec => []FreshIds
<1>1. Init => FreshIds
  BY DEF Init, StoreInit, FreshIds, AbsentConv
<1>2. TypeInv /\ FreshIds /\ [Next]_vars => FreshIds'
  <2> SUFFICES ASSUME TypeInv, FreshIds, [Next]_vars
               PROVE  FreshIds'
    OBVIOUS
  <2>1. conv \in [ConvIds -> Conversation] /\ made \in 0..MaxConversations /\ MaxConversations \in Nat
    BY StoreAssumption DEF TypeInv, StoreInv, StoreTypeOK
  <2>2. CASE UNCHANGED <<conv, made>>
    BY <2>2 DEF FreshIds
  <2>3. CASE \E c \in ConvIds : ClosesOne(c)
    BY <2>1, <2>3 DEF ClosesOne, CloseConv, Exists, FreshIds, Conversation
  <2>4. CASE CreatesOne
    BY <2>1, <2>4 DEF CreatesOne, FreshIds, ConvIds
  <2>5. CASE DeletesAll
    BY <2>5 DEF DeletesAll, FreshIds, AbsentConv
  <2>6. QED
    BY ConversationSteps, <2>2, <2>3, <2>4, <2>5 DEF AddsMessage
<1>3. QED
  BY <1>1, <1>2, TypeInvHolds, PTL DEF Spec

(* A closed conversation is never reopened, though requests that loaded it  *)
(* while it was active go on writing.                                       *)
THEOREM ClosedStaysClosedHolds == Spec => ClosedStaysClosed
<1> DEFINE Kept == \A c \in ConvIds : conv[c].status = "closed" => conv'[c].status # "active"
<1>1. TypeInv /\ FreshIds /\ [Next]_vars => [Kept]_vars
  <2> SUFFICES ASSUME TypeInv, FreshIds, [Next]_vars,
                      NEW c \in ConvIds, conv[c].status = "closed"
               PROVE  conv'[c].status # "active"
    OBVIOUS
  <2>1. conv \in [ConvIds -> Conversation] /\ made \in 0..MaxConversations /\ MaxConversations \in Nat
    BY StoreAssumption DEF TypeInv, StoreInv, StoreTypeOK
  <2>2. CASE UNCHANGED conv
    BY <2>2
  <2>3. CASE \E d \in ConvIds : ClosesOne(d)
    BY <2>1, <2>3 DEF ClosesOne, CloseConv, Conversation
  <2>4. CASE CreatesOne
    <3>1. c # made + 1
      BY <2>1, <2>4 DEF CreatesOne, FreshIds, ConvIds
    <3>2. conv'[c] = conv[c]
      BY <2>1, <2>4, <3>1 DEF CreatesOne
    <3>3. QED
      BY <3>2
  <2>5. CASE DeletesAll
    BY <2>5 DEF DeletesAll, AbsentConv
  <2>6. QED
    BY ConversationSteps, <2>2, <2>3, <2>4, <2>5 DEF AddsMessage
<1>2. QED
  BY <1>1, TypeInvHolds, FreshIdsHold, PTL DEF Spec, ClosedStaysClosed

(* A reset leaves no message of a turn it cut in half.                      *)
THEOREM NoOrphanMessagesHolds == Spec => []NoOrphanMessages
<1>1. Init => NoOrphanMessages
  BY DEF Init, StoreInit, NoOrphanMessages
<1>2. TypeInv /\ NoOrphanMessages /\ [Next]_vars => NoOrphanMessages'
  <2> SUFFICES ASSUME TypeInv, NoOrphanMessages, [Next]_vars, NEW m \in messages'
               PROVE  Exists(m.conv)'
    BY DEF NoOrphanMessages
  <2>1. /\ conv \in [ConvIds -> Conversation] /\ made \in 0..MaxConversations
        /\ MaxConversations \in Nat /\ messages \subseteq Message
    BY StoreAssumption DEF TypeInv, StoreInv, StoreTypeOK
  <2>2. m \in messages => m.conv \in ConvIds /\ conv[m.conv].status # "absent"
    BY <2>1 DEF NoOrphanMessages, Exists, Message
  <2>3. CASE UNCHANGED conv /\ messages' \subseteq messages
    BY <2>2, <2>3 DEF Exists
  <2>4. CASE \E c \in ConvIds : ClosesOne(c)
    BY <2>1, <2>2, <2>4 DEF ClosesOne, CloseConv, Exists, Conversation
  <2>5. CASE CreatesOne
    BY <2>1, <2>2, <2>5 DEF CreatesOne, Exists
  <2>6. CASE DeletesAll
    BY <2>6 DEF DeletesAll
  <2>7. CASE AddsMessage
    BY <2>2, <2>7 DEF AddsMessage, InsertMessage, Exists
  <2>8. QED
    BY ConversationSteps, <2>3, <2>4, <2>5, <2>6, <2>7
<1>3. QED
  BY <1>1, <1>2, TypeInvHolds, PTL DEF Spec

-----------------------------------------------------------------------------
(* The interaction count: it is never ahead of the completed exchanges and, *)
(* when the clients leave at most one request pending, never behind them    *)
(* either.  Every turn and every run that read the row earlier writes the   *)
(* count back, so the invariant bounds what each of them holds.             *)

(* No count that is stored, or that a turn or a run has read, exceeds n.    *)
Held(n) ==
  /\ OrDefault(row).count <= n
  /\ \A r \in RunIds : run[r].state.count <= n
  /\ \A t \in Turns : turn[t].state.count <= n

CountInv ==
  /\ IsFiniteSet(CountedTurns)
  /\ Held(Cardinality(CountedTurns))

LEMMA CountTypes ==
  ASSUME TypeInv
  PROVE  /\ row \in State \cup {NoRow}
         /\ OrDefault(row) \in State
         /\ run \in [RunIds -> Run]
         /\ turn \in [Turns -> Turn]
         /\ \A r \in RunIds : run[r].state \in State
         /\ \A t \in Turns : turn[t].state \in State
BY DefaultStateType DEF TypeInv, StoreInv, StoreTypeOK, RunInv, GmTypeOK, TurnInv, TurnTypeOK,
   OrDefault, Run, Turn

(* The count the upsert leaves is the greater of the two.                   *)
LEMMA SavedCount ==
  ASSUME NEW old \in State \cup {NoRow}, NEW new \in State, NEW n \in Nat,
         OrDefault(old).count <= n, new.count <= n
  PROVE  /\ OrDefault(Save(old, new)).count <= n
         /\ OrDefault(Save(old, new)).count >= OrDefault(old).count
         /\ OrDefault(Save(old, new)).count >= new.count
<1>1. Save(old, new) \in State /\ NoRow \notin State
  BY SaveType, SentinelsAreNotData
<1>2. OrDefault(Save(old, new)) = Save(old, new)
  BY <1>1 DEF OrDefault
<1>3. CASE old = NoRow
  BY <1>2, <1>3 DEF Save, OrDefault, DefaultState, State
<1>4. CASE old # NoRow
  <2>1. Save(old, new).count = Greatest(old.count, new.count)
    BY <1>4 DEF Save
  <2>2. OrDefault(old) = old /\ old.count \in Nat /\ new.count \in Nat
    BY <1>4 DEF OrDefault, State
  <2>3. QED
    BY <1>2, <2>1, <2>2 DEF Greatest
<1>5. QED
  BY <1>3, <1>4

-----------------------------------------------------------------------------
(* What a step does to the counts. *)

(* A step that counts no exchange raises nothing above the bound.           *)
Quiet(n) ==
  /\ Held(n)'
  /\ CountedTurns' = CountedTurns
  /\ OrDefault(row').count >= OrDefault(row).count

LEMMA RunStepIsQuiet ==
  ASSUME TypeInv, NEW n \in Nat, Held(n), NEW r \in RunIds, RunStep(r), UNCHANGED turn
  PROVE  Quiet(n)
<1>1. CountedTurns' = CountedTurns /\ (\A t \in Turns : turn'[t].state.count <= n)
  BY DEF CountedTurns, CountedTurn, Held
<1>2. OrDefault(row').count <= n /\ OrDefault(row').count >= OrDefault(row).count
  <2>1. OrDefault(row).count \in Nat /\ OrDefault(row).count <= n
    BY CountTypes DEF State, Held
  <2>2. CASE row' = row
    BY <2>1, <2>2
  <2>3. CASE SavePlan(r)
    <3> DEFINE new == [Reduced(run[r].state, run[r].out.increase) EXCEPT !.plan = NextPlan(r)]
    <3>1. row' = Save(row, new)
      BY <2>3 DEF SavePlan
    <3>2. new \in State /\ new.count = run[r].state.count
      <4>1. /\ run[r] \in Run /\ run[r].state \in State /\ run[r].out.increase \in BOOLEAN
            /\ RunHasAvatar(r)
        BY CountTypes DEF Run, Output, TypeInv, RunInv
      <4>2. Reduced(run[r].state, run[r].out.increase) \in State
        BY <4>1, ReducedType
      <4>3. NextPlan(r) \in Plan
        BY <2>3, <4>1, NextPlanType DEF SavePlan, Deciding, RunHasAvatar
      <4>4. Reduced(run[r].state, run[r].out.increase).count = run[r].state.count
        BY <4>1 DEF Reduced, State
      <4>5. QED
        BY <4>2, <4>3, <4>4 DEF State
    <3>3. new.count <= n
      BY <3>2 DEF Held
    <3> HIDE DEF new
    <3>4. QED
      BY <2>1, <3>1, <3>2, <3>3, CountTypes, SavedCount
  <2>4. row' = row \/ SavePlan(r)
    BY DEF RunStep, ReadState, ReadSession, SessionUnreadable, ModelAnswers, ApplyUnlocks,
           ApplyRouting, SaveNotes, RunFails, FinishRun, storeVars
  <2>5. QED
    BY <2>2, <2>3, <2>4
<1>3. ASSUME NEW s \in RunIds PROVE run'[s].state.count <= n
  <2>1. run \in [RunIds -> Run] /\ run[s].state.count <= n /\ OrDefault(row).count <= n
    BY CountTypes DEF Held
  <2>2. ASSUME NEW pc, run' = [run EXCEPT ![r] = Spent(pc)]
        PROVE  run'[s].state.count <= n
    BY <2>1, <2>2 DEF Spent, IdleRun, DefaultState, Run
  <2>3. ASSUME NEW pc, Goto(r, pc)
        PROVE  run'[s].state.count <= n
    BY <2>1, <2>3 DEF Goto, Run
  <2>4. CASE ReadState(r)
    BY <2>1, <2>4 DEF ReadState, Run
  <2>5. CASE ReadSession(r) \/ ModelAnswers(r)
    <3>1. CASE ReadSession(r)
      BY <2>1, <3>1 DEF ReadSession, Run
    <3>2. CASE ModelAnswers(r)
      <4>1. PICK out \in Outputs :
              run' = [run EXCEPT ![r] = [@ EXCEPT
                        !.out = out, !.pc = AfterAnswer(run[r].loaded, run[r].known, out)]]
        BY <3>2 DEF ModelAnswers
      <4>2. QED
        BY <2>1, <4>1 DEF Run
    <3>3. QED
      BY <2>5, <3>1, <3>2
  <2>6. CASE SessionUnreadable(r) \/ ApplyUnlocks(r) \/ ApplyRouting(r) \/ FinishRun(r)
    BY <2>3, <2>6 DEF SessionUnreadable, ApplyUnlocks, ApplyRouting, FinishRun
  <2>7. CASE SavePlan(r) \/ SaveNotes(r) \/ RunFails(r)
    <3>1. \E pc : run' = [run EXCEPT ![r] = Spent(pc)]
      BY Zenon, <2>7 DEF SavePlan, SaveNotes, RunFails
    <3>2. QED
      BY <2>2, <3>1
  <2>8. QED
    BY <2>4, <2>5, <2>6, <2>7 DEF RunStep
<1>4. QED
  BY <1>1, <1>2, <1>3 DEF Quiet, Held

(* The state a turn holds after a step is what it held, what it read from   *)
(* the row, or nothing.                                                     *)
LEMMA TurnStepHolds ==
  ASSUME TypeInv, NEW n \in Nat, Held(n), NEW t \in Turns, TurnStep(t)
  PROVE  \A u \in Turns : turn'[u].state.count <= n
<1>1. /\ turn \in [Turns -> Turn] /\ turn[t].state.count <= n /\ OrDefault(row).count <= n
      /\ row # NoRow => row.count <= n
  BY CountTypes DEF Held, OrDefault
<1>2. IdleTurn.state.count <= n /\ DefaultState.count <= n
  BY DEF IdleTurn, DefaultState
<1>3. turn'[t].state.count <= n
  <2>1. ASSUME NEW pc, EndTurn(t, pc) \/ GotoTurn(t, pc)
        PROVE  turn'[t].state.count <= n
    BY <1>1, <1>2, <2>1 DEF EndTurn, GotoTurn, IdleTurn, Turn
  <2>2. ASSUME NEW s \in State, NEW p, s.count <= n, turn' = [turn EXCEPT ![t] = Prepared(@, s, p)]
        PROVE  turn'[t].state.count <= n
    BY <1>1, <2>2 DEF Prepared, Turn
  <2>3. CASE LoadGmState(t)
    <3>1. CASE row = NoRow
      BY <1>1, <2>3, <3>1 DEF LoadGmState, Turn
    <3>2. CASE row # NoRow
      BY <1>1, <2>2, <2>3, <3>2, CountTypes DEF LoadGmState
    <3>3. QED
      BY <3>1, <3>2
  <2>4. CASE RereadGmState(t)
    BY <1>1, <2>2, <2>4, CountTypes DEF RereadGmState
  <2>5. CASE LoadSession(t) \/ CountHistory(t) \/ ConsumePlan(t) \/ ReadCount(t)
    BY <1>1, <1>2, <2>5 DEF LoadSession, CountHistory, ConsumePlan, ReadCount, Turn
  <2>6. CASE SaveCount(t)
    <3>1. CASE turn[t].mode.bye
      BY <1>1, <1>2, <2>6, <3>1 DEF SaveCount, Turn
    <3>2. CASE ~turn[t].mode.bye
      BY <2>1, <2>6, <3>2 DEF SaveCount
    <3>3. QED
      BY <3>1, <3>2
  <2>7. CASE \/ SaveUserMessage(t) \/ SaveAvatarMessage(t) \/ Interrupt(t) \/ TouchConversation(t)
             \/ ClearNotes(t) \/ CheckImplicitClose(t) \/ ImplicitClose(t)
             \/ ImplicitCloseFails(t) \/ TurnFails(t)
    BY <2>1, <2>7 DEF SaveUserMessage, SaveAvatarMessage, Interrupt, TouchConversation,
       ClearNotes, CheckImplicitClose, ImplicitClose, ImplicitCloseFails, TurnFails, ReturnTurn
  <2>8. QED
    BY <2>3, <2>4, <2>5, <2>6, <2>7 DEF TurnStep
<1>4. \E new : turn' = [turn EXCEPT ![t] = new]
  BY TurnStepStartsItsRun DEF TypeInv
<1>5. QED
  BY <1>1, <1>3, <1>4 DEF Held

(* A run holds no more when it is started than before.                      *)
LEMMA DispatchHolds ==
  ASSUME TypeInv, NEW n \in Nat, Held(n), NEW q \in RunIds,
         UNCHANGED run \/ \E i, a : Dispatch(q, i, a)
  PROVE  \A r \in RunIds : run'[r].state.count <= n
BY CountTypes DEF Held, Dispatch, Run

LEMMA TurnStepStartsRun ==
  ASSUME NEW t \in Turns, TurnStep(t)
  PROVE  UNCHANGED run \/ \E i, a : Dispatch(t, i, a)
BY DEF TurnStep, LoadSession, LoadGmState, CountHistory, RereadGmState, ConsumePlan,
       SaveUserMessage, SaveAvatarMessage, Interrupt, TouchConversation, ClearNotes,
       ReadCount, SaveCount, CheckImplicitClose, ImplicitClose, ImplicitCloseFails,
       TurnFails, ReturnTurn, StartGameMaster, gmVars

(* Only SaveCount makes a turn a counted one, and none ceases to be.        *)
LEMMA CountedTurnStep ==
  ASSUME TypeInv, NEW t \in Turns, TurnStep(t)
  PROVE  CountedTurns' = IF SaveCount(t) THEN CountedTurns \cup {t} ELSE CountedTurns
<1>1. turn \in [Turns -> Turn] /\ t \in Turns
  BY CountTypes
<1>2. /\ \E new : turn' = [turn EXCEPT ![t] = new]
      /\ CountedTurn(t) => CountedTurn(t)'
  BY TurnStepStartsItsRun DEF TypeInv
<1>3. \A u \in Turns : u # t => (CountedTurn(u)' <=> CountedTurn(u))
  BY <1>1, <1>2 DEF CountedTurn
<1>4. ASSUME SaveCount(t) PROVE CountedTurn(t)'
  <2>1. CASE turn[t].mode.bye
    <3>1. turn' = [turn EXCEPT ![t] = [@ EXCEPT !.pc = "checkClose", !.state = DefaultState]]
      BY <1>4, <2>1 DEF SaveCount
    <3>2. turn'[t].pc = "checkClose"
      BY <1>1, <3>1 DEF Turn
    <3>3. QED
      BY <3>2 DEF CountedTurn
  <2>2. CASE ~turn[t].mode.bye
    <3>1. EndTurn(t, "done")
      BY <1>4, <2>2 DEF SaveCount
    <3>2. QED
      BY <1>1, <3>1, IdleTurnType DEF EndTurn, CountedTurn, Turn
  <2>3. QED
    BY <2>1, <2>2
<1>5. ASSUME ~SaveCount(t), ~CountedTurn(t) PROVE ~CountedTurn(t)'
  <2>1. ASSUME NEW pc, pc \notin {"checkClose", "close", "done"},
               EndTurn(t, pc) \/ GotoTurn(t, pc)
        PROVE  ~CountedTurn(t)'
    BY <1>1, <2>1 DEF EndTurn, GotoTurn, CountedTurn, IdleTurn, Turn
  <2>2. ASSUME NEW s, NEW p, turn' = [turn EXCEPT ![t] = Prepared(@, s, p)]
        PROVE  ~CountedTurn(t)'
    BY <1>1, <2>2 DEF Prepared, CountedTurn, Turn
  <2>3. CASE LoadGmState(t)
    <3>1. CASE row = NoRow
      BY <1>1, <2>3, <3>1 DEF LoadGmState, CountedTurn, Turn
    <3>2. CASE row # NoRow
      BY <2>2, <2>3, <3>2 DEF LoadGmState
    <3>3. QED
      BY <3>1, <3>2
  <2>4. CASE RereadGmState(t)
    BY <2>2, <2>4 DEF RereadGmState
  <2>5. CASE LoadSession(t) \/ CountHistory(t) \/ ConsumePlan(t) \/ ReadCount(t)
    BY <1>1, <2>5 DEF LoadSession, CountHistory, ConsumePlan, ReadCount, CountedTurn, Turn
  <2>6. CASE \/ SaveUserMessage(t) \/ SaveAvatarMessage(t) \/ Interrupt(t)
             \/ TouchConversation(t) \/ ClearNotes(t) \/ TurnFails(t)
    BY <2>1, <2>6 DEF SaveUserMessage, SaveAvatarMessage, Interrupt, TouchConversation,
                      ClearNotes, TurnFails
  <2>7. QED
    BY <1>5, <2>3, <2>4, <2>5, <2>6
       DEF TurnStep, CheckImplicitClose, ImplicitClose, ImplicitCloseFails, CountedTurn
<1>6. QED
  BY <1>2, <1>3, <1>4, <1>5 DEF CountedTurns

LEMMA TurnStepIsQuiet ==
  ASSUME TypeInv, NEW n \in Nat, Held(n), NEW t \in Turns, TurnStep(t), ~SaveCount(t)
  PROVE  Quiet(n)
<1>1. CountedTurns' = CountedTurns
  BY CountedTurnStep
<1>2. \A u \in Turns : turn'[u].state.count <= n
  BY TurnStepHolds
<1>3. \A r \in RunIds : run'[r].state.count <= n
  <2>1. t \in RunIds
    BY DEF RunIds
  <2>2. QED
    BY <2>1, TurnStepStartsRun, DispatchHolds
<1>4. OrDefault(row').count <= n /\ OrDefault(row').count >= OrDefault(row).count
  <2>1. OrDefault(row).count \in Nat /\ OrDefault(row).count <= n
    BY CountTypes DEF State, Held
  <2>2. CASE row' = row
    BY <2>1, <2>2
  <2>3. CASE ConsumePlan(t)
    <3> DEFINE new == ConsumedBy(turn[t].state, TurnIndex(t))
    <3>1. row' = Save(row, new)
      BY <2>3 DEF ConsumePlan
    <3>2. new \in State /\ new.count = turn[t].state.count
      <4>1. turn[t] \in Turn /\ turn[t].state \in State /\ turn[t].state.plan \in Plan
        BY <2>3, CountTypes DEF ConsumePlan, TypeInv, TurnInv, TurnHasData
      <4>2. TurnIndex(t) \in Nat
        BY <4>1 DEF TurnIndex, Turn
      <4>3. QED
        BY <4>1, <4>2 DEF ConsumedBy, State, Plan
    <3>3. new.count <= n
      BY <3>2 DEF Held
    <3> HIDE DEF new
    <3>4. QED
      BY <2>1, <3>1, <3>2, <3>3, CountTypes, SavedCount
  <2>4. row' = row \/ ConsumePlan(t)
    BY DEF TurnStep, LoadSession, LoadGmState, CountHistory, RereadGmState,
           SaveUserMessage, SaveAvatarMessage, Interrupt, TouchConversation, ClearNotes,
           ReadCount, CheckImplicitClose, ImplicitClose, ImplicitCloseFails,
           TurnFails, storeVars
  <2>5. QED
    BY <2>2, <2>3, <2>4
<1>5. QED
  BY <1>1, <1>2, <1>3, <1>4 DEF Quiet, Held

LEMMA OpStepIsQuiet ==
  ASSUME TypeInv, NEW n \in Nat, Held(n), NEW o \in Ops, OpStep(o), UNCHANGED turn
  PROVE  Quiet(n)
<1>1. row' = row
  BY DEF OpStep, FindActive, ClosePrevious, CreateConversation, ActivateAvatar,
         RunInitialGameMaster, OpenReturns, LoadConversation, EndConversation,
         ListConversations, DeleteMessages, DeleteConversations, ResetSession, OpFails, storeVars
<1>2. UNCHANGED run \/ \E i, a : Dispatch(o, i, a)
  BY DEF OpStep, FindActive, ClosePrevious, CreateConversation, ActivateAvatar,
         RunInitialGameMaster, OpenReturns, LoadConversation, EndConversation,
         ListConversations, DeleteMessages, DeleteConversations, ResetSession, OpFails, gmVars
<1>3. o \in RunIds /\ OrDefault(row).count \in Nat
  BY CountTypes DEF RunIds, State
<1>4. \A r \in RunIds : run'[r].state.count <= n
  BY <1>2, <1>3, DispatchHolds
<1>5. QED
  BY <1>1, <1>3, <1>4 DEF Quiet, Held, CountedTurns, CountedTurn

LEMMA OtherStepsAreQuiet ==
  ASSUME TypeInv, NEW n \in Nat, Held(n),
         \/ \E t \in Turns, c \in ConvIds, m \in Modes : Receive(t, c, m)
         \/ UNCHANGED <<turn, gmVars, storeVars>>
  PROVE  Quiet(n)
<1>1. row' = row /\ run' = run
  BY DEF Receive, gmVars, storeVars
<1>2. OrDefault(row).count \in Nat
  BY CountTypes DEF State
<1>3. CASE \E t \in Turns, c \in ConvIds, m \in Modes : Receive(t, c, m)
  <2>1. PICK t \in Turns, c \in ConvIds, m \in Modes : Receive(t, c, m)
    BY <1>3
  <2>2. \A u \in Turns : turn'[u].state = turn[u].state /\ (CountedTurn(u)' <=> CountedTurn(u))
    <3>1. /\ turn \in [Turns -> Turn] /\ turn[t].pc = "idle"
          /\ turn' = [turn EXCEPT ![t] = [@ EXCEPT !.pc = "readSession", !.mode = m,
                                                   !.conv = c, !.avatar = conv[c].avatar]]
      BY <2>1, CountTypes DEF Receive
    <3>2. turn'[t].state = turn[t].state /\ turn'[t].pc = "readSession"
      BY <3>1 DEF Turn
    <3>3. \A u \in Turns : u # t => turn'[u] = turn[u]
      BY <3>1
    <3>4. QED
      BY <3>1, <3>2, <3>3 DEF CountedTurn
  <2>3. QED
    BY <1>1, <1>2, <2>2 DEF Quiet, Held, CountedTurns
<1>4. CASE UNCHANGED turn
  BY <1>1, <1>2, <1>4 DEF Quiet, Held, CountedTurns, CountedTurn
<1>5. QED
  BY <1>3, <1>4

(* Counting an exchange raises the bound by one, with the counted turns.    *)
LEMMA SaveCountCounts ==
  ASSUME TypeInv, NEW n \in Nat, Held(n), NEW t \in Turns, SaveCount(t)
  PROVE  /\ Held(n + 1)'
         /\ CountedTurns' = CountedTurns \cup {t}
         /\ t \notin CountedTurns
         /\ OrDefault(row').count >= turn[t].state.count + 1
<1>1. TurnStep(t) /\ t \in RunIds /\ n + 1 \in Nat
  BY DEF TurnStep, RunIds
<1>2. CountedTurns' = CountedTurns \cup {t} /\ t \notin CountedTurns
  BY <1>1, CountedTurnStep DEF SaveCount, CountedTurns, CountedTurn
<1>3. Held(n + 1)
  BY CountTypes DEF Held, State
<1>4. \A u \in Turns : turn'[u].state.count <= n + 1
  BY <1>1, <1>3, TurnStepHolds
<1>5. \A r \in RunIds : run'[r].state.count <= n + 1
  BY <1>1, <1>3, TurnStepStartsRun, DispatchHolds
<1>6. OrDefault(row').count <= n + 1 /\ OrDefault(row').count >= turn[t].state.count + 1
  <2>1. row' = Save(row, Counted(turn[t].state))
    BY DEF SaveCount
  <2>2. turn[t].state \in State /\ turn[t].state.count <= n
    BY CountTypes DEF Held
  <2>3. /\ Counted(turn[t].state) \in State
        /\ Counted(turn[t].state).count = turn[t].state.count + 1
        /\ Counted(turn[t].state).count <= n + 1
    BY <2>2 DEF Counted, State
  <2>4. QED
    BY <1>1, <1>3, <2>1, <2>3, CountTypes, SavedCount DEF Held
<1>7. QED
  BY <1>2, <1>4, <1>5, <1>6 DEF Held

LEMMA CountSteps ==
  ASSUME TypeInv, NEW n \in Nat, Held(n), [Next]_vars
  PROVE  Quiet(n) \/ \E t \in Turns : SaveCount(t)
<1>1. ASSUME UNCHANGED vars
      PROVE  UNCHANGED <<turn, gmVars, storeVars>>
  BY <1>1 DEF vars, gmVars, storeVars
<1>2. QED
  BY <1>1, StepCases, RunStepIsQuiet, TurnStepIsQuiet, OpStepIsQuiet, OtherStepsAreQuiet

-----------------------------------------------------------------------------
(* Every client. *)

LEMMA CountInvHolds == Spec => []CountInv
<1>1. Init => CountInv
  <2> SUFFICES ASSUME Init PROVE CountInv
    OBVIOUS
  <2>1. CountedTurns = {}
    BY DEF Init, TurnInit, IdleTurn, CountedTurns, CountedTurn
  <2>2. IsFiniteSet(CountedTurns) /\ Cardinality(CountedTurns) = 0
    BY <2>1, FS_EmptySet
  <2>3. Held(0)
    BY DEF Init, StoreInit, GmInit, TurnInit, IdleRun, IdleTurn, OrDefault, DefaultState, Held
  <2>4. QED
    BY <2>2, <2>3 DEF CountInv
<1>2. TypeInv /\ CountInv /\ [Next]_vars => CountInv'
  <2> SUFFICES ASSUME TypeInv, CountInv, [Next]_vars PROVE CountInv'
    OBVIOUS
  <2>1. PICK n \in Nat : n = Cardinality(CountedTurns)
    BY FS_CardinalityType DEF CountInv
  <2>2. IsFiniteSet(CountedTurns) /\ Held(n)
    BY <2>1 DEF CountInv
  <2>3. CASE Quiet(n)
    <3>1. Held(n)' /\ IsFiniteSet(CountedTurns)' /\ Cardinality(CountedTurns)' = n
      BY <2>1, <2>2, <2>3 DEF Quiet
    <3>2. QED
      BY <3>1 DEF CountInv, Held
  <2>4. CASE \E t \in Turns : SaveCount(t)
    <3>1. PICK t \in Turns : SaveCount(t)
      BY <2>4
    <3>2. Held(n + 1)' /\ CountedTurns' = CountedTurns \cup {t} /\ t \notin CountedTurns
      BY <2>2, <3>1, SaveCountCounts
    <3>3. IsFiniteSet(CountedTurns)' /\ Cardinality(CountedTurns)' = n + 1
      BY <2>1, <2>2, <3>2, FS_AddElement
    <3>4. QED
      BY <3>2, <3>3 DEF CountInv, Held
  <2>5. QED
    BY <2>2, <2>3, <2>4, CountSteps
<1>3. QED
  BY <1>1, <1>2, TypeInvHolds, PTL DEF Spec

(* The exchange count is never ahead of the exchanges that completed,       *)
(* however many turns and runs write back what they read.                   *)
THEOREM CountIsNeverAheadHolds == Spec => []CountIsNeverAhead
<1>1. CountInv => CountIsNeverAhead
  BY DEF CountInv, Held, OrDefault, CountIsNeverAhead
<1>2. QED
  BY <1>1, CountInvHolds, PTL

-----------------------------------------------------------------------------
(* Clients that wait for each answer. *)

OnePending == Pending = {} \/ \E x : Pending = {x}

ReadsAreFresh ==
  \A t \in Turns : turn[t].pc = "saveCount" => turn[t].state.count = Cardinality(CountedTurns)

(* What keeps the count from falling behind: between the read and the write *)
(* of the counting turn, no other turn counts.                              *)
PatientInv == OnePending /\ ReadsAreFresh /\ CountIsExact

(* A step of a request is one of a pending request.                         *)
LEMMA TurnStepOfPending ==
  ASSUME NEW t \in Turns, TurnStep(t)
  PROVE  t \in Pending
BY DEF TurnStep, LoadSession, LoadGmState, CountHistory, RereadGmState, ConsumePlan,
       SaveUserMessage, SaveAvatarMessage, Interrupt, TouchConversation, ClearNotes,
       ReadCount, SaveCount, CheckImplicitClose, ImplicitClose, ImplicitCloseFails,
       TurnFails, Pending, InFlight, Ended

LEMMA TurnStepAddsNothing ==
  ASSUME TypeInv, NEW t \in Turns, TurnStep(t), UNCHANGED op
  PROVE  Pending' \subseteq Pending
<1>1. turn \in [Turns -> Turn] /\ \E new : turn' = [turn EXCEPT ![t] = new]
  BY CountTypes, TurnStepStartsItsRun DEF TypeInv
<1>2. \A u \in Turns : u # t => turn'[u] = turn[u]
  BY <1>1
<1>3. QED
  BY <1>2, TurnStepOfPending DEF Pending, InFlight, OpInFlight

LEMMA OpStepTouchesItsOp ==
  ASSUME TypeInv, NEW o \in Ops, OpStep(o)
  PROVE  \A p \in Ops : p # o => op'[p] = op[p]
<1>1. op \in [Ops -> Op]
  BY DEF TypeInv, OpInv, OpTypeOK
<1>2. \E new : op' = [op EXCEPT ![o] = new]
  BY DEF OpStep, FindActive, ClosePrevious, CreateConversation, ActivateAvatar,
         RunInitialGameMaster, OpenReturns, LoadConversation, EndConversation,
         ListConversations, DeleteMessages, DeleteConversations, ResetSession, OpFails, GotoOp
<1>3. QED
  BY <1>1, <1>2

LEMMA OpStepAddsNothing ==
  ASSUME TypeInv, NEW o \in Ops, OpStep(o), UNCHANGED turn
  PROVE  Pending' \subseteq Pending
<1>1. op \in [Ops -> Op]
  BY DEF TypeInv, OpInv, OpTypeOK
<1>2. \A p \in Ops : p # o => op'[p] = op[p]
  BY OpStepTouchesItsOp
<1>3. OpInFlight(o)' => OpInFlight(o)
  <2>1. CASE \E c \in ConvIds : DeleteMessages(o, c)
    BY <1>1, <2>1 DEF DeleteMessages, OpInFlight, Op
  <2>2. CASE ~\E c \in ConvIds : DeleteMessages(o, c)
    BY <2>2
       DEF OpStep, FindActive, ClosePrevious, CreateConversation, ActivateAvatar,
           RunInitialGameMaster, OpenReturns, LoadConversation, EndConversation,
           ListConversations, DeleteConversations, ResetSession, OpFails, OpInFlight
  <2>3. QED
    BY <2>1, <2>2
<1>4. QED
  BY <1>2, <1>3 DEF Pending, InFlight, OpInFlight

LEMMA FreeClientsHaveNonePending ==
  ASSUME MaxInFlight \in {0, 1}, OnePending, ClientIsFree
  PROVE  Pending = {}
<1>1. ASSUME NEW x, Pending = {x} PROVE Cardinality(Pending) = 1
  BY <1>1, FS_Singleton
<1>2. ~\E x : Pending = {x}
  BY <1>1 DEF ClientIsFree
<1>3. QED
  BY <1>2 DEF OnePending

LEMMA OnePendingStep ==
  ASSUME MaxInFlight \in {0, 1}, TypeInv, OnePending, [Next]_vars
  PROVE  OnePending'
<1>1. turn \in [Turns -> Turn] /\ op \in [Ops -> Op]
  BY DEF TypeInv, TurnInv, TurnTypeOK, OpInv, OpTypeOK
<1>2. ASSUME Pending' \subseteq Pending PROVE OnePending'
  <2>1. CASE Pending = {}
    BY <1>2, <2>1 DEF OnePending
  <2>2. CASE Pending # {}
    <3>1. PICK x : Pending = {x}
      BY <2>2 DEF OnePending
    <3>2. Pending' = {} \/ Pending' = {x}
      BY <1>2, <3>1
    <3>3. QED
      BY <3>2 DEF OnePending
  <2>3. QED
    BY <2>1, <2>2
<1>3. CASE SendRequest
  <2>1. PICK t \in Turns, c \in ConvIds, m \in Modes :
          ClientIsFree /\ Receive(t, c, m) /\ UNCHANGED op
    BY <1>3 DEF SendRequest
  <2>2. Pending = {}
    BY <2>1, FreeClientsHaveNonePending
  <2>3. \A u \in Turns : u # t => turn'[u] = turn[u]
    BY <1>1, <2>1 DEF Receive
  <2>4. Pending' \subseteq {t}
    BY <2>1, <2>2, <2>3 DEF Pending, InFlight, OpInFlight
  <2>5. Pending' = {} \/ Pending' = {t}
    BY <2>4
  <2>6. QED
    BY <2>5 DEF OnePending
<1>4. CASE LifecycleRequest
  <2>1. PICK o \in Ops :
          /\ ClientIsFree
          /\ \/ \E k \in AllKinds, a \in Avatars : BeginOpen(o, k, a)
             \/ \E c \in ConvIds : BeginEnd(o, c)
             \/ BeginReset(o)
          /\ UNCHANGED turn
    BY <1>4 DEF LifecycleRequest
  <2>2. Pending = {}
    BY <2>1, FreeClientsHaveNonePending
  <2>3. \E new : op' = [op EXCEPT ![o] = new]
    BY <2>1 DEF BeginOpen, BeginEnd, BeginReset
  <2>4. \A p \in Ops : p # o => op'[p] = op[p]
    BY <1>1, <2>3
  <2>5. Pending' \subseteq {o}
    BY <2>1, <2>2, <2>4 DEF Pending, InFlight, OpInFlight
  <2>6. Pending' = {} \/ Pending' = {o}
    BY <2>5
  <2>7. QED
    BY <2>6 DEF OnePending
<1>5. CASE ServeTurn
  BY <1>2, <1>5, TurnStepAddsNothing DEF ServeTurn
<1>6. CASE ServeOp
  BY <1>2, <1>6, OpStepAddsNothing DEF ServeOp
<1>7. CASE ServeRun
  BY <1>2, <1>7 DEF ServeRun, Pending, InFlight, OpInFlight
<1>8. CASE Quiescent \/ UNCHANGED vars
  BY <1>2, <1>8 DEF Quiescent, vars, Pending, InFlight, OpInFlight
<1>9. QED
  BY <1>3, <1>4, <1>5, <1>6, <1>7, <1>8 DEF Next

(* A turn is about to write the count only when it has just read it.        *)
LEMMA OnlyReadCountReads ==
  ASSUME TypeInv, NEW t \in Turns, TurnStep(t), turn'[t].pc = "saveCount"
  PROVE  ReadCount(t) /\ turn'[t].state = OrDefault(row)
<1>1. turn \in [Turns -> Turn]
  BY CountTypes
<1>2. ASSUME NEW pc, pc # "saveCount", EndTurn(t, pc) \/ GotoTurn(t, pc)
      PROVE  FALSE
  BY <1>1, <1>2 DEF EndTurn, GotoTurn, IdleTurn, Turn
<1>3. ASSUME NEW s, NEW p, turn' = [turn EXCEPT ![t] = Prepared(@, s, p)]
      PROVE  FALSE
  BY <1>1, <1>3 DEF Prepared, Turn
<1>4. CASE LoadGmState(t)
  <2>1. CASE row = NoRow
    BY <1>1, <1>4, <2>1 DEF LoadGmState, Turn
  <2>2. CASE row # NoRow
    BY <1>3, <1>4, <2>2 DEF LoadGmState
  <2>3. QED
    BY <2>1, <2>2
<1>5. CASE RereadGmState(t)
  BY <1>3, <1>5 DEF RereadGmState
<1>6. CASE LoadSession(t) \/ CountHistory(t) \/ ConsumePlan(t)
  BY <1>1, <1>6 DEF LoadSession, CountHistory, ConsumePlan, Turn
<1>7. CASE SaveCount(t)
  <2>1. CASE turn[t].mode.bye
    <3>1. turn' = [turn EXCEPT ![t] = [@ EXCEPT !.pc = "checkClose", !.state = DefaultState]]
      BY <1>7, <2>1 DEF SaveCount
    <3>2. QED
      BY <1>1, <3>1 DEF Turn
  <2>2. CASE ~turn[t].mode.bye
    BY <1>2, <1>7, <2>2 DEF SaveCount
  <2>3. QED
    BY <2>1, <2>2
<1>8. CASE \/ SaveUserMessage(t) \/ SaveAvatarMessage(t) \/ Interrupt(t) \/ TouchConversation(t)
           \/ ClearNotes(t) \/ CheckImplicitClose(t) \/ ImplicitClose(t)
           \/ ImplicitCloseFails(t) \/ TurnFails(t)
  BY <1>2, <1>8 DEF SaveUserMessage, SaveAvatarMessage, Interrupt, TouchConversation,
     ClearNotes, CheckImplicitClose, ImplicitClose, ImplicitCloseFails, TurnFails, ReturnTurn
<1>9. CASE ReadCount(t)
  BY <1>1, <1>9 DEF ReadCount, Turn
<1>10. QED
  BY <1>4, <1>5, <1>6, <1>7, <1>8, <1>9 DEF TurnStep

LEMMA ReadsStayFresh ==
  ASSUME TypeInv, PatientInv, [Next]_vars, NEW n \in Nat, n = Cardinality(CountedTurns),
         CountedTurns' = CountedTurns, NEW u \in Turns, turn'[u].pc = "saveCount"
  PROVE  turn'[u].state.count = n
<1>1. turn \in [Turns -> Turn] /\ OrDefault(row).count = n
  BY CountTypes DEF PatientInv, CountIsExact
<1>2. turn[u].pc = "saveCount" => turn[u].state.count = n
  BY DEF PatientInv, ReadsAreFresh
<1>3. CASE turn'[u] = turn[u]
  BY <1>2, <1>3
<1>4. CASE \E t \in Turns : TurnStep(t)
  <2>1. PICK t \in Turns : TurnStep(t)
    BY <1>4
  <2>2. CASE t = u
    BY <1>1, <2>1, <2>2, OnlyReadCountReads
  <2>3. CASE t # u
    BY <1>1, <1>3, <2>1, <2>3, TurnStepStartsItsRun DEF TypeInv
  <2>4. QED
    BY <2>2, <2>3
<1>5. CASE \E t \in Turns, c \in ConvIds, m \in Modes : Receive(t, c, m)
  <2>1. PICK t \in Turns, c \in ConvIds, m \in Modes : Receive(t, c, m)
    BY <1>5
  <2>2. turn' = [turn EXCEPT ![t] = [@ EXCEPT !.pc = "readSession", !.mode = m,
                                              !.conv = c, !.avatar = conv[c].avatar]]
    BY <2>1 DEF Receive
  <2>3. t # u
    BY <1>1, <2>2 DEF Turn
  <2>4. QED
    BY <1>1, <1>3, <2>2, <2>3
<1>6. QED
  BY <1>3, <1>4, <1>5, StepCases DEF vars

LEMMA PatientInvHolds ==
  ASSUME MaxInFlight \in {0, 1}
  PROVE  Spec => []PatientInv
<1>1. Init => PatientInv
  <2> SUFFICES ASSUME Init PROVE PatientInv
    OBVIOUS
  <2>1. Pending = {}
    BY DEF Init, TurnInit, OpInit, IdleTurn, IdleOp, Pending, InFlight, OpInFlight
  <2>2. CountedTurns = {} /\ Cardinality({}) = 0
    BY FS_EmptySet DEF Init, TurnInit, IdleTurn, CountedTurns, CountedTurn
  <2>3. QED
    BY <2>1, <2>2
       DEF Init, StoreInit, TurnInit, IdleTurn, OrDefault, DefaultState, PatientInv,
           OnePending, ReadsAreFresh, CountIsExact
<1>2. TypeInv /\ CountInv /\ PatientInv /\ [Next]_vars => PatientInv'
  <2> SUFFICES ASSUME TypeInv, CountInv, PatientInv, [Next]_vars PROVE PatientInv'
    OBVIOUS
  <2>1. PICK n \in Nat : n = Cardinality(CountedTurns)
    BY FS_CardinalityType DEF CountInv
  <2>2. IsFiniteSet(CountedTurns) /\ Held(n) /\ OrDefault(row).count = n
    BY <2>1 DEF CountInv, PatientInv, CountIsExact
  <2>3. OnePending'
    BY OnePendingStep DEF PatientInv
  <2>4. OrDefault(row)'.count \in Nat
    BY NextTypeInv, DefaultStateType DEF TypeInv, StoreInv, StoreTypeOK, OrDefault, State
  <2>5. CASE Quiet(n)
    <3>1. CountedTurns' = CountedTurns /\ Cardinality(CountedTurns)' = n
      BY <2>1, <2>5 DEF Quiet
    <3>2. OrDefault(row)'.count = n
      BY <2>2, <2>4, <2>5 DEF Quiet, Held
    <3>3. ReadsAreFresh'
      BY <2>1, <3>1, ReadsStayFresh DEF ReadsAreFresh
    <3>4. QED
      BY <2>3, <3>1, <3>2, <3>3 DEF PatientInv, CountIsExact
  <2>6. CASE \E t \in Turns : SaveCount(t)
    <3>1. PICK t \in Turns : SaveCount(t)
      BY <2>6
    <3>2. /\ Held(n + 1)' /\ CountedTurns' = CountedTurns \cup {t} /\ t \notin CountedTurns
          /\ OrDefault(row').count >= turn[t].state.count + 1
      BY <2>2, <3>1, SaveCountCounts
    <3>3. Cardinality(CountedTurns)' = n + 1
      BY <2>1, <2>2, <3>2, FS_AddElement
    <3>4. turn[t].state.count = n
      BY <2>1, <3>1 DEF SaveCount, PatientInv, ReadsAreFresh
    <3>5. OrDefault(row)'.count = n + 1
      BY <2>4, <3>2, <3>4 DEF Held
    <3>6. \A u \in Turns : turn'[u].pc # "saveCount"
      <4>1. TurnStep(t) /\ Pending = {t}
        BY <3>1, TurnStepOfPending DEF TurnStep, PatientInv, OnePending
      <4>2. ASSUME NEW u \in Turns, turn'[u].pc = "saveCount" PROVE FALSE
        <5>1. CASE u = t
          <6>1. ReadCount(t)
            BY <4>1, <4>2, <5>1, OnlyReadCountReads
          <6>2. QED
            BY <3>1, <6>1 DEF ReadCount, SaveCount
        <5>2. CASE u # t
          <6>1. turn'[u] = turn[u]
            BY <4>1, <5>2, CountTypes, TurnStepStartsItsRun DEF TypeInv
          <6>2. u \in Pending
            BY <4>2, <6>1 DEF Pending, InFlight, Ended
          <6>3. QED
            BY <4>1, <5>2, <6>2
        <5>3. QED
          BY <5>1, <5>2
      <4>3. QED
        BY <4>2
    <3>7. QED
      BY <2>3, <3>3, <3>5, <3>6 DEF PatientInv, ReadsAreFresh, CountIsExact
  <2>7. QED
    BY <2>2, <2>5, <2>6, CountSteps
<1>3. QED
  BY <1>1, <1>2, TypeInvHolds, CountInvHolds, PTL DEF Spec

(* With one request at a time, every completed exchange is counted exactly  *)
(* once, whatever the background runs that overlap it write back.           *)
THEOREM CountIsExactHolds ==
  ASSUME MaxInFlight \in {0, 1}
  PROVE  Spec => []CountIsExact
<1>1. PatientInv => CountIsExact
  BY DEF PatientInv
<1>2. QED
  BY <1>1, PatientInvHolds, PTL

=============================================================================
