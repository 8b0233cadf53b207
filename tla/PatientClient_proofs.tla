------------------------ MODULE PatientClient_proofs ------------------------
(***************************************************************************)
(* The properties of SessionRuntime that hold of clients that leave at most *)
(* one request pending, for all values of the other constants: at most one  *)
(* conversation is active, a plan serves one turn, and the session          *)
(* implements ExchangeLedger.  Background runs of earlier turns still       *)
(* overlap the pending request.                                             *)
(*                                                                          *)
(* That the plan also was made for that turn needs more (Calm): a turn that *)
(* fails after its reply is stored is answered but never counted, without a *)
(* row the index of a turn comes from the stored messages, and a reset      *)
(* takes these away but not the row.                                        *)
(***************************************************************************)
EXTENDS SessionRuntime_proofs

-----------------------------------------------------------------------------
(* One active conversation. *)

(* What the request that opens a conversation knows of the active ones.     *)
OneActiveInv ==
  /\ \A c, d \in ActiveConvs : c = d
  /\ \A o \in Ops : op[o].pc = "closePrevious" => ActiveConvs \subseteq {op[o].previous}
  /\ \A o \in Ops : op[o].pc = "create" => ActiveConvs = {}

(* A step of a lifecycle request is one of a pending request, but for the   *)
(* deletions that a failed reset left behind, which move nothing.           *)
LEMMA OpStepOfPending ==
  ASSUME TypeInv, NEW o \in Ops, OpStep(o)
  PROVE  o \in Pending \/ \E c \in ConvIds : DeleteMessages(o, c)
BY DEF OpStep, FindActive, ClosePrevious, CreateConversation, ActivateAvatar,
       RunInitialGameMaster, OpenReturns, LoadConversation, EndConversation,
       ListConversations, DeleteConversations, ResetSession, OpFails, Pending, OpInFlight

(* Only a create makes a conversation active.                               *)
LEMMA OnlyCreateActivates ==
  ASSUME TypeInv, [Next]_vars, ~\E o \in Ops : CreateConversation(o)
  PROVE  ActiveConvs' \subseteq ActiveConvs
<1>1. conv \in [ConvIds -> Conversation]
  BY DEF TypeInv, StoreInv, StoreTypeOK
<1>2. CASE UNCHANGED conv
  BY <1>2 DEF ActiveConvs
<1>3. CASE \E c \in ConvIds : ClosesOne(c)
  BY <1>1, <1>3 DEF ClosesOne, CloseConv, ActiveConvs, Conversation
<1>4. CASE DeletesAll
  BY <1>4 DEF DeletesAll, ActiveConvs, AbsentConv
<1>5. CASE made' = made + 1
  <2>1. made \in Nat /\ MaxConversations \in Nat
    BY StoreAssumption DEF TypeInv, StoreInv, StoreTypeOK
  <2>2. made' # made
    BY <1>5, <2>1
  <2>3. FALSE
    BY <2>2, StepCases
       DEF Receive, TurnStep, LoadSession, LoadGmState, CountHistory, RereadGmState, ConsumePlan,
           SaveUserMessage, SaveAvatarMessage, Interrupt, TouchConversation, ClearNotes,
           ReadCount, SaveCount, CheckImplicitClose, ImplicitClose, ImplicitCloseFails,
           TurnFails, OpStep, FindActive, ClosePrevious, ActivateAvatar,
           RunInitialGameMaster, OpenReturns, LoadConversation, EndConversation,
           ListConversations, DeleteMessages, DeleteConversations, ResetSession, OpFails,
           RunStep, ReadState, ReadSession, SessionUnreadable, ModelAnswers, ApplyUnlocks,
           ApplyRouting, SavePlan, SaveNotes, RunFails, FinishRun, storeVars, vars
  <2>4. QED
    BY <2>3
<1>6. QED
  BY ConversationSteps, <1>2, <1>3, <1>4, <1>5 DEF AddsMessage, CreatesOne

(* How a request comes to close the active conversation, or to find none.   *)
LEMMA OpensSafely ==
  ASSUME TypeInv, OneActiveInv, NEW o \in Ops, OpStep(o), ~CreateConversation(o),
         ActiveConvs' \subseteq ActiveConvs
  PROVE  /\ op'[o].pc = "closePrevious" => ActiveConvs' \subseteq {op'[o].previous}
         /\ op'[o].pc = "create" => ActiveConvs' = {}
<1>1. op \in [Ops -> Op] /\ conv \in [ConvIds -> Conversation]
  BY DEF TypeInv, OpInv, OpTypeOK, StoreInv, StoreTypeOK
<1>2. ASSUME NEW pc, GotoOp(o, pc) PROVE op'[o].pc = pc
  BY <1>1, <1>2 DEF GotoOp, Op
<1>3. CASE FindActive(o)
  <2>1. CASE ActiveConvs = {}
    BY <1>1, <1>3, <2>1 DEF FindActive, Op
  <2>2. CASE ActiveConvs # {}
    <3>1. op' = [op EXCEPT ![o] = [@ EXCEPT !.pc = "closePrevious", !.previous = NewestActive]]
      BY <1>3, <2>2 DEF FindActive
    <3>2. op'[o].pc = "closePrevious" /\ op'[o].previous = NewestActive
      BY <1>1, <3>1 DEF Op
    <3>3. NewestActive \in ActiveConvs
      BY <2>2, NewestActiveType
    <3>4. QED
      BY <3>2, <3>3 DEF OneActiveInv
  <2>3. QED
    BY <2>1, <2>2
<1>4. CASE ClosePrevious(o)
  <2>1. op'[o].pc = "create" /\ ActiveConvs \subseteq {op[o].previous}
    BY <1>2, <1>4 DEF ClosePrevious, OneActiveInv
  <2>2. op[o].previous \notin ActiveConvs'
    BY <1>1, <1>4 DEF ClosePrevious, CloseConv, ActiveConvs, Conversation
  <2>3. QED
    BY <2>1, <2>2
<1>5. CASE \E c \in ConvIds : DeleteMessages(o, c)
  <2>1. op[o].pc \in {"deleteMessages", "failed"} /\ op'[o].pc = op[o].pc
    BY <1>1, <1>5 DEF DeleteMessages, Op
  <2>2. QED
    BY <2>1
<1>6. CASE OpFails(o)
  BY <1>1, <1>6 DEF OpFails, Op
<1>7. CASE ListConversations(o)
  BY <1>1, <1>7 DEF ListConversations, Op
<1>8. QED
  BY <1>2, <1>3, <1>4, <1>5, <1>6, <1>7
     DEF OpStep, ActivateAvatar, RunInitialGameMaster, OpenReturns, LoadConversation,
         EndConversation, DeleteConversations, ResetSession

LEMMA OneActiveInvHolds ==
  ASSUME MaxInFlight \in {0, 1}
  PROVE  Spec => []OneActiveInv
<1>1. Init => OneActiveInv
  BY DEF Init, StoreInit, OpInit, IdleOp, AbsentConv, ActiveConvs, OneActiveInv
<1>2. TypeInv /\ OnePending /\ OneActiveInv /\ [Next]_vars => OneActiveInv'
  <2> SUFFICES ASSUME TypeInv, OnePending, OneActiveInv, [Next]_vars PROVE OneActiveInv'
    OBVIOUS
  <2>1. op \in [Ops -> Op] /\ conv \in [ConvIds -> Conversation]
    BY DEF TypeInv, OpInv, OpTypeOK, StoreInv, StoreTypeOK
  <2>2. CASE \E o \in Ops : CreateConversation(o)
    <3>1. PICK o \in Ops : CreateConversation(o)
      BY <2>2
    <3>2. ActiveConvs = {}
      BY <3>1 DEF CreateConversation, OneActiveInv
    <3>3. ActiveConvs' \subseteq {made + 1}
      BY <2>1, <3>1, <3>2 DEF CreateConversation, ActiveConvs
    <3>4. op'[o].pc = "activate" /\ \A p \in Ops : p # o => op'[p] = op[p]
      BY <2>1, <3>1 DEF CreateConversation, Op
    <3>5. ASSUME NEW p \in Ops, p # o PROVE ~OpInFlight(p)
      BY <3>1, <3>5 DEF CreateConversation, OnePending, Pending, OpInFlight
    <3>6. QED
      BY <3>3, <3>4, <3>5 DEF OneActiveInv, OpInFlight
  <2>3. CASE ~\E o \in Ops : CreateConversation(o)
    <3>1. ActiveConvs' \subseteq ActiveConvs
      BY <2>3, OnlyCreateActivates
    <3>2. ASSUME NEW p \in Ops, op'[p] = op[p]
          PROVE  /\ op'[p].pc = "closePrevious" => ActiveConvs' \subseteq {op'[p].previous}
                 /\ op'[p].pc = "create" => ActiveConvs' = {}
      BY <3>1, <3>2 DEF OneActiveInv
    <3>3. CASE \E o \in Ops : OpStep(o)
      BY <2>3, <3>1, <3>2, <3>3, OpensSafely, OpStepTouchesItsOp DEF OneActiveInv
    <3>4. CASE \E o \in Ops : \/ \E k \in AllKinds, a \in Avatars : BeginOpen(o, k, a)
                              \/ \E c \in ConvIds : BeginEnd(o, c)
                              \/ BeginReset(o)
      <4>1. PICK o \in Ops : \/ \E k \in AllKinds, a \in Avatars : BeginOpen(o, k, a)
                             \/ \E c \in ConvIds : BeginEnd(o, c)
                             \/ BeginReset(o)
        BY <3>4
      <4>2. \A p \in Ops : p # o => op'[p] = op[p]
        BY <2>1, <4>1 DEF BeginOpen, BeginEnd, BeginReset
      <4>3. op'[o].pc \in {"findActive", "loadConv", "listConvs"}
        BY <2>1, <4>1 DEF BeginOpen, BeginEnd, BeginReset, Op
      <4>4. QED
        BY <3>1, <3>2, <4>2, <4>3 DEF OneActiveInv
    <3>5. CASE UNCHANGED op
      BY <3>1, <3>2, <3>5 DEF OneActiveInv
    <3>6. QED
      BY <3>3, <3>4, <3>5, StepCases DEF vars
  <2>4. QED
    BY <2>2, <2>3
<1>3. PatientInv => OnePending
  BY DEF PatientInv
<1>4. QED
  BY <1>1, <1>2, <1>3, TypeInvHolds, PatientInvHolds, PTL DEF Spec

(* With one request at a time, at most one conversation is active: starts,  *)
(* switches, ends and farewells close the one before they open another.     *)
THEOREM OneActiveConversationHolds ==
  ASSUME MaxInFlight \in {0, 1}
  PROVE  Spec => []OneActiveConversation
<1>1. OneActiveInv => OneActiveConversation
  <2> SUFFICES ASSUME OneActiveInv PROVE Cardinality(ActiveConvs) <= 1
    BY DEF OneActiveConversation
  <2>1. CASE ActiveConvs = {}
    BY <2>1, FS_EmptySet
  <2>2. CASE ActiveConvs # {}
    <3>1. PICK c \in ActiveConvs : TRUE
      BY <2>2
    <3>2. ActiveConvs = {c}
      BY <3>1 DEF OneActiveInv
    <3>3. QED
      BY <3>2, FS_Singleton
  <2>3. QED
    BY <2>1, <2>2
<1>2. QED
  BY <1>1, OneActiveInvHolds, PTL

-----------------------------------------------------------------------------
(* What the steps do to the plans, the turns' indices and the runs. *)

Same(t) ==
  /\ turn'[t].plan = turn[t].plan
  /\ turn'[t].conv = turn[t].conv
  /\ turn'[t].mode = turn[t].mode

Path == {<<"readSession", "readState">>, <<"readState", "countHistory">>,
         <<"saveUser", "askAvatar">>, <<"askAvatar", "touch">>, <<"touch", "clearNotes">>,
         <<"clearNotes", "readCount">>, <<"checkClose", "close">>}

Advances(t) ==
  /\ Same(t)
  /\ turn'[t].prior = turn[t].prior
  /\ turn'[t].state = turn[t].state
  /\ <<turn[t].pc, turn'[t].pc>> \in Path
  /\ turn'[t].pc = "countHistory" => row = NoRow
  /\ UNCHANGED <<row, run>>

Counts(t) ==
  /\ Same(t)
  /\ turn'[t].state = turn[t].state
  /\ turn[t].pc = "countHistory" /\ turn'[t].pc = "rereadState"
  /\ UNCHANGED <<row, run>>

(* The plan in hand is the stored one, and it applies; or there is none.    *)
Prepares(t) ==
  /\ Same(t)
  /\ \/ turn[t].pc = "readState" /\ row # NoRow /\ turn'[t].prior = row.count
     \/ turn[t].pc = "rereadState"
  /\ \/ /\ turn'[t].pc = "consume"
        /\ turn'[t].state = OrDefault(row)
        /\ OrDefault(row).plan # None
        /\ OrDefault(row).plan.consumed = None
        /\ OrDefault(row).plan.after = turn'[t].prior
     \/ turn'[t].pc = "saveUser" /\ turn'[t].state = turn[t].state
  /\ UNCHANGED <<row, run>>

Consumes(t) ==
  /\ turn[t].pc = "consume" /\ turn'[t].pc = "saveUser"
  /\ turn'[t].plan = turn[t].state.plan.by
  /\ turn'[t].conv = turn[t].conv
  /\ turn'[t].prior = turn[t].prior
  /\ turn'[t].state = DefaultState
  /\ \E new \in State :
       /\ row' = Save(row, new)
       /\ new.plan \in Plan
       /\ new.plan.by = turn[t].state.plan.by
       /\ new.plan.after = turn[t].state.plan.after
       /\ new.plan.consumed # None
  /\ UNCHANGED run

Rereads(t) ==
  /\ Same(t)
  /\ turn'[t].prior = turn[t].prior
  /\ turn[t].pc = "readCount" /\ turn'[t].pc = "saveCount"
  /\ turn'[t].state = OrDefault(row)
  /\ UNCHANGED <<row, run>>

CountsExchange(t) ==
  /\ SaveCount(t)
  /\ turn'[t].plan = turn[t].plan
  /\ turn'[t].state = DefaultState
  /\ \/ turn'[t].pc = "done"
     \/ turn'[t].pc = "checkClose" /\ Same(t) /\ turn'[t].prior = turn[t].prior
  /\ \E new \in State : row' = Save(row, new) /\ new.plan = turn[t].state.plan
  /\ UNCHANGED run \/ Dispatch(t, TurnIndex(t), turn[t].avatar)
  /\ turn'[t].pc = "checkClose" /\ turn[t].mode.streaming => UNCHANGED run

(* The turn ends, after the count or without one.                           *)
Ends(t) ==
  /\ turn'[t].plan = turn[t].plan
  /\ turn'[t].state = DefaultState
  /\ UNCHANGED row
  /\ \/ /\ turn[t].pc \in {"checkClose", "close"} /\ turn'[t].pc = "done"
        /\ \/ UNCHANGED run
           \/ turn[t].mode.streaming /\ Dispatch(t, TurnIndex(t), turn[t].avatar)
     \/ /\ turn[t].pc = "askAvatar" /\ turn'[t].pc = "interrupted"
        /\ UNCHANGED run
     \/ /\ TurnFails(t)
        /\ turn'[t].pc \in {"failed", "interrupted"}
        /\ UNCHANGED run

LEMMA TurnEffects ==
  ASSUME TypeInv, NEW t \in Turns, TurnStep(t)
  PROVE  /\ \A u \in Turns : u # t => turn'[u] = turn[u]
         /\ \/ Advances(t) \/ Counts(t) \/ Prepares(t) \/ Consumes(t) \/ Rereads(t)
            \/ CountsExchange(t) \/ Ends(t)
<1>1. turn \in [Turns -> Turn] /\ turn[t].state \in State /\ row \in State \cup {NoRow}
  BY CountTypes
<1>2. \A u \in Turns : u # t => turn'[u] = turn[u]
  BY <1>1, TurnStepStartsItsRun DEF TypeInv
<1>3. ASSUME NEW pc, GotoTurn(t, pc), <<turn[t].pc, pc>> \in Path \ {<<"readState", "countHistory">>},
             UNCHANGED <<row, run>>
      PROVE  Advances(t)
  BY <1>1, <1>3 DEF GotoTurn, Advances, Same, Turn, Path
<1>4. ASSUME NEW pc, EndTurn(t, pc)
      PROVE  turn'[t].plan = turn[t].plan /\ turn'[t].state = DefaultState /\ turn'[t].pc = pc
  BY <1>1, <1>4 DEF EndTurn, IdleTurn
<1>5. CASE LoadSession(t)
  BY <1>1, <1>5 DEF LoadSession, Advances, Same, Turn, Path, gmVars, storeVars
<1>6. ASSUME NEW s \in State, NEW p, turn' = [turn EXCEPT ![t] = Prepared(turn[t], s, p)],
             s = OrDefault(row), UNCHANGED <<row, run>>,
             \/ turn[t].pc = "readState" /\ row # NoRow /\ p = row.count
             \/ turn[t].pc = "rereadState" /\ p = turn[t].prior,
             p \in Nat
      PROVE  Prepares(t)
  <2>1. CASE PlanApplies(s.plan, turn[t].avatar, p + 1)
    <3>1. turn' = [turn EXCEPT ![t] = [@ EXCEPT !.state = s, !.prior = p, !.pc = "consume"]]
      BY <1>6, <2>1 DEF Prepared
    <3>2. s.plan # None /\ s.plan.consumed = None /\ s.plan.after = p
      <4>1. s.plan # None /\ s.plan.consumed = None /\ s.plan.after = p + 1 - 1
        BY <1>6, <2>1 DEF PlanApplies
      <4>2. QED
        BY <1>6, <4>1
    <3>3. /\ Same(t) /\ turn'[t].prior = p /\ turn'[t].pc = "consume"
          /\ turn'[t].state = s
      BY <1>1, <3>1 DEF Same, Turn
    <3>4. QED
      BY <1>6, <3>2, <3>3 DEF Prepares
  <2>2. CASE ~PlanApplies(s.plan, turn[t].avatar, p + 1)
    <3>1. turn' = [turn EXCEPT ![t] = [@ EXCEPT !.prior = p, !.pc = "saveUser",
                                               !.guidance = turn[t].notes]]
      BY <1>6, <2>2 DEF Prepared
    <3>2. /\ Same(t) /\ turn'[t].prior = p /\ turn'[t].pc = "saveUser"
          /\ turn'[t].state = turn[t].state
      BY <1>1, <3>1 DEF Same, Turn
    <3>3. QED
      BY <1>6, <3>2 DEF Prepares
  <2>3. QED
    BY <2>1, <2>2
<1>7. CASE LoadGmState(t)
  <2>1. CASE row = NoRow
    BY <1>1, <1>7, <2>1 DEF LoadGmState, Advances, Same, Turn, Path, gmVars, storeVars
  <2>2. CASE row # NoRow
    <3>1. row \in State /\ row.count \in Nat /\ OrDefault(row) = row
      BY <1>1, <2>2 DEF State, OrDefault
    <3>2. /\ turn' = [turn EXCEPT ![t] = Prepared(turn[t], row, row.count)]
          /\ turn[t].pc = "readState" /\ UNCHANGED <<row, run>>
      BY <1>7, <2>2 DEF LoadGmState, gmVars, storeVars
    <3>3. QED
      BY <1>2, <1>6, <2>2, <3>1, <3>2
  <2>3. QED
    BY <2>1, <2>2
<1>8. CASE CountHistory(t)
  BY <1>1, <1>8 DEF CountHistory, Counts, Same, Turn, gmVars, storeVars
<1>9. CASE RereadGmState(t)
  <2>1. OrDefault(row) \in State /\ turn[t].prior \in Nat
    BY <1>1, CountTypes DEF Turn
  <2>2. /\ turn' = [turn EXCEPT ![t] = Prepared(turn[t], OrDefault(row), turn[t].prior)]
        /\ turn[t].pc = "rereadState" /\ UNCHANGED <<row, run>>
    BY <1>9 DEF RereadGmState, gmVars, storeVars
  <2>3. QED
    BY <1>2, <1>6, <2>1, <2>2
<1>10. CASE ConsumePlan(t)
  <2> DEFINE new == ConsumedBy(turn[t].state, TurnIndex(t))
  <2>1. turn[t].state.plan \in Plan /\ TurnIndex(t) \in Nat /\ None \notin Nat
    BY <1>1, <1>10, DistinctIds DEF ConsumePlan, TypeInv, TurnInv, TurnHasData, TurnIndex, Turn
  <2>2. /\ new \in State /\ new.plan \in Plan
        /\ new.plan.by = turn[t].state.plan.by /\ new.plan.after = turn[t].state.plan.after
        /\ new.plan.consumed # None
    BY <1>1, <2>1 DEF ConsumedBy, State, Plan
  <2>3. row' = Save(row, new) /\ UNCHANGED run
    BY <1>10 DEF ConsumePlan, gmVars
  <2> HIDE DEF new
  <2>4. /\ turn[t].pc = "consume" /\ turn'[t].pc = "saveUser"
        /\ turn'[t].plan = turn[t].state.plan.by
        /\ turn'[t].conv = turn[t].conv
        /\ turn'[t].prior = turn[t].prior
        /\ turn'[t].state = DefaultState
    BY <1>1, <1>10 DEF ConsumePlan, Turn
  <2>5. QED
    BY <1>2, <2>2, <2>3, <2>4 DEF Consumes
<1>11. CASE SaveUserMessage(t) \/ SaveAvatarMessage(t) \/ TouchConversation(t) \/ ClearNotes(t)
  <2>1. \E pc : /\ GotoTurn(t, pc)
                /\ <<turn[t].pc, pc>> \in Path \ {<<"readState", "countHistory">>}
    BY <1>11 DEF SaveUserMessage, SaveAvatarMessage, TouchConversation, ClearNotes, Path
  <2>2. UNCHANGED <<row, run>>
    BY <1>11 DEF SaveUserMessage, SaveAvatarMessage, TouchConversation, ClearNotes, gmVars,
                 storeVars
  <2>3. QED
    BY <1>2, <1>3, <2>1, <2>2
<1>12. CASE Interrupt(t)
  BY <1>2, <1>4, <1>12 DEF Interrupt, Ends, gmVars, storeVars
<1>13. CASE ReadCount(t)
  BY <1>1, <1>2, <1>13 DEF ReadCount, Rereads, Same, Turn, gmVars, storeVars
<1>14. CASE SaveCount(t)
  <2>1. \E new \in State : row' = Save(row, new) /\ new.plan = turn[t].state.plan
    <3>1. Counted(turn[t].state) \in State /\ Counted(turn[t].state).plan = turn[t].state.plan
      BY <1>1 DEF Counted, State
    <3>2. QED
      BY <1>14, <3>1 DEF SaveCount
  <2>2. CASE turn[t].mode.bye
    <3>1. turn' = [turn EXCEPT ![t] = [@ EXCEPT !.pc = "checkClose", !.state = DefaultState]]
      BY <1>14, <2>2 DEF SaveCount
    <3>2. /\ turn'[t].pc = "checkClose" /\ Same(t) /\ turn'[t].prior = turn[t].prior
          /\ turn'[t].state = DefaultState
      BY <1>1, <3>1 DEF Same, Turn
    <3>3. /\ UNCHANGED run \/ Dispatch(t, TurnIndex(t), turn[t].avatar)
          /\ turn[t].mode.streaming => UNCHANGED run
      BY <1>14, <2>2 DEF SaveCount, StartGameMaster, gmVars
    <3>4. QED
      BY <1>2, <1>14, <2>1, <3>2, <3>3 DEF CountsExchange, Same
  <2>3. CASE ~turn[t].mode.bye
    <3>1. EndTurn(t, "done") /\ Dispatch(t, TurnIndex(t), turn[t].avatar)
      BY <1>14, <2>3 DEF SaveCount, StartGameMaster
    <3>2. QED
      BY <1>2, <1>4, <1>14, <2>1, <3>1 DEF CountsExchange
  <2>4. QED
    BY <2>2, <2>3
<1>15. CASE CheckImplicitClose(t) \/ ImplicitClose(t) \/ ImplicitCloseFails(t)
  <2>1. turn[t].pc \in {"checkClose", "close"} /\ UNCHANGED row
    BY <1>15 DEF CheckImplicitClose, ImplicitClose, ImplicitCloseFails, storeVars
  <2>2. CASE GotoTurn(t, "close")
    <3>1. CheckImplicitClose(t) /\ turn[t].pc = "checkClose" /\ UNCHANGED run
      <4>1. turn'[t].pc = "close"
        BY <1>1, <2>2 DEF GotoTurn, Turn
      <4>2. ~ReturnTurn(t)
        BY <1>4, <4>1 DEF ReturnTurn
      <4>3. QED
        BY <1>15, <4>2 DEF CheckImplicitClose, ImplicitClose, ImplicitCloseFails, gmVars
    <3>2. QED
      BY <1>2, <1>3, <2>1, <2>2, <3>1 DEF Path
  <2>3. CASE ReturnTurn(t)
    BY <1>2, <1>4, <2>1, <2>3 DEF ReturnTurn, StartGameMaster, Ends, gmVars
  <2>4. QED
    BY <1>15, <2>2, <2>3 DEF CheckImplicitClose, ImplicitClose, ImplicitCloseFails
<1>16. CASE TurnFails(t)
  BY <1>2, <1>4, <1>16 DEF TurnFails, Ends, gmVars, storeVars
<1>17. QED
  BY <1>2, <1>5, <1>7, <1>8, <1>9, <1>10, <1>11, <1>12, <1>13, <1>14, <1>15, <1>16 DEF TurnStep

(* A run saves its plan once, and only a decision in progress leads there.  *)
SavesPlan(r) ==
  /\ SavePlan(r)
  /\ run'[r].pc = "saveNotes"
  /\ \E new \in State :
       /\ row' = Save(row, new)
       /\ new.plan \in Plan
       /\ new.plan.by = r
       /\ new.plan.after = run[r].turnIndex
       /\ new.plan.consumed = None

Works(r) ==
  /\ UNCHANGED row
  /\ run'[r].pc # "idle"
  /\ run'[r].pc \in Deciding => run[r].pc \in Deciding /\ run'[r].turnIndex = run[r].turnIndex
  /\ run'[r].pc \in {"saveNotes", "finish", "done"} =>
       run[r].pc \in {"saveNotes", "finish", "done"} \/ r \in FaultyRuns

LEMMA RunEffects ==
  ASSUME TypeInv, NEW r \in RunIds, RunStep(r)
  PROVE  /\ \A q \in RunIds : q # r => run'[q] = run[q]
         /\ run[r].pc # "idle"
         /\ SavesPlan(r) \/ Works(r)
<1>1. run \in [RunIds -> Run] /\ run[r] \in Run /\ run[r].state \in State
  BY CountTypes
<1>2. run[r].pc # "idle"
  BY DEF RunStep, ReadState, ReadSession, SessionUnreadable, ModelAnswers, ApplyUnlocks,
         ApplyRouting, SavePlan, SaveNotes, RunFails, FinishRun, Running
<1>3. \E new : run' = [run EXCEPT ![r] = new]
  BY DEF RunStep, ReadState, ReadSession, SessionUnreadable, ModelAnswers, ApplyUnlocks,
         ApplyRouting, SavePlan, SaveNotes, RunFails, FinishRun, Goto
<1>4. \A q \in RunIds : q # r => run'[q] = run[q]
  BY <1>1, <1>3
<1>5. ASSUME NEW pc, run' = [run EXCEPT ![r] = Spent(pc)]
      PROVE  run'[r].pc = pc
  BY <1>1, <1>5 DEF Spent, IdleRun
<1>6. ASSUME NEW pc, Goto(r, pc)
      PROVE  run'[r].pc = pc /\ run'[r].turnIndex = run[r].turnIndex
  BY <1>1, <1>6 DEF Goto, Run
<1>7. CASE SavePlan(r)
  <2> DEFINE new == [Reduced(run[r].state, run[r].out.increase) EXCEPT !.plan = NextPlan(r)]
  <2>1. NextPlan(r) \in Plan
    BY <1>1, <1>7, NextPlanType DEF SavePlan, Deciding, RunHasAvatar, TypeInv, RunInv
  <2>2. Reduced(run[r].state, run[r].out.increase) \in State
    BY <1>1, ReducedType DEF Run, Output
  <2>3. new \in State /\ new.plan = NextPlan(r)
    BY <2>1, <2>2 DEF State
  <2>4. row' = Save(row, new) /\ run' = [run EXCEPT ![r] = Spent("saveNotes")]
    BY <1>7 DEF SavePlan
  <2> HIDE DEF new
  <2>5. new.plan.by = r /\ new.plan.after = run[r].turnIndex /\ new.plan.consumed = None
    BY <2>3 DEF NextPlan
  <2>6. run'[r].pc = "saveNotes"
    BY <1>5, <2>4
  <2>7. QED
    BY <1>2, <1>4, <1>7, <2>1, <2>3, <2>4, <2>5, <2>6 DEF SavesPlan
<1>8. CASE ~SavePlan(r)
  <2>1. UNCHANGED row
    BY <1>8 DEF RunStep, ReadState, ReadSession, SessionUnreadable, ModelAnswers, ApplyUnlocks,
                ApplyRouting, SaveNotes, RunFails, FinishRun, storeVars
  <2>2. CASE ReadState(r)
    <3>1. run'[r].pc = "readSession" /\ run'[r].turnIndex = run[r].turnIndex
      BY <1>1, <2>2 DEF ReadState, Run
    <3>2. QED
      BY <1>2, <1>4, <2>1, <2>2, <3>1 DEF Works, ReadState, Deciding
  <2>3. CASE ReadSession(r)
    <3>1. run'[r].pc = "askModel" /\ run'[r].turnIndex = run[r].turnIndex
      BY <1>1, <2>3 DEF ReadSession, Run
    <3>2. QED
      BY <1>2, <1>4, <2>1, <2>3, <3>1 DEF Works, ReadSession, Deciding
  <2>4. CASE ModelAnswers(r)
    <3>1. PICK out \in Outputs :
            run' = [run EXCEPT ![r] = [@ EXCEPT
                      !.out = out, !.pc = AfterAnswer(run[r].loaded, run[r].known, out)]]
      BY <2>4 DEF ModelAnswers
    <3>2. AfterAnswer(run[r].loaded, run[r].known, out) \in {"unlock", "route", "savePlan"}
      BY DEF AfterAnswer, AfterUnlock
    <3>3. /\ run'[r].pc \in {"unlock", "route", "savePlan"}
          /\ run'[r].turnIndex = run[r].turnIndex
      BY <1>1, <3>1, <3>2 DEF Run
    <3>4. QED
      BY <1>2, <1>4, <2>1, <2>4, <3>3 DEF Works, ModelAnswers, Deciding
  <2>5. CASE SessionUnreadable(r) \/ ApplyUnlocks(r) \/ ApplyRouting(r)
    <3>1. run[r].pc \in Deciding
      BY <2>5 DEF SessionUnreadable, ApplyUnlocks, ApplyRouting, Deciding
    <3>2. /\ run'[r].pc \in {"askModel", "route", "savePlan"}
          /\ run'[r].turnIndex = run[r].turnIndex
      BY <1>6, <2>5 DEF SessionUnreadable, ApplyUnlocks, ApplyRouting, AfterUnlock
    <3>3. QED
      BY <1>2, <1>4, <2>1, <3>1, <3>2 DEF Works, Deciding
  <2>6. CASE SaveNotes(r) \/ FinishRun(r)
    <3>1. run[r].pc \in {"saveNotes", "finish"} /\ run'[r].pc \in {"finish", "done"}
      BY <1>5, <1>6, <2>6 DEF SaveNotes, FinishRun
    <3>2. QED
      BY <1>2, <1>4, <2>1, <3>1 DEF Works, Deciding
  <2>7. CASE RunFails(r)
    <3>1. run'[r].pc = "finish" /\ r \in FaultyRuns
      BY <1>5, <2>7 DEF RunFails
    <3>2. QED
      BY <1>2, <1>4, <2>1, <3>1 DEF Works, Deciding
  <2>8. QED
    BY <1>8, <2>2, <2>3, <2>4, <2>5, <2>6, <2>7 DEF RunStep
<1>9. QED
  BY <1>7, <1>8

(* A lifecycle request leaves the row alone and starts its own run only.    *)
LEMMA OpEffects ==
  ASSUME TypeInv, NEW o \in Ops, OpStep(o)
  PROVE  /\ UNCHANGED row
         /\ \/ UNCHANGED run
            \/ /\ op[o].pc = "runInitial" /\ op'[o].pc = "awaitInitial"
               /\ Dispatch(o, 0, op[o].avatar)
<1>1. op \in [Ops -> Op]
  BY DEF TypeInv, OpInv, OpTypeOK
<1>2. CASE RunInitialGameMaster(o)
  BY <1>1, <1>2 DEF RunInitialGameMaster, GotoOp, Op, storeVars
<1>3. CASE ~RunInitialGameMaster(o)
  BY <1>3
     DEF OpStep, FindActive, ClosePrevious, CreateConversation, ActivateAvatar,
         OpenReturns, LoadConversation, EndConversation, ListConversations, DeleteMessages,
         DeleteConversations, ResetSession, OpFails, gmVars, storeVars
<1>4. QED
  BY <1>2, <1>3

LEMMA DispatchEffects ==
  ASSUME TypeInv, NEW q \in RunIds, NEW i, NEW a, Dispatch(q, i, a)
  PROVE  /\ \A r \in RunIds : r # q => run'[r] = run[r]
         /\ run'[q].pc = "readState" /\ run'[q].turnIndex = i
BY CountTypes DEF Dispatch, Run

-----------------------------------------------------------------------------
(* A run is started once. *)

(* The run of a turn is started after its count, that of a stream that may  *)
(* close its conversation at its end; the run of an opening at its end.     *)
StartsOnce ==
  /\ \A t \in Turns : run[t].pc # "idle" =>
       CountedTurn(t) /\ (turn[t].pc \in {"checkClose", "close"} => ~turn[t].mode.streaming)
  /\ \A o \in Ops : op[o].pc \in Opening \cup {"idle"} => run[o].pc = "idle"

LEMMA StartsOnceHolds == Spec => []StartsOnce
<1>1. Init => StartsOnce
  BY DEF Init, GmInit, TurnInit, OpInit, IdleRun, IdleTurn, IdleOp, StartsOnce, RunIds
<1>2. TypeInv /\ StartsOnce /\ [Next]_vars => StartsOnce'
  <2> SUFFICES ASSUME TypeInv, StartsOnce, [Next]_vars PROVE StartsOnce'
    OBVIOUS
  <2>1. /\ Turns \subseteq RunIds /\ Ops \subseteq RunIds /\ Turns \cap Ops = {}
        /\ turn \in [Turns -> Turn] /\ op \in [Ops -> Op] /\ run \in [RunIds -> Run]
    BY DistinctIds DEF RunIds, TypeInv, TurnInv, TurnTypeOK, OpInv, OpTypeOK, RunInv, GmTypeOK
  <2>2. ASSUME NEW t \in Turns, TurnStep(t), UNCHANGED op PROVE StartsOnce'
    <3>1. \A r \in RunIds : r # t => run'[r] = run[r]
      BY <2>1, <2>2, DispatchEffects, TurnStepStartsRun
    <3>2. \A u \in Turns : u # t => turn'[u] = turn[u]
      BY <2>2, TurnEffects
    <3>3. run'[t].pc # "idle" =>
            CountedTurn(t)' /\ (turn'[t].pc \in {"checkClose", "close"} => ~turn'[t].mode.streaming)
      <4>1. CASE Advances(t)
        BY <4>1 DEF Advances, Same, Path, StartsOnce, CountedTurn
      <4>2. CASE Counts(t) \/ Prepares(t) \/ Consumes(t) \/ Rereads(t)
        BY <4>2 DEF Counts, Prepares, Consumes, Rereads, StartsOnce, CountedTurn
      <4>3. CASE CountsExchange(t)
        <5>1. run[t].pc = "idle"
          BY <4>3 DEF CountsExchange, SaveCount, StartsOnce, CountedTurn
        <5>2. QED
          BY <4>3, <5>1 DEF CountsExchange, Same, CountedTurn
      <4>4. CASE Ends(t)
        BY <4>4 DEF Ends, TurnFails, StartsOnce, CountedTurn
      <4>5. QED
        BY <2>2, <4>1, <4>2, <4>3, <4>4, TurnEffects
    <3>4. QED
      BY <2>1, <2>2, <3>1, <3>2, <3>3 DEF StartsOnce, CountedTurn
  <2>3. ASSUME NEW o \in Ops, OpStep(o), UNCHANGED turn PROVE StartsOnce'
    <3>1. \A r \in RunIds : r # o => run'[r] = run[r]
      BY <2>1, <2>3, DispatchEffects, OpEffects
    <3>2. \A p \in Ops : p # o => op'[p] = op[p]
      BY <2>3, OpStepTouchesItsOp
    <3>3. op'[o].pc \in Opening \cup {"idle"} => op[o].pc \in Opening \cup {"idle"}
      <4>1. ASSUME NEW pc, GotoOp(o, pc) PROVE op'[o].pc = pc
        BY <2>1, <4>1 DEF GotoOp, Op
      <4>2. CASE \/ FindActive(o) \/ ClosePrevious(o) \/ CreateConversation(o)
                 \/ ActivateAvatar(o) \/ RunInitialGameMaster(o)
        BY <4>2 DEF FindActive, ClosePrevious, CreateConversation, ActivateAvatar,
                    RunInitialGameMaster, Opening
      <4>3. CASE \/ OpenReturns(o) \/ LoadConversation(o) \/ EndConversation(o)
                 \/ DeleteConversations(o) \/ ResetSession(o)
        BY <4>1, <4>3 DEF OpenReturns, LoadConversation, EndConversation, DeleteConversations,
                          ResetSession, Opening
      <4>4. CASE ListConversations(o) \/ OpFails(o) \/ \E c \in ConvIds : DeleteMessages(o, c)
        <5>1. CASE ListConversations(o)
          BY <2>1, <5>1 DEF ListConversations, Opening, Op
        <5>2. CASE OpFails(o)
          BY <2>1, <5>2 DEF OpFails, Opening, Op
        <5>3. CASE \E c \in ConvIds : DeleteMessages(o, c)
          BY <2>1, <5>3 DEF DeleteMessages, Opening, Op
        <5>4. QED
          BY <4>4, <5>1, <5>2, <5>3
      <4>5. QED
        BY <2>3, <4>2, <4>3, <4>4 DEF OpStep
    <3>4. op'[o].pc \in Opening \cup {"idle"} => run'[o].pc = "idle"
      <4>1. CASE UNCHANGED run
        BY <3>3, <4>1 DEF StartsOnce
      <4>2. CASE op'[o].pc = "awaitInitial"
        BY <4>2 DEF Opening
      <4>3. QED
        BY <2>3, <4>1, <4>2, OpEffects
    <3>5. QED
      BY <2>1, <2>3, <3>1, <3>2, <3>4 DEF StartsOnce, CountedTurn
  <2>4. ASSUME NEW r \in RunIds, RunStep(r), UNCHANGED <<turn, op>> PROVE StartsOnce'
    <3>1. \A q \in RunIds : run'[q].pc # "idle" => run[q].pc # "idle"
      BY <2>4, RunEffects
    <3>2. QED
      BY <2>1, <2>4, <3>1 DEF StartsOnce, CountedTurn
  <2>5. ASSUME NEW t \in Turns, NEW c \in ConvIds, NEW m \in Modes, Receive(t, c, m), UNCHANGED op
        PROVE  StartsOnce'
    <3>1. turn[t].pc = "idle" /\ run' = run /\ \A u \in Turns : u # t => turn'[u] = turn[u]
      BY <2>1, <2>5 DEF Receive, gmVars
    <3>2. run[t].pc = "idle"
      BY <3>1 DEF StartsOnce, CountedTurn
    <3>3. QED
      BY <2>5, <3>1, <3>2 DEF StartsOnce, CountedTurn
  <2>6. ASSUME NEW o \in Ops, UNCHANGED <<turn, gmVars, storeVars>>,
               \/ \E k \in AllKinds, a \in Avatars : BeginOpen(o, k, a)
               \/ \E c \in ConvIds : BeginEnd(o, c)
               \/ BeginReset(o)
        PROVE  StartsOnce'
    <3>1. op[o].pc = "idle" /\ \A p \in Ops : p # o => op'[p] = op[p]
      BY <2>1, <2>6 DEF BeginOpen, BeginEnd, BeginReset
    <3>2. QED
      BY <2>6, <3>1 DEF StartsOnce, CountedTurn, gmVars
  <2>7. QED
    BY <2>2, <2>3, <2>4, <2>5, <2>6, StepCases DEF vars, StartsOnce, CountedTurn
<1>3. QED
  BY <1>1, <1>2, TypeInvHolds, PTL DEF Spec

-----------------------------------------------------------------------------
(* A plan is used once. *)

Stored == OrDefault(row).plan

(* A plan not marked as consumed was consumed by no turn.                   *)
Unused(plan) == plan # None /\ plan.consumed = None => \A t \in Turns : turn[t].plan # plan.by

(* A run's plan is always said to follow the same exchange.                 *)
SameOrigin(p, q) == p # None /\ q # None /\ p.by = q.by => p.after = q.after

(* Before a run saves its plan, nobody holds one of it.                     *)
NotSaved(r) ==
  /\ Stored # None => Stored.by # r
  /\ \A t \in Turns : turn[t].state.plan # None => turn[t].state.plan.by # r
  /\ \A t \in Turns : turn[t].plan # r

UsedInv ==
  /\ \A t \in Turns : turn[t].pc \notin {"consume", "saveCount"} => turn[t].state = DefaultState
  /\ \A t \in Turns : turn[t].pc = "consume" => turn[t].state.plan.consumed = None
  /\ PlanIsUsedOnce
  /\ Unused(Stored)
  /\ \A t \in Turns : Unused(turn[t].state.plan)
  /\ \A t \in Turns : SameOrigin(Stored, turn[t].state.plan)
  /\ \A r \in RunIds : run[r].pc \in Deciding \cup {"idle"} => NotSaved(r)

(* The upsert leaves the plan it finds or the one it is given, and the one  *)
(* it finds only if that follows a later exchange.                          *)
LEMMA SavedPlan ==
  ASSUME NEW old \in State \cup {NoRow}, NEW new \in State
  PROVE  \/ OrDefault(Save(old, new)).plan = new.plan
         \/ /\ OrDefault(Save(old, new)).plan = OrDefault(old).plan
            /\ new.plan = None \/ OrDefault(old).plan.after > new.plan.after
<1>1. Save(old, new) \in State /\ NoRow \notin State
  BY SaveType, SentinelsAreNotData
<1>2. OrDefault(Save(old, new)) = Save(old, new)
  BY <1>1 DEF OrDefault
<1>3. CASE old = NoRow
  BY <1>2, <1>3 DEF Save
<1>4. CASE old # NoRow
  <2>1. OrDefault(old) = old /\ Save(old, new).plan = MergePlan(old.plan, new.plan)
    BY <1>4 DEF OrDefault, Save
  <2>2. QED
    BY <1>2, <2>1 DEF MergePlan
<1>5. QED
  BY <1>3, <1>4

LEMMA PlanTypes ==
  ASSUME TypeInv
  PROVE  /\ Stored \in Plan \cup {None}
         /\ \A t \in Turns : turn[t].state.plan \in Plan \cup {None}
         /\ \A t \in Turns : turn[t].plan \in RunIds \cup {None}
         /\ None \notin RunIds
         /\ DefaultState.plan = None
BY CountTypes, DistinctIds DEF Stored, State, Turn, RunIds, DefaultState

(* With one request pending, only the turn that takes a step may hold a row *)
(* it read.                                                                 *)
LEMMA OnlyOneHolds ==
  ASSUME TypeInv, OnePending, UsedInv, NEW t \in Turns, TurnStep(t)
  PROVE  \A u \in Turns : u # t => turn[u].state = DefaultState
<1>1. Pending = {t}
  BY TurnStepOfPending DEF OnePending
<1>2. \A u \in Turns : turn[u].pc \in {"consume", "saveCount"} => u \in Pending
  BY DEF Pending, InFlight, Ended
<1>3. QED
  BY <1>1, <1>2 DEF UsedInv

(* A turn that holds nothing of the row, or what it has just read of it.    *)
LEMMA UsedKept ==
  ASSUME TypeInv, UsedInv, NEW t \in Turns, UNCHANGED row,
         \A u \in Turns : u # t => turn'[u] = turn[u],
         turn'[t].plan = turn[t].plan,
         turn'[t].state \in {DefaultState, OrDefault(row)},
         turn'[t].pc \notin {"consume", "saveCount"} => turn'[t].state = DefaultState,
         turn'[t].pc = "consume" => turn'[t].state.plan.consumed = None,
         \A r \in RunIds : run'[r].pc \in Deciding \cup {"idle"} => run[r].pc \in Deciding \cup {"idle"}
  PROVE  UsedInv'
<1>1. Stored' = Stored /\ DefaultState.plan = None
  BY PlanTypes DEF Stored
<1>2. turn'[t].state.plan = None \/ turn'[t].state.plan = Stored
  BY <1>1 DEF Stored
<1>3. \A u \in Turns : turn'[u].plan = turn[u].plan
  OBVIOUS
<1>4. Unused(Stored)' /\ PlanIsUsedOnce'
  BY <1>1, <1>3 DEF UsedInv, Unused, PlanIsUsedOnce
<1>5. \A u \in Turns : Unused(turn[u].state.plan)'
  BY <1>2, <1>3 DEF UsedInv, Unused
<1>6. \A u \in Turns : SameOrigin(Stored, turn[u].state.plan)'
  BY <1>1, <1>2 DEF UsedInv, SameOrigin
<1>7. ASSUME NEW r \in RunIds, run'[r].pc \in Deciding \cup {"idle"} PROVE NotSaved(r)'
  BY <1>1, <1>2, <1>3, <1>7 DEF UsedInv, NotSaved
<1>8. QED
  BY <1>4, <1>5, <1>6, <1>7 DEF UsedInv

(* The turn consumes the plan it holds, which nobody used.                  *)
LEMMA UsedByConsume ==
  ASSUME TypeInv, OnePending, UsedInv, NEW t \in Turns, TurnStep(t), Consumes(t),
         \A u \in Turns : u # t => turn'[u] = turn[u]
  PROVE  UsedInv'
<1> DEFINE p == turn[t].state.plan
<1>1. PICK new \in State :
        /\ row' = Save(row, new)
        /\ new.plan \in Plan /\ new.plan.by = p.by /\ new.plan.after = p.after
        /\ new.plan.consumed # None
  BY DEF Consumes
<1>2. /\ p \in Plan /\ p # None /\ p.consumed = None
      /\ \A u \in Turns : turn[u].plan # p.by
      /\ p.by \in RunIds /\ None \notin RunIds
      /\ SameOrigin(Stored, p)
  BY PlanTypes, SentinelsAreNotData
     DEF Consumes, UsedInv, Unused, TypeInv, TurnInv, TurnHasData, Plan
<1>3. turn'[t].plan = p.by /\ turn'[t].state = DefaultState /\ turn'[t].pc = "saveUser"
  BY DEF Consumes
<1>4. \/ Stored' = new.plan
      \/ Stored' = Stored /\ Stored \in Plan \cup {None} /\ Stored.after > p.after
  BY <1>1, CountTypes, PlanTypes, SavedPlan, SentinelsAreNotData DEF Stored
<1>5. new.plan # None /\ p.after \in Nat
  BY <1>1, <1>2, SentinelsAreNotData DEF Plan
<1>6. \A u \in Turns : turn'[u].state.plan = None
  BY <1>3, OnlyOneHolds, PlanTypes
<1>7. PlanIsUsedOnce'
  BY <1>2, <1>3 DEF UsedInv, PlanIsUsedOnce
<1>8. Unused(Stored)'
  <2>1. CASE Stored' = new.plan
    BY <1>1, <2>1 DEF Unused
  <2>2. CASE Stored' = Stored /\ Stored \in Plan \cup {None} /\ Stored.after > p.after
    <3>1. Stored # None => Stored.by # p.by
      BY <1>2, <1>5, <2>2 DEF SameOrigin
    <3>2. QED
      BY <1>3, <2>2, <3>1 DEF UsedInv, Unused
  <2>3. QED
    BY <1>4, <2>1, <2>2
<1>9. ASSUME NEW r \in RunIds, run'[r].pc \in Deciding \cup {"idle"} PROVE NotSaved(r)'
  <2>1. NotSaved(r)
    BY <1>9 DEF UsedInv, Consumes
  <2>2. p.by # r
    BY <1>2, <2>1 DEF NotSaved
  <2>3. QED
    BY <1>1, <1>3, <1>4, <1>6, <2>1, <2>2 DEF NotSaved
<1>10. QED
  BY <1>3, <1>6, <1>7, <1>8, <1>9 DEF UsedInv, Unused, SameOrigin

(* The count is written back with the plan that was read with it.           *)
LEMMA UsedByCount ==
  ASSUME TypeInv, StartsOnce, OnePending, UsedInv, NEW t \in Turns, TurnStep(t),
         CountsExchange(t), \A u \in Turns : u # t => turn'[u] = turn[u]
  PROVE  UsedInv'
<1> DEFINE p == turn[t].state.plan
<1>1. PICK new \in State : row' = Save(row, new) /\ new.plan = p
  BY DEF CountsExchange
<1>2. /\ turn'[t].plan = turn[t].plan /\ turn'[t].state = DefaultState
      /\ turn'[t].pc \in {"done", "checkClose"}
  BY DEF CountsExchange
<1>3. Stored' = p \/ Stored' = Stored
  BY <1>1, CountTypes, SavedPlan DEF Stored
<1>4. /\ \A u \in Turns : turn'[u].plan = turn[u].plan
      /\ \A u \in Turns : turn'[u].state.plan = None
  BY <1>2, OnlyOneHolds, PlanTypes
<1>5. Unused(p) /\ Unused(Stored) /\ PlanIsUsedOnce
  BY DEF UsedInv
<1>6. Unused(Stored)' /\ PlanIsUsedOnce'
  BY <1>3, <1>4, <1>5 DEF Unused, PlanIsUsedOnce
<1>7. \A r \in RunIds : run'[r].pc \in Deciding \cup {"idle"} => run[r].pc \in Deciding \cup {"idle"}
  <2>1. run[t].pc = "idle" /\ t \in RunIds
    BY DEF CountsExchange, SaveCount, StartsOnce, CountedTurn, RunIds
  <2>2. QED
    BY <2>1, DispatchEffects DEF CountsExchange
<1>8. ASSUME NEW r \in RunIds, run'[r].pc \in Deciding \cup {"idle"} PROVE NotSaved(r)'
  <2>1. NotSaved(r)
    BY <1>7, <1>8 DEF UsedInv
  <2>2. QED
    BY <1>3, <1>4, <2>1 DEF NotSaved
<1>9. QED
  BY <1>2, <1>4, <1>6, <1>8, OnlyOneHolds DEF UsedInv, Unused, SameOrigin

(* A run saves a plan that nobody has seen.                                 *)
LEMMA UsedByRun ==
  ASSUME TypeInv, UsedInv, NEW r \in RunIds, RunStep(r), UNCHANGED turn
  PROVE  UsedInv'
<1>1. /\ \A q \in RunIds : q # r => run'[q] = run[q]
      /\ SavesPlan(r) \/ Works(r)
  BY RunEffects
<1>2. CASE Works(r)
  <2>1. \A q \in RunIds : run'[q].pc \in Deciding \cup {"idle"} => run[q].pc \in Deciding \cup {"idle"}
    BY <1>1, <1>2 DEF Works
  <2>2. Stored' = Stored
    BY <1>2 DEF Works, Stored
  <2>3. QED
    BY <2>1, <2>2 DEF UsedInv, PlanIsUsedOnce, Unused, SameOrigin, NotSaved
<1>3. CASE SavesPlan(r)
  <2>1. PICK new \in State :
          /\ row' = Save(row, new)
          /\ new.plan \in Plan /\ new.plan.by = r
    BY <1>3 DEF SavesPlan
  <2>2. NotSaved(r) /\ run'[r].pc = "saveNotes"
    BY <1>3 DEF SavesPlan, SavePlan, UsedInv, Deciding
  <2>3. Stored' = new.plan \/ Stored' = Stored
    BY <2>1, CountTypes, SavedPlan DEF Stored
  <2>4. Unused(Stored)' /\ \A t \in Turns : SameOrigin(Stored, turn[t].state.plan)'
    BY <2>1, <2>2, <2>3 DEF UsedInv, NotSaved, Unused, SameOrigin
  <2>5. ASSUME NEW q \in RunIds, run'[q].pc \in Deciding \cup {"idle"} PROVE NotSaved(q)'
    <3>1. q # r
      BY <2>2, <2>5 DEF Deciding
    <3>2. NotSaved(q)
      BY <1>1, <2>5, <3>1 DEF UsedInv
    <3>3. QED
      BY <2>1, <2>3, <3>1, <3>2 DEF NotSaved
  <2>6. QED
    BY <2>4, <2>5 DEF UsedInv, PlanIsUsedOnce, Unused
<1>4. QED
  BY <1>1, <1>2, <1>3

LEMMA UsedInvHolds ==
  ASSUME MaxInFlight \in {0, 1}
  PROVE  Spec => []UsedInv
<1>1. Init => UsedInv
  <2> SUFFICES ASSUME Init PROVE UsedInv
    OBVIOUS
  <2>1. /\ \A t \in Turns : turn[t] = IdleTurn
        /\ Stored = None /\ None \notin RunIds
    BY DistinctIds DEF Init, TurnInit, StoreInit, Stored, OrDefault, DefaultState, RunIds
  <2>2. IdleTurn.pc = "idle" /\ IdleTurn.state = DefaultState /\ IdleTurn.plan = None
        /\ DefaultState.plan = None
    BY DEF IdleTurn, DefaultState
  <2>3. QED
    BY <2>1, <2>2 DEF UsedInv, PlanIsUsedOnce, Unused, SameOrigin, NotSaved
<1>2. TypeInv /\ StartsOnce /\ OnePending /\ UsedInv /\ [Next]_vars => UsedInv'
  <2> SUFFICES ASSUME TypeInv, StartsOnce, OnePending, UsedInv, [Next]_vars PROVE UsedInv'
    OBVIOUS
  <2>1. Turns \subseteq RunIds /\ Ops \subseteq RunIds /\ turn \in [Turns -> Turn]
    BY CountTypes DEF RunIds
  <2>2. ASSUME NEW t \in Turns, TurnStep(t) PROVE UsedInv'
    <3>1. \A u \in Turns : u # t => turn'[u] = turn[u]
      BY <2>2, TurnEffects
    <3>2. CASE Consumes(t)
      BY <2>2, <3>1, <3>2, UsedByConsume
    <3>3. CASE CountsExchange(t)
      BY <2>2, <3>1, <3>3, UsedByCount
    <3>4. CASE Advances(t) \/ Counts(t)
      <4>1. /\ turn[t].pc \notin {"consume", "saveCount"} /\ turn'[t].pc \notin {"consume", "saveCount"}
            /\ turn'[t].state = turn[t].state /\ turn'[t].plan = turn[t].plan
            /\ UNCHANGED <<row, run>>
        BY <3>4 DEF Advances, Counts, Path, Same
      <4>2. turn'[t].state = DefaultState
        BY <4>1 DEF UsedInv
      <4>3. QED
        BY <3>1, <4>1, <4>2, UsedKept
    <3>5. CASE Prepares(t)
      <4>1. turn[t].state = DefaultState
        BY <3>5 DEF Prepares, UsedInv
      <4>2. QED
        BY <3>1, <3>5, <4>1, UsedKept DEF Prepares, Same
    <3>6. CASE Rereads(t)
      BY <3>1, <3>6, UsedKept DEF Rereads, Same
    <3>7. CASE Ends(t)
      <4>1. turn'[t].pc \notin {"consume", "saveCount"}
        BY <3>7 DEF Ends
      <4>2. \A r \in RunIds :
              run'[r].pc \in Deciding \cup {"idle"} => run[r].pc \in Deciding \cup {"idle"}
        <5>1. CASE UNCHANGED run
          BY <5>1
        <5>2. CASE /\ turn[t].pc \in {"checkClose", "close"} /\ turn[t].mode.streaming
                   /\ Dispatch(t, TurnIndex(t), turn[t].avatar)
          <6>1. run[t].pc = "idle"
            BY <5>2 DEF StartsOnce
          <6>2. QED
            BY <2>1, <5>2, <6>1, DispatchEffects
        <5>3. QED
          BY <3>7, <5>1, <5>2 DEF Ends
      <4>3. QED
        BY <3>1, <3>7, <4>1, <4>2, UsedKept DEF Ends
    <3>8. QED
      BY <2>2, <3>2, <3>3, <3>4, <3>5, <3>6, <3>7, TurnEffects
  <2>3. ASSUME NEW t \in Turns, NEW c \in ConvIds, NEW m \in Modes, Receive(t, c, m) PROVE UsedInv'
    <3>1. /\ turn[t].pc = "idle" /\ UNCHANGED <<row, run>>
          /\ \A u \in Turns : u # t => turn'[u] = turn[u]
          /\ turn'[t].state = turn[t].state /\ turn'[t].plan = turn[t].plan
          /\ turn'[t].pc = "readSession"
      BY <2>1, <2>3 DEF Receive, Turn, gmVars, storeVars
    <3>2. turn'[t].state = DefaultState
      BY <3>1 DEF UsedInv
    <3>3. QED
      BY <3>1, <3>2, UsedKept
  <2>4. ASSUME NEW o \in Ops, OpStep(o), UNCHANGED turn PROVE UsedInv'
    <3>1. \A r \in RunIds : run'[r].pc \in Deciding \cup {"idle"} => run[r].pc \in Deciding \cup {"idle"}
      <4>1. CASE UNCHANGED run
        BY <4>1
      <4>2. CASE op[o].pc = "runInitial" /\ Dispatch(o, 0, op[o].avatar)
        <5>1. run[o].pc = "idle"
          BY <4>2 DEF StartsOnce, Opening
        <5>2. QED
          BY <2>1, <4>2, <5>1, DispatchEffects
      <4>3. QED
        BY <2>4, <4>1, <4>2, OpEffects
    <3>2. Stored' = Stored
      BY <2>4, OpEffects DEF Stored
    <3>3. QED
      BY <2>4, <3>1, <3>2 DEF UsedInv, PlanIsUsedOnce, Unused, SameOrigin, NotSaved
  <2>5. CASE UNCHANGED <<turn, run, row>>
    BY <2>5 DEF UsedInv, PlanIsUsedOnce, Unused, SameOrigin, NotSaved, Stored
  <2>6. QED
    BY <2>2, <2>3, <2>4, <2>5, UsedByRun, StepCases DEF vars, gmVars, storeVars
<1>3. PatientInv => OnePending
  BY DEF PatientInv
<1>4. QED
  BY <1>1, <1>2, <1>3, TypeInvHolds, StartsOnceHolds, PatientInvHolds, PTL DEF Spec

(* With one request at a time, no two turns are answered with the same      *)
(* plan, whatever becomes of the turn that consumed it and whatever the     *)
(* runs and the counting turn write back afterwards.                        *)
THEOREM PlanIsUsedOnceHolds ==
  ASSUME MaxInFlight \in {0, 1}
  PROVE  Spec => []PlanIsUsedOnce
<1>1. UsedInv => PlanIsUsedOnce
  BY DEF UsedInv
<1>2. QED
  BY <1>1, UsedInvHolds, PTL

-----------------------------------------------------------------------------
(* A plan is for the turn that consumes it. *)

Resetting == {"listConvs", "deleteMessages", "deleteConvs", "resetSession"}

BeingOpened == {"activate", "runInitial", "awaitInitial"}

(* Then a turn finds a row and its conversation, and it does not fail.      *)
CalmInv ==
  /\ \A o \in Ops : op[o].left = {} /\ op[o].pc \notin Resetting
  /\ \A o \in Ops : run[o].pc \in {"saveNotes", "finish", "done"} => row # NoRow
  /\ ActiveConvs # {} => row # NoRow \/ \E o \in Ops : op[o].pc \in BeingOpened
  /\ \A t \in Turns : InFlight(t) => row # NoRow /\ Exists(turn[t].conv)
  /\ \A t \in Turns : turn[t].pc \notin {"failed", "countHistory", "rereadState"}

LEMMA RowIsKept ==
  ASSUME TypeInv, [Next]_vars
  PROVE  row # NoRow => row' # NoRow
<1>1. row \in State \cup {NoRow} /\ NoRow \notin State
  BY CountTypes, SentinelsAreNotData
<1>2. QED
  BY <1>1, RowIsOnlySaved, SaveType

LEMMA ConversationsAreKept ==
  ASSUME TypeInv, [Next]_vars, ~\E o \in Ops : DeleteConversations(o)
  PROVE  \A c \in ConvIds : Exists(c) => Exists(c)'
<1>1. conv \in [ConvIds -> Conversation]
  BY DEF TypeInv, StoreInv, StoreTypeOK
<1>2. \/ UNCHANGED conv
      \/ \E c : CloseConv(c)
      \/ \E a : conv' = [conv EXCEPT ![made + 1] = [status |-> "active", avatar |-> a]]
  BY StepCases
     DEF Receive, TurnStep, LoadSession, LoadGmState, CountHistory, RereadGmState, ConsumePlan,
         SaveUserMessage, SaveAvatarMessage, Interrupt, TouchConversation, ClearNotes,
         ReadCount, SaveCount, CheckImplicitClose, ImplicitClose, ImplicitCloseFails,
         TurnFails, OpStep, FindActive, ClosePrevious, CreateConversation, ActivateAvatar,
         RunInitialGameMaster, OpenReturns, LoadConversation, EndConversation,
         ListConversations, DeleteMessages, ResetSession, OpFails,
         RunStep, ReadState, ReadSession, SessionUnreadable, ModelAnswers, ApplyUnlocks,
         ApplyRouting, SavePlan, SaveNotes, RunFails, FinishRun, storeVars, vars
<1>3. SUFFICES ASSUME NEW d \in ConvIds, conv[d].status # "absent" PROVE conv'[d].status # "absent"
  BY DEF Exists
<1>4. CASE UNCHANGED conv
  BY <1>3, <1>4
<1>5. ASSUME NEW c, CloseConv(c) PROVE conv'[d].status # "absent"
  <2>1. conv' = [conv EXCEPT ![c].status = "closed"]
    BY <1>5 DEF CloseConv
  <2>2. conv'[d] = conv[d] \/ conv'[d].status = "closed"
    BY <1>1, <2>1 DEF Conversation
  <2>3. QED
    BY <1>3, <2>2
<1>6. ASSUME NEW a, conv' = [conv EXCEPT ![made + 1] = [status |-> "active", avatar |-> a]]
      PROVE  conv'[d].status # "absent"
  BY <1>1, <1>3, <1>6
<1>7. QED
  BY <1>2, <1>4, <1>5, <1>6

(* What a lifecycle request does when nothing is reset and nothing fails.   *)
LEMMA CalmOps ==
  ASSUME Calm, TypeInv, CalmInv, NEW o \in Ops, OpStep(o)
  PROVE  /\ op'[o].left = {} /\ op'[o].pc \notin Resetting
         /\ UNCHANGED <<messages, clock>>
         /\ ~DeleteConversations(o)
         /\ CreateConversation(o) => op'[o].pc \in BeingOpened
         /\ op[o].pc \in BeingOpened => op'[o].pc \in BeingOpened \/ run[o].pc = "done"
<1>1. op \in [Ops -> Op] /\ op[o].left = {} /\ op[o].pc \notin Resetting
  BY DEF CalmInv, TypeInv, OpInv, OpTypeOK
<1>2. ASSUME NEW pc, GotoOp(o, pc) PROVE op'[o].pc = pc /\ op'[o].left = {}
  BY <1>1, <1>2 DEF GotoOp, Op
<1>3. CASE FindActive(o)
  BY <1>1, <1>3 DEF FindActive, Op, Resetting, BeingOpened, DeleteConversations,
                    CreateConversation, storeVars
<1>4. CASE CreateConversation(o)
  BY <1>1, <1>4 DEF CreateConversation, Op, Resetting, BeingOpened, DeleteConversations
<1>5. CASE OpFails(o)
  <2>1. op[o].pc \in {"closePrevious", "create", "close"}
    BY <1>5 DEF OpFails, Calm
  <2>2. op'[o].pc = "failed" /\ op'[o].left = {}
    BY <1>1, <1>5 DEF OpFails, Op
  <2>3. UNCHANGED <<conv, made, messages, clock>>
    BY <1>5 DEF OpFails, storeVars
  <2>4. ~CreateConversation(o)
    <3>1. made \in Nat
      BY StoreAssumption DEF TypeInv, StoreInv, StoreTypeOK
    <3>2. QED
      BY <2>3, <3>1 DEF CreateConversation
  <2>5. QED
    BY <2>1, <2>2, <2>3, <2>4 DEF Resetting, BeingOpened, DeleteConversations
<1>6. CASE ClosePrevious(o) \/ LoadConversation(o) \/ EndConversation(o)
  BY <1>2, <1>6 DEF ClosePrevious, LoadConversation, EndConversation, Resetting, BeingOpened,
                    DeleteConversations, CreateConversation, storeVars
<1>7. CASE ActivateAvatar(o) \/ RunInitialGameMaster(o) \/ OpenReturns(o)
  BY <1>2, <1>7 DEF ActivateAvatar, RunInitialGameMaster, OpenReturns, Resetting, BeingOpened,
                    DeleteConversations, CreateConversation, storeVars
<1>8. CASE \/ ListConversations(o) \/ (\E c \in ConvIds : DeleteMessages(o, c))
           \/ DeleteConversations(o) \/ ResetSession(o)
  BY <1>1, <1>8 DEF ListConversations, DeleteMessages, DeleteConversations, ResetSession, Resetting
<1>9. QED
  BY <1>3, <1>4, <1>5, <1>6, <1>7, <1>8 DEF OpStep

LEMMA CalmTurns ==
  ASSUME Calm, CalmInv, NEW t \in Turns
  PROVE  ~TurnFails(t)
BY DEF Calm, CalmInv, TurnFails

LEMMA CalmTurnMoves ==
  ASSUME Calm, TypeInv, CalmInv, NEW t \in Turns, TurnStep(t)
  PROVE  /\ turn'[t].pc \notin {"failed", "countHistory", "rereadState"}
         /\ InFlight(t) /\ (InFlight(t)' => turn'[t].conv = turn[t].conv)
<1>1. InFlight(t)
  BY TurnStepOfPending, DistinctIds DEF Pending
<1>2. turn[t].pc \notin {"countHistory", "rereadState"} /\ row # NoRow
  BY <1>1 DEF CalmInv
<1>3. CASE Advances(t)
  BY <1>1, <1>2, <1>3 DEF Advances, Same, Path
<1>4. CASE Ends(t)
  BY <1>1, <1>4, CalmTurns DEF Ends, InFlight, Ended
<1>5. CASE CountsExchange(t)
  BY <1>1, <1>5 DEF CountsExchange, Same, InFlight, Ended
<1>6. QED
  BY <1>1, <1>2, <1>3, <1>4, <1>5, TurnEffects DEF Counts, Prepares, Consumes, Rereads, Same

LEMMA CalmInvHolds ==
  ASSUME MaxInFlight \in {0, 1}, Calm
  PROVE  Spec => []CalmInv
<1>1. Init => CalmInv
  <2> SUFFICES ASSUME Init PROVE CalmInv
    OBVIOUS
  <2>1. /\ \A o \in Ops : op[o] = IdleOp /\ run[o] = IdleRun
        /\ \A t \in Turns : turn[t] = IdleTurn
        /\ ActiveConvs = {}
    BY DEF Init, OpInit, GmInit, TurnInit, StoreInit, AbsentConv, ActiveConvs, RunIds
  <2>2. QED
    BY <2>1 DEF CalmInv, IdleOp, IdleRun, IdleTurn, Resetting, InFlight, Ended
<1>2. TypeInv /\ OnePending /\ CalmInv /\ [Next]_vars => CalmInv'
  <2> SUFFICES ASSUME TypeInv, OnePending, CalmInv, [Next]_vars PROVE CalmInv'
    OBVIOUS
  <2>1. /\ Turns \subseteq RunIds /\ Ops \subseteq RunIds /\ Turns \cap Ops = {}
        /\ turn \in [Turns -> Turn] /\ op \in [Ops -> Op] /\ run \in [RunIds -> Run]
        /\ row # NoRow => row' # NoRow
    BY DistinctIds, RowIsKept
       DEF RunIds, TypeInv, TurnInv, TurnTypeOK, OpInv, OpTypeOK, RunInv, GmTypeOK
  <2>2. ASSUME NEW o \in Ops, DeleteConversations(o) PROVE FALSE
    BY <2>2 DEF DeleteConversations, CalmInv, Resetting
  <2>3. \A c \in ConvIds : Exists(c) => Exists(c)'
    BY <2>2, ConversationsAreKept
  <2>4. \A t \in Turns : InFlight(t) => turn[t].conv \in ConvIds
    BY DEF TypeInv, TurnInv, TurnHasData
  <2>5. ASSUME NEW t \in Turns, TurnStep(t), UNCHANGED op PROVE CalmInv'
    <3>1. \A u \in Turns : u # t => turn'[u] = turn[u]
      BY <2>5, TurnEffects
    <3>2. \A o \in Ops : run'[o] = run[o]
      BY <2>1, <2>5, TurnStepStartsRun, DispatchEffects
    <3>3. ActiveConvs' \subseteq ActiveConvs
      <4>1. ASSUME NEW o \in Ops, CreateConversation(o) PROVE FALSE
        <5>1. op'[o].pc = "activate" /\ op[o].pc = "create"
          BY <2>1, <4>1 DEF CreateConversation, Op
        <5>2. QED
          BY <2>5, <5>1
      <4>2. QED
        BY <4>1, OnlyCreateActivates
    <3>4. \A u \in Turns : InFlight(u)' => row' # NoRow /\ Exists(turn[u].conv)'
      <4>1. InFlight(t)' => row' # NoRow /\ Exists(turn[t].conv)'
        <5>1. InFlight(t) /\ (InFlight(t)' => turn'[t].conv = turn[t].conv)
          BY <2>5, CalmTurnMoves
        <5>2. QED
          BY <2>1, <2>3, <2>4, <5>1 DEF CalmInv, Exists
      <4>2. QED
        BY <2>1, <2>3, <2>4, <3>1, <4>1 DEF CalmInv, Exists, InFlight
    <3>5. \A u \in Turns : turn'[u].pc \notin {"failed", "countHistory", "rereadState"}
      BY <2>5, <3>1, CalmTurnMoves DEF CalmInv
    <3>6. QED
      BY <2>1, <2>5, <3>2, <3>3, <3>4, <3>5 DEF CalmInv
  <2>6. ASSUME NEW o \in Ops, OpStep(o), UNCHANGED turn PROVE CalmInv'
    <3>1. \A p \in Ops : p # o => op'[p] = op[p]
      BY <2>6, OpStepTouchesItsOp
    <3>2. \A r \in RunIds : run'[r] = run[r] \/ run'[r].pc = "readState"
      BY <2>1, <2>6, OpEffects, DispatchEffects
    <3>3. ActiveConvs' # {} => row' # NoRow \/ \E p \in Ops : op'[p].pc \in BeingOpened
      <4>1. CASE \E p \in Ops : CreateConversation(p)
        <5>1. PICK p \in Ops : CreateConversation(p)
          BY <4>1
        <5>2. OpStep(p)
          BY <5>1 DEF OpStep
        <5>3. QED
          BY <5>1, <5>2, CalmOps
      <4>2. CASE ~\E p \in Ops : CreateConversation(p)
        <5>1. ActiveConvs' \subseteq ActiveConvs
          BY <4>2, OnlyCreateActivates
        <5>2. ASSUME NEW p \in Ops, op[p].pc \in BeingOpened
              PROVE  row # NoRow \/ op'[p].pc \in BeingOpened
          BY <2>6, <3>1, <5>2, CalmOps DEF CalmInv
        <5>3. QED
          BY <2>1, <5>1, <5>2 DEF CalmInv
      <4>3. QED
        BY <4>1, <4>2
    <3>4. \A u \in Turns : InFlight(u)' => row' # NoRow /\ Exists(turn[u].conv)'
      BY <2>1, <2>3, <2>4, <2>6 DEF CalmInv, Exists, InFlight
    <3>5. QED
      BY <2>1, <2>6, <3>1, <3>2, <3>3, <3>4, CalmOps DEF CalmInv
  <2>7. ASSUME NEW r \in RunIds, RunStep(r), UNCHANGED <<turn, op>> PROVE CalmInv'
    <3>1. conv' = conv
      BY <2>7 DEF RunStep, ReadState, ReadSession, SessionUnreadable, ModelAnswers, ApplyUnlocks,
                  ApplyRouting, SavePlan, SaveNotes, RunFails, FinishRun, storeVars
    <3>2. ActiveConvs' = ActiveConvs
      BY <3>1 DEF ActiveConvs
    <3>3. \A o \in Ops : run'[o].pc \in {"saveNotes", "finish", "done"} => row' # NoRow
      <4>1. CASE SavesPlan(r)
        <5>1. row' # NoRow
          BY <4>1, CountTypes, SaveType, SentinelsAreNotData DEF SavesPlan
        <5>2. QED
          BY <5>1
      <4>2. CASE Works(r)
        BY <2>1, <2>7, <4>2, RunEffects DEF Works, CalmInv, Calm
      <4>3. QED
        BY <2>7, <4>1, <4>2, RunEffects
    <3>4. QED
      BY <2>1, <2>7, <3>1, <3>2, <3>3 DEF CalmInv, InFlight, Exists
  <2>8. ASSUME NEW t \in Turns, NEW c \in ConvIds, NEW m \in Modes, Receive(t, c, m), UNCHANGED op,
               ClientIsFree
        PROVE  CalmInv'
    <3>1. Pending = {}
      BY <2>8, FreeClientsHaveNonePending
    <3>2. row # NoRow
      <4>1. ActiveConvs # {}
        BY <2>8 DEF Receive, ActiveConvs
      <4>2. \A o \in Ops : op[o].pc \notin BeingOpened
        BY <3>1 DEF Pending, OpInFlight, BeingOpened
      <4>3. QED
        BY <4>1, <4>2 DEF CalmInv
    <3>3. /\ turn'[t].conv = c /\ turn'[t].pc = "readSession" /\ Exists(c)
          /\ UNCHANGED <<conv, run, row>> /\ \A u \in Turns : u # t => turn'[u] = turn[u]
      BY <2>1, <2>8 DEF Receive, Turn, Exists, gmVars, storeVars
    <3>4. QED
      BY <2>8, <3>2, <3>3 DEF CalmInv, Exists, InFlight, ActiveConvs
  <2>9. ASSUME NEW o \in Ops, UNCHANGED <<turn, gmVars, storeVars>>,
               \/ \E k \in AllKinds, a \in Avatars : BeginOpen(o, k, a)
               \/ \E c \in ConvIds : BeginEnd(o, c)
               \/ BeginReset(o)
        PROVE  CalmInv'
    <3>1. op[o].pc = "idle" /\ \A p \in Ops : p # o => op'[p] = op[p]
      BY <2>1, <2>9 DEF BeginOpen, BeginEnd, BeginReset
    <3>2. ~BeginReset(o)
      BY DEF BeginReset, Calm
    <3>3. op'[o].left = op[o].left /\ op'[o].pc \in {"findActive", "loadConv"}
      <4>1. op[o] \in Op
        BY <2>1
      <4>2. ASSUME NEW k \in AllKinds, NEW a \in Avatars, BeginOpen(o, k, a)
            PROVE  op'[o].left = op[o].left /\ op'[o].pc = "findActive"
        <5>1. op'[o] = [op[o] EXCEPT !.pc = "findActive", !.kind = k, !.avatar = a]
          BY <2>1, <4>2 DEF BeginOpen
        <5>2. QED
          BY <4>1, <5>1 DEF Op
      <4>3. ASSUME NEW c \in ConvIds, BeginEnd(o, c)
            PROVE  op'[o].left = op[o].left /\ op'[o].pc = "loadConv"
        <5>1. op'[o] = [op[o] EXCEPT !.pc = "loadConv", !.kind = "end", !.target = c]
          BY <2>1, <4>3 DEF BeginEnd
        <5>2. QED
          BY <4>1, <5>1 DEF Op
      <4>4. QED
        BY <2>9, <3>2, <4>2, <4>3
    <3>4. UNCHANGED <<turn, run, conv, row>>
      BY <2>9 DEF gmVars, storeVars
    <3>5. ActiveConvs' = ActiveConvs
      BY <3>4 DEF ActiveConvs
    <3>6. QED
      BY <3>1, <3>3, <3>4, <3>5 DEF CalmInv, InFlight, Exists, Resetting, BeingOpened
  <2>10. CASE SendRequest
    BY <2>8, <2>10 DEF SendRequest
  <2>11. CASE LifecycleRequest
    BY <2>9, <2>11 DEF LifecycleRequest, BeginOpen, BeginEnd, BeginReset
  <2>12. CASE Quiescent \/ UNCHANGED vars
    BY <2>12 DEF Quiescent, vars, CalmInv, InFlight, Exists, ActiveConvs
  <2>13. QED
    BY <2>5, <2>6, <2>7, <2>10, <2>11, <2>12 DEF Next, ServeTurn, ServeOp, ServeRun
<1>3. PatientInv => OnePending
  BY DEF PatientInv
<1>4. QED
  BY <1>1, <1>2, <1>3, TypeInvHolds, PatientInvHolds, PTL DEF Spec

-----------------------------------------------------------------------------
(* The exchanges a turn finds counted. *)

Exchanges == Cardinality(CountedTurns)

LEMMA ExchangesStep ==
  ASSUME TypeInv, CountInv, NEW t \in Turns, TurnStep(t)
  PROVE  /\ Exchanges \in Nat
         /\ Exchanges' = IF SaveCount(t) THEN Exchanges + 1 ELSE Exchanges
<1>1. IsFiniteSet(CountedTurns) /\ Exchanges \in Nat
  BY FS_CardinalityType DEF CountInv, Exchanges
<1>2. CountedTurns' = IF SaveCount(t) THEN CountedTurns \cup {t} ELSE CountedTurns
  BY CountedTurnStep
<1>3. SaveCount(t) => t \notin CountedTurns
  BY DEF SaveCount, CountedTurns, CountedTurn
<1>4. QED
  BY <1>1, <1>2, <1>3, FS_AddElement DEF Exchanges

(* A turn's reply is stored, its exchange not yet counted.                  *)
Replying == {"touch", "clearNotes", "readCount", "saveCount"}

Indexed == {"consume", "saveUser", "askAvatar"} \cup Replying

Closing == {"checkClose", "close"}

(* The index a turn works with is that of the exchange it takes part in.    *)
IndexInv ==
  \A t \in Turns :
    /\ turn[t].pc \in Indexed => turn[t].prior = Exchanges
    /\ turn[t].pc \in Closing => turn[t].prior + 1 = Exchanges

LEMMA OthersAreOver ==
  ASSUME TypeInv, OnePending, NEW t \in Turns, TurnStep(t)
  PROVE  \A u \in Turns : u # t => turn'[u] = turn[u] /\ ~InFlight(u) /\ ~InFlight(u)'
<1>1. Pending = {t}
  BY TurnStepOfPending DEF OnePending
<1>2. ASSUME NEW u \in Turns, u # t PROVE turn'[u] = turn[u] /\ ~InFlight(u)
  BY <1>1, <1>2, TurnEffects DEF Pending
<1>3. QED
  BY <1>2 DEF InFlight

LEMMA IndexInvHolds ==
  ASSUME MaxInFlight \in {0, 1}, Calm
  PROVE  Spec => []IndexInv
<1>1. Init => IndexInv
  BY DEF Init, TurnInit, IdleTurn, IndexInv, Indexed, Replying, Closing
<1>2. TypeInv /\ CountInv /\ PatientInv /\ CalmInv /\ IndexInv /\ [Next]_vars => IndexInv'
  <2> SUFFICES ASSUME TypeInv, CountInv, PatientInv, CalmInv, IndexInv, [Next]_vars PROVE IndexInv'
    OBVIOUS
  <2>1. CASE \E t \in Turns : TurnStep(t)
    <3>1. PICK t \in Turns : TurnStep(t)
      BY <2>1
    <3>2. /\ Exchanges \in Nat
          /\ Exchanges' = IF SaveCount(t) THEN Exchanges + 1 ELSE Exchanges
      BY <3>1, ExchangesStep
    <3>3. \A u \in Turns : u # t => ~InFlight(u)'
      BY <3>1, OthersAreOver DEF PatientInv
    <3>4. SaveCount(t) => turn[t].pc = "saveCount"
      BY DEF SaveCount
    <3>5. /\ turn'[t].pc \in Indexed => turn'[t].prior = Exchanges'
          /\ turn'[t].pc \in Closing => turn'[t].prior + 1 = Exchanges'
      <4>1. CASE Advances(t)
        BY <3>2, <3>4, <4>1 DEF Advances, Path, Indexed, Replying, Closing, IndexInv
      <4>2. CASE Counts(t)
        BY <4>2 DEF Counts, Indexed, Replying, Closing
      <4>3. CASE Prepares(t)
        <5>1. turn[t].pc = "readState" /\ row # NoRow /\ turn'[t].prior = row.count
          BY <4>3 DEF Prepares, CalmInv
        <5>2. row.count = Exchanges
          BY <5>1 DEF PatientInv, CountIsExact, OrDefault, Exchanges
        <5>3. QED
          BY <3>2, <3>4, <4>3, <5>1, <5>2 DEF Prepares, Indexed, Replying, Closing
      <4>4. CASE Consumes(t) \/ Rereads(t)
        BY <3>2, <3>4, <4>4 DEF Consumes, Rereads, Indexed, Replying, Closing, IndexInv
      <4>5. CASE CountsExchange(t)
        <5>1. turn[t].prior = Exchanges /\ SaveCount(t)
          BY <3>4, <4>5 DEF CountsExchange, IndexInv, Indexed, Replying
        <5>2. QED
          BY <3>2, <4>5, <5>1 DEF CountsExchange, Indexed, Replying, Closing
      <4>6. CASE Ends(t)
        BY <4>6 DEF Ends, Indexed, Replying, Closing
      <4>7. QED
        BY <3>1, <4>1, <4>2, <4>3, <4>4, <4>5, <4>6, TurnEffects
    <3>6. QED
      BY <3>3, <3>5 DEF IndexInv, InFlight, Ended, Indexed, Replying, Closing
  <2>2. CASE UNCHANGED turn
    BY <2>2 DEF IndexInv, Exchanges, CountedTurns, CountedTurn
  <2>3. CASE \E t \in Turns, c \in ConvIds, m \in Modes : Receive(t, c, m)
    <3>1. PICK t \in Turns, c \in ConvIds, m \in Modes : Receive(t, c, m)
      BY <2>3
    <3>2. /\ turn[t].pc = "idle" /\ turn'[t].pc = "readSession"
          /\ \A u \in Turns : u # t => turn'[u] = turn[u]
      BY <3>1, CountTypes DEF Receive, Turn
    <3>3. CountedTurns' = CountedTurns
      BY <3>2 DEF CountedTurns, CountedTurn
    <3>4. QED
      BY <3>2, <3>3 DEF IndexInv, Exchanges, Indexed, Replying, Closing
  <2>4. QED
    BY <2>1, <2>2, <2>3, StepCases DEF vars
<1>3. QED
  BY <1>1, <1>2, TypeInvHolds, CountInvHolds, PatientInvHolds, CalmInvHolds, PTL DEF Spec

-----------------------------------------------------------------------------
(* The messages a turn stores. *)

Before == {"idle", "readSession", "readState", "countHistory", "rereadState", "consume", "saveUser"}

Replies == {m \in messages : m.role = "avatar"}

LatestReplyBy(t) == \E m \in Replies : m.turn = t /\ \A l \in Replies : l.at <= m.at

ReplyInv ==
  /\ \A m \in messages : m.at <= clock /\ turn[m.turn].pc \notin Before
  /\ \A t \in Turns : turn[t].plan # None /\ turn[t].pc # "saveUser" =>
       \E n \in messages : n.turn = t /\ n.role = "user"
  /\ \A m \in Replies : CountedTurn(m.turn) \/ turn[m.turn].pc \in Replying
  /\ \A t \in Turns : turn[t].pc \in Replying \cup Closing => LatestReplyBy(t)

Inserts(t, r) ==
  /\ clock' = clock + 1
  /\ messages' = messages \cup {[at |-> clock + 1, turn |-> t, conv |-> turn[t].conv, role |-> r]}

AsksAvatar(t) == turn[t].pc = "saveUser" /\ turn'[t].pc = "askAvatar" /\ Inserts(t, "user")

StoresReply(t) == turn[t].pc = "askAvatar" /\ turn'[t].pc = "touch" /\ Inserts(t, "avatar")

LEMMA MessageEffects ==
  ASSUME TypeInv, NEW t \in Turns, TurnStep(t)
  PROVE  \/ AsksAvatar(t)
         \/ StoresReply(t)
         \/ UNCHANGED <<messages, clock>> /\ turn'[t].pc \notin {"askAvatar", "touch"}
<1>1. turn \in [Turns -> Turn]
  BY CountTypes
<1>2. ASSUME NEW pc, GotoTurn(t, pc) PROVE turn'[t].pc = pc
  BY <1>1, <1>2 DEF GotoTurn, Turn
<1>3. CASE SaveUserMessage(t)
  BY <1>2, <1>3 DEF SaveUserMessage, InsertMessage, AsksAvatar, Inserts
<1>4. CASE SaveAvatarMessage(t)
  BY <1>2, <1>4 DEF SaveAvatarMessage, InsertMessage, StoresReply, Inserts
<1>5. CASE ~SaveUserMessage(t) /\ ~SaveAvatarMessage(t)
  <2>1. UNCHANGED <<messages, clock>>
    BY <1>5 DEF TurnStep, LoadSession, LoadGmState, CountHistory, RereadGmState, ConsumePlan,
                Interrupt, TouchConversation, ClearNotes, ReadCount, SaveCount,
                CheckImplicitClose, ImplicitClose, ImplicitCloseFails, TurnFails, storeVars
  <2>2. turn'[t].pc \notin {"askAvatar", "touch"}
    <3>1. CASE TouchConversation(t) \/ ClearNotes(t)
      BY <1>2, <3>1 DEF TouchConversation, ClearNotes
    <3>2. CASE turn[t].pc \notin {"saveUser", "askAvatar"} /\ ~TouchConversation(t) /\ ~ClearNotes(t)
      BY <3>2, TurnEffects
         DEF Advances, Path, Counts, Prepares, Consumes, Rereads, CountsExchange, Ends
    <3>3. CASE turn[t].pc \in {"saveUser", "askAvatar"}
      <4>1. Interrupt(t) \/ TurnFails(t)
        BY <1>5, <3>3
           DEF TurnStep, LoadSession, LoadGmState, CountHistory, RereadGmState, ConsumePlan,
               TouchConversation, ClearNotes, ReadCount, SaveCount, CheckImplicitClose,
               ImplicitClose, ImplicitCloseFails
      <4>2. EndTurn(t, "failed") \/ EndTurn(t, "interrupted")
        BY <4>1 DEF Interrupt, TurnFails
      <4>3. QED
        BY <1>1, <4>2 DEF EndTurn, IdleTurn
    <3>4. QED
      BY <3>1, <3>2, <3>3
  <2>3. QED
    BY <2>1, <2>2
<1>6. QED
  BY <1>3, <1>4, <1>5

LEMMA MessageTypes ==
  ASSUME TypeInv
  PROVE  /\ clock \in Nat
         /\ \A m \in messages : m.at \in Nat /\ m.turn \in Turns /\ m.role \in {"user", "avatar"}
BY DEF TypeInv, StoreInv, StoreTypeOK, Message

(* The reply of the turn that completes is the latest, as no other turn is  *)
(* pending.                                                                 *)
LEMMA ReplyStep ==
  ASSUME Calm, TypeInv, OnePending, CalmInv, ReplyInv, NEW t \in Turns, TurnStep(t)
  PROVE  ReplyInv'
<1>1. /\ \A u \in Turns : u # t => turn'[u] = turn[u] /\ ~InFlight(u)'
      /\ turn \in [Turns -> Turn]
  BY OthersAreOver, CountTypes
<1>2. /\ clock \in Nat
      /\ \A m \in messages : m.at \in Nat /\ m.turn \in Turns /\ m.role \in {"user", "avatar"}
  BY MessageTypes
<1>3. ~TurnFails(t)
  BY CalmTurns
<1>4. ASSUME NEW u \in Turns, u # t PROVE turn'[u].pc \notin Replying \cup Closing
  BY <1>1, <1>4 DEF InFlight, Ended, Replying, Closing
<1>5. CASE AsksAvatar(t)
  <2> DEFINE n == [at |-> clock + 1, turn |-> t, conv |-> turn[t].conv, role |-> "user"]
  <2>1. /\ messages' = messages \cup {n} /\ clock' = clock + 1
        /\ n.at = clock + 1 /\ n.turn = t /\ n.role = "user"
    BY <1>5 DEF AsksAvatar, Inserts
  <2> HIDE DEF n
  <2>2. Replies' = Replies /\ turn[t].pc = "saveUser" /\ turn'[t].pc = "askAvatar"
    BY <1>5, <2>1 DEF Replies, AsksAvatar
  <2>3. \A m \in messages' : m.at <= clock' /\ turn'[m.turn].pc \notin Before
    <3>1. \A m \in messages : m.turn # t
      BY <2>2 DEF ReplyInv, Before
    <3>2. QED
      BY <1>1, <1>2, <2>1, <2>2, <3>1 DEF ReplyInv, Before
  <2>4. ASSUME NEW u \in Turns, turn'[u].plan # None, turn'[u].pc # "saveUser"
        PROVE  \E m \in messages' : m.turn = u /\ m.role = "user"
    BY <1>1, <2>1, <2>4 DEF ReplyInv
  <2>5. \A m \in Replies' : CountedTurn(m.turn)' \/ turn'[m.turn].pc \in Replying
    BY <1>1, <1>2, <2>2 DEF ReplyInv, Replies, CountedTurn, Replying
  <2>6. QED
    BY <1>4, <2>2, <2>3, <2>4, <2>5 DEF ReplyInv, Replying, Closing
<1>6. CASE StoresReply(t)
  <2> DEFINE n == [at |-> clock + 1, turn |-> t, conv |-> turn[t].conv, role |-> "avatar"]
  <2>1. /\ messages' = messages \cup {n} /\ clock' = clock + 1
        /\ n.at = clock + 1 /\ n.turn = t /\ n.role = "avatar"
    BY <1>6 DEF StoresReply, Inserts
  <2> HIDE DEF n
  <2>2. Replies' = Replies \cup {n} /\ turn[t].pc = "askAvatar" /\ turn'[t].pc = "touch"
    BY <1>6, <2>1 DEF Replies, StoresReply
  <2>3. \A m \in messages' : m.at <= clock' /\ turn'[m.turn].pc \notin Before
    BY <1>1, <1>2, <2>1, <2>2 DEF ReplyInv, Before
  <2>4. ASSUME NEW u \in Turns, turn'[u].plan # None, turn'[u].pc # "saveUser"
        PROVE  \E m \in messages' : m.turn = u /\ m.role = "user"
    <3>1. turn'[t].plan = turn[t].plan
      BY <2>2, TurnEffects
         DEF Advances, Counts, Prepares, Consumes, Rereads, CountsExchange, Ends, Same
    <3>2. turn[u].plan # None /\ turn[u].pc # "saveUser"
      BY <1>1, <2>2, <2>4, <3>1
    <3>3. QED
      BY <2>1, <3>2 DEF ReplyInv
  <2>5. \A m \in Replies' : CountedTurn(m.turn)' \/ turn'[m.turn].pc \in Replying
    BY <1>1, <1>2, <2>1, <2>2 DEF ReplyInv, Replies, CountedTurn, Replying
  <2>6. LatestReplyBy(t)'
    <3>1. \A l \in Replies' : l.at <= n.at
      BY <1>2, <2>1, <2>2 DEF ReplyInv, Replies
    <3>2. QED
      BY <2>1, <2>2, <3>1 DEF LatestReplyBy
  <2>7. QED
    BY <1>4, <2>3, <2>4, <2>5, <2>6 DEF ReplyInv
<1>7. CASE UNCHANGED <<messages, clock>> /\ turn'[t].pc \notin {"askAvatar", "touch"}
  <2>1. Replies' = Replies
    BY <1>7 DEF Replies
  <2>2. /\ turn'[t].pc \in Before => turn[t].pc \in Before
        /\ turn'[t].pc \in Replying \cup Closing => turn[t].pc \in Replying \cup Closing
        /\ turn[t].pc \in Replying => turn'[t].pc \in Replying \/ CountedTurn(t)'
        /\ CountedTurn(t) => CountedTurn(t)'
        /\ turn'[t].plan # None /\ turn'[t].pc # "saveUser" =>
             turn[t].plan # None /\ turn[t].pc # "saveUser"
    <3>1. CASE Advances(t)
      BY <1>7, <3>1 DEF Advances, Same, Path, Before, Replying, Closing, CountedTurn
    <3>2. CASE Counts(t) \/ Prepares(t) \/ Consumes(t) \/ Rereads(t)
      BY <3>2 DEF Counts, Prepares, Consumes, Rereads, Same, Before, Replying, Closing, CountedTurn
    <3>3. CASE CountsExchange(t)
      BY <3>3 DEF CountsExchange, SaveCount, Before, Replying, Closing, CountedTurn
    <3>4. CASE Ends(t)
      BY <1>3, <3>4 DEF Ends, Before, Replying, Closing, CountedTurn
    <3>5. QED
      BY <3>1, <3>2, <3>3, <3>4, TurnEffects
  <2>3. \A m \in messages' : m.at <= clock' /\ turn'[m.turn].pc \notin Before
    BY <1>1, <1>2, <1>7, <2>2 DEF ReplyInv
  <2>4. ASSUME NEW u \in Turns, turn'[u].plan # None, turn'[u].pc # "saveUser"
        PROVE  \E m \in messages' : m.turn = u /\ m.role = "user"
    <3>1. turn[u].plan # None /\ turn[u].pc # "saveUser"
      BY <1>1, <2>2, <2>4
    <3>2. QED
      BY <1>7, <3>1 DEF ReplyInv
  <2>5. \A m \in Replies' : CountedTurn(m.turn)' \/ turn'[m.turn].pc \in Replying
    <3>1. \A m \in Replies : m.turn \in Turns
      BY <1>2 DEF Replies
    <3>2. QED
      BY <1>1, <2>1, <2>2, <3>1 DEF ReplyInv, CountedTurn
  <2>6. turn'[t].pc \in Replying \cup Closing => LatestReplyBy(t)'
    BY <2>1, <2>2 DEF ReplyInv, LatestReplyBy
  <2>7. QED
    BY <1>4, <2>3, <2>4, <2>5, <2>6 DEF ReplyInv
<1>8. QED
  BY <1>5, <1>6, <1>7, MessageEffects

LEMMA ReplyInvHolds ==
  ASSUME MaxInFlight \in {0, 1}, Calm
  PROVE  Spec => []ReplyInv
<1>1. Init => ReplyInv
  BY DEF Init, StoreInit, TurnInit, IdleTurn, ReplyInv, Replies, Replying, Closing
<1>2. TypeInv /\ OnePending /\ CalmInv /\ ReplyInv /\ [Next]_vars => ReplyInv'
  <2> SUFFICES ASSUME TypeInv, OnePending, CalmInv, ReplyInv, [Next]_vars PROVE ReplyInv'
    OBVIOUS
  <2>1. ASSUME UNCHANGED <<turn, messages, clock>> PROVE ReplyInv'
    BY <2>1 DEF ReplyInv, Replies, LatestReplyBy, CountedTurn
  <2>2. ASSUME NEW o \in Ops, OpStep(o), UNCHANGED turn PROVE ReplyInv'
    BY <2>1, <2>2, CalmOps
  <2>3. ASSUME NEW r \in RunIds, RunStep(r), UNCHANGED <<turn, op>> PROVE ReplyInv'
    BY <2>1, <2>3
       DEF RunStep, ReadState, ReadSession, SessionUnreadable, ModelAnswers, ApplyUnlocks,
           ApplyRouting, SavePlan, SaveNotes, RunFails, FinishRun, storeVars
  <2>4. ASSUME NEW t \in Turns, NEW c \in ConvIds, NEW m \in Modes, Receive(t, c, m) PROVE ReplyInv'
    <3>1. /\ turn[t].pc = "idle" /\ turn'[t].pc = "readSession" /\ turn'[t].plan = turn[t].plan
          /\ \A u \in Turns : u # t => turn'[u] = turn[u]
          /\ UNCHANGED <<messages, clock>>
      BY <2>4, CountTypes DEF Receive, Turn, storeVars
    <3>2. \A n \in messages : n.turn \in Turns \ {t}
      BY <3>1, MessageTypes DEF ReplyInv, Before
    <3>3. \A u \in Turns : turn'[u].plan = turn[u].plan /\ (turn'[u].pc # "saveUser" => turn[u].pc # "saveUser")
      BY <3>1
    <3>4. \A n \in messages : turn'[n.turn] = turn[n.turn]
      BY <3>1, <3>2
    <3>5. QED
      BY <3>1, <3>3, <3>4
         DEF ReplyInv, Replies, LatestReplyBy, CountedTurn, Replying, Closing
  <2>5. QED
    BY <2>1, <2>2, <2>3, <2>4, ReplyStep, StepCases DEF vars, storeVars
<1>3. PatientInv => OnePending
  BY DEF PatientInv
<1>4. QED
  BY <1>1, <1>2, <1>3, TypeInvHolds, PatientInvHolds, CalmInvHolds, PTL DEF Spec

-----------------------------------------------------------------------------
(* A plan is for the turn that consumes it. *)

(* A plan made after the last counted exchange is of the turn whose reply   *)
(* is the latest, unless a turn has a reply of its own still to be counted. *)
Recent(r, after) ==
  /\ r \in Ops => after = 0
  /\ r \in Turns =>
       /\ after <= Exchanges
       /\ after = Exchanges => LatestReplyBy(r) \/ \E t \in Turns : turn[t].pc \in Replying

PreparedInv ==
  /\ Stored # None => Recent(Stored.by, Stored.after)
  /\ \A t \in Turns :
       /\ turn[t].state.plan # None => Recent(turn[t].state.plan.by, turn[t].state.plan.after)
       /\ turn[t].pc = "consume" => turn[t].state.plan.after = turn[t].prior
  /\ \A r \in RunIds : run[r].pc \in Deciding => Recent(r, run[r].turnIndex)
  /\ PlanIsForThisTurn

LEMMA RecentStep ==
  ASSUME Calm, TypeInv, CountInv, OnePending, CalmInv, NEW t \in Turns, TurnStep(t)
  PROVE  \A r \in RunIds, after \in Nat : Recent(r, after) => Recent(r, after)'
<1> SUFFICES ASSUME NEW r \in RunIds, NEW after \in Nat, Recent(r, after), r \in Turns
             PROVE  /\ after <= Exchanges'
                    /\ after = Exchanges' =>
                         LatestReplyBy(r)' \/ \E u \in Turns : turn'[u].pc \in Replying
  BY DEF Recent
<1>1. /\ Exchanges \in Nat
      /\ Exchanges' = IF SaveCount(t) THEN Exchanges + 1 ELSE Exchanges
  BY ExchangesStep
<1>2. /\ after <= Exchanges
      /\ after = Exchanges => LatestReplyBy(r) \/ \E u \in Turns : turn[u].pc \in Replying
  BY DEF Recent
<1>3. CASE SaveCount(t)
  BY <1>1, <1>2, <1>3
<1>4. CASE ~SaveCount(t)
  <2>1. LatestReplyBy(r) => LatestReplyBy(r)' \/ turn'[t].pc \in Replying
    <3>1. CASE AsksAvatar(t)
      <4> DEFINE n == [at |-> clock + 1, turn |-> t, conv |-> turn[t].conv, role |-> "user"]
      <4>1. messages' = messages \cup {n} /\ n.role # "avatar"
        BY <3>1 DEF AsksAvatar, Inserts
      <4> HIDE DEF n
      <4>2. Replies' = Replies
        BY <4>1 DEF Replies
      <4>3. QED
        BY <4>2 DEF LatestReplyBy
    <3>2. CASE StoresReply(t)
      BY <3>2 DEF StoresReply, Replying
    <3>3. CASE UNCHANGED messages
      BY <3>3 DEF LatestReplyBy, Replies
    <3>4. QED
      BY <3>1, <3>2, <3>3, MessageEffects
  <2>2. ASSUME NEW u \in Turns, turn[u].pc \in Replying PROVE turn'[t].pc \in Replying
    <3>1. u = t
      BY <2>2, OthersAreOver DEF InFlight, Ended, Replying
    <3>2. CASE Advances(t)
      BY <2>2, <3>1, <3>2 DEF Advances, Path, Replying
    <3>3. CASE Counts(t) \/ Prepares(t) \/ Consumes(t) \/ Rereads(t)
      BY <2>2, <3>1, <3>3 DEF Counts, Prepares, Consumes, Rereads, Replying
    <3>4. CASE CountsExchange(t) \/ Ends(t)
      BY <1>4, <2>2, <3>1, <3>4, CalmTurns DEF CountsExchange, Ends, Replying
    <3>5. QED
      BY <3>2, <3>3, <3>4, TurnEffects
  <2>3. QED
    BY <1>1, <1>2, <1>4, <2>1, <2>2
<1>5. QED
  BY <1>3, <1>4

(* What a turn was answered after does not change once it has its plan.     *)
LEMMA RepliesBeforeStep ==
  ASSUME TypeInv, OnePending, ReplyInv, NEW t \in Turns, TurnStep(t),
         NEW u \in Turns, turn[u].plan # None
  PROVE  RepliesBefore(u)' = RepliesBefore(u)
<1>1. /\ clock \in Nat
      /\ \A m \in messages : m.at \in Nat /\ m.turn \in Turns /\ m.role \in {"user", "avatar"}
  BY MessageTypes
<1>2. \A m \in messages : m.at <= clock /\ turn[m.turn].pc \notin Before
  BY DEF ReplyInv
<1>3. CASE AsksAvatar(t)
  <2> DEFINE n == [at |-> clock + 1, turn |-> t, conv |-> turn[t].conv, role |-> "user"]
  <2>1. messages' = messages \cup {n} /\ n.at = clock + 1 /\ n.turn = t /\ n.role = "user"
    BY <1>3 DEF AsksAvatar, Inserts
  <2> HIDE DEF n
  <2>2. \A m \in messages : m.turn # t
    BY <1>2, <1>3 DEF AsksAvatar, Before
  <2>3. QED
    BY <1>1, <1>2, <2>1, <2>2 DEF RepliesBefore
<1>4. CASE StoresReply(t)
  <2> DEFINE n == [at |-> clock + 1, turn |-> t, conv |-> turn[t].conv, role |-> "avatar"]
  <2>1. messages' = messages \cup {n} /\ n.at = clock + 1 /\ n.role = "avatar"
    BY <1>4 DEF StoresReply, Inserts
  <2> HIDE DEF n
  <2>2. turn[u].pc # "saveUser"
    <3>1. CASE u = t
      BY <1>4, <3>1 DEF StoresReply
    <3>2. CASE u # t
      BY <3>2, OthersAreOver DEF InFlight, Ended
    <3>3. QED
      BY <3>1, <3>2
  <2>3. PICK k \in messages : k.turn = u /\ k.role = "user"
    BY <2>2 DEF ReplyInv
  <2>4. k.at <= clock /\ k.at \in Nat
    BY <1>1, <1>2
  <2>5. n \notin RepliesBefore(u)'
    BY <1>1, <2>1, <2>3, <2>4 DEF RepliesBefore
  <2>6. QED
    BY <2>1, <2>5 DEF RepliesBefore
<1>5. CASE UNCHANGED messages
  BY <1>5 DEF RepliesBefore
<1>6. QED
  BY <1>3, <1>4, <1>5, MessageEffects

(* The plan a turn takes at its index is that of the latest reply.          *)
LEMMA TakesItsPlan ==
  ASSUME TypeInv, CountInv, OnePending, IndexInv, ReplyInv, PreparedInv,
         NEW t \in Turns, TurnStep(t), Consumes(t)
  PROVE  /\ RepliesBefore(t)' = Replies
         /\ Replies = {} => turn'[t].plan \in Ops
         /\ Replies # {} => LatestReplyBy(turn'[t].plan)
<1>1. turn[t].pc = "consume" /\ turn'[t].plan = turn[t].state.plan.by
  BY DEF Consumes
<1>2. UNCHANGED messages
  BY <1>1, MessageEffects DEF AsksAvatar, StoresReply
<1>3. \A m \in messages : m.turn # t
  BY <1>1 DEF ReplyInv, Before
<1>4. turn[t].state.plan \in Plan /\ turn[t].state.plan # None
  BY <1>1, SentinelsAreNotData DEF TypeInv, TurnInv, TurnHasData
<1>5. Recent(turn[t].state.plan.by, Exchanges)
  BY <1>1, <1>4 DEF PreparedInv, IndexInv, Indexed
<1>6. \A u \in Turns : turn[u].pc \notin Replying
  BY <1>1, OthersAreOver DEF InFlight, Ended, Replying
<1>7. RepliesBefore(t)' = Replies
  BY <1>2, <1>3 DEF RepliesBefore, Replies
<1>8. CASE turn[t].state.plan.by \in Ops
  <2>1. Exchanges = 0
    BY <1>5, <1>8 DEF Recent
  <2>2. CountedTurns = {}
    BY <2>1, FS_EmptySet DEF CountInv, Exchanges
  <2>3. Replies = {}
    BY <1>6, <2>2, MessageTypes DEF ReplyInv, Replies, CountedTurns
  <2>4. QED
    BY <1>1, <1>7, <1>8, <2>3
<1>9. CASE turn[t].state.plan.by \in Turns
  <2>1. LatestReplyBy(turn[t].state.plan.by)
    BY <1>5, <1>6, <1>9 DEF Recent
  <2>2. Replies # {} /\ LatestReplyBy(turn'[t].plan)
    BY <1>1, <2>1 DEF LatestReplyBy
  <2>3. QED
    BY <1>7, <2>2
<1>10. QED
  BY <1>4, <1>8, <1>9 DEF Plan, RunIds

(* The run of a turn is told the exchange the turn completed.               *)
LEMMA ObservesItsExchange ==
  ASSUME Calm, TypeInv, CountInv, OnePending, CalmInv, IndexInv, ReplyInv,
         NEW t \in Turns, TurnStep(t)
  PROVE  \A r \in RunIds : run'[r] = run[r] \/ (r = t /\ Recent(r, run[r].turnIndex)')
<1>1. t \in RunIds /\ t \notin Ops
  BY DistinctIds DEF RunIds
<1>2. /\ Exchanges \in Nat
      /\ Exchanges' = IF SaveCount(t) THEN Exchanges + 1 ELSE Exchanges
  BY ExchangesStep
<1>3. CASE UNCHANGED run
  BY <1>3
<1>4. CASE Dispatch(t, turn[t].prior + 1, turn[t].avatar) /\ turn[t].pc \in {"saveCount"} \cup Closing
  <2>1. run'[t].turnIndex = turn[t].prior + 1 /\ \A r \in RunIds : r # t => run'[r] = run[r]
    BY <1>1, <1>4, DispatchEffects
  <2>2. LatestReplyBy(t)'
    <3>1. LatestReplyBy(t)
      BY <1>4 DEF ReplyInv, Replying
    <3>2. UNCHANGED messages
      BY <1>4, MessageEffects DEF AsksAvatar, StoresReply, Closing
    <3>3. QED
      BY <3>1, <3>2 DEF LatestReplyBy, Replies
  <2>3. turn[t].prior + 1 = Exchanges'
    <3>1. CASE turn[t].pc = "saveCount"
      <4>1. SaveCount(t)
        BY <1>4, <3>1, CalmTurns
           DEF TurnStep, LoadSession, LoadGmState, CountHistory, RereadGmState, ConsumePlan,
               SaveUserMessage, SaveAvatarMessage, Interrupt, TouchConversation, ClearNotes,
               ReadCount, CheckImplicitClose, ImplicitClose, ImplicitCloseFails
      <4>2. QED
        BY <1>2, <3>1, <4>1 DEF IndexInv, Indexed, Replying
    <3>2. CASE turn[t].pc \in Closing
      BY <1>2, <3>2 DEF IndexInv, Closing, SaveCount
    <3>3. QED
      BY <1>4, <3>1, <3>2
  <2>4. Exchanges' \in Nat
    BY <1>2
  <2>5. QED
    BY <1>1, <2>1, <2>2, <2>3, <2>4 DEF Recent
<1>5. QED
  <2>1. CASE CountsExchange(t)
    BY <1>3, <1>4, <2>1 DEF CountsExchange, SaveCount, TurnIndex
  <2>2. CASE Ends(t)
    BY <1>3, <1>4, <2>2 DEF Ends, TurnIndex, Closing
  <2>3. QED
    BY <1>3, <2>1, <2>2, TurnEffects DEF Advances, Counts, Prepares, Consumes, Rereads

LEMMA PlanIsKept ==
  ASSUME Calm, TypeInv, CountInv, OnePending, CalmInv, IndexInv, ReplyInv, PreparedInv,
         NEW t \in Turns, TurnStep(t)
  PROVE  PlanIsForThisTurn'
<1>1. \A u \in Turns : turn[u].plan # None => RepliesBefore(u)' = RepliesBefore(u)
  BY RepliesBeforeStep
<1>2. \A u \in Turns : u # t => turn'[u] = turn[u]
  BY TurnEffects
<1>3. CASE turn'[t].plan = turn[t].plan
  BY <1>1, <1>2, <1>3 DEF PreparedInv, PlanIsForThisTurn
<1>4. CASE Consumes(t)
  <2>1. ASSUME turn'[t].plan # None
        PROVE  IF RepliesBefore(t)' = {}
               THEN turn'[t].plan \in Ops
               ELSE \E m \in RepliesBefore(t)' :
                      /\ \A n \in RepliesBefore(t)' : n.at <= m.at
                      /\ m.turn = turn'[t].plan
    BY <1>4, TakesItsPlan DEF LatestReplyBy
  <2>2. QED
    BY <1>1, <1>2, <2>1 DEF PreparedInv, PlanIsForThisTurn
<1>5. QED
  BY <1>3, <1>4, TurnEffects
     DEF Advances, Counts, Prepares, Rereads, CountsExchange, Ends, Same

LEMMA PreparedStep ==
  ASSUME Calm, TypeInv, CountInv, OnePending, CalmInv, IndexInv, ReplyInv, PreparedInv,
         NEW t \in Turns, TurnStep(t)
  PROVE  PreparedInv'
<1>1. \A r \in RunIds, after \in Nat : Recent(r, after) => Recent(r, after)'
  BY RecentStep
<1>2. /\ Stored \in Plan \cup {None} /\ None \notin Plan /\ DefaultState.plan = None
      /\ \A u \in Turns : turn[u].state.plan \in Plan \cup {None}
      /\ \A p \in Plan : p.by \in RunIds /\ p.after \in Nat
  BY PlanTypes, SentinelsAreNotData DEF Plan
<1>3. \A u \in Turns : u # t => turn'[u] = turn[u]
  BY TurnEffects
<1>4. Stored' # None => \/ Stored # None /\ Stored'.by = Stored.by /\ Stored'.after = Stored.after
                        \/ /\ turn[t].state.plan # None
                           /\ Stored'.by = turn[t].state.plan.by
                           /\ Stored'.after = turn[t].state.plan.after
  <2>1. CASE UNCHANGED row
    BY <2>1 DEF Stored
  <2>2. CASE Consumes(t)
    <3>1. PICK new \in State :
            /\ row' = Save(row, new)
            /\ new.plan.by = turn[t].state.plan.by
            /\ new.plan.after = turn[t].state.plan.after
      BY <2>2 DEF Consumes
    <3>2. turn[t].state.plan # None
      BY <1>2, <2>2 DEF Consumes, TypeInv, TurnInv, TurnHasData
    <3>3. Stored' = new.plan \/ Stored' = Stored
      BY <3>1, SavedPlan, CountTypes DEF Stored
    <3>4. QED
      BY <3>1, <3>2, <3>3
  <2>3. CASE CountsExchange(t)
    <3>1. PICK new \in State : row' = Save(row, new) /\ new.plan = turn[t].state.plan
      BY <2>3 DEF CountsExchange
    <3>2. Stored' = new.plan \/ Stored' = Stored
      BY <3>1, SavedPlan, CountTypes DEF Stored
    <3>3. QED
      BY <3>1, <3>2
  <2>4. QED
    BY <2>1, <2>2, <2>3, TurnEffects DEF Advances, Counts, Prepares, Rereads, Ends
<1>5. Stored' # None => Recent(Stored.by, Stored.after)'
  BY <1>1, <1>2, <1>4 DEF PreparedInv, Recent, LatestReplyBy
<1>6. turn'[t].state.plan # None =>
        \/ turn[t].state.plan # None /\ turn'[t].state = turn[t].state
        \/ Stored # None /\ turn'[t].state.plan = Stored
  BY <1>2, TurnEffects
     DEF Advances, Counts, Prepares, Consumes, Rereads, CountsExchange, Ends, Stored
<1>7. ASSUME NEW u \in Turns, turn'[u].state.plan # None
      PROVE  Recent(turn[u].state.plan.by, turn[u].state.plan.after)'
  <2>1. \A p \in Plan : Recent(p.by, p.after) => Recent(p.by, p.after)'
    BY <1>1, <1>2
  <2>2. \/ turn[u].state.plan # None /\ turn'[u].state.plan = turn[u].state.plan
        \/ Stored # None /\ turn'[u].state.plan = Stored
    BY <1>3, <1>6, <1>7
  <2>3. CASE turn[u].state.plan # None /\ turn'[u].state.plan = turn[u].state.plan
    BY <1>2, <2>1, <2>3 DEF PreparedInv, Recent, LatestReplyBy
  <2>4. CASE Stored # None /\ turn'[u].state.plan = Stored
    BY <1>2, <2>1, <2>4 DEF PreparedInv, Recent, LatestReplyBy
  <2>5. QED
    BY <2>2, <2>3, <2>4
<1>8. \A u \in Turns : turn'[u].pc = "consume" => turn'[u].state.plan.after = turn'[u].prior
  <2>1. turn'[t].pc = "consume" => Prepares(t)
    BY TurnEffects DEF Advances, Path, Counts, Consumes, Rereads, CountsExchange, Ends
  <2>2. QED
    BY <1>3, <2>1 DEF Prepares, PreparedInv
<1>9. ASSUME NEW r \in RunIds, run'[r].pc \in Deciding PROVE Recent(r, run[r].turnIndex)'
  <2>1. CASE run'[r] = run[r]
    BY <1>1, <1>9, <2>1, CountTypes DEF PreparedInv, Run, Recent, LatestReplyBy
  <2>2. QED
    BY <2>1, ObservesItsExchange
<1>10. QED
  BY <1>5, <1>7, <1>8, <1>9, PlanIsKept DEF PreparedInv

LEMMA PreparedByRun ==
  ASSUME TypeInv, PreparedInv, NEW r \in RunIds, RunStep(r), UNCHANGED turn
  PROVE  PreparedInv'
<1>1. UNCHANGED messages
  BY DEF RunStep, ReadState, ReadSession, SessionUnreadable, ModelAnswers, ApplyUnlocks,
         ApplyRouting, SavePlan, SaveNotes, RunFails, FinishRun, storeVars
<1>2. Exchanges' = Exchanges /\ Replies' = Replies
  BY <1>1 DEF Exchanges, CountedTurns, CountedTurn, Replies
<1>3. \A q, after : Recent(q, after) => Recent(q, after)'
  BY <1>2 DEF Recent, LatestReplyBy
<1>4. \A q \in RunIds : run'[q].pc \in Deciding =>
        run[q].pc \in Deciding /\ run'[q].turnIndex = run[q].turnIndex
  BY RunEffects DEF SavesPlan, Works, Deciding
<1>5. Stored' # None => \/ Stored' = Stored
                        \/ /\ run[r].pc \in Deciding /\ Stored'.by = r
                           /\ Stored'.after = run[r].turnIndex
  <2>1. CASE SavesPlan(r)
    <3>1. PICK new \in State : /\ row' = Save(row, new)
                               /\ new.plan.by = r /\ new.plan.after = run[r].turnIndex
      BY <2>1 DEF SavesPlan
    <3>2. Stored' = new.plan \/ Stored' = Stored
      BY <3>1, SavedPlan, CountTypes DEF Stored
    <3>3. QED
      BY <2>1, <3>1, <3>2 DEF SavesPlan, SavePlan, Deciding
  <2>2. CASE Works(r)
    BY <2>2 DEF Works, Stored
  <2>3. QED
    BY <2>1, <2>2, RunEffects
<1>6. Stored' # None => Recent(Stored.by, Stored.after)'
  BY <1>3, <1>5 DEF PreparedInv, Recent, LatestReplyBy
<1>7. \A u \in Turns :
        /\ turn'[u].state.plan # None => Recent(turn[u].state.plan.by, turn[u].state.plan.after)'
        /\ turn'[u].pc = "consume" => turn'[u].state.plan.after = turn'[u].prior
  BY <1>3 DEF PreparedInv, Recent, LatestReplyBy
<1>8. \A q \in RunIds : run'[q].pc \in Deciding => Recent(q, run[q].turnIndex)'
  BY <1>3, <1>4 DEF PreparedInv, Recent, LatestReplyBy
<1>9. PlanIsForThisTurn'
  BY <1>1 DEF PreparedInv, PlanIsForThisTurn, RepliesBefore
<1>10. QED
  BY <1>6, <1>7, <1>8, <1>9 DEF PreparedInv

(* A lifecycle request and an arrival move no exchange, reply or plan.      *)
LEMMA PreparedByOthers ==
  ASSUME TypeInv, PreparedInv, UNCHANGED <<row, messages>>,
         \A t \in Turns : /\ turn'[t].state = turn[t].state /\ turn'[t].plan = turn[t].plan
                          /\ \/ turn'[t] = turn[t]
                             \/ turn[t].pc = "idle" /\ turn'[t].pc = "readSession",
         \A r \in RunIds : run'[r] = run[r] \/ (r \in Ops /\ run'[r].turnIndex = 0)
  PROVE  PreparedInv'
<1>1. Exchanges' = Exchanges /\ Replies' = Replies /\ Stored' = Stored
  <2>1. CountedTurns' = CountedTurns
    BY DEF CountedTurns, CountedTurn
  <2>2. QED
    BY <2>1 DEF Exchanges, Replies, Stored
<1>2. \A t \in Turns : turn'[t].pc \in Replying <=> turn[t].pc \in Replying
  BY DEF Replying
<1>3. \A q, after : Recent(q, after) => Recent(q, after)'
  BY <1>1, <1>2 DEF Recent, LatestReplyBy
<1>4. Stored' # None => Recent(Stored.by, Stored.after)'
  BY <1>1, <1>3 DEF PreparedInv, Recent, LatestReplyBy
<1>5. \A u \in Turns :
        /\ turn'[u].state.plan # None => Recent(turn[u].state.plan.by, turn[u].state.plan.after)'
        /\ turn'[u].pc = "consume" => turn'[u].state.plan.after = turn'[u].prior
  <2> SUFFICES ASSUME NEW u \in Turns
               PROVE  /\ turn'[u].state.plan # None =>
                           Recent(turn[u].state.plan.by, turn[u].state.plan.after)'
                      /\ turn'[u].pc = "consume" => turn'[u].state.plan.after = turn'[u].prior
    OBVIOUS
  <2>1. turn'[u].state = turn[u].state
    OBVIOUS
  <2>2. turn'[u].pc = "consume" => turn'[u] = turn[u]
    OBVIOUS
  <2>3. turn'[u].state.plan # None => Recent(turn[u].state.plan.by, turn[u].state.plan.after)'
    <3>1. turn[u].state.plan # None => Recent(turn[u].state.plan.by, turn[u].state.plan.after)
      BY DEF PreparedInv
    <3>2. (\E v \in Turns : turn[v].pc \in Replying) <=> (\E v \in Turns : turn'[v].pc \in Replying)
      BY <1>2
    <3>3. QED
      BY <1>1, <2>1, <3>1, <3>2 DEF Recent, LatestReplyBy
  <2>4. QED
    BY <2>2, <2>3 DEF PreparedInv
<1>6. ASSUME NEW r \in RunIds, run'[r].pc \in Deciding PROVE Recent(r, run[r].turnIndex)'
  <2>1. CASE run'[r] = run[r]
    BY <1>3, <1>6, <2>1 DEF PreparedInv, Recent, LatestReplyBy
  <2>2. CASE r \in Ops /\ run'[r].turnIndex = 0
    <3>1. r \notin Turns
      BY <2>2, DistinctIds
    <3>2. QED
      BY <2>2, <3>1 DEF Recent
  <2>3. QED
    BY <2>1, <2>2
<1>7. PlanIsForThisTurn'
  BY DEF PreparedInv, PlanIsForThisTurn, RepliesBefore
<1>8. QED
  BY <1>4, <1>5, <1>6, <1>7 DEF PreparedInv

LEMMA PreparedInvHolds ==
  ASSUME MaxInFlight \in {0, 1}, Calm
  PROVE  Spec => []PreparedInv
<1>1. Init => PreparedInv
  BY PlanTypes, InitTypeInv
     DEF Init, StoreInit, GmInit, TurnInit, IdleTurn, IdleRun, OrDefault, DefaultState, Stored,
         Deciding, PreparedInv, PlanIsForThisTurn
<1>2. /\ TypeInv /\ CountInv /\ PatientInv /\ CalmInv /\ IndexInv /\ ReplyInv /\ PreparedInv
      /\ [Next]_vars
      => PreparedInv'
  <2> SUFFICES ASSUME TypeInv, CountInv, PatientInv, CalmInv, IndexInv, ReplyInv, PreparedInv,
                      [Next]_vars
               PROVE  PreparedInv'
    OBVIOUS
  <2>1. ASSUME NEW o \in Ops, OpStep(o), UNCHANGED turn PROVE PreparedInv'
    <3>1. UNCHANGED <<row, messages>>
      BY <2>1, OpEffects, CalmOps
    <3>2. \A r \in RunIds : run'[r] = run[r] \/ (r \in Ops /\ run'[r].turnIndex = 0)
      <4>1. o \in RunIds
        BY DEF RunIds
      <4>2. QED
        BY <2>1, <4>1, OpEffects, DispatchEffects
    <3>3. QED
      BY <2>1, <3>1, <3>2, PreparedByOthers
  <2>2. ASSUME NEW t \in Turns, NEW c \in ConvIds, NEW m \in Modes, Receive(t, c, m)
        PROVE  PreparedInv'
    <3>1. /\ turn[t].pc = "idle" /\ turn'[t].pc = "readSession"
          /\ turn'[t].plan = turn[t].plan /\ turn'[t].state = turn[t].state
          /\ \A u \in Turns : u # t => turn'[u] = turn[u]
          /\ UNCHANGED <<row, run, messages>>
      BY <2>2, CountTypes DEF Receive, Turn, gmVars, storeVars
    <3>2. QED
      BY <3>1, PreparedByOthers
  <2>3. CASE UNCHANGED <<turn, row, run, messages>>
    BY <2>3, PreparedByOthers
  <2>4. QED
    BY <2>1, <2>2, <2>3, PreparedStep, PreparedByRun, StepCases
       DEF PatientInv, vars, gmVars, storeVars
<1>3. QED
  BY <1>1, <1>2, TypeInvHolds, CountInvHolds, PatientInvHolds, CalmInvHolds, IndexInvHolds,
     ReplyInvHolds, PTL DEF Spec

(* With one request at a time, and when initial runs succeed, no request    *)
(* fails and nothing is reset, the plan a turn consumes is the one prepared *)
(* for it, although the run that prepares it overlaps the requests and may  *)
(* fail or come too late, and streams may be interrupted.                   *)
THEOREM PlanIsForThisTurnHolds ==
  ASSUME MaxInFlight \in {0, 1}, Calm
  PROVE  Spec => []PlanIsForThisTurn
<1>1. PreparedInv => PlanIsForThisTurn
  BY DEF PreparedInv
<1>2. QED
  BY <1>1, PreparedInvHolds, PTL

-----------------------------------------------------------------------------
(* The ledger of exchanges and plans. *)

Unanswered == {"idle", "readSession", "readState", "countHistory", "rereadState", "consume"}

(* A plan was made for an opening, before any exchange, or for an exchange  *)
(* that was counted.                                                        *)
Traced(p) ==
  /\ p.by \in Ops => p.after = 0
  /\ p.by \in Turns => CountedTurn(p.by)

(* What a turn holds fits the exchanges counted when it uses it.  A turn    *)
(* that has no row takes its index from the messages, before the first      *)
(* exchange is counted.                                                     *)
LedgerInv ==
  /\ \A t \in Turns : turn[t].pc \in Unanswered => turn[t].plan = None
  /\ \A t \in Turns : turn[t].pc = "consume" => turn[t].state.plan.after = Exchanges
  /\ \A t \in Turns : turn[t].pc \in {"countHistory", "rereadState"} => Exchanges = 0
  /\ \A t \in Turns : turn[t].pc \in Indexed => turn[t].prior = Exchanges \/ Exchanges = 0
  /\ \A o \in Ops : run[o].pc \in Deciding => run[o].turnIndex = 0
  /\ \A p \in HeldPlans : Traced(p)

LEMMA StoredIsHeld ==
  /\ Stored # None => PlanOf(Stored) \in HeldPlans
  /\ \A t \in Turns : turn[t].state.plan # None => PlanOf(turn[t].state.plan) \in HeldPlans
  /\ Offer = IF Stored = None THEN {} ELSE {PlanOf(Stored)}
BY DEF HeldPlans, Offer, Stored

(* What is held after a step is what the row and the turns then hold.       *)
LEMMA HeldAfter ==
  ASSUME NEW X,
         Stored' # None => PlanOf(Stored') \in X,
         \A t \in Turns : turn'[t].state.plan # None => PlanOf(turn'[t].state.plan) \in X
  PROVE  HeldPlans' \subseteq X
<1>1. Offer' \subseteq X
  BY DEF Offer, Stored
<1>2. ASSUME NEW p \in {turn'[t].state.plan : t \in Turns} \ {None} PROVE PlanOf(p) \in X
  OBVIOUS
<1>3. QED
  BY <1>1, <1>2 DEF HeldPlans, PlanOf

(* No step of a turn brings in a plan from elsewhere.                       *)
LEMMA TurnsShareTheirPlans ==
  ASSUME TypeInv, NEW t \in Turns, TurnStep(t)
  PROVE  HeldPlans' \subseteq HeldPlans
<1>1. \A u \in Turns : u # t => turn'[u] = turn[u]
  BY TurnEffects
<1>2. DefaultState.plan = None
  BY DEF DefaultState
<1>3. SUFFICES /\ Stored' # None => PlanOf(Stored') \in HeldPlans
               /\ turn'[t].state.plan # None => PlanOf(turn'[t].state.plan) \in HeldPlans
  BY <1>1, StoredIsHeld, HeldAfter
<1>4. CASE UNCHANGED row /\ turn'[t].state \in {DefaultState, turn[t].state, OrDefault(row)}
  BY <1>2, <1>4, StoredIsHeld DEF Stored
<1>5. ASSUME NEW new \in State, row' = Save(row, new), turn'[t].state = DefaultState,
             new.plan # None => PlanOf(new.plan) \in HeldPlans
      PROVE  /\ Stored' # None => PlanOf(Stored') \in HeldPlans
             /\ turn'[t].state.plan # None => PlanOf(turn'[t].state.plan) \in HeldPlans
  <2>1. Stored' = new.plan \/ Stored' = Stored
    BY <1>5, CountTypes, SavedPlan DEF Stored
  <2>2. QED
    BY <1>2, <1>5, <2>1, StoredIsHeld
<1>6. CASE Consumes(t)
  <2>1. PICK new \in State :
          /\ row' = Save(row, new)
          /\ new.plan.by = turn[t].state.plan.by
          /\ new.plan.after = turn[t].state.plan.after
    BY <1>6 DEF Consumes
  <2>2. turn[t].state.plan # None
    BY <1>6, SentinelsAreNotData DEF Consumes, TypeInv, TurnInv, TurnHasData
  <2>3. PlanOf(new.plan) \in HeldPlans
    BY <2>1, <2>2, StoredIsHeld DEF PlanOf
  <2>4. QED
    BY <1>5, <1>6, <2>1, <2>3 DEF Consumes
<1>7. CASE CountsExchange(t)
  BY <1>5, <1>7, StoredIsHeld DEF CountsExchange
<1>8. CASE Advances(t) \/ Counts(t) \/ Prepares(t) \/ Rereads(t) \/ Ends(t)
  BY <1>4, <1>8 DEF Advances, Counts, Prepares, Rereads, Ends
<1>9. QED
  BY <1>6, <1>7, <1>8, TurnEffects

LEMMA TracedIsKept ==
  ASSUME TypeInv, [Next]_vars, NEW p, Traced(p)
  PROVE  Traced(p)'
<1>1. ASSUME NEW t \in Turns, CountedTurn(t) PROVE CountedTurn(t)'
  <2>1. CASE \E u \in Turns : TurnStep(u)
    <3>1. PICK u \in Turns : TurnStep(u)
      BY <2>1
    <3>2. CountedTurns \subseteq CountedTurns'
      BY <3>1, CountedTurnStep
    <3>3. QED
      BY <1>1, <3>2 DEF CountedTurns
  <2>2. CASE \E u \in Turns, c \in ConvIds, m \in Modes : Receive(u, c, m)
    <3>1. PICK u \in Turns, c \in ConvIds, m \in Modes : Receive(u, c, m)
      BY <2>2
    <3>2. u # t /\ turn'[t] = turn[t]
      BY <1>1, <3>1, CountTypes DEF Receive, CountedTurn
    <3>3. QED
      BY <1>1, <3>2 DEF CountedTurn
  <2>3. CASE UNCHANGED turn
    BY <1>1, <2>3 DEF CountedTurn
  <2>4. QED
    BY <2>1, <2>2, <2>3, StepCases DEF vars
<1>2. QED
  BY <1>1 DEF Traced

(* The step of a turn, which is then the only one that is served.           *)
LEMMA LedgerByTurn ==
  ASSUME TypeInv, CountInv, PatientInv, UsedInv, StartsOnce, LedgerInv, [Next]_vars,
         NEW t \in Turns, TurnStep(t)
  PROVE  LedgerInv'
<1>1. /\ \A u \in Turns : u # t => turn'[u] = turn[u] /\ ~InFlight(u)'
      /\ Exchanges \in Nat
      /\ Exchanges' = IF SaveCount(t) THEN Exchanges + 1 ELSE Exchanges
      /\ SaveCount(t) => turn[t].pc = "saveCount"
  BY OthersAreOver, ExchangesStep DEF PatientInv, SaveCount
<1>2. \A p \in HeldPlans' : Traced(p)'
  BY TurnsShareTheirPlans, TracedIsKept DEF LedgerInv
<1>3. \A o \in Ops : run'[o] = run[o]
  <2>1. Ops \subseteq RunIds /\ Turns \subseteq RunIds /\ \A o \in Ops : o # t
    BY DistinctIds DEF RunIds
  <2>2. QED
    BY <2>1, TurnStepStartsRun, DispatchEffects
<1>4. row # NoRow => row.count = Exchanges
  BY DEF PatientInv, CountIsExact, OrDefault, Exchanges
<1>5. row = NoRow => Exchanges = 0
  BY DEF PatientInv, CountIsExact, OrDefault, DefaultState, Exchanges
<1>6. SUFFICES /\ turn'[t].pc \in Unanswered => turn'[t].plan = None
               /\ turn'[t].pc = "consume" => turn'[t].state.plan.after = Exchanges'
               /\ turn'[t].pc \in {"countHistory", "rereadState"} => Exchanges' = 0
               /\ turn'[t].pc \in Indexed => turn'[t].prior = Exchanges' \/ Exchanges' = 0
  <2>1. ASSUME NEW u \in Turns, u # t
        PROVE  /\ turn'[u].pc \in Unanswered => turn'[u].plan = None
               /\ turn'[u].pc \notin {"consume", "countHistory", "rereadState"} \cup Indexed
    BY <1>1, <2>1 DEF LedgerInv, InFlight, Ended, Indexed, Replying
  <2>2. QED
    BY <1>2, <1>3, <1>6, <2>1 DEF LedgerInv
<1>7. CASE Advances(t)
  BY <1>1, <1>5, <1>7 DEF Advances, Same, Path, LedgerInv, Unanswered, Indexed, Replying
<1>8. CASE Counts(t)
  BY <1>1, <1>8 DEF Counts, Same, LedgerInv, Unanswered, Indexed, Replying
<1>9. CASE Prepares(t)
  <2>1. Exchanges' = Exchanges
    BY <1>1, <1>9 DEF Prepares
  <2>2. turn'[t].prior = Exchanges \/ Exchanges = 0
    BY <1>4, <1>9 DEF Prepares, LedgerInv
  <2>3. ASSUME turn'[t].pc = "consume" PROVE turn'[t].state.plan.after = Exchanges
    <3>1. /\ turn'[t].state.plan = Stored /\ Stored # None
          /\ Stored.after = turn'[t].prior
      BY <1>9, <2>3 DEF Prepares, Stored
    <3>2. CASE Exchanges = 0
      <4>1. CountedTurns = {}
        BY <3>2, FS_EmptySet DEF CountInv, Exchanges
      <4>2. Traced(PlanOf(Stored)) /\ Stored.by \in RunIds
        BY <3>1, StoredIsHeld, PlanTypes DEF LedgerInv, Plan
      <4>3. Stored.after = 0
        BY <4>1, <4>2 DEF Traced, PlanOf, CountedTurns, RunIds
      <4>4. QED
        BY <3>1, <3>2, <4>3
    <3>3. QED
      BY <2>2, <3>1, <3>2
  <2>4. turn'[t].plan = None
    BY <1>9 DEF Prepares, Same, LedgerInv, Unanswered
  <2>5. QED
    BY <1>9, <2>1, <2>2, <2>3, <2>4 DEF Prepares
<1>10. CASE Consumes(t) \/ Rereads(t)
  BY <1>1, <1>10 DEF Consumes, Rereads, LedgerInv, Unanswered, Indexed, Replying
<1>11. CASE CountsExchange(t)
  BY <1>11 DEF CountsExchange, Unanswered, Indexed, Replying
<1>12. CASE Ends(t)
  BY <1>12 DEF Ends, Unanswered, Indexed, Replying
<1>13. QED
  BY <1>7, <1>8, <1>9, <1>10, <1>11, <1>12, TurnEffects

(* A run hands on the plan of the request that started it, or nothing.      *)
LEMMA RunsPublishTheirPlan ==
  ASSUME TypeInv, NEW r \in RunIds, RunStep(r), UNCHANGED turn
  PROVE  /\ SavesPlan(r) => HeldPlans' \subseteq HeldPlans \cup {[by |-> r, after |-> run[r].turnIndex]}
         /\ Works(r) => HeldPlans' = HeldPlans
<1>1. ASSUME SavesPlan(r)
      PROVE  HeldPlans' \subseteq HeldPlans \cup {[by |-> r, after |-> run[r].turnIndex]}
  <2>1. PICK new \in State :
          row' = Save(row, new) /\ new.plan.by = r /\ new.plan.after = run[r].turnIndex
    BY <1>1 DEF SavesPlan
  <2>2. Stored' = new.plan \/ Stored' = Stored
    BY <2>1, CountTypes, SavedPlan DEF Stored
  <2>3. PlanOf(new.plan) = [by |-> r, after |-> run[r].turnIndex]
    BY <2>1 DEF PlanOf
  <2>4. QED
    BY <2>2, <2>3, StoredIsHeld, HeldAfter
<1>2. Works(r) => HeldPlans' = HeldPlans
  BY DEF Works, HeldPlans, Offer
<1>3. QED
  BY <1>1, <1>2

LEMMA LedgerInvHolds ==
  ASSUME MaxInFlight \in {0, 1}
  PROVE  Spec => []LedgerInv
<1>1. Init => LedgerInv
  <2> SUFFICES ASSUME Init PROVE LedgerInv
    OBVIOUS
  <2>1. /\ \A t \in Turns : turn[t] = IdleTurn
        /\ \A o \in Ops : run[o] = IdleRun
        /\ Stored = None
    BY DEF Init, TurnInit, GmInit, StoreInit, Stored, OrDefault, DefaultState, RunIds
  <2>2. /\ IdleTurn.pc = "idle" /\ IdleTurn.plan = None /\ IdleTurn.state.plan = None
        /\ IdleRun.pc = "idle"
    BY DEF IdleTurn, IdleRun, DefaultState
  <2>3. HeldPlans = {}
    BY <2>1, <2>2 DEF HeldPlans, Offer, Stored
  <2>4. QED
    BY <2>1, <2>2, <2>3 DEF LedgerInv, Unanswered, Indexed, Replying, Deciding
<1>2. TypeInv /\ CountInv /\ PatientInv /\ UsedInv /\ StartsOnce /\ LedgerInv /\ [Next]_vars
        => LedgerInv'
  <2> SUFFICES ASSUME TypeInv, CountInv, PatientInv, UsedInv, StartsOnce, LedgerInv, [Next]_vars
               PROVE  LedgerInv'
    OBVIOUS
  <2>1. CASE \E t \in Turns : TurnStep(t)
    BY <2>1, LedgerByTurn
  <2>2. Turns \subseteq RunIds /\ Ops \subseteq RunIds /\ turn \in [Turns -> Turn]
    BY CountTypes DEF RunIds
  <2>3. ASSUME UNCHANGED turn,
               \A o \in Ops : run'[o].pc \in Deciding => run'[o].turnIndex = 0,
               \A p \in HeldPlans' : Traced(p)'
        PROVE  LedgerInv'
    BY <2>3 DEF LedgerInv, Exchanges, CountedTurns, CountedTurn
  <2>4. CASE \E r \in RunIds : RunStep(r) /\ UNCHANGED <<turn, op>>
    <3>1. PICK r \in RunIds : RunStep(r) /\ UNCHANGED turn
      BY <2>4
    <3>2. \A o \in Ops : run'[o].pc \in Deciding => run'[o].turnIndex = 0
      <4>1. SavesPlan(r) => run'[r].pc \notin Deciding
        BY DEF SavesPlan, Deciding
      <4>2. QED
        BY <2>2, <3>1, <4>1, RunEffects DEF Works, LedgerInv
    <3>3. \A p \in HeldPlans' : Traced(p)'
      <4>1. ASSUME SavesPlan(r) PROVE Traced([by |-> r, after |-> run[r].turnIndex])
        <5>1. run[r].pc \in Deciding
          BY <4>1 DEF SavesPlan, SavePlan, Deciding
        <5>2. r \in Ops => run[r].turnIndex = 0
          BY <5>1 DEF LedgerInv
        <5>3. r \in Turns => CountedTurn(r)
          BY <5>1 DEF StartsOnce, Deciding
        <5>4. QED
          BY <5>2, <5>3 DEF Traced
      <4>2. \A p \in HeldPlans' : Traced(p)
        BY <3>1, <4>1, RunEffects, RunsPublishTheirPlan DEF LedgerInv
      <4>3. QED
        BY <4>2, TracedIsKept
    <3>4. QED
      BY <2>3, <3>1, <3>2, <3>3
  <2>5. CASE \E o \in Ops : OpStep(o) /\ UNCHANGED turn
    <3>1. PICK o \in Ops : OpStep(o) /\ UNCHANGED turn
      BY <2>5
    <3>2. \A q \in Ops : run'[q].pc \in Deciding => run'[q].turnIndex = 0
      BY <2>2, <3>1, OpEffects, DispatchEffects DEF LedgerInv
    <3>3. HeldPlans' = HeldPlans
      BY <3>1, OpEffects DEF HeldPlans, Offer
    <3>4. QED
      BY <2>3, <3>1, <3>2, <3>3, TracedIsKept DEF LedgerInv
  <2>6. CASE UNCHANGED <<turn, run, row>>
    <3>1. HeldPlans' = HeldPlans
      BY <2>6 DEF HeldPlans, Offer
    <3>2. QED
      BY <2>3, <2>6, <3>1, TracedIsKept DEF LedgerInv
  <2>7. CASE \E t \in Turns, c \in ConvIds, m \in Modes : Receive(t, c, m)
    <3>1. PICK t \in Turns, c \in ConvIds, m \in Modes : Receive(t, c, m)
      BY <2>7
    <3>2. /\ turn[t].pc = "idle" /\ turn'[t].pc = "readSession"
          /\ turn'[t].plan = turn[t].plan /\ turn'[t].state = turn[t].state
          /\ \A u \in Turns : u # t => turn'[u] = turn[u]
          /\ UNCHANGED <<run, row>>
      BY <2>2, <3>1 DEF Receive, Turn, gmVars, storeVars
    <3>3. CountedTurns' = CountedTurns
      BY <3>2 DEF CountedTurns, CountedTurn
    <3>4. HeldPlans' \subseteq HeldPlans
      <4>1. Stored' = Stored /\ \A u \in Turns : turn'[u].state = turn[u].state
        BY <3>2 DEF Stored
      <4>2. QED
        BY <4>1, StoredIsHeld, HeldAfter
    <3>5. QED
      BY <3>2, <3>3, <3>4, TracedIsKept DEF LedgerInv, Exchanges, Unanswered, Indexed, Replying
  <2>8. QED
    BY <2>1, <2>4, <2>5, <2>6, <2>7, StepCases DEF vars, gmVars, storeVars
<1>3. QED
  BY <1>1, <1>2, TypeInvHolds, CountInvHolds, PatientInvHolds, UsedInvHolds, StartsOnceHolds, PTL
     DEF Spec

(* The refinement, step by step. *)

(* The plans being made after a step of which only r's may be affected.     *)
LEMMA MakingAfter ==
  ASSUME NEW r \in RunIds,
         \A q \in RunIds : q # r =>
           /\ MakesPlan(q)' <=> MakesPlan(q)
           /\ MakesPlan(q) => MadeAfter(q)' = MadeAfter(q)
  PROVE  /\ /\ MakesPlan(r)' <=> MakesPlan(r)
            /\ MakesPlan(r) => MadeAfter(r)' = MadeAfter(r)
            => Making' = Making
         /\ MakesPlan(r)' /\ ~MakesPlan(r) =>
              Making' = Making \cup {[by |-> r, after |-> MadeAfter(r)']}
         /\ ~MakesPlan(r)' /\ MakesPlan(r) =>
              Making' = Making \ {[by |-> r, after |-> MadeAfter(r)]}
<1>1. \A p : p \in Making <=> \E q \in RunIds : MakesPlan(q) /\ p = [by |-> q, after |-> MadeAfter(q)]
  BY DEF Making
<1>2. \A p : p \in Making' <=> \E q \in RunIds : MakesPlan(q)' /\ p = [by |-> q, after |-> MadeAfter(q)']
  BY DEF Making
<1>3. \A q, a, b : [by |-> q, after |-> a] = [by |-> r, after |-> b] => q = r
  <2>1. \A q, a : [by |-> q, after |-> a].by = q
    OBVIOUS
  <2>2. QED
    BY <2>1
<1>4. ASSUME MakesPlan(r)' <=> MakesPlan(r), MakesPlan(r) => MadeAfter(r)' = MadeAfter(r)
      PROVE  Making' = Making
  <2>1. \A q \in RunIds : /\ MakesPlan(q)' <=> MakesPlan(q)
                          /\ MakesPlan(q) => MadeAfter(q)' = MadeAfter(q)
    BY <1>4
  <2>2. \A p : p \in Making' <=> p \in Making
    BY <1>1, <1>2, <2>1
  <2>3. QED
    BY <2>2
<1>5. ASSUME MakesPlan(r)', ~MakesPlan(r)
      PROVE  Making' = Making \cup {[by |-> r, after |-> MadeAfter(r)']}
  <2>1. ASSUME NEW p PROVE p \in Making' <=> p \in Making \/ p = [by |-> r, after |-> MadeAfter(r)']
    BY <1>1, <1>2, <1>5
  <2>2. QED
    BY <2>1
<1>6. ASSUME ~MakesPlan(r)', MakesPlan(r)
      PROVE  Making' = Making \ {[by |-> r, after |-> MadeAfter(r)]}
  <2>1. ASSUME NEW p PROVE p \in Making' <=> p \in Making /\ p # [by |-> r, after |-> MadeAfter(r)]
    BY <1>1, <1>2, <1>3, <1>6
  <2>2. QED
    BY <2>1
<1>7. QED
  BY <1>4, <1>5, <1>6

(* The plan the row offers gives way to one that is not older.              *)
LEMMA OfferAfter ==
  ASSUME TypeInv, NEW new \in State, row' = Save(row, new)
  PROVE  Offer' = IF new.plan = None THEN Offer ELSE Ledger!Later(PlanOf(new.plan))
<1>1. /\ row \in State \cup {NoRow} /\ NoRow \notin State /\ row' \in State
      /\ Stored \in Plan \cup {None} /\ new.plan \in Plan \cup {None} /\ None \notin Plan
  BY CountTypes, PlanTypes, SaveType, SentinelsAreNotData DEF State
<1>2. Stored' = MergePlan(Stored, new.plan)
  <2>1. CASE row = NoRow
    BY <1>1, <2>1 DEF Stored, OrDefault, DefaultState, Save, MergePlan
  <2>2. CASE row # NoRow
    BY <1>1, <2>2 DEF Stored, OrDefault, Save
  <2>3. QED
    BY <2>1, <2>2
<1>3. /\ Offer = IF Stored = None THEN {} ELSE {PlanOf(Stored)}
      /\ Offer' = IF Stored' = None THEN {} ELSE {PlanOf(Stored')}
  BY DEF Offer, Stored
<1>4. PlanOf(new.plan).after = new.plan.after /\ PlanOf(Stored).after = Stored.after
  BY DEF PlanOf
<1>5. CASE new.plan = None
  BY <1>2, <1>3, <1>5 DEF MergePlan
<1>6. CASE new.plan # None /\ Stored = None
  BY <1>2, <1>3, <1>6 DEF MergePlan, Ledger!Later
<1>7. CASE new.plan # None /\ Stored # None
  <2>1. Offer = {PlanOf(Stored)}
    BY <1>3, <1>7
  <2>2. Ledger!Later(PlanOf(new.plan)) =
          IF Stored.after > new.plan.after THEN {PlanOf(Stored)} ELSE {PlanOf(new.plan)}
    BY <1>4, <2>1 DEF Ledger!Later
  <2>3. Stored' = IF Stored.after > new.plan.after THEN Stored ELSE new.plan
    BY <1>2, <1>7 DEF MergePlan
  <2>4. QED
    BY <1>3, <1>7, <2>2, <2>3
<1>8. QED
  BY <1>5, <1>6, <1>7

(* An exchange that is counted has its run started at once, or when its     *)
(* stream has closed the conversation; there is no other end of a farewell. *)
LEMMA CountingStartsTheRun ==
  ASSUME TypeInv, NEW t \in Turns, SaveCount(t)
  PROVE  \/ Dispatch(t, TurnIndex(t), turn[t].avatar)
         \/ /\ UNCHANGED run
            /\ WillDecide(t)' /\ TurnIndex(t)' = TurnIndex(t)
<1>1. CASE turn[t].mode.bye /\ turn[t].mode.streaming
  <2>1. /\ turn' = [turn EXCEPT ![t] = [@ EXCEPT !.pc = "checkClose", !.state = DefaultState]]
        /\ UNCHANGED run
    BY <1>1 DEF SaveCount, gmVars
  <2>2. QED
    BY <1>1, <2>1, CountTypes DEF WillDecide, TurnIndex, Turn
<1>2. CASE ~(turn[t].mode.bye /\ turn[t].mode.streaming)
  BY <1>2 DEF SaveCount, StartGameMaster
<1>3. QED
  BY <1>1, <1>2

LEMMA FarewellsStartTheRun ==
  ASSUME TypeInv, NEW t \in Turns, TurnStep(t), WillDecide(t), turn'[t].pc = "done"
  PROVE  Dispatch(t, TurnIndex(t), turn[t].avatar)
<1>1. CheckImplicitClose(t) \/ ImplicitClose(t) \/ ImplicitCloseFails(t)
  BY DEF WillDecide, TurnStep, LoadSession, LoadGmState, CountHistory, RereadGmState, ConsumePlan,
         SaveUserMessage, SaveAvatarMessage, Interrupt, TouchConversation, ClearNotes,
         ReadCount, SaveCount, TurnFails, CountedTurn
<1>2. ~GotoTurn(t, "close")
  BY CountTypes DEF GotoTurn, Turn
<1>3. ReturnTurn(t)
  BY <1>1, <1>2 DEF CheckImplicitClose, ImplicitClose, ImplicitCloseFails
<1>4. QED
  BY <1>3 DEF ReturnTurn, StartGameMaster, WillDecide

LedgerStep == [Ledger!LedgerNext]_(Ledger!ledgerVars)

(* Everything the steps below rest on. *)
LedgerFacts ==
  /\ TypeInv /\ CountInv /\ PatientInv /\ UsedInv /\ StartsOnce /\ LedgerInv
  /\ Calm => IndexInv

(* The count that the row shows is that of the exchanges, also afterwards.  *)
LEMMA CountShown ==
  ASSUME PatientInv, PatientInv'
  PROVE  /\ OrDefault(row).count = Exchanges
         /\ OrDefault(row').count = Exchanges'
BY DEF PatientInv, CountIsExact, Exchanges

(* A step that records, answers and publishes nothing.                      *)
LEMMA ForgettingStep ==
  ASSUME UNCHANGED row, HeldPlans' \subseteq HeldPlans, Begun' = Begun, Making' = Making,
         \A t \in Turns : turn'[t].plan = turn[t].plan
  PROVE  LedgerStep
<1>1. Offer' = Offer
  BY DEF Offer
<1>2. [t \in Turns |-> turn'[t].plan] = [t \in Turns |-> turn[t].plan]
  OBVIOUS
<1>3. Ledger!Forget
  BY <1>1, <1>2 DEF Ledger!Forget
<1>4. QED
  BY <1>3 DEF LedgerStep, Ledger!LedgerNext

(* A step of a turn affects the plan of its own run only.                   *)
LEMMA OthersMakeTheirPlans ==
  ASSUME TypeInv, NEW t \in Turns, TurnStep(t), NEW q \in RunIds, q # t
  PROVE  /\ run'[q] = run[q]
         /\ MakesPlan(q)' <=> MakesPlan(q)
         /\ MakesPlan(q) => MadeAfter(q)' = MadeAfter(q)
<1>1. run'[q] = run[q]
  <2>1. t \in RunIds
    BY DEF RunIds
  <2>2. QED
    BY <2>1, TurnStepStartsRun, DispatchEffects
<1>2. q \in Turns => turn'[q] = turn[q]
  BY TurnEffects
<1>3. QED
  BY <1>1, <1>2 DEF MakesPlan, MadeAfter, WillDecide, TurnIndex

LEMMA CountingRecords ==
  ASSUME LedgerFacts, PatientInv', NEW t \in Turns, TurnStep(t), CountsExchange(t)
  PROVE  LedgerStep
<1> USE DEF LedgerFacts
<1>1. /\ turn[t].pc = "saveCount" /\ SaveCount(t) /\ t \in RunIds /\ t \notin Ops
      /\ turn[t].prior \in Nat
  BY CountTypes, DistinctIds DEF CountsExchange, SaveCount, RunIds, Turn
<1>2. run[t].pc = "idle" /\ ~MakesPlan(t)
  BY <1>1 DEF StartsOnce, CountedTurn, MakesPlan, Deciding, WillDecide
<1>3. MakesPlan(t)' /\ MadeAfter(t)' = TurnIndex(t)
  <2>1. CASE Dispatch(t, TurnIndex(t), turn[t].avatar)
    BY <1>1, <2>1, DispatchEffects DEF MakesPlan, MadeAfter, Deciding
  <2>2. CASE UNCHANGED run /\ WillDecide(t)' /\ TurnIndex(t)' = TurnIndex(t)
    BY <1>2, <2>2 DEF MakesPlan, MadeAfter, Deciding
  <2>3. QED
    BY <1>1, <2>1, <2>2, CountingStartsTheRun
<1>4. Making' = Making \cup {[by |-> t, after |-> TurnIndex(t)]}
  BY <1>1, <1>2, <1>3, OthersMakeTheirPlans, MakingAfter
<1>5. Begun' = Begun \cup {t} /\ t \notin Begun
  <2>1. CountedTurns' = CountedTurns \cup {t} /\ t \notin CountedTurns
    BY <1>1, CountedTurnStep DEF CountedTurns, CountedTurn
  <2>2. \A o \in Ops : run'[o] = run[o]
    BY <1>1, OthersMakeTheirPlans DEF RunIds
  <2>3. QED
    BY <1>1, <2>1, <2>2 DEF Begun
<1>6. OrDefault(row').count = OrDefault(row).count + 1 /\ OrDefault(row).count = Exchanges
  BY <1>1, CountShown, ExchangesStep
<1>7. LET n == TurnIndex(t)
      IN  n = Exchanges + 1 \/ (Exchanges = 0 /\ n \in IF Calm THEN {1} ELSE Nat \ {0})
  <2>1. CASE Calm
    BY <1>1, <2>1 DEF IndexInv, Indexed, Replying, TurnIndex
  <2>2. CASE ~Calm
    BY <1>1, <2>2 DEF LedgerInv, Indexed, Replying, TurnIndex
  <2>3. QED
    BY <2>1, <2>2
<1>8. Offer' = Offer \/ \E p \in HeldPlans : Offer' = Ledger!Later(p)
  <2>1. PICK new \in State : row' = Save(row, new) /\ new.plan = turn[t].state.plan
    BY DEF CountsExchange
  <2>2. QED
    BY <2>1, OfferAfter, StoredIsHeld
<1>9. HeldPlans' \subseteq HeldPlans
  BY TurnsShareTheirPlans
<1>10. [u \in Turns |-> turn'[u].plan] = [u \in Turns |-> turn[u].plan]
  BY TurnEffects DEF CountsExchange
<1>11. Ledger!Record(t)
  <2> DEFINE p == [by |-> t, after |-> TurnIndex(t)]
  <2>1. p \in Making' /\ p.by = t /\ p.after = TurnIndex(t) /\ Making' = Making \cup {p}
    BY <1>4
  <2>2. Ledger!NumbersIt(p.after)
    BY <1>6, <1>7, <2>1 DEF Ledger!NumbersIt
  <2> HIDE DEF p
  <2>3. \E q \in Making' : q.by = t /\ Ledger!NumbersIt(q.after) /\ Making' = Making \cup {q}
    BY <2>1, <2>2
  <2>4. QED
    BY <1>5, <1>6, <1>8, <1>9, <1>10, <2>3 DEF Ledger!Record
<1>12. QED
  BY <1>11 DEF LedgerStep, Ledger!LedgerNext

LEMMA ConsumingAnswers ==
  ASSUME LedgerFacts, PatientInv', NEW t \in Turns, TurnStep(t), Consumes(t)
  PROVE  LedgerStep
<1> USE DEF LedgerFacts
<1>1. /\ turn[t].pc = "consume" /\ turn'[t].pc = "saveUser" /\ t \in RunIds /\ t \notin Ops
      /\ UNCHANGED run
      /\ turn[t].state.plan # None /\ turn[t].state.plan.consumed = None
      /\ turn'[t].plan = turn[t].state.plan.by
  BY DistinctIds, SentinelsAreNotData
     DEF Consumes, RunIds, UsedInv, TypeInv, TurnInv, TurnHasData
<1>2. PICK p \in HeldPlans : p = PlanOf(turn[t].state.plan)
  BY <1>1, StoredIsHeld
<1>3. p.by = turn[t].state.plan.by /\ p.after = turn[t].state.plan.after
  BY <1>2 DEF PlanOf
<1>4. \A u \in Turns : turn[u].plan # p.by
  BY <1>1, <1>3 DEF UsedInv, Unused
<1>5. ~SaveCount(t)
  BY <1>1 DEF SaveCount
<1>6. OrDefault(row).count = p.after /\ OrDefault(row').count = OrDefault(row).count
  BY <1>1, <1>3, <1>5, CountShown, ExchangesStep DEF LedgerInv
<1>7. Begun' = Begun /\ t \notin Begun
  BY <1>1, <1>5, CountedTurnStep DEF Begun, CountedTurns, CountedTurn
<1>8. Making' = Making
  BY <1>1, OthersMakeTheirPlans, MakingAfter DEF MakesPlan, MadeAfter, WillDecide
<1>9. Offer' = Ledger!Later(p)
  <2>1. PICK new \in State :
          /\ row' = Save(row, new) /\ new.plan \in Plan
          /\ new.plan.by = turn[t].state.plan.by
          /\ new.plan.after = turn[t].state.plan.after
    BY DEF Consumes
  <2>2. new.plan # None /\ PlanOf(new.plan) = p
    BY <1>2, <2>1, SentinelsAreNotData DEF PlanOf
  <2>3. QED
    BY <2>1, <2>2, OfferAfter
<1>10. HeldPlans' \subseteq HeldPlans
  BY TurnsShareTheirPlans
<1>11. [u \in Turns |-> turn'[u].plan] = [[u \in Turns |-> turn[u].plan] EXCEPT ![t] = p.by]
  BY <1>1, <1>3, TurnEffects
<1>12. turn[t].plan = None
  BY <1>1 DEF LedgerInv, Unanswered
<1>13. Ledger!Answer(t, p)
  BY <1>4, <1>6, <1>7, <1>8, <1>9, <1>10, <1>11, <1>12 DEF Ledger!Answer
<1>14. QED
  BY <1>13 DEF LedgerStep, Ledger!LedgerNext

LEMMA OtherTurnStepsForget ==
  ASSUME LedgerFacts, NEW t \in Turns, TurnStep(t), ~CountsExchange(t), ~Consumes(t)
  PROVE  LedgerStep
<1> USE DEF LedgerFacts
<1>1. t \in RunIds /\ t \notin Ops /\ HeldPlans' \subseteq HeldPlans
  BY DistinctIds, TurnsShareTheirPlans DEF RunIds
<1>2. UNCHANGED row /\ turn'[t].plan = turn[t].plan
  BY TurnEffects DEF Advances, Counts, Prepares, Rereads, Ends, Same
<1>3. \A u \in Turns : turn'[u].plan = turn[u].plan
  BY <1>2, TurnEffects
<1>4. Begun' = Begun
  <2>1. ASSUME SaveCount(t) PROVE FALSE
    <3>1. turn[t].pc = "saveCount" /\ turn'[t].pc \in {"checkClose", "close", "done"}
      BY <2>1, CountedTurnStep DEF SaveCount, CountedTurns, CountedTurn
    <3>2. QED
      BY <3>1, TurnEffects DEF Advances, Counts, Prepares, Rereads, Ends, Path
  <2>2. CountedTurns' = CountedTurns
    BY <2>1, CountedTurnStep
  <2>3. \A o \in Ops : run'[o] = run[o]
    BY <1>1, OthersMakeTheirPlans DEF RunIds
  <2>4. QED
    BY <2>2, <2>3 DEF Begun
<1>5. /\ MakesPlan(t)' <=> MakesPlan(t)
      /\ MakesPlan(t) => MadeAfter(t)' = MadeAfter(t)
  <2>1. ASSUME UNCHANGED run, WillDecide(t)' <=> WillDecide(t),
               WillDecide(t) => TurnIndex(t)' = TurnIndex(t)
        PROVE  /\ MakesPlan(t)' <=> MakesPlan(t)
               /\ MakesPlan(t) => MadeAfter(t)' = MadeAfter(t)
    BY <2>1 DEF MakesPlan, MadeAfter
  <2>2. CASE Advances(t)
    BY <2>1, <2>2 DEF Advances, Same, Path, WillDecide, TurnIndex
  <2>3. CASE Counts(t) \/ Prepares(t) \/ Rereads(t)
    BY <2>1, <2>3 DEF Counts, Prepares, Rereads, WillDecide
  <2>4. CASE Ends(t) /\ WillDecide(t)
    <3>1. turn'[t].pc = "done" /\ run[t].pc = "idle"
      BY <2>4 DEF Ends, WillDecide, TurnFails, CountedTurn, StartsOnce
    <3>2. Dispatch(t, TurnIndex(t), turn[t].avatar)
      BY <2>4, <3>1, FarewellsStartTheRun
    <3>3. run'[t].pc = "readState" /\ run'[t].turnIndex = TurnIndex(t)
      BY <1>1, <3>2, DispatchEffects
    <3>4. QED
      BY <2>4, <3>1, <3>3 DEF MakesPlan, MadeAfter, Deciding
  <2>5. CASE Ends(t) /\ ~WillDecide(t)
    <3>1. UNCHANGED run
      BY <2>5 DEF Ends, WillDecide
    <3>2. ~WillDecide(t)'
      BY <2>5 DEF Ends, WillDecide
    <3>3. QED
      BY <2>1, <2>5, <3>1, <3>2
  <2>6. QED
    BY <2>2, <2>3, <2>4, <2>5, TurnEffects
<1>6. Making' = Making
  BY <1>1, <1>5, OthersMakeTheirPlans, MakingAfter
<1>7. QED
  BY <1>1, <1>2, <1>3, <1>4, <1>6, ForgettingStep

LEMMA RunsPublishOrAbandon ==
  ASSUME LedgerFacts, PatientInv', NEW r \in RunIds, RunStep(r), UNCHANGED <<turn, op>>
  PROVE  LedgerStep
<1> USE DEF LedgerFacts
<1>1. /\ \A q \in RunIds : q # r => run'[q] = run[q]
      /\ run[r].pc # "idle" /\ run'[r].pc # "idle"
      /\ SavesPlan(r) \/ Works(r)
  BY RunEffects DEF SavesPlan, Works
<1>2. Begun' = Begun /\ Exchanges' = Exchanges
  BY <1>1 DEF Begun, Exchanges, CountedTurns, CountedTurn, RunIds
<1>3. OrDefault(row').count = OrDefault(row).count
  BY <1>2, CountShown
<1>4. \A q \in RunIds : q # r => /\ MakesPlan(q)' <=> MakesPlan(q)
                                 /\ MakesPlan(q) => MadeAfter(q)' = MadeAfter(q)
  BY <1>1 DEF MakesPlan, MadeAfter, WillDecide, TurnIndex
<1>5. r \in Turns => ~WillDecide(r) /\ ~WillDecide(r)'
  BY <1>1 DEF StartsOnce, WillDecide
<1>6. MakesPlan(r) <=> run[r].pc \in Deciding
  BY <1>5 DEF MakesPlan
<1>7. MakesPlan(r)' <=> run'[r].pc \in Deciding
  BY <1>5 DEF MakesPlan
<1>8. PICK p : p = [by |-> r, after |-> run[r].turnIndex]
  BY Zenon
<1>9. MakesPlan(r) => p \in Making /\ p = [by |-> r, after |-> MadeAfter(r)]
  BY <1>6, <1>8 DEF Making, MadeAfter
<1>10. CASE SavesPlan(r)
  <2>1. run[r].pc \in Deciding /\ run'[r].pc \notin Deciding
    BY <1>10 DEF SavesPlan, SavePlan, Deciding
  <2>2. p \in Making /\ Making' = Making \ {p}
    BY <1>4, <1>6, <1>7, <1>9, <2>1, MakingAfter
  <2>3. HeldPlans' \subseteq HeldPlans \cup {p}
    BY <1>8, <1>10, RunsPublishTheirPlan
  <2>4. Offer' = Ledger!Later(p)
    <3>1. PICK new \in State :
            /\ row' = Save(row, new) /\ new.plan \in Plan
            /\ new.plan.by = r /\ new.plan.after = run[r].turnIndex
      BY <1>10 DEF SavesPlan
    <3>2. new.plan # None /\ PlanOf(new.plan) = p
      BY <1>8, <3>1, SentinelsAreNotData DEF PlanOf
    <3>3. QED
      BY <3>1, <3>2, OfferAfter
  <2>5. Ledger!Publish(p)
    BY <1>2, <1>3, <2>2, <2>3, <2>4 DEF Ledger!Publish
  <2>6. QED
    BY <2>2, <2>5 DEF LedgerStep, Ledger!LedgerNext
<1>11. CASE Works(r) /\ ~MakesPlan(r)
  <2>1. ~MakesPlan(r)'
    BY <1>6, <1>7, <1>11 DEF Works
  <2>2. Making' = Making
    BY <1>4, <1>11, <2>1, MakingAfter
  <2>3. QED
    BY <1>2, <1>11, <2>2, RunsPublishTheirPlan, ForgettingStep DEF Works
<1>12. CASE Works(r) /\ MakesPlan(r) /\ MakesPlan(r)'
  <2>1. MadeAfter(r)' = MadeAfter(r)
    BY <1>6, <1>7, <1>12 DEF Works, MadeAfter
  <2>2. Making' = Making
    BY <1>4, <1>12, <2>1, MakingAfter
  <2>3. QED
    BY <1>2, <1>12, <2>2, RunsPublishTheirPlan, ForgettingStep DEF Works
<1>13. CASE Works(r) /\ MakesPlan(r) /\ ~MakesPlan(r)'
  <2>1. p \in Making /\ Making' = Making \ {p}
    BY <1>4, <1>9, <1>13, MakingAfter
  <2>2. HeldPlans' = HeldPlans /\ Offer' = Offer
    BY <1>13, RunsPublishTheirPlan DEF Works, Offer
  <2>3. Ledger!Abandon(p)
    BY <1>2, <1>3, <2>1, <2>2 DEF Ledger!Abandon
  <2>4. QED
    BY <2>1, <2>3 DEF LedgerStep, Ledger!LedgerNext
<1>14. QED
  BY <1>1, <1>10, <1>11, <1>12, <1>13

LEMMA OpeningsAskForAPlan ==
  ASSUME LedgerFacts, NEW o \in Ops, OpStep(o), UNCHANGED turn
  PROVE  LedgerStep
<1> USE DEF LedgerFacts
<1>1. o \in RunIds /\ o \notin Turns /\ UNCHANGED row
  BY DistinctIds, OpEffects DEF RunIds
<1>2. HeldPlans' = HeldPlans /\ Offer' = Offer /\ CountedTurns' = CountedTurns
  BY <1>1 DEF HeldPlans, Offer, CountedTurns, CountedTurn
<1>3. CASE UNCHANGED run
  <2>1. Making' = Making
    BY <1>3 DEF Making, MakesPlan, MadeAfter, WillDecide, TurnIndex
  <2>2. Begun' = Begun
    BY <1>2, <1>3 DEF Begun
  <2>3. QED
    BY <1>1, <1>2, <2>1, <2>2, ForgettingStep
<1>4. CASE op[o].pc = "runInitial" /\ Dispatch(o, 0, op[o].avatar)
  <2>1. run[o].pc = "idle"
    BY <1>4 DEF StartsOnce, Opening
  <2>2. /\ \A q \in RunIds : q # o => run'[q] = run[q]
        /\ run'[o].pc = "readState" /\ run'[o].turnIndex = 0
    BY <1>1, <1>4, DispatchEffects
  <2>3. ~MakesPlan(o) /\ MakesPlan(o)' /\ MadeAfter(o)' = 0
    BY <1>1, <2>1, <2>2 DEF MakesPlan, MadeAfter, Deciding
  <2>4. \A q \in RunIds : q # o => /\ MakesPlan(q)' <=> MakesPlan(q)
                                   /\ MakesPlan(q) => MadeAfter(q)' = MadeAfter(q)
    BY <2>2 DEF MakesPlan, MadeAfter, WillDecide, TurnIndex
  <2>5. Making' = Making \cup {[by |-> o, after |-> 0]}
    BY <1>1, <2>3, <2>4, MakingAfter
  <2>6. Begun' = Begun \cup {o} /\ o \notin Begun
    BY <1>1, <1>2, <2>1, <2>2 DEF Begun, CountedTurns, RunIds
  <2>7. [t \in Turns |-> turn'[t].plan] = [t \in Turns |-> turn[t].plan]
    OBVIOUS
  <2>8. Ledger!Open(o)
    BY <1>1, <1>2, <2>5, <2>6, <2>7 DEF Ledger!Open
  <2>9. QED
    BY <2>8 DEF LedgerStep, Ledger!LedgerNext
<1>5. QED
  BY <1>3, <1>4, OpEffects

(* With one request at a time, the session's turns and background runs      *)
(* implement the ledger: no exchange is lost or counted twice, and a plan   *)
(* is published once, answers one exchange at most, the one after that for  *)
(* which it was made, and gives way to no older one.                        *)
THEOREM SessionImplementsLedger ==
  ASSUME MaxInFlight \in {0, 1}
  PROVE  Spec => ImplementsLedger
<1>1. Init => Ledger!LedgerInit
  <2> SUFFICES ASSUME Init PROVE Ledger!LedgerInit
    OBVIOUS
  <2>1. /\ \A t \in Turns : turn[t] = IdleTurn
        /\ \A r \in RunIds : run[r] = IdleRun
        /\ OrDefault(row).plan = None /\ OrDefault(row).count = 0
        /\ Turns \subseteq RunIds /\ Ops \subseteq RunIds
    BY DEF Init, TurnInit, GmInit, StoreInit, OrDefault, DefaultState, RunIds
  <2>2. /\ IdleTurn.pc = "idle" /\ IdleTurn.plan = None /\ IdleTurn.state.plan = None
        /\ IdleRun.pc = "idle"
    BY DEF IdleTurn, IdleRun, DefaultState
  <2>3. Begun = {}
    BY <2>1, <2>2 DEF Begun, CountedTurns, CountedTurn
  <2>4. Making = {}
    BY <2>1, <2>2 DEF Making, MakesPlan, WillDecide, Deciding
  <2>5. HeldPlans = {} /\ Offer = {}
    BY <2>1, <2>2 DEF HeldPlans, Offer
  <2>6. [t \in Turns |-> turn[t].plan] = [t \in Turns |-> None]
    BY <2>1, <2>2
  <2>7. QED
    BY <2>1, <2>3, <2>4, <2>5, <2>6 DEF Ledger!LedgerInit
<1>2. LedgerFacts /\ PatientInv' /\ [Next]_vars => [Ledger!LedgerNext]_(Ledger!ledgerVars)
  <2> SUFFICES ASSUME LedgerFacts, PatientInv', [Next]_vars PROVE LedgerStep
    BY DEF LedgerStep
  <2>1. CASE \E t \in Turns : TurnStep(t)
    BY <2>1, CountingRecords, ConsumingAnswers, OtherTurnStepsForget
  <2>2. CASE \E r \in RunIds : RunStep(r) /\ UNCHANGED <<turn, op>>
    BY <2>2, RunsPublishOrAbandon
  <2>3. CASE \E o \in Ops : OpStep(o) /\ UNCHANGED turn
    BY <2>3, OpeningsAskForAPlan
  <2>4. CASE UNCHANGED <<turn, run, row>>
    <3>1. /\ HeldPlans' = HeldPlans /\ Making' = Making /\ Begun' = Begun
          /\ \A t \in Turns : turn'[t].plan = turn[t].plan
      BY <2>4 DEF HeldPlans, Offer, Making, MakesPlan, MadeAfter, WillDecide, TurnIndex, Begun,
                  CountedTurns, CountedTurn
    <3>2. QED
      BY <2>4, <3>1, ForgettingStep
  <2>5. CASE \E t \in Turns, c \in ConvIds, m \in Modes : Receive(t, c, m)
    <3>1. PICK t \in Turns, c \in ConvIds, m \in Modes : Receive(t, c, m)
      BY <2>5
    <3>2. /\ turn[t].pc = "idle" /\ turn'[t].pc = "readSession"
          /\ turn'[t].plan = turn[t].plan /\ turn'[t].state = turn[t].state
          /\ \A u \in Turns : u # t => turn'[u] = turn[u]
          /\ UNCHANGED <<run, row>>
      BY <3>1, CountTypes DEF LedgerFacts, Receive, Turn, gmVars, storeVars
    <3>3. Begun' = Begun
      BY <3>2 DEF Begun, CountedTurns, CountedTurn
    <3>4. HeldPlans' \subseteq HeldPlans
      <4>1. Stored' = Stored /\ \A u \in Turns : turn'[u].state = turn[u].state
        BY <3>2 DEF Stored
      <4>2. QED
        BY <4>1, StoredIsHeld, HeldAfter
    <3>5. Making' = Making
      <4>1. ~MakesPlan(t) /\ ~MakesPlan(t)'
        BY <3>2 DEF LedgerFacts, StartsOnce, CountedTurn, MakesPlan, WillDecide, Deciding
      <4>2. \A q \in RunIds : q # t => /\ MakesPlan(q)' <=> MakesPlan(q)
                                       /\ MakesPlan(q) => MadeAfter(q)' = MadeAfter(q)
        BY <3>2 DEF MakesPlan, MadeAfter, WillDecide, TurnIndex
      <4>3. t \in RunIds
        BY DEF RunIds
      <4>4. QED
        BY <4>1, <4>2, <4>3, MakingAfter
    <3>6. \A u \in Turns : turn'[u].plan = turn[u].plan
      BY <3>2
    <3>7. QED
      BY <3>2, <3>3, <3>4, <3>5, <3>6, ForgettingStep
  <2>6. QED
    BY <2>1, <2>2, <2>3, <2>4, <2>5, StepCases DEF vars, gmVars, storeVars
<1>3. Spec => [](Calm => IndexInv)
  <2>1. CASE Calm
    <3>1. Spec => []IndexInv
      BY <2>1, IndexInvHolds
    <3>2. QED
      BY <3>1, PTL
  <2>2. CASE ~Calm
    <3>1. Calm => IndexInv
      BY <2>2
    <3>2. QED
      BY <3>1, PTL
  <2>3. QED
    BY <2>1, <2>2
<1>4. /\ TypeInv /\ CountInv /\ PatientInv /\ UsedInv /\ StartsOnce /\ LedgerInv
      /\ Calm => IndexInv
      => LedgerFacts
  BY DEF LedgerFacts
<1>5. QED
  BY <1>1, <1>2, <1>3, <1>4, TypeInvHolds, CountInvHolds, PatientInvHolds, UsedInvHolds,
     StartsOnceHolds, LedgerInvHolds, PTL
     DEF Spec, ImplementsLedger, Ledger!LedgerSpec

=============================================================================
