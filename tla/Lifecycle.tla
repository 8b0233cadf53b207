------------------------------ MODULE Lifecycle ------------------------------
(***************************************************************************)
(* The requests that change which conversation a session has: starting a    *)
(* conversation, switching the avatar, ending a conversation, and resetting *)
(* the session.  Each awaited repository call is a step.  Starting and      *)
(* switching wait for an initial Game Master run (turn index 0) before they *)
(* answer.                                                                  *)
(* Left out: the memory rows (hydration, close pipeline), events and media. *)
(* A request creates one conversation at most, so a configuration whose     *)
(* MaxConversations is the number of such requests never meets that bound.  *)
(***************************************************************************)
EXTENDS GameMasterRun

CONSTANT
  Kinds        \* bound: the kinds of request each of Ops may be

AllKinds == {"start", "switch", "end", "reset"}

ASSUME KindsAssumption == Kinds \in [Ops -> SUBSET AllKinds]

VARIABLE op

(* target is the conversation to close or, once created, the new one; left  *)
(* are the conversations whose messages a reset still has to delete.        *)
Op == [pc : {"idle", "findActive", "closePrevious", "create", "activate", "runInitial",
             "awaitInitial", "loadConv", "close", "listConvs", "deleteMessages",
             "deleteConvs", "resetSession", "done", "failed"},
       kind : AllKinds, avatar : Avatars \cup {None}, target : ConvIds \cup {0},
       previous : ConvIds \cup {0}, left : SUBSET ConvIds]

IdleOp == [pc |-> "idle", kind |-> "start", avatar |-> None, target |-> 0,
           previous |-> 0, left |-> {}]

OpInit == op = [o \in Ops |-> IdleOp]

OpTypeOK == op \in [Ops -> Op]

OpInFlight(o) == op[o].pc \notin {"idle", "done", "failed"}

GotoOp(o, pc) == op' = [op EXCEPT ![o].pc = pc]

-----------------------------------------------------------------------------
(* Start and switch. *)

(* The session, read here, must have the avatar unlocked.                   *)
BeginOpen(o, k, a) ==
  /\ op[o].pc = "idle"
  /\ k \in Kinds[o] \cap {"start", "switch"}
  /\ a \in session.unlocked
  /\ op' = [op EXCEPT ![o] = [@ EXCEPT !.pc = "findActive", !.kind = k, !.avatar = a]]
  /\ UNCHANGED <<gmVars, storeVars>>

(* Mutant of FindActive: only a conversation of the same avatar is found.   *)
FindActiveOfAvatar(o) ==
  /\ op[o].pc = "findActive"
  /\ op' = [op EXCEPT ![o] =
              IF ActiveConvs = {} \/ conv[NewestActive].avatar # op[o].avatar
              THEN [@ EXCEPT !.pc = "create"]
              ELSE [@ EXCEPT !.pc = "closePrevious", !.previous = NewestActive]]
  /\ UNCHANGED <<gmVars, storeVars>>

FindActive(o) ==
  /\ op[o].pc = "findActive"
  /\ op' = [op EXCEPT ![o] =
              IF ActiveConvs = {}
              THEN [@ EXCEPT !.pc = "create"]
              ELSE [@ EXCEPT !.pc = "closePrevious", !.previous = NewestActive]]
  /\ UNCHANGED <<gmVars, storeVars>>

ClosePrevious(o) ==
  /\ op[o].pc = "closePrevious"
  /\ CloseConv(op[o].previous)
  /\ GotoOp(o, "create")
  /\ UNCHANGED <<gmVars, session, made, messages, clock, row>>

(* A switch records the conversation it hands off from, by a foreign key.   *)
HandoffBroken(o) ==
  op[o].kind = "switch" /\ op[o].previous # 0 /\ ~Exists(op[o].previous)

CreateConversation(o) ==
  /\ op[o].pc = "create"
  /\ ~HandoffBroken(o)
  /\ made < MaxConversations
  /\ made' = made + 1
  /\ conv' = [conv EXCEPT ![made + 1] = [status |-> "active", avatar |-> op[o].avatar]]
  /\ op' = [op EXCEPT ![o] = [@ EXCEPT !.pc = "activate", !.target = made + 1]]
  /\ UNCHANGED <<gmVars, session, messages, clock, row>>

ActivateAvatar(o) ==
  /\ op[o].pc = "activate"
  /\ session' = [session EXCEPT !.active = op[o].avatar]
  /\ GotoOp(o, "runInitial")
  /\ UNCHANGED <<gmVars, conv, made, messages, clock, row>>

RunInitialGameMaster(o) ==
  /\ op[o].pc = "runInitial"
  /\ Dispatch(o, 0, op[o].avatar)
  /\ GotoOp(o, "awaitInitial")
  /\ UNCHANGED storeVars

(* Mutant of OpenReturns: the request waits for its plan, not for its run.  *)
OpenReturnsWithPlan(o) ==
  /\ op[o].pc = "awaitInitial"
  /\ OrDefault(row).plan # None /\ row.plan.by = o
  /\ GotoOp(o, "done")
  /\ UNCHANGED <<gmVars, storeVars>>

(* The run's failure is caught, so the request succeeds either way.         *)
OpenReturns(o) ==
  /\ op[o].pc = "awaitInitial"
  /\ run[o].pc = "done"
  /\ GotoOp(o, "done")
  /\ UNCHANGED <<gmVars, storeVars>>

-----------------------------------------------------------------------------
(* End. *)

BeginEnd(o, c) ==
  /\ op[o].pc = "idle"
  /\ "end" \in Kinds[o]
  /\ Exists(c)
  /\ op' = [op EXCEPT ![o] = [@ EXCEPT !.pc = "loadConv", !.kind = "end", !.target = c]]
  /\ UNCHANGED <<gmVars, storeVars>>

(* 404 or 409 unless the conversation is active.                            *)
LoadConversation(o) ==
  /\ op[o].pc = "loadConv"
  /\ GotoOp(o, IF conv[op[o].target].status = "active" THEN "close" ELSE "failed")
  /\ UNCHANGED <<gmVars, storeVars>>

EndConversation(o) ==
  /\ op[o].pc = "close"
  /\ CloseConv(op[o].target)
  /\ GotoOp(o, "done")
  /\ UNCHANGED <<gmVars, session, made, messages, clock, row>>

-----------------------------------------------------------------------------
(* Reset. The gm_states row is not among what it deletes.                   *)

BeginReset(o) ==
  /\ op[o].pc = "idle"
  /\ "reset" \in Kinds[o]
  /\ op' = [op EXCEPT ![o] = [@ EXCEPT !.pc = "listConvs", !.kind = "reset"]]
  /\ UNCHANGED <<gmVars, storeVars>>

ListConversations(o) ==
  /\ op[o].pc = "listConvs"
  /\ op' = [op EXCEPT ![o] = [@ EXCEPT !.pc = "deleteMessages", !.left = {c \in ConvIds : Exists(c)}]]
  /\ UNCHANGED <<gmVars, storeVars>>

(* The deletions all start at once; when one fails and the request with it, *)
(* the others still take place.                                             *)
DeleteMessages(o, c) ==
  /\ op[o].pc \in {"deleteMessages", "failed"}
  /\ c \in op[o].left
  /\ messages' = messages \ MessagesOf(c)
  /\ op' = [op EXCEPT ![o].left = @ \ {c}]
  /\ UNCHANGED <<gmVars, session, conv, made, clock, row>>

(* Deletes every conversation of the session, listed or not; the foreign    *)
(* key of messages cascades.                                                *)
DeleteConversations(o) ==
  /\ op[o].pc = "deleteMessages"
  /\ op[o].left = {}
  /\ conv' = [c \in ConvIds |-> AbsentConv]
  /\ messages' = {}
  /\ GotoOp(o, "resetSession")
  /\ UNCHANGED <<gmVars, session, made, clock, row>>

ResetSession(o) ==
  /\ op[o].pc = "resetSession"
  /\ session' = [active |-> None, unlocked |-> InitialUnlocked, notes |-> None]
  /\ GotoOp(o, "done")
  /\ UNCHANGED <<gmVars, conv, made, messages, clock, row>>

-----------------------------------------------------------------------------

(* A call throws, by a fault or because the row it updates or refers to was *)
(* deleted by a reset; what the request wrote before stays.                 *)
OpFails(o) ==
  /\ OpInFlight(o)
  /\ op[o].pc # "awaitInitial"
  /\ \/ o \in FaultyRequests
     \/ op[o].pc = "closePrevious" /\ ~Exists(op[o].previous)
     \/ op[o].pc = "create" /\ HandoffBroken(o)
     \/ op[o].pc = "close" /\ ~Exists(op[o].target)
  /\ \E rest \in SUBSET op[o].left :
       op' = [op EXCEPT ![o] = [@ EXCEPT !.pc = "failed", !.left = rest]]
  /\ UNCHANGED <<gmVars, storeVars>>

OpStep(o) ==
  \/ FindActive(o)
  \/ ClosePrevious(o)
  \/ CreateConversation(o)
  \/ ActivateAvatar(o)
  \/ RunInitialGameMaster(o)
  \/ OpenReturns(o)
  \/ LoadConversation(o)
  \/ EndConversation(o)
  \/ ListConversations(o)
  \/ \E c \in ConvIds : DeleteMessages(o, c)
  \/ DeleteConversations(o)
  \/ ResetSession(o)
  \/ OpFails(o)

=============================================================================
