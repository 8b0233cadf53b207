---------------------------- MODULE SessionStore ----------------------------
(***************************************************************************)
(* What PostgreSQL holds for one play session: its row of sessions, its    *)
(* conversations with their messages, and its gm_states row.  A repository *)
(* call is one SQL statement, so it is one atomic step; what a request     *)
(* read in an earlier statement may be stale when it writes.               *)
(*                                                                         *)
(* The session itself stays "active" throughout: no code of the repository *)
(* gives it another status, and deleting it is not modelled here.          *)
(***************************************************************************)
EXTENDS GmStateRow, FiniteSets

CONSTANTS
  MaxConversations,    \* bound: conversations created in the session's life
  InitialUnlocked,     \* avatarAvailability.initialAvatarIds, or all avatars
  FaultyRequests       \* bound: the requests whose awaited calls may fail

ASSUME StoreAssumption ==
  /\ MaxConversations \in Nat
  /\ InitialUnlocked \subseteq Avatars
  /\ FaultyRequests \subseteq RunIds

VARIABLES
  session,     \* activeAvatarId, unlockedAvatarIds and gmNotes of the session
  conv,        \* conversation rows, numbered in order of creation
  made,        \* how many conversations were created so far
  messages,    \* the rows of messages
  clock,       \* created_at of the latest message
  row          \* the gm_states row

storeVars == <<session, conv, made, messages, clock, row>>

ConvIds == 1..MaxConversations

Session == [active : Avatars \cup {None},
            unlocked : SUBSET Avatars,
            notes : RunIds \cup {None}]

(* "absent" is a row not inserted yet or deleted by a reset.               *)
Conversation == [status : {"absent", "active", "closed"}, avatar : Avatars \cup {None}]

Message == [at : Nat, turn : Turns, conv : ConvIds, role : {"user", "avatar"}]

AbsentConv == [status |-> "absent", avatar |-> None]

StoreInit ==
  /\ session = [active |-> None, unlocked |-> InitialUnlocked, notes |-> None]
  /\ conv = [c \in ConvIds |-> AbsentConv]
  /\ made = 0
  /\ messages = {}
  /\ clock = 0
  /\ row = NoRow

StoreTypeOK ==
  /\ session \in Session
  /\ conv \in [ConvIds -> Conversation]
  /\ made \in 0..MaxConversations
  /\ messages \subseteq Message
  /\ clock \in Nat
  /\ row \in State \cup {NoRow}

-----------------------------------------------------------------------------

Exists(c) == conv[c].status # "absent"

ActiveConvs == {c \in ConvIds : conv[c].status = "active"}

(* findActiveBySessionId: the most recently created active conversation.   *)
NewestActive == CHOOSE c \in ActiveConvs : \A d \in ActiveConvs : d <= c

(* Mutant of InsertMessage: no foreign key to the conversation.            *)
InsertAnyMessage(t, c, r) ==
  /\ clock' = clock + 1
  /\ messages' = messages \cup {[at |-> clock', turn |-> t, conv |-> c, role |-> r]}

(* The foreign key refuses a message of a conversation that is gone.       *)
InsertMessage(t, c, r) ==
  /\ Exists(c)
  /\ clock' = clock + 1
  /\ messages' = messages \cup {[at |-> clock', turn |-> t, conv |-> c, role |-> r]}

(* A COALESCE update names the columns it changes and keeps the others;    *)
(* it throws when the row is gone.                                         *)
CloseConv(c) ==
  /\ Exists(c)
  /\ conv' = [conv EXCEPT ![c].status = "closed"]

MessagesOf(c) == {m \in messages : m.conv = c}

(* findByConversationId with a limit: the latest n messages.                *)
Latest(c, n) ==
  {m \in MessagesOf(c) : Cardinality({l \in MessagesOf(c) : l.at >= m.at}) <= n}

=============================================================================
