------------------------------- MODULE Memory -------------------------------
(***************************************************************************)
(* Working and episodic memory of the conversations of one session.         *)
(*                                                                          *)
(* A conversation's working memory is one row, rewritten by a model from    *)
(* the row before it and the last messages.  It is refreshed in the         *)
(* background after every third exchange, when the conversation closes and  *)
(* on an operator's request.  When a conversation closes, a background      *)
(* pipeline refreshes the row once more and then makes one episodic memory  *)
(* of it; opening a conversation hydrates its working memory from the       *)
(* episodes there are.                                                      *)
(*                                                                          *)
(* What a memory says is abstracted to what it was made from: the exchanges *)
(* its writer had before it, a point being a conversation and the position  *)
(* of the avatar's message.  The conversations are with one avatar, so that *)
(* every episode is in the scope of every hydration, and at most three, so  *)
(* that none is beyond its selection limit.  Every action but the openings  *)
(* of Next is one step between two awaits.                                  *)
(***************************************************************************)
EXTENDS Naturals, Sequences, FiniteSets

CONSTANTS
  Convs,           \* the conversations, numbered in the order of creation
  Turns,           \* clients that send messages, one request at a time each
  Ops,             \* requests that open, end or reset, the operator's, and restarts
  Kinds,           \* bound: the kinds of request each of Ops may be
  RefreshEvery,    \* exchanges between two refreshes after a turn
  RefreshWindow,   \* messages a refresh reads
  HistoryWindow,   \* messages of the history in a prompt
  FetchWindow,     \* messages the short-term selection reads
  Spoken,          \* the messages of the first conversation so far
  FaultyConvs,     \* bound: conversations whose model calls may fail
  MaxMessages,     \* bound: the messages of a conversation
  MaxRefreshes     \* bound: refreshes asked for

AllKinds == {"start", "switch", "end", "reset", "refresh", "clear", "restart"}

ASSUME MemoryAssumption ==
  /\ 1 \in Convs /\ Convs \subseteq Nat \ {0}
  /\ Kinds \in [Ops -> SUBSET AllKinds]
  /\ {RefreshEvery, RefreshWindow, HistoryWindow, FetchWindow} \subseteq Nat \ {0}
  /\ Spoken \in Seq({"user", "avatar"})
  /\ FaultyConvs \subseteq Convs
  /\ MaxMessages \in [Convs -> Nat]
  /\ MaxRefreshes \in Nat

VARIABLES
  status,      \* of each conversation
  log,         \* its messages, oldest first, each by its role
  working,     \* its row of conversation_working_memories
  episode,     \* its row of conversation_memories
  refresh,     \* the calls of MemoryMaintenanceService.execute
  issued,      \* how many there were
  pending,     \* the service's map pendingRefreshes: the newest call, or 0
  promotion,   \* where the close pipeline that made the call is
  turn,        \* the send-message request of each client
  op,          \* the other requests
  restarted,   \* history: whether the server did
  ended,       \* history: the messages of a conversation when it first closed
  cleared      \* history: the points an operator's clear has deleted

rowVars == <<status, log, working, episode>>
serviceVars == <<refresh, issued, pending, promotion>>
historyVars == <<ended, cleared>>
memoryVars == <<rowVars, serviceVars, turn, op, restarted, historyVars>>

Points == Convs \X Nat
RefreshIds == 1..MaxRefreshes
Triggers == {"post_turn", "conversation_closed", "avatar_switch", "admin_trigger"}

(* through: the messages there were at the row's updated_at *)
Row == [present : BOOLEAN, seen : SUBSET Points, through : Nat]
NoMemory == [present |-> FALSE, seen |-> {}, through |-> 0]

Refresh == [pc : {"none", "queued", "recalling", "rewriting", "settled"},
            conv : Convs \cup {0}, prior : RefreshIds \cup {0}, trigger : Triggers,
            window : SUBSET Points, seen : SUBSET Points]
NoRefresh == [pc |-> "none", conv |-> 0, prior |-> 0, trigger |-> "post_turn",
              window |-> {}, seen |-> {}]
Settled == [NoRefresh EXCEPT !.pc = "settled"]

Promotion == [pc : {"none", "refreshing", "check", "draft", "create", "failed"},
              conv : Convs \cup {0}, seen : SUBSET Points]
NoPromotion == [pc |-> "none", conv |-> 0, seen |-> {}]

Turn == [pc : {"idle", "waiting", "asking", "finishing"}, conv : Convs \cup {0},
         awaits : RefreshIds \cup {0}]
IdleTurn == [pc |-> "idle", conv |-> 0, awaits |-> 0]

Op == [pc : {"idle", "close", "touch", "create", "recall", "hydrate", "conversations",
             "episodes", "rows", "done", "failed"},
       kind : AllKinds, conv : Convs \cup {0}, previous : Convs \cup {0},
       seen : SUBSET Points]
IdleOp == [pc |-> "idle", kind |-> "start", conv |-> 0, previous |-> 0, seen |-> {}]

Exists(c) == c \in Convs /\ status[c] \in {"active", "closed"}
ActiveConvs == {c \in Convs : status[c] = "active"}
Newest(S) == {c \in S : \A d \in S : d <= c}

(* The first conversation is open, with no episode to hydrate it and no     *)
(* refresh due so far.                                                      *)
MemoryInit ==
  /\ status = [c \in Convs |-> IF c = 1 THEN "active" ELSE "absent"]
  /\ log = [c \in Convs |-> IF c = 1 THEN Spoken ELSE <<>>]
  /\ working = [c \in Convs |-> NoMemory]
  /\ episode = [c \in Convs |-> NoMemory]
  /\ refresh = [r \in RefreshIds |-> NoRefresh]
  /\ issued = 0
  /\ pending = [c \in Convs |-> 0]
  /\ promotion = [r \in RefreshIds |-> NoPromotion]
  /\ turn = [t \in Turns |-> IdleTurn]
  /\ op = [o \in Ops |-> IdleOp]
  /\ restarted = FALSE
  /\ ended = [c \in Convs |-> 0]
  /\ cleared = {}

-----------------------------------------------------------------------------
(* Exchanges *)

(* The positions of the avatar's messages that complete an exchange: a      *)
(* user's message is pending only if it is the message before.              *)
ExchangeEnds(m) == {i \in 2..Len(m) : m[i] = "avatar" /\ m[i - 1] = "user"}

(* Those that are among the last w messages as a whole. *)
InWindow(m, w) == {i \in ExchangeEnds(m) : Len(m) < i - 1 + w}

PointsOf(c, positions) == {<<c, i>> : i \in positions}

(* Without a working memory the selection has every exchange it reads, with *)
(* one those that ended after its last update.                              *)
ShortTerm(c) ==
  {i \in InWindow(log[c], FetchWindow) : ~working[c].present \/ working[c].through < i}

(* Mutant of RefreshSees: the refresh reads one exchange less than there    *)
(* are between two refreshes.                                               *)
RefreshSeesLess(c) == PointsOf(c, InWindow(log[c], 2 * (RefreshEvery - 1)))

RefreshSees(c) == PointsOf(c, InWindow(log[c], RefreshWindow))

-----------------------------------------------------------------------------
(* The service's chain of refreshes *)

(* The call chains itself to the map's entry and replaces it; promoting     *)
(* says that a close pipeline awaits it.                                    *)
Execute(c, trigger, promoting) ==
  /\ issued < MaxRefreshes
  /\ issued' = issued + 1
  /\ refresh' = [refresh EXCEPT ![issued + 1] =
       [NoRefresh EXCEPT !.pc = "queued", !.conv = c, !.prior = pending[c],
                         !.trigger = trigger]]
  /\ pending' = [pending EXCEPT ![c] = issued + 1]
  /\ promotion' = [promotion EXCEPT ![issued + 1] =
       IF promoting THEN [NoPromotion EXCEPT !.pc = "refreshing", !.conv = c] ELSE @]

Over(r) == r # 0 => refresh[r].pc = "settled"

(* Mutant of Settle: the map's entry is removed by whichever call ends.     *)
SettleAndForget(r) ==
  /\ refresh' = [refresh EXCEPT ![r] = Settled]
  /\ pending' = [pending EXCEPT ![refresh[r].conv] = 0]
  /\ promotion' = [promotion EXCEPT ![r] =
       IF @.pc = "refreshing" THEN [@ EXCEPT !.pc = "check"] ELSE @]
  /\ UNCHANGED issued

(* The call ends, well or not: it removes the map's entry if that is still  *)
(* its own, and the pipeline that awaits it goes on.                        *)
Settle(r) ==
  /\ refresh' = [refresh EXCEPT ![r] = Settled]
  /\ pending' = [pending EXCEPT ![refresh[r].conv] = IF @ = r THEN 0 ELSE @]
  /\ promotion' = [promotion EXCEPT ![r] =
       IF @.pc = "refreshing" THEN [@ EXCEPT !.pc = "check"] ELSE @]
  /\ UNCHANGED issued

(* A refresh after a turn is skipped unless the exchanges counted when it   *)
(* starts are a multiple of three.                                          *)
Due(r, c) ==
  \/ refresh[r].trigger # "post_turn"
  \/ Cardinality(ExchangeEnds(log[c])) % RefreshEvery = 0

StartRefresh(r) ==
  LET c == refresh[r].conv IN
  /\ refresh[r].pc = "queued"
  /\ Over(refresh[r].prior)
  /\ IF Due(r, c)
     THEN /\ refresh' = [refresh EXCEPT ![r] =
               [@ EXCEPT !.pc = "recalling", !.prior = 0, !.window = RefreshSees(c)]]
          /\ UNCHANGED <<issued, pending, promotion>>
     ELSE Settle(r)
  /\ UNCHANGED rowVars

ReadPriorMemory(r) ==
  /\ refresh[r].pc = "recalling"
  /\ refresh' = [refresh EXCEPT ![r] =
       [@ EXCEPT !.pc = "rewriting", !.seen = working[refresh[r].conv].seen]]
  /\ UNCHANGED <<rowVars, issued, pending, promotion>>

(* Mutant of Upsert: the row's foreign key is not enforced.                 *)
UpsertAnyway(c, seen) ==
  working' = [working EXCEPT ![c] =
    [present |-> TRUE, seen |-> seen, through |-> Len(log[c])]]

(* The row refers to its conversation by a foreign key.                     *)
Upsert(c, seen) ==
  /\ Exists(c)
  /\ working' = [working EXCEPT ![c] =
       [present |-> TRUE, seen |-> seen, through |-> Len(log[c])]]

RewriteMemory(r) ==
  /\ refresh[r].pc = "rewriting"
  /\ Upsert(refresh[r].conv, refresh[r].seen \cup refresh[r].window)
  /\ Settle(r)
  /\ UNCHANGED <<status, log, episode>>

(* Mutant of RefreshFails: the error reaches the close pipeline and ends it.*)
RefreshThrows(r) ==
  /\ refresh[r].pc \in {"recalling", "rewriting"}
  /\ refresh[r].conv \in FaultyConvs \/ ~Exists(refresh[r].conv)
  /\ refresh' = [refresh EXCEPT ![r] = Settled]
  /\ pending' = [pending EXCEPT ![refresh[r].conv] = IF @ = r THEN 0 ELSE @]
  /\ promotion' = [promotion EXCEPT ![r] = NoPromotion]
  /\ UNCHANGED <<rowVars, issued>>

(* The model fails or answers what cannot be parsed, or the conversation    *)
(* was deleted: the error is logged, the row stays.                         *)
RefreshFails(r) ==
  /\ refresh[r].pc \in {"recalling", "rewriting"}
  /\ refresh[r].conv \in FaultyConvs \/ ~Exists(refresh[r].conv)
  /\ Settle(r)
  /\ UNCHANGED rowVars

RefreshStep(r) ==
  /\ \/ StartRefresh(r)
     \/ ReadPriorMemory(r)
     \/ RewriteMemory(r)
     \/ RefreshFails(r)
  /\ UNCHANGED <<turn, op, restarted, historyVars>>

-----------------------------------------------------------------------------
(* generateForClosedConversation, the second half of the close pipeline *)

GotoPromotion(r, p) ==
  /\ promotion' = [promotion EXCEPT ![r] = p]
  /\ UNCHANGED <<refresh, issued, pending>>

CheckEpisode(r) ==
  LET p == promotion[r] IN
  /\ p.pc = "check"
  /\ GotoPromotion(r, IF episode[p.conv].present THEN NoPromotion
                                                 ELSE [p EXCEPT !.pc = "draft"])
  /\ UNCHANGED rowVars

(* The exchanges of the last three of the user's messages fetched.          *)
Fallback(c) ==
  LET m == log[c]
      user == {i \in 1..Len(m) : m[i] = "user" /\ Len(m) < i + FetchWindow}
  IN  PointsOf(c, {i \in ExchangeEnds(m) :
                     i - 1 \in user /\ Cardinality({j \in user : i - 1 < j}) < 3})

DraftEpisode(r) ==
  LET p == promotion[r] IN
  /\ p.pc = "draft"
  /\ GotoPromotion(r, [p EXCEPT !.pc = "create",
       !.seen = IF working[p.conv].present THEN working[p.conv].seen ELSE Fallback(p.conv)])
  /\ UNCHANGED rowVars

(* Mutant of InsertEpisode: an upsert.                                      *)
UpsertEpisode(c, seen) ==
  episode' = [episode EXCEPT ![c] = [present |-> TRUE, seen |-> seen, through |-> 0]]

(* ON CONFLICT DO NOTHING                                                   *)
InsertEpisode(c, seen) ==
  episode' = [episode EXCEPT ![c] =
    IF @.present THEN @ ELSE [present |-> TRUE, seen |-> seen, through |-> 0]]

(* The episode refers to its conversation by a foreign key.                 *)
CreateEpisode(r) ==
  LET p == promotion[r] IN
  /\ p.pc = "create"
  /\ Exists(p.conv)
  /\ InsertEpisode(p.conv, p.seen)
  /\ GotoPromotion(r, NoPromotion)
  /\ UNCHANGED <<status, log, working>>

(* A call of the store fails, at the latest that of a conversation a reset  *)
(* deleted: the error is logged and nothing tries again.                    *)
EpisodeFails(r) ==
  LET p == promotion[r] IN
  /\ p.pc \in {"check", "draft", "create"}
  /\ GotoPromotion(r, [NoPromotion EXCEPT !.pc = "failed", !.conv = p.conv])
  /\ UNCHANGED rowVars

PromotionStep(r) ==
  /\ \/ CheckEpisode(r)
     \/ DraftEpisode(r)
     \/ CreateEpisode(r)
     \/ EpisodeFails(r)
  /\ UNCHANGED <<turn, op, restarted, historyVars>>

=============================================================================
