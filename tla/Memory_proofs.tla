--------------------------- MODULE Memory_proofs ----------------------------
(***************************************************************************)
(* SessionMemory, for any number of conversations, clients and requests:    *)
(* types, the refinement of the queue of refreshes, what is kept and        *)
(* forgotten, and what a prompt waits for.                                  *)
(***************************************************************************)
EXTENDS SessionMemory, TLAPS

-----------------------------------------------------------------------------
(* Types.  What is under way has a conversation.                            *)

Roles == {"user", "avatar"}

RowInv ==
  /\ status \in [Convs -> {"absent", "active", "closed", "deleted"}]
  /\ log \in [Convs -> Seq(Roles)]
  /\ working \in [Convs -> Row]
  /\ episode \in [Convs -> Row]

CallInv ==
  /\ refresh \in [RefreshIds -> Refresh]
  /\ \A r \in RefreshIds : refresh[r].pc \in {"queued", "recalling", "rewriting"} =>
       refresh[r].conv \in Convs
  /\ issued \in 0..MaxRefreshes
  /\ pending \in [Convs -> 0..issued]

PromotionInv ==
  /\ promotion \in [RefreshIds -> Promotion]
  /\ \A r \in RefreshIds : promotion[r].pc # "none" => promotion[r].conv \in Convs

TurnInv == turn \in [Turns -> Turn]
OpInv ==
  /\ op \in [Ops -> Op]
  /\ \A o \in Ops : op[o].pc = "touch" => op[o].previous \in Convs
HistoryInv == ended \in [Convs -> Nat] /\ cleared \in SUBSET Points /\ restarted \in BOOLEAN

MemoryTypeInv ==
  RowInv /\ CallInv /\ PromotionInv /\ TurnInv /\ OpInv /\ HistoryInv

LEMMA Bounds ==
  /\ MaxRefreshes \in Nat /\ 1 \in Convs /\ Convs \subseteq Nat \ {0} /\ 0 \notin Convs
  /\ RefreshIds \subseteq Nat \ {0} /\ 0..MaxRefreshes = RefreshIds \cup {0}
BY MemoryAssumption DEF RefreshIds

LEMMA EmptyTypes ==
  /\ NoMemory \in Row /\ NoRefresh \in Refresh /\ Settled \in Refresh
  /\ NoPromotion \in Promotion /\ IdleTurn \in Turn /\ IdleOp \in Op
  /\ NoRefresh.pc = "none" /\ Settled.pc = "settled" /\ NoPromotion.pc = "none"
<1>1. NoMemory \in Row
  BY DEF NoMemory, Row
<1>2. NoRefresh \in Refresh /\ NoRefresh.pc = "none"
  BY DEF NoRefresh, Refresh, Triggers
<1>3. Settled \in Refresh /\ Settled.pc = "settled"
  BY <1>2 DEF Settled, Refresh
<1>4. NoPromotion \in Promotion /\ NoPromotion.pc = "none"
  BY DEF NoPromotion, Promotion
<1>5. IdleTurn \in Turn /\ IdleOp \in Op
  BY DEF IdleTurn, Turn, IdleOp, Op, AllKinds
<1>6. QED
  BY <1>1, <1>2, <1>3, <1>4, <1>5

LEMMA PointTypes ==
  ASSUME RowInv, NEW c \in Convs
  PROVE  /\ \A w : PointsOf(c, InWindow(log[c], w)) \in SUBSET Points
         /\ Fallback(c) \in SUBSET Points
         /\ PointsOf(c, ExchangeEnds(log[c])) \in SUBSET Points
<1>1. Len(log[c]) \in Nat
  BY DEF RowInv, Roles
<1>2. ExchangeEnds(log[c]) \in SUBSET Nat
  BY <1>1 DEF ExchangeEnds
<1>3. ASSUME NEW S \in SUBSET ExchangeEnds(log[c])
      PROVE  PointsOf(c, S) \in SUBSET Points
  BY <1>2 DEF PointsOf, Points
<1>4. \A w : InWindow(log[c], w) \in SUBSET ExchangeEnds(log[c])
  BY DEF InWindow
<1>5. Fallback(c) \in SUBSET Points
  BY <1>3 DEF Fallback
<1>6. QED
  BY <1>3, <1>4, <1>5

LEMMA CallUpdate ==
  ASSUME CallInv, NEW r \in RefreshIds, NEW new \in Refresh,
         refresh' = [refresh EXCEPT ![r] = new],
         new.pc \in {"queued", "recalling", "rewriting"} => new.conv \in Convs,
         issued' \in 0..MaxRefreshes, pending' \in [Convs -> 0..issued']
  PROVE  CallInv'
BY DEF CallInv

LEMMA PromotionUpdate ==
  ASSUME PromotionInv, NEW r \in RefreshIds, NEW new \in Promotion,
         promotion' = [promotion EXCEPT ![r] = new], new.pc # "none" => new.conv \in Convs
  PROVE  PromotionInv'
BY DEF PromotionInv

LEMMA ExecuteType ==
  ASSUME CallInv, PromotionInv, NEW c \in Convs, NEW trigger \in Triggers, NEW promoting \in BOOLEAN,
         Execute(c, trigger, promoting)
  PROVE  CallInv' /\ PromotionInv'
<1>1. issued \in Nat /\ issued + 1 \in RefreshIds /\ issued' = issued + 1
      /\ issued' \in 0..MaxRefreshes
  BY Bounds DEF Execute, CallInv, RefreshIds
<1>2. pending' \in [Convs -> 0..issued']
  BY <1>1 DEF Execute, CallInv
<1>3. CallInv'
  <2> DEFINE new == [NoRefresh EXCEPT !.pc = "queued", !.conv = c, !.prior = pending[c],
                                      !.trigger = trigger]
  <2>1. refresh' = [refresh EXCEPT ![issued + 1] = new]
    BY DEF Execute
  <2>2. pending[c] \in RefreshIds \cup {0}
    BY <1>1, Bounds DEF CallInv
  <2>3. new \in Refresh /\ new.conv = c
    BY <2>2, EmptyTypes DEF Refresh
  <2> HIDE DEF new
  <2>4. QED
    BY <1>1, <1>2, <2>1, <2>3, CallUpdate
<1>4. PromotionInv'
  <2> DEFINE new == IF promoting THEN [NoPromotion EXCEPT !.pc = "refreshing", !.conv = c]
                                 ELSE promotion[issued + 1]
  <2>1. promotion' = [promotion EXCEPT ![issued + 1] = new]
    BY <1>1 DEF Execute
  <2>2. new \in Promotion /\ (new.pc # "none" => new.conv \in Convs)
    BY <1>1, EmptyTypes DEF Promotion, PromotionInv
  <2> HIDE DEF new
  <2>3. QED
    BY <1>1, <2>1, <2>2, PromotionUpdate
<1>5. QED
  BY <1>3, <1>4

LEMMA SettleType ==
  ASSUME CallInv, PromotionInv, NEW r \in RefreshIds, Settle(r)
  PROVE  CallInv' /\ PromotionInv'
<1>1. CallInv'
  <2>1. pending' \in [Convs -> 0..issued']
    <3>1. 0 \in 0..issued /\ issued' = issued
      BY Bounds DEF CallInv, Settle
    <3> DEFINE c == refresh[r].conv
               new == IF pending[c] = r THEN 0 ELSE pending[c]
    <3>2. pending' = [pending EXCEPT ![c] = new]
      BY DEF Settle
    <3>3. c \in Convs => new \in 0..issued
      BY <3>1 DEF CallInv
    <3> HIDE DEF c, new
    <3>4. QED
      BY <3>1, <3>2, <3>3 DEF CallInv
  <2>2. QED
    BY <2>1, EmptyTypes, CallUpdate DEF Settle, CallInv
<1>2. PromotionInv'
  <2> DEFINE new == IF promotion[r].pc = "refreshing" THEN [promotion[r] EXCEPT !.pc = "check"]
                                                      ELSE promotion[r]
  <2>1. promotion' = [promotion EXCEPT ![r] = new]
    BY DEF Settle
  <2>2. new \in Promotion /\ (new.pc # "none" => new.conv \in Convs)
    BY DEF PromotionInv, Promotion
  <2> HIDE DEF new
  <2>3. QED
    BY <2>1, <2>2, PromotionUpdate
<1>3. QED
  BY <1>1, <1>2

LEMMA UpsertType ==
  ASSUME RowInv, NEW c, NEW seen \in SUBSET Points, Upsert(c, seen)
  PROVE  working' \in [Convs -> Row]
<1>1. c \in Convs /\ Len(log[c]) \in Nat
  BY DEF Upsert, Exists, RowInv
<1> DEFINE new == [present |-> TRUE, seen |-> seen, through |-> Len(log[c])]
<1>2. new \in Row
  BY <1>1 DEF Row
<1>3. working' = [working EXCEPT ![c] = new]
  BY DEF Upsert
<1> HIDE DEF new
<1>4. QED
  BY <1>2, <1>3 DEF RowInv

LEMMA RefreshStepType ==
  ASSUME MemoryTypeInv, NEW r \in RefreshIds, RefreshStep(r)
  PROVE  MemoryTypeInv'
<1> USE DEF MemoryTypeInv
<1>1. TurnInv' /\ OpInv' /\ HistoryInv'
  BY DEF RefreshStep, historyVars, TurnInv, OpInv, HistoryInv
<1>2. refresh[r] \in Refresh /\ UNCHANGED <<pending, issued>> => pending' \in [Convs -> 0..issued']
  BY DEF CallInv
<1>3. CASE StartRefresh(r)
  <2>1. RowInv' /\ refresh[r].conv \in Convs /\ refresh[r] \in Refresh
    BY <1>3 DEF StartRefresh, rowVars, RowInv, CallInv
  <2>2. CASE Settle(r)
    BY <1>1, <2>1, <2>2, SettleType
  <2>3. CASE ~Settle(r)
    <3> DEFINE new == [refresh[r] EXCEPT !.pc = "recalling", !.prior = 0,
                                         !.window = RefreshSees(refresh[r].conv)]
    <3>1. refresh' = [refresh EXCEPT ![r] = new] /\ UNCHANGED <<issued, pending, promotion>>
      BY <1>3, <2>3 DEF StartRefresh
    <3>2. RefreshSees(refresh[r].conv) \in SUBSET Points
      BY <2>1, PointTypes DEF RefreshSees
    <3>3. new \in Refresh /\ new.conv \in Convs
      BY <2>1, <3>2 DEF Refresh
    <3> HIDE DEF new
    <3>4. CallInv'
      BY <3>1, <3>3, CallUpdate DEF CallInv
    <3>5. QED
      BY <1>1, <2>1, <3>1, <3>4 DEF PromotionInv
  <2>4. QED
    BY <2>2, <2>3
<1>4. CASE ReadPriorMemory(r)
  <2> DEFINE new == [refresh[r] EXCEPT !.pc = "rewriting", !.seen = working[refresh[r].conv].seen]
  <2>1. RowInv' /\ refresh[r].conv \in Convs /\ refresh[r] \in Refresh
    BY <1>4 DEF ReadPriorMemory, rowVars, RowInv, CallInv
  <2>2. refresh' = [refresh EXCEPT ![r] = new] /\ UNCHANGED <<issued, pending, promotion>>
    BY <1>4 DEF ReadPriorMemory
  <2>3. working[refresh[r].conv].seen \in SUBSET Points
    BY <2>1 DEF RowInv, Row
  <2>4. new \in Refresh /\ new.conv \in Convs
    BY <2>1, <2>3 DEF Refresh
  <2> HIDE DEF new
  <2>5. CallInv'
    BY <2>2, <2>4, CallUpdate DEF CallInv
  <2>6. QED
    BY <1>1, <2>1, <2>2, <2>5 DEF PromotionInv
<1>5. CASE RewriteMemory(r)
  <2>1. refresh[r].seen \cup refresh[r].window \in SUBSET Points
    BY DEF CallInv, Refresh
  <2>2. working' \in [Convs -> Row]
    BY <1>5, <2>1, UpsertType DEF RewriteMemory
  <2>3. CallInv' /\ PromotionInv'
    BY <1>5, SettleType DEF RewriteMemory
  <2>4. QED
    BY <1>1, <1>5, <2>2, <2>3 DEF RewriteMemory, RowInv
<1>6. CASE RefreshFails(r)
  BY <1>1, <1>6, SettleType DEF RefreshFails, rowVars, RowInv
<1>7. QED
  BY <1>3, <1>4, <1>5, <1>6 DEF RefreshStep

LEMMA PromotionStepType ==
  ASSUME MemoryTypeInv, NEW r \in RefreshIds, PromotionStep(r)
  PROVE  MemoryTypeInv'
<1> USE DEF MemoryTypeInv
<1>1. TurnInv' /\ OpInv' /\ HistoryInv' /\ CallInv'
  BY DEF PromotionStep, CheckEpisode, DraftEpisode, CreateEpisode, EpisodeFails, GotoPromotion,
     historyVars, TurnInv, OpInv, HistoryInv, CallInv
<1> DEFINE c == promotion[r].conv
<1>2. c \in Convs /\ promotion[r] \in Promotion
  BY DEF PromotionStep, CheckEpisode, DraftEpisode, CreateEpisode, EpisodeFails, PromotionInv
<1>3. ASSUME NEW new, GotoPromotion(r, new), new \in Promotion,
             new.pc # "none" => new.conv \in Convs
      PROVE  PromotionInv'
  BY <1>3, PromotionUpdate DEF GotoPromotion
<1>4. CASE CheckEpisode(r)
  <2>1. [promotion[r] EXCEPT !.pc = "draft"] \in Promotion
    BY <1>2 DEF Promotion
  <2>2. PromotionInv'
    BY <1>2, <1>3, <1>4, <2>1, EmptyTypes DEF CheckEpisode, Promotion
  <2>3. QED
    BY <1>1, <1>4, <2>2 DEF CheckEpisode, rowVars, RowInv
<1>5. CASE DraftEpisode(r)
  <2> DEFINE seen == IF working[c].present THEN working[c].seen ELSE Fallback(c)
             new == [promotion[r] EXCEPT !.pc = "create", !.seen = seen]
  <2>1. GotoPromotion(r, new)
    BY <1>5 DEF DraftEpisode
  <2>2. seen \in SUBSET Points
    BY <1>2, PointTypes DEF RowInv, Row
  <2> HIDE DEF seen
  <2>3. new \in Promotion /\ new.conv \in Convs
    BY <1>2, <2>2 DEF Promotion
  <2> HIDE DEF new
  <2>4. PromotionInv'
    BY <1>3, <2>1, <2>3
  <2>5. QED
    BY <1>1, <1>5, <2>4 DEF DraftEpisode, rowVars, RowInv
<1>6. CASE CreateEpisode(r)
  <2>1. PromotionInv'
    BY <1>3, <1>6, EmptyTypes DEF CreateEpisode
  <2>2. promotion[r].seen \in SUBSET Points
    BY <1>2 DEF Promotion
  <2>3. [present |-> TRUE, seen |-> promotion[r].seen, through |-> 0] \in Row
    BY <2>2 DEF Row
  <2>4. episode' \in [Convs -> Row]
    BY <1>6, <2>3 DEF CreateEpisode, InsertEpisode, RowInv
  <2>5. QED
    BY <1>1, <1>6, <2>1, <2>4 DEF CreateEpisode, RowInv
<1>7. CASE EpisodeFails(r)
  <2> DEFINE new == [NoPromotion EXCEPT !.pc = "failed", !.conv = c]
  <2>1. GotoPromotion(r, new)
    BY <1>7 DEF EpisodeFails
  <2>2. new \in Promotion /\ new.conv \in Convs
    BY <1>2, EmptyTypes DEF Promotion
  <2> HIDE DEF new
  <2>3. PromotionInv'
    BY <1>3, <2>1, <2>2
  <2>4. QED
    BY <1>1, <1>7, <2>3 DEF EpisodeFails, rowVars, RowInv
<1>8. QED
  BY <1>4, <1>5, <1>6, <1>7 DEF PromotionStep

LEMMA AppendType ==
  ASSUME RowInv, NEW c, Exists(c), NEW role \in Roles, log' = [log EXCEPT ![c] = Append(@, role)]
  PROVE  log' \in [Convs -> Seq(Roles)]
<1>1. c \in Convs /\ Append(log[c], role) \in Seq(Roles)
  BY DEF Exists, RowInv
<1>2. QED
  BY <1>1 DEF RowInv

LEMMA TurnStepType ==
  ASSUME MemoryTypeInv, NEW t \in Turns, TurnStep(t)
  PROVE  MemoryTypeInv'
<1> USE DEF MemoryTypeInv
<1>1. OpInv' /\ HistoryInv'
  BY DEF TurnStep, historyVars, OpInv, HistoryInv
<1>2. ASSUME UNCHANGED serviceVars
      PROVE  CallInv' /\ PromotionInv'
  BY <1>2 DEF serviceVars, CallInv, PromotionInv
<1>3. turn[t] \in Turn
  BY DEF TurnInv
<1>4. ASSUME NEW new \in Turn, turn' = [turn EXCEPT ![t] = new]
      PROVE  TurnInv'
  BY <1>4 DEF TurnInv
<1>5. CASE \E c \in Convs : BeginTurn(t, c)
  <2>1. PICK c \in Convs : BeginTurn(t, c)
    BY <1>5
  <2>2. pending[c] \in RefreshIds \cup {0}
    BY Bounds DEF CallInv
  <2>3. [pc |-> "waiting", conv |-> c, awaits |-> pending[c]] \in Turn
    BY <2>2 DEF Turn
  <2>4. TurnInv'
    BY <1>4, <2>1, <2>3 DEF BeginTurn
  <2>5. QED
    BY <1>1, <1>2, <2>1, <2>4 DEF BeginTurn, rowVars, RowInv
<1>6. CASE PrepareTurn(t)
  <2>1. [turn[t] EXCEPT !.pc = "asking", !.awaits = 0] \in Turn
    BY <1>3 DEF Turn
  <2>2. TurnInv'
    BY <1>4, <1>6, <2>1 DEF PrepareTurn
  <2>3. log' \in [Convs -> Seq(Roles)]
    BY <1>6, AppendType DEF PrepareTurn, Roles
  <2>4. QED
    BY <1>1, <1>2, <1>6, <2>2, <2>3 DEF PrepareTurn, RowInv
<1>7. CASE StoreReply(t)
  <2>1. TurnInv'
    BY <1>7 DEF StoreReply, GotoTurn, TurnInv, Turn
  <2>2. log' \in [Convs -> Seq(Roles)]
    BY <1>7, AppendType DEF StoreReply, Roles
  <2>3. QED
    BY <1>1, <1>2, <1>7, <2>1, <2>2 DEF StoreReply, RowInv
<1>8. CASE FinishTurn(t)
  <2>1. CallInv' /\ PromotionInv'
    BY <1>8, ExecuteType DEF FinishTurn, Exists, Triggers
  <2>2. TurnInv'
    BY <1>4, <1>8, EmptyTypes DEF FinishTurn
  <2>3. QED
    BY <1>1, <1>8, <2>1, <2>2 DEF FinishTurn, rowVars, RowInv
<1>9. CASE TurnFails(t)
  <2>1. TurnInv'
    BY <1>4, <1>9, EmptyTypes DEF TurnFails
  <2>2. QED
    BY <1>1, <1>2, <1>9, <2>1 DEF TurnFails, rowVars, RowInv
<1>10. QED
  BY <1>5, <1>6, <1>7, <1>8, <1>9 DEF TurnStep

LEMMA OpUpdate ==
  ASSUME OpInv, NEW o \in Ops, NEW new \in Op, SetOp(o, new),
         new.pc = "touch" => new.previous \in Convs
  PROVE  OpInv'
BY DEF OpInv, SetOp

LEMMA CloseType ==
  ASSUME MemoryTypeInv, NEW c, Close(c), UNCHANGED <<log, working, episode>>
  PROVE  c \in Convs /\ RowInv' /\ ended' \in [Convs -> Nat]
<1> USE DEF MemoryTypeInv
<1>1. c \in Convs /\ Len(log[c]) \in Nat
  BY DEF Close, Exists, RowInv
<1>2. RowInv'
  BY DEF Close, RowInv
<1>3. ended' \in [Convs -> Nat]
  BY <1>1 DEF Close, HistoryInv
<1>4. QED
  BY <1>1, <1>2, <1>3

LEMMA OpeningType ==
  ASSUME MemoryTypeInv, NEW o \in Ops,
         \/ \E k \in AllKinds : FindActive(o, k)
         \/ ClosePrevious(o)
         \/ \E c \in Convs : CreateConversation(o, c)
         \/ ReadEpisodes(o)
         \/ Hydrate(o)
  PROVE  RowInv' /\ CallInv' /\ PromotionInv' /\ OpInv' /\ ended' \in [Convs -> Nat]
<1> USE DEF MemoryTypeInv
<1>1. op[o] \in Op /\ IdleOp \in Op
  BY EmptyTypes DEF OpInv
<1>2. ASSUME UNCHANGED serviceVars
      PROVE  CallInv' /\ PromotionInv'
  BY <1>2 DEF serviceVars, CallInv, PromotionInv
<1>3. ASSUME UNCHANGED <<rowVars, serviceVars, ended>>
      PROVE  RowInv' /\ CallInv' /\ PromotionInv' /\ ended' \in [Convs -> Nat]
  BY <1>2, <1>3 DEF rowVars, RowInv, HistoryInv
<1>4. ASSUME NEW k \in AllKinds, FindActive(o, k)
      PROVE  OpInv' /\ UNCHANGED <<rowVars, serviceVars, ended>>
  <2>1. CASE SetOp(o, [IdleOp EXCEPT !.pc = "create", !.kind = k])
    <3>1. [IdleOp EXCEPT !.pc = "create", !.kind = k] \in Op
      BY <1>1 DEF Op
    <3>2. QED
      BY <1>4, <2>1, <3>1, OpUpdate DEF FindActive, IdleOp
  <2>2. ASSUME NEW c \in Newest(ActiveConvs),
               SetOp(o, [IdleOp EXCEPT !.pc = "close", !.kind = k, !.previous = c])
        PROVE  OpInv'
    <3>1. c \in Convs
      BY DEF Newest, ActiveConvs
    <3>2. [IdleOp EXCEPT !.pc = "close", !.kind = k, !.previous = c] \in Op
      BY <1>1, <3>1 DEF Op
    <3>3. QED
      BY <2>2, <3>2, OpUpdate DEF IdleOp
  <2>3. QED
    BY <1>4, <2>1, <2>2 DEF FindActive
<1>5. CASE ClosePrevious(o)
  <2>1. [op[o] EXCEPT !.pc = "create"] \in Op
    BY <1>1 DEF Op
  <2>2. OpInv'
    BY <1>5, <2>1, OpUpdate DEF ClosePrevious, Op
  <2>3. QED
    BY <1>5, <2>2, CloseType, ExecuteType
       DEF ClosePrevious, RunBackgroundClosePipeline, Triggers
<1>6. ASSUME NEW c \in Convs, CreateConversation(o, c)
      PROVE  RowInv' /\ CallInv' /\ PromotionInv' /\ OpInv' /\ ended' \in [Convs -> Nat]
  <2>1. [IdleOp EXCEPT !.pc = "recall", !.conv = c] \in Op
    BY <1>1 DEF Op
  <2>2. OpInv'
    BY <1>6, <2>1, OpUpdate DEF CreateConversation, IdleOp
  <2>3. RowInv'
    BY <1>6 DEF CreateConversation, RowInv
  <2>4. QED
    BY <1>2, <1>6, <2>2, <2>3 DEF CreateConversation, HistoryInv
<1>7. CASE ReadEpisodes(o)
  <2> DEFINE made == {c \in Convs : episode[c].present}
             recalled == UNION {episode[c].seen : c \in made}
             none == [IdleOp EXCEPT !.pc = "done"]
             some == [op[o] EXCEPT !.pc = "hydrate", !.seen = recalled]
  <2>1. recalled \in SUBSET Points
    BY DEF RowInv, Row
  <2>2. SetOp(o, none) \/ SetOp(o, some)
    BY <1>7 DEF ReadEpisodes
  <2> HIDE DEF recalled
  <2>3. none \in Op /\ some \in Op /\ none.pc # "touch" /\ some.pc # "touch"
    BY <1>1, <2>1 DEF Op
  <2> HIDE DEF none, some
  <2>4. OpInv'
    BY <2>2, <2>3, OpUpdate
  <2>5. QED
    BY <1>3, <1>7, <2>4 DEF ReadEpisodes
<1>8. CASE Hydrate(o)
  <2>1. op[o].seen \in SUBSET Points
    BY <1>1 DEF Op
  <2>2. working' \in [Convs -> Row]
    BY <1>8, <2>1, UpsertType DEF Hydrate
  <2>3. [IdleOp EXCEPT !.pc = "done"] \in Op
    BY <1>1 DEF Op
  <2>4. OpInv'
    BY <1>8, <2>3, OpUpdate DEF Hydrate, IdleOp
  <2>5. QED
    BY <1>2, <1>8, <2>2, <2>4 DEF Hydrate, RowInv, HistoryInv
<1>9. QED
  BY <1>3, <1>4, <1>5, <1>6, <1>7, <1>8

LEMMA EndingType ==
  ASSUME MemoryTypeInv, NEW o \in Ops,
         \/ \E c \in Convs : LoadConversation(o, c)
         \/ EndConversation(o) \/ PromoteEnded(o) \/ TouchSessionFails(o)
         \/ DeleteMessages(o) \/ DeleteConversations(o)
         \/ DeleteEpisodes(o) \/ DeleteWorking(o) \/ OpFails(o)
  PROVE  RowInv' /\ CallInv' /\ PromotionInv' /\ OpInv' /\ ended' \in [Convs -> Nat]
<1> USE DEF MemoryTypeInv
<1>1. op[o] \in Op /\ IdleOp \in Op
  BY EmptyTypes DEF OpInv
<1>2. ASSUME UNCHANGED serviceVars
      PROVE  CallInv' /\ PromotionInv'
  BY <1>2 DEF serviceVars, CallInv, PromotionInv
<1>3. OpInv'
  <2>1. \A c \in Convs : [IdleOp EXCEPT !.pc = "close", !.kind = "end", !.previous = c] \in Op
    BY <1>1 DEF Op, AllKinds
  <2>2. /\ [IdleOp EXCEPT !.pc = "done"] \in Op
        /\ [IdleOp EXCEPT !.pc = "conversations", !.kind = "reset"] \in Op
        /\ [op[o] EXCEPT !.pc = "episodes"] \in Op
        /\ [op[o] EXCEPT !.pc = "rows"] \in Op
        /\ [op[o] EXCEPT !.pc = "touch"] \in Op
        /\ [op[o] EXCEPT !.pc = "failed"] \in Op
    BY <1>1 DEF Op, AllKinds
  <2>3. EndConversation(o) => op[o].previous \in Convs
    BY DEF EndConversation, Close, Exists
  <2>4. CASE EndConversation(o)
    BY <1>1, <2>2, <2>3, <2>4, OpUpdate DEF EndConversation, Op
  <2>5. /\ \A c : [IdleOp EXCEPT !.pc = "close", !.kind = "end", !.previous = c].pc = "close"
        /\ [IdleOp EXCEPT !.pc = "done"].pc = "done"
        /\ [IdleOp EXCEPT !.pc = "conversations", !.kind = "reset"].pc = "conversations"
        /\ [op[o] EXCEPT !.pc = "episodes"].pc = "episodes"
        /\ [op[o] EXCEPT !.pc = "rows"].pc = "rows"
        /\ [op[o] EXCEPT !.pc = "failed"].pc = "failed"
    BY <1>1 DEF IdleOp, Op
  <2>6. CASE ~EndConversation(o)
    BY <2>1, <2>2, <2>5, <2>6, OpUpdate DEF LoadConversation, PromoteEnded, TouchSessionFails,
       DeleteMessages, DeleteConversations, DeleteEpisodes, DeleteWorking, OpFails
  <2>7. QED
    BY <2>4, <2>6
<1>4. CASE EndConversation(o)
  BY <1>2, <1>3, <1>4, CloseType DEF EndConversation
<1>10. CASE PromoteEnded(o)
  BY <1>3, <1>10, ExecuteType
     DEF PromoteEnded, RunBackgroundClosePipeline, Triggers, OpInv, rowVars, RowInv, HistoryInv
<1>5. CASE (\E c \in Convs : LoadConversation(o, c)) \/ OpFails(o) \/ TouchSessionFails(o)
  BY <1>2, <1>3, <1>5 DEF LoadConversation, OpFails, TouchSessionFails, rowVars, RowInv, HistoryInv
<1>6. CASE DeleteMessages(o)
  <2>1. <<>> \in Seq(Roles)
    OBVIOUS
  <2>2. log' \in [Convs -> Seq(Roles)]
    BY <1>6, <2>1 DEF DeleteMessages
  <2>3. working' \in [Convs -> Row]
    BY <1>6 DEF DeleteMessages, RowInv, Row
  <2>4. ended' \in [Convs -> Nat]
    BY <1>6 DEF DeleteMessages
  <2>5. QED
    BY <1>2, <1>3, <1>6, <2>2, <2>3, <2>4 DEF DeleteMessages, RowInv
<1>7. CASE DeleteConversations(o)
  <2>1. <<>> \in Seq(Roles)
    OBVIOUS
  <2>2. log' \in [Convs -> Seq(Roles)]
    BY <1>7, <2>1 DEF DeleteConversations
  <2>3. status' \in [Convs -> {"absent", "active", "closed", "deleted"}]
    BY <1>7 DEF DeleteConversations
  <2>4. QED
    BY <1>2, <1>3, <1>7, <2>2, <2>3, EmptyTypes DEF DeleteConversations, RowInv, HistoryInv
<1>8. CASE DeleteEpisodes(o) \/ DeleteWorking(o)
  BY <1>2, <1>3, <1>8, EmptyTypes DEF DeleteEpisodes, DeleteWorking, RowInv, HistoryInv
<1>9. QED
  BY <1>4, <1>5, <1>6, <1>7, <1>8, <1>10

LEMMA OpStepType ==
  ASSUME MemoryTypeInv, NEW o \in Ops, OpStep(o)
  PROVE  MemoryTypeInv'
<1> USE DEF MemoryTypeInv
<1>1. TurnInv' /\ restarted' \in BOOLEAN
  BY DEF OpStep, TurnInv, HistoryInv
<1>2. CASE LifecycleStep(o) /\ UNCHANGED cleared
  <2>1. RowInv' /\ CallInv' /\ PromotionInv' /\ OpInv' /\ ended' \in [Convs -> Nat]
    BY <1>2, OpeningType, EndingType DEF LifecycleStep
  <2>2. QED
    BY <1>1, <1>2, <2>1 DEF HistoryInv
<1>3. [IdleOp EXCEPT !.pc = "done"] \in Op
  BY EmptyTypes DEF Op
<1>4. CASE AdminRefresh(o)
  <2>1. LatestConvs \subseteq Convs
    BY DEF LatestConvs, Newest, ActiveConvs
  <2>2. CallInv' /\ PromotionInv'
    BY <1>4, <2>1, ExecuteType DEF AdminRefresh, Triggers
  <2>3. OpInv'
    BY <1>3, <1>4, OpUpdate DEF AdminRefresh, IdleOp
  <2>4. QED
    BY <1>1, <1>4, <2>2, <2>3 DEF AdminRefresh, rowVars, historyVars, RowInv, HistoryInv
<1>5. CASE AdminClear(o)
  <2>1. cleared' \in SUBSET Points
    BY <1>5, PointTypes DEF AdminClear, HistoryInv
  <2>2. OpInv'
    BY <1>3, <1>5, OpUpdate DEF AdminClear, IdleOp
  <2>3. QED
    BY <1>1, <1>5, <2>1, <2>2, EmptyTypes DEF AdminClear, serviceVars, RowInv, CallInv, PromotionInv,
       HistoryInv
<1>6. QED
  BY <1>2, <1>4, <1>5 DEF OpStep

LEMMA RestartType ==
  ASSUME MemoryTypeInv, NEW o \in Ops, Restart(o)
  PROVE  MemoryTypeInv'
<1> USE DEF MemoryTypeInv, Restart
<1>1. RowInv' /\ HistoryInv'
  BY DEF rowVars, historyVars, RowInv, HistoryInv
<1>2. CallInv'
  <2>1. 0 \in 0..issued /\ issued' = issued
    BY Bounds DEF CallInv
  <2>2. QED
    BY <2>1, EmptyTypes DEF CallInv
<1>3. PromotionInv' /\ TurnInv'
  BY EmptyTypes DEF PromotionInv, TurnInv
<1>4. OpInv'
  <2>1. [IdleOp EXCEPT !.pc = "done"] \in Op
    BY EmptyTypes DEF Op
  <2>2. QED
    BY <2>1, EmptyTypes DEF OpInv, IdleOp
<1>5. QED
  BY <1>1, <1>2, <1>3, <1>4

LEMMA MemoryInitType == MemoryInit => MemoryTypeInv
<1> SUFFICES ASSUME MemoryInit PROVE MemoryTypeInv
  OBVIOUS
<1> USE EmptyTypes, Bounds DEF MemoryInit
<1>1. RowInv
  <2>1. Spoken \in Seq(Roles) /\ <<>> \in Seq(Roles)
    BY MemoryAssumption DEF Roles
  <2>2. log \in [Convs -> Seq(Roles)]
    BY <2>1
  <2>3. QED
    BY <2>2 DEF RowInv
<1>2. CallInv
  BY DEF CallInv
<1>3. PromotionInv /\ TurnInv /\ OpInv /\ HistoryInv
  BY EmptyTypes DEF PromotionInv, TurnInv, OpInv, IdleOp, HistoryInv
<1>4. QED
  BY <1>1, <1>2, <1>3 DEF MemoryTypeInv

LEMMA MemoryNextType == MemoryTypeInv /\ [MemoryNext]_memoryVars => MemoryTypeInv'
<1> SUFFICES ASSUME MemoryTypeInv, [MemoryNext]_memoryVars PROVE MemoryTypeInv'
  OBVIOUS
<1>1. CASE UNCHANGED memoryVars
  BY <1>1 DEF memoryVars, rowVars, serviceVars, historyVars, MemoryTypeInv, RowInv, CallInv,
     PromotionInv, TurnInv, OpInv, HistoryInv
<1>2. QED
  BY <1>1, TurnStepType, OpStepType, RestartType, RefreshStepType, PromotionStepType DEF MemoryNext

LEMMA MemoryTypeInvHolds == MemorySpec => []MemoryTypeInv
BY MemoryInitType, MemoryNextType, PTL DEF MemorySpec

(* Every row, call, pipeline and request keeps its type, and the service's  *)
(* map refers to calls that were made, for any number of them.              *)
THEOREM MemoryTypeCorrect == MemorySpec => []MemoryTypeOK
<1>1. MemoryTypeInv => MemoryTypeOK
  BY DEF MemoryTypeInv, MemoryTypeOK, RowInv, Roles, CallInv, PromotionInv, TurnInv, OpInv, HistoryInv
<1>2. QED
  BY <1>1, MemoryTypeInvHolds, PTL

-----------------------------------------------------------------------------
(* The queue of refreshes.  A call may start only when its prior is over,   *)
(* and then no earlier call of its conversation is live; the map's entry is *)
(* the newest that is.                                                      *)

Live(r) == refresh[r].pc \in {"queued", "recalling", "rewriting"}
Earliest(r) == \A q \in RefreshIds : Live(q) /\ refresh[q].conv = refresh[r].conv => r <= q

ChainInv ==
  /\ \A r \in RefreshIds : Live(r) => r <= issued /\ r <= pending[refresh[r].conv]
  /\ \A c \in Convs : pending[c] # 0 => Live(pending[c]) /\ refresh[pending[c]].conv = c
  /\ \A r \in RefreshIds : refresh[r].pc = "queued" =>
       /\ refresh[r].prior < r
       /\ refresh[r].prior # 0 /\ Live(refresh[r].prior) =>
            refresh[refresh[r].prior].conv = refresh[r].conv
       /\ \A q \in RefreshIds :
            Live(q) /\ refresh[q].conv = refresh[r].conv /\ q < r => q <= refresh[r].prior
       /\ Over(refresh[r].prior) => Earliest(r)
  /\ \A r \in RefreshIds : refresh[r].pc \in {"recalling", "rewriting"} => Earliest(r)

LEMMA CallTypes ==
  ASSUME CallInv
  PROVE  /\ issued \in Nat /\ 0 \notin RefreshIds
         /\ \A r \in RefreshIds : r \in Nat /\ refresh[r].prior \in RefreshIds \cup {0}
         /\ \A r \in RefreshIds : Live(r) => refresh[r].conv \in Convs
         /\ \A c \in Convs : pending[c] \in Nat /\ pending[c] <= issued
         /\ \A c \in Convs : pending[c] # 0 => pending[c] \in RefreshIds
<1>1. issued \in Nat /\ issued <= MaxRefreshes /\ MaxRefreshes \in Nat
  BY Bounds DEF CallInv
<1>2. \A c \in Convs : pending[c] \in 0..issued
  BY DEF CallInv
<1>3. QED
  BY <1>1, <1>2, Bounds DEF CallInv, Refresh, Live, RefreshIds

LEMMA ExecuteIsOf ==
  ASSUME CallInv, NEW c \in Convs, NEW trigger \in Triggers, NEW promoting \in BOOLEAN,
         Execute(c, trigger, promoting)
  PROVE  /\ issued' = issued + 1 /\ issued' \in RefreshIds
         /\ refresh'[issued'].pc = "queued" /\ refresh'[issued'].conv = c
         /\ refresh'[issued'].prior = pending[c]
         /\ \A r \in RefreshIds : r # issued' => refresh'[r] = refresh[r]
         /\ pending'[c] = issued'
         /\ \A d \in Convs : d # c => pending'[d] = pending[d]
<1>1. issued \in Nat /\ issued + 1 \in RefreshIds /\ issued' = issued + 1
  BY Bounds DEF Execute, CallInv, RefreshIds
<1>2. refresh' = [refresh EXCEPT ![issued + 1] =
        [NoRefresh EXCEPT !.pc = "queued", !.conv = c, !.prior = pending[c], !.trigger = trigger]]
      /\ pending' = [pending EXCEPT ![c] = issued + 1]
  BY DEF Execute
<1>3. refresh'[issued + 1] =
        [NoRefresh EXCEPT !.pc = "queued", !.conv = c, !.prior = pending[c], !.trigger = trigger]
  BY <1>1, <1>2 DEF CallInv
<1>4. refresh'[issued + 1].pc = "queued" /\ refresh'[issued + 1].conv = c
      /\ refresh'[issued + 1].prior = pending[c]
  BY <1>3 DEF NoRefresh
<1>5. QED
  BY <1>1, <1>2, <1>4 DEF CallInv

LEMMA SettleIsOf ==
  ASSUME CallInv, NEW r \in RefreshIds, Settle(r)
  PROVE  /\ refresh'[r].pc = "settled" /\ issued' = issued
         /\ \A q \in RefreshIds : q # r => refresh'[q] = refresh[q]
         /\ \A c \in Convs :
              pending'[c] = IF c = refresh[r].conv /\ pending[c] = r THEN 0 ELSE pending[c]
BY EmptyTypes DEF CallInv, Settle

LEMMA ExecuteChain ==
  ASSUME CallInv, ChainInv, NEW c \in Convs, NEW trigger \in Triggers, NEW promoting \in BOOLEAN,
         Execute(c, trigger, promoting)
  PROVE  ChainInv'
<1>0. PICK n \in RefreshIds : n = issued + 1
  BY ExecuteIsOf
<1>1. /\ issued' = n
      /\ refresh'[n].pc = "queued" /\ refresh'[n].conv = c /\ refresh'[n].prior = pending[c]
      /\ \A r \in RefreshIds : r # n => refresh'[r] = refresh[r]
      /\ pending'[c] = n
      /\ \A d \in Convs : d # c => pending'[d] = pending[d]
  BY <1>0, ExecuteIsOf
<1>2. issued \in Nat /\ n \in Nat /\ \A r \in RefreshIds : Live(r) => r < n /\ r \in Nat
  BY <1>0, CallTypes DEF ChainInv
<1>3. \A r \in RefreshIds : Live(r)' <=> Live(r) \/ r = n
  BY <1>1 DEF Live
<1>4. \A r \in RefreshIds : Live(r) => r # n /\ refresh[r].conv \in Convs
                                       /\ refresh'[r] = refresh[r]
  BY <1>1, <1>2, CallTypes
<1>5. \A r \in RefreshIds : Live(r)' => r <= issued' /\ r <= pending'[refresh'[r].conv]
  <2>1. \A r \in RefreshIds : Live(r) => r <= issued' /\ r <= pending'[refresh'[r].conv]
    <3> SUFFICES ASSUME NEW r \in RefreshIds, Live(r)
                 PROVE  r <= issued' /\ r <= pending'[refresh'[r].conv]
      OBVIOUS
    <3>1. refresh'[r] = refresh[r] /\ refresh[r].conv \in Convs /\ r < n /\ r \in Nat
      BY <1>2, <1>4
    <3>2. r <= pending[refresh[r].conv]
      BY DEF ChainInv
    <3>3. QED
      BY <1>1, <1>2, <3>1, <3>2
  <2>2. n <= issued' /\ n <= pending'[refresh'[n].conv]
    BY <1>1, CallTypes
  <2>3. QED
    BY <1>3, <2>1, <2>2
<1>6. \A d \in Convs : pending'[d] # 0 => Live(pending[d])' /\ refresh'[pending'[d]].conv = d
  <2>1. \A d \in Convs : d # c /\ pending[d] # 0 => pending[d] \in RefreshIds /\ Live(pending[d])
    BY CallTypes DEF ChainInv
  <2>2. QED
    BY <1>1, <1>3, <1>4, <2>1 DEF ChainInv, Live
<1>7. \A r \in RefreshIds : Live(r) /\ Earliest(r) => Earliest(r)'
  <2> SUFFICES ASSUME NEW r \in RefreshIds, Live(r), Earliest(r), NEW q \in RefreshIds,
                      Live(q)', refresh'[q].conv = refresh'[r].conv
               PROVE  r <= q
    BY DEF Earliest
  <2>1. refresh'[r] = refresh[r] /\ r < n /\ r \in Nat
    BY <1>2, <1>4
  <2>2. CASE q = n
    BY <1>2, <2>1, <2>2
  <2>3. CASE Live(q)
    BY <1>4, <2>1, <2>3 DEF Earliest
  <2>4. QED
    BY <1>3, <2>2, <2>3
<1>8. ASSUME NEW r \in RefreshIds, refresh'[r].pc = "queued"
      PROVE  /\ refresh'[r].prior < r
             /\ refresh'[r].prior # 0 /\ Live(refresh[r].prior)' =>
                  refresh'[refresh'[r].prior].conv = refresh'[r].conv
             /\ \A q \in RefreshIds :
                  Live(q)' /\ refresh'[q].conv = refresh'[r].conv /\ q < r =>
                    q <= refresh'[r].prior
             /\ Over(refresh[r].prior)' => Earliest(r)'
  <2>1. CASE r = n
    <3>1. pending[c] < n /\ pending[c] \in Nat
      BY <1>0, CallTypes
    <3>2. \A q \in RefreshIds : Live(q) /\ refresh[q].conv = c => q <= pending[c]
      BY DEF ChainInv
    <3>3. \A q \in RefreshIds :
            Live(q)' /\ refresh'[q].conv = c /\ q < n => q <= pending[c]
      BY <1>2, <1>3, <1>4, <3>2
    <3>4. CASE pending[c] # 0
      <4>1. pending[c] \in RefreshIds /\ Live(pending[c]) /\ refresh[pending[c]].conv = c
        BY <3>4, CallTypes DEF ChainInv
      <4>2. refresh'[pending[c]].pc # "settled" /\ refresh'[pending[c]].conv = c
        BY <1>4, <4>1 DEF Live
      <4>3. ~Over(refresh[r].prior)'
        BY <1>1, <2>1, <3>4, <4>2 DEF Over
      <4>4. refresh'[refresh'[r].prior].conv = refresh'[r].conv /\ refresh'[r].prior < r
        BY <1>1, <2>1, <3>1, <4>2
      <4>5. \A q \in RefreshIds :
              Live(q)' /\ refresh'[q].conv = refresh'[r].conv /\ q < r => q <= refresh'[r].prior
        BY <1>1, <2>1, <3>3
      <4>6. QED
        BY <4>3, <4>4, <4>5
    <3>5. CASE pending[c] = 0
      <4>1. \A q \in RefreshIds : ~(Live(q) /\ refresh[q].conv = c)
        BY <3>2, <3>5, <1>2, CallTypes
      <4>2. \A q \in RefreshIds : Live(q)' /\ refresh'[q].conv = c => q = n
        BY <1>3, <1>4, <4>1
      <4>3. Earliest(r)'
        BY <1>1, <2>1, <4>2, CallTypes DEF Earliest
      <4>4. refresh'[r].prior = 0 /\ refresh'[r].prior < r
        BY <1>1, <2>1, <3>1, <3>5
      <4>5. \A q \in RefreshIds :
              Live(q)' /\ refresh'[q].conv = refresh'[r].conv /\ q < r => q <= refresh'[r].prior
        BY <1>1, <2>1, <3>3
      <4>6. QED
        BY <4>3, <4>4, <4>5
    <3>6. QED
      BY <3>4, <3>5
  <2>2. CASE r # n
    <3>1. refresh'[r] = refresh[r] /\ Live(r) /\ refresh[r].pc = "queued" /\ r < n
      BY <1>1, <1>2, <1>8, <2>2 DEF Live
    <3>2. /\ refresh[r].prior < r
          /\ refresh[r].prior # 0 /\ Live(refresh[r].prior) =>
               refresh[refresh[r].prior].conv = refresh[r].conv
          /\ \A q \in RefreshIds :
               Live(q) /\ refresh[q].conv = refresh[r].conv /\ q < r => q <= refresh[r].prior
          /\ Over(refresh[r].prior) => Earliest(r)
      BY <3>1 DEF ChainInv
    <3>3. \A q \in RefreshIds : Live(q)' /\ q < r => Live(q) /\ refresh'[q] = refresh[q]
      BY <1>2, <1>3, <1>4, <3>1, CallTypes
    <3>4. refresh[r].prior # n /\ refresh[r].prior \in RefreshIds \cup {0}
      BY <3>1, <3>2, <1>2, CallTypes
    <3>5. Over(refresh[r].prior)' => Over(refresh[r].prior)
      BY <1>1, <3>1, <3>4 DEF Over
    <3>6. refresh'[r].prior # 0 /\ Live(refresh[r].prior)' =>
            refresh'[refresh'[r].prior].conv = refresh'[r].conv
      BY <1>1, <3>1, <3>2, <3>4 DEF Live
    <3>7. QED
      BY <1>7, <3>1, <3>2, <3>3, <3>5, <3>6
  <2>3. QED
    BY <2>1, <2>2
<1>9. \A r \in RefreshIds : refresh'[r].pc \in {"recalling", "rewriting"} => Earliest(r)'
  BY <1>1, <1>7 DEF ChainInv, Live
<1>10. QED
  BY <1>5, <1>6, <1>8, <1>9 DEF ChainInv

(* A call that is live and the earliest of its conversation ends, or is     *)
(* skipped.                                                                 *)
LEMMA SettleChain ==
  ASSUME CallInv, ChainInv, NEW r \in RefreshIds, Live(r), Earliest(r), Settle(r)
  PROVE  ChainInv'
<1>1. /\ refresh'[r].pc = "settled" /\ issued' = issued
      /\ \A q \in RefreshIds : q # r => refresh'[q] = refresh[q]
      /\ \A c \in Convs :
           pending'[c] = IF c = refresh[r].conv /\ pending[c] = r THEN 0 ELSE pending[c]
  BY SettleIsOf
<1>2. \A q \in RefreshIds : (Live(q)' <=> Live(q) /\ q # r) /\ (Live(q)' => refresh'[q] = refresh[q])
  BY <1>1 DEF Live
<1>3. r \in Nat /\ issued \in Nat /\ refresh[r].conv \in Convs
      /\ (\A q \in RefreshIds : q \in Nat /\ refresh[q].prior \in RefreshIds \cup {0})
  BY CallTypes
<1>4. ASSUME NEW q \in RefreshIds, Live(q), q # r
      PROVE  q <= issued /\ q <= pending'[refresh[q].conv]
  <2>1. q <= issued /\ q <= pending[refresh[q].conv] /\ refresh[q].conv \in Convs /\ q \in Nat
    BY <1>4, CallTypes DEF ChainInv
  <2>2. ~(refresh[q].conv = refresh[r].conv /\ pending[refresh[q].conv] = r)
    <3>1. refresh[q].conv = refresh[r].conv => r <= q
      BY <1>4 DEF Earliest
    <3>2. QED
      BY <1>3, <1>4, <2>1, <3>1
  <2>3. pending'[refresh[q].conv] = pending[refresh[q].conv]
    BY <1>1, <2>1, <2>2
  <2>4. QED
    BY <2>1, <2>3
<1>5. \A c \in Convs : pending'[c] # 0 => Live(pending[c])' /\ refresh'[pending'[c]].conv = c
  <2> SUFFICES ASSUME NEW c \in Convs, pending'[c] # 0
               PROVE  Live(pending[c])' /\ refresh'[pending'[c]].conv = c
    OBVIOUS
  <2>1. pending'[c] = pending[c] /\ ~(c = refresh[r].conv /\ pending[c] = r)
    BY <1>1
  <2>2. pending[c] \in RefreshIds /\ Live(pending[c]) /\ refresh[pending[c]].conv = c
    BY <2>1, CallTypes DEF ChainInv
  <2>3. pending[c] # r
    BY <2>1, <2>2
  <2>4. refresh'[pending[c]] = refresh[pending[c]]
    BY <1>1, <2>2, <2>3
  <2>5. QED
    BY <2>1, <2>2, <2>4 DEF Live
<1>6. \A q \in RefreshIds : Earliest(q) /\ q # r => Earliest(q)'
  <2> SUFFICES ASSUME NEW q \in RefreshIds, Earliest(q), q # r, NEW p \in RefreshIds,
                      Live(p)', refresh'[p].conv = refresh'[q].conv
               PROVE  q <= p
    BY DEF Earliest
  <2>1. QED
    BY <1>1, <1>2 DEF Earliest
<1>7. ASSUME NEW q \in RefreshIds, refresh'[q].pc = "queued"
      PROVE  /\ refresh'[q].prior < q
             /\ refresh'[q].prior # 0 /\ Live(refresh[q].prior)' =>
                  refresh'[refresh'[q].prior].conv = refresh'[q].conv
             /\ \A p \in RefreshIds :
                  Live(p)' /\ refresh'[p].conv = refresh'[q].conv /\ p < q =>
                    p <= refresh'[q].prior
             /\ Over(refresh[q].prior)' => Earliest(q)'
  <2>1. q # r /\ refresh'[q] = refresh[q] /\ refresh[q].pc = "queued" /\ Live(q)
    BY <1>1, <1>7 DEF Live
  <2>2. /\ refresh[q].prior < q
        /\ refresh[q].prior # 0 /\ Live(refresh[q].prior) =>
             refresh[refresh[q].prior].conv = refresh[q].conv
        /\ \A p \in RefreshIds :
             Live(p) /\ refresh[p].conv = refresh[q].conv /\ p < q => p <= refresh[q].prior
        /\ Over(refresh[q].prior) => Earliest(q)
    BY <2>1 DEF ChainInv
  <2>3. \A p \in RefreshIds :
          Live(p)' /\ refresh'[p].conv = refresh'[q].conv /\ p < q => p <= refresh'[q].prior
    BY <1>2, <2>1, <2>2
  <2>4. ASSUME Over(refresh[q].prior)'
        PROVE  Earliest(q)'
    <3>1. CASE Over(refresh[q].prior)
      BY <1>6, <2>1, <2>2, <3>1
    <3>2. CASE ~Over(refresh[q].prior)
      <4>1. refresh[q].prior = r
        BY <1>1, <1>3, <2>1, <2>4, <3>2 DEF Over
      <4>2. ASSUME NEW p \in RefreshIds, Live(p)', refresh'[p].conv = refresh'[q].conv
            PROVE  q <= p
        <5>1. Live(p) /\ p # r /\ refresh[p].conv = refresh[q].conv /\ p \in Nat /\ q \in Nat
          BY <1>2, <1>3, <2>1, <4>2
        <5>2. p < q => p < r
          BY <1>3, <2>2, <4>1, <5>1
        <5>3. p < q => ~Earliest(r) \/ refresh[p].conv # refresh[r].conv
          BY <1>3, <5>1, <5>2 DEF Earliest
        <5>4. refresh[r].conv = refresh[q].conv
          BY <2>2, <4>1, CallTypes
        <5>5. QED
          BY <5>1, <5>3, <5>4
      <4>3. QED
        BY <4>2 DEF Earliest
    <3>3. QED
      BY <3>1, <3>2
  <2>5. refresh'[q].prior # 0 /\ Live(refresh[q].prior)' =>
          refresh'[refresh'[q].prior].conv = refresh'[q].conv
    BY <1>2, <1>3, <2>1, <2>2 DEF Live
  <2>6. QED
    BY <2>1, <2>2, <2>3, <2>4, <2>5
<1>8. \A q \in RefreshIds : refresh'[q].pc \in {"recalling", "rewriting"} => Earliest(q)'
  BY <1>1, <1>6 DEF ChainInv
<1>9. QED
  BY <1>1, <1>2, <1>4, <1>5, <1>7, <1>8 DEF ChainInv

(* A call that starts or reads the row it will rewrite.                     *)
LEMMA BeginChain ==
  ASSUME CallInv, ChainInv, NEW r \in RefreshIds, Live(r), Earliest(r),
         refresh'[r].pc \in {"recalling", "rewriting"}, refresh'[r].conv = refresh[r].conv,
         \A q \in RefreshIds : q # r => refresh'[q] = refresh[q],
         UNCHANGED <<issued, pending>>
  PROVE  ChainInv'
<1>1. \A q \in RefreshIds : (Live(q)' <=> Live(q)) /\ refresh'[q].conv = refresh[q].conv
  BY DEF Live
<1>2. \A q \in RefreshIds : Earliest(q) => Earliest(q)'
  BY <1>1 DEF Earliest
<1>3. \A q \in RefreshIds : (q = 0 \/ refresh'[q].pc = "settled") <=> (q = 0 \/ refresh[q].pc = "settled")
  BY DEF Live
<1>4. \A q \in RefreshIds \cup {0} : Over(q)' <=> Over(q)
  BY <1>3 DEF Over
<1>5. \A q \in RefreshIds : refresh[q].prior \in RefreshIds \cup {0}
  BY CallTypes
<1>6. ASSUME NEW q \in RefreshIds, refresh'[q].pc = "queued"
      PROVE  /\ refresh'[q].prior < q
             /\ refresh'[q].prior # 0 /\ Live(refresh[q].prior)' =>
                  refresh'[refresh'[q].prior].conv = refresh'[q].conv
             /\ \A p \in RefreshIds :
                  Live(p)' /\ refresh'[p].conv = refresh'[q].conv /\ p < q =>
                    p <= refresh'[q].prior
             /\ Over(refresh[q].prior)' => Earliest(q)'
  <2>1. q # r /\ refresh'[q] = refresh[q] /\ refresh[q].pc = "queued"
    BY <1>6
  <2>2. /\ refresh[q].prior < q
        /\ refresh[q].prior # 0 /\ Live(refresh[q].prior) =>
             refresh[refresh[q].prior].conv = refresh[q].conv
        /\ \A p \in RefreshIds :
             Live(p) /\ refresh[p].conv = refresh[q].conv /\ p < q => p <= refresh[q].prior
        /\ Over(refresh[q].prior) => Earliest(q)
    BY <2>1 DEF ChainInv
  <2>3. refresh'[q].prior # 0 /\ Live(refresh[q].prior)' =>
          refresh'[refresh'[q].prior].conv = refresh'[q].conv
    BY <1>1, <1>5, <2>1, <2>2 DEF Live
  <2>4. \A p \in RefreshIds :
          Live(p)' /\ refresh'[p].conv = refresh'[q].conv /\ p < q => p <= refresh'[q].prior
    BY <1>1, <2>1, <2>2
  <2>5. Over(refresh[q].prior)' => Earliest(q)'
    BY <1>2, <1>3, <1>5, <2>1, <2>2 DEF Over
  <2>6. QED
    BY <2>1, <2>2, <2>3, <2>4, <2>5
<1>7. \A q \in RefreshIds : refresh'[q].pc \in {"recalling", "rewriting"} => Earliest(q)'
  BY <1>2 DEF ChainInv
<1>8. \A q \in RefreshIds : Live(q)' => q <= issued' /\ q <= pending'[refresh'[q].conv]
  BY <1>1 DEF ChainInv
<1>9. \A c \in Convs : pending'[c] # 0 => Live(pending[c])' /\ refresh'[pending'[c]].conv = c
  <2>1. \A c \in Convs : pending[c] # 0 =>
          pending[c] \in RefreshIds /\ Live(pending[c]) /\ refresh[pending[c]].conv = c
    BY CallTypes DEF ChainInv
  <2>2. QED
    BY <1>1, <2>1 DEF Live
<1>10. QED
  BY <1>6, <1>7, <1>8, <1>9 DEF ChainInv

-----------------------------------------------------------------------------
(* Each step of the calls is a step of the queues.                          *)

QueueStep == [Queue!QueueNext]_(Queue!queueVars)
Waits == [c \in Convs |-> Unstarted(c)]
Runs == [c \in Convs |-> Started(c)]

LEMMA AskStep ==
  ASSUME CallInv, ChainInv, NEW c \in Convs, NEW trigger \in Triggers, NEW promoting \in BOOLEAN,
         Execute(c, trigger, promoting)
  PROVE  ChainInv' /\ QueueStep
<1>1. PICK n \in RefreshIds : n = issued + 1
  BY ExecuteIsOf
<1>2. /\ refresh'[n].pc = "queued" /\ refresh'[n].conv = c
      /\ \A r \in RefreshIds : r # n => refresh'[r] = refresh[r]
  BY <1>1, ExecuteIsOf
<1>3. issued \in Nat /\ \A r \in RefreshIds : Live(r) => r < n
  BY <1>1, CallTypes DEF ChainInv
<1>4. n \in Nat /\ ~Live(n)
  BY <1>1, <1>3
<1>5. Unstarted(c)' = Unstarted(c) \cup {n}
  BY <1>2 DEF Unstarted
<1>6. \A d \in Convs : d # c => Unstarted(d)' = Unstarted(d)
  BY <1>2, <1>4 DEF Unstarted, Live
<1>7. \A d \in Convs : Started(d)' = Started(d)
  BY <1>2, <1>4 DEF Started, Live
<1>8. \A d \in Convs : \A m \in Unstarted(d) \cup Started(d) : m < n
  BY <1>3 DEF Unstarted, Started, Live
<1>9. Queue!Ask(c, n)
  <2>1. Waits' = [Waits EXCEPT ![c] = Waits[c] \cup {n}] /\ Runs' = Runs
    BY <1>5, <1>6, <1>7 DEF Waits, Runs
  <2>2. QED
    BY <1>8, <2>1 DEF Queue!Ask, Waits, Runs
<1>10. QED
  BY <1>9, ExecuteChain DEF QueueStep, Queue!QueueNext

LEMMA StartStep ==
  ASSUME MemoryTypeInv, ChainInv, NEW r \in RefreshIds, StartRefresh(r)
  PROVE  ChainInv' /\ QueueStep
<1> USE DEF MemoryTypeInv
<1>1. refresh[r].pc = "queued" /\ Over(refresh[r].prior) /\ Live(r)
  BY DEF StartRefresh, Live
<1>2. Earliest(r)
  BY <1>1 DEF ChainInv
<1>3. PICK c \in Convs : c = refresh[r].conv
  BY <1>1, CallTypes
<1>4. r \in Unstarted(c) /\ (\A m \in Unstarted(c) : r <= m)
  BY <1>1, <1>2, <1>3 DEF Unstarted, Earliest, Live
<1>5. Started(c) = {}
  <2> SUFFICES ASSUME NEW q \in Started(c) PROVE FALSE
    OBVIOUS
  <2>1. q \in RefreshIds /\ Live(q) /\ refresh[q].conv = c /\ Earliest(q) /\ q # r
    BY <1>1 DEF Started, Live, ChainInv
  <2>2. r <= q /\ q <= r
    BY <1>1, <1>2, <1>3, <2>1 DEF Earliest
  <2>3. QED
    BY <2>1, <2>2, CallTypes
<1>6. CASE Settle(r)
  <2>1. refresh'[r].pc = "settled" /\ \A q \in RefreshIds : q # r => refresh'[q] = refresh[q]
    BY <1>6, SettleIsOf
  <2>2. Unstarted(c)' = Unstarted(c) \ {r} /\ Started(c)' = Started(c)
    BY <1>1, <2>1 DEF Unstarted, Started
  <2>3. \A d \in Convs : d # c => Unstarted(d)' = Unstarted(d) /\ Started(d)' = Started(d)
    BY <1>1, <1>3, <2>1 DEF Unstarted, Started
  <2>4. Waits' = [Waits EXCEPT ![c] = Waits[c] \ {r}] /\ Runs' = Runs
    BY <2>2, <2>3 DEF Waits, Runs
  <2>5. Queue!Skip(c, r)
    BY <1>4, <1>5, <2>4 DEF Queue!Skip, Waits, Runs
  <2>6. QED
    BY <1>1, <1>2, <1>4, <1>6, <2>5, SettleChain DEF QueueStep, Queue!QueueNext
<1>7. CASE ~Settle(r)
  <2>1. /\ refresh' = [refresh EXCEPT ![r] = [@ EXCEPT !.pc = "recalling", !.prior = 0,
                                                       !.window = RefreshSees(refresh[r].conv)]]
        /\ UNCHANGED <<issued, pending>>
    BY <1>7 DEF StartRefresh
  <2>2. /\ refresh'[r].pc = "recalling" /\ refresh'[r].conv = c
        /\ \A q \in RefreshIds : q # r => refresh'[q] = refresh[q]
    BY <1>3, <2>1 DEF CallInv, Refresh
  <2>3. Unstarted(c)' = Unstarted(c) \ {r} /\ Started(c)' = Started(c) \cup {r}
    BY <1>3, <2>2 DEF Unstarted, Started
  <2>4. \A d \in Convs : d # c => Unstarted(d)' = Unstarted(d) /\ Started(d)' = Started(d)
    BY <1>3, <2>2 DEF Unstarted, Started
  <2>5. Waits' = [Waits EXCEPT ![c] = Waits[c] \ {r}] /\ Runs' = [Runs EXCEPT ![c] = {r}]
    BY <1>5, <2>3, <2>4 DEF Waits, Runs
  <2>6. Queue!Start(c, r)
    BY <1>4, <1>5, <2>5 DEF Queue!Start, Waits, Runs
  <2>7. ChainInv'
    BY <1>1, <1>2, <1>3, <2>1, <2>2, BeginChain
  <2>8. QED
    BY <1>4, <2>6, <2>7 DEF QueueStep, Queue!QueueNext
<1>8. QED
  BY <1>6, <1>7

LEMMA EndStep ==
  ASSUME MemoryTypeInv, ChainInv, NEW r \in RefreshIds,
         refresh[r].pc \in {"recalling", "rewriting"}, Settle(r)
  PROVE  ChainInv' /\ QueueStep
<1> USE DEF MemoryTypeInv
<1>1. Live(r) /\ Earliest(r)
  BY DEF Live, ChainInv
<1>2. PICK c \in Convs : c = refresh[r].conv
  BY <1>1, CallTypes
<1>3. Started(c) = {r}
  <2>1. r \in Started(c)
    BY <1>2 DEF Started
  <2>2. ASSUME NEW q \in Started(c)
        PROVE  q = r
    <3>1. q \in RefreshIds /\ Live(q) /\ refresh[q].conv = c /\ Earliest(q)
      BY DEF Started, Live, ChainInv
    <3>2. r <= q /\ q <= r
      BY <1>1, <1>2, <3>1 DEF Earliest
    <3>3. QED
      BY <3>1, <3>2, CallTypes
  <2>3. QED
    BY <2>1, <2>2
<1>4. refresh'[r].pc = "settled" /\ \A q \in RefreshIds : q # r => refresh'[q] = refresh[q]
  BY SettleIsOf
<1>5. Unstarted(c)' = Unstarted(c) /\ Started(c)' = {}
  BY <1>3, <1>4 DEF Unstarted, Started
<1>6. \A d \in Convs : d # c => Unstarted(d)' = Unstarted(d) /\ Started(d)' = Started(d)
  BY <1>2, <1>4 DEF Unstarted, Started
<1>7. Waits' = Waits /\ Runs' = [Runs EXCEPT ![c] = {}]
  BY <1>5, <1>6 DEF Waits, Runs
<1>8. Queue!End(c, r)
  BY <1>7 DEF Queue!End, Waits, Runs
<1>9. QED
  BY <1>1, <1>3, <1>8, SettleChain DEF QueueStep, Queue!QueueNext

LEMMA QueueKept ==
  ASSUME ChainInv, UNCHANGED <<refresh, pending, issued>>
  PROVE  ChainInv' /\ QueueStep
<1>1. ChainInv'
  BY DEF ChainInv, Live, Earliest, Over
<1>2. \A c \in Convs : Unstarted(c)' = Unstarted(c) /\ Started(c)' = Started(c)
  BY DEF Unstarted, Started
<1>3. Waits' = Waits /\ Runs' = Runs
  BY <1>2 DEF Waits, Runs
<1>4. QED
  BY <1>1, <1>3 DEF QueueStep, Queue!queueVars, Waits, Runs

LEMMA RefreshQueueStep ==
  ASSUME MemoryTypeInv, ChainInv, NEW r \in RefreshIds, RefreshStep(r)
  PROVE  ChainInv' /\ QueueStep
<1> USE DEF MemoryTypeInv
<1>1. CASE ReadPriorMemory(r)
  <2>1. refresh[r].pc = "recalling" /\ UNCHANGED <<issued, pending>>
    BY <1>1 DEF ReadPriorMemory
  <2>2. /\ refresh'[r].pc = "rewriting" /\ refresh'[r].conv = refresh[r].conv
        /\ \A q \in RefreshIds : q # r => refresh'[q] = refresh[q]
    BY <1>1 DEF ReadPriorMemory, CallInv, Refresh
  <2>3. ChainInv'
    BY <2>1, <2>2, BeginChain DEF ChainInv, Live
  <2>4. \A c \in Convs : Unstarted(c)' = Unstarted(c) /\ Started(c)' = Started(c)
    BY <2>1, <2>2 DEF Unstarted, Started
  <2>5. Waits' = Waits /\ Runs' = Runs
    BY <2>4 DEF Waits, Runs
  <2>6. QED
    BY <2>3, <2>5 DEF QueueStep, Queue!queueVars, Waits, Runs
<1>2. CASE RewriteMemory(r) \/ RefreshFails(r)
  BY <1>2, EndStep DEF RewriteMemory, RefreshFails
<1>3. QED
  BY <1>1, <1>2, StartStep DEF RefreshStep

LEMMA RestartStep ==
  ASSUME MemoryTypeInv, NEW o \in Ops, Restart(o)
  PROVE  ChainInv' /\ QueueStep
<1>1. \A r \in RefreshIds : refresh'[r].pc \in {"none", "settled"}
  BY EmptyTypes DEF Restart
<1>2. \A c \in Convs : pending'[c] = 0
  BY DEF Restart
<1>3. ChainInv'
  BY <1>1, <1>2 DEF ChainInv, Live
<1>4. \A c \in Convs : Unstarted(c)' = {} /\ Started(c)' = {}
  BY <1>1 DEF Unstarted, Started
<1>5. Queue!Lose
  BY <1>4 DEF Queue!Lose, Queue!QueueInit
<1>6. QED
  BY <1>3, <1>5 DEF QueueStep, Queue!QueueNext

LEMMA CallsAreQueued ==
  ASSUME MemoryTypeInv, ChainInv, [MemoryNext]_memoryVars
  PROVE  ChainInv' /\ QueueStep
<1> USE DEF MemoryTypeInv
<1>1. ASSUME NEW t \in Turns, TurnStep(t)
      PROVE  ChainInv' /\ QueueStep
  <2>1. CASE FinishTurn(t)
    BY <2>1, AskStep DEF FinishTurn, Exists, Triggers
  <2>2. CASE ~FinishTurn(t)
    BY <1>1, <2>2, QueueKept DEF TurnStep, BeginTurn, PrepareTurn, StoreReply, TurnFails, serviceVars
  <2>3. QED
    BY <2>1, <2>2
<1>2. ASSUME NEW o \in Ops, OpStep(o)
      PROVE  ChainInv' /\ QueueStep
  <2>1. CASE AdminRefresh(o)
    <3>1. LatestConvs \subseteq Convs
      BY DEF LatestConvs, Newest, ActiveConvs
    <3>2. QED
      BY <2>1, <3>1, AskStep DEF AdminRefresh, Triggers
  <2>2. CASE ClosePrevious(o)
    BY <2>2, AskStep
       DEF ClosePrevious, RunBackgroundClosePipeline, Close, Exists, Triggers
  <2>3. CASE PromoteEnded(o)
    BY <2>3, AskStep DEF PromoteEnded, RunBackgroundClosePipeline, OpInv, Triggers
  <2>4. CASE AdminClear(o)
    BY <2>4, QueueKept DEF AdminClear, serviceVars
  <2>5. CASE ~ClosePrevious(o) /\ ~PromoteEnded(o) /\ LifecycleStep(o)
    BY <2>5, QueueKept DEF LifecycleStep, FindActive, CreateConversation, ReadEpisodes, Hydrate,
       LoadConversation, EndConversation, TouchSessionFails, DeleteMessages, DeleteConversations,
       DeleteEpisodes, DeleteWorking, OpFails, serviceVars
  <2>6. QED
    BY <1>2, <2>1, <2>2, <2>3, <2>4, <2>5 DEF OpStep
<1>3. ASSUME NEW r \in RefreshIds, PromotionStep(r)
      PROVE  ChainInv' /\ QueueStep
  BY <1>3, QueueKept
     DEF PromotionStep, CheckEpisode, DraftEpisode, CreateEpisode, EpisodeFails, GotoPromotion
<1>4. CASE UNCHANGED memoryVars
  BY <1>4, QueueKept DEF memoryVars, serviceVars
<1>5. QED
  BY <1>1, <1>2, <1>3, <1>4, RefreshQueueStep, RestartStep DEF MemoryNext

LEMMA ChainInvHolds == MemorySpec => []ChainInv
<1>1. MemoryInit => ChainInv
  BY EmptyTypes DEF MemoryInit, ChainInv, Live
<1>2. MemoryTypeInv /\ ChainInv /\ [MemoryNext]_memoryVars => ChainInv'
  BY CallsAreQueued
<1>3. QED
  BY <1>1, <1>2, MemoryTypeInvHolds, PTL DEF MemorySpec

(* The map and the chains of promises serve each conversation's refreshes   *)
(* one at a time in the order of the requests, for any number of both.      *)
THEOREM RefreshesAreQueued == MemorySpec => RefreshesAreSerial
<1>1. MemoryInit => Queue!QueueInit
  BY EmptyTypes DEF MemoryInit, Queue!QueueInit, Unstarted, Started
<1>2. MemoryTypeInv /\ ChainInv /\ [MemoryNext]_memoryVars => [Queue!QueueNext]_(Queue!queueVars)
  BY CallsAreQueued DEF QueueStep
<1>3. QED
  BY <1>1, <1>2, MemoryTypeInvHolds, ChainInvHolds, PTL
     DEF MemorySpec, RefreshesAreSerial, Queue!QueueSpec

-----------------------------------------------------------------------------
LEMMA EpisodeStep ==
  ASSUME MemoryTypeInv, [MemoryNext]_memoryVars, NEW c \in Convs,
         episode[c].present, episode'[c].present
  PROVE  episode'[c] = episode[c]
<1>1. CASE UNCHANGED episode
  BY <1>1
<1>2. ASSUME NEW r \in RefreshIds, CreateEpisode(r)
      PROVE  episode'[c] = episode[c]
  BY <1>2 DEF CreateEpisode, InsertEpisode, MemoryTypeInv, RowInv
<1>3. ASSUME NEW o \in Ops, DeleteConversations(o) \/ DeleteEpisodes(o)
      PROVE  episode'[c] = episode[c]
  BY <1>3 DEF DeleteConversations, DeleteEpisodes, NoMemory
<1>4. ASSUME NEW o \in Ops, LifecycleStep(o)
      PROVE  episode'[c] = episode[c]
  BY <1>1, <1>3, <1>4 DEF LifecycleStep, FindActive, ClosePrevious, CreateConversation, ReadEpisodes,
     Hydrate, LoadConversation, EndConversation, PromoteEnded, TouchSessionFails, DeleteMessages,
     DeleteWorking, OpFails, rowVars
<1>5. QED
  BY <1>1, <1>2, <1>4 DEF MemoryNext, TurnStep, BeginTurn, PrepareTurn, StoreReply, FinishTurn,
     TurnFails, OpStep, AdminRefresh, AdminClear, Restart, RefreshStep, StartRefresh,
     ReadPriorMemory, RewriteMemory, RefreshFails, PromotionStep, CheckEpisode, DraftEpisode,
     EpisodeFails, memoryVars, rowVars

(* An episode stays as it was made until a reset deletes it, for any number *)
(* of close pipelines of its conversation.                                  *)
THEOREM EpisodesAreKept == MemorySpec => EpisodeIsKept
<1>1. MemoryTypeInv /\ [MemoryNext]_memoryVars =>
        [\A c \in Convs :
           episode[c].present /\ episode'[c].present => episode'[c] = episode[c]]_memoryVars
  BY EpisodeStep
<1>2. QED
  BY <1>1, MemoryTypeInvHolds, PTL DEF MemorySpec, EpisodeIsKept

-----------------------------------------------------------------------------
(* What a reset leaves.  Whatever is under way for a conversation that      *)
(* exists refers to conversations that do, and to one that was created.     *)

Existing == {c \in Convs : status[c] \in {"active", "closed"}}
Created == {c \in Convs : status[c] # "absent"}
AllExist(P) == \A p \in P : p[1] \in Existing

RowsForget == \A c \in Convs : AllExist(working[c].seen) /\ AllExist(episode[c].seen)

CallsForget ==
  \A r \in RefreshIds : refresh[r].pc \in {"queued", "recalling", "rewriting"} =>
    /\ refresh[r].conv \in Created
    /\ refresh[r].conv \in Existing => AllExist(refresh[r].window) /\ AllExist(refresh[r].seen)

PipelinesForget ==
  \A r \in RefreshIds : promotion[r].pc # "none" =>
    /\ promotion[r].conv \in Created
    /\ promotion[r].conv \in Existing => AllExist(promotion[r].seen)

OpeningsForget ==
  \A o \in Ops :
    /\ op[o].pc \in {"recall", "hydrate"} =>
         /\ op[o].conv \in Created
         /\ op[o].conv \in Existing => AllExist(op[o].seen)
    /\ op[o].pc = "touch" => op[o].previous \in Created

ForgetInv == RowsForget /\ CallsForget /\ PipelinesForget /\ OpeningsForget

LEMMA ExistsIsExisting == \A c : Exists(c) <=> c \in Existing
BY DEF Exists, Existing

LEMMA OwnPoints ==
  ASSUME NEW c \in Existing
  PROVE  /\ \A S : AllExist(PointsOf(c, S))
         /\ AllExist(Fallback(c))
<1>1. \A S : AllExist(PointsOf(c, S))
  BY DEF AllExist, PointsOf
<1>2. QED
  BY <1>1 DEF Fallback

LEMMA ExecuteForgets ==
  ASSUME CallInv, PromotionInv, ForgetInv, NEW c \in Created, NEW trigger \in Triggers,
         NEW promoting \in BOOLEAN, Execute(c, trigger, promoting),
         Existing' = Existing, Created' = Created
  PROVE  CallsForget' /\ PipelinesForget'
<1>1. c \in Convs /\ c \in Created
  BY DEF Created
<1>2. PICK n \in RefreshIds : n = issued + 1
  BY <1>1, ExecuteIsOf
<1>3. /\ refresh'[n].conv = c /\ refresh'[n].window = {} /\ refresh'[n].seen = {}
      /\ \A r \in RefreshIds : r # n => refresh'[r] = refresh[r]
  BY <1>2 DEF Execute, CallInv, NoRefresh
<1>4. CallsForget'
  BY <1>1, <1>3 DEF ForgetInv, CallsForget, AllExist
<1>5. /\ \A r \in RefreshIds : r # n => promotion'[r] = promotion[r]
      /\ promotion'[n] = promotion[n] \/ (promotion'[n].conv = c /\ promotion'[n].seen = {})
  BY <1>2 DEF Execute, PromotionInv, NoPromotion
<1>6. PipelinesForget'
  BY <1>1, <1>5 DEF ForgetInv, PipelinesForget, AllExist
<1>7. QED
  BY <1>4, <1>6

LEMMA SettleForgets ==
  ASSUME CallInv, PromotionInv, ForgetInv, NEW r \in RefreshIds, Settle(r),
         Existing' = Existing, Created' = Created
  PROVE  CallsForget' /\ PipelinesForget'
<1>1. CallsForget'
  BY SettleIsOf DEF ForgetInv, CallsForget, AllExist
<1>2. /\ \A q \in RefreshIds : q # r => promotion'[q] = promotion[q]
      /\ promotion'[r].pc # "none" <=> promotion[r].pc # "none"
      /\ promotion'[r].conv = promotion[r].conv /\ promotion'[r].seen = promotion[r].seen
  BY DEF Settle, PromotionInv, Promotion
<1>3. PipelinesForget'
  BY <1>2 DEF ForgetInv, PipelinesForget, AllExist
<1>4. QED
  BY <1>1, <1>3

LEMMA UpsertForgets ==
  ASSUME RowInv, RowsForget, NEW c, NEW seen, Upsert(c, seen), AllExist(seen), UNCHANGED episode,
         Existing' = Existing
  PROVE  RowsForget'
<1>1. c \in Convs /\ \A d \in Convs : working'[d].seen = IF d = c THEN seen ELSE working[d].seen
  BY DEF Upsert, Exists, RowInv
<1>2. QED
  BY <1>1 DEF RowsForget, AllExist

LEMMA RefreshForgets ==
  ASSUME MemoryTypeInv, ForgetInv, NEW r \in RefreshIds, RefreshStep(r)
  PROVE  ForgetInv'
<1> USE DEF MemoryTypeInv, ForgetInv
<1>1. Existing' = Existing /\ Created' = Created /\ UNCHANGED <<op, episode>>
  BY DEF RefreshStep, StartRefresh, ReadPriorMemory, RewriteMemory, RefreshFails, rowVars, Existing,
     Created
<1>2. OpeningsForget'
  BY <1>1 DEF OpeningsForget, AllExist
<1>3. UNCHANGED working => RowsForget'
  BY <1>1 DEF RowsForget, AllExist
<1>4. refresh[r].conv \in Existing => refresh[r].conv \in Convs
  BY DEF Existing
<1>5. CASE StartRefresh(r)
  <2>1. UNCHANGED working
    BY <1>5 DEF StartRefresh, rowVars
  <2>2. CASE Settle(r)
    BY <1>1, <1>2, <1>3, <2>1, <2>2, SettleForgets
  <2>3. CASE ~Settle(r)
    <3>1. /\ refresh' = [refresh EXCEPT ![r] = [@ EXCEPT !.pc = "recalling", !.prior = 0,
                                                         !.window = RefreshSees(refresh[r].conv)]]
          /\ UNCHANGED promotion /\ refresh[r].pc = "queued"
      BY <1>5, <2>3 DEF StartRefresh
    <3>2. /\ refresh'[r].conv = refresh[r].conv /\ refresh'[r].seen = refresh[r].seen
          /\ refresh'[r].window = RefreshSees(refresh[r].conv)
          /\ \A q \in RefreshIds : q # r => refresh'[q] = refresh[q]
      BY <3>1 DEF CallInv, Refresh
    <3>3. refresh[r].conv \in Existing => AllExist(RefreshSees(refresh[r].conv))
      BY OwnPoints DEF RefreshSees
    <3>4. CallsForget'
      BY <1>1, <3>1, <3>2, <3>3 DEF CallsForget, AllExist
    <3>5. PipelinesForget'
      BY <1>1, <3>1 DEF PipelinesForget, AllExist
    <3>6. QED
      BY <1>2, <1>3, <2>1, <3>4, <3>5
  <2>4. QED
    BY <2>2, <2>3
<1>6. CASE ReadPriorMemory(r)
  <2>1. UNCHANGED <<working, promotion>> /\ refresh[r].pc = "recalling"
    BY <1>6 DEF ReadPriorMemory, rowVars
  <2>2. /\ refresh'[r].conv = refresh[r].conv /\ refresh'[r].window = refresh[r].window
        /\ refresh'[r].seen = working[refresh[r].conv].seen
        /\ \A q \in RefreshIds : q # r => refresh'[q] = refresh[q]
    BY <1>6 DEF ReadPriorMemory, CallInv, Refresh
  <2>3. refresh[r].conv \in Existing => AllExist(working[refresh[r].conv].seen)
    BY <1>4 DEF RowsForget
  <2>4. CallsForget'
    BY <1>1, <2>1, <2>2, <2>3 DEF CallsForget, AllExist
  <2>5. PipelinesForget'
    BY <1>1, <2>1 DEF PipelinesForget, AllExist
  <2>6. QED
    BY <1>2, <1>3, <2>1, <2>4, <2>5
<1>7. CASE RewriteMemory(r)
  <2>1. AllExist(refresh[r].seen \cup refresh[r].window)
    BY <1>7, ExistsIsExisting DEF RewriteMemory, Upsert, CallsForget, AllExist
  <2>2. RowsForget'
    BY <1>1, <1>7, <2>1, UpsertForgets DEF RewriteMemory
  <2>3. QED
    BY <1>1, <1>2, <1>7, <2>2, SettleForgets DEF RewriteMemory
<1>8. CASE RefreshFails(r)
  BY <1>1, <1>2, <1>3, <1>8, SettleForgets DEF RefreshFails, rowVars
<1>9. QED
  BY <1>5, <1>6, <1>7, <1>8 DEF RefreshStep

LEMMA PromotionForgets ==
  ASSUME MemoryTypeInv, ForgetInv, NEW r \in RefreshIds, PromotionStep(r)
  PROVE  ForgetInv'
<1> USE DEF MemoryTypeInv, ForgetInv
<1>1. Existing' = Existing /\ Created' = Created /\ UNCHANGED <<op, working, refresh>>
  BY DEF PromotionStep, CheckEpisode, DraftEpisode, CreateEpisode, EpisodeFails, GotoPromotion,
     rowVars, Existing, Created
<1>2. OpeningsForget' /\ CallsForget'
  BY <1>1 DEF OpeningsForget, CallsForget, AllExist
<1>3. UNCHANGED episode => RowsForget'
  BY <1>1 DEF RowsForget, AllExist
<1>4. ASSUME NEW new, GotoPromotion(r, new),
             new.pc # "none" => /\ promotion[r].pc # "none"
                                /\ new.conv = promotion[r].conv
                                /\ \/ new.seen = promotion[r].seen
                                   \/ new.conv \in Existing => AllExist(new.seen)
      PROVE  PipelinesForget'
  <2>1. promotion'[r] = new /\ \A q \in RefreshIds : q # r => promotion'[q] = promotion[q]
    BY <1>4 DEF GotoPromotion, PromotionInv
  <2>2. QED
    BY <1>1, <1>4, <2>1 DEF PipelinesForget, AllExist
<1>5. promotion[r] \in Promotion
  BY DEF PromotionInv
<1>6. CASE CheckEpisode(r)
  <2> DEFINE new == IF episode[promotion[r].conv].present THEN NoPromotion
                    ELSE [promotion[r] EXCEPT !.pc = "draft"]
  <2>1. GotoPromotion(r, new) /\ promotion[r].pc # "none" /\ UNCHANGED episode
    BY <1>6 DEF CheckEpisode, rowVars
  <2>2. new.pc # "none" => new.conv = promotion[r].conv /\ new.seen = promotion[r].seen
    BY <1>5 DEF NoPromotion, Promotion
  <2> HIDE DEF new
  <2>3. QED
    BY <1>2, <1>3, <1>4, <2>1, <2>2
<1>7. CASE DraftEpisode(r)
  <2> DEFINE c == promotion[r].conv
             seen == IF working[c].present THEN working[c].seen ELSE Fallback(c)
             new == [promotion[r] EXCEPT !.pc = "create", !.seen = seen]
  <2>1. GotoPromotion(r, new) /\ promotion[r].pc # "none" /\ UNCHANGED episode
    BY <1>7 DEF DraftEpisode, rowVars
  <2>2. c \in Existing => AllExist(seen)
    BY OwnPoints DEF RowsForget, Existing
  <2> HIDE DEF seen
  <2>3. new.conv = c /\ new.seen = seen
    BY <1>5 DEF Promotion
  <2> HIDE DEF new
  <2>4. QED
    BY <1>2, <1>3, <1>4, <2>1, <2>2, <2>3
<1>8. CASE CreateEpisode(r)
  <2>1. PipelinesForget'
    BY <1>4, <1>8, EmptyTypes DEF CreateEpisode
  <2>2. RowsForget'
    <3>1. AllExist(promotion[r].seen)
      BY <1>8, ExistsIsExisting DEF CreateEpisode, PipelinesForget
    <3>2. \A c \in Convs : episode'[c].seen \in {episode[c].seen, promotion[r].seen}
      BY <1>8 DEF CreateEpisode, InsertEpisode, RowInv
    <3>3. QED
      BY <1>1, <3>1, <3>2 DEF RowsForget, AllExist
  <2>3. QED
    BY <1>2, <2>1, <2>2
<1>9. CASE EpisodeFails(r)
  <2> DEFINE new == [NoPromotion EXCEPT !.pc = "failed", !.conv = promotion[r].conv]
  <2>1. GotoPromotion(r, new) /\ promotion[r].pc # "none" /\ UNCHANGED episode
    BY <1>9 DEF EpisodeFails, rowVars
  <2>2. new.conv = promotion[r].conv /\ AllExist(new.seen)
    BY DEF NoPromotion, AllExist
  <2> HIDE DEF new
  <2>3. QED
    BY <1>2, <1>3, <1>4, <2>1, <2>2
<1>10. QED
  BY <1>6, <1>7, <1>8, <1>9 DEF PromotionStep

(* No conversation comes back: one that exists after a step did before it,  *)
(* and with it all the others, or was created by it.                        *)
NoneRevived ==
  /\ Created \subseteq Created'
  /\ \A c \in Created : c \in Existing' => c \in Existing /\ Existing \subseteq Existing'

LEMMA InFlightKept ==
  ASSUME ForgetInv, NoneRevived, UNCHANGED <<refresh, promotion>>
  PROVE  CallsForget' /\ PipelinesForget'
<1>1. CallsForget'
  BY DEF ForgetInv, CallsForget, NoneRevived, AllExist
<1>2. PipelinesForget'
  BY DEF ForgetInv, PipelinesForget, NoneRevived, AllExist
<1>3. QED
  BY <1>1, <1>2

LEMMA OpeningKept ==
  ASSUME OpInv, ForgetInv, NoneRevived, NEW o \in Ops, NEW new, SetOp(o, new),
         new.pc \in {"recall", "hydrate"} =>
           /\ new.conv \in Created'
           /\ new.conv \in Existing' => \A p \in new.seen : p[1] \in Existing',
         new.pc = "touch" => new.previous \in Created'
  PROVE  OpeningsForget'
<1>1. op'[o] = new /\ \A q \in Ops : q # o => op'[q] = op[q]
  BY DEF SetOp, OpInv
<1>2. QED
  BY <1>1 DEF ForgetInv, OpeningsForget, NoneRevived, AllExist

LEMMA StatusKept ==
  ASSUME UNCHANGED status
  PROVE  Existing' = Existing /\ Created' = Created /\ NoneRevived
BY DEF Existing, Created, NoneRevived

LEMMA TurnForgets ==
  ASSUME MemoryTypeInv, ForgetInv, NEW t \in Turns, TurnStep(t)
  PROVE  ForgetInv'
<1> USE DEF MemoryTypeInv
<1>1. UNCHANGED <<status, working, episode, op>>
  BY DEF TurnStep, BeginTurn, PrepareTurn, StoreReply, FinishTurn, TurnFails, rowVars
<1>2. RowsForget' /\ OpeningsForget'
  BY <1>1, StatusKept DEF ForgetInv, RowsForget, OpeningsForget, AllExist
<1>3. CASE FinishTurn(t)
  BY <1>1, <1>2, <1>3, StatusKept, ExecuteForgets
     DEF FinishTurn, Exists, Created, Triggers, ForgetInv
<1>4. CASE ~FinishTurn(t)
  <2>1. UNCHANGED <<refresh, promotion>>
    BY <1>4 DEF TurnStep, BeginTurn, PrepareTurn, StoreReply, TurnFails, serviceVars
  <2>2. QED
    BY <1>1, <1>2, <2>1, StatusKept, InFlightKept DEF ForgetInv
<1>5. QED
  BY <1>3, <1>4

LEMMA CloseForgets ==
  ASSUME MemoryTypeInv, ForgetInv, NEW c, Close(c), UNCHANGED <<working, episode>>,
         \/ UNCHANGED <<refresh, promotion>>
         \/ \E trigger \in Triggers : Execute(c, trigger, TRUE),
         NEW o \in Ops, NEW new, SetOp(o, new), new.pc \notin {"recall", "hydrate"},
         new.pc = "touch" => new.previous = c
  PROVE  ForgetInv'
<1> USE DEF MemoryTypeInv
<1>1. Existing' = Existing /\ Created' = Created /\ c \in Created
  BY DEF Close, Exists, Existing, Created, RowInv
<1>2. CallsForget' /\ PipelinesForget'
  BY <1>1, ExecuteForgets, InFlightKept DEF NoneRevived
<1>3. OpeningsForget'
  BY <1>1, OpeningKept DEF NoneRevived
<1>4. RowsForget'
  BY <1>1 DEF ForgetInv, RowsForget, AllExist
<1>5. QED
  BY <1>2, <1>3, <1>4 DEF ForgetInv

LEMMA CreateForgets ==
  ASSUME MemoryTypeInv, ForgetInv, NEW o \in Ops, NEW c \in Convs, CreateConversation(o, c)
  PROVE  ForgetInv'
<1> USE DEF MemoryTypeInv
<1>1. UNCHANGED <<working, episode, refresh, promotion>>
  BY DEF CreateConversation, serviceVars
<1>2. /\ status[c] = "absent" /\ status' = [status EXCEPT ![c] = "active"]
      /\ \A d \in Convs : status'[d] = IF d = c THEN "active" ELSE status[d]
  BY DEF CreateConversation, RowInv
<1>3. Existing' = Existing \cup {c} /\ Created' = Created \cup {c} /\ c \notin Created
  BY <1>2 DEF Existing, Created
<1>4. NoneRevived
  BY <1>3 DEF NoneRevived
<1> DEFINE new == [IdleOp EXCEPT !.pc = "recall", !.conv = c]
<1>5. SetOp(o, new)
  BY DEF CreateConversation
<1>6. new.pc = "recall" /\ new.conv = c /\ new.seen = {}
  BY DEF IdleOp
<1> HIDE DEF new
<1>7. OpeningsForget'
  BY <1>3, <1>4, <1>5, <1>6, OpeningKept DEF ForgetInv
<1>8. RowsForget'
  BY <1>1, <1>3 DEF ForgetInv, RowsForget, AllExist
<1>9. QED
  BY <1>1, <1>4, <1>7, <1>8, InFlightKept DEF ForgetInv

LEMMA OpeningForgets ==
  ASSUME MemoryTypeInv, ForgetInv, NEW o \in Ops,
         \/ \E k \in AllKinds : FindActive(o, k)
         \/ ClosePrevious(o)
         \/ \E c \in Convs : CreateConversation(o, c)
         \/ ReadEpisodes(o)
         \/ Hydrate(o)
  PROVE  ForgetInv'
<1> USE DEF MemoryTypeInv
<1>1. op[o] \in Op
  BY DEF OpInv
<1>2. ASSUME UNCHANGED <<status, working, episode, refresh, promotion>>, OpeningsForget'
      PROVE  ForgetInv'
  <2>1. RowsForget'
    BY <1>2, StatusKept DEF ForgetInv, RowsForget, AllExist
  <2>2. QED
    BY <1>2, <2>1, StatusKept, InFlightKept DEF ForgetInv
<1>3. ASSUME NEW k \in AllKinds, FindActive(o, k)
      PROVE  ForgetInv'
  <2>1. PICK new : SetOp(o, new) /\ new.pc \in {"close", "create"}
    <3>1. /\ [IdleOp EXCEPT !.pc = "create", !.kind = k].pc = "create"
          /\ \A c : [IdleOp EXCEPT !.pc = "close", !.kind = k, !.previous = c].pc = "close"
      BY DEF IdleOp
    <3>2. QED
      BY <1>3, <3>1 DEF FindActive
  <2>2. UNCHANGED <<status, working, episode, refresh, promotion>>
    BY <1>3 DEF FindActive, rowVars, serviceVars
  <2>3. OpeningsForget'
    BY <2>1, <2>2, StatusKept, OpeningKept
  <2>4. QED
    BY <1>2, <2>2, <2>3
<1>4. CASE ClosePrevious(o)
  <2> DEFINE new == [op[o] EXCEPT !.pc = "create"]
  <2>1. new.pc = "create"
    BY <1>1 DEF Op
  <2>2. /\ SetOp(o, new) /\ Close(op[o].previous) /\ UNCHANGED <<working, episode>>
        /\ Execute(op[o].previous, "avatar_switch", TRUE)
    BY <1>4 DEF ClosePrevious, RunBackgroundClosePipeline
  <2> HIDE DEF new
  <2>3. QED
    BY <2>1, <2>2, CloseForgets DEF Triggers
<1>5. CASE ReadEpisodes(o)
  <2> DEFINE made == {c \in Convs : episode[c].present}
             recalled == UNION {episode[c].seen : c \in made}
             none == [IdleOp EXCEPT !.pc = "done"]
             some == [op[o] EXCEPT !.pc = "hydrate", !.seen = recalled]
  <2>1. \A p \in recalled : p[1] \in Existing
    BY DEF ForgetInv, RowsForget, AllExist
  <2>2. SetOp(o, none) \/ SetOp(o, some)
    BY <1>5 DEF ReadEpisodes
  <2>3. op[o].pc = "recall" /\ UNCHANGED <<status, working, episode, refresh, promotion>>
    BY <1>5 DEF ReadEpisodes, rowVars, serviceVars
  <2> HIDE DEF recalled
  <2>4. none.pc = "done" /\ some.pc = "hydrate" /\ some.conv = op[o].conv /\ some.seen = recalled
    BY <1>1 DEF Op, IdleOp
  <2> HIDE DEF none, some
  <2>5. op[o].conv \in Created
    BY <2>3 DEF ForgetInv, OpeningsForget
  <2>6. OpeningsForget'
    BY <2>1, <2>2, <2>3, <2>4, <2>5, StatusKept, OpeningKept
  <2>7. QED
    BY <1>2, <2>3, <2>6
<1>6. CASE Hydrate(o)
  <2>1. UNCHANGED <<status, episode, refresh, promotion>>
    BY <1>6 DEF Hydrate, serviceVars
  <2>2. AllExist(op[o].seen)
    BY <1>6, ExistsIsExisting DEF Hydrate, Upsert, ForgetInv, OpeningsForget
  <2>3. RowsForget'
    BY <1>6, <2>1, <2>2, StatusKept, UpsertForgets DEF Hydrate, ForgetInv
  <2>4. [IdleOp EXCEPT !.pc = "done"].pc = "done"
    BY DEF IdleOp
  <2>5. OpeningsForget'
    BY <1>6, <2>1, <2>4, StatusKept, OpeningKept DEF Hydrate
  <2>6. QED
    BY <2>1, <2>3, <2>5, StatusKept, InFlightKept DEF ForgetInv
<1>7. QED
  BY <1>3, <1>4, <1>5, <1>6, CreateForgets

LEMMA EndingForgets ==
  ASSUME MemoryTypeInv, ForgetInv, NEW o \in Ops,
         \/ \E c \in Convs : LoadConversation(o, c)
         \/ EndConversation(o) \/ PromoteEnded(o) \/ TouchSessionFails(o)
         \/ DeleteMessages(o) \/ DeleteConversations(o)
         \/ DeleteEpisodes(o) \/ DeleteWorking(o) \/ OpFails(o) \/ AdminClear(o)
  PROVE  ForgetInv'
<1> USE DEF MemoryTypeInv
<1>1. op[o] \in Op /\ NoMemory.seen = {}
  BY DEF OpInv, NoMemory
<1>2. CASE EndConversation(o)
  <2> DEFINE new == [op[o] EXCEPT !.pc = "touch"]
  <2>1. new.pc = "touch" /\ new.previous = op[o].previous
    BY <1>1 DEF Op
  <2>2. /\ SetOp(o, new) /\ Close(op[o].previous)
        /\ UNCHANGED <<working, episode, refresh, promotion>>
    BY <1>2 DEF EndConversation, serviceVars
  <2> HIDE DEF new
  <2>3. QED
    BY <2>1, <2>2, CloseForgets
<1>3. ASSUME ~EndConversation(o)
      PROVE  \E new : SetOp(o, new) /\ new.pc \notin {"recall", "hydrate", "touch"}
  <2>1. /\ \A c : [IdleOp EXCEPT !.pc = "close", !.kind = "end", !.previous = c].pc = "close"
        /\ [IdleOp EXCEPT !.pc = "done"].pc = "done"
        /\ [IdleOp EXCEPT !.pc = "conversations", !.kind = "reset"].pc = "conversations"
        /\ [op[o] EXCEPT !.pc = "episodes"].pc = "episodes"
        /\ [op[o] EXCEPT !.pc = "rows"].pc = "rows"
        /\ [op[o] EXCEPT !.pc = "failed"].pc = "failed"
    BY <1>1 DEF IdleOp, Op
  <2>2. QED
    BY <1>3, <2>1 DEF LoadConversation, PromoteEnded, TouchSessionFails, DeleteMessages,
       DeleteConversations, DeleteEpisodes, DeleteWorking, OpFails, AdminClear
<1>7. CASE PromoteEnded(o)
  <2>1. UNCHANGED <<status, working, episode>> /\ op[o].previous \in Created
    BY <1>7 DEF PromoteEnded, rowVars, ForgetInv, OpeningsForget
  <2>2. CallsForget' /\ PipelinesForget'
    BY <1>7, <2>1, StatusKept, ExecuteForgets
       DEF PromoteEnded, RunBackgroundClosePipeline, Triggers
  <2>3. [IdleOp EXCEPT !.pc = "done"].pc = "done"
    BY DEF IdleOp
  <2>4. OpeningsForget'
    BY <1>7, <2>1, <2>3, StatusKept, OpeningKept DEF PromoteEnded
  <2>5. RowsForget'
    BY <2>1, StatusKept DEF ForgetInv, RowsForget, AllExist
  <2>6. QED
    BY <2>2, <2>4, <2>5 DEF ForgetInv
<1>4. CASE DeleteConversations(o)
  <2>1. \A c \in Convs : status'[c] = IF status[c] = "absent" THEN "absent" ELSE "deleted"
    BY <1>4 DEF DeleteConversations
  <2>2. Existing' = {} /\ Created' = Created /\ NoneRevived
    BY <2>1 DEF Existing, Created, NoneRevived
  <2>3. OpeningsForget'
    <3>1. ~EndConversation(o)
      BY <1>4 DEF EndConversation, DeleteConversations
    <3>2. QED
      BY <1>3, <2>2, <3>1, OpeningKept
  <2>4. RowsForget'
    BY <1>1, <1>4 DEF DeleteConversations, RowsForget, AllExist
  <2>5. QED
    BY <1>4, <2>2, <2>3, <2>4, InFlightKept DEF DeleteConversations, serviceVars, ForgetInv
<1>5. CASE ~EndConversation(o) /\ ~PromoteEnded(o) /\ ~DeleteConversations(o)
  <2>1. UNCHANGED <<status, refresh, promotion>>
    BY <1>5 DEF LoadConversation, DeleteMessages, DeleteEpisodes, DeleteWorking, OpFails,
       TouchSessionFails, AdminClear, rowVars, serviceVars
  <2>2. \A c \in Convs : working'[c].seen \in {{}, working[c].seen}
    <3>1. CASE DeleteMessages(o)
      BY <3>1 DEF DeleteMessages, RowInv, Row
    <3>2. CASE ~DeleteMessages(o)
      BY <1>1, <1>5, <3>2 DEF LoadConversation, DeleteEpisodes, DeleteWorking, OpFails,
         TouchSessionFails, AdminClear, rowVars
    <3>3. QED
      BY <3>1, <3>2
  <2>3. \A c \in Convs : episode'[c].seen \in {{}, episode[c].seen}
    BY <1>1, <1>5 DEF LoadConversation, DeleteMessages, DeleteEpisodes, DeleteWorking, OpFails,
       TouchSessionFails, AdminClear, rowVars
  <2>4. RowsForget'
    BY <2>1, <2>2, <2>3, StatusKept DEF ForgetInv, RowsForget, AllExist
  <2>5. OpeningsForget'
    BY <1>3, <1>5, <2>1, StatusKept, OpeningKept
  <2>6. QED
    BY <2>1, <2>4, <2>5, StatusKept, InFlightKept DEF ForgetInv
<1>6. QED
  BY <1>2, <1>4, <1>5, <1>7

LEMMA RefreshRequestForgets ==
  ASSUME MemoryTypeInv, ForgetInv, NEW o \in Ops, AdminRefresh(o)
  PROVE  ForgetInv'
<1> USE DEF MemoryTypeInv
<1>1. UNCHANGED <<status, working, episode>>
  BY DEF AdminRefresh, rowVars
<1>2. LatestConvs \subseteq Existing
  BY DEF LatestConvs, Newest, ActiveConvs, Exists, Existing
<1>3. CallsForget' /\ PipelinesForget'
  BY <1>1, <1>2, StatusKept, ExecuteForgets DEF AdminRefresh, Triggers, Existing, Created
<1>4. [IdleOp EXCEPT !.pc = "done"].pc = "done"
  BY DEF IdleOp
<1>5. OpeningsForget'
  BY <1>1, <1>4, StatusKept, OpeningKept DEF AdminRefresh
<1>6. RowsForget'
  BY <1>1, StatusKept DEF ForgetInv, RowsForget, AllExist
<1>7. QED
  BY <1>3, <1>5, <1>6 DEF ForgetInv

LEMMA RestartForgets ==
  ASSUME MemoryTypeInv, ForgetInv, NEW o \in Ops, Restart(o)
  PROVE  ForgetInv'
<1>1. UNCHANGED <<status, working, episode>>
  BY DEF Restart, rowVars
<1>2. RowsForget'
  BY <1>1, StatusKept DEF ForgetInv, RowsForget, AllExist
<1>3. CallsForget' /\ PipelinesForget'
  BY EmptyTypes DEF Restart, CallsForget, PipelinesForget
<1>4. \A q \in Ops : op'[q].pc \in {"idle", "done"}
  BY DEF Restart, IdleOp
<1>5. QED
  BY <1>2, <1>3, <1>4 DEF ForgetInv, OpeningsForget

LEMMA ForgetInvHolds == MemorySpec => []ForgetInv
<1>1. MemoryInit => ForgetInv
  <2> SUFFICES ASSUME MemoryInit PROVE ForgetInv
    OBVIOUS
  <2>1. \A c \in Convs : working[c].seen = {} /\ episode[c].seen = {}
    BY DEF MemoryInit, NoMemory
  <2>2. /\ \A r \in RefreshIds : refresh[r].pc = "none" /\ promotion[r].pc = "none"
        /\ \A o \in Ops : op[o].pc = "idle"
    BY DEF MemoryInit, NoRefresh, NoPromotion, IdleOp
  <2>3. QED
    BY <2>1, <2>2 DEF ForgetInv, RowsForget, CallsForget, PipelinesForget, OpeningsForget, AllExist
<1>2. MemoryTypeInv /\ ForgetInv /\ [MemoryNext]_memoryVars => ForgetInv'
  <2> SUFFICES ASSUME MemoryTypeInv, ForgetInv, [MemoryNext]_memoryVars PROVE ForgetInv'
    OBVIOUS
  <2>1. CASE UNCHANGED memoryVars
    BY <2>1, StatusKept DEF memoryVars, rowVars, serviceVars, ForgetInv, RowsForget, CallsForget,
       PipelinesForget, OpeningsForget, AllExist
  <2>2. ASSUME NEW o \in Ops, OpStep(o)
        PROVE  ForgetInv'
    BY <2>2, OpeningForgets, EndingForgets, RefreshRequestForgets DEF OpStep, LifecycleStep
  <2>3. QED
    BY <2>1, <2>2, TurnForgets, RestartForgets, RefreshForgets, PromotionForgets DEF MemoryNext
<1>3. QED
  BY <1>1, <1>2, MemoryTypeInvHolds, PTL DEF MemorySpec

(* After a reset neither memory holds a point of a deleted conversation,    *)
(* for any number of refreshes, pipelines and hydrations in flight.         *)
THEOREM ResetsForget == MemorySpec => []ResetForgets
<1>1. ForgetInv => ResetForgets
  <2> SUFFICES ASSUME ForgetInv, NEW c \in Convs, NEW d \in Convs, NEW i \in 1..MaxMessages[d],
                      <<d, i>> \in working[c].seen \cup episode[c].seen
               PROVE  Exists(d)
    BY DEF ResetForgets
  <2>1. <<d, i>>[1] = d
    OBVIOUS
  <2>2. <<d, i>>[1] \in Existing
    BY DEF ForgetInv, RowsForget, AllExist
  <2>3. QED
    BY <2>1, <2>2, ExistsIsExisting
<1>2. QED
  BY <1>1, ForgetInvHolds, PTL

-----------------------------------------------------------------------------
(* What a turn waits for.  With one client, no turn asks for a refresh      *)
(* while another waits, so the newest one when it began, of the chain, is   *)
(* over only after every refresh that a turn asked for.                     *)

OneClient == \A t, u \in Turns : t = u

LiveOf(c) == {r \in RefreshIds : Live(r) /\ refresh[r].conv = c}

AwaitsInv ==
  /\ \A r \in RefreshIds : refresh[r].conv \in Convs => Live(r)
  /\ \A t \in Turns : turn[t].pc = "waiting" =>
       /\ turn[t].awaits <= issued
       /\ \A r \in LiveOf(turn[t].conv) : refresh[r].trigger = "post_turn" => r <= turn[t].awaits
       /\ \/ turn[t].awaits \in LiveOf(turn[t].conv)
          \/ \A r \in LiveOf(turn[t].conv) : turn[t].awaits < r

LEMMA AwaitTypes ==
  ASSUME MemoryTypeInv
  PROVE  /\ issued \in Nat /\ 0 \notin Convs
         /\ \A r \in RefreshIds : r \in Nat /\ r # 0 /\ refresh[r] \in Refresh
         /\ \A t \in Turns : turn[t].awaits \in Nat /\ turn[t].awaits \in RefreshIds \cup {0}
BY CallTypes, Bounds DEF MemoryTypeInv, CallInv, TurnInv, Turn

(* Another request of a refresh is behind what a turn waits for.            *)
LEMMA ExecuteAwaits ==
  ASSUME MemoryTypeInv, AwaitsInv, NEW c \in Convs, NEW trigger \in Triggers,
         NEW promoting \in BOOLEAN, Execute(c, trigger, promoting),
         \A t \in Turns : turn'[t].pc = "waiting" => trigger # "post_turn" /\ turn'[t] = turn[t]
  PROVE  AwaitsInv'
<1>0. PICK n \in RefreshIds : n = issued + 1
  BY ExecuteIsOf DEF MemoryTypeInv
<1>1. /\ issued' = n
      /\ refresh'[n].pc = "queued" /\ refresh'[n].conv = c
      /\ \A r \in RefreshIds : r # n => refresh'[r] = refresh[r]
  BY <1>0, ExecuteIsOf DEF MemoryTypeInv
<1>2. refresh'[n].trigger = trigger
  <2>1. refresh'[n] = [NoRefresh EXCEPT !.pc = "queued", !.conv = c, !.prior = pending[c],
                                        !.trigger = trigger]
    BY <1>0 DEF Execute, MemoryTypeInv, CallInv
  <2>2. QED
    BY <2>1 DEF NoRefresh
<1>3. \A d : LiveOf(d)' \subseteq LiveOf(d) \cup {n}
  BY <1>1 DEF LiveOf, Live
<1>4. \A d : \A r \in LiveOf(d) : r # n => r \in LiveOf(d)'
  BY <1>1 DEF LiveOf, Live
<1>5. \A r \in RefreshIds : refresh'[r].conv \in Convs => Live(r)'
  BY <1>1 DEF AwaitsInv, Live
<1>6. ASSUME NEW t \in Turns, turn'[t].pc = "waiting"
      PROVE  /\ turn'[t].awaits <= issued'
             /\ \A r \in LiveOf(turn[t].conv)' :
                  refresh'[r].trigger = "post_turn" => r <= turn'[t].awaits
             /\ \/ turn'[t].awaits \in LiveOf(turn[t].conv)'
                \/ \A r \in LiveOf(turn[t].conv)' : turn'[t].awaits < r
  <2>1. turn'[t] = turn[t] /\ trigger # "post_turn" /\ turn[t].awaits <= issued
        /\ issued \in Nat /\ turn[t].awaits \in Nat
    BY <1>6, AwaitTypes DEF AwaitsInv
  <2>2. turn[t].awaits < n
    BY <1>0, <2>1
  <2>3. \A r \in LiveOf(turn[t].conv)' :
          refresh'[r].trigger = "post_turn" => r <= turn'[t].awaits
    BY <1>1, <1>2, <1>3, <1>6, <2>1 DEF AwaitsInv, LiveOf, Live
  <2>4. turn[t].awaits \in LiveOf(turn[t].conv) => turn'[t].awaits \in LiveOf(turn[t].conv)'
    BY <1>1, <2>1, <2>2 DEF LiveOf, Live
  <2>5. (\A r \in LiveOf(turn[t].conv) : turn[t].awaits < r)
        => \A r \in LiveOf(turn[t].conv)' : turn'[t].awaits < r
    BY <1>1, <2>1, <2>2 DEF LiveOf, Live
  <2>6. QED
    BY <1>0, <1>1, <1>6, <2>1, <2>2, <2>3, <2>4, <2>5 DEF AwaitsInv
<1>7. QED
  BY <1>5, <1>6 DEF AwaitsInv

(* The earliest refresh ends: if a turn waits for it, the others are later. *)
LEMMA SettleAwaits ==
  ASSUME MemoryTypeInv, AwaitsInv, NEW r \in RefreshIds, Settle(r), Live(r), Earliest(r),
         UNCHANGED turn
  PROVE  AwaitsInv'
<1>1. /\ refresh'[r] = Settled /\ issued' = issued
      /\ \A q \in RefreshIds : q # r => refresh'[q] = refresh[q]
  BY DEF Settle, MemoryTypeInv, CallInv
<1>2. Settled.pc = "settled" /\ Settled.conv = 0
  BY DEF Settled, NoRefresh
<1>3. \A q \in RefreshIds : refresh'[q].conv \in Convs => Live(q)'
  BY <1>1, <1>2, AwaitTypes DEF AwaitsInv, Live
<1>4. ASSUME NEW t \in Turns, turn'[t].pc = "waiting"
      PROVE  /\ turn'[t].awaits <= issued'
             /\ \A q \in LiveOf(turn[t].conv)' :
                  refresh'[q].trigger = "post_turn" => q <= turn'[t].awaits
             /\ \/ turn'[t].awaits \in LiveOf(turn[t].conv)'
                \/ \A q \in LiveOf(turn[t].conv)' : turn'[t].awaits < q
  <2>1. \A q \in LiveOf(turn[t].conv)' : q \in LiveOf(turn[t].conv) /\ refresh'[q] = refresh[q]
                                         /\ q # r
    BY <1>1, <1>2 DEF LiveOf, Live
  <2>2. turn[t].awaits \in LiveOf(turn[t].conv) /\ turn[t].awaits # r
        => turn[t].awaits \in LiveOf(turn[t].conv)'
    BY <1>1 DEF LiveOf, Live
  <2>3. CASE turn[t].awaits = r /\ turn[t].awaits \in LiveOf(turn[t].conv)
    <3>1. \A q \in LiveOf(turn[t].conv) : r <= q
      BY <2>3 DEF Earliest, LiveOf
    <3>2. \A q \in LiveOf(turn[t].conv)' : r < q
      BY <2>1, <3>1, AwaitTypes DEF LiveOf
    <3>3. QED
      BY <1>1, <1>4, <2>1, <2>3, <3>2 DEF AwaitsInv
  <2>4. CASE ~(turn[t].awaits = r /\ turn[t].awaits \in LiveOf(turn[t].conv))
    BY <1>1, <1>4, <2>1, <2>2, <2>4 DEF AwaitsInv
  <2>5. QED
    BY <2>3, <2>4
<1>5. QED
  BY <1>3, <1>4 DEF AwaitsInv

LEMMA AwaitsKept ==
  ASSUME AwaitsInv, UNCHANGED issued,
         \A r \in RefreshIds : /\ Live(r)' <=> Live(r)
                               /\ refresh'[r].conv = refresh[r].conv
                               /\ refresh'[r].trigger = refresh[r].trigger,
         \A t \in Turns : turn'[t].pc = "waiting" => turn'[t] = turn[t]
  PROVE  AwaitsInv'
<1>1. \A c : LiveOf(c)' = LiveOf(c)
  BY DEF LiveOf
<1>2. ASSUME NEW t \in Turns, turn'[t].pc = "waiting"
      PROVE  /\ turn'[t].awaits <= issued'
             /\ \A r \in LiveOf(turn[t].conv)' :
                  refresh'[r].trigger = "post_turn" => r <= turn'[t].awaits
             /\ \/ turn'[t].awaits \in LiveOf(turn[t].conv)'
                \/ \A r \in LiveOf(turn[t].conv)' : turn'[t].awaits < r
  BY <1>2 DEF AwaitsInv, LiveOf
<1>3. QED
  BY <1>2 DEF AwaitsInv

LEMMA RefreshAwaits ==
  ASSUME MemoryTypeInv, ChainInv, AwaitsInv, NEW r \in RefreshIds, RefreshStep(r)
  PROVE  AwaitsInv'
<1>1. UNCHANGED turn /\ refresh \in [RefreshIds -> Refresh]
  BY DEF RefreshStep, MemoryTypeInv, CallInv
<1>2. CASE StartRefresh(r)
  <2>1. Live(r) /\ Earliest(r)
    BY <1>2 DEF StartRefresh, ChainInv, Live
  <2>2. CASE Settle(r)
    BY <1>1, <2>1, <2>2, SettleAwaits
  <2>3. CASE ~Settle(r)
    <3>1. refresh' = [refresh EXCEPT ![r] = [@ EXCEPT !.pc = "recalling", !.prior = 0,
                                               !.window = RefreshSees(refresh[r].conv)]]
          /\ UNCHANGED issued
      BY <1>2, <2>3 DEF StartRefresh
    <3>2. /\ refresh'[r].pc = "recalling" /\ refresh'[r].conv = refresh[r].conv
          /\ refresh'[r].trigger = refresh[r].trigger
      BY <1>1, <3>1 DEF Refresh
    <3>3. \A q \in RefreshIds : q # r => refresh'[q] = refresh[q]
      BY <1>1, <3>1
    <3>4. QED
      BY <1>1, <2>1, <3>1, <3>2, <3>3, AwaitsKept DEF Live
  <2>4. QED
    BY <2>2, <2>3
<1>3. CASE ReadPriorMemory(r)
  <2>1. /\ refresh[r].pc = "recalling" /\ refresh'[r].pc = "rewriting"
        /\ refresh'[r].conv = refresh[r].conv /\ refresh'[r].trigger = refresh[r].trigger
        /\ \A q \in RefreshIds : q # r => refresh'[q] = refresh[q]
        /\ UNCHANGED issued
    BY <1>1, <1>3 DEF ReadPriorMemory, Refresh
  <2>2. QED
    BY <1>1, <2>1, AwaitsKept DEF Live
<1>4. CASE RewriteMemory(r) \/ RefreshFails(r)
  <2>1. Live(r) /\ Earliest(r) /\ Settle(r)
    BY <1>4 DEF RewriteMemory, RefreshFails, ChainInv, Live
  <2>2. QED
    BY <1>1, <2>1, SettleAwaits
<1>5. QED
  BY <1>2, <1>3, <1>4 DEF RefreshStep

LEMMA TurnAwaits ==
  ASSUME OneClient, MemoryTypeInv, ChainInv, AwaitsInv, NEW t \in Turns, TurnStep(t)
  PROVE  AwaitsInv'
<1>1. turn \in [Turns -> Turn] /\ \A u \in Turns : u = t
  BY DEF MemoryTypeInv, TurnInv, OneClient
<1>2. CASE \E c \in Convs : BeginTurn(t, c)
  <2>1. PICK c \in Convs : BeginTurn(t, c)
    BY <1>2
  <2>2. turn'[t].conv = c /\ turn'[t].awaits = pending[c] /\ UNCHANGED <<refresh, issued>>
    BY <1>1, <2>1 DEF BeginTurn, serviceVars
  <2>3. pending[c] <= issued /\ \A r \in LiveOf(c) : r <= pending[c] /\ r # 0
    BY CallTypes, Bounds DEF MemoryTypeInv, ChainInv, LiveOf
  <2>4. pending[c] # 0 => pending[c] \in LiveOf(c)
    BY CallTypes DEF MemoryTypeInv, ChainInv, LiveOf
  <2>5. pending[c] = 0 => LiveOf(c) = {}
    BY <2>3, CallTypes DEF MemoryTypeInv, LiveOf
  <2>6. LiveOf(c)' = LiveOf(c)
    BY <2>2 DEF LiveOf, Live
  <2>7. QED
    BY <1>1, <2>2, <2>3, <2>4, <2>5, <2>6 DEF AwaitsInv, Live, LiveOf
<1>3. CASE FinishTurn(t)
  <2>1. \A u \in Turns : turn'[u].pc # "waiting"
    BY <1>1, <1>3 DEF FinishTurn, IdleTurn
  <2>2. turn[t].conv \in Convs /\ Execute(turn[t].conv, "post_turn", FALSE)
    BY <1>3 DEF FinishTurn, Exists
  <2>3. QED
    BY <2>1, <2>2, ExecuteAwaits DEF Triggers
<1>4. CASE PrepareTurn(t) \/ StoreReply(t) \/ TurnFails(t)
  <2>1. UNCHANGED <<refresh, issued>>
    BY <1>4 DEF PrepareTurn, StoreReply, TurnFails, serviceVars
  <2>2. \A u \in Turns : turn'[u].pc # "waiting"
    <3>1. CASE PrepareTurn(t)
      BY <1>1, <3>1 DEF PrepareTurn, Turn
    <3>2. CASE StoreReply(t)
      BY <1>1, <3>2 DEF StoreReply, GotoTurn, Turn
    <3>3. CASE TurnFails(t)
      BY <1>1, <3>3 DEF TurnFails, IdleTurn
    <3>4. QED
      BY <1>4, <3>1, <3>2, <3>3
  <2>3. QED
    BY <2>1, <2>2, AwaitsKept DEF Live
<1>5. QED
  BY <1>2, <1>3, <1>4 DEF TurnStep

LEMMA OpAwaits ==
  ASSUME MemoryTypeInv, AwaitsInv, NEW o \in Ops, OpStep(o)
  PROVE  AwaitsInv'
<1>1. UNCHANGED turn
  BY DEF OpStep
<1>2. ASSUME NEW c \in Convs, NEW trigger \in {"avatar_switch", "conversation_closed", "admin_trigger"},
             NEW promoting \in BOOLEAN, Execute(c, trigger, promoting)
      PROVE  AwaitsInv'
  BY <1>1, <1>2, ExecuteAwaits DEF Triggers
<1>3. CASE UNCHANGED <<refresh, issued>>
  BY <1>1, <1>3, AwaitsKept DEF Live
<1>4. CASE AdminRefresh(o)
  <2>1. LatestConvs \subseteq Convs
    BY DEF LatestConvs, Newest, ActiveConvs
  <2>2. QED
    BY <1>2, <1>4, <2>1 DEF AdminRefresh
<1>5. CASE ClosePrevious(o) \/ PromoteEnded(o)
  <2>1. op[o].previous \in Convs
    BY <1>5 DEF ClosePrevious, Close, Exists, PromoteEnded, MemoryTypeInv, OpInv
  <2>2. QED
    BY <1>2, <1>5, <2>1 DEF ClosePrevious, PromoteEnded, RunBackgroundClosePipeline
<1>6. CASE AdminClear(o)
  BY <1>3, <1>6 DEF AdminClear, serviceVars
<1>7. CASE ~ClosePrevious(o) /\ ~PromoteEnded(o) /\ LifecycleStep(o)
  BY <1>3, <1>7 DEF LifecycleStep, FindActive, CreateConversation, ReadEpisodes, Hydrate,
     LoadConversation, EndConversation, TouchSessionFails, DeleteMessages, DeleteConversations,
     DeleteEpisodes, DeleteWorking, OpFails, serviceVars
<1>8. QED
  BY <1>4, <1>5, <1>6, <1>7 DEF OpStep

LEMMA AwaitsInvHolds ==
  ASSUME OneClient
  PROVE  MemorySpec => []AwaitsInv
<1>1. MemoryInit => AwaitsInv
  BY Bounds DEF MemoryInit, AwaitsInv, NoRefresh, IdleTurn, Live
<1>2. MemoryTypeInv /\ ChainInv /\ AwaitsInv /\ [MemoryNext]_memoryVars => AwaitsInv'
  <2> SUFFICES ASSUME MemoryTypeInv, ChainInv, AwaitsInv, [MemoryNext]_memoryVars PROVE AwaitsInv'
    OBVIOUS
  <2>1. ASSUME UNCHANGED <<refresh, issued, turn>> PROVE AwaitsInv'
    BY <2>1, AwaitsKept DEF Live
  <2>2. ASSUME NEW r \in RefreshIds, PromotionStep(r) PROVE AwaitsInv'
    BY <2>1, <2>2
       DEF PromotionStep, CheckEpisode, DraftEpisode, CreateEpisode, EpisodeFails, GotoPromotion
  <2>3. ASSUME NEW o \in Ops, Restart(o) PROVE AwaitsInv'
    <3>1. /\ \A r \in RefreshIds : refresh'[r].conv = 0
          /\ \A t \in Turns : turn'[t].pc = "idle"
      BY <2>3 DEF Restart, NoRefresh, Settled, IdleTurn
    <3>2. QED
      BY <3>1, Bounds DEF AwaitsInv
  <2>4. QED
    BY <2>1, <2>2, <2>3, TurnAwaits, OpAwaits, RefreshAwaits DEF MemoryNext, memoryVars, serviceVars
<1>3. QED
  BY <1>1, <1>2, MemoryTypeInvHolds, ChainInvHolds, PTL DEF MemorySpec

(* With one client, a turn's prompt is built after every refresh that an    *)
(* earlier turn of the conversation asked for, however many refreshes of    *)
(* operators and closings are chained before and behind them.               *)
THEOREM PromptsFollowRefreshes ==
  ASSUME OneClient
  PROVE  MemorySpec => PromptFollowsRefresh
<1>1. MemoryTypeInv /\ AwaitsInv /\ [MemoryNext]_memoryVars
      => [\A t \in Turns : turn[t].pc = "waiting" /\ turn'[t].pc = "asking" =>
            ~\E r \in RefreshIds :
               /\ refresh[r].conv = turn[t].conv
               /\ refresh[r].trigger = "post_turn"]_memoryVars
  <2> SUFFICES ASSUME MemoryTypeInv, AwaitsInv, [MemoryNext]_memoryVars,
                      NEW t \in Turns, turn[t].pc = "waiting", turn'[t].pc = "asking",
                      NEW r \in RefreshIds, refresh[r].conv = turn[t].conv,
                      refresh[r].trigger = "post_turn"
               PROVE  FALSE
    OBVIOUS
  <2>1. turn \in [Turns -> Turn] /\ turn' # turn
    BY DEF MemoryTypeInv, TurnInv
  <2>2. PICK u \in Turns : TurnStep(u)
    <3>1. \A o \in Ops : ~Restart(o)
      BY DEF Restart, IdleTurn
    <3>2. QED
      BY <2>1, <3>1 DEF MemoryNext, OpStep, RefreshStep, PromotionStep, memoryVars
  <2>3. PrepareTurn(t)
    <3>1. \A v \in Turns : v # u => turn'[v] = turn[v]
      BY <2>1, <2>2 DEF TurnStep, BeginTurn, PrepareTurn, StoreReply, GotoTurn, FinishTurn, TurnFails
    <3>2. u = t
      BY <3>1
    <3>3. ~FinishTurn(t) /\ ~StoreReply(t) /\ ~TurnFails(t) /\ ~\E c \in Convs : BeginTurn(t, c)
      BY <2>1 DEF FinishTurn, StoreReply, TurnFails, BeginTurn, IdleTurn
    <3>4. QED
      BY <2>2, <3>2, <3>3 DEF TurnStep
  <2>4. turn[t].conv \in Convs /\ Over(turn[t].awaits)
    BY <2>3 DEF PrepareTurn, Exists
  <2>5. r \in LiveOf(turn[t].conv) /\ r <= turn[t].awaits
    BY <2>4 DEF AwaitsInv, LiveOf
  <2>6. turn[t].awaits \notin LiveOf(turn[t].conv)
    BY <2>4, AwaitTypes DEF Over, LiveOf, Live
  <2>7. turn[t].awaits < r
    BY <2>5, <2>6 DEF AwaitsInv
  <2>8. QED
    BY <2>5, <2>7, AwaitTypes
<1>2. QED
  BY <1>1, MemoryTypeInvHolds, AwaitsInvHolds, PTL DEF MemorySpec, PromptFollowsRefresh

=============================================================================
