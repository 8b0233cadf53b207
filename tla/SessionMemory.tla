---------------------------- MODULE SessionMemory ----------------------------
(***************************************************************************)
(* The requests of one session as its memory meets them: turns, openings,   *)
(* endings and resets of conversations, the operator's actions and the      *)
(* server's restart, composed with the memory service of module Memory.     *)
(* What the requests do besides is in SendMessage and Lifecycle.            *)
(***************************************************************************)
EXTENDS Memory

GotoTurn(t, pc) == turn' = [turn EXCEPT ![t].pc = pc]

(* The conversation a client talks to is one it knows to be open; by bound, *)
(* it begins no turn while a reset is under way.                            *)
Unavailable(c) ==
  \E o \in Ops : \/ op[o].conv = c /\ op[o].pc \in {"recall", "hydrate"}
                 \/ op[o].pc \in {"conversations", "episodes", "rows"}

(* The active conversation is loaded; the turn will wait for the newest     *)
(* refresh of now.                                                          *)
BeginTurn(t, c) ==
  /\ turn[t].pc = "idle"
  /\ status[c] = "active"
  /\ ~Unavailable(c)
  /\ Len(log[c]) + 2 <= MaxMessages[c]
  /\ turn' = [turn EXCEPT ![t] = [pc |-> "waiting", conv |-> c, awaits |-> pending[c]]]
  /\ UNCHANGED <<rowVars, serviceVars>>

(* Mutant of PrepareTurn: the turn does not wait.                           *)
PrepareAtOnce(t) ==
  LET c == turn[t].conv IN
  /\ turn[t].pc = "waiting"
  /\ Exists(c)
  /\ log' = [log EXCEPT ![c] = Append(@, "user")]
  /\ turn' = [turn EXCEPT ![t] = [@ EXCEPT !.pc = "asking", !.awaits = 0]]
  /\ UNCHANGED <<status, working, episode, serviceVars>>

(* The prompt is built and the user's message stored.                       *)
PrepareTurn(t) ==
  LET c == turn[t].conv IN
  /\ turn[t].pc = "waiting"
  /\ Over(turn[t].awaits)
  /\ Exists(c)
  /\ log' = [log EXCEPT ![c] = Append(@, "user")]
  /\ turn' = [turn EXCEPT ![t] = [@ EXCEPT !.pc = "asking", !.awaits = 0]]
  /\ UNCHANGED <<status, working, episode, serviceVars>>

(* Mutant of StoreReply: the reply is stored under the model's role.        *)
StoreAsAssistant(t) ==
  LET c == turn[t].conv IN
  /\ turn[t].pc = "asking"
  /\ Exists(c)
  /\ log' = [log EXCEPT ![c] = Append(@, "assistant")]
  /\ GotoTurn(t, "finishing")
  /\ UNCHANGED <<status, working, episode, serviceVars>>

StoreReply(t) ==
  LET c == turn[t].conv IN
  /\ turn[t].pc = "asking"
  /\ Exists(c)
  /\ log' = [log EXCEPT ![c] = Append(@, "avatar")]
  /\ GotoTurn(t, "finishing")
  /\ UNCHANGED <<status, working, episode, serviceVars>>

(* The refresh is asked for before the client has its answer.               *)
FinishTurn(t) ==
  /\ turn[t].pc = "finishing"
  /\ Exists(turn[t].conv)
  /\ Execute(turn[t].conv, "post_turn", FALSE)
  /\ turn' = [turn EXCEPT ![t] = IdleTurn]
  /\ UNCHANGED rowVars

(* The model fails, the client aborts, or the conversation was deleted.     *)
TurnFails(t) ==
  /\ \/ turn[t].pc = "asking" /\ turn[t].conv \in FaultyConvs
     \/ turn[t].pc = "waiting" /\ Over(turn[t].awaits) /\ ~Exists(turn[t].conv)
     \/ turn[t].pc \in {"asking", "finishing"} /\ ~Exists(turn[t].conv)
  /\ turn' = [turn EXCEPT ![t] = IdleTurn]
  /\ UNCHANGED <<rowVars, serviceVars>>

TurnStep(t) ==
  /\ \/ \E c \in Convs : BeginTurn(t, c)
     \/ PrepareTurn(t)
     \/ StoreReply(t)
     \/ FinishTurn(t)
     \/ TurnFails(t)
  /\ UNCHANGED <<op, restarted, historyVars>>

-----------------------------------------------------------------------------
(* Opening a conversation, by a start or a switch *)

SetOp(o, p) == op' = [op EXCEPT ![o] = p]

FindActive(o, k) ==
  /\ op[o].pc = "idle"
  /\ k \in Kinds[o] \cap {"start", "switch"}
  /\ \/ ActiveConvs = {} /\ SetOp(o, [IdleOp EXCEPT !.pc = "create", !.kind = k])
     \/ \E c \in Newest(ActiveConvs) :
          SetOp(o, [IdleOp EXCEPT !.pc = "close", !.kind = k, !.previous = c])
  /\ UNCHANGED <<rowVars, serviceVars, ended>>

(* The update does not look at the status again.                            *)
Close(c) ==
  /\ Exists(c)
  /\ status' = [status EXCEPT ![c] = "closed"]
  /\ ended' = [ended EXCEPT ![c] = IF status[c] = "active" THEN Len(log[c]) ELSE @]

(* Mutant of RunBackgroundClosePipeline: it refreshes as after a turn.      *)
RunPipelineAsAfterTurn(c, trigger) == Execute(c, "post_turn", TRUE)

RunBackgroundClosePipeline(c, trigger) == Execute(c, trigger, TRUE)

(* Nothing is awaited between the close and its pipeline.                   *)
ClosePrevious(o) ==
  /\ op[o].pc = "close"
  /\ op[o].kind \in {"start", "switch"}
  /\ Close(op[o].previous)
  /\ RunBackgroundClosePipeline(op[o].previous, "avatar_switch")
  /\ SetOp(o, [op[o] EXCEPT !.pc = "create"])
  /\ UNCHANGED <<log, working, episode>>

(* A switch refers to the conversation it leaves by a foreign key.          *)
HandoffBroken(o) ==
  op[o].kind = "switch" /\ op[o].previous # 0 /\ ~Exists(op[o].previous)

CreateConversation(o, c) ==
  /\ op[o].pc = "create"
  /\ ~HandoffBroken(o)
  /\ status[c] = "absent"
  /\ \A d \in Convs : d < c => status[d] # "absent"
  /\ status' = [status EXCEPT ![c] = "active"]
  /\ SetOp(o, [IdleOp EXCEPT !.pc = "recall", !.conv = c])
  /\ UNCHANGED <<log, working, episode, serviceVars, ended>>

(* Without an episode nothing is written.                                   *)
ReadEpisodes(o) ==
  LET made == {c \in Convs : episode[c].present} IN
  /\ op[o].pc = "recall"
  /\ SetOp(o, IF made = {}
              THEN [IdleOp EXCEPT !.pc = "done"]
              ELSE [op[o] EXCEPT !.pc = "hydrate",
                                 !.seen = UNION {episode[c].seen : c \in made}])
  /\ UNCHANGED <<rowVars, serviceVars, ended>>

Hydrate(o) ==
  /\ op[o].pc = "hydrate"
  /\ Upsert(op[o].conv, op[o].seen)
  /\ SetOp(o, [IdleOp EXCEPT !.pc = "done"])
  /\ UNCHANGED <<status, log, episode, serviceVars, ended>>

-----------------------------------------------------------------------------
(* Ending and resetting *)

LoadConversation(o, c) ==
  /\ op[o].pc = "idle"
  /\ "end" \in Kinds[o]
  /\ status[c] = "active"
  /\ SetOp(o, [IdleOp EXCEPT !.pc = "close", !.kind = "end", !.previous = c])
  /\ UNCHANGED <<rowVars, serviceVars, ended>>

(* The close is committed; the update of the session is awaited before the  *)
(* pipeline starts.                                                         *)
EndConversation(o) ==
  /\ op[o].pc = "close"
  /\ op[o].kind = "end"
  /\ Close(op[o].previous)
  /\ SetOp(o, [op[o] EXCEPT !.pc = "touch"])
  /\ UNCHANGED <<log, working, episode, serviceVars>>

PromoteEnded(o) ==
  /\ op[o].pc = "touch"
  /\ RunBackgroundClosePipeline(op[o].previous, "conversation_closed")
  /\ SetOp(o, [IdleOp EXCEPT !.pc = "done"])
  /\ UNCHANGED <<rowVars, ended>>

(* The update throws: the conversation stays closed, and no pipeline starts.*)
TouchSessionFails(o) ==
  /\ op[o].pc = "touch"
  /\ SetOp(o, [op[o] EXCEPT !.pc = "failed"])
  /\ UNCHANGED <<rowVars, serviceVars, ended>>

(* The deletions by conversation, started together, are one step here.  No  *)
(* message that is left is older than a row or an ending.                   *)
DeleteMessages(o) ==
  /\ op[o].pc = "idle"
  /\ "reset" \in Kinds[o]
  /\ log' = [c \in Convs |-> <<>>]
  /\ working' = [c \in Convs |-> [working[c] EXCEPT !.through = 0]]
  /\ ended' = [c \in Convs |-> 0]
  /\ SetOp(o, [IdleOp EXCEPT !.pc = "conversations", !.kind = "reset"])
  /\ UNCHANGED <<status, episode, serviceVars>>

(* The foreign keys of messages and of both memories cascade.               *)
DeleteConversations(o) ==
  /\ op[o].pc = "conversations"
  /\ status' = [c \in Convs |-> IF status[c] = "absent" THEN "absent" ELSE "deleted"]
  /\ log' = [c \in Convs |-> <<>>]
  /\ working' = [c \in Convs |-> NoMemory]
  /\ episode' = [c \in Convs |-> NoMemory]
  /\ SetOp(o, [op[o] EXCEPT !.pc = "episodes"])
  /\ UNCHANGED <<serviceVars, ended>>

(* By session: what a conversation opened since has goes too.               *)
DeleteEpisodes(o) ==
  /\ op[o].pc = "episodes"
  /\ episode' = [c \in Convs |-> NoMemory]
  /\ SetOp(o, [op[o] EXCEPT !.pc = "rows"])
  /\ UNCHANGED <<status, log, working, serviceVars, ended>>

DeleteWorking(o) ==
  /\ op[o].pc = "rows"
  /\ working' = [c \in Convs |-> NoMemory]
  /\ SetOp(o, [IdleOp EXCEPT !.pc = "done"])
  /\ UNCHANGED <<status, log, episode, serviceVars, ended>>

(* The row a statement updates or refers to was deleted by a reset.         *)
OpFails(o) ==
  /\ \/ op[o].pc = "close" /\ ~Exists(op[o].previous)
     \/ op[o].pc = "create" /\ HandoffBroken(o)
     \/ op[o].pc = "hydrate" /\ ~Exists(op[o].conv)
  /\ SetOp(o, [IdleOp EXCEPT !.pc = "done"])
  /\ UNCHANGED <<rowVars, serviceVars, ended>>

LifecycleStep(o) ==
  \/ \E k \in AllKinds : FindActive(o, k)
  \/ ClosePrevious(o)
  \/ \E c \in Convs : CreateConversation(o, c)
  \/ ReadEpisodes(o)
  \/ Hydrate(o)
  \/ \E c \in Convs : LoadConversation(o, c)
  \/ EndConversation(o)
  \/ PromoteEnded(o)
  \/ TouchSessionFails(o)
  \/ DeleteMessages(o)
  \/ DeleteConversations(o)
  \/ DeleteEpisodes(o)
  \/ DeleteWorking(o)
  \/ OpFails(o)

-----------------------------------------------------------------------------
(* The operator, and the server's restart *)

(* The active conversation, or else the one active last.                    *)
LatestConvs ==
  IF ActiveConvs # {} THEN Newest(ActiveConvs) ELSE {c \in Convs : Exists(c)}

AdminRefresh(o) ==
  /\ op[o].pc = "idle"
  /\ "refresh" \in Kinds[o]
  /\ \E c \in LatestConvs : Execute(c, "admin_trigger", FALSE)
  /\ SetOp(o, [IdleOp EXCEPT !.pc = "done"])
  /\ UNCHANGED <<rowVars, historyVars>>

(* Deletes the rows without the chain of refreshes.                         *)
AdminClear(o) ==
  /\ op[o].pc = "idle"
  /\ "clear" \in Kinds[o]
  /\ working' = [c \in Convs |-> NoMemory]
  /\ cleared' = cleared \cup UNION {PointsOf(c, ExchangeEnds(log[c])) : c \in Convs}
  /\ SetOp(o, [IdleOp EXCEPT !.pc = "done"])
  /\ UNCHANGED <<status, log, episode, serviceVars, ended>>

OpStep(o) ==
  /\ \/ LifecycleStep(o) /\ UNCHANGED cleared
     \/ AdminRefresh(o)
     \/ AdminClear(o)
  /\ UNCHANGED <<turn, restarted>>

(* Refreshes, pipelines and requests are in memory only.  By bound, it      *)
(* takes the place of a request.                                            *)
Restart(o) ==
  /\ op[o].pc = "idle"
  /\ "restart" \in Kinds[o]
  /\ refresh' = [r \in RefreshIds |-> IF refresh[r].pc = "none" THEN NoRefresh ELSE Settled]
  /\ pending' = [c \in Convs |-> 0]
  /\ promotion' = [r \in RefreshIds |-> NoPromotion]
  /\ turn' = [t \in Turns |-> IdleTurn]
  /\ op' = [p \in Ops |-> IF op[p].pc = "idle" /\ p # o THEN IdleOp
                                                      ELSE [IdleOp EXCEPT !.pc = "done"]]
  /\ restarted' = TRUE
  /\ UNCHANGED <<rowVars, issued, historyVars>>

Quiet ==
  /\ \A t \in Turns : turn[t].pc = "idle"
  /\ \A o \in Ops : \/ op[o].pc \in {"idle", "done", "failed"}
                    \/ op[o].pc = "create" /\ ~HandoffBroken(o)
  /\ \A r \in RefreshIds : /\ refresh[r].pc \in {"none", "settled"}
                           /\ promotion[r].pc \in {"none", "failed"}

MemoryNext ==
  \/ \E t \in Turns : TurnStep(t)
  \/ \E o \in Ops : OpStep(o) \/ Restart(o)
  \/ \E r \in RefreshIds : RefreshStep(r) \/ PromotionStep(r)
  \/ Quiet /\ UNCHANGED memoryVars

MemorySpec == MemoryInit /\ [][MemoryNext]_memoryVars

(* Background work goes on as long as the process lives, and so does the    *)
(* ending of a conversation once its close is committed: every promise they *)
(* await, of the store or of a model, is settled.                           *)
EndingGoesOn(o) == op[o].pc = "touch" /\ OpStep(o)

BackgroundFairness ==
  /\ WF_memoryVars(\E r \in RefreshIds : RefreshStep(r) \/ PromotionStep(r))
  /\ WF_memoryVars(\E o \in Ops : EndingGoesOn(o))

FairMemorySpec == MemorySpec /\ BackgroundFairness

-----------------------------------------------------------------------------
(* Every variable holds data of the kind its declaration says, the service's *)
(* map among them: an entry is the number of a call that was made.           *)
MemoryTypeOK ==
  /\ status \in [Convs -> {"absent", "active", "closed", "deleted"}]
  /\ log \in [Convs -> Seq({"user", "avatar"})]
  /\ working \in [Convs -> Row]
  /\ episode \in [Convs -> Row]
  /\ refresh \in [RefreshIds -> Refresh]
  /\ issued \in 0..MaxRefreshes
  /\ pending \in [Convs -> 0..issued]
  /\ promotion \in [RefreshIds -> Promotion]
  /\ turn \in [Turns -> Turn]
  /\ op \in [Ops -> Op]
  /\ restarted \in BOOLEAN
  /\ ended \in [Convs -> Nat]
  /\ cleared \in SUBSET Points

(* The refreshes of a conversation run one at a time, in the order in which *)
(* they were asked for, whoever asked: each execute chains itself to the    *)
(* map's entry, which the last of the chain removes.                        *)
Unstarted(c) == {r \in RefreshIds : refresh[r].pc = "queued" /\ refresh[r].conv = c}
Started(c) ==
  {r \in RefreshIds :
     refresh[r].pc \in {"recalling", "rewriting"} /\ refresh[r].conv = c}

Queue == INSTANCE RefreshQueue WITH
  Queues <- Convs, Requests <- RefreshIds,
  waiting <- [c \in Convs |-> Unstarted(c)], running <- [c \in Convs |-> Started(c)]

RefreshesAreSerial == Queue!QueueSpec

(* With one client at a time, no failing refresh and no restart, a prompt   *)
(* never misses an exchange of its conversation: each is in the working     *)
(* memory, in the short-term selection or in the history, though the        *)
(* memory's update time may be later than the messages its writer read.     *)
NothingForgotten ==
  ~restarted =>
    \A c \in ActiveConvs \ FaultyConvs : \A i \in ExchangeEnds(log[c]) :
      \/ i \in InWindow(log[c], HistoryWindow) \cup ShortTerm(c)
      \/ <<c, i>> \in working[c].seen \cup cleared

(* A conversation's episode, whoever closed it and however often, was made  *)
(* from every exchange it had when it closed: the close pipeline's refresh  *)
(* comes before it, and after the refreshes asked for earlier.              *)
EpisodeHoldsConversation ==
  ~restarted =>
    \A c \in Convs \ FaultyConvs : episode[c].present =>
      \A i \in ExchangeEnds(log[c]) :
        i <= ended[c] => <<c, i>> \in episode[c].seen \cup cleared

(* Two pipelines of one conversation may both find no episode and create    *)
(* one: the first stays as it was made until a reset deletes it.            *)
EpisodeIsKept ==
  [][\A c \in Convs :
       episode[c].present /\ episode'[c].present => episode'[c] = episode[c]]_memoryVars

(* What a reset deleted leaves no trace in either memory, whatever refresh, *)
(* pipeline or hydration was in flight: all they write refers to            *)
(* conversations that still exist.                                          *)
ResetForgets ==
  \A c \in Convs : \A d \in Convs : \A i \in 1..MaxMessages[d] :
    <<d, i>> \in working[c].seen \cup episode[c].seen => Exists(d)

(* With one client at a time, a turn builds its prompt when no refresh that *)
(* an earlier turn of the conversation asked for is still to end: it awaits *)
(* the newest of the chain, while operators and closings add to it.         *)
PromptFollowsRefresh ==
  [][\A t \in Turns : turn[t].pc = "waiting" /\ turn'[t].pc = "asking" =>
       ~\E r \in RefreshIds :
          /\ refresh[r].conv = turn[t].conv
          /\ refresh[r].trigger = "post_turn"]_memoryVars

(* The episode of a closed conversation is lost: the update of the session  *)
(* failed between a close and its pipeline, or a call of the store did in   *)
(* the generation.  Neither is tried again.                                 *)
EpisodeLost(c) ==
  \/ \E o \in Ops : op[o].pc = "failed" /\ op[o].previous = c
  \/ \E r \in RefreshIds : promotion[r].pc = "failed" /\ promotion[r].conv = c

(* A conversation that closes gets its episode, though the refreshes before *)
(* it fail or others close it too, unless the store fails between its close *)
(* and its episode, as after a reset, or the server restarts.               *)
ClosedIsRemembered ==
  \A c \in Convs :
    status[c] = "closed" ~> episode[c].present \/ EpisodeLost(c) \/ restarted

=============================================================================
