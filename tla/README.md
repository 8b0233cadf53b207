# Gami DigiDouble Core: a TLA+ verification project

Gami DigiDouble Core (`src/apps/core`) runs guided conversations: a player talks
to an *avatar*, and after each reply a *Game Master* (GM), a second language
model, observes the exchange in the background and prepares the next one.  It is
a Node.js monolith over PostgreSQL and Redis.  There are no locks, no
transactions in the conversation path, and no queue: a request is a sequence of
awaited statements, and between any two of them another request or a background
run of the same session may write the rows it has read.  The same holds of the web
player (`src/apps/web`), whose calls to Core are answered in any order while the
visitor goes on, and of the background work on memory and knowledge, which has
retries and restarts.  That is where this project looks.

Contents: [inventory](#inventory) · [modules](#modules) · [runs](#runs) ·
[bounds](#bounds) · [fairness](#fairness) · [proofs](#proofs) ·
[where code and documents disagree](#where-code-and-documents-disagree) ·
[observations](#observations) · [not modelled](#not-modelled) · [plan](#plan)

## Inventory

Paths are relative to `src/apps/core/src`, those of the web player to `src`.

| component | state it keeps | operations | interacts with | what makes it correct | hard because |
|---|---|---|---|---|---|
| GM state row (`infrastructure/db/repositories/postgres-gm-state.repository.ts`, `domain/game-master/gm-state-reducer.ts`) | progression marker, interaction count, the pending plan for the next turn | one upsert of a whole state, with a merge in SQL; the reducer; consuming a plan | written by every turn (twice) and every GM run | never loses a count or a newer plan to a stale writer; a plan serves the one turn it was made for | every writer writes back a state it read earlier |
| session store (`postgres-session`, `-conversation`, `-message` repositories) | active avatar, unlocked avatars, director notes; conversations; messages | single-statement reads, updates of named columns, cascading deletes | all use cases | no message without its conversation; at most one active conversation | requests keep and use rows they read earlier |
| GM run (`application/use-cases/run-game-master`) | what it read: row, session, unlocked avatars | read, ask the model, unlock, route, save plan, save notes | session row, gm_states, event publisher | observes completed exchanges only; its failure disturbs nothing | slow, overlapping, fire-and-forget |
| send message (`application/use-cases/send-message`, plain and streaming) | the prepared turn | prepare, consume plan, store both messages, count, dispatch, implicit close | GM run, memory, lifecycle | every exchange is counted once, guided once | interruption at any point, background work, reset or close under it |
| conversation lifecycle (`start-conversation`, `switch-avatar`, `end-conversation`, `reset-session`) | conversation status | close and create, close, delete all | awaits an initial GM run; close pipeline in the background | closed stays closed; requests are answered | several statements without a transaction |
| memory (`application/services/memory-maintenance.service.ts`, `episodic-memory.service.ts`, `application/use-cases/shared/hydrate-conversation-memory.ts`) | map of pending refreshes; working and episodic memory rows | refresh, await pending, close pipeline, hydrate, an operator's refresh and clear | send message, lifecycle | refreshes of a conversation are serial; prompts miss no exchange; one whole episode per closed conversation; a reset forgets | promise chain, check-then-create, three windows that must overlap |
| voice turn (`application/use-cases/voice-turn`, `infrastructure/cache/redis-utterance-idempotency.store.ts`) | one Redis entry per utterance | reserve, complete, release, expire | send message | an utterance runs one turn | expiry while the turn is still running |
| knowledge corpus (`application/services/knowledge`, `postgres-knowledge-corpus`, `postgres-corpus-generation`, `postgres-knowledge-chunk-writes`) | sources, operations, per-source progress, generations, chunks, active pointer | edit, ingest, create, claim, stage, validate, promote, retry, recover, search | retrieval | what is active is whole, served and never goes back; one retrieval reads one generation | restarts, edits and ingestion during a reindex |
| media cues (`application/services/media/media-cue.service.ts`) | event log entries | record once, publish once | GM run, web player | a cue waits for silence, shows once and ends | crash between record and publish; everything in the player waits for something |
| runtime events (`infrastructure/events`) | processing set, subscribers, last event | set, emit, subscribe | GM run, inspection routes | says what runs | shared by overlapping runs |
| rate limiter, authentication, model selection, retrieval, context engine, administration, inspection | small or none | single statements, pure functions | routes | — | — |
| adapters (`infrastructure/llm`, `speech`, `knowledge`) | none | calls to external services | — | — | slow, failing, timing out |
| web player: discovery (`apps/web/src/discovery`, `apps/web/src/api/runtime-events-stream.ts`) | chosen scenario, session, avatars, subscription | choose, restart, find or start a session, load and refresh avatars, reconnect | sessions API, runtime events | shows the session chosen last, and its avatars as they are unlocked | late answers, broken streams |
| web player: chat, voice, moments (`apps/web/src/chat`, `voice`, `moments`, `flow`) | thread, request counter, stream, sound, microphone, queue of cues, remembered conversation | open, restore, end, send, play, record, show | conversations API, discovery | one conversation on display, one voice at a time, nothing waits forever | overlapping calls, effects that react to one another |
| admin, console (`apps/admin`, `apps/console`) | forms | requests | API | — | — |

`PROJECT.json` lists each with its status, and under `hazards` the lines where
the hard behaviour bites, with the property that watches each one.

## Modules

```
GmStateRow  <-  SessionStore  <-  GameMasterRun  <-  SendMessage  <-+
                                               <-  Lifecycle    <-+-  SessionRuntime
ExchangeLedger  <~  SessionRuntime  <-  MCSessionRuntime (instances for TLC)
SessionRuntime  <-  SessionRuntime_proofs  <-  PatientClient_proofs

RefreshQueue  <~  SessionMemory     Memory  <-  SessionMemory  <-  MCSessionMemory
                                                SessionMemory  <-  Memory_proofs  <-  MemoryCover_proofs

UtteranceOnce  <~  VoiceTurn        VoiceTurn  <-  MCVoiceTurn,  VoiceTurn_proofs
ServedCorpus  <~  KnowledgeCorpus  <-  Knowledge_proofs
PlayerChat  <-  Player;  Player, Discovery  <-  Web_proofs
MCVoiceTurn, KnowledgeCorpus, Player, Discovery  <-  MCServices
MCServices, Web_proofs  <-  Services_proofs
```

An arrow points to the module that EXTENDS; `<~` marks the INSTANCE by which
the right module implements the abstract one on the left.  The session modules
and the memory modules model **one session**; sessions share nothing but the process.
`VoiceTurn` models one utterance; utterances share nothing.  `KnowledgeCorpus` is the
corpus of the whole server, `Player` and `Discovery` are one page of the web player.

**GmStateRow** — the pure part: `Save` is the upsert of
`postgres-gm-state.repository.ts:40`, whose `MergePlan` and `Greatest` are the SQL
`CASE` and `GREATEST`; `PlanApplies`, `ConsumedBy`, `Counted` are what a turn does
with the row, `Reduced` is `reduceGmState`.  A plan is named by the run that made
it (`by`), the turn it followed (`after`, `generatedAfterTurn`), its avatar and
whether it was consumed.  The progression text takes three values.

**SessionStore** — the rows of one session: `session`, `conv` (numbered in
creation order), `messages` (stamped with `clock`, their `created_at`), `row`.
Repository calls are single statements, hence single steps; foreign keys are
modelled (`InsertMessage` needs its conversation, deletes cascade).

**GameMasterRun** — one run per request that starts one.  `pc` follows the awaits
of `run-game-master.use-case.ts`: `ReadState`, `ReadSession` (or
`SessionUnreadable`, which the code swallows), `ModelAnswers`, `ApplyUnlocks`,
`ApplyRouting`, `SavePlan`, `SaveNotes`, `FinishRun` (the `finally` block).
`RunFails` may happen at each of them.  What a run writes is computed from what it
read before the model answered.  An answer is a member of `Outputs`, as it is
after `normalizeGameMasterOutput`; `unlocks` are the requested avatars that the
recent messages mention.

**SendMessage** — one request per member of `Turns`.  `Receive` … `SaveUserMessage`
are `prepareTurn`, `SaveAvatarMessage` … `ImplicitCloseFails` are `completeTurn`.
The streamed variant differs where the code does: it can be interrupted while the
avatar answers, and it dispatches the GM run after `completeTurn` returns, which is
after the implicit close of a farewell.  `TurnFails` is an exception at any step,
by a fault or because a reset deleted the conversation.  `guidance` and `plan`
remember, for the properties, whose notes and whose plan the request used.

**Lifecycle** — one request per member of `Ops`, of one of the kinds start,
switch, end, reset.  Start and switch close the newest active conversation, create
one, activate the avatar and wait for an initial run (turn index 0).  Reset lists
the conversations, deletes their messages concurrently (a failure does not stop
the deletions already started), deletes all conversations and resets the session
row; it leaves `gm_states` alone, as the code does.

**SessionRuntime** — the composition and the properties.  `MaxInFlight` is the
clients' discipline: the server has no limit of its own.  The web player
(`apps/web/src/chat/use-active-chat-runtime.ts:102`) disables sending and ending
while a reply streams, so `MaxInFlight = 1` is a client that waits until each of
its requests has ended; the GM runs those requests leave behind still overlap
everything after.

**ExchangeLedger** — what the session promises a client that waits: exchanges are
recorded one at a time and numbered in that order; after each, and after each opening of
a conversation, one plan is made; the plan on offer never gives way to one that follows
an earlier exchange; and an exchange is answered with at most one plan, made after the
exchange before it, that answers no other.  `SessionRuntime` implements it with
`begun <- Begun` (counted turns, and openings whose run began), `count <-` the row's
count, `making <- Making` (a plan for each run that has yet to save or give up, and for
each streamed farewell that will start its run when it returns), `offer <-` the row's
plan, `held <- HeldPlans` (the row's and those turns have read and may write back), and
`answered <-` the plan each turn consumed.  Most steps of the code are a stutter of the
ledger or `Forget`; what matters is that a turn's and a run's stale write of the whole
row is still `Record`, `Publish` or nothing.  `FirstNumbers` is `{1}` under `Calm`;
otherwise it is any positive number, because a turn without a row takes its index from
the stored messages.

**MCSessionRuntime** — the sets of answers, request kinds and avatars that the
configurations choose from.

**VoiceTurn** — the requests that submit one utterance, and the Redis entry that
keeps them apart.  `entry` is the JSON value at the key; `req[r].pc` follows the
awaits of `voice-turn.use-case.ts` and, inside them, the single commands of
`redis-utterance-idempotency.store.ts`.  `reserve` is `ReadFree` or `ReadTaken` or
`ReadOverdue` (GET), then `ClaimFree` or `ClaimTaken` (SET NX, with the loop of three
attempts) or `Discard` (DEL); `finishReservation` is `ReadOwn` (GET), then `Complete`
(SET XX) or `Release` (DEL).  `StartTurn` sets `downstreamStarted`; the turn itself is
`SendMessage`, entered like any other.  `ReserveFails` is a command without an answer,
whether or not it took effect, `CleanupFails` the error that `finishReservation` logs,
`Crash` the end of the process at any await.  A reservation ends in two steps,
because the code looks at `expiresAt` as well as Redis at its time to live:
`Overdue`, then `Expire`.  A request reads its clock before it reads the entry, so an
overdue entry may still be reported in flight.

**UtteranceOnce** — what the port `IUtteranceIdempotencyStore` promises: one holder
at a time, given back only unexecuted, executed once.  `VoiceTurn` implements it with
`holder <- Holder` (the owner of the entry) and `executed <- ran`, as long as no
reservation ends.

**MCVoiceTurn** — three requests `u1`, `u2`, `u3` with the same audio, and `v1` with
other audio under the same identity.

**Memory** — the two memories and the background work on them.  A memory's text is the
set of exchanges its writer had before it (`seen`, pairs of conversation and position);
`working` also keeps up to which message it was written (`through`).  `Execute` is
`MemoryMaintenanceService.execute`: it chains a call to the entry of the map `pending`
and takes its place; `Settle` is the `finally` that removes the entry if it is still the
call's own.  `StartRefresh`, `ReadPriorMemory`, `RewriteMemory`, `RefreshFails` are the
awaits of `executeRefresh`; `Due` is its count of exchanges since the last one.
`CheckEpisode`, `DraftEpisode` (with its `Fallback` text), `CreateEpisode` are the
second half of the close pipeline, `generateForClosedConversation`; any of its store calls
may throw, which its callers log and nobody tries again (`EpisodeFails`).  `ExchangeEnds`, `InWindow` and `ShortTerm` are
`conversation-exchange-window.ts` and the short-term selection.

**SessionMemory** — who calls it.  A turn waits for the pending refresh
(`BeginTurn`, `PrepareTurn`), stores its exchange and asks for a refresh
(`StoreReply`, `FinishTurn`); start and switch close the newest conversation and hydrate
the new one from the episodes (`ReadEpisodes`, `Hydrate`); an end and a farewell
close.  `Close` is the committed update of the conversation,
`RunBackgroundClosePipeline` what follows it: at once when a start or a switch closes
(`ClosePrevious`), after the awaited update of the session when an end does
(`EndConversation`, then `PromoteEnded`, or `TouchSessionFails` when that update throws and
the pipeline never starts).  A reset deletes messages, conversations, episodes and working memories in four
statements; `AdminRefresh` and `AdminClear` are the operator's.  `Restart` loses
everything in memory.  The conversation rows are abstracted here to a status; the
statements in between are `Lifecycle`'s and `SendMessage`'s.

**RefreshQueue** — "async and serialized per conversation": requests are numbered, each
starts when none runs and none with a smaller number waits, a restart loses all.
`SessionMemory` implements it with the calls that have not started, and those under
way, of each conversation.

**MCSessionMemory** — the windows of the program (three exchanges between refreshes, ten
messages read, six of history) and what the client and the operator may ask.

**KnowledgeCorpus** — sources, generations, chunks, operations and their progress are
the five tables, each action one statement or one transaction of
`postgres-knowledge-corpus.repository.ts`.  `worker[g]` is the run of an operation in
`knowledge-reindex.service.ts`: `Claim`, then per source `LoadSource` and `StageSource`
or `FailSource`, then `Validate`, `Promote` (compare the expected generation under the
row's lock) and `MarkCompleted`, or `FailOperation` after an error.  `job[j]` is an
ingestion job (`StartJob`, `WriteActive`, `WriteFails`, `CompleteJob`, `FailJob`), which
writes into the generation that was active when it started, if it still is; `reader[r]` a typed retrieval, which
embeds its query for one generation and checks before each of two searches.
`DeleteChunks` and `DeleteSource` are the two statements of a deletion.  `Boot` is
`recoverRunningReindexOperations` after a restart, maybe with another embedding
profile configured.  An operation and the generation it stages have one number.

**ServedCorpus** — what the corpus promises whoever searches it: one generation is active
and changes by ingestion and deletion alone; an operation makes another aside, of the
sources that were there when it was created, and puts it in place in a single step, if the
active one is still the one it was created against and none of its sources is missing;
of a deleted source no generation ever holds anything again.  `KnowledgeCorpus`
implements it with `active <-` the pointer, `content <- chunks`, `basis` and `list <-` the
operation's expected generation and sources, `latest` and `gone <-` the sources' versions
and deletions.  Loading, validation, failure, retry, recovery and retrieval are stutters.

**PlayerChat** — the hooks under `apps/web/src/chat` and `flow`.  An event handler and
the render and effects that follow it are one action; every call to Core is two
(`ServeOpen`, `ServeEnd` in Core, an `Answer…` or `…Fails` later, in any order) and keeps
the number the request counter had.  `Stream` is the message being sent, `Sound` the
reply being spoken, `page.remembered` the conversation in the browser's storage.

**Player** — the hands-free voice loop (`mic`, `recording`) and the queue of media cues,
composed with the chat: `Follow` is what the hooks do after each render, that is, the
recorder starts and stops as the rest allows.  A cue may be lost between Core's record
and the page.

**Discovery** — how the page comes to its session: every choice and restart has a number,
`loads` are the calls of `loadScenarioSessionAndAvatars`, `feed` is the subscription
to the session's events with the events on their way, `refreshes` the calls of
`refreshAvailableAvatars`.  The avatars of a session are the version of its unlocked
set; `Unlock` is the save of a Game Master run, `Tell` its later event, which goes only to
the streams subscribed at that moment.  `excused` remembers that a call for the
avatars failed, or was answered after a later one.

**MCServices** — the four components `MCVoiceTurn`, `KnowledgeCorpus`, `Player` and
`Discovery` in one instance for TLC.  They share no state, so that a behaviour is of one of
them, chosen at its start, and the states of the run are the sum of theirs, not the
product.

**…_proofs** — see [proofs](#proofs).

Each operator that a mutant of the code stands for is defined right before the
definition it mutates and says "Mutant of"; nothing else refers to it.

## Runs

| run | client | what happens | checks |
|---|---|---|---|
| `patient_client` | one request at a time | a start and three turns, plain or streamed, streams interrupted; background runs of earlier turns still running, one of them failing anywhere | `TypeOK`, `PlanIsUsedOnce`, `PlanIsForThisTurn`, `ImplementsLedger` |
| `patient_switch` | one request at a time | a start, a turn that may be a farewell, then a switch or an end; two avatars, one to be unlocked by the GM; the start, the turn and the switch or end may fail anywhere, and so may the runs | `OneActiveConversation`, `RequestsSettle`, `ProcessingEnds` |
| `overlapping_reset` | two at once | a start, two turns (one may fail anywhere, one may be a farewell), and a reset at any moment | `OnlyCountedTurnsAreObserved`, `CountIsNeverAhead`, `NoOrphanMessages`, `RowNeverRegresses`, `ClosedStaysClosed` |
| `guidance_reuse` | one at a time | three plain turns, no fault | violates `GuidanceIsUsedOnce` |
| `progression_lost` | one at a time | two plain turns, no fault | violates `ProgressionOnlyIncreases` |
| `late_plan` | one at a time | four turns, plain or streamed, streams interrupted; the initial run and that of the third turn may fail | violates `PlanIsForThisTurn` |
| `unlock_lost` | one at a time | two plain turns, three avatars, no fault | violates `UnlocksAreKept` |
| `session_memory` | one client, a switch, and an end, reset, refresh, clear or restart | two exchanges before, up to two more, then another conversation; models fail in the second conversation, the store at any step between a close and its episode; anything at any moment | `MemoryTypeOK`, `NothingForgotten`, `EpisodeHoldsConversation`, `ResetForgets`, `RefreshesAreSerial`, `EpisodeIsKept`, `PromptFollowsRefresh`, `ClosedIsRemembered` |
| `services` (utterance) | four requests of one utterance | any fault in two of them, no reservation ends | `TypeOK`, `AtMostOnce`, `ImplementsOnce` |
| `services` (knowledge) | an operator, a retrieval | three events among edits, two reindexings, two ingestions, a retrieval, restarts; failing sources and store | `KnowledgeTypeOK`, `ReadyIsServed`, `RetrievalIsOfOneCorpus`, `PromotionIsWhole`, `ActiveChangesByIngestion`, `ImplementsCorpus`, `ReindexEnds` |
| `services` (player) | a visitor, four clicks | every order of answers, failing calls, the microphone, one cue | `WebTypeOK`, `ThreadIsOfConversation`, `ConversationIsOfAvatar`, `MediaStartsInSilence`, `PlayerSettles`, `LoopListensAgain` |
| `services` (discovery) | a visitor, one choice or restart after the first | a remembered scenario that is offered, gone or none; late answers, an unlock, one failure or broken stream | `WebTypeOK`, `AvatarsAreOfSession`, `UnlocksAreShown` |
| `utterance_expiry` | three requests of one utterance | every reservation may end at any moment, one request may meet any fault | `CompletedMeansRan`, `ReservationsAreSettled` |
| `utterance_reuse` | two requests of one utterance | reservations may end, no fault | violates `AtMostOnce` |
| `stale_conversation` | a visitor of the web player, five clicks | no fault | violates `ConversationIsOfSession` |

What the passing runs show:

- **The upsert is what keeps the counter right.**  GM runs write back a row they
  read seconds earlier.  Without `GREATEST` (mutant `SaveWithStaleCount`)
  `ImplementsLedger` fails: the count goes back, and two exchanges get one number.
  With it, a client that waits for its answers finds `interaction_count` raised by one
  with each exchange that completes, so turn indices are never repeated or skipped
  (`CountIsExact`, which is proved, says that it equals the number of exchanges).
- **Plans.**  A plan is used by at most one turn, also when that turn was
  interrupted and sent again, and only by the turn right after the exchange its run
  observed (before any reply: only the plan of an initial run), provided that the
  initial run leaves a row; `late_plan` shows what happens without one.
- **Lifecycle.**  A client that waits never has two active conversations, whatever
  call fails between closing the old one and creating the new one.
- **Every client** keeps: background runs only for counted exchanges, a row that
  never regresses, no reopened conversation, no message outliving a reset.

- **Utterances, while reservations last.**  SET NX is what lets one request through;
  neither a crash, nor a lost answer, nor a failed cleanup opens the utterance again
  after its turn.  Releasing a reservation whose turn had started (mutant
  `ReleaseAlways`) breaks the refinement.
- **Utterances, beyond the end of reservations.**  `complete` and `release` check the
  owner and then write in a second command, and an overdue entry is deleted blindly,
  so a request can overwrite or delete the entry of another.  Two things hold all the
  same: `completed` is answered only for an utterance that some request did run, so
  no speech is swallowed; and an in-flight entry always belongs to a request that is
  still served or met a fault, so no ordinary end blocks the utterance.
- **Memory.**  The one map entry per conversation is enough to serialize refreshes
  (mutant `SettleAndForget` drops the guard that removes only one's own entry, and two
  overlap).  Its three windows do overlap: with the interval of three, a reading window
  of ten and a history of six, no exchange falls out of prompt and memory both (mutant
  `RefreshSeesLess` is a window of four).  What a reset deletes leaves nothing behind,
  because each late write refers to a conversation by a foreign key.  A closed conversation
  gets its episode although the refreshes before it fail (mutant `RefreshThrows` lets such
  an error end the pipeline); what `ClosedIsRemembered` excepts is exactly what the code
  gives up: a call of the store that fails between the close and the episode
  (`EpisodeLost`), and a restart.
- **Knowledge.**  Promotion compares the expected generation, so that of two operations
  begun together one fails, and a retried or recovered operation never undoes a later
  one: both are steps that `ImplementsCorpus` does not have (mutant `PromoteAnyway`), and
  `PointerNeverReturns`, which follows, is proved besides.  A deleted source does not come
  back, whichever run had loaded it.  A ready source is served, except one ingested while an operation that had
  already listed or loaded it was still to be promoted: the code drops it, and
  `ReadyIsServed` says so.
- **The web player.**  The request counter alone keeps the thread right in whichever
  order overlapping calls are answered.  The circle of microphone, reply, sound and
  media never comes to a standstill.  The number of a choice keeps the session and the
  avatars right, and the refresh when the stream opens finds every unlock that the stream
  missed (mutant `OpenOnly` leaves it out).

Deadlock is checked in every run; each specification names the states in which nothing
need happen: `Quiescent` (no request pending, no run under way), `AllServed`, `Quiet`,
`KnowledgeQuiet` (the events are used up and what they began is over), `PlayerQuiet`
and `DiscoveryQuiet` (nothing is on its way).

## Bounds

- `Turns`, `Ops`: two or three turns and one or two lifecycle requests.  Three turns
  are what it takes for two background runs to overlap a third turn, in any order
  of their ends; each hazard listed involves at most that many actors.
- `MaxConversations` is the number of requests of the run that create one, so the
  bound is never met.
- `HistoryLimit = 6` is `MESSAGE_HISTORY_FETCH_LIMIT`; it is above what the turns of
  a run can store before the first count.
- `Outputs`, `Modes`, `Kinds`: the answers and requests that the run's question
  needs; the answers that only differ in wording are one.
- `FaultyRequests`, `FaultyRuns`: which requests and runs may meet a fault, at any of
  their steps.  A failing call is one that did not take effect.
- `SYMMETRY LaterTurns` (`t2`, `t3`) only where the configuration treats both alike
  and no liveness property is checked.
- Memory: `Spoken` is two exchanges, so that the third, which is due to be remembered,
  and the fourth, which pushes the first out of the history, are the client's;
  `MaxMessages` allows four exchanges in the first conversation and one in the second;
  `FaultyConvs` is the second one, so that the first keeps the properties that a failing
  refresh excuses; `MaxRefreshes = 5` is what these requests
  can ask for at most: one after each of three exchanges, one by the switch and one by the
  end or the operator.  What fails between a close and its episode has no bound.
- Knowledge: `MaxEvents = 3` beside the one source of two ingested at the start; two
  operations and two jobs are the least that compete, and an edit, an ingestion and an
  operation are the least of which one can fall into another.  `FaultySources` is the
  other source.
- Player: two avatars, sessions and conversations and four clicks: a choice, an
  overlapping one, a message, an end.  `stale_conversation` needs a fifth.  One cue, a
  video.
- Discovery: `Recalled` is none, an offered and a withdrawn scenario; one choice or
  restart after it makes two loads race; one unlock, one fault and two refreshes suffice
  for an event lost, a stream reopened and an answer overtaken.  By bound no two refreshes
  under way are alike, and unlocks happen in the session that is shown.
- `Requests` of an utterance: three that retry it, enough for an owner, a request that
  waits for it and one that takes over, and one with other audio; two retries and the
  conflicting one where reservations end, which is enough for every pair of a stale
  owner and a fresh one.
- `ExpiringRequests`: whose reservation may come to its end.  `{}` is the case in which
  every request ends before its reservation does (30 s), the condition of
  `AtMostOnce` and `ImplementsOnce`.  A completed entry lives for a day, which is the
  horizon of the model.
- `MaxAttempts = 3` is the code's own loop bound.
- Progression has three values because the reducer cannot produce a fourth; `TypeOK`
  is violated by a reducer that would (mutant `ReducedWithoutStop`).

## Fairness

Of the session runs, `FairSpec` is used for `RequestsSettle` and `ProcessingEnds`
only.  It assumes weak fairness of each request that was received and of each run: an
awaited call settles.  The code justifies it: language model adapters abort after
30 s (`REQUEST_TIMEOUT_MS` in `infrastructure/llm/*.adapter.ts`), and database calls
answer or throw.

`BackgroundFairness` (`ClosedIsRemembered`) is the same of refreshes and close pipelines
together, and of the ending of a conversation from its committed close to its pipeline,
 `KnowledgeFairness` (`ReindexEnds`) of the run of each operation.
`PlayerFairness` (`PlayerSettles`, `LoopListensAgain`) is one weak fairness of answers,
devices and playback: a call is answered or fails, a recorder stops, a video that plays
ends or is skipped.  Nothing is assumed of players, visitors, operators, readers, or of
the restarts: all they do is optional.

## Proofs

TLAPS proves, for every value of the constants that satisfies the `ASSUME`s
(any number of turns, lifecycle requests, avatars and conversations, any set of
normalised answers, any client):

| theorem | module | statement |
|---|---|---|
| `TypeCorrect` | `SessionRuntime_proofs` | `Spec => []TypeOK` |
| `RowNeverRegressesHolds` | `SessionRuntime_proofs` | `Spec => RowNeverRegresses` |
| `OnlyCountedTurnsAreObservedHolds` | `SessionRuntime_proofs` | `Spec => []OnlyCountedTurnsAreObserved` |
| `ClosedStaysClosedHolds` | `SessionRuntime_proofs` | `Spec => ClosedStaysClosed` |
| `NoOrphanMessagesHolds` | `SessionRuntime_proofs` | `Spec => []NoOrphanMessages` |
| `CountIsNeverAheadHolds` | `SessionRuntime_proofs` | `Spec => []CountIsNeverAhead` |
| `CountIsExactHolds` | `SessionRuntime_proofs` | `Spec => []CountIsExact`, if `MaxInFlight \in {0, 1}` |
| `OneActiveConversationHolds` | `PatientClient_proofs` | `Spec => []OneActiveConversation`, if `MaxInFlight \in {0, 1}` |
| `PlanIsUsedOnceHolds` | `PatientClient_proofs` | `Spec => []PlanIsUsedOnce`, if `MaxInFlight \in {0, 1}` |
| `PlanIsForThisTurnHolds` | `PatientClient_proofs` | `Spec => []PlanIsForThisTurn`, if `MaxInFlight \in {0, 1}` and `Calm` |
| `SessionImplementsLedger` | `PatientClient_proofs` | `Spec => ImplementsLedger`, if `MaxInFlight \in {0, 1}` |
| `VoiceTypeCorrect` | `VoiceTurn_proofs` | `Spec => []TypeOK` |
| `AtMostOnceHolds` | `VoiceTurn_proofs` | `Spec => []AtMostOnce`, if `ExpiringRequests = {}` |
| `VoiceTurnImplementsOnce` | `VoiceTurn_proofs` | `Spec => ImplementsOnce`, if `ExpiringRequests = {}` |
| `CompletedMeansRanHolds` | `VoiceTurn_proofs` | `Spec => []CompletedMeansRan` |
| `ReservationsAreSettledHolds` | `VoiceTurn_proofs` | `Spec => []ReservationsAreSettled` |
| `MemoryTypeCorrect` | `Memory_proofs` | `MemorySpec => []MemoryTypeOK` |
| `RefreshesAreQueued` | `Memory_proofs` | `MemorySpec => RefreshesAreSerial` (implements `RefreshQueue`) |
| `EpisodesAreKept` | `Memory_proofs` | `MemorySpec => EpisodeIsKept` |
| `ResetsForget` | `Memory_proofs` | `MemorySpec => []ResetForgets` |
| `PromptsFollowRefreshes` | `Memory_proofs` | `MemorySpec => PromptFollowsRefresh`, if `OneClient` |
| `NothingIsForgotten` | `MemoryCover_proofs` | `MemorySpec => []NothingForgotten`, if `OneClient`, `Windows` and `ShortSoFar` |
| `EpisodesHoldConversations` | `MemoryCover_proofs` | `MemorySpec => []EpisodeHoldsConversation`, if `OneClient`, `Windows` and `ShortSoFar` |
| `KnowledgeTypeCorrect` | `Knowledge_proofs` | `KnowledgeSpec => []KnowledgeTypeOK` |
| `PointerOnlyAdvances` | `Knowledge_proofs` | `KnowledgeSpec => PointerNeverReturns` |
| `RetrievalsDoNotMix` | `Knowledge_proofs` | `KnowledgeSpec => []RetrievalIsOfOneCorpus` |
| `PromotionsAreWhole` | `Knowledge_proofs` | `KnowledgeSpec => PromotionIsWhole` |
| `ActiveIsNotStaged` | `Knowledge_proofs` | `KnowledgeSpec => ActiveChangesByIngestion` |
| `ReadySourcesAreServed` | `Knowledge_proofs` | `KnowledgeSpec => []ReadyIsServed` |
| `KnowledgeImplementsCorpus` | `Knowledge_proofs` | `KnowledgeSpec => ImplementsCorpus` |
| `DiscoveryTypeCorrect` | `Web_proofs` | `DiscoverySpec => []DiscoveryTypeOK` |
| `AvatarsAreOfSessionHolds` | `Web_proofs` | `DiscoverySpec => []AvatarsAreOfSession` |
| `UnlocksAreShownHolds` | `Web_proofs` | `DiscoverySpec => []UnlocksAreShown` |
| `PlayerTypeCorrect` | `Web_proofs` | `PlayerSpec => []PlayerTypeOK` |
| `ThreadIsOfConversationHolds` | `Web_proofs` | `PlayerSpec => []ThreadIsOfConversation` |
| `ConversationIsOfAvatarHolds` | `Web_proofs` | `PlayerSpec => []ConversationIsOfAvatar` |
| `MediaStartsInSilenceHolds` | `Web_proofs` | `PlayerSpec => MediaStartsInSilence` |
| `ServicesFollowTheirSpecs` | `Services_proofs` | `ServicesSpec => Spec /\ KnowledgeSpec /\ PlayerSpec /\ DiscoverySpec` |
| `WebTypeCorrect` | `Services_proofs` | `ServicesSpec => []WebTypeOK` |

Ten theorems have a hypothesis on the constants, stated in the theorem, and a
state space of its own in the runs.  `ExpiringRequests = {}`: no reservation ends; the
violating run `utterance_reuse` shows that it is needed.  `MaxInFlight \in {0, 1}`: the
client waits for each answer, as the web player does; two overlapping turns that count
once, two switches served at once, and two turns that read the same plan show that the
count, the one active conversation and the single use of a plan need it.  `Calm`: no
request fails but for the interruption of a stream, the session is not reset, and the
initial run leaves its row; the violating run `late_plan` shows what comes of an initial
run that fails.  `OneClient`: one client sends to the session, so that no turn asks for
a refresh while another one waits.  `Windows`: the prompt's history and the messages a
refresh reads hold two rounds of `RefreshEvery` exchanges, as the program's do (6 and 10
messages, rounds of 3 exchanges).  `ShortSoFar`: the conversation that exists at the start has
had whole exchanges, fewer than a round, none in the program itself.
The assumptions of the session modules are `DistinctIds`, `SentinelsAreNotData`, `StoreAssumption`,
`OutputsAssumption`, `ModesAssumption`, `KindsAssumption` and `ClientAssumption`, that of
`VoiceTurn` is `VoiceAssumption`, and there are `MemoryAssumption`,
`KnowledgeAssumption`, `PlayerAssumption`, `MediaAssumption` and `DiscoveryAssumption`; TLC
evaluates each in the runs of its module.

*Types.*  `TypeOK` is not inductive: a turn about to consume a plan must have read
one, a switch about to close a conversation must name one, a run that routes must
have a target.  `TypeInv` adds exactly these facts, one conjunct per component
(`StoreInv`, `RunInv`, `TurnInv`, `OpInv`), and `TypeInvHolds` proves it step by
step, one lemma per component's actions.  `NewestActive` is a CHOOSE of a maximum;
that it exists for a non-empty set of conversation numbers comes from
well-founded induction on finite sets (`GreatestExists`).

*The row.*  Every write of `row` is a `Save`, so `RowNeverRegresses` follows from a
lemma about `Save` alone: whatever state is written, count and plan only move
forward.  `TypeInv` supplies the types.

*Observed turns, closed conversations, orphans.*  The first needs that a turn
dispatches its run only in the step that counts it or later, and that a turn never
leaves the set of counted ones.  The second looks at the three writers of
`conv`.  The third combines the foreign key with the cascade: a message is
inserted only where its conversation exists, and a step that removes a
conversation removes all messages.

*The count.*  `CountInv` says that the counted turns are finitely many and that no
copy of the row held anywhere, by the table, a turn or a run, has a higher count
than there are counted turns.  Every step but one leaves that number alone and can
only move copies around (`CountSteps`, by component); the step that counts adds one to
both sides.  `CountIsExact` needs more: a turn about to write the count must have
read the current one.  Under `MaxInFlight <= 1`, `PatientInv` states that at most one
request is pending and that what it read is fresh: no other request can count in
between, and a background run's write cannot lower the count, because of `GREATEST`.

*One active conversation.*  `OneActiveInv` adds to the property what a request that is about
to open a conversation knows: the one it read is the only one that may be active,
and it is closed once the request has got past the closing; a start, of which there
is one (`StartsOnce`), finds none.  `PatientInv` says that no second request moves.

*One turn per plan.*  `UsedInv`: a plan that is not marked as consumed, in the table or in
what a turn has read, was consumed by no turn; two copies of one run's plan follow the
same exchange; and before a run saves its plan nobody holds one of it.  The upsert
replaces the plan in the table only by one that follows no earlier exchange and keeps
the mark of the one it has, so no write back brings a consumed plan to life again.

*The plan for this turn.*  `PlanIsForThisTurn` compares a plan with the stored replies, so
four invariants are needed, each proved from the ones before it.  `CalmInv`: a turn that
is under way finds a row and does not fail.  `IndexInv`: the index it works with is the
number of exchanges counted.  `ReplyInv`: a stored reply is of a turn that was counted or
is about to be, whose reply then is the latest.  `PreparedInv`: a plan that follows the
last counted exchange is of the turn whose reply is the latest (`Recent`), wherever the
plan is held.  A request that fails after its reply was stored would leave one that
is not counted; that is why `Calm` excludes it.

*The ledger.*  The refinement reads the invariants above as facts about the ledger.
`LedgerInv` adds what its actions ask for: a plan that a turn is about to consume follows
as many exchanges as are counted; the index of a turn is one more than the count or,
unless `Calm`, nothing was counted yet; and every plan held follows an opening or a
counted exchange.  `Making` holds one plan per run because a run starts once
(`StartsOnce`).  A turn's steps are then `Answer` (consuming), `Record` (counting) or
`Forget`; a run's save is `Publish`, its failure `Abandon`; an opening that starts its run
is `Open`; each has a lemma.  That `Publish` is one `Later` is the merge rule of the
upsert: a plan in the table is replaced by one that follows no earlier exchange.

*One turn per utterance.*  `OnceInv` ties the three pieces of state together while no
reservation ends: a request between its claim and its answer owns the entry; the
request that ran still owns it, completed or not; hence nobody else can claim.  The
refinement theorem reads the same step analysis (`OnceSteps`) as steps of
`UtteranceOnce`.

*No utterance swallowed.*  Without a condition on expiry, `CompletedInv` adds to
`CompletedMeansRan` that a completed entry names a request that ran with the entry's
fingerprint, and that `ran` holds no request that has not got that far.

*No reservation left behind.*  `SettledInv`: an entry in flight is of a request that still is
on its way to settle it, or of one that met a fault, also when reservations end and are
discarded and claimed anew.

*Refreshes.*  `ChainInv` says what the map and the calls' own references amount to: the
calls of a conversation that are not settled form one chain in the order of their
numbers, each waiting for the one before it, and the map's entry is the last.  Then only
the first can run, and `Settle` removes an entry only when the chain is empty.  The
refinement follows, a restart being `Lose`.

*What a prompt has seen.*  `AwaitsInv`: with one client, every refresh that a turn asked for
and that is not over is in the chain no later than the one the turn awaits, and
`ChainInv` orders their ends.

*Episodes, and what a reset deletes.*  Rows of a conversation are written only while it
exists.  `ForgetInv` states of the rows, the refreshes, the close pipelines and the
openings under way that what each holds is of conversations that exist, or that the
conversation it would write to does not (`RowsForget`, `CallsForget`,
`PipelinesForget`, `OpeningsForget`); no step revives a deleted one (`NoneRevived`).

*Nothing is forgotten.*  That the working memory holds this or that exchange is no
invariant by itself: a refresh takes any time, others overtake the one that is due (an
operator's, a closing's), and a reset leaves rows of what it has deleted.  Three
invariants are needed.  `PhaseInv`: while a request opens a conversation, or a reset is
between two deletions, no turn has spoken in the conversations that exist, but for one
that was late; and a turn past its waiting leaves no refresh of an earlier turn behind.
`CoverInv` counts in rounds: of a conversation that has had `n` exchanges, `d` of them in
whole rounds, all `d` are held (`HeldTo`: by the row and by what any refresh under way is
about to write), or the last round is not, and the refresh it made due is still to end
and has the round in its window, or will (`AwaitsRefresh`).  No further round can end
meanwhile, because the next turn waits.  So the row lacks fewer than two rounds, and
these are among the last messages (`RestIsRecent`).

*Episodes hold what was said.*  `ClosingInv` ties endings, pipelines and episodes to conversations
that closed; that an ending under way is of one that has closed, and is not opened again,
is `EndingsInv`.  `PipelineInv` follows the exchanges the conversation had when it closed:
from the window and the row its refresh reads (`RestIsRecent` again, of the refresh's
window), through what that refresh writes, the row the pipeline reads (which later
refreshes may have rewritten, but from it), to the episode it creates.

*The corpus.*  `OrderInv` orders the numbers: operations begin in the order of their
numbers, each against an expected generation smaller than its own, and the active
generation is of one that has begun.  `StagingInv` says that an operation has at most the
sources it listed, that its generation has chunks of no others until it is promoted,
and that nothing is left to stage once it is.  `ServedInv` relates three versions of a source: what
was ingested, what the worker holds, what is staged (`VersionInv`), which sources were
listed (`ListInv`) and what is active (`CurrentInv`).  That counting completed
sources means all of them is a fact about cardinalities, taken from
`FiniteSetTheorems`.

*The corpus as it is served.*  The refinement needs two more facts, `ContentInv`: a deleted
source has no chunks in any generation and is in no operation's list (`GoneInv`), so that a
run that had loaded it before the deletion stages nothing; and what a run is about to stage
is a version that the source has had (`ToStageInv`).  `StagingInv` then makes a run's
staging `Stage`, never of the active generation, `CompleteIsWhole` makes the promotion
`Promote`, and every other step of a run, a boot and a retrieval changes nothing of what
the abstract corpus has.

*Sessions and avatars.*  `DiscoveryInv`: each choice has one load at most; that of the last
choice finds its session before the page knows one, and afterwards it, the refreshes
of this choice and the avatars shown are of this session.  Versions never exceed what
is unlocked.  `UnlockInv` is `UnlocksAreShown` with a witness: while the stream is open and
no event is to come, either what is shown is what is unlocked, or a refresh that
finds it is under way.

*The player's chat.*  `PlayerInv` is about what is *current*: a call or a stream made since
the last event that counted on.  At most one call is current, and until a current one
has opened or restored a conversation the thread is empty and of the character asked
for (`CallsInv`); a stream that is heard is of the conversation shown, or of one that
has been left while no call is current (`StreamInv`).  Conversations keep their
character once made, so an answer that counts finds the thread it was asked for.  The
microphone belongs to it: an utterance that is put together while the conversation
ends is sent to the conversation that was left, which is harmless only because no
call is current then (`MicInv`).  The bound of the request counter is the invariant
`CountInv`: three numbers to a click, two to the first session.

*Cues.*  `CueInv`: no cue but the first has started, and those queued and on their way are
no more than were emitted.  Neither the hooks nor an arriving or ending cue then put a
started cue first, so only `MediaStarts` does (`StartsIsMediaStarts`), whose guard and
whose render leave silence.

*Four components beside one another.*  The run `services` checks the components in one
instance.  `OneServiceMoves`: a step of one leaves the variables of the others alone; so a
behaviour of the instance is one of each specification (`ServicesFollowTheirSpecs`), and
what is proved of one component is proved of the instance, `WebTypeOK` for one.

Every invariant, action property and refinement of a passing run is proved, where it
needs one under a hypothesis that its run satisfies.  Only model-checked are the liveness
properties (`RequestsSettle`, `ProcessingEnds`, `ClosedIsRemembered`, `ReindexEnds`,
`PlayerSettles`, `LoopListensAgain`), which are beyond the proof system.

## Where code and documents disagree

Six statements of the documentation are violated by what the code does.  The first
four need no impatient client; the first, second and fourth only need a background run
that takes longer than the player, the third two runs that fail and a stream that is
interrupted, the fifth a slow request and a retry, the sixth a page reloaded in the
middle of a conversation.

1. **Guidance is used twice** (`GuidanceIsUsedOnce`).
   `docs/GAME_MASTER_CONTRACT.md:44`: pending guidance is "consumed at most once".  A
   run saves its plan, then its notes.  A turn that reads the session before the
   notes and the row after the plan consumes the plan and, having seen no notes,
   does not clear them; the next turn falls back to them.
2. **Progression goes back** (`ProgressionOnlyIncreases`).
   `docs/GAME_MASTER_CONTRACT.md:101`: progression changes only on "increase".  The
   upsert has no merge rule for it, and a turn's read-modify-write of the counter
   undoes an increase saved in between.
3. **A plan comes late** (`PlanIsForThisTurn`).
   `docs/GAME_MASTER_CONTRACT.md:93`: the latest result is "retained only for the
   immediately following matching Avatar turn".  Without a row (the initial run failed)
   a turn takes its index from its stored messages, that of an interrupted turn
   included, and afterwards from the counter, which has not counted that turn.  The
   plan made after index 2 waits while a second turn of index 2 is answered and its
   run fails, and serves the turn after it.
4. **An unlock is lost** (`UnlocksAreKept`).  `docs/TEST_COVERAGE_PLAN.md:71`: unlock
   state changes only through GM unlocks.  Two overlapping runs write the whole
   column from their own snapshots.
5. **An utterance runs twice** (`AtMostOnce`).  `docs/TEST_COVERAGE_PLAN.md:44`: it "can
   execute at most once", expired reservations included, and
   `application/ports/IUtteranceIdempotencyStore.ts:33` rules out reuse after expiry.
   Nothing renews the 30 s reservation while the transcription and the reply, each
   with a timeout of 30 s, go on; once it is gone, a retry claims the utterance.  The
   Redis store's unit test "fails safe when an in-flight reservation expires" accepts
   that claim; the test of the same name for the in-memory store of the same port
   requires `expired` for good.
6. **A conversation of the session before** (`ConversationIsOfSession`).
   `apps/web/src/discovery/use-scenario-avatar-discovery.ts:35`: restarting begins a
   fresh session.  `use-active-chat-runtime.ts:263` clears, whenever the session changes,
   the flag that the remembered conversation was restored, and the conversation
   remembered when the page was loaded (`GuidedExperience.tsx:20`) never changes; so
   the effect at line 280 restores it again, in the new session.

## Observations

What the models show or the code does, without a statement that it contradicts:

- The processing flag is one per session: of two runs that overlap the first to end
  clears it while the other still executes, although
  `application/ports/ISessionEventPublisher.ts:13` says it is true while a run executes.
- An avatar refresh that is answered after a later one hides an unlock, and an unlock whose
  run fails before telling it stays hidden, until the next event or reconnection.
- A cue is published once: what is lost between Core and the page is not shown
  later.
- The microphone that is turned off while the browser still asks for it stays open
  until the conversation ends.
- A source ingested between an operation's listing and its promotion is ready and not
  served until it is ingested again; a source deleted meanwhile makes the operation's
  counts differ, and it fails validation for good.
- Ingestion jobs that run when the server stops stay `running`.
- The episode of a closed conversation is lost for good when `sessionRepository.update`
  throws after the close (`end-conversation.use-case.ts:68`), since the pipeline is only
  started below it, or when a store call of the generation does: the error is logged
  (`end-conversation.use-case.ts:164`, `switch-avatar.use-case.ts:239`).  A second request
  to end it is refused, because it is closed.
- A refresh that fails in the exchange it is due leaves a gap: the next one reads five
  exchanges, and one of six is in neither window.  An operator's clear does not wait for
  the chain.
- Two pages opened at once by a new visitor make two players.
- Handlers of the admin's `ScenarioDetailPage.tsx` write back what they read before
  their await.

## Not modelled

Prompt assembly, retrieval ranking, model selection and message text: data that no
property distinguishes.  Authentication, administration, inspection and health:
single reads and writes.  In the admin and console applications a form is one request.
Player tokens and the rate limiter are one atomic step each.  Of knowledge: drafts and
blocked sources, chunk metadata, the query embedding cache.  Of memory: limits on the
number of episodes, whose content is data.  Of the web player: drafts of a reply that
streams in, banners, the screens without state, sessions that Core closes, a list of
scenarios that fails and is asked for again.  Voice submissions that are refused before the reservation, which change nothing, and the
in-memory utterance store of a server without Redis (single steps without awaits).
The session's deletion and its `archived` status (no code sets it).  A database
statement that takes effect although its caller sees an error (for Redis commands of
the voice turn it is modelled).  A second fault while the first is handled: that
`failOperation`, called in the `catch` of a reindex, itself throws
(`ReindexEnds` leaves it out).

## Plan

Done: the session runtime, the voice turn, memory, the knowledge corpus, and the web
player's chat, voice, media and discovery, in this order.

Left, in this order:

1. Sessions that Core closes, seen by the player; the replay of media cues from history.
2. Algorithms: override precedence, rate limiter windows, checked against reference
   definitions.
3. The admin's scenario page, whose handlers share state across awaits.
