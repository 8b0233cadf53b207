------------------------ MODULE MemoryCover_proofs -------------------------
(***************************************************************************)
(* What the memories of SessionMemory hold, for one client and any number   *)
(* of conversations, turns, requests and refreshes: no prompt misses an     *)
(* exchange of its conversation, and an episode was made from all the       *)
(* exchanges of the conversation that closed.                               *)
(*                                                                          *)
(* The first is by coverage in rounds of RefreshEvery exchanges: all but    *)
(* the last round are in the working memory, or all but the last two while  *)
(* the refresh that is due is still to end, and the windows hold two        *)
(* rounds.  The second follows the exchanges from the working memory and    *)
(* the refresh's window into the close pipeline and into the episode.       *)
(***************************************************************************)
EXTENDS Memory_proofs, FiniteSetTheorems

-----------------------------------------------------------------------------
(* Exchanges and their numbers. *)

(* Two rounds are at their end RefreshEvery exchanges apart.                *)
(* Rounds end RefreshEvery exchanges apart.                                *)
LEMMA Remainders ==
  ASSUME NEW e \in Nat \ {0}
  PROVE  /\ 0 % e = 0
         /\ \A d \in Nat : d % e = 0 => (d + e) % e = 0
<1>1. 0 % e = 0
  OBVIOUS
<1>2. ASSUME NEW d \in Nat, d % e = 0 PROVE (d + e) % e = 0
  <2>1. d = e * (d \div e) + (d % e) /\ d \div e \in Int
    OBVIOUS
  <2>2. PICK q \in Int : d = e * q
    BY <1>2, <2>1
  <2>3. d + e = e * (q + 1)
    BY <2>2
  <2>4. (d + e) = e * ((d + e) \div e) + ((d + e) % e) /\ (d + e) \div e \in Int /\ (d + e) % e \in 0..(e - 1)
    OBVIOUS
  <2>5. PICK z \in Int, s \in 0..(e-1) : e * (q + 1) = e * z + s /\ s = (d + e) % e
    BY <2>3, <2>4
  <2>6. PICK y \in Int : y = q + 1 - z
    BY <2>2
  <2>7. e * y = s
    BY <2>2, <2>5, <2>6
  <2>8. y >= 1 => e * y >= e
    BY <2>6
  <2>9. y <= -1 => e * y < 0
    BY <2>6
  <2>10. y = 0
    BY <2>7, <2>8, <2>9
  <2> QED BY <2>5, <2>7, <2>10
<1> QED BY <1>1, <1>2

(* A request at one of the steps of a deletion; a turn at one of the steps  *)
(* on conversation c; the refreshes that turns of c asked for and that are  *)
(* still to end.                                                            *)
(* A reset that is at one of the steps; a turn on c that is; the refreshes  *)
(* that turns on c asked for and that are still to end.                     *)
Deleting(steps) == \E o \in Ops : op[o].pc \in steps
TurnOn(c, steps) == \E t \in Turns : turn[t].pc \in steps /\ turn[t].conv = c
PostTurn(c) == {r \in LiveOf(c) : refresh[r].trigger = "post_turn"}

(* A conversation of n exchanges, and maybe a message that has no answer.    *)
Spoke(m, n) ==
  /\ Len(m) \in {2 * n, 2 * n + 1}
  /\ ExchangeEnds(m) = {2 * k : k \in 1..n}
  /\ Len(m) = 2 * n + 1 => m[2 * n + 1] = "user"

(* It has had n exchanges.                                                  *)
LEMMA SpokeCount ==
  ASSUME NEW m, NEW n \in Nat, Spoke(m, n)
  PROVE  Cardinality(ExchangeEnds(m)) = n
<1> DEFINE f == [k \in 1..n |-> 2 * k]
<1>1. f \in [1..n -> ExchangeEnds(m)]
  BY DEF Spoke
<1>2. \A j, k \in 1..n : f[j] = f[k] => j = k
  OBVIOUS
<1>3. \A i \in ExchangeEnds(m) : \E k \in 1..n : f[k] = i
  BY DEF Spoke
<1>4. f \in Bijection(1..n, ExchangeEnds(m))
  BY <1>1, <1>2, <1>3 DEF Bijection, Injection, Surjection, IsInjective
<1>5. IsFiniteSet(1..n) /\ Cardinality(1..n) = n
  BY FS_Interval
<1> QED BY <1>4, <1>5, FS_Bijection DEF ExistsBijection

(* A message of the user begins an exchange.                                *)
LEMMA SpokeAsks ==
  ASSUME NEW m \in Seq(Roles), NEW n \in Nat, Spoke(m, n), Len(m) = 2 * n
  PROVE  /\ Spoke(Append(m, "user"), n) /\ Len(Append(m, "user")) = 2 * n + 1
         /\ ExchangeEnds(Append(m, "user")) = ExchangeEnds(m)
<1>1. PICK a : a = Append(m, "user")
  BY Zenon
<1>2. Len(a) = 2 * n + 1 /\ a[2 * n + 1] = "user" /\ \A i \in 1..(2 * n) : a[i] = m[i]
  BY <1>1 DEF Roles
<1>3. ExchangeEnds(a) = ExchangeEnds(m)
  BY <1>2 DEF ExchangeEnds
<1> QED BY <1>1, <1>2, <1>3 DEF Spoke

(* A reply ends it.                                                         *)
LEMMA SpokeAnswers ==
  ASSUME NEW m \in Seq(Roles), NEW n \in Nat, Spoke(m, n), Len(m) = 2 * n + 1
  PROVE  /\ Spoke(Append(m, "avatar"), n + 1) /\ Len(Append(m, "avatar")) = 2 * n + 2
         /\ ExchangeEnds(Append(m, "avatar")) = ExchangeEnds(m) \cup {2 * n + 2}
<1>1. PICK a : a = Append(m, "avatar")
  BY Zenon
<1>2. /\ Len(a) = 2 * n + 2 /\ a[2 * n + 2] = "avatar" /\ m[2 * n + 1] = "user"
      /\ \A i \in 1..(2 * n + 1) : a[i] = m[i]
  BY <1>1 DEF Roles, Spoke
<1>3. ExchangeEnds(a) = ExchangeEnds(m) \cup {2 * n + 2}
  BY <1>2 DEF ExchangeEnds
<1>4. \A i : i \in {2 * k : k \in 1..(n + 1)} <=> i \in {2 * k : k \in 1..n} \cup {2 * n + 2}
  <2>1. ASSUME NEW k \in 1..(n + 1) PROVE 2 * k \in {2 * j : j \in 1..n} \cup {2 * n + 2}
    <3>1. CASE k = n + 1
      BY <3>1
    <3>2. CASE k # n + 1
      <4>1. k \in 1..n
        BY <3>2
      <4> QED BY <4>1
    <3> QED BY <3>1, <3>2
  <2>2. \A k \in 1..n : k \in 1..(n + 1)
    OBVIOUS
  <2>3. n + 1 \in 1..(n + 1) /\ 2 * (n + 1) = 2 * n + 2
    OBVIOUS
  <2> QED BY <2>1, <2>2, <2>3
<1>5. ExchangeEnds(a) = {2 * k : k \in 1..(n + 1)}
  BY <1>3, <1>4 DEF Spoke
<1>6. Len(a) = 2 * (n + 1) /\ Len(a) # 2 * (n + 1) + 1
  BY <1>2
<1>7. Spoke(a, n + 1)
  BY <1>5, <1>6 DEF Spoke
<1> QED BY <1>1, <1>2, <1>3, <1>7

(* A window reaches an exchange if it is as long as what was said since.    *)
LEMMA SpokeWindow ==
  ASSUME NEW m, NEW n \in Nat, Spoke(m, n), NEW w \in Nat, NEW k \in 1..n, Len(m) < 2 * k - 1 + w
  PROVE  2 * k \in InWindow(m, w)
BY DEF Spoke, InWindow

-----------------------------------------------------------------------------
(* The phases of openings and resets. *)

(* Nothing has been said, nor will be by a turn that has begun; or no more  *)
(* than one exchange.                                                       *)
Untouched(c) == log[c] = <<>> /\ ~TurnOn(c, {"waiting", "asking", "finishing"})
Short(c) ==
  /\ Len(log[c]) <= 2
  /\ TurnOn(c, {"asking"}) => Len(log[c]) <= 1
  /\ TurnOn(c, {"waiting"}) => log[c] = <<>>

(* A conversation is untouched until the request that opens it is done with *)
(* its memory.  A reset that has deleted the messages leaves conversations  *)
(* in which a late turn may speak once; after it deleted the conversations  *)
(* those that exist are new.  A turn that builds its prompt, or has, leaves *)
(* no refresh of an earlier turn behind.                                    *)
PhaseInv ==
  /\ \A c \in Convs \ Created : Untouched(c)
  /\ \A o \in Ops : \A c \in Existing :
       op[o].pc \in {"recall", "hydrate"} /\ op[o].conv = c => Untouched(c)
  /\ Deleting({"episodes", "rows"}) => \A c \in Existing : Untouched(c)
  /\ Deleting({"conversations"}) => \A c \in Existing : Short(c)
  /\ \A c \in Convs : TurnOn(c, {"asking", "finishing"}) => PostTurn(c) = {}

(* What Execute changes, for the turns that wait for it.                    *)
LEMMA Asked ==
  ASSUME MemoryTypeInv, ChainInv, NEW c \in Convs, NEW trigger \in Triggers,
         NEW promoting \in BOOLEAN, Execute(c, trigger, promoting)
  PROVE  /\ \A r \in RefreshIds : r # issued' => refresh'[r] = refresh[r]
         /\ issued' \in RefreshIds /\ ~Live(issued') /\ refresh'[issued'].pc = "queued"
         /\ refresh'[issued'].conv = c /\ refresh'[issued'].trigger = trigger
         /\ \A d \in Convs : PostTurn(d)' =
              IF d = c /\ trigger = "post_turn" THEN PostTurn(d) \cup {issued'} ELSE PostTurn(d)
<1>0. PICK n \in RefreshIds : n = issued + 1 /\ n = issued'
  BY ExecuteIsOf DEF MemoryTypeInv
<1>1. /\ refresh'[n].pc = "queued" /\ refresh'[n].conv = c
      /\ \A r \in RefreshIds : r # n => refresh'[r] = refresh[r]
  BY <1>0, ExecuteIsOf DEF MemoryTypeInv
<1>2. refresh'[n].trigger = trigger
  <2>1. refresh'[n] = [NoRefresh EXCEPT !.pc = "queued", !.conv = c, !.prior = pending[c],
                                        !.trigger = trigger]
    BY <1>0 DEF Execute, MemoryTypeInv, CallInv
  <2>2. QED
    BY <2>1 DEF NoRefresh
<1>3. ~Live(n)
  BY <1>0, AwaitTypes DEF ChainInv
<1>4. ASSUME NEW d \in Convs
      PROVE  PostTurn(d)' =
               IF d = c /\ trigger = "post_turn" THEN PostTurn(d) \cup {n} ELSE PostTurn(d)
  BY <1>1, <1>2, <1>3 DEF PostTurn, LiveOf, Live
<1> QED BY <1>0, <1>1, <1>2, <1>3, <1>4

(* A step that says nothing and opens, deletes and asks for nothing.        *)
LEMMA PhaseKept ==
  ASSUME PhaseInv, UNCHANGED <<log, turn>>, Existing' \subseteq Existing, Created' = Created,
         \A o \in Ops : op'[o].pc \in {"recall", "hydrate"} =>
           op[o].pc \in {"recall", "hydrate"} /\ op'[o].conv = op[o].conv,
         Deleting({"episodes", "rows"})' => Deleting({"episodes", "rows"}),
         Deleting({"conversations"})' => Deleting({"conversations"}),
         \A c \in Convs : PostTurn(c)' \subseteq PostTurn(c)
  PROVE  PhaseInv'
<1>1. \A c, S : TurnOn(c, S)' <=> TurnOn(c, S)
  BY DEF TurnOn
<1>2. \A c : (Untouched(c)' <=> Untouched(c)) /\ (Short(c)' <=> Short(c))
  BY <1>1 DEF Untouched, Short
<1>3. \A c \in (Convs \ Created)' : Untouched(c)'
  BY <1>2 DEF PhaseInv
<1>4. \A o \in Ops : \A c \in Existing' :
        op'[o].pc \in {"recall", "hydrate"} /\ op'[o].conv = c => Untouched(c)'
  BY <1>2 DEF PhaseInv
<1>5. Deleting({"episodes", "rows"})' => \A c \in Existing' : Untouched(c)'
  BY <1>2 DEF PhaseInv
<1>6. Deleting({"conversations"})' => \A c \in Existing' : Short(c)'
  BY <1>2 DEF PhaseInv
<1>7. \A c \in Convs : TurnOn(c, {"asking", "finishing"})' => PostTurn(c)' = {}
  BY <1>1 DEF PhaseInv
<1> QED BY <1>3, <1>4, <1>5, <1>6, <1>7 DEF PhaseInv

(* A turn builds its prompt after every refresh an earlier turn asked for.  *)
LEMMA NonePending ==
  ASSUME MemoryTypeInv, AwaitsInv, NEW t \in Turns, turn[t].pc = "waiting", Over(turn[t].awaits)
  PROVE  PostTurn(turn[t].conv) = {}
<1> SUFFICES ASSUME NEW r \in PostTurn(turn[t].conv) PROVE FALSE
  OBVIOUS
<1>1. r \in LiveOf(turn[t].conv) /\ r <= turn[t].awaits
  BY DEF AwaitsInv, PostTurn
<1>2. turn[t].awaits \notin LiveOf(turn[t].conv)
  BY AwaitTypes DEF Over, LiveOf, Live
<1> QED BY <1>1, <1>2, AwaitTypes DEF AwaitsInv, LiveOf

(* With one client there is only one turn to look at.                       *)
LEMMA OneTurn ==
  ASSUME OneClient, NEW t \in Turns
  PROVE  /\ \A c, S : TurnOn(c, S) <=> turn[t].pc \in S /\ turn[t].conv = c
         /\ \A c, S : TurnOn(c, S)' <=> turn'[t].pc \in S /\ turn'[t].conv = c
BY DEF OneClient, TurnOn

(* A step of a refresh asks for none.                                       *)
LEMMA RefreshPosts ==
  ASSUME MemoryTypeInv, NEW r \in RefreshIds, RefreshStep(r)
  PROVE  \A c \in Convs : PostTurn(c)' \subseteq PostTurn(c)
<1>1. refresh \in [RefreshIds -> Refresh]
  BY DEF MemoryTypeInv, CallInv
<1>2. \A q \in RefreshIds : q # r => refresh'[q] = refresh[q]
  BY <1>1 DEF RefreshStep, StartRefresh, ReadPriorMemory, RewriteMemory, RefreshFails, Settle
<1>3. refresh'[r].pc # "settled" => /\ Live(r) /\ refresh'[r].conv = refresh[r].conv
                                   /\ refresh'[r].trigger = refresh[r].trigger
  <2>1. Live(r)
    BY DEF RefreshStep, StartRefresh, ReadPriorMemory, RewriteMemory, RefreshFails, Live
  <2>2. CASE Settle(r)
    BY <1>1, <2>2 DEF Settle, Settled
  <2>3. CASE ReadPriorMemory(r)
    BY <1>1, <2>1, <2>3 DEF ReadPriorMemory, Refresh
  <2>4. CASE StartRefresh(r) /\ ~Settle(r)
    BY <1>1, <2>1, <2>4 DEF StartRefresh, Refresh
  <2> QED BY <2>2, <2>3, <2>4 DEF RefreshStep, RewriteMemory, RefreshFails
<1> QED BY <1>2, <1>3 DEF PostTurn, LiveOf, Live

(* A turn begins in a conversation that is open, and waits for refreshes.   *)
LEMMA TurnPhase ==
  ASSUME OneClient, MemoryTypeInv, ChainInv, AwaitsInv, PhaseInv, NEW t \in Turns, TurnStep(t)
  PROVE  PhaseInv'
<1>1. /\ turn \in [Turns -> Turn] /\ log \in [Convs -> Seq(Roles)]
      /\ UNCHANGED <<op, status>> /\ Existing' = Existing /\ Created' = Created
      /\ Deleting({"episodes", "rows"})' = Deleting({"episodes", "rows"})
      /\ Deleting({"conversations"})' = Deleting({"conversations"})
  BY DEF MemoryTypeInv, TurnInv, RowInv, TurnStep, BeginTurn, PrepareTurn, StoreReply, FinishTurn,
     TurnFails, rowVars, Existing, Created, Deleting
<1>2. CASE \E c \in Convs : BeginTurn(t, c)
  <2>1. PICK c \in Convs : BeginTurn(t, c)
    BY <1>2
  <2>2. /\ turn'[t].conv = c /\ turn'[t].pc = "waiting" /\ turn[t].pc = "idle"
        /\ UNCHANGED <<log, refresh>> /\ c \in Created /\ ~Unavailable(c)
    BY <1>1, <2>1 DEF BeginTurn, serviceVars, rowVars, Created
  <2>3. \A d : d # c => (Untouched(d) => Untouched(d)')
    BY <2>2, OneTurn DEF Untouched
  <2>4. ~Deleting({"episodes", "rows"}) /\ ~Deleting({"conversations"})
        /\ \A o \in Ops : ~(op[o].pc \in {"recall", "hydrate"} /\ op[o].conv = c)
    BY <2>2 DEF Unavailable, Deleting
  <2>5. \A d \in Convs : ~TurnOn(d, {"asking", "finishing"})'
    BY <2>2, OneTurn
  <2> QED BY <1>1, <2>2, <2>3, <2>4, <2>5 DEF PhaseInv
<1>3. CASE PrepareTurn(t) \/ StoreReply(t)
  <2>1. PICK c \in Convs : c = turn[t].conv /\ c \in Existing
    BY <1>3, ExistsIsExisting DEF PrepareTurn, StoreReply, Exists
  <2>2. /\ turn[t].pc \in {"waiting", "asking"} /\ turn'[t].conv = c
        /\ turn'[t].pc \in {"asking", "finishing"} /\ UNCHANGED refresh
        /\ \A d \in Convs : d # c => log'[d] = log[d]
    <3>1. turn[t] \in Turn
      BY <1>1
    <3>2. CASE PrepareTurn(t)
      <4>1. turn' = [turn EXCEPT ![t] = [@ EXCEPT !.pc = "asking", !.awaits = 0]]
            /\ turn[t].pc = "waiting" /\ UNCHANGED refresh
            /\ log' = [log EXCEPT ![c] = Append(@, "user")]
        BY <2>1, <3>2 DEF PrepareTurn, serviceVars
      <4>2. turn'[t].pc = "asking" /\ turn'[t].conv = c
        BY <1>1, <2>1, <3>1, <4>1 DEF Turn
      <4> QED BY <1>1, <4>1, <4>2
    <3>3. CASE StoreReply(t)
      <4>1. turn' = [turn EXCEPT ![t].pc = "finishing"]
            /\ turn[t].pc = "asking" /\ UNCHANGED refresh
            /\ log' = [log EXCEPT ![c] = Append(@, "avatar")]
        BY <2>1, <3>3 DEF StoreReply, GotoTurn, serviceVars
      <4>2. turn'[t].pc = "finishing" /\ turn'[t].conv = c
        BY <1>1, <2>1, <3>1, <4>1 DEF Turn
      <4> QED BY <1>1, <4>1, <4>2
    <3> QED BY <1>3, <3>2, <3>3
  <2>3. \A d \in Convs : d # c => (Untouched(d) => Untouched(d)') /\ (Short(d) => Short(d)')
    BY <2>1, <2>2, OneTurn DEF Untouched, Short
  <2>4. ~Untouched(c) /\ c \in Created
    BY <2>1, <2>2, OneTurn DEF Untouched, Existing, Created
  <2>5. ~Deleting({"episodes", "rows"})
        /\ \A o \in Ops : ~(op[o].pc \in {"recall", "hydrate"} /\ op[o].conv = c)
    BY <2>1, <2>4 DEF PhaseInv
  <2>6. Short(c) => Short(c)'
    <3>1. CASE PrepareTurn(t)
      <4>1. log'[c] = Append(log[c], "user") /\ turn[t].pc = "waiting" /\ turn'[t].pc = "asking"
        BY <1>1, <3>1, <2>1 DEF PrepareTurn, Turn
      <4>2. log[c] = <<>> => Len(log'[c]) = 1
        BY <4>1
      <4> QED BY <2>1, <2>2, <4>1, <4>2, OneTurn DEF Short
    <3>2. CASE StoreReply(t)
      <4>1. log'[c] = Append(log[c], "avatar") /\ turn[t].pc = "asking" /\ turn'[t].pc = "finishing"
        BY <1>1, <3>2, <2>1 DEF StoreReply, GotoTurn, Turn
      <4>2. Len(log'[c]) = Len(log[c]) + 1 /\ Len(log[c]) \in Nat
        BY <1>1, <2>1, <4>1 DEF Roles
      <4> QED BY <2>1, <2>2, <4>1, <4>2, OneTurn DEF Short
    <3> QED BY <1>3, <3>1, <3>2
  <2>7. PostTurn(c) = {}
    <3>1. CASE PrepareTurn(t)
      BY <2>1, <3>1, NonePending DEF PrepareTurn
    <3>2. CASE StoreReply(t)
      BY <2>1, <3>2, OneTurn DEF StoreReply, PhaseInv
    <3> QED BY <1>3, <3>1, <3>2
  <2>8. \A d \in Convs : PostTurn(d)' = PostTurn(d)
    BY <2>2 DEF PostTurn, LiveOf, Live
  <2>9. \A d \in Convs : TurnOn(d, {"asking", "finishing"})' => d = c
    BY <2>2, OneTurn
  <2>10. Existing \subseteq Convs
    BY DEF Existing
  <2> QED BY <1>1, <2>3, <2>4, <2>5, <2>6, <2>7, <2>8, <2>9, <2>10 DEF PhaseInv
<1>4. CASE FinishTurn(t) \/ TurnFails(t)
  <2>1. turn'[t].pc = "idle" /\ UNCHANGED log
    <3>1. turn' = [turn EXCEPT ![t] = IdleTurn] /\ UNCHANGED log
      BY <1>4 DEF FinishTurn, TurnFails, rowVars
    <3> QED BY <1>1, <3>1 DEF IdleTurn
  <2>2. \A c, S : "idle" \notin S => ~TurnOn(c, S)'
    BY <2>1, OneTurn
  <2>3. \A c : (Untouched(c) => Untouched(c)') /\ (Short(c) => Short(c)')
    BY <2>1, <2>2 DEF Untouched, Short
  <2> QED BY <1>1, <2>2, <2>3 DEF PhaseInv
<1> QED BY <1>2, <1>3, <1>4 DEF TurnStep

(* A step of a lifecycle request that deletes no messages, and opens none.  *)
LEMMA RequestPhase ==
  ASSUME PhaseInv, OpInv, NEW o \in Ops, NEW p, SetOp(o, p), UNCHANGED <<log, turn>>,
         Existing' \subseteq Existing, Created' = Created,
         p.pc \in {"recall", "hydrate"} => op[o].pc \in {"recall", "hydrate"} /\ p.conv = op[o].conv,
         p.pc \in {"episodes", "rows"} => op[o].pc \in {"episodes", "rows"},
         p.pc # "conversations",
         \A c \in Convs : PostTurn(c)' \subseteq PostTurn(c)
  PROVE  PhaseInv'
<1>1. op'[o] = p /\ \A q \in Ops : q # o => op'[q] = op[q]
  BY DEF SetOp, OpInv
<1>2. Deleting({"episodes", "rows"})' => Deleting({"episodes", "rows"})
  BY <1>1 DEF Deleting
<1>3. Deleting({"conversations"})' => Deleting({"conversations"})
  BY <1>1 DEF Deleting
<1>4. \A q \in Ops : op'[q].pc \in {"recall", "hydrate"} =>
           op[q].pc \in {"recall", "hydrate"} /\ op'[q].conv = op[q].conv
  BY <1>1
<1> QED BY <1>2, <1>3, <1>4, PhaseKept

(* A pipeline asks for a refresh, but not as a turn.                        *)
LEMMA PipelinePhase ==
  ASSUME MemoryTypeInv, ChainInv, NEW c \in Convs,
         NEW trigger \in {"avatar_switch", "conversation_closed"},
         RunBackgroundClosePipeline(c, trigger)
  PROVE  \A d \in Convs : PostTurn(d)' = PostTurn(d)
BY Asked DEF RunBackgroundClosePipeline, Triggers

(* A conversation that closes exists before and after.                      *)
LEMMA ClosePhase ==
  ASSUME MemoryTypeInv, NEW c, Close(c)
  PROVE  c \in Convs /\ Existing' = Existing /\ Created' = Created
<1>1. c \in Convs /\ c \in Existing /\ status' = [status EXCEPT ![c] = "closed"]
      /\ status[c] # "absent"
  BY ExistsIsExisting DEF Close, Exists
<1> QED BY <1>1 DEF Existing, Created, MemoryTypeInv, RowInv

(* The requests pass through their phases in order.                         *)
LEMMA OpPhase ==
  ASSUME MemoryTypeInv, ChainInv, PhaseInv, NEW o \in Ops, OpStep(o)
  PROVE  PhaseInv'
<1>1. /\ UNCHANGED turn /\ OpInv /\ op[o] \in Op
      /\ IdleOp.pc = "idle" /\ IdleOp.conv = 0 /\ op \in [Ops -> Op]
  BY DEF OpStep, MemoryTypeInv, OpInv, IdleOp
<1>2. ASSUME UNCHANGED <<status, refresh>>
      PROVE  /\ Existing' = Existing /\ Created' = Created
             /\ \A c \in Convs : PostTurn(c)' = PostTurn(c)
  BY <1>2 DEF Existing, Created, PostTurn, LiveOf, Live
<1>3. ASSUME NEW k \in AllKinds, FindActive(o, k) PROVE PhaseInv'
  <2>1. PICK p : SetOp(o, p) /\ p.pc \in {"create", "close"}
    <3>1. CASE ActiveConvs = {} /\ SetOp(o, [IdleOp EXCEPT !.pc = "create", !.kind = k])
      <4>1. [IdleOp EXCEPT !.pc = "create", !.kind = k].pc = "create"
        BY DEF IdleOp
      <4> QED BY <3>1, <4>1
    <3>2. CASE \E c \in Newest(ActiveConvs) :
                 SetOp(o, [IdleOp EXCEPT !.pc = "close", !.kind = k, !.previous = c])
      <4>1. \A c : [IdleOp EXCEPT !.pc = "close", !.kind = k, !.previous = c].pc = "close"
        BY DEF IdleOp
      <4> QED BY <3>2, <4>1
    <3> QED BY <1>3, <3>1, <3>2 DEF FindActive
  <2>2. UNCHANGED <<status, refresh, log>>
    BY <1>3 DEF FindActive, rowVars, serviceVars
  <2> QED BY <1>1, <1>2, <2>1, <2>2, RequestPhase
<1>4. CASE ClosePrevious(o) \/ EndConversation(o)
  <2>1. PICK p : SetOp(o, p) /\ p.pc \in {"create", "touch"}
    BY <1>1, <1>4 DEF ClosePrevious, EndConversation, Op
  <2>2. UNCHANGED log /\ Existing' = Existing /\ Created' = Created
    BY <1>4, ClosePhase DEF ClosePrevious, EndConversation
  <2>3. \A d \in Convs : PostTurn(d)' = PostTurn(d)
    <3>1. CASE ClosePrevious(o)
      BY <3>1, ClosePhase, PipelinePhase DEF ClosePrevious
    <3>2. CASE EndConversation(o)
      BY <3>2 DEF EndConversation, serviceVars, PostTurn, LiveOf, Live
    <3> QED BY <1>4, <3>1, <3>2
  <2> QED BY <1>1, <2>1, <2>2, <2>3, RequestPhase
<1>12. CASE PromoteEnded(o) \/ TouchSessionFails(o)
  <2>1. PICK p : SetOp(o, p) /\ p.pc \in {"done", "failed"}
    <3>1. CASE PromoteEnded(o)
      BY <3>1 DEF PromoteEnded, IdleOp
    <3>2. CASE TouchSessionFails(o)
      BY <1>1, <3>2 DEF TouchSessionFails, Op
    <3> QED BY <1>12, <3>1, <3>2
  <2>2. UNCHANGED <<status, log>>
    BY <1>12 DEF PromoteEnded, TouchSessionFails, rowVars
  <2>3. \A d \in Convs : PostTurn(d)' = PostTurn(d)
    <3>1. CASE PromoteEnded(o)
      BY <1>1, <3>1, PipelinePhase DEF PromoteEnded, OpInv
    <3>2. CASE TouchSessionFails(o)
      BY <3>2 DEF TouchSessionFails, serviceVars, PostTurn, LiveOf, Live
    <3> QED BY <1>12, <3>1, <3>2
  <2> QED BY <1>1, <2>1, <2>2, <2>3, RequestPhase DEF Existing, Created
<1>5. ASSUME NEW c \in Convs, CreateConversation(o, c) PROVE PhaseInv'
  <2>1. /\ status[c] = "absent" /\ status' = [status EXCEPT ![c] = "active"]
        /\ SetOp(o, [IdleOp EXCEPT !.pc = "recall", !.conv = c]) /\ UNCHANGED <<log, refresh>>
    BY <1>5 DEF CreateConversation, serviceVars
  <2>2. op'[o].pc = "recall" /\ op'[o].conv = c /\ \A q \in Ops : q # o => op'[q] = op[q]
    BY <1>1, <2>1 DEF SetOp, IdleOp
  <2>3. Existing' = Existing \cup {c} /\ Created' = Created \cup {c} /\ c \in Convs \ Created
    BY <2>1 DEF Existing, Created, MemoryTypeInv, RowInv
  <2>4. /\ \A d, S : TurnOn(d, S)' <=> TurnOn(d, S)
        /\ \A d \in Convs : PostTurn(d)' = PostTurn(d)
    BY <1>1, <2>1 DEF TurnOn, PostTurn, LiveOf, Live
  <2>5. \A d : (Untouched(d)' <=> Untouched(d)) /\ (Short(d)' <=> Short(d))
    BY <2>1, <2>4 DEF Untouched, Short
  <2>6. Untouched(c) /\ Short(c)
    <3>1. Untouched(c)
      BY <2>3 DEF PhaseInv
    <3> QED BY <3>1 DEF Untouched, Short, TurnOn
  <2>7. /\ Deleting({"episodes", "rows"})' => Deleting({"episodes", "rows"})
        /\ Deleting({"conversations"})' => Deleting({"conversations"})
    BY <2>2 DEF Deleting
  <2> QED BY <2>2, <2>3, <2>4, <2>5, <2>6, <2>7 DEF PhaseInv
<1>6. CASE ReadEpisodes(o) \/ Hydrate(o)
  <2>1. PICK p : SetOp(o, p) /\ (p.pc = "done" \/ (p.pc = "hydrate" /\ p.conv = op[o].conv))
    <3>1. CASE SetOp(o, [IdleOp EXCEPT !.pc = "done"])
      BY <3>1 DEF IdleOp
    <3>2. ASSUME NEW S, SetOp(o, [op[o] EXCEPT !.pc = "hydrate", !.seen = S])
          PROVE  \E p : SetOp(o, p) /\ p.pc = "hydrate" /\ p.conv = op[o].conv
      <4>1. /\ [op[o] EXCEPT !.pc = "hydrate", !.seen = S].pc = "hydrate"
            /\ [op[o] EXCEPT !.pc = "hydrate", !.seen = S].conv = op[o].conv
        BY <1>1 DEF Op
      <4> QED BY <3>2, <4>1
    <3>3. CASE ReadEpisodes(o)
      <4>1. PICK S : S = UNION {episode[c].seen : c \in {d \in Convs : episode[d].present}}
        BY Zenon
      <4>2. SetOp(o, [IdleOp EXCEPT !.pc = "done"])
            \/ SetOp(o, [op[o] EXCEPT !.pc = "hydrate", !.seen = S])
        BY <3>3, <4>1 DEF ReadEpisodes
      <4> QED BY <3>1, <3>2, <4>2
    <3>4. CASE Hydrate(o)
      BY <3>1, <3>4 DEF Hydrate
    <3> QED BY <1>6, <3>3, <3>4
  <2>2. op[o].pc \in {"recall", "hydrate"} /\ UNCHANGED <<status, refresh, log>>
    BY <1>6 DEF ReadEpisodes, Hydrate, rowVars, serviceVars
  <2> QED BY <1>1, <1>2, <2>1, <2>2, RequestPhase
<1>7. ASSUME NEW c \in Convs, LoadConversation(o, c) PROVE PhaseInv'
  <2>1. PICK p : SetOp(o, p) /\ p.pc = "close"
    <3>1. PICK p : p = [IdleOp EXCEPT !.pc = "close", !.kind = "end", !.previous = c]
      BY Zenon
    <3>2. SetOp(o, p)
      BY <1>7, <3>1 DEF LoadConversation
    <3>3. p.pc = "close"
      BY <3>1 DEF IdleOp
    <3> QED BY <3>2, <3>3
  <2>2. UNCHANGED <<status, refresh, log>>
    BY <1>7 DEF LoadConversation, rowVars, serviceVars
  <2> QED BY <1>1, <1>2, <2>1, <2>2, RequestPhase
<1>8. CASE DeleteMessages(o)
  <2>1. /\ \A c \in Convs : log'[c] = <<>>
        /\ SetOp(o, [IdleOp EXCEPT !.pc = "conversations", !.kind = "reset"])
        /\ UNCHANGED <<status, refresh>> /\ op[o].pc = "idle"
    BY <1>8 DEF DeleteMessages, serviceVars
  <2>2. op'[o].pc = "conversations" /\ \A q \in Ops : q # o => op'[q] = op[q]
    BY <1>1, <2>1 DEF SetOp, IdleOp
  <2>3. /\ \A d, S : TurnOn(d, S)' <=> TurnOn(d, S)
        /\ \A d \in Convs : PostTurn(d)' = PostTurn(d)
        /\ Existing' = Existing /\ Created' = Created
    BY <1>1, <2>1 DEF TurnOn, PostTurn, LiveOf, Live, Existing, Created
  <2>4. \A d \in Convs : (Untouched(d) => Untouched(d)') /\ Short(d)'
    BY <2>1, <2>3 DEF Untouched, Short
  <2>5. Deleting({"episodes", "rows"})' => Deleting({"episodes", "rows"})
    BY <2>2 DEF Deleting
  <2>6. Existing \subseteq Convs
    BY DEF Existing
  <2> QED BY <2>2, <2>3, <2>4, <2>5, <2>6 DEF PhaseInv
<1>9. CASE DeleteConversations(o)
  <2>1. /\ \A c \in Convs : log'[c] = <<>>
        /\ status' = [c \in Convs |-> IF status[c] = "absent" THEN "absent" ELSE "deleted"]
        /\ UNCHANGED refresh
    BY <1>9 DEF DeleteConversations, serviceVars
  <2>2. Existing' = {} /\ Created' = Created
    BY <2>1 DEF Existing, Created
  <2>3. /\ \A d, S : TurnOn(d, S)' <=> TurnOn(d, S)
        /\ \A d \in Convs : PostTurn(d)' = PostTurn(d)
    BY <1>1, <2>1 DEF TurnOn, PostTurn, LiveOf, Live
  <2>4. \A d \in Convs : Untouched(d) => Untouched(d)'
    BY <2>1, <2>3 DEF Untouched
  <2> QED BY <2>2, <2>3, <2>4 DEF PhaseInv
<1>10. CASE DeleteEpisodes(o) \/ DeleteWorking(o) \/ OpFails(o)
  <2>1. PICK p : SetOp(o, p) /\ (p.pc = "done" \/ (p.pc = "rows" /\ op[o].pc = "episodes"))
    <3>1. CASE DeleteEpisodes(o)
      BY <1>1, <3>1 DEF DeleteEpisodes, Op
    <3>2. CASE DeleteWorking(o) \/ OpFails(o)
      BY <3>2 DEF DeleteWorking, OpFails, IdleOp
    <3> QED BY <1>10, <3>1, <3>2
  <2>2. UNCHANGED <<status, refresh, log>>
    BY <1>10 DEF DeleteEpisodes, DeleteWorking, OpFails, rowVars, serviceVars
  <2> QED BY <1>1, <1>2, <2>1, <2>2, RequestPhase
<1>11. CASE AdminRefresh(o) \/ AdminClear(o)
  <2>1. PICK p : SetOp(o, p) /\ p.pc = "done"
    <3>1. PICK p : p = [IdleOp EXCEPT !.pc = "done"]
      BY Zenon
    <3>2. SetOp(o, p)
      BY <1>11, <3>1 DEF AdminRefresh, AdminClear
    <3> QED BY <3>1, <3>2 DEF IdleOp
  <2>2. UNCHANGED <<status, log>>
    BY <1>11 DEF AdminRefresh, AdminClear, rowVars
  <2>3. \A d \in Convs : PostTurn(d)' = PostTurn(d)
    <3>1. CASE AdminRefresh(o)
      <4>1. PICK c \in LatestConvs : Execute(c, "admin_trigger", FALSE)
        BY <3>1 DEF AdminRefresh
      <4>2. c \in Convs
        BY DEF LatestConvs, Newest, ActiveConvs
      <4> QED BY <4>1, <4>2, Asked DEF Triggers
    <3>2. CASE AdminClear(o)
      BY <3>2 DEF AdminClear, serviceVars, PostTurn, LiveOf, Live
    <3> QED BY <1>11, <3>1, <3>2
  <2> QED BY <1>1, <2>1, <2>2, <2>3, RequestPhase DEF Existing, Created
<1> QED BY <1>3, <1>4, <1>5, <1>6, <1>7, <1>8, <1>9, <1>10, <1>11, <1>12 DEF OpStep, LifecycleStep

(* With one client, requests keep out of each other's phases.               *)
LEMMA PhaseInvHolds ==
  ASSUME OneClient
  PROVE  MemorySpec => []PhaseInv
<1>1. MemoryInit => PhaseInv
  <2> SUFFICES ASSUME MemoryInit PROVE PhaseInv
    OBVIOUS
  <2>1. /\ \A c, S : "idle" \notin S => ~TurnOn(c, S)
        /\ \A S : "idle" \notin S => ~Deleting(S)
        /\ \A o \in Ops : op[o].pc = "idle"
    BY DEF MemoryInit, TurnOn, Deleting, IdleTurn, IdleOp
  <2>2. \A c \in Convs \ Created : c # 1 /\ log[c] = <<>>
    BY Bounds DEF MemoryInit, Created
  <2> QED BY <2>1, <2>2 DEF PhaseInv, Untouched
<1>2. MemoryTypeInv /\ ChainInv /\ AwaitsInv /\ PhaseInv /\ [MemoryNext]_memoryVars => PhaseInv'
  <2> SUFFICES ASSUME MemoryTypeInv, ChainInv, AwaitsInv, PhaseInv, [MemoryNext]_memoryVars
               PROVE  PhaseInv'
    OBVIOUS
  <2>1. ASSUME UNCHANGED <<log, turn, status, op>>,
               \A c \in Convs : PostTurn(c)' \subseteq PostTurn(c)
        PROVE  PhaseInv'
    BY <2>1, PhaseKept DEF Existing, Created, Deleting
  <2>2. ASSUME NEW r \in RefreshIds, RefreshStep(r) PROVE PhaseInv'
    <3>1. UNCHANGED <<log, turn, status, op>>
      BY <2>2 DEF RefreshStep, StartRefresh, ReadPriorMemory, RewriteMemory, Upsert, RefreshFails,
         rowVars
    <3> QED BY <2>1, <2>2, <3>1, RefreshPosts
  <2>3. ASSUME NEW r \in RefreshIds, PromotionStep(r) PROVE PhaseInv'
    <3>1. UNCHANGED <<log, turn, status, op, refresh>>
      BY <2>3 DEF PromotionStep, CheckEpisode, DraftEpisode, CreateEpisode, EpisodeFails,
         GotoPromotion, rowVars
    <3> QED BY <2>1, <3>1 DEF PostTurn, LiveOf, Live
  <2>4. ASSUME NEW o \in Ops, Restart(o) PROVE PhaseInv'
    <3>1. /\ \A r \in RefreshIds : ~Live(r)'
          /\ \A p \in Ops : op'[p].pc \in {"idle", "done"}
          /\ \A t \in Turns : turn'[t].pc = "idle" /\ UNCHANGED <<log, status>>
      BY <2>4 DEF Restart, NoRefresh, Settled, IdleTurn, IdleOp, Live, rowVars
    <3>2. /\ \A c, S : "idle" \notin S => ~TurnOn(c, S)'
          /\ ~Deleting({"episodes", "rows"})' /\ ~Deleting({"conversations"})'
      BY <3>1 DEF TurnOn, Deleting
    <3>3. Created' = Created /\ UNCHANGED log
      BY <2>4 DEF Created, Restart, rowVars
    <3> QED BY <3>1, <3>2, <3>3 DEF PhaseInv, Untouched
  <2>5. CASE UNCHANGED memoryVars
    BY <2>1, <2>5 DEF memoryVars, rowVars, serviceVars, PostTurn, LiveOf, Live
  <2> QED BY <2>2, <2>3, <2>4, <2>5, TurnPhase, OpPhase DEF MemoryNext
<1> QED BY <1>1, <1>2, MemoryTypeInvHolds, ChainInvHolds, AwaitsInvHolds, PTL DEF MemorySpec

-----------------------------------------------------------------------------
(* Coverage. *)

(* Every exchange up to the e-th was before the writer of the working       *)
(* memory, or is before the writer of the next, unless an operator's clear  *)
(* deleted it.                                                              *)
HeldTo(c, e) ==
  \A k \in 1..e :
    /\ <<c, 2 * k>> \in working[c].seen \cup cleared
    /\ \A r \in RefreshIds : refresh[r].pc = "rewriting" /\ refresh[r].conv = c
         => <<c, 2 * k>> \in refresh[r].seen \cup refresh[r].window \cup cleared

(* The refresh that is due after the d-th exchange is still to end.         *)
AwaitsRefresh(c, d) ==
  /\ TurnOn(c, {"finishing"}) \/ PostTurn(c) # {}
  /\ \A r \in PostTurn(c) : refresh[r].pc \in {"recalling", "rewriting"} =>
        \A k \in 1..d : d < k + RefreshEvery => <<c, 2 * k>> \in refresh[r].window

(* The conversation has had n exchanges, d of them in whole rounds.  The    *)
(* whole rounds are held, or the last of them awaits its refresh.           *)
CoveredTo(c, n, d) ==
  /\ Spoke(log[c], n)
  /\ Len(log[c]) = 2 * n + 1 <=> TurnOn(c, {"asking"})
  /\ d % RefreshEvery = 0 /\ d <= n /\ n < d + RefreshEvery
  /\ \/ HeldTo(c, d)
     \/ d = n /\ RefreshEvery <= d /\ HeldTo(c, d - RefreshEvery) /\ AwaitsRefresh(c, d)

Covered(c) == \E n, d \in Nat : CoveredTo(c, n, d)

(* A reset that has deleted the messages, and not yet the conversations,    *)
(* leaves memories of what is gone: nobody may rely on them.                *)
CoverInv ==
  ~restarted /\ ~Deleting({"conversations"}) => \A c \in Existing \ FaultyConvs : Covered(c)

(* A step that leaves the row alone and starts no writer.                   *)
LEMMA HeldKept ==
  ASSUME NEW c, working'[c].seen = working[c].seen, cleared \subseteq cleared',
         \A r \in RefreshIds : refresh'[r].pc = "rewriting" /\ refresh'[r].conv = c
           => refresh[r].pc = "rewriting" /\ refresh'[r] = refresh[r]
  PROVE  \A e : HeldTo(c, e) => HeldTo(c, e)'
BY DEF HeldTo

(* A step after which the due refresh is still to end.                      *)
LEMMA AwaitKept ==
  ASSUME NEW c, TurnOn(c, {"finishing"}) => TurnOn(c, {"finishing"})',
         PostTurn(c)' = PostTurn(c),
         \A r \in PostTurn(c) : refresh'[r].pc \in {"recalling", "rewriting"} =>
           refresh[r].pc \in {"recalling", "rewriting"} /\ refresh'[r].window = refresh[r].window
  PROVE  \A d : AwaitsRefresh(c, d) => AwaitsRefresh(c, d)'
BY DEF AwaitsRefresh

(* A step that says nothing.                                                *)
LEMMA CoverKept ==
  ASSUME NEW c, log'[c] = log[c], TurnOn(c, {"asking"})' <=> TurnOn(c, {"asking"}),
         NEW n \in Nat, NEW d \in Nat, CoveredTo(c, n, d),
         HeldTo(c, d) => HeldTo(c, d)',
         HeldTo(c, d - RefreshEvery) => HeldTo(c, d - RefreshEvery)' \/ HeldTo(c, d)',
         d = n /\ AwaitsRefresh(c, d) => AwaitsRefresh(c, d)' \/ HeldTo(c, d)'
  PROVE  Covered(c)'
<1>1. CoveredTo(c, n, d)'
  <2>1. HeldTo(c, d)' \/ (d = n /\ RefreshEvery <= d /\ HeldTo(c, d - RefreshEvery)'
                          /\ AwaitsRefresh(c, d)')
    BY DEF CoveredTo
  <2> QED BY <2>1 DEF CoveredTo
<1> QED BY <1>1 DEF Covered

(* A conversation without messages is covered.                              *)
LEMMA FreshIsCovered ==
  ASSUME NEW c, Untouched(c)'
  PROVE  Covered(c)'
<1>1. log'[c] = <<>> /\ ~TurnOn(c, {"asking"})'
  BY DEF Untouched, TurnOn
<1>2. Spoke(log'[c], 0)
  BY <1>1 DEF Spoke, ExchangeEnds
<1>3. RefreshEvery \in Nat \ {0} /\ 0 % RefreshEvery = 0
  BY Remainders, MemoryAssumption
<1>4. HeldTo(c, 0)'
  BY DEF HeldTo
<1>5. CoveredTo(c, 0, 0)'
  BY <1>1, <1>2, <1>3, <1>4 DEF CoveredTo
<1> QED BY <1>5 DEF Covered

(* The prompt's history and what a refresh reads both hold the exchanges    *)
(* of two rounds: of the round that awaits its refresh and of the next.     *)
Windows == 2 * RefreshEvery <= RefreshWindow /\ 2 * RefreshEvery <= HistoryWindow

(* What a refresh that starts now reads holds the last exchanges.           *)
LEMMA LastAreSeen ==
  ASSUME Windows, NEW c \in Convs, NEW n \in Nat, Spoke(log[c], n), Len(log[c]) = 2 * n,
         NEW k \in 1..n, n < k + RefreshEvery
  PROVE  <<c, 2 * k>> \in RefreshSees(c)
<1>1. RefreshEvery \in Nat /\ RefreshWindow \in Nat
  BY MemoryAssumption
<1>2. 2 * k \in InWindow(log[c], RefreshWindow)
  <2>1. Len(log[c]) < 2 * k - 1 + RefreshWindow
    BY <1>1 DEF Windows
  <2> QED BY <1>1, <2>1, SpokeWindow
<1> QED BY <1>2 DEF RefreshSees, PointsOf

(* What a step of the refresh r leaves alone.                               *)
LEMMA RefreshChanges ==
  ASSUME MemoryTypeInv, NEW r \in RefreshIds, RefreshStep(r)
  PROVE  /\ UNCHANGED <<log, status, turn, op, restarted, cleared, ended>>
         /\ Live(r) /\ refresh[r].conv \in Convs
         /\ \A q \in RefreshIds : q # r => refresh'[q] = refresh[q]
         /\ \A c : c # refresh[r].conv => working'[c] = working[c]
<1>1. Live(r)
  BY DEF RefreshStep, StartRefresh, ReadPriorMemory, RewriteMemory, RefreshFails, Live
<1>2. refresh[r].conv \in Convs
  BY <1>1, CallTypes DEF MemoryTypeInv
<1>3. \A q \in RefreshIds : q # r => refresh'[q] = refresh[q]
  BY DEF RefreshStep, StartRefresh, ReadPriorMemory, RewriteMemory, RefreshFails, Settle,
     MemoryTypeInv, CallInv
<1>4. UNCHANGED <<log, status, turn, op, restarted, cleared, ended>>
  BY DEF RefreshStep, StartRefresh, ReadPriorMemory, RewriteMemory, Upsert, RefreshFails, rowVars,
     historyVars
<1>5. \A c : c # refresh[r].conv => working'[c] = working[c]
  <2>1. CASE UNCHANGED working
    BY <2>1
  <2>2. CASE RewriteMemory(r)
    BY <2>2 DEF RewriteMemory, Upsert, MemoryTypeInv, RowInv
  <2> QED BY <2>1, <2>2 DEF RefreshStep, StartRefresh, ReadPriorMemory, RefreshFails, rowVars
<1> QED BY <1>1, <1>2, <1>3, <1>4, <1>5

(* A refresh that starts reads the messages, among them the round that is   *)
(* due.                                                                     *)
LEMMA StartCovers ==
  ASSUME Windows, MemoryTypeInv, ChainInv, PhaseInv, OneClient, NEW r \in RefreshIds,
         RefreshStep(r), StartRefresh(r), NEW c \in Convs, c = refresh[r].conv, Covered(c)
  PROVE  Covered(c)'
<1>1. /\ UNCHANGED <<log, turn, working, cleared>>
      /\ \A q \in RefreshIds : q # r => refresh'[q] = refresh[q]
      /\ refresh[r] \in Refresh /\ refresh[r].pc = "queued" /\ r \in LiveOf(c)
  BY RefreshChanges DEF StartRefresh, rowVars, MemoryTypeInv, CallInv, LiveOf
<1>2. PICK n \in Nat, d \in Nat : CoveredTo(c, n, d)
  BY DEF Covered
<1>3. /\ TurnOn(c, {"asking"})' <=> TurnOn(c, {"asking"})
      /\ TurnOn(c, {"finishing"})' <=> TurnOn(c, {"finishing"})
  BY <1>1 DEF TurnOn
<1>4. Cardinality(ExchangeEnds(log[c])) = n
  BY <1>2, SpokeCount DEF CoveredTo
<1>5. CASE Due(r, c)
  <2>1. PICK w : w = RefreshSees(c)
    BY Zenon
  <2>2. refresh' = [refresh EXCEPT ![r] = [@ EXCEPT !.pc = "recalling", !.prior = 0, !.window = w]]
    BY <1>5, <2>1 DEF StartRefresh
  <2>3. /\ refresh'[r].pc = "recalling" /\ refresh'[r].conv = c /\ refresh'[r].window = w
        /\ refresh'[r].trigger = refresh[r].trigger
    BY <1>1, <2>2 DEF Refresh, MemoryTypeInv, CallInv
  <2>4. PostTurn(c)' = PostTurn(c)
    BY <1>1, <2>3 DEF PostTurn, LiveOf, Live
  <2>5. \A e : HeldTo(c, e) => HeldTo(c, e)'
    BY <1>1, <2>3, HeldKept
  <2>6. ASSUME d = n, AwaitsRefresh(c, d) PROVE AwaitsRefresh(c, d)'
    <3>1. ~TurnOn(c, {"asking"})
      BY <2>6 DEF AwaitsRefresh, PhaseInv, OneClient, TurnOn
    <3>2. Spoke(log[c], n) /\ Len(log[c]) = 2 * n
      BY <1>2, <3>1 DEF CoveredTo, Spoke
    <3>3. ASSUME NEW k \in 1..d, d < k + RefreshEvery PROVE <<c, 2 * k>> \in w
      BY <2>1, <2>6, <3>2, <3>3, LastAreSeen
    <3>4. \A q \in PostTurn(c)' : refresh'[q].pc \in {"recalling", "rewriting"} =>
            \A k \in 1..d : d < k + RefreshEvery => <<c, 2 * k>> \in refresh'[q].window
      BY <1>1, <2>3, <2>4, <2>6, <3>3 DEF AwaitsRefresh, PostTurn, LiveOf
    <3> QED BY <1>3, <2>4, <2>6, <3>4 DEF AwaitsRefresh
  <2> QED BY <1>1, <1>2, <1>3, <2>5, <2>6, CoverKept
<1>6. CASE ~Due(r, c)
  <2>1. refresh[r].trigger = "post_turn" /\ n % RefreshEvery # 0 /\ Settle(r)
    BY <1>4, <1>6 DEF Due, StartRefresh
  <2>2. d # n
    BY <1>2, <2>1 DEF CoveredTo
  <2>3. refresh'[r].pc = "settled"
    BY <2>1, SettleIsOf DEF MemoryTypeInv
  <2>4. \A e : HeldTo(c, e) => HeldTo(c, e)'
    BY <1>1, <2>3, HeldKept
  <2> QED BY <1>1, <1>2, <1>3, <2>2, <2>4, CoverKept
<1> QED BY <1>5, <1>6

(* Its prior memory holds the rounds before.                                *)
LEMMA ReadCovers ==
  ASSUME MemoryTypeInv, ChainInv, NEW r \in RefreshIds, RefreshStep(r), ReadPriorMemory(r),
         NEW c \in Convs, c = refresh[r].conv, Covered(c)
  PROVE  Covered(c)'
<1>1. /\ UNCHANGED <<log, turn, working, cleared>>
      /\ \A q \in RefreshIds : q # r => refresh'[q] = refresh[q]
      /\ refresh[r] \in Refresh /\ refresh[r].pc = "recalling"
  BY RefreshChanges DEF ReadPriorMemory, rowVars, MemoryTypeInv, CallInv
<1>2. PICK n \in Nat, d \in Nat : CoveredTo(c, n, d)
  BY DEF Covered
<1>3. /\ TurnOn(c, {"asking"})' <=> TurnOn(c, {"asking"})
      /\ TurnOn(c, {"finishing"})' <=> TurnOn(c, {"finishing"})
  BY <1>1 DEF TurnOn
<1>4. PICK s : s = working[c].seen
  BY Zenon
<1>5. refresh' = [refresh EXCEPT ![r] = [@ EXCEPT !.pc = "rewriting", !.seen = s]]
  BY <1>4 DEF ReadPriorMemory
<1>6. /\ refresh'[r].pc = "rewriting" /\ refresh'[r].conv = c /\ refresh'[r].seen = s
      /\ refresh'[r].window = refresh[r].window /\ refresh'[r].trigger = refresh[r].trigger
  BY <1>1, <1>5 DEF Refresh, MemoryTypeInv, CallInv
<1>7. PostTurn(c)' = PostTurn(c)
  BY <1>1, <1>6 DEF PostTurn, LiveOf, Live
<1>8. \A e : HeldTo(c, e) => HeldTo(c, e)'
  BY <1>1, <1>4, <1>6 DEF HeldTo
<1>9. \A q \in PostTurn(c) : refresh'[q].pc \in {"recalling", "rewriting"} =>
        refresh[q].pc \in {"recalling", "rewriting"} /\ refresh'[q].window = refresh[q].window
  BY <1>1, <1>6 DEF PostTurn, LiveOf
<1>10. \A e : AwaitsRefresh(c, e) => AwaitsRefresh(c, e)'
  BY <1>3, <1>7, <1>9, AwaitKept
<1> QED BY <1>1, <1>2, <1>3, <1>8, <1>10, CoverKept

(* What it writes holds both.                                               *)
LEMMA RewriteCovers ==
  ASSUME MemoryTypeInv, ChainInv, NEW r \in RefreshIds, RefreshStep(r), RewriteMemory(r),
         NEW c \in Convs, c = refresh[r].conv, Covered(c)
  PROVE  Covered(c)'
<1>1. /\ UNCHANGED <<log, turn, cleared>>
      /\ \A q \in RefreshIds : q # r => refresh'[q] = refresh[q]
      /\ refresh[r].pc = "rewriting" /\ Settle(r)
  BY RefreshChanges DEF RewriteMemory
<1>2. PICK n \in Nat, d \in Nat : CoveredTo(c, n, d)
  BY DEF Covered
<1>3. /\ TurnOn(c, {"asking"})' <=> TurnOn(c, {"asking"})
      /\ TurnOn(c, {"finishing"})' <=> TurnOn(c, {"finishing"})
  BY <1>1 DEF TurnOn
<1>4. refresh'[r].pc = "settled"
  BY <1>1, SettleIsOf DEF MemoryTypeInv
<1>5. working'[c].seen = refresh[r].seen \cup refresh[r].window
  BY DEF RewriteMemory, Upsert, MemoryTypeInv, RowInv
<1>6. \A e : HeldTo(c, e) => HeldTo(c, e)'
  BY <1>1, <1>4, <1>5 DEF HeldTo
<1>7. ASSUME NEW q \in RefreshIds, refresh'[q].pc = "rewriting", refresh'[q].conv = c PROVE FALSE
  <2>1. q # r /\ refresh[q].pc = "rewriting" /\ refresh[q].conv = c
    BY <1>1, <1>4, <1>7
  <2>2. Earliest(q) /\ Earliest(r) /\ Live(q) /\ Live(r)
    BY <1>1, <2>1 DEF ChainInv, Live
  <2>3. q <= r /\ r <= q /\ q \in Nat /\ r \in Nat
    BY <2>1, <2>2, AwaitTypes DEF Earliest
  <2> QED BY <2>1, <2>3
<1>8. CASE r \in PostTurn(c)
  <2>1. ASSUME HeldTo(c, d - RefreshEvery), AwaitsRefresh(c, d), RefreshEvery <= d
        PROVE  HeldTo(c, d)'
    <3>1. RefreshEvery \in Nat
      BY MemoryAssumption
    <3>2. ASSUME NEW k \in 1..d PROVE <<c, 2 * k>> \in working'[c].seen \cup cleared'
      <4>1. CASE d < k + RefreshEvery
        BY <1>1, <1>5, <1>8, <2>1, <4>1 DEF AwaitsRefresh
      <4>2. CASE ~(d < k + RefreshEvery)
        <5>1. k \in 1..(d - RefreshEvery)
          BY <3>1, <4>2
        <5> QED BY <1>1, <1>5, <2>1, <5>1 DEF HeldTo
      <4> QED BY <4>1, <4>2
    <3> QED BY <1>7, <3>2 DEF HeldTo
  <2>2. HeldTo(c, d)'
    BY <1>2, <1>6, <2>1 DEF CoveredTo
  <2> QED BY <1>1, <1>2, <1>3, <2>2, CoverKept
<1>9. CASE r \notin PostTurn(c)
  <2>1. PostTurn(c)' = PostTurn(c)
    BY <1>1, <1>4, <1>9 DEF PostTurn, LiveOf, Live
  <2>2. \A q \in PostTurn(c) : refresh'[q].pc \in {"recalling", "rewriting"} =>
          refresh[q].pc \in {"recalling", "rewriting"} /\ refresh'[q].window = refresh[q].window
    BY <1>1, <1>9 DEF PostTurn, LiveOf
  <2>3. \A e : AwaitsRefresh(c, e) => AwaitsRefresh(c, e)'
    BY <1>3, <2>1, <2>2, AwaitKept
  <2> QED BY <1>1, <1>2, <1>3, <1>6, <2>3, CoverKept
<1> QED BY <1>8, <1>9

(* A step that leaves a conversation, its row and its refreshes alone.      *)
LEMMA ElsewhereCovers ==
  ASSUME NEW c \in Convs, Covered(c), log'[c] = log[c], working'[c] = working[c],
         cleared' = cleared,
         TurnOn(c, {"asking"})' <=> TurnOn(c, {"asking"}),
         TurnOn(c, {"finishing"}) => TurnOn(c, {"finishing"})',
         PostTurn(c)' = PostTurn(c),
         \A q \in RefreshIds :
           refresh'[q].pc \in {"recalling", "rewriting"} /\ refresh'[q].conv = c
           => refresh'[q] = refresh[q]
  PROVE  Covered(c)'
<1>1. PICK n \in Nat, d \in Nat : CoveredTo(c, n, d)
  BY DEF Covered
<1>2. \A e : HeldTo(c, e) => HeldTo(c, e)'
  BY HeldKept
<1>3. \A q \in PostTurn(c) : refresh'[q].pc \in {"recalling", "rewriting"} =>
        refresh[q].pc \in {"recalling", "rewriting"} /\ refresh'[q].window = refresh[q].window
  BY DEF PostTurn, LiveOf
<1>4. \A e : AwaitsRefresh(c, e) => AwaitsRefresh(c, e)'
  BY <1>3, AwaitKept
<1> QED BY <1>1, <1>2, <1>4, CoverKept

(* No step of a refresh uncovers a conversation.                            *)
LEMMA RefreshCovers ==
  ASSUME Windows, OneClient, MemoryTypeInv, ChainInv, PhaseInv, CoverInv,
         NEW r \in RefreshIds, RefreshStep(r)
  PROVE  CoverInv'
<1> SUFFICES ASSUME ~restarted', ~Deleting({"conversations"})', NEW c \in Existing' \ FaultyConvs
             PROVE  Covered(c)'
  BY DEF CoverInv
<1>1. /\ UNCHANGED <<log, status, turn, op, restarted, cleared>>
      /\ \A q \in RefreshIds : q # r => refresh'[q] = refresh[q]
      /\ \A d : d # refresh[r].conv => working'[d] = working[d]
  BY RefreshChanges
<1>2. c \in Existing \ FaultyConvs /\ c \in Convs /\ Covered(c)
  BY <1>1 DEF Existing, Deleting, CoverInv
<1>3. CASE refresh[r].conv = c
  <2>1. ~RefreshFails(r)
    BY <1>2, <1>3, ExistsIsExisting DEF RefreshFails
  <2> QED BY <1>2, <1>3, <2>1, StartCovers, ReadCovers, RewriteCovers DEF RefreshStep
<1>4. CASE refresh[r].conv # c
  <2>1. refresh'[r].conv = refresh[r].conv \/ refresh'[r].pc = "settled"
    <3>1. CASE Settle(r)
      BY <3>1, SettleIsOf DEF MemoryTypeInv
    <3>2. CASE ReadPriorMemory(r)
      BY <3>2 DEF ReadPriorMemory, MemoryTypeInv, CallInv, Refresh
    <3>3. CASE StartRefresh(r) /\ ~Settle(r)
      BY <3>3 DEF StartRefresh, MemoryTypeInv, CallInv, Refresh
    <3> QED BY <3>1, <3>2, <3>3 DEF RefreshStep, RewriteMemory, RefreshFails
  <2>2. PostTurn(c)' = PostTurn(c)
    BY <1>1, <1>4, <2>1 DEF PostTurn, LiveOf, Live
  <2>3. \A q \in RefreshIds :
           refresh'[q].pc \in {"recalling", "rewriting"} /\ refresh'[q].conv = c
           => refresh'[q] = refresh[q]
    BY <1>1, <1>4, <2>1
  <2>4. \A S : TurnOn(c, S)' <=> TurnOn(c, S)
    BY <1>1 DEF TurnOn
  <2> QED BY <1>1, <1>2, <1>4, <2>2, <2>3, <2>4, ElsewhereCovers
<1> QED BY <1>3, <1>4

(* A turn of a conversation leaves the others' messages, rows and refreshes *)
(* alone.                                                                   *)
LEMMA OtherTurnCovers ==
  ASSUME OneClient, MemoryTypeInv, ChainInv, NEW t \in Turns, TurnStep(t),
         NEW c \in Convs, Covered(c), BeginTurn(t, c) \/ turn[t].conv # c \/ turn[t].pc = "idle",
         c \in Existing
  PROVE  Covered(c)'
<1>1. /\ UNCHANGED <<working, cleared>> /\ turn \in [Turns -> Turn]
      /\ log \in [Convs -> Seq(Roles)] /\ turn[t] \in Turn
  BY DEF TurnStep, BeginTurn, PrepareTurn, StoreReply, FinishTurn, TurnFails, rowVars, historyVars,
     MemoryTypeInv, RowInv, TurnInv
<1>2. CASE \E e \in Convs : BeginTurn(t, e)
  <2>1. turn[t].pc = "idle" /\ turn'[t].pc = "waiting" /\ UNCHANGED <<log, refresh>>
    BY <1>1, <1>2 DEF BeginTurn, rowVars, serviceVars
  <2>2. \A S : "waiting" \notin S /\ "idle" \notin S => ~TurnOn(c, S)' /\ ~TurnOn(c, S)
    BY <2>1, OneTurn
  <2>3. PostTurn(c)' = PostTurn(c)
    BY <2>1 DEF PostTurn, LiveOf, Live
  <2> QED BY <1>1, <2>1, <2>2, <2>3, ElsewhereCovers
<1>3. CASE PrepareTurn(t) \/ StoreReply(t)
  <2>1. turn[t].conv # c /\ turn'[t].conv = turn[t].conv /\ log'[c] = log[c] /\ UNCHANGED refresh
    <3>1. turn[t].conv # c
      BY <1>3 DEF PrepareTurn, StoreReply, BeginTurn
    <3>2. CASE PrepareTurn(t)
      <4>1. turn' = [turn EXCEPT ![t] = [@ EXCEPT !.pc = "asking", !.awaits = 0]]
            /\ UNCHANGED refresh /\ log' = [log EXCEPT ![turn[t].conv] = Append(@, "user")]
        BY <3>2 DEF PrepareTurn, serviceVars
      <4> QED BY <1>1, <3>1, <4>1 DEF Turn
    <3>3. CASE StoreReply(t)
      <4>1. turn' = [turn EXCEPT ![t].pc = "finishing"]
            /\ UNCHANGED refresh /\ log' = [log EXCEPT ![turn[t].conv] = Append(@, "avatar")]
        BY <3>3 DEF StoreReply, GotoTurn, serviceVars
      <4> QED BY <1>1, <3>1, <4>1 DEF Turn
    <3> QED BY <1>3, <3>2, <3>3
  <2>2. \A S : ~TurnOn(c, S)' /\ ~TurnOn(c, S)
    BY <2>1, OneTurn
  <2>3. PostTurn(c)' = PostTurn(c)
    BY <2>1 DEF PostTurn, LiveOf, Live
  <2> QED BY <1>1, <2>1, <2>2, <2>3, ElsewhereCovers
<1>4. CASE FinishTurn(t) \/ TurnFails(t)
  <2>1. turn[t].conv # c /\ turn'[t].pc = "idle" /\ UNCHANGED log
    <3>1. turn' = [turn EXCEPT ![t] = IdleTurn] /\ UNCHANGED log /\ turn[t].conv # c
      BY <1>4 DEF FinishTurn, TurnFails, rowVars, BeginTurn
    <3> QED BY <1>1, <3>1 DEF IdleTurn
  <2>2. \A S : "idle" \notin S => ~TurnOn(c, S)' /\ ~TurnOn(c, S)
    BY <2>1, OneTurn
  <2>3. CASE FinishTurn(t)
    <3>1. PICK e \in Convs : e = turn[t].conv /\ Execute(e, "post_turn", FALSE) /\ e # c
      BY <2>1, <2>3 DEF FinishTurn, Exists
    <3>2. /\ \A q \in RefreshIds : q # issued' => refresh'[q] = refresh[q]
          /\ refresh'[issued'].pc = "queued" /\ PostTurn(c)' = PostTurn(c)
      BY <3>1, Asked DEF Triggers
    <3> QED BY <1>1, <2>1, <2>2, <3>2, ElsewhereCovers
  <2>4. CASE TurnFails(t)
    <3>1. UNCHANGED refresh
      BY <2>4 DEF TurnFails, serviceVars
    <3>2. PostTurn(c)' = PostTurn(c)
      BY <3>1 DEF PostTurn, LiveOf, Live
    <3> QED BY <1>1, <2>1, <2>2, <3>1, <3>2, ElsewhereCovers
  <2> QED BY <1>4, <2>3, <2>4
<1> QED BY <1>2, <1>3, <1>4 DEF TurnStep

(* The user's message is of no round yet.                                   *)
LEMMA PrepareCovers ==
  ASSUME OneClient, MemoryTypeInv, AwaitsInv, NEW t \in Turns, TurnStep(t), PrepareTurn(t),
         NEW c \in Convs, c = turn[t].conv, Covered(c)
  PROVE  Covered(c)'
<1>1. /\ turn' = [turn EXCEPT ![t] = [@ EXCEPT !.pc = "asking", !.awaits = 0]]
      /\ turn[t].pc = "waiting" /\ UNCHANGED <<refresh, working, cleared>>
      /\ log' = [log EXCEPT ![c] = Append(@, "user")] /\ turn[t] \in Turn
      /\ turn \in [Turns -> Turn] /\ log \in [Convs -> Seq(Roles)]
  BY DEF PrepareTurn, serviceVars, TurnStep, historyVars, MemoryTypeInv, TurnInv, RowInv
<1>2. turn'[t].pc = "asking" /\ turn'[t].conv = c
  BY <1>1 DEF Turn
<1>3. ~TurnOn(c, {"asking"}) /\ ~TurnOn(c, {"finishing"}) /\ TurnOn(c, {"asking"})'
  BY <1>1, <1>2, OneTurn
<1>4. PostTurn(c) = {}
  BY NonePending DEF PrepareTurn
<1>5. PICK n \in Nat, d \in Nat : CoveredTo(c, n, d)
  BY DEF Covered
<1>6. HeldTo(c, d) /\ Spoke(log[c], n) /\ Len(log[c]) = 2 * n
  BY <1>3, <1>4, <1>5 DEF CoveredTo, AwaitsRefresh, Spoke
<1>7. log'[c] = Append(log[c], "user") /\ log[c] \in Seq(Roles)
  BY <1>1
<1>8. Spoke(log'[c], n) /\ Len(log'[c]) = 2 * n + 1
  BY <1>6, <1>7, SpokeAsks
<1>9. HeldTo(c, d)'
  BY <1>1, <1>6, HeldKept
<1>10. CoveredTo(c, n, d)'
  BY <1>3, <1>5, <1>8, <1>9 DEF CoveredTo
<1> QED BY <1>10 DEF Covered

(* The reply that ends a round makes its refresh due.                       *)
LEMMA ReplyCovers ==
  ASSUME OneClient, MemoryTypeInv, PhaseInv, NEW t \in Turns, TurnStep(t), StoreReply(t),
         NEW c \in Convs, c = turn[t].conv, Covered(c)
  PROVE  Covered(c)'
<1>1. /\ turn' = [turn EXCEPT ![t].pc = "finishing"]
      /\ turn[t].pc = "asking" /\ UNCHANGED <<refresh, working, cleared>>
      /\ log' = [log EXCEPT ![c] = Append(@, "avatar")] /\ turn[t] \in Turn
      /\ turn \in [Turns -> Turn] /\ log \in [Convs -> Seq(Roles)]
  BY DEF StoreReply, GotoTurn, serviceVars, TurnStep, historyVars, MemoryTypeInv, TurnInv, RowInv
<1>2. turn'[t].pc = "finishing" /\ turn'[t].conv = c
  BY <1>1 DEF Turn
<1>3. /\ TurnOn(c, {"asking"}) /\ ~TurnOn(c, {"finishing"}) /\ ~TurnOn(c, {"asking"})'
      /\ TurnOn(c, {"finishing"})' /\ TurnOn(c, {"asking", "finishing"})
  BY <1>1, <1>2, OneTurn
<1>4. PostTurn(c) = {}
  BY <1>3 DEF PhaseInv
<1>5. PICK n \in Nat, d \in Nat : CoveredTo(c, n, d)
  BY DEF Covered
<1>6. HeldTo(c, d) /\ Spoke(log[c], n) /\ Len(log[c]) = 2 * n + 1
  BY <1>3, <1>4, <1>5 DEF CoveredTo, AwaitsRefresh
<1>7. log'[c] = Append(log[c], "avatar") /\ log[c] \in Seq(Roles)
  BY <1>1
<1>8. Spoke(log'[c], n + 1) /\ Len(log'[c]) = 2 * (n + 1)
  <2>1. PICK m \in Seq(Roles) : m = log[c]
    BY <1>7
  <2>2. Spoke(Append(m, "avatar"), n + 1) /\ Len(Append(m, "avatar")) = 2 * n + 2
    BY <1>6, <2>1, SpokeAnswers
  <2>3. 2 * n + 2 = 2 * (n + 1)
    OBVIOUS
  <2> QED BY <1>7, <2>1, <2>2, <2>3
<1>9. HeldTo(c, d)' /\ PostTurn(c)' = {}
  BY <1>1, <1>4, <1>6, HeldKept DEF PostTurn, LiveOf, Live
<1>10. RefreshEvery \in Nat \ {0} /\ d % RefreshEvery = 0 /\ d <= n /\ n < d + RefreshEvery
  BY <1>5, MemoryAssumption DEF CoveredTo
<1>11. CASE n + 1 < d + RefreshEvery
  <2>1. CoveredTo(c, n + 1, d)'
    BY <1>3, <1>8, <1>9, <1>10, <1>11 DEF CoveredTo
  <2> QED BY <2>1 DEF Covered
<1>12. CASE ~(n + 1 < d + RefreshEvery)
  <2>1. PICK e \in Nat : e = d + RefreshEvery
    BY <1>10
  <2>2. e % RefreshEvery = 0
    BY <1>10, <2>1, Remainders
  <2>6. e = n + 1 /\ RefreshEvery <= e /\ e - RefreshEvery = d /\ n + 1 < e + RefreshEvery
    BY <1>10, <1>12, <2>1
  <2>3. AwaitsRefresh(c, e)'
    BY <1>3, <1>9 DEF AwaitsRefresh
  <2>4. HeldTo(c, e - RefreshEvery)'
    BY <1>9, <2>6
  <2>5. CoveredTo(c, n + 1, e)'
    BY <1>3, <1>8, <2>2, <2>3, <2>4, <2>6 DEF CoveredTo
  <2> QED BY <2>5 DEF Covered
<1> QED BY <1>11, <1>12

(* The turn then asks for it.                                               *)
LEMMA FinishCovers ==
  ASSUME OneClient, MemoryTypeInv, ChainInv, PhaseInv, NEW t \in Turns, TurnStep(t), FinishTurn(t),
         NEW c \in Convs, c = turn[t].conv, Covered(c)
  PROVE  Covered(c)'
<1>1. /\ turn' = [turn EXCEPT ![t] = IdleTurn] /\ turn[t].pc = "finishing"
      /\ UNCHANGED <<log, working, cleared>> /\ turn \in [Turns -> Turn]
      /\ Execute(c, "post_turn", FALSE)
  BY DEF FinishTurn, rowVars, TurnStep, historyVars, MemoryTypeInv, TurnInv
<1>2. turn'[t].pc = "idle"
  BY <1>1 DEF IdleTurn
<1>3. /\ ~TurnOn(c, {"asking"}) /\ ~TurnOn(c, {"asking"})' /\ TurnOn(c, {"asking", "finishing"})
  BY <1>1, <1>2, OneTurn
<1>4. PostTurn(c) = {}
  BY <1>3 DEF PhaseInv
<1>5. /\ \A q \in RefreshIds : q # issued' => refresh'[q] = refresh[q]
      /\ refresh'[issued'].pc = "queued" /\ PostTurn(c)' = {issued'}
  BY <1>1, <1>4, Asked DEF Triggers
<1>6. \A e : HeldTo(c, e) => HeldTo(c, e)'
  BY <1>1, <1>5, HeldKept
<1>7. \A e : AwaitsRefresh(c, e)'
  BY <1>5 DEF AwaitsRefresh
<1>8. PICK n \in Nat, d \in Nat : CoveredTo(c, n, d)
  BY DEF Covered
<1> QED BY <1>1, <1>3, <1>6, <1>7, <1>8, CoverKept

(* No step of a turn uncovers a conversation.                               *)
LEMMA TurnCovers ==
  ASSUME OneClient, MemoryTypeInv, ChainInv, AwaitsInv, PhaseInv, CoverInv,
         NEW t \in Turns, TurnStep(t)
  PROVE  CoverInv'
<1> SUFFICES ASSUME ~restarted', ~Deleting({"conversations"})', NEW c \in Existing' \ FaultyConvs
             PROVE  Covered(c)'
  BY DEF CoverInv
<1>1. UNCHANGED <<op, restarted, status>>
  BY DEF TurnStep, BeginTurn, PrepareTurn, StoreReply, FinishTurn, TurnFails, rowVars
<1>2. c \in Existing \ FaultyConvs /\ c \in Convs /\ Covered(c)
  BY <1>1 DEF Existing, Deleting, CoverInv
<1>3. CASE turn[t].conv = c /\ turn[t].pc # "idle"
  <2>1. ~TurnFails(t) /\ ~\E e \in Convs : BeginTurn(t, e)
    BY <1>2, <1>3, ExistsIsExisting DEF TurnFails, BeginTurn
  <2> QED BY <1>2, <1>3, <2>1, PrepareCovers, ReplyCovers, FinishCovers DEF TurnStep
<1>4. CASE ~(turn[t].conv = c /\ turn[t].pc # "idle")
  BY <1>2, <1>4, OtherTurnCovers
<1> QED BY <1>3, <1>4

(* A request that leaves the messages, the rows and the refreshes alone, or *)
(* asks for a refresh that is not a turn's.                                 *)
LEMMA RequestCovers ==
  ASSUME MemoryTypeInv, ChainInv, NEW c \in Convs, Covered(c), UNCHANGED turn,
         log'[c] = log[c], working'[c] = working[c], cleared' = cleared,
         \/ UNCHANGED refresh
         \/ \E d \in Convs : \E trigger \in Triggers \ {"post_turn"} : \E promoting \in BOOLEAN :
              Execute(d, trigger, promoting)
  PROVE  Covered(c)'
<1>1. \A S : TurnOn(c, S)' <=> TurnOn(c, S)
  BY DEF TurnOn
<1>2. CASE UNCHANGED refresh
  <2>1. PostTurn(c)' = PostTurn(c)
    BY <1>2 DEF PostTurn, LiveOf, Live
  <2> QED BY <1>1, <1>2, <2>1, ElsewhereCovers
<1>3. ASSUME NEW d \in Convs, NEW trigger \in Triggers \ {"post_turn"}, NEW promoting \in BOOLEAN,
             Execute(d, trigger, promoting)
      PROVE  Covered(c)'
  <2>1. /\ \A q \in RefreshIds : q # issued' => refresh'[q] = refresh[q]
        /\ refresh'[issued'].pc = "queued" /\ PostTurn(c)' = PostTurn(c)
    BY <1>3, Asked
  <2> QED BY <1>1, <2>1, ElsewhereCovers
<1> QED BY <1>2, <1>3

(* What an operator clears was deleted on purpose.                          *)
LEMMA ClearCovers ==
  ASSUME MemoryTypeInv, NEW o \in Ops, AdminClear(o), UNCHANGED turn, NEW c \in Convs, Covered(c)
  PROVE  Covered(c)'
<1>1. /\ UNCHANGED <<log, refresh>>
      /\ cleared' = cleared \cup UNION {PointsOf(d, ExchangeEnds(log[d])) : d \in Convs}
  BY DEF AdminClear, serviceVars
<1>2. PICK n \in Nat, d \in Nat : CoveredTo(c, n, d)
  BY DEF Covered
<1>3. \A i \in ExchangeEnds(log[c]) : <<c, i>> \in cleared'
  BY <1>1 DEF PointsOf
<1>4. \A k \in 1..d : <<c, 2 * k>> \in cleared'
  <2> TAKE k \in 1..d
  <2>1. k \in 1..n
    BY <1>2 DEF CoveredTo
  <2> QED BY <1>2, <1>3, <2>1 DEF CoveredTo, Spoke
<1>5. HeldTo(c, d)'
  BY <1>4 DEF HeldTo
<1>6. TurnOn(c, {"asking"})' <=> TurnOn(c, {"asking"})
  BY DEF TurnOn
<1> QED BY <1>1, <1>2, <1>5, <1>6, CoverKept

(* No step of a request uncovers a conversation.                            *)
LEMMA OpCovers ==
  ASSUME MemoryTypeInv, ChainInv, PhaseInv, CoverInv, NEW o \in Ops, OpStep(o)
  PROVE  CoverInv'
<1> SUFFICES ASSUME ~restarted', ~Deleting({"conversations"})', NEW c \in Existing' \ FaultyConvs
             PROVE  Covered(c)'
  BY DEF CoverInv
<1>1. UNCHANGED <<turn, restarted>> /\ c \in Convs /\ op \in [Ops -> Op]
  BY DEF OpStep, Existing, MemoryTypeInv, OpInv
<1>2. CASE op[o].pc = "conversations"
  <2>1. DeleteConversations(o)
    BY <1>2 DEF OpStep, LifecycleStep, FindActive, ClosePrevious, CreateConversation, ReadEpisodes,
       Hydrate, LoadConversation, EndConversation, PromoteEnded, TouchSessionFails, DeleteMessages,
       DeleteEpisodes, DeleteWorking, OpFails, AdminRefresh, AdminClear
  <2>2. Existing' = {}
    BY <2>1 DEF DeleteConversations, Existing
  <2> QED BY <2>2
<1>3. CASE op[o].pc # "conversations" /\ c \in Existing
  <2>1. ~Deleting({"conversations"})
    <3>1. \A q \in Ops : q # o => op'[q] = op[q]
      BY <1>1 DEF OpStep, LifecycleStep, FindActive, ClosePrevious, CreateConversation,
         ReadEpisodes, Hydrate, LoadConversation, EndConversation, PromoteEnded,
         TouchSessionFails, DeleteMessages, DeleteConversations, DeleteEpisodes, DeleteWorking, OpFails, AdminRefresh, AdminClear, SetOp
    <3> QED BY <1>3, <3>1 DEF Deleting
  <2>2. Covered(c)
    BY <1>1, <1>3, <2>1 DEF CoverInv
  <2>3. ASSUME NEW k \in AllKinds, FindActive(o, k), UNCHANGED cleared PROVE Covered(c)'
    <3>1. UNCHANGED <<log, working, refresh>>
      BY <2>3 DEF FindActive, rowVars, serviceVars
    <3> QED BY <1>1, <2>2, <2>3, <3>1, RequestCovers
  <2>4. CASE ClosePrevious(o) \/ PromoteEnded(o)
    <3>1. \E d \in Convs : \E trigger \in Triggers \ {"post_turn"} : \E promoting \in BOOLEAN :
            Execute(d, trigger, promoting)
      <4>1. {"avatar_switch", "conversation_closed"} \subseteq Triggers \ {"post_turn"}
        BY DEF Triggers
      <4>2. op[o].previous \in Convs
        BY <2>4 DEF ClosePrevious, PromoteEnded, Close, Exists, MemoryTypeInv, OpInv
      <4> QED BY <2>4, <4>1, <4>2 DEF ClosePrevious, PromoteEnded, RunBackgroundClosePipeline
    <3>2. UNCHANGED <<log, working, cleared>>
      BY <2>4 DEF ClosePrevious, PromoteEnded, OpStep, AdminRefresh, AdminClear, rowVars
    <3> QED BY <1>1, <2>2, <3>1, <3>2, RequestCovers
  <2>14. CASE EndConversation(o) \/ TouchSessionFails(o)
    <3>1. UNCHANGED <<log, working, cleared, refresh>>
      BY <2>14 DEF EndConversation, TouchSessionFails, OpStep, AdminRefresh, AdminClear, rowVars,
         serviceVars
    <3> QED BY <1>1, <2>2, <3>1, RequestCovers
  <2>5. ASSUME NEW d \in Convs, CreateConversation(o, d), UNCHANGED cleared PROVE Covered(c)'
    <3>1. UNCHANGED <<log, working, refresh>>
      BY <2>5 DEF CreateConversation, serviceVars
    <3> QED BY <1>1, <2>2, <2>5, <3>1, RequestCovers
  <2>6. CASE ReadEpisodes(o) \/ DeleteEpisodes(o) \/ OpFails(o)
    <3>1. UNCHANGED <<log, working, cleared, refresh>>
      BY <2>6 DEF ReadEpisodes, DeleteEpisodes, OpFails, rowVars, serviceVars, OpStep, AdminRefresh,
         AdminClear
    <3> QED BY <1>1, <2>2, <3>1, RequestCovers
  <2>7. CASE Hydrate(o)
    <3>1. UNCHANGED <<log, cleared, refresh>>
      BY <2>7 DEF Hydrate, serviceVars, OpStep, AdminRefresh, AdminClear
    <3>2. CASE op[o].conv = c
      <4>1. Untouched(c)
        BY <1>3, <2>7, <3>2 DEF PhaseInv, Hydrate
      <4>2. Untouched(c)'
        BY <1>1, <3>1, <4>1 DEF Untouched, TurnOn
      <4> QED BY <4>2, FreshIsCovered
    <3>3. CASE op[o].conv # c
      <4>1. working'[c] = working[c]
        BY <1>1, <2>7, <3>3 DEF Hydrate, Upsert, MemoryTypeInv, RowInv
      <4> QED BY <1>1, <2>2, <3>1, <4>1, RequestCovers
    <3> QED BY <3>2, <3>3
  <2>8. ASSUME NEW d \in Convs, LoadConversation(o, d), UNCHANGED cleared PROVE Covered(c)'
    <3>1. UNCHANGED <<log, working, refresh>>
      BY <2>8 DEF LoadConversation, rowVars, serviceVars
    <3> QED BY <1>1, <2>2, <2>8, <3>1, RequestCovers
  <2>9. ~DeleteMessages(o)
    BY <1>1 DEF DeleteMessages, SetOp, IdleOp, Deleting
  <2>10. CASE DeleteWorking(o)
    <3>1. Untouched(c)
      BY <1>3, <2>10 DEF DeleteWorking, PhaseInv, Deleting
    <3>2. Untouched(c)'
      BY <1>1, <2>10, <3>1 DEF DeleteWorking, Untouched, TurnOn
    <3> QED BY <3>2, FreshIsCovered
  <2>11. CASE AdminRefresh(o)
    <3>1. \E d \in Convs : \E trigger \in Triggers \ {"post_turn"} : \E promoting \in BOOLEAN :
            Execute(d, trigger, promoting)
      BY <2>11 DEF AdminRefresh, LatestConvs, Newest, ActiveConvs, Triggers
    <3> QED BY <1>1, <2>2, <2>11, <3>1, RequestCovers DEF AdminRefresh, rowVars, historyVars
  <2>12. CASE AdminClear(o)
    BY <1>1, <2>2, <2>12, ClearCovers
  <2>13. ~DeleteConversations(o)
    BY <1>3 DEF DeleteConversations
  <2> QED BY <2>3, <2>4, <2>5, <2>6, <2>7, <2>8, <2>9, <2>10, <2>11, <2>12, <2>13, <2>14
          DEF OpStep, LifecycleStep
<1>4. CASE op[o].pc # "conversations" /\ c \notin Existing
  <2>1. PICK d \in Convs : CreateConversation(o, d)
    <3>1. status' # status
      BY <1>4 DEF Existing
    <3>2. \A e : Close(e) => Existing' = Existing
      BY DEF Close, Exists, Existing, MemoryTypeInv, RowInv
    <3> QED BY <1>4, <3>1, <3>2 DEF OpStep, LifecycleStep, FindActive, ClosePrevious, ReadEpisodes,
       Hydrate, LoadConversation, EndConversation, PromoteEnded, TouchSessionFails, DeleteMessages,
       DeleteConversations, DeleteEpisodes, DeleteWorking, OpFails, AdminRefresh, AdminClear, rowVars
  <2>2. /\ status[d] = "absent" /\ status' = [status EXCEPT ![d] = "active"] /\ UNCHANGED log
    BY <2>1 DEF CreateConversation
  <2>3. c = d
    BY <1>4, <2>2 DEF Existing, MemoryTypeInv, RowInv
  <2>4. Untouched(c)
    BY <1>1, <2>2, <2>3 DEF PhaseInv, Created
  <2>5. Untouched(c)'
    BY <1>1, <2>2, <2>4 DEF Untouched, TurnOn
  <2> QED BY <2>5, FreshIsCovered
<1> QED BY <1>2, <1>3, <1>4

(* The first conversation has had fewer exchanges than are due to be        *)
(* remembered, none of them under way.                                      *)
ShortSoFar ==
  \E n \in Nat : /\ n < RefreshEvery /\ Len(Spoken) = 2 * n
                 /\ \A k \in 1..n : Spoken[2 * k - 1] = "user" /\ Spoken[2 * k] = "avatar"

(* The first conversation begins with whole exchanges.                      *)
LEMMA SpokenIsSpoke ==
  ASSUME NEW n \in Nat, Len(Spoken) = 2 * n,
         \A k \in 1..n : Spoken[2 * k - 1] = "user" /\ Spoken[2 * k] = "avatar"
  PROVE  Spoke(Spoken, n)
<1>1. ASSUME NEW i \in ExchangeEnds(Spoken) PROVE i \in {2 * k : k \in 1..n}
  <2>1. i \in 2..(2 * n) /\ Spoken[i] = "avatar"
    BY <1>1 DEF ExchangeEnds
  <2>2. PICK k \in Nat : i = 2 * k \/ i = 2 * k - 1
    <3>1. i = 2 * (i \div 2) \/ i = 2 * ((i + 1) \div 2) - 1
      BY <2>1
    <3>2. i \div 2 \in Nat /\ (i + 1) \div 2 \in Nat
      BY <2>1
    <3> QED BY <3>1, <3>2
  <2>3. k \in 1..n
    BY <2>1, <2>2
  <2>4. i = 2 * k
    BY <2>1, <2>2, <2>3
  <2> QED BY <2>3, <2>4
<1>2. ASSUME NEW k \in 1..n PROVE 2 * k \in ExchangeEnds(Spoken)
  BY DEF ExchangeEnds
<1>3. ExchangeEnds(Spoken) = {2 * k : k \in 1..n}
  BY <1>1, <1>2
<1> QED BY <1>3 DEF Spoke

(* With one client, every conversation is covered.                          *)
LEMMA CoverInvHolds ==
  ASSUME OneClient, Windows, ShortSoFar
  PROVE  MemorySpec => []CoverInv
<1>1. MemoryInit => CoverInv
  <2> SUFFICES ASSUME MemoryInit, NEW c \in Existing \ FaultyConvs PROVE Covered(c)
    BY DEF CoverInv
  <2>1. c = 1 /\ log[c] = Spoken /\ \A t \in Turns : turn[t].pc = "idle"
    BY Bounds DEF MemoryInit, Existing, IdleTurn
  <2>2. PICK n \in Nat : n < RefreshEvery /\ Spoke(Spoken, n) /\ Len(Spoken) = 2 * n
    BY SpokenIsSpoke DEF ShortSoFar
  <2>3. RefreshEvery \in Nat \ {0} /\ 0 % RefreshEvery = 0
    BY Remainders, MemoryAssumption
  <2>4. ~TurnOn(c, {"asking"}) /\ Len(log[c]) # 2 * n + 1
    BY <2>1, <2>2 DEF TurnOn
  <2>5. HeldTo(c, 0)
    BY DEF HeldTo
  <2>6. CoveredTo(c, n, 0)
    BY <2>1, <2>2, <2>3, <2>4, <2>5 DEF CoveredTo
  <2> QED BY <2>6 DEF Covered
<1>2. MemoryTypeInv /\ ChainInv /\ AwaitsInv /\ PhaseInv /\ CoverInv /\ [MemoryNext]_memoryVars
      => CoverInv'
  <2> SUFFICES ASSUME MemoryTypeInv, ChainInv, AwaitsInv, PhaseInv, CoverInv,
                      [MemoryNext]_memoryVars
               PROVE  CoverInv'
    OBVIOUS
  <2>1. CASE UNCHANGED <<log, turn, status, op, refresh, working, cleared, restarted>>
    BY <2>1 DEF CoverInv, Covered, CoveredTo, HeldTo, AwaitsRefresh, PostTurn, LiveOf, Live, TurnOn,
       Existing, Deleting
  <2>2. ASSUME NEW r \in RefreshIds, PromotionStep(r) PROVE CoverInv'
    BY <2>1, <2>2 DEF PromotionStep, CheckEpisode, DraftEpisode, CreateEpisode, EpisodeFails,
       GotoPromotion, rowVars, historyVars
  <2>3. ASSUME NEW o \in Ops, Restart(o) PROVE CoverInv'
    BY <2>3 DEF Restart, CoverInv
  <2>4. CASE UNCHANGED memoryVars
    BY <2>1, <2>4 DEF memoryVars, rowVars, serviceVars, historyVars
  <2> QED BY <2>2, <2>3, <2>4, TurnCovers, OpCovers, RefreshCovers DEF MemoryNext
<1> QED BY <1>1, <1>2, MemoryTypeInvHolds, ChainInvHolds, AwaitsInvHolds, PhaseInvHolds, PTL
        DEF MemorySpec

(* What the working memory lacks is among the last messages.                *)
LEMMA RestIsRecent ==
  ASSUME OneClient, MemoryTypeInv, PhaseInv, CoverInv, ~restarted, NEW c \in Existing \ FaultyConvs,
         NEW i \in ExchangeEnds(log[c]), <<c, i>> \notin working[c].seen \cup cleared,
         NEW w \in Nat, 2 * RefreshEvery <= w
  PROVE  i \in InWindow(log[c], w)
<1>1. RefreshEvery \in Nat \ {0} /\ c \in Convs /\ Len(log[c]) \in Nat
  BY MemoryAssumption DEF Existing, MemoryTypeInv, RowInv, Roles
<1>2. i \in 2..Len(log[c])
  BY DEF ExchangeEnds
<1>3. CASE Deleting({"conversations"})
  <2>1. Len(log[c]) <= 2
    BY <1>3 DEF PhaseInv, Short
  <2> QED BY <1>1, <1>2, <2>1 DEF InWindow
<1>4. CASE ~Deleting({"conversations"})
  <2>1. PICK n \in Nat, d \in Nat : CoveredTo(c, n, d)
    BY <1>4 DEF CoverInv, Covered
  <2>2. PICK k \in 1..n : i = 2 * k
    BY <2>1 DEF CoveredTo, Spoke
  <2>3. /\ Spoke(log[c], n) /\ Len(log[c]) \in {2 * n, 2 * n + 1} /\ d <= n
        /\ n < d + RefreshEvery
    BY <2>1 DEF CoveredTo, Spoke
  <2>4. ASSUME NEW e \in Nat, HeldTo(c, e) PROVE e < k
    <3>1. k \notin 1..e
      BY <2>2, <2>4 DEF HeldTo
    <3> QED BY <3>1
  <2>5. Len(log[c]) < 2 * k - 1 + w
    <3>1. CASE HeldTo(c, d)
      <4>1. d < k
        BY <2>4, <3>1
      <4> QED BY <1>1, <2>3, <4>1
    <3>2. CASE d = n /\ RefreshEvery <= d /\ HeldTo(c, d - RefreshEvery) /\ AwaitsRefresh(c, d)
      <4>1. d - RefreshEvery \in Nat
        BY <1>1, <3>2
      <4>2. d - RefreshEvery < k
        BY <2>4, <3>2, <4>1
      <4>3. ~TurnOn(c, {"asking"})
        BY <1>1, <3>2 DEF AwaitsRefresh, PhaseInv, OneClient, TurnOn
      <4>4. Len(log[c]) = 2 * n
        BY <2>1, <2>3, <4>3 DEF CoveredTo
      <4> QED BY <1>1, <3>2, <4>2, <4>4
    <3> QED BY <2>1, <3>1, <3>2 DEF CoveredTo
  <2> QED BY <2>2, <2>3, <2>5, SpokeWindow
<1> QED BY <1>3, <1>4

(* With one client, a prompt never misses an exchange of its conversation,  *)
(* whatever refreshes, closings, hydrations, clears and resets there are    *)
(* besides, if the windows hold two rounds of refreshes, and the refreshes  *)
(* of the conversation do not fail.                                         *)
THEOREM NothingIsForgotten ==
  ASSUME OneClient, Windows, ShortSoFar
  PROVE  MemorySpec => []NothingForgotten
<1>1. MemoryTypeInv /\ PhaseInv /\ CoverInv => NothingForgotten
  <2> SUFFICES ASSUME MemoryTypeInv, PhaseInv, CoverInv, ~restarted,
                      NEW c \in ActiveConvs \ FaultyConvs, NEW i \in ExchangeEnds(log[c]),
                      <<c, i>> \notin working[c].seen \cup cleared
               PROVE  i \in InWindow(log[c], HistoryWindow)
    BY DEF NothingForgotten
  <2>1. c \in Existing \ FaultyConvs /\ HistoryWindow \in Nat
    BY MemoryAssumption DEF ActiveConvs, Existing
  <2> QED BY <2>1, RestIsRecent DEF Windows
<1> QED BY <1>1, MemoryTypeInvHolds, PhaseInvHolds, CoverInvHolds, PTL

-----------------------------------------------------------------------------
(* What an episode is made from.                                            *)

(* Pipelines are of closed conversations, and one that waits waits for a    *)
(* refresh that no turn asked for.                                          *)
PromotionsInv ==
  /\ \A r \in RefreshIds : promotion[r].pc # "none" =>
       promotion[r].conv \in Convs /\ status[promotion[r].conv] \in {"closed", "deleted"}
  /\ \A r \in RefreshIds : promotion[r].pc = "refreshing" =>
       Live(r) /\ refresh[r].conv = promotion[r].conv /\ refresh[r].trigger # "post_turn"

(* So is an ending under way that is to start one.                          *)
EndingsInv ==
  \A o \in Ops : op[o].pc = "touch" => status[op[o].previous] \in {"closed", "deleted"}

(* Endings, pipelines and episodes are of conversations that have closed,   *)
(* and an ending is no later than the messages that are left.               *)
ClosingInv ==
  /\ \A c \in Convs : working[c].present \/ working[c].seen = {}
  /\ \A c \in Existing : ended[c] <= Len(log[c])
  /\ \A c \in Convs : status[c] \in {"absent", "active"} => ended[c] = 0
  /\ \A c \in Convs : episode[c].present => status[c] = "closed"
  /\ PromotionsInv

(* A step that leaves the logs, the endings and the statuses alone.         *)
LEMMA ClosingKept ==
  ASSUME ClosingInv, UNCHANGED <<log, status, ended>>, PromotionsInv',
         \A c \in Convs : working'[c].present \/ working'[c].seen = {},
         \A c \in Convs : episode'[c].present =>
           episode[c].present \/ status[c] = "closed"
  PROVE  ClosingInv'
<1>1. Existing' = Existing
  BY DEF Existing
<1> QED BY <1>1 DEF ClosingInv, PromotionsInv

(* A step that leaves statuses, refreshes and pipelines alone.              *)
LEMMA PromotionsKept ==
  ASSUME ClosingInv, UNCHANGED <<promotion, refresh, status>>
  PROVE  PromotionsInv'
BY DEF ClosingInv, PromotionsInv, Live

(* A refresh that settles lets its pipeline go on.                          *)
LEMMA SettlePromotes ==
  ASSUME MemoryTypeInv, NEW r \in RefreshIds, Settle(r)
  PROVE  /\ \A q \in RefreshIds : q # r => promotion'[q] = promotion[q]
         /\ promotion'[r].pc = IF promotion[r].pc = "refreshing" THEN "check" ELSE promotion[r].pc
         /\ promotion'[r].conv = promotion[r].conv /\ promotion'[r].seen = promotion[r].seen
         /\ refresh'[r].pc = "settled" /\ \A q \in RefreshIds : q # r => refresh'[q] = refresh[q]
<1>1. promotion \in [RefreshIds -> Promotion]
  BY DEF MemoryTypeInv, PromotionInv
<1> QED BY <1>1, SettleIsOf DEF Settle, Promotion, MemoryTypeInv

(* Refreshes write rows, and no episode.                                    *)
LEMMA RefreshClosing ==
  ASSUME MemoryTypeInv, ClosingInv, NEW r \in RefreshIds, RefreshStep(r)
  PROVE  ClosingInv'
<1>1. /\ UNCHANGED <<log, status, ended>>
      /\ \A q \in RefreshIds : q # r => refresh'[q] = refresh[q]
  BY RefreshChanges
<1>2. /\ \A c \in Convs : working'[c].present \/ working'[c].seen = {}
      /\ UNCHANGED episode
  <2>1. CASE RewriteMemory(r)
    BY <2>1 DEF RewriteMemory, Upsert, ClosingInv, MemoryTypeInv, RowInv
  <2>2. CASE UNCHANGED <<working, episode>>
    BY <2>2 DEF ClosingInv
  <2> QED BY <2>1, <2>2 DEF RefreshStep, StartRefresh, ReadPriorMemory, RefreshFails, rowVars
<1>3. PromotionsInv'
  <2>1. CASE Settle(r)
    BY <1>1, <2>1, SettlePromotes DEF ClosingInv, PromotionsInv, Live
  <2>2. CASE ~Settle(r)
    <3>1. UNCHANGED promotion /\ refresh[r] \in Refresh
      BY <2>2 DEF RefreshStep, StartRefresh, ReadPriorMemory, RewriteMemory, RefreshFails,
         MemoryTypeInv, CallInv
    <3>2. Live(r)' /\ refresh'[r].conv = refresh[r].conv /\ refresh'[r].trigger = refresh[r].trigger
      <4>1. CASE StartRefresh(r)
        <5>1. PICK w : w = RefreshSees(refresh[r].conv)
          BY Zenon
        <5>2. refresh' = [refresh EXCEPT ![r] =
                [@ EXCEPT !.pc = "recalling", !.prior = 0, !.window = w]]
          BY <2>2, <4>1, <5>1 DEF StartRefresh
        <5> QED BY <3>1, <5>2 DEF Live, MemoryTypeInv, CallInv, Refresh
      <4>2. CASE ReadPriorMemory(r)
        BY <3>1, <4>2 DEF ReadPriorMemory, Live, MemoryTypeInv, CallInv, Refresh
      <4> QED BY <2>2, <4>1, <4>2 DEF RefreshStep, RewriteMemory, RefreshFails
    <3> QED BY <1>1, <3>1, <3>2 DEF ClosingInv, PromotionsInv, Live
  <2> QED BY <2>1, <2>2
<1> QED BY <1>1, <1>2, <1>3, ClosingKept

(* A pipeline creates the episode of a conversation that is closed.         *)
LEMMA PromotionClosing ==
  ASSUME MemoryTypeInv, ClosingInv, NEW r \in RefreshIds, PromotionStep(r)
  PROVE  ClosingInv'
<1>1. UNCHANGED <<log, status, ended, working, refresh>> /\ promotion[r] \in Promotion
      /\ promotion \in [RefreshIds -> Promotion]
  BY DEF PromotionStep, CheckEpisode, DraftEpisode, CreateEpisode, EpisodeFails, GotoPromotion,
     rowVars, historyVars, MemoryTypeInv, PromotionInv
<1>2. promotion[r].pc # "none"
  BY DEF PromotionStep, CheckEpisode, DraftEpisode, CreateEpisode, EpisodeFails
<1>3. /\ \A q \in RefreshIds : q # r => promotion'[q] = promotion[q]
      /\ promotion'[r].pc # "refreshing"
      /\ promotion'[r].pc = "none" \/ promotion'[r].conv = promotion[r].conv
  <2>1. CASE CheckEpisode(r)
    BY <1>1, <2>1 DEF CheckEpisode, GotoPromotion, NoPromotion, Promotion
  <2>2. CASE DraftEpisode(r)
    BY <1>1, <2>2 DEF DraftEpisode, GotoPromotion, Promotion
  <2>3. CASE CreateEpisode(r)
    BY <1>1, <2>3 DEF CreateEpisode, GotoPromotion, NoPromotion
  <2>4. CASE EpisodeFails(r)
    BY <1>1, <2>4 DEF EpisodeFails, GotoPromotion, NoPromotion
  <2> QED BY <2>1, <2>2, <2>3, <2>4 DEF PromotionStep
<1>4. PromotionsInv'
  BY <1>1, <1>2, <1>3 DEF ClosingInv, PromotionsInv, Live
<1>5. \A c \in Convs : episode'[c].present =>
        episode[c].present \/ status[c] = "closed"
  <2>1. CASE CreateEpisode(r)
    <3>1. \A c \in Convs : c # promotion[r].conv => episode'[c] = episode[c]
      BY <2>1 DEF CreateEpisode, InsertEpisode, MemoryTypeInv, RowInv
    <3>2. episode' # episode => status[promotion[r].conv] = "closed"
      BY <1>2, <2>1 DEF ClosingInv, PromotionsInv, CreateEpisode, Exists
    <3> QED BY <3>1, <3>2
  <2>2. CASE UNCHANGED episode
    BY <2>2
  <2> QED BY <2>1, <2>2 DEF PromotionStep, CheckEpisode, DraftEpisode, EpisodeFails, rowVars
<1> QED BY <1>1, <1>4, <1>5, ClosingKept DEF ClosingInv

(* Another call: it is a pipeline's only if a conversation closes.          *)
LEMMA AskedPromotes ==
  ASSUME MemoryTypeInv, ChainInv, ClosingInv, NEW c \in Convs, NEW trigger \in Triggers,
         NEW promoting \in BOOLEAN, Execute(c, trigger, promoting)
  PROVE  /\ \A q \in RefreshIds : q # issued' => promotion'[q] = promotion[q]
         /\ promotion[issued'].pc # "refreshing"
         /\ promoting => promotion'[issued'].pc = "refreshing" /\ promotion'[issued'].conv = c
         /\ ~promoting => promotion'[issued'] = promotion[issued']
<1>1. PICK n \in RefreshIds : n = issued + 1 /\ n = issued' /\ ~Live(n)
  BY Asked DEF Execute
<1>2. promotion' = [promotion EXCEPT ![n] =
        IF promoting THEN [NoPromotion EXCEPT !.pc = "refreshing", !.conv = c] ELSE @]
      /\ promotion \in [RefreshIds -> Promotion]
  BY <1>1 DEF Execute, MemoryTypeInv, PromotionInv
<1>3. [NoPromotion EXCEPT !.pc = "refreshing", !.conv = c].pc = "refreshing"
      /\ [NoPromotion EXCEPT !.pc = "refreshing", !.conv = c].conv = c
  BY DEF NoPromotion
<1>4. promotion[n].pc # "refreshing"
  BY <1>1 DEF ClosingInv, PromotionsInv
<1> QED BY <1>1, <1>2, <1>3, <1>4

(* What a step of a turn leaves alone.                                      *)
LEMMA TurnChanges ==
  ASSUME MemoryTypeInv, NEW t \in Turns, TurnStep(t)
  PROVE  /\ UNCHANGED <<status, ended, working, episode, op, restarted, cleared>>
         /\ \A c \in Convs : \/ log'[c] = log[c]
                             \/ \E role \in Roles : log'[c] = Append(log[c], role)
         /\ UNCHANGED <<refresh, promotion>>
            \/ \E c \in Convs : Execute(c, "post_turn", FALSE)
<1>1. UNCHANGED <<status, ended, working, episode, op, restarted, cleared>>
  BY DEF TurnStep, BeginTurn, PrepareTurn, StoreReply, FinishTurn, TurnFails, rowVars, historyVars
<1>2. log \in [Convs -> Seq(Roles)]
  BY DEF MemoryTypeInv, RowInv
<1>3. UNCHANGED log \/ PrepareTurn(t) \/ StoreReply(t)
  BY DEF TurnStep, BeginTurn, FinishTurn, TurnFails, rowVars
<1>4. \A c \in Convs : log'[c] = log[c] \/ \E role \in Roles : log'[c] = Append(log[c], role)
  <2>1. CASE PrepareTurn(t)
    BY <1>2, <2>1 DEF PrepareTurn, Roles
  <2>2. CASE StoreReply(t)
    BY <1>2, <2>2 DEF StoreReply, Roles
  <2> QED BY <1>3, <2>1, <2>2
<1>5. UNCHANGED <<refresh, promotion>> \/ \E c \in Convs : Execute(c, "post_turn", FALSE)
  BY DEF TurnStep, BeginTurn, PrepareTurn, StoreReply, FinishTurn, TurnFails, serviceVars, Exists
<1> QED BY <1>1, <1>4, <1>5

(* A turn only adds messages.                                               *)
LEMMA TurnClosing ==
  ASSUME MemoryTypeInv, ChainInv, ClosingInv, NEW t \in Turns, TurnStep(t)
  PROVE  ClosingInv'
<1>1. UNCHANGED <<status, ended, working, episode>> /\ Existing' = Existing
  BY TurnChanges DEF Existing
<1>2. \A c \in Existing : ended'[c] <= Len(log'[c])
  <2> TAKE c \in Existing
  <2>1. c \in Convs /\ log[c] \in Seq(Roles) /\ ended[c] \in Nat /\ ended[c] <= Len(log[c])
    BY DEF Existing, ClosingInv, MemoryTypeInv, RowInv, HistoryInv
  <2>2. ASSUME NEW role \in Roles, log'[c] = Append(log[c], role) PROVE ended[c] <= Len(log'[c])
    BY <2>1, <2>2 DEF Roles
  <2> QED BY <1>1, <2>1, <2>2, TurnChanges
<1>3. PromotionsInv'
  <2>1. CASE UNCHANGED <<refresh, promotion>>
    BY <1>1, <2>1, PromotionsKept
  <2>2. ASSUME NEW c \in Convs, Execute(c, "post_turn", FALSE) PROVE PromotionsInv'
    <3>1. /\ \A q \in RefreshIds : promotion'[q] = promotion[q]
          /\ promotion[issued'].pc # "refreshing"
          /\ \A q \in RefreshIds : q # issued' => refresh'[q] = refresh[q]
      BY <2>2, Asked, AskedPromotes DEF Triggers
    <3> QED BY <1>1, <3>1 DEF ClosingInv, PromotionsInv, Live
  <2> QED BY <2>1, <2>2, TurnChanges
<1> QED BY <1>1, <1>2, <1>3 DEF ClosingInv

(* A closed conversation is not opened again, and only the close of a       *)
(* conversation is followed by the rest of its ending.                      *)
LEMMA EndingsStep ==
  ASSUME MemoryTypeInv, EndingsInv, [MemoryNext]_memoryVars
  PROVE  EndingsInv'
<1>1. \A c \in Convs : status[c] \in {"closed", "deleted"} => status'[c] \in {"closed", "deleted"}
  <2> SUFFICES ASSUME NEW c \in Convs, status[c] \in {"closed", "deleted"}
               PROVE  status'[c] \in {"closed", "deleted"}
    OBVIOUS
  <2>1. CASE UNCHANGED status
    BY <2>1
  <2>2. ASSUME NEW d, Close(d) PROVE status'[c] \in {"closed", "deleted"}
    BY <2>2 DEF Close, MemoryTypeInv, RowInv
  <2>3. ASSUME NEW o \in Ops, NEW d \in Convs, CreateConversation(o, d)
        PROVE  status'[c] \in {"closed", "deleted"}
    BY <2>3 DEF CreateConversation, MemoryTypeInv, RowInv
  <2>4. ASSUME NEW o \in Ops, DeleteConversations(o) PROVE status'[c] \in {"closed", "deleted"}
    BY <2>4 DEF DeleteConversations
  <2>5. ASSUME NEW o \in Ops, LifecycleStep(o) PROVE status'[c] \in {"closed", "deleted"}
    BY <2>1, <2>2, <2>3, <2>4, <2>5 DEF LifecycleStep, FindActive, ClosePrevious, ReadEpisodes,
       Hydrate, LoadConversation, EndConversation, PromoteEnded, TouchSessionFails, DeleteMessages,
       DeleteEpisodes, DeleteWorking, OpFails, rowVars
  <2> QED BY <2>1, <2>5 DEF MemoryNext, TurnStep, BeginTurn, PrepareTurn, StoreReply, FinishTurn,
      TurnFails, OpStep, AdminRefresh, AdminClear, Restart, RefreshStep, StartRefresh,
      ReadPriorMemory, RewriteMemory, RefreshFails, PromotionStep, CheckEpisode, DraftEpisode,
      CreateEpisode, EpisodeFails, memoryVars, rowVars
<1>2. ASSUME NEW o \in Ops, op'[o].pc = "touch", op'[o] # op[o]
      PROVE  status'[op'[o].previous] = "closed"
  <2>1. op \in [Ops -> Op]
    BY DEF MemoryTypeInv, OpInv
  <2>2. PICK q \in Ops : OpStep(q)
    <3>1. \A q \in Ops : ~Restart(q)
      BY <1>2 DEF Restart, IdleOp
    <3> QED BY <1>2, <3>1 DEF MemoryNext, TurnStep, RefreshStep, PromotionStep, memoryVars
  <2>3. q = o
    BY <1>2, <2>1, <2>2 DEF OpStep, LifecycleStep, FindActive, ClosePrevious, CreateConversation,
       ReadEpisodes, Hydrate, LoadConversation, EndConversation, PromoteEnded, TouchSessionFails,
       DeleteMessages, DeleteConversations, DeleteEpisodes, DeleteWorking, OpFails, AdminRefresh,
       AdminClear, SetOp
  <2>4. \A p : SetOp(o, p) => op'[o] = p
    BY <2>1 DEF SetOp
  <2>5. EndConversation(o)
    <3>1. /\ \A k, c : [IdleOp EXCEPT !.pc = "close", !.kind = k, !.previous = c].pc = "close"
          /\ \A k : [IdleOp EXCEPT !.pc = "create", !.kind = k].pc = "create"
          /\ \A c : [IdleOp EXCEPT !.pc = "recall", !.conv = c].pc = "recall"
          /\ [IdleOp EXCEPT !.pc = "done"].pc = "done"
          /\ [IdleOp EXCEPT !.pc = "conversations", !.kind = "reset"].pc = "conversations"
      BY DEF IdleOp
    <3>2. op[o] \in Op
      BY <2>1
    <3>3. /\ \A S : [op[o] EXCEPT !.pc = "hydrate", !.seen = S].pc = "hydrate"
          /\ [op[o] EXCEPT !.pc = "create"].pc = "create"
          /\ [op[o] EXCEPT !.pc = "failed"].pc = "failed"
          /\ [op[o] EXCEPT !.pc = "episodes"].pc = "episodes"
          /\ [op[o] EXCEPT !.pc = "rows"].pc = "rows"
      BY <3>2 DEF Op
    <3>4. ~ReadEpisodes(o)
      <4> SUFFICES ASSUME ReadEpisodes(o) PROVE FALSE
        OBVIOUS
      <4> DEFINE made == {c \in Convs : episode[c].present}
                 all == UNION {episode[c].seen : c \in made}
      <4>1. op'[o] = IF made = {} THEN [IdleOp EXCEPT !.pc = "done"]
                                  ELSE [op[o] EXCEPT !.pc = "hydrate", !.seen = all]
        BY <2>4 DEF ReadEpisodes
      <4>2. op'[o].pc \in {"done", "hydrate"}
        BY <3>1, <3>3, <4>1
      <4> QED BY <1>2, <4>2
    <3>5. ASSUME NEW k, FindActive(o, k) PROVE FALSE
      <4>1. op'[o].pc = "create" \/ op'[o].pc = "close"
        BY <2>1, <3>5 DEF FindActive, SetOp, IdleOp
      <4> QED BY <1>2, <4>1
    <3>6. ~ClosePrevious(o) /\ ~DeleteMessages(o) /\ ~DeleteConversations(o) /\ ~DeleteEpisodes(o)
      BY <1>2, <2>4, <3>1, <3>3 DEF ClosePrevious, DeleteMessages, DeleteConversations,
         DeleteEpisodes
    <3>7. ~DeleteWorking(o) /\ ~OpFails(o) /\ ~PromoteEnded(o) /\ ~TouchSessionFails(o) /\ ~Hydrate(o)
      BY <1>2, <2>4, <3>1, <3>3 DEF DeleteWorking, OpFails, PromoteEnded, TouchSessionFails,
         Hydrate
    <3>8. ASSUME NEW c, CreateConversation(o, c) \/ LoadConversation(o, c) PROVE FALSE
      <4>1. op'[o].pc = "recall" \/ op'[o].pc = "close"
        BY <2>1, <3>8 DEF CreateConversation, LoadConversation, SetOp, IdleOp
      <4> QED BY <1>2, <4>1
    <3>9. LifecycleStep(o) \/ AdminRefresh(o) \/ AdminClear(o)
      BY <2>2, <2>3 DEF OpStep
    <3>10. ~AdminRefresh(o) /\ ~AdminClear(o)
      BY <1>2, <2>4, <3>1 DEF AdminRefresh, AdminClear
    <3> QED BY <3>4, <3>5, <3>6, <3>7, <3>8, <3>9, <3>10 DEF LifecycleStep
  <2>6. op'[o].previous = op[o].previous
    BY <2>1, <2>4, <2>5 DEF EndConversation, Op
  <2> QED BY <2>5, <2>6 DEF EndConversation, Close, Exists, MemoryTypeInv, RowInv
<1>3. ASSUME NEW o \in Ops, op'[o].pc = "touch", op'[o] = op[o]
      PROVE  status'[op'[o].previous] \in {"closed", "deleted"}
  BY <1>1, <1>3 DEF EndingsInv, MemoryTypeInv, OpInv
<1> QED BY <1>2, <1>3 DEF EndingsInv

LEMMA EndingsInvHolds == MemorySpec => []EndingsInv
<1>1. MemoryInit => EndingsInv
  BY DEF MemoryInit, EndingsInv, IdleOp
<1> QED BY <1>1, EndingsStep, MemoryTypeInvHolds, PTL DEF MemorySpec

(* A pipeline that starts is of a conversation that has closed by then.     *)
LEMMA PipelineStarts ==
  ASSUME MemoryTypeInv, ChainInv, ClosingInv, NEW c \in Convs,
         NEW trigger \in {"avatar_switch", "conversation_closed"}, Execute(c, trigger, TRUE),
         status'[c] \in {"closed", "deleted"},
         \A d \in Convs : status[d] \in {"closed", "deleted"} => status'[d] \in {"closed", "deleted"}
  PROVE  PromotionsInv'
<1>1. trigger \in Triggers /\ trigger # "post_turn"
  BY DEF Triggers
<1>2. /\ \A q \in RefreshIds : q # issued' => promotion'[q] = promotion[q]
      /\ promotion'[issued'].pc = "refreshing" /\ promotion'[issued'].conv = c
      /\ \A q \in RefreshIds : q # issued' => refresh'[q] = refresh[q]
      /\ refresh'[issued'].pc = "queued" /\ refresh'[issued'].conv = c
      /\ refresh'[issued'].trigger = trigger
  BY <1>1, Asked, AskedPromotes
<1> QED BY <1>1, <1>2 DEF ClosingInv, PromotionsInv, Live

(* A closing records where the conversation ended.                          *)
LEMMA CloseClosing ==
  ASSUME MemoryTypeInv, ChainInv, ClosingInv, NEW c \in Convs, Close(c),
         UNCHANGED <<log, working, episode>>,
         \/ UNCHANGED <<refresh, promotion>>
         \/ \E trigger \in {"avatar_switch", "conversation_closed"} : Execute(c, trigger, TRUE)
  PROVE  ClosingInv'
<1>1. /\ status' = [status EXCEPT ![c] = "closed"] /\ c \in Existing
      /\ ended' = [ended EXCEPT ![c] = IF status[c] = "active" THEN Len(log[c]) ELSE @]
  BY ExistsIsExisting DEF Close
<1>2. Existing' = Existing
  BY <1>1 DEF Existing, MemoryTypeInv, RowInv
<1>3. /\ \A d \in Convs : status'[d] = IF d = c THEN "closed" ELSE status[d]
      /\ \A d \in Convs : d # c => ended'[d] = ended[d]
      /\ ended'[c] = Len(log[c]) \/ ended'[c] = ended[c]
  BY <1>1 DEF MemoryTypeInv, RowInv, HistoryInv
<1>4. \A d \in Existing : ended'[d] <= Len(log'[d])
  <2> TAKE d \in Existing
  <2>1. Len(log[d]) \in Nat /\ ended[d] <= Len(log[d]) /\ d \in Convs
    BY DEF Existing, ClosingInv, MemoryTypeInv, RowInv, Roles
  <2> QED BY <1>3, <2>1
<1>5. PromotionsInv'
  <2>1. CASE UNCHANGED <<refresh, promotion>>
    BY <1>3, <2>1 DEF ClosingInv, PromotionsInv, Live
  <2>2. ASSUME NEW trigger \in {"avatar_switch", "conversation_closed"}, Execute(c, trigger, TRUE)
        PROVE  PromotionsInv'
    BY <1>3, <2>2, PipelineStarts DEF PromotionsInv
  <2> QED BY <2>1, <2>2
<1>6. \A d \in Convs : /\ status'[d] \in {"absent", "active"} => ended'[d] = 0
                       /\ episode'[d].present => status'[d] = "closed"
  BY <1>3 DEF ClosingInv
<1> QED BY <1>2, <1>4, <1>5, <1>6 DEF ClosingInv

(* No request takes an ending back, but for a reset.                        *)
LEMMA OpClosing ==
  ASSUME MemoryTypeInv, ChainInv, EndingsInv, ClosingInv, NEW o \in Ops, OpStep(o)
  PROVE  ClosingInv'
<1>1. ASSUME UNCHANGED <<log, status, ended, working, episode, refresh, promotion>>
      PROVE  ClosingInv'
  BY <1>1, PromotionsKept DEF ClosingInv, Existing
<1>2. ASSUME NEW k \in AllKinds, FindActive(o, k) PROVE ClosingInv'
  BY <1>1, <1>2 DEF FindActive, rowVars, serviceVars
<1>3. CASE ClosePrevious(o) \/ EndConversation(o)
  <2>1. /\ op[o].previous \in Convs /\ Close(op[o].previous) /\ UNCHANGED <<log, working, episode>>
        /\ \/ UNCHANGED <<refresh, promotion>>
           \/ Execute(op[o].previous, "avatar_switch", TRUE)
    BY <1>3 DEF ClosePrevious, EndConversation, RunBackgroundClosePipeline, serviceVars, Close, Exists
  <2> QED BY <2>1, CloseClosing
<1>15. CASE PromoteEnded(o)
  <2>1. /\ op[o].previous \in Convs /\ status[op[o].previous] \in {"closed", "deleted"}
        /\ Execute(op[o].previous, "conversation_closed", TRUE)
        /\ UNCHANGED <<log, status, ended, working, episode>>
    BY <1>15 DEF PromoteEnded, RunBackgroundClosePipeline, rowVars, EndingsInv, MemoryTypeInv, OpInv
  <2>2. PromotionsInv'
    BY <2>1, PipelineStarts
  <2> QED BY <2>1, <2>2, ClosingKept DEF ClosingInv
<1>16. CASE TouchSessionFails(o)
  BY <1>1, <1>16 DEF TouchSessionFails, rowVars, serviceVars
<1>4. ASSUME NEW c \in Convs, CreateConversation(o, c) PROVE ClosingInv'
  <2>1. /\ status[c] = "absent" /\ status' = [status EXCEPT ![c] = "active"]
        /\ UNCHANGED <<log, ended, working, episode, refresh, promotion>>
    BY <1>4 DEF CreateConversation, serviceVars
  <2>2. /\ \A d \in Convs : status'[d] = IF d = c THEN "active" ELSE status[d]
        /\ Existing' = Existing \cup {c}
    BY <2>1 DEF MemoryTypeInv, RowInv, Existing
  <2>3. ended[c] = 0 /\ ~episode[c].present /\ Len(log[c]) \in Nat
    BY <2>1 DEF ClosingInv, MemoryTypeInv, RowInv, Roles
  <2>4. PromotionsInv'
    BY <2>1, <2>2 DEF ClosingInv, PromotionsInv, Live
  <2>5. \A d \in Existing' : ended'[d] <= Len(log'[d])
    BY <2>1, <2>2, <2>3 DEF ClosingInv
  <2>6. \A d \in Convs : /\ status'[d] \in {"absent", "active"} => ended'[d] = 0
                         /\ episode'[d].present => status'[d] = "closed"
    BY <2>1, <2>2, <2>3 DEF ClosingInv
  <2> QED BY <2>1, <2>4, <2>5, <2>6 DEF ClosingInv
<1>5. CASE ReadEpisodes(o) \/ OpFails(o)
  BY <1>1, <1>5 DEF ReadEpisodes, OpFails, rowVars, serviceVars
<1>6. ASSUME UNCHANGED <<log, status, ended, refresh, promotion>>,
             \A c \in Convs : working'[c].present \/ working'[c].seen = {},
             \A c \in Convs : episode'[c].present => episode[c].present
      PROVE  ClosingInv'
  BY <1>6, PromotionsKept, ClosingKept
<1>7. CASE Hydrate(o)
  <2>1. \A c \in Convs : working'[c].present \/ working'[c].seen = {}
    BY <1>7 DEF Hydrate, Upsert, ClosingInv, MemoryTypeInv, RowInv
  <2> QED BY <1>6, <1>7, <2>1 DEF Hydrate, serviceVars
<1>8. ASSUME NEW c \in Convs, LoadConversation(o, c) PROVE ClosingInv'
  BY <1>1, <1>8 DEF LoadConversation, rowVars, serviceVars
<1>9. CASE DeleteMessages(o)
  <2>1. /\ \A c \in Convs : log'[c] = <<>> /\ ended'[c] = 0
        /\ \A c \in Convs : working'[c] = [working[c] EXCEPT !.through = 0]
        /\ UNCHANGED <<status, episode, refresh, promotion>>
    BY <1>9 DEF DeleteMessages, serviceVars
  <2>2. \A c \in Convs : working'[c].present \/ working'[c].seen = {}
    <3> TAKE c \in Convs
    <3>1. working[c] \in Row /\ (working[c].present \/ working[c].seen = {})
      BY DEF ClosingInv, MemoryTypeInv, RowInv
    <3>2. working'[c].present = working[c].present /\ working'[c].seen = working[c].seen
      BY <2>1, <3>1 DEF Row
    <3> QED BY <3>1, <3>2
  <2>3. PromotionsInv'
    BY <2>1, PromotionsKept
  <2>4. \A c \in Convs : Len(log'[c]) = 0
    BY <2>1
  <2> QED BY <2>1, <2>2, <2>3, <2>4 DEF ClosingInv, Existing
<1>10. CASE DeleteConversations(o)
  <2>1. /\ status' = [c \in Convs |-> IF status[c] = "absent" THEN "absent" ELSE "deleted"]
        /\ \A c \in Convs : working'[c] = NoMemory /\ episode'[c] = NoMemory
        /\ UNCHANGED <<ended, refresh, promotion>>
    BY <1>10 DEF DeleteConversations, serviceVars
  <2>2. Existing' = {}
    BY <2>1 DEF Existing
  <2>3. PromotionsInv'
    BY <2>1 DEF ClosingInv, PromotionsInv, Live
  <2> QED BY <2>1, <2>2, <2>3 DEF ClosingInv, NoMemory
<1>11. CASE DeleteEpisodes(o)
  BY <1>6, <1>11 DEF DeleteEpisodes, serviceVars, NoMemory, ClosingInv
<1>12. CASE DeleteWorking(o)
  BY <1>6, <1>12 DEF DeleteWorking, serviceVars, NoMemory
<1>13. CASE AdminRefresh(o)
  <2>1. PICK c \in Convs : Execute(c, "admin_trigger", FALSE)
    BY <1>13 DEF AdminRefresh, LatestConvs, Newest, ActiveConvs
  <2>2. UNCHANGED <<log, status, ended, working, episode>>
    BY <1>13 DEF AdminRefresh, rowVars, historyVars
  <2>3. /\ \A q \in RefreshIds : promotion'[q] = promotion[q]
        /\ promotion[issued'].pc # "refreshing"
        /\ \A q \in RefreshIds : q # issued' => refresh'[q] = refresh[q]
    BY <2>1, Asked, AskedPromotes DEF Triggers
  <2>4. PromotionsInv'
    BY <2>2, <2>3 DEF ClosingInv, PromotionsInv, Live
  <2> QED BY <2>2, <2>4, ClosingKept DEF ClosingInv
<1>14. CASE AdminClear(o)
  BY <1>6, <1>14 DEF AdminClear, serviceVars, NoMemory
<1> QED BY <1>2, <1>3, <1>4, <1>5, <1>7, <1>8, <1>9, <1>10, <1>11, <1>12, <1>13, <1>14, <1>15,
           <1>16
        DEF OpStep, LifecycleStep

(* All this holds of any number of clients.                                 *)
LEMMA ClosingInvHolds ==
  MemorySpec => []ClosingInv
<1>1. MemoryInit => ClosingInv
  <2> SUFFICES ASSUME MemoryInit PROVE ClosingInv
    OBVIOUS
  <2>1. /\ \A c \in Convs : working[c] = NoMemory /\ episode[c] = NoMemory /\ ended[c] = 0
        /\ \A r \in RefreshIds : promotion[r].pc = "none"
    BY DEF MemoryInit, NoPromotion
  <2>2. \A c \in Existing : log[c] = Spoken /\ c \in Convs /\ Len(Spoken) \in Nat
    BY MemoryAssumption DEF MemoryInit, Existing
  <2> QED BY <2>1, <2>2 DEF ClosingInv, PromotionsInv, NoMemory
<1>2. MemoryTypeInv /\ ChainInv /\ EndingsInv /\ ClosingInv /\ [MemoryNext]_memoryVars
      => ClosingInv'
  <2> SUFFICES ASSUME MemoryTypeInv, ChainInv, EndingsInv, ClosingInv, [MemoryNext]_memoryVars
               PROVE  ClosingInv'
    OBVIOUS
  <2>1. ASSUME NEW o \in Ops, Restart(o) PROVE ClosingInv'
    <3>1. UNCHANGED <<log, status, ended, working, episode>>
          /\ \A r \in RefreshIds : promotion'[r].pc = "none"
      BY <2>1 DEF Restart, NoPromotion, rowVars, historyVars
    <3> QED BY <3>1 DEF ClosingInv, PromotionsInv, Existing
  <2>2. CASE UNCHANGED memoryVars
    BY <2>2, PromotionsKept DEF memoryVars, rowVars, serviceVars, historyVars, ClosingInv, Existing
  <2> QED BY <2>1, <2>2, TurnClosing, OpClosing, RefreshClosing, PromotionClosing DEF MemoryNext
<1> QED BY <1>1, <1>2, MemoryTypeInvHolds, ChainInvHolds, EndingsInvHolds, PTL DEF MemorySpec

(* What a writer had before it holds every exchange the conversation had    *)
(* when it closed, but what an operator's clear deleted.                    *)
Ended(c) == {i \in ExchangeEnds(log[c]) : i <= ended[c]}
Remembers(c, S) == \A i \in Ended(c) : <<c, i>> \in S \cup cleared

Kept(c) ==
  /\ Remembers(c, working[c].seen)
  /\ \A r \in RefreshIds : refresh[r].pc = "rewriting" /\ refresh[r].conv = c
       => Remembers(c, refresh[r].seen \cup refresh[r].window)

(* The pipeline that made the call r has the conversation's ending in hand. *)
Carries(r, c) ==
  /\ promotion[r].pc = "refreshing" /\ refresh[r].pc = "recalling" =>
       Remembers(c, refresh[r].window \cup working[c].seen)
  /\ promotion[r].pc = "refreshing" /\ refresh[r].pc = "rewriting" =>
       Remembers(c, refresh[r].window \cup refresh[r].seen)
  /\ promotion[r].pc \in {"check", "draft"} => Kept(c)
  /\ promotion[r].pc = "create" => Remembers(c, promotion[r].seen)

(* So has each pipeline of the conversation, and so has its episode.        *)
Promoted(c) ==
  /\ \A r \in RefreshIds : promotion[r].pc # "none" /\ promotion[r].conv = c => Carries(r, c)
  /\ episode[c].present => Remembers(c, episode[c].seen)

PipelineInv == ~restarted => \A c \in Existing \ FaultyConvs : Promoted(c)

(* What is remembered stays so while the ending does.                       *)
LEMMA RemembersKept ==
  ASSUME NEW c, Ended(c)' \subseteq Ended(c), cleared \subseteq cleared'
  PROVE  \A S : Remembers(c, S) => \A i \in Ended(c)' : <<c, i>> \in S \cup cleared'
BY DEF Remembers

(* A conversation without an ending has nothing to remember.                *)
LEMMA NothingEnded ==
  ASSUME NEW c, \A i \in Ended(c)' : <<c, i>> \in cleared'
  PROVE  Promoted(c)'
BY DEF Promoted, Carries, Kept, Remembers

(* A step that leaves the row alone, lets none of the conversation's        *)
(* refreshes go on, and only drops pipelines.                               *)
LEMMA PromotedKept ==
  ASSUME NEW c, Promoted(c), Ended(c)' \subseteq Ended(c), cleared \subseteq cleared',
         working'[c].seen = working[c].seen,
         episode'[c].present => episode'[c] = episode[c],
         \A r \in RefreshIds :
           refresh'[r].pc \in {"recalling", "rewriting"} /\ refresh'[r].conv = c
           => refresh'[r] = refresh[r],
         \A r \in RefreshIds : promotion'[r].pc # "none" /\ promotion'[r].conv = c =>
           \/ promotion'[r] = promotion[r]
           \/ promotion'[r].pc = "refreshing" /\ refresh'[r].pc = "queued",
         \A r \in RefreshIds : promotion'[r].pc = "refreshing" => refresh'[r].conv = promotion'[r].conv
  PROVE  Promoted(c)'
<1>1. \A S, T : T = S /\ Remembers(c, S) => \A i \in Ended(c)' : <<c, i>> \in T \cup cleared'
  BY RemembersKept
<1>2. Kept(c) => Kept(c)'
  BY <1>1 DEF Kept, Remembers
<1>3. ASSUME NEW r \in RefreshIds, promotion'[r].pc # "none", promotion'[r].conv = c
      PROVE  Carries(r, c)'
  <2>1. CASE promotion'[r] = promotion[r]
    <3>1. Carries(r, c)
      BY <1>3, <2>1 DEF Promoted
    <3>2. promotion[r].pc = "refreshing" /\ refresh'[r].pc \in {"recalling", "rewriting"}
          => refresh'[r] = refresh[r]
      BY <1>3, <2>1
    <3> QED BY <1>1, <1>2, <2>1, <3>1, <3>2 DEF Carries, Remembers
  <2>2. CASE promotion'[r].pc = "refreshing" /\ refresh'[r].pc = "queued"
    BY <2>2 DEF Carries
  <2> QED BY <1>3, <2>1, <2>2
<1>4. episode'[c].present => \A i \in Ended(c)' : <<c, i>> \in episode'[c].seen \cup cleared'
  BY <1>1 DEF Promoted
<1> QED BY <1>3, <1>4 DEF Promoted, Remembers

(* A step that neither says anything nor closes leaves the ending alone.    *)
LEMMA EndedKept ==
  ASSUME NEW c, log'[c] = log[c], ended'[c] = ended[c]
  PROVE  Ended(c)' = Ended(c)
BY DEF Ended

(* A refresh starts, for a pipeline or not.                                 *)
LEMMA StartPromotes ==
  ASSUME OneClient, Windows, MemoryTypeInv, ChainInv, PhaseInv, CoverInv, ClosingInv, ~restarted,
         NEW r \in RefreshIds, RefreshStep(r), StartRefresh(r),
         NEW c \in Existing \ FaultyConvs, refresh[r].conv = c, Promoted(c)
  PROVE  Promoted(c)'
<1>1. /\ UNCHANGED <<log, ended, cleared, working, episode>> /\ refresh[r].pc = "queued"
      /\ \A q \in RefreshIds : q # r => refresh'[q] = refresh[q]
      /\ refresh \in [RefreshIds -> Refresh] /\ c \in Convs
  BY RefreshChanges DEF StartRefresh, rowVars, MemoryTypeInv, CallInv, Existing
<1>2. Ended(c)' = Ended(c)
  BY <1>1, EndedKept
<1>3. CASE ~Due(r, c)
  <2>1. Settle(r) /\ promotion[r].pc # "refreshing"
    BY <1>3 DEF StartRefresh, Due, ClosingInv, PromotionsInv
  <2>2. promotion' = promotion /\ refresh'[r].pc = "settled"
    BY <2>1, SettlePromotes DEF Settle, MemoryTypeInv, PromotionInv
  <2>3. \A q \in RefreshIds : promotion'[q].pc = "refreshing" => refresh'[q].conv = promotion'[q].conv
    BY <1>1, <2>1, <2>2 DEF ClosingInv, PromotionsInv
  <2> QED BY <1>1, <1>2, <2>2, <2>3, PromotedKept
<1>4. CASE Due(r, c)
  <2>1. PICK w : w = RefreshSees(c)
    BY Zenon
  <2>2. refresh' = [refresh EXCEPT ![r] = [@ EXCEPT !.pc = "recalling", !.prior = 0, !.window = w]]
        /\ UNCHANGED promotion
    BY <1>4, <2>1 DEF StartRefresh
  <2>3. refresh'[r].pc = "recalling" /\ refresh'[r].conv = c /\ refresh'[r].window = w
    BY <1>1, <2>2 DEF Refresh
  <2>4. Remembers(c, w \cup working[c].seen)
    <3>1. ASSUME NEW i \in Ended(c), <<c, i>> \notin working[c].seen \cup cleared
          PROVE  <<c, i>> \in w
      <4>1. i \in ExchangeEnds(log[c]) /\ RefreshWindow \in Nat
        BY MemoryAssumption DEF Ended
      <4>2. i \in InWindow(log[c], RefreshWindow)
        BY <3>1, <4>1, RestIsRecent DEF Windows
      <4> QED BY <2>1, <4>2 DEF RefreshSees, PointsOf
    <3> QED BY <3>1 DEF Remembers
  <2>5. Kept(c) => Kept(c)'
    BY <1>1, <1>2, <2>3 DEF Kept, Remembers
  <2>6. ASSUME NEW q \in RefreshIds, promotion[q].pc # "none", promotion[q].conv = c
        PROVE  Carries(q, c)'
    <3>1. Carries(q, c)
      BY <2>6 DEF Promoted
    <3>2. CASE q = r
      BY <1>1, <1>2, <2>2, <2>3, <2>4, <2>5, <3>1, <3>2 DEF Carries, Remembers
    <3>3. CASE q # r
      BY <1>1, <1>2, <2>2, <2>5, <3>1, <3>3 DEF Carries, Remembers
    <3> QED BY <3>2, <3>3
  <2>7. (episode[c].present => Remembers(c, episode[c].seen))'
    BY <1>1, <1>2 DEF Promoted, Remembers
  <2> QED BY <2>2, <2>6, <2>7 DEF Promoted
<1> QED BY <1>3, <1>4

(* The refresh reads the row it will rewrite.                               *)
LEMMA ReadPromotes ==
  ASSUME MemoryTypeInv, ChainInv, NEW r \in RefreshIds, RefreshStep(r), ReadPriorMemory(r),
         NEW c \in Convs, refresh[r].conv = c, Promoted(c)
  PROVE  Promoted(c)'
<1>1. /\ UNCHANGED <<log, ended, cleared, working, episode, promotion>>
      /\ refresh[r].pc = "recalling"
      /\ \A q \in RefreshIds : q # r => refresh'[q] = refresh[q]
      /\ refresh \in [RefreshIds -> Refresh]
  BY RefreshChanges DEF ReadPriorMemory, rowVars, MemoryTypeInv, CallInv
<1>2. Ended(c)' = Ended(c)
  BY <1>1, EndedKept
<1>3. PICK s : s = working[c].seen
  BY Zenon
<1>4. refresh' = [refresh EXCEPT ![r] = [@ EXCEPT !.pc = "rewriting", !.seen = s]]
  BY <1>3 DEF ReadPriorMemory
<1>5. /\ refresh'[r].pc = "rewriting" /\ refresh'[r].conv = c /\ refresh'[r].seen = s
      /\ refresh'[r].window = refresh[r].window
  BY <1>1, <1>4 DEF Refresh
<1>6. Kept(c) => Kept(c)'
  BY <1>1, <1>2, <1>3, <1>5 DEF Kept, Remembers
<1>7. ASSUME NEW q \in RefreshIds, promotion[q].pc # "none", promotion[q].conv = c
      PROVE  Carries(q, c)'
  <2>1. Carries(q, c)
    BY <1>7 DEF Promoted
  <2>2. CASE q = r
    BY <1>1, <1>2, <1>3, <1>5, <1>6, <2>1, <2>2 DEF Carries, Remembers
  <2>3. CASE q # r
    BY <1>1, <1>2, <1>6, <2>1, <2>3 DEF Carries, Remembers
  <2> QED BY <2>2, <2>3
<1>8. (episode[c].present => Remembers(c, episode[c].seen))'
  BY <1>1, <1>2 DEF Promoted, Remembers
<1> QED BY <1>1, <1>7, <1>8 DEF Promoted

(* The row it writes holds the ending.                                      *)
LEMMA RewritePromotes ==
  ASSUME MemoryTypeInv, ChainInv, ClosingInv, NEW r \in RefreshIds, RefreshStep(r),
         RewriteMemory(r), NEW c \in Convs, refresh[r].conv = c, Promoted(c)
  PROVE  Promoted(c)'
<1>1. /\ UNCHANGED <<log, ended, cleared, episode>> /\ refresh[r].pc = "rewriting" /\ Settle(r)
      /\ \A q \in RefreshIds : q # r => refresh'[q] = refresh[q]
  BY RefreshChanges DEF RewriteMemory
<1>2. Ended(c)' = Ended(c)
  BY <1>1, EndedKept
<1>3. /\ \A q \in RefreshIds : q # r => promotion'[q] = promotion[q]
      /\ promotion'[r].pc = IF promotion[r].pc = "refreshing" THEN "check" ELSE promotion[r].pc
      /\ promotion'[r].conv = promotion[r].conv /\ promotion'[r].seen = promotion[r].seen
      /\ refresh'[r].pc = "settled"
  BY <1>1, SettlePromotes
<1>4. working'[c].seen = refresh[r].seen \cup refresh[r].window
  BY DEF RewriteMemory, Upsert, MemoryTypeInv, RowInv
<1>5. ASSUME NEW q \in RefreshIds, refresh'[q].pc \in {"recalling", "rewriting"},
             refresh'[q].conv = c
      PROVE  FALSE
  <2>1. q # r /\ refresh[q].pc \in {"recalling", "rewriting"} /\ refresh[q].conv = c
    BY <1>1, <1>3, <1>5
  <2>2. Earliest(q) /\ Earliest(r) /\ Live(q) /\ Live(r)
    BY <1>1, <2>1 DEF ChainInv, Live
  <2>3. q <= r /\ r <= q /\ q \in Nat /\ r \in Nat
    BY <2>1, <2>2, AwaitTypes DEF Earliest
  <2> QED BY <2>1, <2>3
<1>6. Remembers(c, refresh[r].seen \cup refresh[r].window) => Kept(c)'
  BY <1>1, <1>2, <1>4, <1>5 DEF Kept, Remembers
<1>7. ASSUME NEW q \in RefreshIds, promotion'[q].pc # "none", promotion'[q].conv = c
      PROVE  Carries(q, c)'
  <2>1. Carries(q, c)
    BY <1>3, <1>7 DEF Promoted
  <2>2. CASE promotion'[q].pc = "refreshing"
    <3>1. promotion[q].pc = "refreshing" /\ q # r
      BY <1>3, <2>2
    <3>2. refresh'[q].conv = c
      BY <1>1, <1>3, <1>7, <3>1 DEF ClosingInv, PromotionsInv
    <3> QED BY <1>5, <2>2, <3>2 DEF Carries
  <2>3. CASE promotion'[q].pc \in {"check", "draft"}
    <3>1. Remembers(c, refresh[r].seen \cup refresh[r].window)
      <4>1. CASE promotion[q].pc \in {"check", "draft"}
        BY <1>1, <2>1, <4>1 DEF Carries, Kept
      <4>2. CASE promotion[q].pc = "refreshing" /\ q = r
        BY <1>1, <2>1, <4>2 DEF Carries, Remembers
      <4> QED BY <1>3, <2>3, <4>1, <4>2
    <3> QED BY <1>6, <2>3, <3>1 DEF Carries
  <2>4. CASE promotion'[q].pc = "create"
    <3>1. promotion[q].pc = "create" /\ promotion'[q].seen = promotion[q].seen
      BY <1>3, <2>4
    <3> QED BY <1>1, <1>2, <2>1, <2>4, <3>1 DEF Carries, Remembers
  <2>5. CASE promotion'[q].pc = "failed"
    BY <2>5 DEF Carries
  <2>6. promotion'[q].pc \in {"none", "refreshing", "check", "draft", "create", "failed"}
    <3>1. promotion[q].pc \in {"none", "refreshing", "check", "draft", "create", "failed"}
      BY DEF MemoryTypeInv, PromotionInv, Promotion
    <3> QED BY <1>3, <3>1
  <2> QED BY <1>7, <2>2, <2>3, <2>4, <2>5, <2>6
<1>8. (episode[c].present => Remembers(c, episode[c].seen))'
  BY <1>1, <1>2 DEF Promoted, Remembers
<1> QED BY <1>7, <1>8 DEF Promoted

(* No step of a refresh loses an ending.                                    *)
LEMMA RefreshPromotes ==
  ASSUME OneClient, Windows, MemoryTypeInv, ChainInv, PhaseInv, CoverInv, ClosingInv, ClosingInv',
         PipelineInv, NEW r \in RefreshIds, RefreshStep(r)
  PROVE  PipelineInv'
<1> SUFFICES ASSUME ~restarted', NEW c \in Existing' \ FaultyConvs PROVE Promoted(c)'
  BY DEF PipelineInv
<1>1. /\ UNCHANGED <<log, status, restarted, cleared, ended>>
      /\ \A q \in RefreshIds : q # r => refresh'[q] = refresh[q]
      /\ \A d : d # refresh[r].conv => working'[d] = working[d]
  BY RefreshChanges
<1>2. c \in Existing \ FaultyConvs /\ c \in Convs /\ Promoted(c) /\ ~restarted
  BY <1>1 DEF Existing, PipelineInv
<1>3. CASE refresh[r].conv = c
  <2>1. ~RefreshFails(r)
    BY <1>2, <1>3, ExistsIsExisting DEF RefreshFails
  <2> QED BY <1>2, <1>3, <2>1, StartPromotes, ReadPromotes, RewritePromotes DEF RefreshStep
<1>4. CASE refresh[r].conv # c
  <2>1. refresh'[r].conv = refresh[r].conv \/ refresh'[r].pc = "settled"
    <3>1. CASE Settle(r)
      BY <3>1, SettlePromotes
    <3>2. CASE ReadPriorMemory(r)
      BY <3>2 DEF ReadPriorMemory, MemoryTypeInv, CallInv, Refresh
    <3>3. CASE StartRefresh(r) /\ ~Settle(r)
      BY <3>3 DEF StartRefresh, MemoryTypeInv, CallInv, Refresh
    <3> QED BY <3>1, <3>2, <3>3 DEF RefreshStep, RewriteMemory, RefreshFails
  <2>2. \A q \in RefreshIds : promotion'[q].pc # "none" /\ promotion'[q].conv = c
                              => promotion'[q] = promotion[q]
    <3>1. CASE UNCHANGED promotion
      BY <3>1
    <3>2. CASE Settle(r)
      <4>1. promotion[r].pc = "refreshing" => promotion[r].conv # c
        BY <1>4 DEF ClosingInv, PromotionsInv
      <4>2. promotion[r].pc # "refreshing" => promotion'[r] = promotion[r]
        BY <3>2 DEF Settle, MemoryTypeInv, PromotionInv
      <4> QED BY <3>2, <4>1, <4>2, SettlePromotes
    <3> QED BY <3>1, <3>2 DEF RefreshStep, StartRefresh, ReadPriorMemory, RewriteMemory, RefreshFails
  <2>3. \A q \in RefreshIds : promotion'[q].pc = "refreshing" => refresh'[q].conv = promotion'[q].conv
    BY DEF ClosingInv, PromotionsInv
  <2>4. UNCHANGED episode
    BY DEF RefreshStep, StartRefresh, ReadPriorMemory, RewriteMemory, RefreshFails, rowVars
  <2>5. Ended(c)' = Ended(c)
    BY <1>1, EndedKept
  <2> QED BY <1>1, <1>2, <1>4, <2>1, <2>2, <2>3, <2>4, <2>5, PromotedKept
<1> QED BY <1>3, <1>4

(* A pipeline takes the ending from the row into the episode.               *)
LEMMA PromotionPromotes ==
  ASSUME MemoryTypeInv, ClosingInv, ClosingInv', PipelineInv, NEW r \in RefreshIds, PromotionStep(r)
  PROVE  PipelineInv'
<1> SUFFICES ASSUME ~restarted', NEW c \in Existing' \ FaultyConvs PROVE Promoted(c)'
  BY DEF PipelineInv
<1>1. /\ UNCHANGED <<log, status, restarted, cleared, ended, working, refresh>>
      /\ promotion \in [RefreshIds -> Promotion] /\ promotion[r] \in Promotion
      /\ promotion[r].pc # "none" /\ promotion[r].conv \in Convs
  BY DEF PromotionStep, CheckEpisode, DraftEpisode, CreateEpisode, EpisodeFails, GotoPromotion,
     rowVars, historyVars, MemoryTypeInv, PromotionInv
<1>2. /\ c \in Existing \ FaultyConvs /\ c \in Convs /\ Promoted(c)
      /\ Ended(c)' = Ended(c) /\ (Kept(c)' <=> Kept(c))
  BY <1>1, EndedKept DEF Existing, PipelineInv, Kept, Remembers
<1>3. \A q \in RefreshIds : q # r => promotion'[q] = promotion[q]
  BY <1>1 DEF PromotionStep, CheckEpisode, DraftEpisode, CreateEpisode, EpisodeFails, GotoPromotion
<1>4. ASSUME NEW q \in RefreshIds, q # r, promotion'[q].pc # "none", promotion'[q].conv = c
      PROVE  Carries(q, c)'
  <2>1. Carries(q, c) /\ promotion'[q] = promotion[q]
    BY <1>2, <1>3, <1>4 DEF Promoted
  <2> QED BY <1>1, <1>2, <2>1 DEF Carries, Remembers
<1>5. CASE CheckEpisode(r)
  <2>1. /\ \/ promotion'[r].pc = "none"
           \/ promotion'[r].pc = "draft" /\ promotion'[r].conv = promotion[r].conv
        /\ promotion[r].pc = "check" /\ UNCHANGED episode
    <3>1. PICK p : p = [promotion[r] EXCEPT !.pc = "draft"]
      BY Zenon
    <3>2. promotion[r].pc = "check" /\ UNCHANGED episode
      BY <1>5 DEF CheckEpisode, rowVars
    <3>4. \/ promotion' = [promotion EXCEPT ![r] = NoPromotion]
          \/ promotion' = [promotion EXCEPT ![r] = p]
      BY <1>5, <3>1 DEF CheckEpisode, GotoPromotion
    <3>3. p.pc = "draft" /\ p.conv = promotion[r].conv /\ NoPromotion.pc = "none"
      BY <1>1, <3>1 DEF Promotion, NoPromotion
    <3>5. promotion'[r] = NoPromotion \/ promotion'[r] = p
      BY <1>1, <3>4
    <3> QED BY <3>2, <3>3, <3>5
  <2>2. promotion'[r].pc # "none" /\ promotion'[r].conv = c => Carries(r, c)'
    BY <1>2, <2>1 DEF Promoted, Carries
  <2>3. (episode[c].present => Remembers(c, episode[c].seen))'
    BY <1>1, <1>2, <2>1 DEF Promoted, Remembers
  <2> QED BY <1>4, <2>2, <2>3 DEF Promoted
<1>6. CASE DraftEpisode(r)
  <2>1. PICK s : s = IF working[promotion[r].conv].present THEN working[promotion[r].conv].seen
                                                           ELSE Fallback(promotion[r].conv)
    BY Zenon
  <2>2. /\ promotion[r].pc = "draft" /\ UNCHANGED episode
        /\ promotion' = [promotion EXCEPT ![r] = [promotion[r] EXCEPT !.pc = "create", !.seen = s]]
    BY <1>6, <2>1 DEF DraftEpisode, GotoPromotion, rowVars
  <2>3. /\ promotion'[r].pc = "create" /\ promotion'[r].conv = promotion[r].conv
        /\ promotion'[r].seen = s
    BY <1>1, <2>2 DEF Promotion
  <2>4. ASSUME promotion'[r].conv = c PROVE Carries(r, c)'
    <3>1. Remembers(c, working[c].seen)
      BY <1>2, <2>2, <2>3, <2>4 DEF Promoted, Carries, Kept
    <3>2. working[c].seen \subseteq s
      BY <1>2, <2>1, <2>3, <2>4 DEF ClosingInv
    <3>3. Remembers(c, s)
      BY <3>1, <3>2 DEF Remembers
    <3> QED BY <1>1, <1>2, <2>3, <3>3 DEF Carries, Remembers
  <2>5. (episode[c].present => Remembers(c, episode[c].seen))'
    BY <1>1, <1>2, <2>2 DEF Promoted, Remembers
  <2> QED BY <1>4, <2>4, <2>5 DEF Promoted
<1>7. CASE CreateEpisode(r)
  <2>1. promotion[r].pc = "create" /\ promotion'[r].pc = "none"
    BY <1>1, <1>7 DEF CreateEpisode, GotoPromotion, NoPromotion
  <2>2. (episode[c].present => Remembers(c, episode[c].seen))'
    <3>1. CASE episode'[c] = episode[c]
      BY <1>1, <1>2, <3>1 DEF Promoted, Remembers
    <3>2. CASE episode'[c] # episode[c]
      <4>1. promotion[r].conv = c /\ episode'[c].seen = promotion[r].seen
        BY <1>2, <1>7, <3>2 DEF CreateEpisode, InsertEpisode, MemoryTypeInv, RowInv
      <4>2. Remembers(c, promotion[r].seen)
        BY <1>2, <2>1, <4>1 DEF Promoted, Carries
      <4> QED BY <1>1, <1>2, <4>1, <4>2 DEF Remembers
    <3> QED BY <3>1, <3>2
  <2> QED BY <1>4, <2>1, <2>2 DEF Promoted
<1>8. CASE EpisodeFails(r)
  <2>1. promotion'[r].pc = "failed" /\ UNCHANGED episode
    BY <1>1, <1>8 DEF EpisodeFails, GotoPromotion, NoPromotion, rowVars
  <2>2. (episode[c].present => Remembers(c, episode[c].seen))'
    BY <1>1, <1>2, <2>1 DEF Promoted, Remembers
  <2>3. Carries(r, c)'
    BY <2>1 DEF Carries
  <2> QED BY <1>4, <2>2, <2>3 DEF Promoted
<1> QED BY <1>5, <1>6, <1>7, <1>8 DEF PromotionStep

(* What a turn says comes after the ending, and its refresh is no           *)
(* pipeline's.                                                              *)
LEMMA TurnPromotes ==
  ASSUME MemoryTypeInv, ChainInv, ClosingInv, ClosingInv', PipelineInv, NEW t \in Turns, TurnStep(t)
  PROVE  PipelineInv'
<1> SUFFICES ASSUME ~restarted', NEW c \in Existing' \ FaultyConvs PROVE Promoted(c)'
  BY DEF PipelineInv
<1>1. /\ UNCHANGED <<status, ended, working, episode, restarted, cleared>>
      /\ log'[c] = log[c] \/ \E role \in Roles : log'[c] = Append(log[c], role)
  BY TurnChanges DEF Existing
<1>2. c \in Existing \ FaultyConvs /\ c \in Convs /\ Promoted(c)
  BY <1>1 DEF Existing, PipelineInv
<1>3. Ended(c)' \subseteq Ended(c)
  <2>1. log[c] \in Seq(Roles) /\ ended[c] \in Nat /\ ended[c] <= Len(log[c])
    BY <1>2 DEF ClosingInv, MemoryTypeInv, RowInv, HistoryInv
  <2>2. ASSUME NEW role \in Roles, log'[c] = Append(log[c], role)
        PROVE  \A i \in ExchangeEnds(log'[c]) : i <= ended[c] => i \in ExchangeEnds(log[c])
    <3>1. /\ Len(log'[c]) = Len(log[c]) + 1
          /\ \A i \in 1..Len(log[c]) : log'[c][i] = log[c][i]
      BY <2>1, <2>2 DEF Roles
    <3>2. ASSUME NEW i \in ExchangeEnds(log'[c]), i <= ended[c] PROVE i \in ExchangeEnds(log[c])
      <4>1. i \in 2..Len(log[c]) /\ i - 1 \in 1..Len(log[c]) /\ i \in 1..Len(log[c])
        BY <2>1, <3>1, <3>2 DEF ExchangeEnds
      <4>2. log'[c][i] = log[c][i] /\ log'[c][i - 1] = log[c][i - 1]
        BY <3>1, <4>1
      <4> QED BY <3>2, <4>1, <4>2 DEF ExchangeEnds
    <3> QED BY <3>2
  <2> QED BY <1>1, <2>1, <2>2 DEF Ended
<1>4. \A q \in RefreshIds : promotion'[q].pc = "refreshing" => refresh'[q].conv = promotion'[q].conv
  BY DEF ClosingInv, PromotionsInv
<1>5. CASE UNCHANGED <<refresh, promotion>>
  BY <1>1, <1>2, <1>3, <1>4, <1>5, PromotedKept
<1>6. ASSUME NEW d \in Convs, Execute(d, "post_turn", FALSE) PROVE Promoted(c)'
  <2>1. /\ \A q \in RefreshIds : promotion'[q] = promotion[q]
        /\ \A q \in RefreshIds : q # issued' => refresh'[q] = refresh[q]
        /\ refresh'[issued'].pc = "queued"
    BY <1>6, Asked, AskedPromotes DEF Triggers
  <2> QED BY <1>1, <1>2, <1>3, <1>4, <2>1, PromotedKept
<1> QED BY <1>5, <1>6, TurnChanges

(* The refresh of a new pipeline is still to start; a reset leaves no       *)
(* endings.                                                                 *)
LEMMA OpPromotes ==
  ASSUME MemoryTypeInv, ChainInv, PhaseInv, ClosingInv, ClosingInv', PipelineInv,
         NEW o \in Ops, OpStep(o)
  PROVE  PipelineInv'
<1> SUFFICES ASSUME ~restarted', NEW c \in Existing' \ FaultyConvs PROVE Promoted(c)'
  BY DEF PipelineInv
<1>1. UNCHANGED <<turn, restarted>> /\ c \in Convs
  BY DEF OpStep, Existing
<1>2. \A q \in RefreshIds : promotion'[q].pc = "refreshing" => refresh'[q].conv = promotion'[q].conv
  BY DEF ClosingInv, PromotionsInv
<1>3. ASSUME Promoted(c), log'[c] = log[c], ended'[c] = ended[c], cleared \subseteq cleared',
             working'[c].seen = working[c].seen, episode'[c].present => episode'[c] = episode[c],
             UNCHANGED <<refresh, promotion>>
      PROVE  Promoted(c)'
  BY <1>2, <1>3, EndedKept, PromotedKept
<1>4. ASSUME log'[c] = <<>> PROVE Promoted(c)'
  BY <1>4, NothingEnded DEF Ended, ExchangeEnds
<1>5. CASE c \notin Existing
  <2>1. status[c] # "closed" /\ status'[c] \in {"active", "closed"} /\ status[c] # "active"
    BY <1>1, <1>5 DEF Existing
  <2>2. ~\E e : Close(e) /\ (ClosePrevious(o) \/ EndConversation(o))
    BY <1>1, <2>1 DEF Close, Exists, MemoryTypeInv, RowInv
  <2>3. PICK d \in Convs : CreateConversation(o, d)
    BY <1>1, <2>1, <2>2 DEF OpStep, LifecycleStep, FindActive, ClosePrevious, ReadEpisodes, Hydrate,
       LoadConversation, EndConversation, PromoteEnded, TouchSessionFails, DeleteMessages,
       DeleteConversations, DeleteEpisodes, DeleteWorking, OpFails, AdminRefresh, AdminClear, rowVars
  <2>4. status[d] = "absent" /\ status' = [status EXCEPT ![d] = "active"] /\ UNCHANGED log
    BY <2>3 DEF CreateConversation
  <2>5. c = d
    BY <1>1, <2>1, <2>4 DEF MemoryTypeInv, RowInv
  <2>6. log[c] = <<>>
    BY <1>1, <2>4, <2>5 DEF PhaseInv, Created, Untouched
  <2> QED BY <1>4, <2>4, <2>6
<1>6. CASE c \in Existing
  <2>1. Promoted(c)
    BY <1>1, <1>6 DEF PipelineInv
  <2>2. ASSUME NEW k \in AllKinds, FindActive(o, k), UNCHANGED cleared PROVE Promoted(c)'
    BY <1>3, <2>1, <2>2 DEF FindActive, rowVars, serviceVars
  <2>13. ASSUME NEW d \in Convs, NEW trigger \in Triggers, Execute(d, trigger, TRUE)
         PROVE  /\ \A q \in RefreshIds : q # issued' => promotion'[q] = promotion[q]
                /\ promotion'[issued'].pc = "refreshing" /\ promotion'[issued'].conv = d
                /\ \A q \in RefreshIds : q # issued' => refresh'[q] = refresh[q]
                /\ refresh'[issued'].pc = "queued"
    BY <2>13, Asked, AskedPromotes
  <2>3. CASE (ClosePrevious(o) \/ EndConversation(o)) /\ UNCHANGED cleared
    <3>1. PICK d \in Convs : d = op[o].previous /\ Close(d)
      BY <2>3 DEF ClosePrevious, EndConversation, Close, Exists
    <3>2. /\ UNCHANGED <<log, working, episode>>
          /\ ended' = [ended EXCEPT ![d] = IF status[d] = "active" THEN Len(log[d]) ELSE @]
          /\ UNCHANGED <<refresh, promotion>> \/ Execute(d, "avatar_switch", TRUE)
      BY <2>3, <3>1 DEF ClosePrevious, EndConversation, RunBackgroundClosePipeline, Close, serviceVars
    <3>3. \A q \in RefreshIds :
            \/ promotion'[q] = promotion[q] /\ refresh'[q] = refresh[q]
            \/ promotion'[q].pc = "refreshing" /\ refresh'[q].pc = "queued"
      BY <2>13, <3>2 DEF Triggers
    <3>4. CASE c # d \/ status[c] # "active"
      <4>1. ended'[c] = ended[c]
        BY <1>1, <3>2, <3>4 DEF MemoryTypeInv, HistoryInv
      <4>2. Ended(c)' = Ended(c)
        BY <3>2, <4>1, EndedKept
      <4> QED BY <1>2, <2>1, <2>3, <3>2, <3>3, <4>2, PromotedKept
    <3>5. CASE c = d /\ status[c] = "active"
      <4>1. ~episode[c].present /\ \A q \in RefreshIds : ~(promotion[q].pc # "none" /\ promotion[q].conv = c)
        BY <1>1, <3>5 DEF ClosingInv, PromotionsInv
      <4>2. ASSUME NEW q \in RefreshIds, promotion'[q].pc # "none", promotion'[q].conv = c
            PROVE  Carries(q, c)'
        <5>1. promotion'[q].pc = "refreshing" /\ refresh'[q].pc = "queued"
          BY <3>3, <4>1, <4>2
        <5> QED BY <5>1 DEF Carries
      <4> QED BY <3>2, <4>1, <4>2 DEF Promoted
    <3> QED BY <3>4, <3>5
  <2>14. CASE PromoteEnded(o) /\ UNCHANGED cleared
    <3>1. /\ op[o].previous \in Convs /\ UNCHANGED <<log, working, episode, ended>>
          /\ Execute(op[o].previous, "conversation_closed", TRUE)
      BY <2>14 DEF PromoteEnded, RunBackgroundClosePipeline, rowVars, MemoryTypeInv, OpInv
    <3>2. \A q \in RefreshIds :
            \/ promotion'[q] = promotion[q] /\ refresh'[q] = refresh[q]
            \/ promotion'[q].pc = "refreshing" /\ refresh'[q].pc = "queued"
      BY <2>13, <3>1 DEF Triggers
    <3>3. Ended(c)' = Ended(c)
      BY <3>1, EndedKept
    <3> QED BY <1>2, <2>1, <2>14, <3>1, <3>2, <3>3, PromotedKept
  <2>15. CASE TouchSessionFails(o) /\ UNCHANGED cleared
    BY <1>3, <2>1, <2>15 DEF TouchSessionFails, rowVars, serviceVars
  <2>4. ASSUME NEW d \in Convs, CreateConversation(o, d), UNCHANGED cleared PROVE Promoted(c)'
    BY <1>3, <2>1, <2>4 DEF CreateConversation, serviceVars
  <2>5. CASE (ReadEpisodes(o) \/ OpFails(o)) /\ UNCHANGED cleared
    BY <1>3, <2>1, <2>5 DEF ReadEpisodes, OpFails, rowVars, serviceVars
  <2>6. CASE Hydrate(o) /\ UNCHANGED cleared
    <3>1. UNCHANGED <<log, ended, episode, refresh, promotion>>
      BY <2>6 DEF Hydrate, serviceVars
    <3>2. CASE op[o].conv = c
      <4>1. log[c] = <<>>
        BY <1>6, <2>6, <3>2 DEF PhaseInv, Hydrate, Untouched
      <4> QED BY <1>4, <3>1, <4>1
    <3>3. CASE op[o].conv # c
      <4>1. working'[c] = working[c]
        BY <1>1, <2>6, <3>3 DEF Hydrate, Upsert, MemoryTypeInv, RowInv
      <4> QED BY <1>3, <2>1, <2>6, <3>1, <4>1
    <3> QED BY <3>2, <3>3
  <2>7. ASSUME NEW d \in Convs, LoadConversation(o, d), UNCHANGED cleared PROVE Promoted(c)'
    BY <1>3, <2>1, <2>7 DEF LoadConversation, rowVars, serviceVars
  <2>8. CASE DeleteMessages(o) \/ DeleteConversations(o)
    BY <1>1, <1>4, <2>8 DEF DeleteMessages, DeleteConversations
  <2>9. CASE DeleteEpisodes(o) /\ UNCHANGED cleared
    BY <1>1, <1>3, <2>1, <2>9 DEF DeleteEpisodes, serviceVars, NoMemory
  <2>10. CASE DeleteWorking(o)
    <3>1. log[c] = <<>>
      BY <1>6, <2>10 DEF DeleteWorking, PhaseInv, Deleting, Untouched
    <3> QED BY <1>4, <2>10, <3>1 DEF DeleteWorking
  <2>11. CASE AdminRefresh(o)
    <3>1. PICK d \in Convs : Execute(d, "admin_trigger", FALSE)
      BY <2>11 DEF AdminRefresh, LatestConvs, Newest, ActiveConvs
    <3>2. /\ \A q \in RefreshIds : promotion'[q] = promotion[q]
          /\ \A q \in RefreshIds : q # issued' => refresh'[q] = refresh[q]
          /\ refresh'[issued'].pc = "queued"
      BY <3>1, Asked, AskedPromotes DEF Triggers
    <3>3. UNCHANGED <<log, ended, working, episode, cleared>>
      BY <2>11 DEF AdminRefresh, rowVars, historyVars
    <3>4. Ended(c)' = Ended(c)
      BY <3>3, EndedKept
    <3> QED BY <1>2, <2>1, <3>2, <3>3, <3>4, PromotedKept
  <2>12. CASE AdminClear(o)
    <3>1. UNCHANGED <<log, ended>>
          /\ cleared' = cleared \cup UNION {PointsOf(d, ExchangeEnds(log[d])) : d \in Convs}
      BY <2>12 DEF AdminClear
    <3>2. \A i \in ExchangeEnds(log[c]) : <<c, i>> \in cleared'
      BY <1>1, <3>1 DEF PointsOf
    <3>3. \A i \in Ended(c)' : <<c, i>> \in cleared'
      BY <3>1, <3>2 DEF Ended
    <3> QED BY <3>3, NothingEnded
  <2> QED BY <2>2, <2>3, <2>4, <2>5, <2>6, <2>7, <2>8, <2>9, <2>10, <2>11, <2>12, <2>14, <2>15
          DEF OpStep, LifecycleStep
<1> QED BY <1>5, <1>6

(* With one client, every ending reaches its episode.                       *)
LEMMA PipelineInvHolds ==
  ASSUME OneClient, Windows, ShortSoFar
  PROVE  MemorySpec => []PipelineInv
<1>1. MemoryInit => PipelineInv
  BY DEF MemoryInit, PipelineInv, Promoted, NoPromotion, NoMemory, Existing
<1>2. /\ MemoryTypeInv /\ ChainInv /\ PhaseInv /\ CoverInv /\ ClosingInv /\ ClosingInv'
      /\ PipelineInv /\ [MemoryNext]_memoryVars
      => PipelineInv'
  <2> SUFFICES ASSUME MemoryTypeInv, ChainInv, PhaseInv, CoverInv, ClosingInv, ClosingInv',
                      PipelineInv, [MemoryNext]_memoryVars
               PROVE  PipelineInv'
    OBVIOUS
  <2>1. ASSUME NEW o \in Ops, Restart(o) PROVE PipelineInv'
    BY <2>1 DEF Restart, PipelineInv
  <2>2. CASE UNCHANGED memoryVars
    BY <2>2 DEF memoryVars, rowVars, serviceVars, historyVars, PipelineInv, Promoted, Carries, Kept,
       Remembers, Ended, Existing
  <2> QED BY <2>1, <2>2, TurnPromotes, OpPromotes, RefreshPromotes, PromotionPromotes DEF MemoryNext
<1> QED BY <1>1, <1>2, MemoryTypeInvHolds, ChainInvHolds, PhaseInvHolds, CoverInvHolds,
           ClosingInvHolds, PTL DEF MemorySpec

(* With one client, a conversation's episode was made from every exchange   *)
(* it had when it closed, but what an operator's clear deleted, however     *)
(* often it is closed and whatever refreshes were asked for.                *)
THEOREM EpisodesHoldConversations ==
  ASSUME OneClient, Windows, ShortSoFar
  PROVE  MemorySpec => []EpisodeHoldsConversation
<1>1. ClosingInv /\ PipelineInv => EpisodeHoldsConversation
  <2> SUFFICES ASSUME ClosingInv, PipelineInv, ~restarted, NEW c \in Convs \ FaultyConvs,
                      episode[c].present, NEW i \in ExchangeEnds(log[c]), i <= ended[c]
               PROVE  <<c, i>> \in episode[c].seen \cup cleared
    BY DEF EpisodeHoldsConversation
  <2>1. c \in Existing \ FaultyConvs
    BY DEF ClosingInv, Existing
  <2> QED BY <2>1 DEF PipelineInv, Promoted, Remembers, Ended
<1> QED BY <1>1, ClosingInvHolds, PipelineInvHolds, PTL

=============================================================================
