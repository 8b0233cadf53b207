------------------------------ MODULE Discovery ------------------------------
(***************************************************************************)
(* How the web player comes to a session and to the avatars it offers: a    *)
(* scenario is chosen, its session is found or started, the session's       *)
(* unlocked avatars are loaded, and they are loaded again whenever the      *)
(* stream of the session's events opens or tells of an unlock.              *)
(*                                                                          *)
(* Every choice has a number, and a call is of the choice that was the last *)
(* when it was made.  The avatars of a session are the version of its       *)
(* unlocked set.  PlayerChat has what the chat does with the session.       *)
(***************************************************************************)
EXTENDS Naturals, FiniteSets

CONSTANTS
  Offered,         \* scenarios that Core lists; numbers, 0 is none
  Recalled,        \* one of these the browser remembers, offered or not, or 0
  MaxPlays,        \* bound: sessions
  MaxChoices,      \* bound: choices, restarts
  MaxUnlocks,      \* bound: of a session
  MaxFaults,       \* bound: failed calls and breaks of the stream
  MaxPending       \* bound: refreshes under way

ASSUME DiscoveryAssumption ==
  /\ Offered \subseteq Nat \ {0} /\ Recalled \subseteq Nat
  /\ {MaxPlays, MaxChoices, MaxUnlocks, MaxFaults, MaxPending} \subseteq Nat

VARIABLES
  plays,      \* the player's sessions in Core, and the unlocks not told yet
  choice,     \* the scenario, its number, and its session once there is one
  listed,     \* whether the scenarios have been listed
  offer,      \* the avatars shown: of which session, which version
  loads,      \* calls of loadScenarioSessionAndAvatars
  feed,       \* the subscription to the session's events
  refreshes,  \* calls of refreshAvailableAvatars
  faults,
  excused     \* history: since the session came, a load or refresh of its
              \* avatars failed, or was answered after a later one

discoveryVars == <<plays, choice, listed, offer, loads, feed, refreshes, faults, excused>>

Scenarios == Offered \cup Recalled \cup {0}
Plays == 1..MaxPlays
UnlockSets == 0..MaxUnlocks

Play == [scenario : Scenarios, unlocked : UnlockSets, untold : UnlockSets]
NoPlay == [scenario |-> 0, unlocked |-> 0, untold |-> 0]
Choice == [scenario : Scenarios, number : 0..(MaxChoices + 1), play : 0..MaxPlays]
Offer == [of : 0..MaxPlays, version : UnlockSets,
          status : {"idle", "loading", "ready", "error"}]
Load == [pc : {"list", "start", "session", "avatars", "answer"}, scenario : Scenarios,
         number : 0..(MaxChoices + 1), play : 0..MaxPlays, version : UnlockSets]
Feed == [pc : {"closed", "connecting", "subscribed", "open", "broken"}, events : Nat]
Closed == [pc |-> "closed", events |-> 0]
RefreshCall == [pc : {"asked", "answer"}, number : 0..(MaxChoices + 1),
                play : 0..MaxPlays, version : UnlockSets]

Fault == faults < MaxFaults /\ faults' = faults + 1

Nothing(status) == [of |-> 0, version |-> 0, status |-> status]

LoadOf(s, n, how) == [pc |-> how, scenario |-> s, number |-> n, play |-> 0, version |-> 0]

(* A page with a remembered scenario loads its session before the list of   *)
(* scenarios has come.                                                      *)
DiscoveryInit ==
  /\ plays = [p \in Plays |-> NoPlay]
  /\ \E s \in Recalled :
       /\ choice = [scenario |-> s, number |-> 0, play |-> 0]
       /\ offer = Nothing(IF s = 0 THEN "idle" ELSE "loading")
       /\ loads = IF s = 0 THEN {} ELSE {LoadOf(s, 0, "list")}
  /\ listed = FALSE
  /\ feed = Closed
  /\ refreshes = {}
  /\ faults = 0
  /\ excused = FALSE

-----------------------------------------------------------------------------
(* Choices *)

(* The session is left: the subscription with it.                           *)
Decide(s, status) ==
  /\ choice' = [scenario |-> s, number |-> choice.number + 1, play |-> 0]
  /\ offer' = Nothing(status)
  /\ feed' = Closed

(* A scenario that is no longer offered is given up.                        *)
ScenariosListed ==
  /\ ~listed
  /\ listed' = TRUE
  /\ IF choice.scenario \in Offered \cup {0} THEN UNCHANGED <<choice, offer, feed>>
                                             ELSE Decide(0, "idle")
  /\ UNCHANGED <<plays, loads, refreshes, faults, excused>>

SelectScenario(s) ==
  /\ listed
  /\ choice.number < MaxChoices
  /\ s \in Offered \ {choice.scenario}
  /\ Decide(s, "loading")
  /\ loads' = loads \cup {LoadOf(s, choice.number + 1, "list")}
  /\ UNCHANGED <<plays, listed, refreshes, faults, excused>>

(* After the outro: the session is always a new one.                        *)
RestartSession ==
  /\ listed
  /\ choice.number < MaxChoices
  /\ choice.play # 0
  /\ Decide(choice.scenario, "loading")
  /\ loads' = loads \cup {LoadOf(choice.scenario, choice.number + 1, "start")}
  /\ UNCHANGED <<plays, listed, refreshes, faults, excused>>

-----------------------------------------------------------------------------
(* The session of a choice, and its avatars *)

Goes(l, next) == loads' = (loads \ {l}) \cup {next}

(* The session that was active last.                                        *)
FindSession(l) ==
  LET active == {p \in Plays : plays[p].scenario = l.scenario} IN
  /\ l.pc = "list"
  /\ \/ active = {} /\ Goes(l, [l EXCEPT !.pc = "start"])
     \/ \E p \in active : Goes(l, [l EXCEPT !.pc = "session", !.play = p])
  /\ UNCHANGED <<plays, offer, choice, feed, excused>>

StartSession(l) ==
  /\ l.pc = "start"
  /\ \E p \in Plays :
       /\ plays[p].scenario = 0
       /\ \A q \in Plays : q < p => plays[q].scenario # 0
       /\ plays' = [plays EXCEPT ![p].scenario = l.scenario]
       /\ Goes(l, [l EXCEPT !.pc = "session", !.play = p])
  /\ UNCHANGED <<offer, choice, feed, excused>>

(* The page subscribes to the events of the session it has got.             *)
SessionKnown(l) ==
  /\ l.pc = "session"
  /\ IF l.number = choice.number
     THEN /\ choice' = [choice EXCEPT !.play = l.play]
          /\ feed' = [pc |-> "connecting", events |-> 0]
          /\ excused' = FALSE
          /\ Goes(l, [l EXCEPT !.pc = "avatars"])
     ELSE loads' = loads \ {l} /\ UNCHANGED <<choice, feed, excused>>
  /\ UNCHANGED <<plays, offer>>

ReadAvatars(l) ==
  /\ l.pc = "avatars"
  /\ Goes(l, [l EXCEPT !.pc = "answer", !.version = plays[l.play].unlocked])
  /\ UNCHANGED <<plays, offer, choice, feed, excused>>

Shows(c) == offer' = [of |-> c.play, version |-> c.version, status |-> "ready"]

(* An answer to an earlier question may come last.                          *)
Overtaken(c) == offer.of = c.play /\ c.version < offer.version

(* Mutant of AvatarsKnown: the avatars are shown whatever was chosen since. *)
AvatarsKnownAnyway(l) ==
  /\ l.pc = "answer"
  /\ loads' = loads \ {l}
  /\ Shows(l)
  /\ excused' = (excused \/ Overtaken(l))
  /\ UNCHANGED <<plays, choice, feed>>

AvatarsKnown(l) ==
  /\ l.pc = "answer"
  /\ loads' = loads \ {l}
  /\ IF l.number = choice.number
     THEN Shows(l) /\ excused' = (excused \/ Overtaken(l))
     ELSE UNCHANGED <<offer, excused>>
  /\ UNCHANGED <<plays, choice, feed>>

LoadFails(l) ==
  /\ l.pc # "answer"
  /\ Fault
  /\ loads' = loads \ {l}
  /\ IF l.number = choice.number
     THEN offer' = [offer EXCEPT !.status = "error"] /\ excused' = TRUE
     ELSE UNCHANGED <<offer, excused>>
  /\ UNCHANGED <<plays, choice, feed>>

LoadStep ==
  /\ \E l \in loads :
       \/ /\ \/ FindSession(l) \/ StartSession(l) \/ SessionKnown(l)
             \/ ReadAvatars(l) \/ AvatarsKnown(l)
          /\ UNCHANGED faults
       \/ LoadFails(l)
  /\ UNCHANGED <<listed, refreshes>>

-----------------------------------------------------------------------------
(* Events *)

(* By bound, no two refreshes under way are alike.                          *)
Adds(rest, c) ==
  /\ c \notin rest
  /\ refreshes' = rest \cup {c}

Ask ==
  /\ Cardinality(refreshes) < MaxPending
  /\ Adds(refreshes,
          [pc |-> "asked", number |-> choice.number, play |-> choice.play, version |-> 0])

(* Core subscribes the page before its answer is on the way.                *)
Subscribe ==
  /\ feed.pc = "connecting"
  /\ feed' = [feed EXCEPT !.pc = "subscribed"]
  /\ UNCHANGED <<refreshes, faults>>

(* Mutant of Open: only events refresh.                                     *)
OpenOnly ==
  /\ feed.pc = "subscribed"
  /\ feed' = [feed EXCEPT !.pc = "open"]
  /\ UNCHANGED <<refreshes, faults>>

Open ==
  /\ feed.pc = "subscribed"
  /\ feed' = [feed EXCEPT !.pc = "open"]
  /\ Ask
  /\ UNCHANGED faults

ReceiveUnlock ==
  /\ feed.pc = "open" /\ feed.events > 0
  /\ feed' = [feed EXCEPT !.events = @ - 1]
  /\ Ask
  /\ UNCHANGED faults

(* Refused, cut off or ended; what was on its way is lost.                  *)
Break ==
  /\ feed.pc \in {"connecting", "subscribed", "open"}
  /\ feed' = [pc |-> "broken", events |-> 0]
  /\ Fault
  /\ UNCHANGED refreshes

(* After a delay.                                                           *)
Reconnect ==
  /\ feed.pc = "broken"
  /\ feed' = [feed EXCEPT !.pc = "connecting"]
  /\ UNCHANGED <<refreshes, faults>>

FeedStep ==
  /\ Subscribe \/ Open \/ ReceiveUnlock \/ Break \/ Reconnect
  /\ UNCHANGED <<plays, choice, listed, offer, loads, excused>>

(* A Game Master run saves the unlock, and tells of it later, or never if   *)
(* it fails before; by bound, in the session that the page is in.           *)
Unlock(p) ==
  /\ p = choice.play
  /\ plays[p].unlocked < MaxUnlocks
  /\ plays' = [plays EXCEPT ![p] = [@ EXCEPT !.unlocked = plays[p].unlocked + 1,
                                             !.untold = plays[p].untold + 1]]
  /\ UNCHANGED feed

(* To whoever is subscribed at the time.                                    *)
Tell(p) ==
  /\ plays[p].untold > 0
  /\ plays' = [plays EXCEPT ![p].untold = @ - 1]
  /\ feed' = IF p = choice.play /\ feed.pc \in {"subscribed", "open"}
             THEN [feed EXCEPT !.events = @ + 1] ELSE feed

UnlockStep ==
  /\ \E p \in Plays : Unlock(p) \/ Tell(p)
  /\ UNCHANGED <<choice, listed, offer, loads, refreshes, faults, excused>>

-----------------------------------------------------------------------------
(* Refreshes *)

(* Cancelled once the session it is for has been left.                      *)
Cancelled(c) == c.number # choice.number

ReadUnlocked(c) ==
  /\ c.pc = "asked"
  /\ Adds(refreshes \ {c}, [c EXCEPT !.pc = "answer", !.version = plays[c.play].unlocked])
  /\ UNCHANGED <<offer, excused>>

AvatarsRefreshed(c) ==
  /\ c.pc = "answer"
  /\ refreshes' = refreshes \ {c}
  /\ IF Cancelled(c) THEN UNCHANGED <<offer, excused>>
     ELSE Shows(c) /\ excused' = (excused \/ Overtaken(c))

(* What is shown stays.                                                     *)
AvatarRefreshFails(c) ==
  /\ c.pc = "asked"
  /\ Fault
  /\ refreshes' = refreshes \ {c}
  /\ IF Cancelled(c) THEN UNCHANGED <<offer, excused>>
     ELSE /\ offer' = [offer EXCEPT !.status = IF @ = "ready" THEN "ready" ELSE "error"]
          /\ excused' = TRUE

AvatarRefreshStep ==
  /\ \E c \in refreshes :
       \/ (ReadUnlocked(c) \/ AvatarsRefreshed(c)) /\ UNCHANGED faults
       \/ AvatarRefreshFails(c)
  /\ UNCHANGED <<plays, choice, listed, loads, feed>>

(* Nothing is on its way, but for sessions beyond the bound.                *)
DiscoveryQuiet ==
  /\ listed /\ \A l \in loads : l.pc = "start"
  /\ refreshes = {}
  /\ UNCHANGED discoveryVars

DiscoveryNext ==
  \/ ScenariosListed
  \/ (\E s \in Offered : SelectScenario(s)) \/ RestartSession
  \/ LoadStep \/ FeedStep \/ UnlockStep \/ AvatarRefreshStep
  \/ DiscoveryQuiet

DiscoverySpec == DiscoveryInit /\ [][DiscoveryNext]_discoveryVars

-----------------------------------------------------------------------------
(* The page's state, Core's sessions and the calls between them are of the  *)
(* declared kind.                                                           *)
DiscoveryTypeOK ==
  /\ plays \in [Plays -> Play]
  /\ choice \in Choice
  /\ listed \in BOOLEAN
  /\ offer \in Offer
  /\ loads \subseteq Load
  /\ feed \in Feed
  /\ refreshes \subseteq RefreshCall
  /\ faults \in 0..MaxFaults
  /\ excused \in BOOLEAN

(* The session is one of the scenario chosen last and the avatars shown are *)
(* that session's, however the answers to earlier choices are delayed.      *)
AvatarsAreOfSession ==
  /\ choice.play # 0 => plays[choice.play].scenario = choice.scenario
  /\ offer.of # 0 => offer.of = choice.play

(* With the stream open and no event or refresh on its way, the avatars     *)
(* shown are those unlocked: an unlock that was told before the page was    *)
(* subscribed, or while the stream was broken, is found by the refresh when *)
(* it opens.  Not so only after a call that failed, or was answered after a *)
(* later one.                                                               *)
UnlocksAreShown ==
  LET p == choice.play IN
  /\ feed.pc = "open" /\ feed.events = 0 /\ plays[p].untold = 0
  /\ \A c \in refreshes : Cancelled(c)
  /\ ~excused
  => offer = [of |-> p, version |-> plays[p].unlocked, status |-> "ready"]

=============================================================================
