-------------------------- MODULE MCSessionRuntime --------------------------
(***************************************************************************)
(* Instances of SessionRuntime for TLC: a few requests, one to three        *)
(* avatars, and the answers, requests and faults each run asks about.       *)
(***************************************************************************)
EXTENDS SessionRuntime, TLC

CONSTANTS t1, t2, t3, t4, o1, o2, ava, bob, cleo

OneAvatar == {ava}

TwoAvatars == {ava, bob}

ThreeAvatars == {ava, bob, cleo}

(* The answers of the Game Master's model. *)

Stay == [action |-> "stay", target |-> None, unlocks |-> {}, increase |-> FALSE]

Advance == [Stay EXCEPT !.increase = TRUE]

Unlock(a) == [Stay EXCEPT !.action = "unlock", !.unlocks = {a}]

Switch(a) == [Stay EXCEPT !.action = "switch", !.target = a]

UnlockAndSwitch(a) ==
  [Stay EXCEPT !.action = "unlock_and_switch", !.target = a, !.unlocks = {a}]

JustStay == {Stay}

StayOrAdvance == {Stay, Advance}

BringInBob == {UnlockAndSwitch(bob), Switch(bob)}

StayOrUnlock == {Stay, Unlock(bob), Unlock(cleo)}

(* The kinds of send-message request. *)

Plain == [streaming |-> FALSE, bye |-> FALSE]

Stream == [streaming |-> TRUE, bye |-> FALSE]

Goodbye == [streaming |-> TRUE, bye |-> TRUE]

PlainMode == {Plain}

PlainOrStream == {Plain, Stream}

PlainOrGoodbye == {Plain, Goodbye}

(* The kinds of lifecycle request. *)

StartOnly == [o \in Ops |-> {"start"}]

StartThenReset == (o1 :> {"start"}) @@ (o2 :> {"reset"})

StartThenSwitchOrEnd == (o1 :> {"start"}) @@ (o2 :> {"switch", "end"})

(* t2 and t3 are interchangeable in every configuration that uses this.     *)
LaterTurns == Permutations({t2, t3})

=============================================================================
