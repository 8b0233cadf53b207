---------------------------- MODULE UtteranceOnce ----------------------------
(***************************************************************************)
(* What the voice turns promise of one spoken utterance: the requests that  *)
(* submit it hold it one at a time, and once one of them has run its turn   *)
(* no other ever holds it again.                                            *)
(***************************************************************************)
EXTENDS Naturals

CONSTANTS Requests, None

VARIABLES
  holder,    \* the request that holds the utterance
  executed   \* the requests that ran a turn for it

OnceInit == holder = None /\ executed = {}

Claim(r) ==
  /\ holder = None
  /\ holder' = r
  /\ UNCHANGED executed

GiveBack(r) ==
  /\ holder = r
  /\ r \notin executed
  /\ holder' = None
  /\ UNCHANGED executed

Execute(r) ==
  /\ holder = r
  /\ executed = {}
  /\ executed' = {r}
  /\ UNCHANGED holder

OnceNext == \E r \in Requests : Claim(r) \/ GiveBack(r) \/ Execute(r)

OnceSpec == OnceInit /\ [][OnceNext]_<<holder, executed>>

=============================================================================
