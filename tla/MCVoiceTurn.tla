----------------------------- MODULE MCVoiceTurn -----------------------------
(***************************************************************************)
(* Instances of VoiceTurn for TLC: a client's retries of one utterance, and *)
(* a request that reuses its identity for other audio.                      *)
(***************************************************************************)
EXTENDS VoiceTurn

CONSTANTS u1, u2, u3, v1, audio, other

Retries == [r \in Requests |-> IF r = v1 THEN other ELSE audio]

=============================================================================
