------------------------------ MODULE VoiceTurn ------------------------------
(***************************************************************************)
(* The requests that submit one spoken utterance, a (conversationId,        *)
(* utteranceId) pair, and the Redis entry that keeps them apart.  A request *)
(* reserves the utterance, transcribes the audio, runs a send-message turn, *)
(* and then completes the reservation or, if no turn was started, releases  *)
(* it.  Each Redis command is one step; between GET and the SET or DEL that *)
(* follows it anything may happen.                                          *)
(*                                                                          *)
(* Abstractions: a reservation id is the request it was given to, for a     *)
(* request gets at most one.  expiresAt and the time to live of the entry   *)
(* are the two moments Overdue and Expire.  A completed entry is kept for a *)
(* day, which is the horizon of the model.  The turn itself is SendMessage. *)
(* Left out: submissions refused before the reservation, which change       *)
(* nothing, and entries that do not parse, which nothing writes.            *)
(***************************************************************************)
EXTENDS Naturals

CONSTANTS
  Requests,          \* the requests that submit the utterance
  Fingerprints,      \* digests of audio, media type, language and duration
  FingerprintOf,     \* the digest of each request
  None,              \* no entry; no answer yet
  FaultyRequests,    \* bound: the requests that may meet a fault
  ExpiringRequests   \* bound: those whose reservation may reach its end

MaxAttempts == 3

Entry == [fp : Fingerprints, by : Requests, completed : BOOLEAN, overdue : BOOLEAN]

Answers == {"replied", "transcription", "in_flight", "completed", "expired",
            "conflict", "failed"}

ASSUME VoiceAssumption ==
  /\ FingerprintOf \in [Requests -> Fingerprints]
  /\ FaultyRequests \subseteq Requests
  /\ ExpiringRequests \subseteq Requests
  /\ None \notin Requests \cup Entry \cup Answers

VARIABLES
  entry,   \* the value at the utterance's key
  req,     \* where each request is
  ran      \* the requests that started a turn (downstreamStarted)

vars == <<entry, req, ran>>

Request == [pc : {"idle", "read", "claim", "discard", "transcribe", "turn", "readOwn",
                  "settle", "answered", "crashed"},
            attempt : 1..MaxAttempts, answer : Answers \cup {None}]

TypeOK ==
  /\ entry \in Entry \cup {None}
  /\ req \in [Requests -> Request]
  /\ ran \subseteq Requests

Init ==
  /\ entry = None
  /\ req = [r \in Requests |-> [pc |-> "idle", attempt |-> 1, answer |-> None]]
  /\ ran = {}

At(r, pc) == req[r].pc = pc

Goto(r, pc) == req' = [req EXCEPT ![r].pc = pc]

Answer(r, a) == req' = [req EXCEPT ![r] = [@ EXCEPT !.pc = "answered", !.answer = a]]

Reservation(r) ==
  [fp |-> FingerprintOf[r], by |-> r, completed |-> FALSE, overdue |-> FALSE]

Submit(r) ==
  /\ At(r, "idle")
  /\ Goto(r, "read")
  /\ UNCHANGED <<entry, ran>>

-----------------------------------------------------------------------------
(* reserve *)

(* What a reservation attempt makes of the entry it finds.  Its clock was   *)
(* read before the entry was, so it need not see the entry as overdue.      *)
Refusal(r, a) ==
  \/ entry.fp # FingerprintOf[r] /\ a = "conflict"
  \/ entry.fp = FingerprintOf[r] /\ entry.completed /\ a = "completed"
  \/ entry.fp = FingerprintOf[r] /\ ~entry.completed /\ a = "in_flight"

ReadFree(r) ==
  /\ At(r, "read")
  /\ entry = None
  /\ Goto(r, "claim")
  /\ UNCHANGED <<entry, ran>>

ReadTaken(r) ==
  /\ At(r, "read")
  /\ entry # None
  /\ \E a \in Answers : Refusal(r, a) /\ Answer(r, a)
  /\ UNCHANGED <<entry, ran>>

ReadOverdue(r) ==
  /\ At(r, "read")
  /\ entry # None
  /\ entry.fp = FingerprintOf[r]
  /\ ~entry.completed
  /\ entry.overdue
  /\ Goto(r, "discard")
  /\ UNCHANGED <<entry, ran>>

(* DEL, whatever the key holds by now.                                      *)
Discard(r) ==
  /\ At(r, "discard")
  /\ entry' = None
  /\ Answer(r, "expired")
  /\ UNCHANGED ran

(* Mutant of ClaimFree: SET without NX.                                     *)
ClaimAnyway(r) ==
  /\ At(r, "claim")
  /\ entry' = Reservation(r)
  /\ Goto(r, "transcribe")
  /\ UNCHANGED ran

(* SET with NX.                                                             *)
ClaimFree(r) ==
  /\ At(r, "claim")
  /\ entry = None
  /\ entry' = Reservation(r)
  /\ Goto(r, "transcribe")
  /\ UNCHANGED ran

(* Mutant of ClaimTaken: the loop has no bound.                             *)
ClaimTakenAgain(r) ==
  /\ At(r, "claim")
  /\ entry # None
  /\ req' = [req EXCEPT ![r] = [@ EXCEPT !.pc = "read", !.attempt = req[r].attempt + 1]]
  /\ UNCHANGED <<entry, ran>>

ClaimTaken(r) ==
  /\ At(r, "claim")
  /\ entry # None
  /\ IF req[r].attempt < MaxAttempts
     THEN req' = [req EXCEPT ![r] = [@ EXCEPT !.pc = "read", !.attempt = req[r].attempt + 1]]
     ELSE Answer(r, "in_flight")
  /\ UNCHANGED <<entry, ran>>

(* Redis does not answer: the request fails without a claim to clean up,    *)
(* though its SET may have taken effect.                                    *)
ReserveFails(r) ==
  /\ r \in FaultyRequests
  /\ \/ At(r, "read") /\ UNCHANGED entry
     \/ At(r, "claim") /\ UNCHANGED entry
     \/ At(r, "claim") /\ entry = None /\ entry' = Reservation(r)
     \/ At(r, "discard") /\ UNCHANGED entry
     \/ At(r, "discard") /\ entry' = None
  /\ Answer(r, "failed")
  /\ UNCHANGED ran

-----------------------------------------------------------------------------
(* execute *)

(* Mutant of TranscriptionFails: the error returns without the cleanup.     *)
TranscriptionFailsForGood(r) ==
  /\ At(r, "transcribe")
  /\ Answer(r, "transcription")
  /\ UNCHANGED <<entry, ran>>

(* The adapter fails, finds no speech, or the client has gone.              *)
TranscriptionFails(r) ==
  /\ At(r, "transcribe")
  /\ Goto(r, "readOwn")
  /\ UNCHANGED <<entry, ran>>

StartTurn(r) ==
  /\ At(r, "transcribe")
  /\ ran' = ran \cup {r}
  /\ Goto(r, "turn")
  /\ UNCHANGED entry

(* The turn completes, fails or is interrupted: it counts as run.           *)
TurnEnds(r) ==
  /\ At(r, "turn")
  /\ Goto(r, "readOwn")
  /\ UNCHANGED <<entry, ran>>

-----------------------------------------------------------------------------
(* finishReservation *)

Outcome(r) == IF r \in ran THEN "replied" ELSE "transcription"

Owns(r) == entry # None /\ entry.by = r /\ ~entry.completed

ReadOwn(r) ==
  /\ At(r, "readOwn")
  /\ IF Owns(r) THEN Goto(r, "settle") ELSE Answer(r, Outcome(r))
  /\ UNCHANGED <<entry, ran>>

(* Mutant of Complete: every claimed reservation is completed.              *)
CompleteAlways(r) ==
  /\ At(r, "settle")
  /\ entry' = IF entry = None THEN None ELSE [Reservation(r) EXCEPT !.completed = TRUE]
  /\ Answer(r, Outcome(r))
  /\ UNCHANGED ran

(* SET with XX: it overwrites whatever entry the key holds by now.          *)
Complete(r) ==
  /\ At(r, "settle")
  /\ r \in ran
  /\ entry' = IF entry = None THEN None ELSE [Reservation(r) EXCEPT !.completed = TRUE]
  /\ Answer(r, "replied")
  /\ UNCHANGED ran

(* Mutant of Release: the reservation is given back also after a turn that  *)
(* did not complete.                                                        *)
ReleaseAlways(r) ==
  /\ At(r, "settle")
  /\ entry' = None
  /\ Answer(r, Outcome(r))
  /\ UNCHANGED ran

Release(r) ==
  /\ At(r, "settle")
  /\ r \notin ran
  /\ entry' = None
  /\ Answer(r, "transcription")
  /\ UNCHANGED ran

(* A failed cleanup is logged and changes nothing.                          *)
CleanupFails(r) ==
  /\ r \in FaultyRequests
  /\ At(r, "readOwn") \/ At(r, "settle")
  /\ Answer(r, Outcome(r))
  /\ UNCHANGED <<entry, ran>>

-----------------------------------------------------------------------------
(* The process that serves a request stops. *)
Crash(r) ==
  /\ r \in FaultyRequests
  /\ req[r].pc \notin {"idle", "answered", "crashed"}
  /\ Goto(r, "crashed")
  /\ UNCHANGED <<entry, ran>>

(* expiresAt has passed; it was computed before the entry was set, so this  *)
(* comes before Redis drops the entry.                                      *)
Overdue ==
  /\ entry # None
  /\ entry.by \in ExpiringRequests
  /\ ~entry.completed
  /\ ~entry.overdue
  /\ entry' = [entry EXCEPT !.overdue = TRUE]
  /\ UNCHANGED <<req, ran>>

Expire ==
  /\ entry # None
  /\ entry.overdue
  /\ entry' = None
  /\ UNCHANGED <<req, ran>>

RequestStep(r) ==
  \/ Submit(r)
  \/ ReadFree(r)
  \/ ReadTaken(r)
  \/ ReadOverdue(r)
  \/ Discard(r)
  \/ ClaimFree(r)
  \/ ClaimTaken(r)
  \/ ReserveFails(r)
  \/ TranscriptionFails(r)
  \/ StartTurn(r)
  \/ TurnEnds(r)
  \/ ReadOwn(r)
  \/ Complete(r)
  \/ Release(r)
  \/ CleanupFails(r)
  \/ Crash(r)

AllServed ==
  /\ \A r \in Requests : req[r].pc \in {"answered", "crashed"}
  /\ UNCHANGED vars

Next ==
  \/ \E r \in Requests : RequestStep(r)
  \/ Overdue
  \/ Expire
  \/ AllServed

Spec == Init /\ [][Next]_vars

-----------------------------------------------------------------------------
(* Properties that hold while no reservation comes to its end. *)

(* An utterance runs one turn at most, whichever of its requests crash,     *)
(* lose an answer of Redis, or cannot clean up.                             *)
AtMostOnce == \A r, q \in ran : r = q

(* The entry is a correct lock: it is given back only by the request that   *)
(* holds it, and never after that request ran its turn.                     *)
Holder == IF entry = None THEN None ELSE entry.by

Once == INSTANCE UtteranceOnce WITH holder <- Holder, executed <- ran

ImplementsOnce == Once!OnceSpec

-----------------------------------------------------------------------------
(* Properties that hold beyond the end of reservations. *)

(* A request is told that its utterance was completed only if a request     *)
(* with the same audio ran a turn: no utterance is swallowed.               *)
CompletedMeansRan ==
  \A r \in Requests :
    req[r].answer = "completed" =>
      \E q \in ran : q # r /\ FingerprintOf[q] = FingerprintOf[r]

(* An in-flight reservation belongs to a request that is being served, or   *)
(* that met a fault: no other way of ending leaves the utterance blocked.   *)
ReservationsAreSettled ==
  entry # None /\ ~entry.completed =>
    req[entry.by].pc # "answered" \/ entry.by \in FaultyRequests

=============================================================================
