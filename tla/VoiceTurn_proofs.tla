-------------------------- MODULE VoiceTurn_proofs --------------------------
(***************************************************************************)
(* The properties of VoiceTurn, for any number of requests, any audio and   *)
(* any faults; those of the first part for reservations that do not come to *)
(* their end.                                                               *)
(***************************************************************************)
EXTENDS VoiceTurn, TLAPS

(* Every step keeps the types.                                              *)
LEMMA ReservationType ==
  ASSUME NEW r \in Requests
  PROVE  /\ Reservation(r) \in Entry
         /\ [Reservation(r) EXCEPT !.completed = TRUE] \in Entry
BY VoiceAssumption DEF Reservation, Entry

LEMMA RequestUpdate ==
  ASSUME req \in [Requests -> Request], NEW r \in Requests, RequestStep(r)
  PROVE  /\ req' \in [Requests -> Request]
         /\ \A q \in Requests : q # r => req'[q] = req[q]
<1>1. req[r] \in Request
  OBVIOUS
<1>2. ASSUME NEW pc, Goto(r, pc), pc \in {"read", "claim", "discard", "transcribe", "turn",
                                          "readOwn", "settle", "crashed"}
      PROVE  /\ req' \in [Requests -> Request]
             /\ \A q \in Requests : q # r => req'[q] = req[q]
  BY <1>1, <1>2 DEF Goto, Request
<1>3. ASSUME NEW a \in Answers, Answer(r, a)
      PROVE  /\ req' \in [Requests -> Request]
             /\ \A q \in Requests : q # r => req'[q] = req[q]
  BY <1>1, <1>3 DEF Answer, Request
<1>4. CASE Submit(r) \/ ReadFree(r) \/ ReadOverdue(r) \/ ClaimFree(r) \/ TranscriptionFails(r)
           \/ StartTurn(r) \/ TurnEnds(r) \/ Crash(r)
  BY <1>2, <1>4 DEF Submit, ReadFree, ReadOverdue, ClaimFree, TranscriptionFails, StartTurn,
                    TurnEnds, Crash
<1>5. CASE ReadTaken(r)
  BY <1>3, <1>5 DEF ReadTaken
<1>6. CASE Discard(r) \/ ReserveFails(r) \/ Complete(r) \/ Release(r) \/ CleanupFails(r)
  BY <1>3, <1>6 DEF Discard, ReserveFails, Complete, Release, CleanupFails, Outcome, Answers
<1>7. CASE ReadOwn(r)
  BY <1>2, <1>3, <1>7 DEF ReadOwn, Outcome, Answers
<1>8. CASE ClaimTaken(r)
  <2>1. CASE req[r].attempt < MaxAttempts
    <3> DEFINE new == [req[r] EXCEPT !.pc = "read", !.attempt = req[r].attempt + 1]
    <3>1. req' = [req EXCEPT ![r] = new]
      BY <1>8, <2>1 DEF ClaimTaken
    <3>2. req[r].attempt + 1 \in 1..MaxAttempts
      BY <1>1, <2>1 DEF Request, MaxAttempts
    <3>3. new \in Request
      BY <1>1, <3>2 DEF Request
    <3> HIDE DEF new
    <3>4. QED
      BY <3>1, <3>3
  <2>2. CASE ~(req[r].attempt < MaxAttempts)
    BY <1>3, <1>8, <2>2 DEF ClaimTaken, Answers
  <2>3. QED
    BY <2>1, <2>2
<1>9. QED
  BY <1>4, <1>5, <1>6, <1>7, <1>8 DEF RequestStep

LEMMA EntryUpdate ==
  ASSUME entry \in Entry \cup {None}, ran \subseteq Requests, NEW r \in Requests, RequestStep(r)
  PROVE  entry' \in Entry \cup {None} /\ ran' \subseteq Requests
BY ReservationType
   DEF RequestStep, Submit, ReadFree, ReadTaken, ReadOverdue, Discard, ClaimFree, ClaimTaken,
       ReserveFails, TranscriptionFails, StartTurn, TurnEnds, ReadOwn, Complete, Release,
       CleanupFails, Crash

(* The entry, the requests and the set of turns keep their types, also when *)
(* reservations expire.                                                     *)
THEOREM VoiceTypeCorrect == Spec => []TypeOK
<1>1. Init => TypeOK
  BY DEF Init, TypeOK, Request, MaxAttempts
<1>2. TypeOK /\ [Next]_vars => TypeOK'
  <2> SUFFICES ASSUME TypeOK, [Next]_vars PROVE TypeOK'
    OBVIOUS
  <2> USE DEF TypeOK
  <2>1. CASE \E r \in Requests : RequestStep(r)
    BY <2>1, RequestUpdate, EntryUpdate
  <2>2. CASE Overdue
    BY <2>2 DEF Overdue, Entry
  <2>3. CASE Expire
    BY <2>3 DEF Expire
  <2>4. CASE AllServed \/ UNCHANGED vars
    BY <2>4 DEF AllServed, vars
  <2>5. QED
    BY <2>1, <2>2, <2>3, <2>4 DEF Next
<1>3. QED
  BY <1>1, <1>2, PTL DEF Spec

-----------------------------------------------------------------------------
(* While no reservation comes to its end. *)

Owning == {"transcribe", "turn", "readOwn", "settle"}

(* The entry is never overdue, so it is never discarded, and it is that of  *)
(* any request past its claim and of any request that ran a turn.           *)
OnceInv ==
  /\ TypeOK
  /\ entry # None => ~entry.overdue
  /\ \A r \in Requests :
       /\ req[r].pc # "discard"
       /\ req[r].pc \in Owning => Holder = r
       /\ req[r].pc = "transcribe" => r \notin ran
  /\ \A r \in ran : Holder = r

LEMMA HolderType ==
  ASSUME TypeOK
  PROVE  /\ entry # None => Holder \in Requests /\ Holder # None
         /\ \A r \in Requests : Reservation(r).by = r /\ Reservation(r) # None
BY VoiceAssumption, ReservationType DEF TypeOK, Holder, Entry, Reservation

(* What a step does to the lock and the turns.                              *)
LEMMA OnceSteps ==
  ASSUME OnceInv, NEW r \in Requests, RequestStep(r)
  PROVE  /\ \/ UNCHANGED <<Holder, ran>>
            \/ Once!Claim(r)
            \/ Once!GiveBack(r)
            \/ Once!Execute(r)
         /\ req'[r].pc # "discard"
         /\ req'[r].pc \in Owning => Holder' = r
         /\ req'[r].pc = "transcribe" => r \notin ran'
         /\ entry' # None => ~entry'.overdue
<1>1. /\ req \in [Requests -> Request] /\ req[r] \in Request
      /\ req[r].pc # "discard"
      /\ req[r].pc \in Owning => Holder = r
      /\ req[r].pc = "transcribe" => r \notin ran
      /\ entry # None => ~entry.overdue
      /\ r # None /\ \A q \in ran : Holder = q /\ q # None
  BY VoiceAssumption DEF OnceInv, TypeOK
<1>2. /\ entry # None => Holder = entry.by
      /\ entry = None => Holder = None
      /\ ran # {} => entry # None
  BY <1>1 DEF Holder
<1>3. ASSUME NEW pc, Goto(r, pc) PROVE req'[r].pc = pc
  BY <1>1, <1>3 DEF Goto, Request
<1>4. ASSUME NEW a, Answer(r, a) PROVE req'[r].pc = "answered"
  BY <1>1, <1>4 DEF Answer, Request
<1>5. Reservation(r).by = r /\ Reservation(r) # None /\ ~Reservation(r).overdue
  BY HolderType DEF OnceInv, Reservation
<1>6. CASE \/ Submit(r) \/ ReadFree(r) \/ ReadTaken(r) \/ TurnEnds(r) \/ CleanupFails(r)
           \/ TranscriptionFails(r) \/ Crash(r) \/ ReadOwn(r) \/ ClaimTaken(r)
  <2>1. UNCHANGED <<entry, ran>>
    BY <1>6 DEF Submit, ReadFree, ReadTaken, TurnEnds, CleanupFails, TranscriptionFails, Crash,
                ReadOwn, ClaimTaken
  <2>2. req'[r].pc \notin {"discard", "transcribe"}
    <3>1. CASE ClaimTaken(r) /\ req[r].attempt < MaxAttempts
      <4>1. req' = [req EXCEPT ![r] = [@ EXCEPT !.pc = "read", !.attempt = req[r].attempt + 1]]
        BY <3>1 DEF ClaimTaken
      <4>2. QED
        BY <1>1, <4>1 DEF Request
    <3>2. CASE ~(ClaimTaken(r) /\ req[r].attempt < MaxAttempts)
      BY <1>3, <1>4, <1>6, <3>2
         DEF Submit, ReadFree, ReadTaken, TurnEnds, CleanupFails, TranscriptionFails, Crash,
             ReadOwn, ClaimTaken
    <3>3. QED
      BY <3>1, <3>2
  <2>3. req'[r].pc \in Owning => req[r].pc \in Owning
    <3>1. CASE ClaimTaken(r) /\ req[r].attempt < MaxAttempts
      <4>1. req' = [req EXCEPT ![r] = [@ EXCEPT !.pc = "read", !.attempt = req[r].attempt + 1]]
        BY <3>1 DEF ClaimTaken
      <4>2. req'[r].pc = "read"
        BY <1>1, <4>1 DEF Request
      <4>3. QED
        BY <4>2 DEF Owning
    <3>2. CASE ~(ClaimTaken(r) /\ req[r].attempt < MaxAttempts)
      BY <1>3, <1>4, <1>6, <3>2
         DEF Submit, ReadFree, ReadTaken, TurnEnds, CleanupFails, TranscriptionFails, Crash,
             ReadOwn, ClaimTaken, At, Owning
    <3>3. QED
      BY <3>1, <3>2
  <2>4. QED
    BY <1>1, <2>1, <2>2, <2>3 DEF Holder
<1>7. CASE ClaimFree(r)
  BY <1>2, <1>3, <1>5, <1>7 DEF ClaimFree, Holder, Once!Claim, Owning
<1>8. CASE ReserveFails(r)
  <2>1. req'[r].pc = "answered"
    BY <1>4, <1>8 DEF ReserveFails
  <2>2. CASE UNCHANGED entry
    BY <1>1, <1>8, <2>1, <2>2 DEF ReserveFails, Holder, Owning
  <2>3. CASE entry = None /\ entry' = Reservation(r)
    BY <1>2, <1>5, <1>8, <2>1, <2>3 DEF ReserveFails, Holder, Once!Claim, Owning
  <2>4. QED
    BY <1>1, <1>8, <2>2, <2>3 DEF ReserveFails, At
<1>9. CASE StartTurn(r)
  <2>1. Holder = r /\ ran = {}
    BY <1>1, <1>9 DEF StartTurn, At, Owning
  <2>2. Holder' = r /\ entry' = entry /\ ran' = {r} /\ req'[r].pc = "turn"
    BY <1>3, <1>9, <2>1 DEF StartTurn, Holder
  <2>3. QED
    BY <1>1, <2>1, <2>2 DEF Once!Execute
<1>10. CASE Complete(r)
  <2>1. Holder = r /\ entry # None
    BY <1>1, <1>2, <1>10 DEF Complete, At, Owning
  <2>2. entry' = [Reservation(r) EXCEPT !.completed = TRUE] /\ ran' = ran
    BY <1>10, <2>1 DEF Complete
  <2>3. entry'.by = r /\ ~entry'.overdue
    BY <2>2 DEF Reservation
  <2>4. entry' # None
    BY <2>2, ReservationType, VoiceAssumption
  <2>5. req'[r].pc = "answered"
    BY <1>4, <1>10 DEF Complete
  <2>6. QED
    BY <2>1, <2>2, <2>3, <2>4, <2>5 DEF Holder, Owning
<1>11. CASE Release(r)
  <2>1. Holder = r /\ r \notin ran /\ entry' = None /\ ran' = ran
    BY <1>1, <1>11 DEF Release, At, Owning
  <2>2. req'[r].pc = "answered"
    BY <1>4, <1>11 DEF Release
  <2>3. QED
    BY <2>1, <2>2 DEF Holder, Owning, Once!GiveBack
<1>12. CASE ReadOverdue(r) \/ Discard(r)
  BY <1>1, <1>12 DEF ReadOverdue, Discard, At
<1>13. QED
  BY <1>6, <1>7, <1>8, <1>9, <1>10, <1>11, <1>12 DEF RequestStep

LEMMA OnceInvHolds ==
  ASSUME ExpiringRequests = {}
  PROVE  Spec => []OnceInv
<1>1. Init => OnceInv
  BY DEF Init, OnceInv, TypeOK, Request, MaxAttempts, Owning
<1>2. OnceInv /\ TypeOK' /\ [Next]_vars => OnceInv'
  <2> SUFFICES ASSUME OnceInv, TypeOK', [Next]_vars PROVE OnceInv'
    OBVIOUS
  <2>1. CASE \E r \in Requests : RequestStep(r)
    <3>1. PICK r \in Requests : RequestStep(r)
      BY <2>1
    <3>2. \A q \in Requests : q # r => req'[q] = req[q]
      BY <3>1, RequestUpdate DEF OnceInv, TypeOK
    <3>3. /\ \A q \in Requests : q # r => /\ req[q].pc # "discard"
                                          /\ req[q].pc \in Owning => Holder = q
                                          /\ req[q].pc = "transcribe" => q \notin ran
          /\ \A q \in ran : q \in Requests /\ Holder = q
          /\ r # None /\ \A q \in Requests : q # None
      BY VoiceAssumption DEF OnceInv, TypeOK
    <3>4. /\ \A q \in ran' : Holder' = q
          /\ \A q \in Requests : q # r => /\ req[q].pc \in Owning => Holder' = q
                                          /\ req[q].pc = "transcribe" => q \notin ran'
      <4>1. CASE UNCHANGED <<Holder, ran>>
        BY <3>3, <4>1
      <4>2. CASE Once!Claim(r)
        BY <3>3, <4>2 DEF Once!Claim
      <4>3. CASE Once!GiveBack(r)
        BY <3>3, <4>3 DEF Once!GiveBack
      <4>4. CASE Once!Execute(r)
        BY <3>3, <4>4 DEF Once!Execute
      <4>5. QED
        BY <3>1, <4>1, <4>2, <4>3, <4>4, OnceSteps
    <3>5. QED
      BY <3>1, <3>2, <3>3, <3>4, OnceSteps DEF OnceInv
  <2>2. CASE Overdue
    BY <2>2, VoiceAssumption DEF Overdue, OnceInv, TypeOK
  <2>3. CASE Expire
    BY <2>3 DEF Expire, OnceInv
  <2>4. CASE AllServed \/ UNCHANGED vars
    BY <2>4 DEF AllServed, vars, OnceInv, TypeOK, Holder
  <2>5. QED
    BY <2>1, <2>2, <2>3, <2>4 DEF Next
<1>3. QED
  BY <1>1, <1>2, VoiceTypeCorrect, PTL DEF Spec

(* Within the life of its reservation an utterance runs one turn at most,   *)
(* whatever its requests meet.                                              *)
THEOREM AtMostOnceHolds ==
  ASSUME ExpiringRequests = {}
  PROVE  Spec => []AtMostOnce
<1>1. OnceInv => AtMostOnce
  BY DEF OnceInv, AtMostOnce
<1>2. QED
  BY <1>1, OnceInvHolds, PTL

(* The Redis entry implements the lock that UtteranceOnce describes.        *)
THEOREM VoiceTurnImplementsOnce ==
  ASSUME ExpiringRequests = {}
  PROVE  Spec => ImplementsOnce
<1>1. Init => Once!OnceInit
  BY DEF Init, Once!OnceInit, Holder
<1>2. OnceInv /\ [Next]_vars => [Once!OnceNext]_<<Holder, ran>>
  <2> SUFFICES ASSUME OnceInv, [Next]_vars
               PROVE  UNCHANGED <<Holder, ran>> \/ Once!OnceNext
    OBVIOUS
  <2>1. CASE \E r \in Requests : RequestStep(r)
    BY <2>1, OnceSteps DEF Once!OnceNext
  <2>2. CASE Overdue
    BY <2>2, VoiceAssumption DEF Overdue, OnceInv, TypeOK
  <2>3. CASE Expire
    BY <2>3 DEF Expire, OnceInv
  <2>4. CASE AllServed \/ UNCHANGED vars
    BY <2>4 DEF AllServed, vars, Holder
  <2>5. QED
    BY <2>1, <2>2, <2>3, <2>4 DEF Next
<1>3. QED
  BY <1>1, <1>2, OnceInvHolds, PTL DEF Spec, ImplementsOnce, Once!OnceSpec

-----------------------------------------------------------------------------
(* Beyond the end of reservations. *)

(* What a completed entry or a "completed" answer says is true: the request *)
(* that ran has the same audio, and it answered before.                     *)
CompletedInv ==
  /\ TypeOK
  /\ entry # None => entry.fp = FingerprintOf[entry.by]
  /\ entry # None /\ entry.completed => entry.by \in ran
  /\ \A q \in ran : req[q].pc \notin {"idle", "read", "claim", "discard", "transcribe"}
  /\ \A r \in Requests : req[r].answer = "completed" => req[r].pc = "answered"
  /\ CompletedMeansRan

(* A request that is told something else than before, or that completes the *)
(* reservation.                                                             *)
LEMMA CompletedSteps ==
  ASSUME CompletedInv, NEW r \in Requests, RequestStep(r)
  PROVE  /\ ran \subseteq ran' /\ ran' \subseteq ran \cup {r}
         /\ r \in ran' => req'[r].pc \notin {"idle", "read", "claim", "discard", "transcribe"}
         /\ req'[r].answer = "completed" =>
              /\ req'[r].pc = "answered"
              /\ \E q \in ran : q # r /\ FingerprintOf[q] = FingerprintOf[r]
         /\ \/ entry' = None
            \/ entry' = entry
            \/ /\ entry'.fp = FingerprintOf[r] /\ entry'.by = r
               /\ entry'.completed => r \in ran'
<1>1. /\ req \in [Requests -> Request] /\ req[r] \in Request /\ entry \in Entry \cup {None}
      /\ ran \subseteq Requests
      /\ req[r].answer = "completed" => req[r].pc = "answered"
      /\ r \in ran => req[r].pc \notin {"idle", "read", "claim", "discard", "transcribe"}
      /\ entry # None => entry.fp = FingerprintOf[entry.by]
      /\ entry # None /\ entry.completed => entry.by \in ran
      /\ req[r].answer = "completed" =>
           \E q \in ran : q # r /\ FingerprintOf[q] = FingerprintOf[r]
  BY DEF CompletedInv, TypeOK, CompletedMeansRan
<1>2. req[r].pc \notin {"answered", "crashed"} /\ req[r].answer # "completed"
  BY <1>1
     DEF RequestStep, Submit, ReadFree, ReadTaken, ReadOverdue, Discard, ClaimFree, ClaimTaken,
         ReserveFails, TranscriptionFails, StartTurn, TurnEnds, ReadOwn, Complete, Release,
         CleanupFails, Crash, At
<1>3. ASSUME NEW pc, Goto(r, pc) PROVE req'[r].pc = pc /\ req'[r].answer # "completed"
  BY <1>1, <1>2, <1>3 DEF Goto, Request
<1>4. ASSUME NEW a, Answer(r, a) PROVE req'[r].pc = "answered" /\ req'[r].answer = a
  BY <1>1, <1>4 DEF Answer, Request
<1>5. CASE ReadTaken(r)
  <2>1. PICK a \in Answers : Refusal(r, a) /\ Answer(r, a)
    BY <1>5 DEF ReadTaken
  <2>2. UNCHANGED <<entry, ran>> /\ req[r].pc = "read" /\ entry # None
    BY <1>5 DEF ReadTaken, At
  <2>3. CASE a = "completed"
    <3>1. entry.completed /\ entry.fp = FingerprintOf[r]
      BY <2>1, <2>3 DEF Refusal
    <3>2. entry.by \in ran /\ entry.by # r /\ FingerprintOf[entry.by] = FingerprintOf[r]
      BY <1>1, <2>2, <3>1
    <3>3. QED
      BY <1>4, <2>1, <2>2, <3>2
  <2>4. CASE a # "completed"
    BY <1>4, <2>1, <2>2, <2>4
  <2>5. QED
    BY <2>3, <2>4
<1>6. CASE ClaimTaken(r)
  <2>1. UNCHANGED <<entry, ran>> /\ r \notin ran
    BY <1>1, <1>6 DEF ClaimTaken, At
  <2>2. req'[r].answer # "completed"
    <3>1. CASE req[r].attempt < MaxAttempts
      <4>1. req' = [req EXCEPT ![r] = [@ EXCEPT !.pc = "read", !.attempt = req[r].attempt + 1]]
        BY <1>6, <3>1 DEF ClaimTaken
      <4>2. QED
        BY <1>1, <1>2, <4>1 DEF Request
    <3>2. CASE ~(req[r].attempt < MaxAttempts)
      BY <1>4, <1>6, <3>2 DEF ClaimTaken
    <3>3. QED
      BY <3>1, <3>2
  <2>3. QED
    BY <2>1, <2>2
<1>7. CASE ClaimFree(r) \/ ReserveFails(r)
  <2>1. ran' = ran /\ r \notin ran
    BY <1>1, <1>7 DEF ClaimFree, ReserveFails, At
  <2>2. entry' = None \/ entry' = entry \/ entry' = Reservation(r)
    BY <1>7 DEF ClaimFree, ReserveFails
  <2>3. req'[r].answer # "completed"
    BY <1>3, <1>4, <1>7 DEF ClaimFree, ReserveFails
  <2>4. QED
    BY <2>1, <2>2, <2>3 DEF Reservation
<1>8. CASE StartTurn(r)
  BY <1>3, <1>8 DEF StartTurn
<1>9. CASE Complete(r)
  <2>1. ran' = ran /\ r \in ran
    BY <1>9 DEF Complete
  <2>2. req'[r].pc = "answered" /\ req'[r].answer # "completed"
    BY <1>4, <1>9 DEF Complete
  <2>3. entry' = None \/ entry' = [Reservation(r) EXCEPT !.completed = TRUE]
    BY <1>9 DEF Complete
  <2>4. QED
    BY <2>1, <2>2, <2>3 DEF Reservation
<1>10. CASE ReadFree(r) \/ ReadOverdue(r) \/ TranscriptionFails(r) \/ Submit(r)
  <2>1. UNCHANGED <<entry, ran>> /\ r \notin ran
    BY <1>1, <1>10 DEF ReadFree, ReadOverdue, TranscriptionFails, Submit, At
  <2>2. req'[r].answer # "completed"
    BY <1>3, <1>10 DEF ReadFree, ReadOverdue, TranscriptionFails, Submit
  <2>3. QED
    BY <2>1, <2>2
<1>11. CASE TurnEnds(r) \/ Crash(r) \/ ReadOwn(r) \/ CleanupFails(r)
  <2>1. UNCHANGED <<entry, ran>>
    BY <1>11 DEF TurnEnds, Crash, ReadOwn, CleanupFails
  <2>2. req'[r].pc \in {"readOwn", "settle", "answered", "crashed"}
    BY <1>3, <1>4, <1>11 DEF TurnEnds, Crash, ReadOwn, CleanupFails
  <2>3. req'[r].answer # "completed"
    BY <1>3, <1>4, <1>11 DEF TurnEnds, Crash, ReadOwn, CleanupFails, Outcome
  <2>4. QED
    BY <2>1, <2>2, <2>3
<1>12. CASE Discard(r) \/ Release(r)
  <2>1. ran' = ran /\ r \notin ran /\ entry' = None
    BY <1>1, <1>12 DEF Discard, Release, At
  <2>2. req'[r].answer # "completed"
    BY <1>4, <1>12 DEF Discard, Release
  <2>3. QED
    BY <2>1, <2>2
<1>13. QED
  BY <1>5, <1>6, <1>7, <1>8, <1>9, <1>10, <1>11, <1>12 DEF RequestStep

(* A request is told "completed" only of an utterance that another request  *)
(* with the same audio ran, however often reservations expire.              *)
THEOREM CompletedMeansRanHolds == Spec => []CompletedMeansRan
<1>1. Init => CompletedInv
  BY VoiceAssumption
     DEF Init, CompletedInv, TypeOK, Request, MaxAttempts, Answers, CompletedMeansRan
<1>2. CompletedInv /\ TypeOK' /\ [Next]_vars => CompletedInv'
  <2> SUFFICES ASSUME CompletedInv, TypeOK', [Next]_vars PROVE CompletedInv'
    OBVIOUS
  <2>1. CASE \E r \in Requests : RequestStep(r)
    <3>1. PICK r \in Requests : RequestStep(r)
      BY <2>1
    <3>2. \A q \in Requests : q # r => req'[q] = req[q]
      BY <3>1, RequestUpdate DEF CompletedInv, TypeOK
    <3>3. entry' # None => entry'.fp = FingerprintOf[entry'.by]
      BY <3>1, CompletedSteps DEF CompletedInv
    <3>4. entry' # None /\ entry'.completed => entry'.by \in ran'
      BY <3>1, CompletedSteps DEF CompletedInv
    <3>5. \A q \in ran' : req'[q].pc \notin {"idle", "read", "claim", "discard", "transcribe"}
      BY <3>1, <3>2, CompletedSteps DEF CompletedInv, TypeOK
    <3>6. \A q \in Requests : req'[q].answer = "completed" => req'[q].pc = "answered"
      BY <3>1, <3>2, CompletedSteps DEF CompletedInv
    <3>7. ASSUME NEW p \in Requests, req'[p].answer = "completed"
          PROVE  \E q \in ran' : q # p /\ FingerprintOf[q] = FingerprintOf[p]
      BY <3>1, <3>2, <3>7, CompletedSteps DEF CompletedInv, CompletedMeansRan
    <3>8. QED
      BY <3>3, <3>4, <3>5, <3>6, <3>7 DEF CompletedInv, CompletedMeansRan
  <2>2. CASE Overdue
    BY <2>2 DEF Overdue, CompletedInv, CompletedMeansRan, TypeOK, Entry
  <2>3. CASE Expire
    BY <2>3 DEF Expire, CompletedInv, CompletedMeansRan
  <2>4. CASE AllServed \/ UNCHANGED vars
    BY <2>4 DEF AllServed, vars, CompletedInv, CompletedMeansRan
  <2>5. QED
    BY <2>1, <2>2, <2>3, <2>4 DEF Next
<1>3. CompletedInv => CompletedMeansRan
  BY DEF CompletedInv
<1>4. QED
  BY <1>1, <1>2, <1>3, VoiceTypeCorrect, PTL DEF Spec

(* The request that a reservation in flight belongs to is still on its way  *)
(* to settle it, unless it met a fault.                                     *)
SettledInv ==
  /\ TypeOK
  /\ entry # None /\ ~entry.completed =>
       req[entry.by].pc \in Owning \/ entry.by \in FaultyRequests

(* A request that claims takes on the duty to settle; one that has it moves *)
(* on with it, or gives up the entry, or completes it.                      *)
LEMMA SettlingSteps ==
  ASSUME TypeOK, NEW r \in Requests, RequestStep(r), r \notin FaultyRequests
  PROVE  /\ \/ entry' = entry
            \/ entry' = None
            \/ entry' = Reservation(r) /\ req'[r].pc \in Owning
            \/ entry'.completed
         /\ Owns(r) /\ entry' = entry /\ req[r].pc \in Owning => req'[r].pc \in Owning
<1>1. req \in [Requests -> Request] /\ req[r] \in Request
  BY DEF TypeOK
<1>2. ASSUME NEW pc, Goto(r, pc) PROVE req'[r].pc = pc
  BY <1>1, <1>2 DEF Goto, Request
<1>3. CASE \/ Submit(r) \/ ReadFree(r) \/ ReadTaken(r) \/ ReadOverdue(r) \/ Discard(r)
           \/ ClaimTaken(r)
  <2>1. entry' = entry \/ entry' = None
    BY <1>3 DEF Submit, ReadFree, ReadTaken, ReadOverdue, Discard, ClaimTaken
  <2>2. req[r].pc \notin Owning
    BY <1>3 DEF Submit, ReadFree, ReadTaken, ReadOverdue, Discard, ClaimTaken, At, Owning
  <2>3. QED
    BY <2>1, <2>2
<1>4. CASE TranscriptionFails(r) \/ StartTurn(r) \/ TurnEnds(r)
  BY <1>2, <1>4 DEF TranscriptionFails, StartTurn, TurnEnds, Owning
<1>5. CASE ReadOwn(r)
  BY <1>2, <1>5 DEF ReadOwn, Owning
<1>6. CASE ClaimFree(r)
  BY <1>2, <1>6 DEF ClaimFree, Owning, At
<1>7. CASE Complete(r) \/ Release(r)
  <2>1. [Reservation(r) EXCEPT !.completed = TRUE].completed
    BY DEF Reservation
  <2>2. entry' = None \/ entry'.completed
    BY <1>7, <2>1 DEF Complete, Release
  <2>3. QED
    BY <2>2 DEF Owns
<1>8. QED
  BY <1>3, <1>4, <1>5, <1>6, <1>7 DEF RequestStep, ReserveFails, CleanupFails, Crash

(* A reservation is left in flight only by a request that met a fault, also *)
(* when reservations expire and other requests discard or replace them.     *)
THEOREM ReservationsAreSettledHolds == Spec => []ReservationsAreSettled
<1>1. Init => SettledInv
  BY DEF Init, SettledInv, TypeOK, Request, MaxAttempts
<1>2. SettledInv /\ TypeOK' /\ [Next]_vars => SettledInv'
  <2> SUFFICES ASSUME SettledInv, TypeOK', [Next]_vars PROVE SettledInv'
    OBVIOUS
  <2>1. CASE \E r \in Requests : RequestStep(r)
    <3>1. PICK r \in Requests : RequestStep(r)
      BY <2>1
    <3>2. \A q \in Requests : q # r => req'[q] = req[q]
      BY <3>1, RequestUpdate DEF SettledInv, TypeOK
    <3>3. entry # None => entry.by \in Requests
      BY DEF SettledInv, TypeOK, Entry
    <3>4. Reservation(r).by = r
      BY DEF Reservation
    <3>5. CASE r \in FaultyRequests
      <4>1. entry' = entry \/ entry' = None \/ entry'.completed \/ entry' = Reservation(r)
        BY <3>1
           DEF RequestStep, Submit, ReadFree, ReadTaken, ReadOverdue, Discard, ClaimFree,
               ClaimTaken, ReserveFails, TranscriptionFails, StartTurn, TurnEnds, ReadOwn,
               Complete, Release, CleanupFails, Crash, Reservation
      <4>2. QED
        BY <3>2, <3>3, <3>4, <3>5, <4>1 DEF SettledInv
    <3>6. CASE r \notin FaultyRequests
      BY <3>1, <3>2, <3>3, <3>4, <3>6, SettlingSteps DEF SettledInv, Owns
    <3>7. QED
      BY <3>5, <3>6
  <2>2. CASE Overdue
    BY <2>2 DEF Overdue, SettledInv, TypeOK, Entry
  <2>3. CASE Expire
    BY <2>3 DEF Expire, SettledInv
  <2>4. CASE AllServed \/ UNCHANGED vars
    BY <2>4 DEF AllServed, vars, SettledInv
  <2>5. QED
    BY <2>1, <2>2, <2>3, <2>4 DEF Next
<1>3. SettledInv => ReservationsAreSettled
  BY DEF SettledInv, ReservationsAreSettled, Owning
<1>4. QED
  BY <1>1, <1>2, <1>3, VoiceTypeCorrect, PTL DEF Spec

=============================================================================
