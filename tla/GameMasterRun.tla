---------------------------- MODULE GameMasterRun ----------------------------
(***************************************************************************)
(* One background execution of RunGameMasterUseCase: it reads the gm_states *)
(* row and the session, asks the language model, and then writes, in this   *)
(* order, the unlocked avatars, the next active avatar, the row and the     *)
(* director notes.  Everything it writes is computed from what it read      *)
(* before the language model answered; nothing locks the rows meanwhile,    *)
(* and several runs of one session may be under way.                        *)
(*                                                                          *)
(* The model's answer is a member of Outputs, as it is after parsing and    *)
(* normalisation.  A suggestion only emits an event and is a "stay" here.   *)
(* unlocks are the requested avatars that the recent messages mention.      *)
(***************************************************************************)
EXTENDS SessionStore

CONSTANTS
  Outputs,     \* the valid answers the Game Master's model may give
  FaultyRuns   \* bound: the runs whose awaited calls may fail

Actions == {"stay", "switch", "unlock", "unlock_and_switch"}

Output == [action : Actions, target : Avatars \cup {None},
           unlocks : SUBSET Avatars, increase : BOOLEAN]

ASSUME OutputsAssumption ==
  /\ Outputs \subseteq Output
  /\ \A out \in Outputs :
        /\ (out.target = None) <=> (out.action \in {"stay", "unlock"})
        /\ out.action \in {"stay", "switch"} => out.unlocks = {}
        /\ out.action = "unlock_and_switch" => out.unlocks \subseteq {out.target}
  /\ FaultyRuns \subseteq RunIds

NoOutput == [action |-> "stay", target |-> None, unlocks |-> {}, increase |-> FALSE]

VARIABLES
  run,         \* the run of each request that starts one
  processing   \* the event publisher's processing flag of the session

gmVars == <<run, processing>>

(* pc names what the run does next; state, loaded and known are what it     *)
(* read: the row, whether the session could be read, its unlocked avatars.  *)
Run == [pc : {"idle", "readState", "readSession", "askModel", "unlock", "route",
              "savePlan", "saveNotes", "finish", "done"},
        turnIndex : Nat, avatar : Avatars \cup {None}, state : State,
        loaded : BOOLEAN, known : SUBSET Avatars, out : Output]

IdleRun == [pc |-> "idle", turnIndex |-> 0, avatar |-> None, state |-> DefaultState,
            loaded |-> FALSE, known |-> {}, out |-> NoOutput]

GmInit ==
  /\ run = [r \in RunIds |-> IdleRun]
  /\ processing = FALSE

GmTypeOK ==
  /\ run \in [RunIds -> Run]
  /\ processing \in BOOLEAN

Running(r) == run[r].pc \notin {"idle", "done"}

(* What is left of a run that has nothing more to write.                    *)
Spent(pc) == [IdleRun EXCEPT !.pc = pc]

-----------------------------------------------------------------------------
(* The decision functions. *)

(* resolveAvatarUnlocks: without a session there is nothing to unlock.      *)
NewlyUnlocked(loaded, known, out) ==
  IF loaded /\ out.action \in {"unlock", "unlock_and_switch"}
  THEN out.unlocks \ known
  ELSE {}

(* applyAvatarRoutingUpdates: the avatar the run makes the next active one, *)
(* or None when the routing falls back to "stay".                           *)
SwitchTarget(loaded, known, out) ==
  IF \/ /\ out.action = "switch"
        /\ out.target \in known
     \/ /\ out.action = "unlock_and_switch"
        /\ out.target \in NewlyUnlocked(loaded, known, out)
  THEN out.target
  ELSE None

Newly(r) == NewlyUnlocked(run[r].loaded, run[r].known, run[r].out)

Switched(r) == SwitchTarget(run[r].loaded, run[r].known, run[r].out)

(* buildNextTurnOrchestration *)
NextPlan(r) ==
  [by       |-> r,
   avatar   |-> IF Switched(r) # None THEN Switched(r) ELSE run[r].avatar,
   after    |-> run[r].turnIndex,
   consumed |-> None]

-----------------------------------------------------------------------------
(* The steps of a run, one per awaited call. *)

Goto(r, pc) == run' = [run EXCEPT ![r].pc = pc]

(* execute up to its first await; called by the request that starts it.     *)
Dispatch(r, turnIndex, avatar) ==
  /\ run' = [run EXCEPT ![r] = [@ EXCEPT !.pc = "readState",
                                         !.turnIndex = turnIndex,
                                         !.avatar = avatar]]
  /\ processing' = TRUE

ReadState(r) ==
  /\ run[r].pc = "readState"
  /\ run' = [run EXCEPT ![r] = [@ EXCEPT !.pc = "readSession", !.state = OrDefault(row)]]
  /\ UNCHANGED <<processing, storeVars>>

ReadSession(r) ==
  /\ run[r].pc = "readSession"
  /\ run' = [run EXCEPT ![r] = [@ EXCEPT !.pc = "askModel",
                                         !.loaded = TRUE,
                                         !.known = session.unlocked]]
  /\ UNCHANGED <<processing, storeVars>>

(* loadSession swallows the error and the run goes on without a session.    *)
SessionUnreadable(r) ==
  /\ run[r].pc = "readSession"
  /\ r \in FaultyRuns
  /\ Goto(r, "askModel")
  /\ UNCHANGED <<processing, storeVars>>

AfterUnlock(loaded, known, out) ==
  IF SwitchTarget(loaded, known, out) # None THEN "route" ELSE "savePlan"

AfterAnswer(loaded, known, out) ==
  IF NewlyUnlocked(loaded, known, out) # {}
  THEN "unlock"
  ELSE AfterUnlock(loaded, known, out)

ModelAnswers(r) ==
  /\ run[r].pc = "askModel"
  /\ \E out \in Outputs :
       run' = [run EXCEPT ![r] = [@ EXCEPT !.out = out,
                                           !.pc = AfterAnswer(run[r].loaded, run[r].known, out)]]
  /\ UNCHANGED <<processing, storeVars>>

(* The whole column is written, computed from the snapshot.                 *)
ApplyUnlocks(r) ==
  /\ run[r].pc = "unlock"
  /\ session' = [session EXCEPT !.unlocked = run[r].known \cup Newly(r)]
  /\ Goto(r, AfterUnlock(run[r].loaded, run[r].known, run[r].out))
  /\ UNCHANGED <<processing, conv, made, messages, clock, row>>

ApplyRouting(r) ==
  /\ run[r].pc = "route"
  /\ session' = [session EXCEPT !.active = Switched(r)]
  /\ Goto(r, "savePlan")
  /\ UNCHANGED <<processing, conv, made, messages, clock, row>>

SavePlan(r) ==
  /\ run[r].pc = "savePlan"
  /\ row' = Save(row, [Reduced(run[r].state, run[r].out.increase) EXCEPT !.plan = NextPlan(r)])
  /\ run' = [run EXCEPT ![r] = Spent("saveNotes")]
  /\ UNCHANGED <<processing, session, conv, made, messages, clock>>

(* The parser requires director notes, so there always are some.            *)
SaveNotes(r) ==
  /\ run[r].pc = "saveNotes"
  /\ session' = [session EXCEPT !.notes = r]
  /\ run' = [run EXCEPT ![r] = Spent("finish")]
  /\ UNCHANGED <<processing, conv, made, messages, clock, row>>

(* Mutant of RunFails: the error leaves the run without its finally block.  *)
RunFailsForGood(r) ==
  /\ Running(r)
  /\ run[r].pc # "finish"
  /\ r \in FaultyRuns
  /\ run' = [run EXCEPT ![r] = Spent("done")]
  /\ UNCHANGED <<processing, storeVars>>

(* A call of the run fails, or the answer is no valid output: what was      *)
(* written before stays, and the run goes to its finally block.             *)
RunFails(r) ==
  /\ Running(r)
  /\ run[r].pc # "finish"
  /\ r \in FaultyRuns
  /\ run' = [run EXCEPT ![r] = Spent("finish")]
  /\ UNCHANGED <<processing, storeVars>>

(* The finally block: the flag is the session's, not the run's.             *)
FinishRun(r) ==
  /\ run[r].pc = "finish"
  /\ Goto(r, "done")
  /\ processing' = FALSE
  /\ UNCHANGED storeVars

RunStep(r) ==
  \/ ReadState(r)
  \/ ReadSession(r)
  \/ SessionUnreadable(r)
  \/ ModelAnswers(r)
  \/ ApplyUnlocks(r)
  \/ ApplyRouting(r)
  \/ SavePlan(r)
  \/ SaveNotes(r)
  \/ RunFails(r)
  \/ FinishRun(r)

=============================================================================
