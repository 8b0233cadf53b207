------------------------------- MODULE Player -------------------------------
(***************************************************************************)
(* The web player: the chat, the hands-free voice loop, and the media cues  *)
(* that Core sends.  The microphone records while nothing else is to be     *)
(* heard, and a cue waits while somebody speaks, so each depends on all the *)
(* others.                                                                  *)
(*                                                                          *)
(* Left out: the banners of unlocked and suggested characters (following    *)
(* one is a Choose), the reports of what was played, the microphone's       *)
(* levels.                                                                  *)
(***************************************************************************)
EXTENDS PlayerChat, Sequences

CONSTANTS
  MaxCues,     \* bound
  Videos       \* the cues that are shown full screen; the others are images

ASSUME MediaAssumption == MaxCues \in Nat /\ Videos \subseteq 1..MaxCues

VARIABLES
  mic,         \* enabled, asked for, captured, whether an utterance is put together,
               \* and the conversation that the screen last could send to
  recording,
  media,       \* the cues received
  cues,        \* those on their way
  cued         \* how many Core emitted

playerVars == <<chatVars, mic, recording, media, cues, cued>>

Mic == [enabled : BOOLEAN, asking : 0..MaxClicks, held : BOOLEAN, sending : BOOLEAN,
        chat : 0..MaxConvs]
MicOff == [enabled |-> FALSE, asking |-> 0, held |-> FALSE, sending |-> FALSE, chat |-> 0]
Cue == [cue : 1..MaxCues, started : BOOLEAN]

PlayerInit ==
  /\ ChatInit
  /\ mic = MicOff
  /\ recording = "none"
  /\ media = <<>>
  /\ cues = {}
  /\ cued = 0

Busy == thread.sending \/ sound.status \in {"loading", "playing"}

(* Mutant of OnScreen: the cue shows as soon as it has come.                *)
AtOnce(q, busy, hearing) == q # <<>>

(* The first cue shows once nobody speaks, then stays until it ends.        *)
OnScreen(q, busy, hearing) == q # <<>> /\ (Head(q).started \/ ~(busy \/ hearing))

Watching == OnScreen(media, Busy, recording = "speech")

Fullscreen == Watching /\ Head(media).cue \in Videos

Listens(m, watching, busy) == m.enabled /\ m.held /\ ~watching /\ ~busy

Listening == Listens(mic, Watching, Busy)

-----------------------------------------------------------------------------
(* What the hooks of media and voice do after each render *)

(* An image makes way for a message; another session has other cues.        *)
MediaFollows(q) ==
  media' = IF page'.session # page.session THEN <<>>
           ELSE IF /\ thread'.sending
                   /\ q # <<>> /\ Head(q).started /\ Head(q).cue \notin Videos
                THEN Tail(q)
           ELSE q

(* The loop ends with the conversation and with its screen; an utterance    *)
(* that is being put together then is for the chat as the screen last had   *)
(* it.  None of it outlives the page, which has no session at first.        *)
MicFollows(m) ==
  IF page'.session = 0 THEN mic' = MicOff
  ELSE IF screen'.step # "conversation"
  THEN mic' = IF m.sending THEN [MicOff EXCEPT !.sending = TRUE, !.chat = m.chat] ELSE MicOff
  ELSE LET lasts == m.enabled /\ thread'.conv # 0 IN
       mic' = [m EXCEPT !.enabled = lasts,
                        !.held = m.held /\ (lasts \/ ~m.enabled),
                        !.chat = IF thread'.sending THEN 0 ELSE thread'.conv]

(* The microphone records from when the loop comes to listen.               *)
RecordingFollows(r) ==
  recording' =
    IF ~Listens(mic', OnScreen(media', Busy', r = "speech"), Busy') THEN "none"
    ELSE IF ~Listening THEN "silent" ELSE r

Follow(m, r, q) == MediaFollows(q) /\ MicFollows(m) /\ RecordingFollows(r)

-----------------------------------------------------------------------------
(* Voice *)

StartVoice ==
  /\ Click
  /\ screen.step = "conversation" /\ thread.conv # 0
  /\ ~mic.enabled
  /\ UNCHANGED <<rooms, page, screen, thread, request, calls, stream, first, sound, cues, cued>>
  /\ Follow([mic EXCEPT !.enabled = TRUE, !.asking = @ + 1], recording, media)

StopVoice ==
  /\ Click
  /\ screen.step = "conversation"
  /\ mic.enabled
  /\ UNCHANGED <<rooms, page, screen, thread, request, calls, stream, first, sound, cues, cued>>
  /\ Follow([mic EXCEPT !.enabled = FALSE, !.held = FALSE], "none", media)

(* Granted even if the loop was stopped meanwhile.                          *)
MicGranted ==
  /\ mic.asking > 0
  /\ UNCHANGED <<chatVars, cues, cued>>
  /\ Follow([mic EXCEPT !.asking = @ - 1, !.held = TRUE], recording, media)

MicDenied ==
  /\ mic.asking > 0
  /\ UNCHANGED <<chatVars, cues, cued>>
  /\ Follow([mic EXCEPT !.asking = @ - 1, !.enabled = FALSE], recording, media)

SpeechStarts ==
  /\ recording = "silent"
  /\ Click
  /\ UNCHANGED <<rooms, page, screen, thread, request, calls, stream, first, sound, cues, cued>>
  /\ Follow(mic, "speech", media)

(* After a pause, or by the visitor's Send.                                 *)
UtteranceEnds ==
  /\ recording = "speech"
  /\ UNCHANGED <<chatVars, cues, cued>>
  /\ Follow([mic EXCEPT !.sending = TRUE], "none", media)

(* Mutant of SendUtterance: not while the conversation is being ended.      *)
SendIfReady ==
  /\ mic.sending
  /\ IF mic.chat # 0 /\ thread.status = "ready" THEN SendTo(mic.chat)
     ELSE UNCHANGED <<thread, stream, sound>>
  /\ UNCHANGED <<rooms, page, screen, request, calls, first, clicks>>
  /\ UNCHANGED <<cues, cued>>
  /\ Follow([mic EXCEPT !.sending = FALSE], recording, media)

(* When the recorder has stopped.                                           *)
SendUtterance ==
  /\ mic.sending
  /\ IF mic.chat # 0 THEN SendTo(mic.chat) ELSE UNCHANGED <<thread, stream, sound>>
  /\ UNCHANGED <<rooms, page, screen, request, calls, first, clicks>>
  /\ UNCHANGED <<cues, cued>>
  /\ Follow([mic EXCEPT !.sending = FALSE], recording, media)

-----------------------------------------------------------------------------
(* Media *)

(* A switch, an unlock or a Game Master run triggers it; it is recorded,    *)
(* then published once, to the streams that are open then.                  *)
EmitCue ==
  /\ cued < MaxCues
  /\ page.session # 0
  /\ Made # {}
  /\ cued' = cued + 1
  /\ cues' \in {cues, cues \cup {[cue |-> cued + 1, session |-> page.session]}}
  /\ UNCHANGED <<chatVars, mic, recording, media>>

(* Mutant of ReceiveCue: a cue that comes again is queued again.            *)
ReceiveAgain(k) ==
  /\ k.session = page.session
  /\ UNCHANGED <<chatVars, cues, cued>>
  /\ Follow(mic, recording, Append(media, [cue |-> k.cue, started |-> FALSE]))

(* Only those of the session, each once.                                    *)
ReceiveCue(k) ==
  /\ cues' = cues \ {k}
  /\ UNCHANGED <<chatVars, cued>>
  /\ Follow(mic, recording,
            IF k.session = page.session THEN Append(media, [cue |-> k.cue, started |-> FALSE])
            ELSE media)

MediaStarts ==
  /\ Watching
  /\ ~Head(media).started
  /\ UNCHANGED <<chatVars, cues, cued>>
  /\ Follow(mic, recording, <<[Head(media) EXCEPT !.started = TRUE]>> \o Tail(media))

(* Played to the end, skipped or failed.                                    *)
MediaEnds ==
  /\ Watching
  /\ UNCHANGED <<chatVars, cues, cued>>
  /\ Follow(mic, recording, Tail(media))

-----------------------------------------------------------------------------

(* A recorder stops sooner than the visitor, who has left its screen,       *)
(* clicks again.                                                            *)
Composed == mic.sending => screen.step = "conversation"

ClickStep ==
  /\ (Composed /\ ChatClicks) \/ (~Fullscreen /\ Send)
  /\ UNCHANGED <<cues, cued>>
  /\ Follow(mic, recording, media)

AnswerStep ==
  /\ ChatAnswers
  /\ UNCHANGED <<cues, cued>>
  /\ Follow(mic, recording, media)

VisitorStep == ClickStep \/ StartVoice \/ StopVoice \/ SpeechStarts

DeviceStep == MicGranted \/ MicDenied \/ UtteranceEnds \/ SendUtterance

PlaybackStep == (\E k \in cues : ReceiveCue(k)) \/ MediaStarts \/ MediaEnds

(* Everything is answered and the visitor does no more.                     *)
PlayerQuiet ==
  /\ clicks = MaxClicks
  /\ page.session # 0 /\ calls = {} /\ stream = NoStream /\ ~Watching
  /\ UNCHANGED playerVars

PlayerNext ==
  VisitorStep \/ AnswerStep \/ DeviceStep \/ EmitCue \/ PlaybackStep \/ PlayerQuiet

PlayerSpec == PlayerInit /\ [][PlayerNext]_playerVars

-----------------------------------------------------------------------------
(* The player's state is of the declared kind, and no cue is queued twice.  *)
PlayerTypeOK ==
  /\ ChatTypeOK
  /\ mic \in Mic
  /\ recording \in {"none", "silent", "speech"}
  /\ media \in Seq(Cue) /\ Len(media) <= cued
  /\ cues \subseteq [cue : 1..MaxCues, session : 1..MaxSessions]
  /\ cued \in 0..MaxCues

(* A cue starts only while nobody speaks, and what is shown full screen     *)
(* silences the microphone for as long as it lasts.                         *)
MediaStartsInSilence ==
  [][media' # <<>> /\ Head(media').started /\ (media # <<>> => ~Head(media).started) =>
       ~Busy' /\ recording' = "none"]_playerVars

(* Once the microphone is on, it always comes to record again: after every  *)
(* reply, cue and utterance, none of which waits for another forever.       *)
LoopListensAgain ==
  (mic.enabled /\ mic.held) ~> (recording # "none" \/ ~mic.enabled \/ ~mic.held)

=============================================================================
