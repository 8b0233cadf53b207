----------------------------- MODULE PlayerChat -----------------------------
(***************************************************************************)
(* The web player's chat: the screens of the guided flow, the session, the  *)
(* thread on display, and the calls to Core that open, restore and end      *)
(* conversations and send messages.  Calls are answered in any order; each  *)
(* keeps the number that the player's request counter had when it was made, *)
(* and an answer whose number is not the counter's is dropped.              *)
(*                                                                          *)
(* An event is handled with the render and the effects that follow it.  Of  *)
(* Core there is what the player can tell: which conversation of a session  *)
(* is open.  Left out: the drafts that stream in, the screens before the    *)
(* choice of a character, sessions that Core closes.                        *)
(***************************************************************************)
EXTENDS Naturals, FiniteSets

CONSTANTS
  Avatars,      \* numbers; 0 is no avatar
  MaxSessions,  \* bound
  MaxConvs,     \* bound: conversations
  MaxClicks     \* bound: what the visitor does

ASSUME PlayerAssumption ==
  /\ Avatars \subseteq Nat \ {0}
  /\ {MaxSessions, MaxConvs, MaxClicks} \subseteq Nat \ {0}

VARIABLES
  rooms,    \* the conversations in Core
  page,     \* the session, the one that will be got, the remembered conversation
  screen,   \* of the guided flow, and whether the visitor asked to end
  thread,   \* what the chat shows
  request,  \* conversationRequestIdRef
  calls,    \* those to open, restore and end conversations
  stream,   \* the message being sent
  first,    \* pendingFirstMessageRef: the avatar that is to be asked, or 0
  sound,    \* the reply being spoken
  clicks

chatVars == <<rooms, page, screen, thread, request, calls, stream, first, sound, clicks>>

Rooms == 1..MaxConvs
Room == [session : 0..MaxSessions, avatar : Avatars \cup {0}, open : BOOLEAN]
NoRoom == [session |-> 0, avatar |-> 0, open |-> FALSE]
Made == {c \in Rooms : rooms[c].session # 0}

Numbers == 0..(3 * MaxClicks + 2)
Page == [session : 0..MaxSessions, next : 1..MaxSessions, remembered : 0..MaxConvs]
Screen == [step : {"choice", "conversation", "outro"}, ending : BOOLEAN]
Message == [conv : Rooms, is : {"pending", "user", "failed", "left", "avatar", "history"}]
Thread == [avatar : Avatars \cup {0}, conv : 0..MaxConvs, sending : BOOLEAN,
           status : {"idle", "starting", "ready", "ending", "error"}, messages : SUBSET Message]
Call == [kind : {"open", "restore", "end"}, served : BOOLEAN, request : Numbers,
         session : 1..MaxSessions, avatar : Avatars \cup {0}, conv : 0..MaxConvs]
Stream == [pc : {"none", "sent", "started"}, conv : 0..MaxConvs, request : Numbers]
NoStream == [pc |-> "none", conv |-> 0, request |-> 0]
Sound == [status : {"idle", "loading", "playing"}, conv : 0..MaxConvs]
Silence == [status |-> "idle", conv |-> 0]

Cleared(a, status) ==
  [avatar |-> a, conv |-> 0, sending |-> FALSE, status |-> status, messages |-> {}]

Click == clicks < MaxClicks /\ clicks' = clicks + 1

(* A page opened for the first time.                                        *)
ChatInit ==
  /\ rooms = [c \in Rooms |-> NoRoom]
  /\ page = [session |-> 0, next |-> 1, remembered |-> 0]
  /\ screen = [step |-> "choice", ending |-> FALSE]
  /\ thread = Cleared(0, "idle")
  /\ request = 0
  /\ calls = {}
  /\ stream = NoStream
  /\ first = 0
  /\ sound = Silence
  /\ clicks = 0

GoTo(step) == screen' = [screen EXCEPT !.step = step]

-----------------------------------------------------------------------------
(* Sending *)

(* A message to conversation c appears in the thread.                       *)
Asked(t, c) ==
  [t EXCEPT !.sending = TRUE, !.messages = @ \cup {[conv |-> c, is |-> "pending"]}]

CanSend == thread.conv # 0 /\ ~thread.sending

(* The stream before is aborted, the reply being spoken stopped.            *)
SendTo(c) ==
  /\ thread' = Asked(thread, c)
  /\ stream' = [pc |-> "sent", conv |-> c, request |-> request]
  /\ sound' = Silence

Send ==
  /\ Click
  /\ screen.step = "conversation"
  /\ CanSend
  /\ SendTo(thread.conv)
  /\ UNCHANGED <<rooms, page, screen, request, calls, first>>

(* A conversation becomes ready; a first message that waits is sent.        *)
ShowReady(t) ==
  /\ thread' = IF first = 0 THEN t ELSE Asked(t, t.conv)
  /\ stream' = IF first = 0 THEN stream
               ELSE [pc |-> "sent", conv |-> t.conv, request |-> request]
  /\ first' = 0
  /\ sound' = Silence

-----------------------------------------------------------------------------
(* Sessions *)

(* Mutant of GiveUp: the stream is still read.                              *)
KeepListening == UNCHANGED <<request, stream>>

(* What is on its way is given up.                                          *)
GiveUp == request' = request + 1 /\ stream' = NoStream

(* The session is left for a new one, by starting again or for another      *)
(* scenario.                                                                *)
LeaveSession ==
  /\ Click
  /\ screen.step \in {"choice", "outro"}
  /\ page.session # 0 /\ page.next < MaxSessions
  /\ page' = [page EXCEPT !.session = 0, !.next = page.next + 1]
  /\ GoTo("choice")
  /\ GiveUp
  /\ thread' = Cleared(0, "idle")
  /\ sound' = Silence
  /\ UNCHANGED <<rooms, calls, first>>

(* Whenever there is a new session the conversation that was remembered     *)
(* when the page was loaded is restored.                                    *)
SessionArrives ==
  /\ page.session = 0
  /\ page' = [page EXCEPT !.session = page.next]
  /\ stream' = NoStream
  /\ sound' = Silence
  /\ IF page.remembered = 0
     THEN /\ request' = request + 1
          /\ thread' = Cleared(0, "idle")
          /\ UNCHANGED calls
     ELSE /\ request' = request + 2
          /\ thread' = Cleared(rooms[page.remembered].avatar, "starting")
          /\ calls' = calls \cup
               {[kind |-> "restore", served |-> TRUE, request |-> request + 2,
                 session |-> page.next, avatar |-> 0, conv |-> page.remembered]}
  /\ UNCHANGED <<rooms, screen, first, clicks>>

(* Nothing is left but what Core and the browser's storage hold.  Here the  *)
(* counter goes on, so that no answer to the page before is taken for one   *)
(* to this page.                                                            *)
Reload ==
  /\ Click
  /\ page' = [session |-> 0, remembered |-> thread.conv,
              next |-> IF page.session = 0 THEN page.next ELSE page.session]
  /\ screen' = [step |-> IF thread.conv = 0 THEN "choice" ELSE "conversation", ending |-> FALSE]
  /\ thread' = Cleared(0, "idle")
  /\ GiveUp
  /\ calls' = {k \in calls : k.kind # "restore" /\ ~k.served}
  /\ first' = 0
  /\ sound' = Silence
  /\ UNCHANGED rooms

-----------------------------------------------------------------------------
(* Conversations *)

StartChat(a, asks) ==
  /\ GiveUp
  /\ thread' = Cleared(a, "starting")
  /\ first' = IF asks THEN a ELSE 0
  /\ sound' = Silence
  /\ calls' = calls \cup
       {[kind |-> "open", served |-> FALSE, request |-> request', session |-> page.session,
         avatar |-> a, conv |-> 0]}

(* A character is chosen, with a question or without, or a suggestion is    *)
(* followed.  To the one already there, the visitor returns.                *)
Choose(a, asks) ==
  /\ Click
  /\ page.session # 0
  /\ screen.step = "choice" \/ (screen.step = "conversation" /\ ~asks)
  /\ GoTo("conversation")
  /\ IF a = thread.avatar /\ thread.conv # 0
     THEN /\ IF asks /\ CanSend THEN SendTo(thread.conv) ELSE UNCHANGED <<thread, stream, sound>>
          /\ UNCHANGED <<request, calls, first>>
     ELSE StartChat(a, asks)
  /\ UNCHANGED <<rooms, page>>

PressSwitch ==
  /\ Click
  /\ screen.step = "conversation"
  /\ GoTo("choice")
  /\ sound' = Silence
  /\ UNCHANGED <<rooms, page, thread, request, calls, stream, first>>

EndCall ==
  [kind |-> "end", served |-> FALSE, request |-> request', session |-> page.session,
   avatar |-> 0, conv |-> thread.conv]

(* Mutant of PressEnd: a message may be on its way.                         *)
PressEndAnyway ==
  /\ Click
  /\ screen.step = "conversation"
  /\ thread.conv # 0 /\ thread.status = "ready"
  /\ screen' = [screen EXCEPT !.ending = TRUE]
  /\ request' = request + 1
  /\ thread' = [thread EXCEPT !.status = "ending"]
  /\ sound' = Silence
  /\ calls' = calls \cup {EndCall}
  /\ UNCHANGED <<rooms, page, stream, first>>

PressEnd ==
  /\ Click
  /\ screen.step = "conversation"
  /\ thread.conv # 0 /\ thread.status = "ready" /\ ~thread.sending
  /\ screen' = [screen EXCEPT !.ending = TRUE]
  /\ request' = request + 1
  /\ thread' = [thread EXCEPT !.status = "ending"]
  /\ sound' = Silence
  /\ calls' = calls \cup {EndCall}
  /\ UNCHANGED <<rooms, page, stream, first>>

-----------------------------------------------------------------------------
(* Core, and its answers *)

ServeOpen(k) ==
  /\ k.kind = "open" /\ ~k.served
  /\ \E c \in Rooms \ Made :
       /\ \A d \in Rooms \ Made : c <= d
       /\ rooms' = [d \in Rooms |->
            IF d = c THEN [session |-> k.session, avatar |-> k.avatar, open |-> TRUE]
            ELSE IF rooms[d].session = k.session THEN [rooms[d] EXCEPT !.open = FALSE]
            ELSE rooms[d]]
       /\ calls' = (calls \ {k}) \cup {[k EXCEPT !.served = TRUE, !.conv = c]}
  /\ UNCHANGED <<page, screen, thread, request, stream, first, sound, clicks>>

(* Refused unless it is open.                                               *)
ServeEnd(k) ==
  /\ k.kind = "end" /\ ~k.served
  /\ rooms[k.conv].open
  /\ rooms' = [rooms EXCEPT ![k.conv] = [@ EXCEPT !.open = FALSE]]
  /\ calls' = (calls \ {k}) \cup {[k EXCEPT !.served = TRUE]}
  /\ UNCHANGED <<page, screen, thread, request, stream, first, sound, clicks>>

(* Mutant of AnswerOpen: an answer that was overtaken counts.               *)
AnswerAnyway(k) ==
  /\ k.kind = "open" /\ k.served
  /\ calls' = calls \ {k}
  /\ ShowReady([thread EXCEPT !.conv = k.conv, !.status = "ready"])
  /\ UNCHANGED <<rooms, page, screen, request, clicks>>

AnswerOpen(k) ==
  /\ k.kind = "open" /\ k.served
  /\ calls' = calls \ {k}
  /\ IF k.request = request
     THEN ShowReady([thread EXCEPT !.conv = k.conv, !.status = "ready"])
     ELSE UNCHANGED <<thread, stream, first, sound>>
  /\ UNCHANGED <<rooms, page, screen, request, clicks>>

AnswerRestore(k) ==
  /\ k.kind = "restore"
  /\ calls' = calls \ {k}
  /\ IF k.request = request
     THEN ShowReady([avatar |-> rooms[k.conv].avatar, conv |-> k.conv, sending |-> FALSE,
                     status |-> "ready", messages |-> {[conv |-> k.conv, is |-> "history"]}])
     ELSE UNCHANGED <<thread, stream, first, sound>>
  /\ UNCHANGED <<rooms, page, screen, request, clicks>>

(* The conversation on the screen is left once it has ended, or has turned  *)
(* out not to be there.                                                     *)
Leave(lost) ==
  screen' = IF screen.step # "conversation" THEN screen
            ELSE IF screen.ending /\ ~lost THEN [step |-> "outro", ending |-> FALSE]
            ELSE [screen EXCEPT !.step = "choice"]

(* A message that was sent meanwhile is still waited for.                   *)
AnswerEnd(k) ==
  /\ k.kind = "end" /\ k.served
  /\ calls' = calls \ {k}
  /\ IF k.request = request
     THEN /\ thread' = Cleared(0, "idle")
          /\ sound' = Silence
          /\ Leave(FALSE)
     ELSE UNCHANGED <<thread, sound, screen>>
  /\ UNCHANGED <<rooms, page, request, stream, first, clicks>>

OpenFails(k) ==
  /\ k.kind = "open"
  /\ calls' = calls \ {k}
  /\ IF k.request = request
     THEN thread' = [thread EXCEPT !.status = "error"] /\ Leave(TRUE)
     ELSE UNCHANGED <<thread, screen>>
  /\ UNCHANGED <<rooms, page, request, stream, first, sound, clicks>>

RestoreFails(k) ==
  /\ k.kind = "restore"
  /\ calls' = calls \ {k}
  /\ IF k.request = request
     THEN thread' = Cleared(0, "idle") /\ Leave(FALSE)
     ELSE UNCHANGED <<thread, screen>>
  /\ UNCHANGED <<rooms, page, request, stream, first, sound, clicks>>

EndFails(k) ==
  /\ k.kind = "end"
  /\ calls' = calls \ {k}
  /\ thread' = IF k.request = request THEN [thread EXCEPT !.status = "ready"] ELSE thread
  /\ UNCHANGED <<rooms, page, screen, request, stream, first, sound, clicks>>

CallStep(k) ==
  \/ ServeOpen(k) \/ ServeEnd(k)
  \/ AnswerOpen(k) \/ AnswerRestore(k) \/ AnswerEnd(k)
  \/ OpenFails(k) \/ RestoreFails(k) \/ EndFails(k)

-----------------------------------------------------------------------------
(* The stream of a turn *)

Heard == stream.request = request

Becomes(messages, status) ==
  {[m EXCEPT !.is = IF @ = "pending" THEN status ELSE @] : m \in messages}

TurnStarts ==
  /\ stream.pc = "sent"
  /\ rooms[stream.conv].open
  /\ stream' = [stream EXCEPT !.pc = "started"]
  /\ thread' = IF Heard THEN [thread EXCEPT !.messages = Becomes(@, "user")] ELSE thread
  /\ UNCHANGED <<rooms, page, screen, request, calls, first, sound, clicks>>

(* The reply is shown and spoken.                                           *)
TurnCompletes ==
  /\ stream.pc = "started"
  /\ stream' = NoStream
  /\ IF Heard
     THEN /\ thread' = [thread EXCEPT !.sending = FALSE,
               !.messages = Becomes(@, "user") \cup {[conv |-> stream.conv, is |-> "avatar"]}]
          /\ sound' = [status |-> "loading", conv |-> stream.conv]
     ELSE UNCHANGED <<thread, sound>>
  /\ UNCHANGED <<rooms, page, screen, request, calls, first, clicks>>

(* What is not answered is marked, unless the stream itself told: then it   *)
(* is left as it was.                                                       *)
TurnFails ==
  /\ stream.pc # "none"
  /\ stream' = NoStream
  /\ \E is \in {"failed", "left"} :
       thread' = IF Heard THEN [thread EXCEPT !.sending = FALSE, !.messages = Becomes(@, is)]
                 ELSE thread
  /\ UNCHANGED <<rooms, page, screen, request, calls, first, sound, clicks>>

-----------------------------------------------------------------------------
(* The reply's sound; a playback that another overtook has no effect.       *)

PlayAgain ==
  /\ Click
  /\ screen.step = "conversation"
  /\ [conv |-> thread.conv, is |-> "avatar"] \in thread.messages
  /\ sound' = [status |-> "loading", conv |-> thread.conv]
  /\ UNCHANGED <<rooms, page, screen, thread, request, calls, stream, first>>

AudioPlays ==
  /\ sound.status = "loading"
  /\ sound' = [sound EXCEPT !.status = "playing"]
  /\ UNCHANGED <<rooms, page, screen, thread, request, calls, stream, first, clicks>>

AudioStops ==
  /\ sound.status # "idle"
  /\ sound' = Silence
  /\ UNCHANGED <<rooms, page, screen, thread, request, calls, stream, first, clicks>>

ChatAnswers ==
  \/ SessionArrives
  \/ \E k \in calls : CallStep(k)
  \/ TurnStarts \/ TurnCompletes \/ TurnFails
  \/ AudioPlays \/ AudioStops

ChatClicks ==
  \/ \E a \in Avatars, asks \in BOOLEAN : Choose(a, asks)
  \/ PressSwitch \/ PressEnd \/ PlayAgain
  \/ LeaveSession \/ Reload

-----------------------------------------------------------------------------
(* The player's state is of the declared kind.                              *)
ChatTypeOK ==
  /\ rooms \in [Rooms -> Room]
  /\ page \in Page
  /\ screen \in Screen
  /\ thread \in Thread
  /\ request \in Numbers
  /\ calls \subseteq Call
  /\ stream \in Stream
  /\ first \in Avatars \cup {0}
  /\ sound \in Sound
  /\ clicks \in 0..MaxClicks

(* The thread never shows a message of another conversation than the one it *)
(* is of, though replies stream in while conversations are opened, restored *)
(* and ended.                                                               *)
ThreadIsOfConversation ==
  thread.conv # 0 => \A m \in thread.messages : m.conv = thread.conv

(* The conversation shown is one with the character shown, in whichever     *)
(* order the answers to overlapping selections come.                        *)
ConversationIsOfAvatar ==
  thread.conv # 0 => rooms[thread.conv].avatar = thread.avatar

(* What the player waits for comes to an end: it is never left with a       *)
(* composer that cannot send, or a conversation that is starting or ending. *)
PlayerSettles ==
  /\ thread.sending ~> ~thread.sending
  /\ (thread.status \in {"starting", "ending"}) ~> (thread.status \notin {"starting", "ending"})

(* discovery: starting again begins a fresh session, so what is shown in a  *)
(* session is a conversation of that session.                               *)
ConversationIsOfSession ==
  thread.conv # 0 => rooms[thread.conv].session = page.session

=============================================================================
