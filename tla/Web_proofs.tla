------------------------------ MODULE Web_proofs ------------------------------
(***************************************************************************)
(* The web player.  The chat, for any number of characters, sessions,       *)
(* conversations, clicks and cues: the thread is of the conversation shown, *)
(* the conversation is with the character shown, and a cue starts in        *)
(* silence.  Discovery, for any number of scenarios, sessions, choices,     *)
(* unlocks, failures and refreshes at once: the avatars are of the session  *)
(* shown, and unlocks are shown.                                            *)
(***************************************************************************)
EXTENDS Player, Discovery, FiniteSetTheorems, TLAPS

-----------------------------------------------------------------------------
(* The chat's part of the inductive invariant.  A call is current when no   *)
(* event has come since that made the player count on.  One call is at      *)
(* most, and until a current one has opened or restored a conversation the  *)
(* thread is empty and of the character asked for.  A stream that is heard  *)
(* is of the conversation shown, or of one that has been left for nothing.  *)

NoneCurrent == \A k \in calls : k.request # request

CallOk(k) ==
  /\ k.request <= request
  /\ k.kind = "open" => k.avatar # 0
  /\ k.kind = "open" /\ k.served => k.conv \in Made /\ rooms[k.conv].avatar = k.avatar
  /\ k.kind # "open" => k.conv \in Made
  /\ k.request = request /\ k.kind # "end" => thread.conv = 0 /\ thread.messages = {}
  /\ k.request = request /\ k.kind = "open" => thread.avatar = k.avatar

CallsInv ==
  /\ \A k \in calls : CallOk(k)
  /\ \A k, n \in calls : k.request = request /\ n.request = request => k = n

ShownInv ==
  /\ thread.conv # 0 => thread.conv \in Made
  /\ page.remembered # 0 => page.remembered \in Made
  /\ page.session = 0 => thread.conv = 0 /\ NoneCurrent

StreamInv ==
  stream.pc # "none" =>
    /\ stream.conv # 0 /\ stream.request <= request
    /\ Heard => thread.conv = stream.conv \/ (thread.conv = 0 /\ NoneCurrent)

CountInv == request <= 3 * clicks + (IF page.session = 0 THEN 0 ELSE 2)

ChatInv ==
  /\ ChatTypeOK
  /\ CallsInv
  /\ ShownInv
  /\ StreamInv
  /\ CountInv
  /\ ThreadIsOfConversation
  /\ ConversationIsOfAvatar

-----------------------------------------------------------------------------
(* A status changes, the conversation of a message does not.                *)
LEMMA BecomesKeepsConv ==
  ASSUME NEW M \in SUBSET Message, NEW is \in {"user", "failed", "left"}
  PROVE  /\ Becomes(M, is) \in SUBSET Message
         /\ \A m \in Becomes(M, is) : \E n \in M : m.conv = n.conv
BY DEF Becomes, Message

(* A page that is opened is as the invariant says.                          *)
LEMMA ChatBegins ==
  ASSUME ChatInit
  PROVE  ChatInv
BY PlayerAssumption
   DEF ChatInit, ChatInv, ChatTypeOK, CallsInv, ShownInv, StreamInv, CountInv,
       ThreadIsOfConversation, ConversationIsOfAvatar, NoneCurrent, Rooms, Room, NoRoom, Page,
       Screen, Thread, Cleared, Numbers, Stream, NoStream, Sound, Silence

(* Starting a conversation.                                                 *)
LEMMA StartChatKeeps ==
  ASSUME ChatInv, NEW a \in Avatars, NEW asks \in BOOLEAN, Click, page.session # 0,
         StartChat(a, asks), UNCHANGED <<rooms, page>>, screen' \in Screen
  PROVE  ChatInv'
<1> PICK k : k = [kind |-> "open", served |-> FALSE, request |-> request',
                  session |-> page.session, avatar |-> a, conv |-> 0]
  BY Zenon
<1> USE PlayerAssumption DEF ChatInv
<1>1. /\ request' = request + 1 /\ stream' = NoStream /\ thread' = Cleared(a, "starting")
      /\ sound' = Silence /\ calls' = calls \cup {k} /\ clicks' = clicks + 1
      /\ clicks < MaxClicks
      /\ first' \in {0, a}
  BY DEF StartChat, GiveUp, Click
<1>2. CountInv'
  BY <1>1 DEF CountInv, ChatTypeOK, Numbers, Page
<1>3. request' \in Numbers
  BY <1>1, <1>2 DEF CountInv, ChatTypeOK, Numbers, Page
<1>4. /\ k \in Call
      /\ k.kind = "open" /\ k.served = FALSE /\ k.request = request' /\ k.avatar = a
      /\ k.conv = 0
  BY <1>3 DEF Call, ChatTypeOK, Page
<1>5. ChatTypeOK'
  <2>1. thread' \in Thread
    BY <1>1 DEF Thread, Cleared
  <2>2. stream' \in Stream /\ sound' \in Sound /\ first' \in Avatars \cup {0}
    BY <1>1 DEF Stream, NoStream, Numbers, Sound, Silence
  <2>3. clicks' \in 0..MaxClicks
    BY <1>1 DEF ChatTypeOK
  <2>4. calls' \subseteq Call
    BY <1>1, <1>4 DEF ChatTypeOK
  <2>5. rooms' \in [Rooms -> Room] /\ page' \in Page
    BY DEF ChatTypeOK
  <2> QED BY <2>1, <2>2, <2>3, <2>4, <2>5, <1>3 DEF ChatTypeOK
<1>6. CallsInv'
  <2>1. \A j \in calls : CallOk(j)' /\ j.request # request'
    BY <1>1 DEF CallsInv, CallOk, ChatTypeOK, Call, Numbers, Made
  <2>2. CallOk(k)'
    BY <1>1, <1>3, <1>4 DEF CallOk, Cleared, Numbers
  <2> QED BY <1>1, <2>1, <2>2 DEF CallsInv
<1>7. ShownInv' /\ StreamInv' /\ ThreadIsOfConversation' /\ ConversationIsOfAvatar'
  BY <1>1 DEF ShownInv, StreamInv, ThreadIsOfConversation, ConversationIsOfAvatar, Cleared,
              NoStream, Made, NoneCurrent
<1> QED BY <1>2, <1>5, <1>6, <1>7

(* A message that is sent is added to the thread.                           *)
LEMMA AskedKeeps ==
  ASSUME NEW t \in Thread, NEW c \in Rooms
  PROVE  /\ Asked(t, c) \in Thread
         /\ Asked(t, c).conv = t.conv /\ Asked(t, c).avatar = t.avatar
         /\ Asked(t, c).messages = t.messages \cup {[conv |-> c, is |-> "pending"]}
<1>1. [conv |-> c, is |-> "pending"] \in Message
  BY DEF Message
<1>2. t.messages \cup {[conv |-> c, is |-> "pending"]} \in SUBSET Message
  BY <1>1 DEF Thread
<1> QED BY <1>2 DEF Asked, Thread

(* A message to the conversation shown, or to the one that was left.        *)
LEMMA SendToKeeps ==
  ASSUME ChatInv, NEW c \in Rooms, SendTo(c),
         thread.conv = c \/ (thread.conv = 0 /\ NoneCurrent),
         UNCHANGED <<rooms, page, request, calls, first>>, screen' \in Screen,
         clicks' = clicks \/ Click
  PROVE  ChatInv'
<1> USE PlayerAssumption DEF ChatInv
<1>1. /\ clicks' \in 0..MaxClicks /\ clicks <= clicks'
      /\ sound' = Silence
  BY DEF Click, SendTo, ChatTypeOK
<1>2. /\ thread' \in Thread
      /\ thread'.conv = thread.conv /\ thread'.avatar = thread.avatar
      /\ thread'.messages = thread.messages \cup {[conv |-> c, is |-> "pending"]}
  BY AskedKeeps DEF SendTo, ChatTypeOK
<1>3. /\ stream' \in Stream /\ stream'.pc = "sent" /\ stream'.conv = c
      /\ stream'.request = request
  BY DEF SendTo, ChatTypeOK, Stream, Rooms
<1>4. ChatTypeOK'
  BY <1>1, <1>2, <1>3 DEF ChatTypeOK, Sound, Silence
<1>5. CallsInv'
  BY <1>2 DEF CallsInv, CallOk, NoneCurrent, Made, Rooms
<1>6. ShownInv' /\ CountInv'
  BY <1>1, <1>2 DEF ShownInv, CountInv, ChatTypeOK, Numbers, Page, NoneCurrent, Made
<1>7. StreamInv'
  BY <1>2, <1>3 DEF StreamInv, Heard, ChatTypeOK, Numbers, NoneCurrent, Rooms
<1>8. ThreadIsOfConversation' /\ ConversationIsOfAvatar'
  BY <1>2 DEF ThreadIsOfConversation, ConversationIsOfAvatar
<1> QED BY <1>4, <1>5, <1>6, <1>7, <1>8

(* The conversation that was waited for becomes the one shown.              *)
LEMMA ShowReadyKeeps ==
  ASSUME ChatInv, NEW k \in calls, k.request = request, k.kind # "end", NEW t \in Thread,
         t.conv = k.conv, k.conv \in Made, rooms[k.conv].avatar = t.avatar,
         \A m \in t.messages : m.conv = t.conv,
         ShowReady(t), calls' = calls \ {k},
         UNCHANGED <<rooms, page, screen, request, clicks>>
  PROVE  ChatInv'
<1> USE PlayerAssumption DEF ChatInv
<1>1. page.session # 0 /\ k.conv \in Rooms
  BY DEF ShownInv, NoneCurrent, Made
<1>2. \A n \in calls' : n \in calls /\ n.request # request
  BY DEF CallsInv
<1>3. /\ thread' \in Thread
      /\ thread'.conv = t.conv /\ thread'.avatar = t.avatar
      /\ thread'.messages \in {t.messages, t.messages \cup {[conv |-> t.conv, is |-> "pending"]}}
  BY <1>1, AskedKeeps DEF ShowReady
<1>4. /\ stream' \in Stream
      /\ \/ stream' = stream
         \/ stream'.conv = t.conv /\ stream'.request = request
  BY <1>1 DEF ShowReady, ChatTypeOK, Stream, Rooms
<1>5. sound' \in Sound /\ first' \in Avatars \cup {0}
  BY DEF ShowReady, ChatTypeOK, Sound, Silence
<1>6. ChatTypeOK'
  BY <1>3, <1>4, <1>5 DEF ChatTypeOK
<1>7. CallsInv'
  BY <1>2 DEF CallsInv, CallOk, Made
<1>8. ShownInv' /\ CountInv'
  BY <1>1, <1>3 DEF ShownInv, CountInv, Made
<1>9. StreamInv'
  <2>1. stream.pc # "none" => ~Heard \/ thread.conv # 0
    BY DEF StreamInv, NoneCurrent
  <2>2. k.kind # "end" => thread.conv = 0
    BY DEF CallsInv, CallOk
  <2> QED BY <1>1, <1>3, <1>4, <2>1, <2>2 DEF StreamInv, Heard, ChatTypeOK, Numbers, Rooms
<1>10. ThreadIsOfConversation' /\ ConversationIsOfAvatar'
  BY <1>3 DEF ThreadIsOfConversation, ConversationIsOfAvatar
<1> QED BY <1>6, <1>7, <1>8, <1>9, <1>10

(* A thread that stays as it is but for its status, or that is left for     *)
(* none while no call is current.                                           *)
LEMMA ThreadCalms ==
  ASSUME ChatInv, UNCHANGED <<rooms, page, request, stream, first>>,
         calls' \subseteq calls, screen' \in Screen, sound' \in Sound,
         clicks' = clicks \/ Click, thread' \in Thread,
         \/ /\ thread'.conv = thread.conv /\ thread'.avatar = thread.avatar
            /\ thread'.messages = thread.messages
         \/ thread'.conv = 0 /\ \A k \in calls' : k.request # request
  PROVE  ChatInv'
<1> USE PlayerAssumption DEF ChatInv
<1>1. clicks' \in 0..MaxClicks /\ clicks <= clicks'
  BY DEF Click, ChatTypeOK
<1>2. ChatTypeOK'
  BY <1>1 DEF ChatTypeOK
<1>3. CallsInv'
  BY DEF CallsInv, CallOk, Made
<1>4. ShownInv' /\ CountInv'
  <2>1. clicks \in Nat /\ clicks' \in Nat /\ request \in Nat
    BY <1>1 DEF ChatTypeOK, Numbers
  <2>2. CountInv'
    <3>1. CASE clicks' = clicks
      BY <3>1 DEF CountInv
    <3>2. CASE clicks' = clicks + 1
      BY <2>1, <3>2 DEF CountInv
    <3> QED BY <3>1, <3>2 DEF Click
  <2>3. ShownInv'
    BY DEF ShownInv, NoneCurrent, Made
  <2> QED BY <2>2, <2>3
<1>5. StreamInv'
  BY DEF StreamInv, Heard, NoneCurrent
<1>6. ThreadIsOfConversation' /\ ConversationIsOfAvatar'
  BY DEF ThreadIsOfConversation, ConversationIsOfAvatar
<1> QED BY <1>2, <1>3, <1>4, <1>5, <1>6

(* A stream that is heard changes what it is of.                            *)
LEMMA StreamKeeps ==
  ASSUME ChatInv, stream.pc # "none",
         UNCHANGED <<rooms, page, screen, request, calls, first, clicks>>,
         stream' \in Stream, stream'.pc # "none" => stream'.conv = stream.conv
                                                  /\ stream'.request = stream.request,
         sound' \in Sound, thread' \in Thread,
         thread'.conv = thread.conv, thread'.avatar = thread.avatar,
         \A m \in thread'.messages :
           (Heard /\ m.conv = stream.conv) \/ \E n \in thread.messages : m.conv = n.conv
  PROVE  ChatInv'
<1> USE PlayerAssumption DEF ChatInv
<1>1. ChatTypeOK'
  BY DEF ChatTypeOK
<1>2. CallsInv'
  <2> SUFFICES ASSUME NEW k \in calls PROVE CallOk(k)'
    BY DEF CallsInv
  <2>1. CallOk(k)
    BY DEF CallsInv
  <2>2. k.request = request /\ k.kind # "end" => thread'.messages = {}
    BY <2>1 DEF CallOk, StreamInv, NoneCurrent
  <2> QED BY <2>1, <2>2 DEF CallOk, Made
<1>3. ShownInv' /\ CountInv'
  BY DEF ShownInv, CountInv, NoneCurrent, Made
<1>4. StreamInv'
  BY DEF StreamInv, Heard, NoneCurrent
<1>5. ThreadIsOfConversation' /\ ConversationIsOfAvatar'
  BY DEF ThreadIsOfConversation, ConversationIsOfAvatar, StreamInv
<1> QED BY <1>1, <1>2, <1>3, <1>4, <1>5

-----------------------------------------------------------------------------
(* The visitor's clicks *)

LEMMA SendInv ==
  ASSUME ChatInv, Send
  PROVE  ChatInv'
<1>1. thread.conv \in Rooms
  BY DEF Send, CanSend, ChatInv, ShownInv, Made
<1> QED BY <1>1, SendToKeeps DEF Send, ChatInv, ChatTypeOK

LEMMA LeaveSessionInv ==
  ASSUME ChatInv, LeaveSession
  PROVE  ChatInv'
<1> USE PlayerAssumption DEF ChatInv
<1>1. /\ request' = request + 1 /\ clicks' = clicks + 1 /\ clicks < MaxClicks
      /\ page.session # 0 /\ page'.session = 0 /\ page'.remembered = page.remembered
      /\ thread' = Cleared(0, "idle") /\ stream' = NoStream /\ sound' = Silence
      /\ UNCHANGED <<rooms, calls, first>>
  BY DEF LeaveSession, Click, GiveUp, ChatTypeOK, Page
<1>2. page' \in Page /\ screen' \in Screen
  <2>1. page.next + 1 \in 1..MaxSessions /\ page \in Page
    BY DEF LeaveSession, ChatTypeOK, Page
  <2>2. page' = [page EXCEPT !.session = 0, !.next = page.next + 1]
    BY DEF LeaveSession
  <2>3. page' \in Page
    <3>1. page'.session = 0 /\ page'.next = page.next + 1 /\ page'.remembered = page.remembered
      BY <2>1, <2>2 DEF Page
    <3>2. page' = [session |-> page'.session, next |-> page'.next, remembered |-> page'.remembered]
      BY <2>1, <2>2 DEF Page
    <3> HIDE <2>2
    <3> QED BY <2>1, <3>1, <3>2 DEF Page
  <2>4. screen' \in Screen
    BY DEF LeaveSession, ChatTypeOK, Screen, GoTo
  <2> QED BY <2>3, <2>4
<1>3. CountInv' /\ request' \in Numbers
  BY <1>1 DEF CountInv, ChatTypeOK, Numbers
<1>4. ChatTypeOK'
  BY <1>1, <1>2, <1>3 DEF ChatTypeOK, Thread, Cleared, Stream, NoStream, Sound, Silence, Numbers
<1>5. CallsInv' /\ NoneCurrent'
  BY <1>1 DEF CallsInv, CallOk, ChatTypeOK, Call, Numbers, Made, NoneCurrent
<1>6. ShownInv' /\ StreamInv' /\ ThreadIsOfConversation' /\ ConversationIsOfAvatar'
  BY <1>1, <1>5 DEF ShownInv, StreamInv, ThreadIsOfConversation, ConversationIsOfAvatar, Cleared,
                    NoStream, Made
<1> QED BY <1>3, <1>4, <1>5, <1>6

LEMMA ReloadInv ==
  ASSUME ChatInv, Reload
  PROVE  ChatInv'
<1> USE PlayerAssumption DEF ChatInv
<1>1. /\ request' = request + 1 /\ clicks' = clicks + 1 /\ clicks < MaxClicks
      /\ page'.session = 0 /\ page'.remembered = thread.conv
      /\ thread' = Cleared(0, "idle") /\ stream' = NoStream /\ sound' = Silence
      /\ calls' \subseteq calls /\ first' = 0
      /\ UNCHANGED rooms
  BY DEF Reload, Click, GiveUp
<1>2. page' \in Page /\ screen' \in Screen
  <2>1. thread.conv \in 0..MaxConvs /\ MaxSessions >= 1
    BY DEF ChatTypeOK, Thread
  <2>2. page'.next = IF page.session = 0 THEN page.next ELSE page.session
    BY DEF Reload
  <2>3. page'.next \in 1..MaxSessions
    BY <2>2 DEF ChatTypeOK, Page
  <2>4. page' = [session |-> 0, remembered |-> thread.conv, next |-> page'.next]
    BY DEF Reload
  <2>5. page' \in Page
    BY <2>1, <2>3, <2>4 DEF Page
  <2>6. screen' \in Screen
    BY DEF Reload, Screen
  <2> QED BY <2>5, <2>6
<1>3. CountInv' /\ request' \in Numbers
  BY <1>1 DEF CountInv, ChatTypeOK, Numbers
<1>4. ChatTypeOK'
  BY <1>1, <1>2, <1>3 DEF ChatTypeOK, Thread, Cleared, Stream, NoStream, Sound, Silence, Numbers
<1>5. CallsInv' /\ NoneCurrent'
  BY <1>1 DEF CallsInv, CallOk, ChatTypeOK, Call, Numbers, Made, NoneCurrent
<1>6. ShownInv' /\ StreamInv' /\ ThreadIsOfConversation' /\ ConversationIsOfAvatar'
  BY <1>1, <1>5 DEF ShownInv, StreamInv, ThreadIsOfConversation, ConversationIsOfAvatar, Cleared,
                    NoStream, Made
<1> QED BY <1>3, <1>4, <1>5, <1>6

LEMMA ChooseInv ==
  ASSUME ChatInv, NEW a \in Avatars, NEW asks \in BOOLEAN, Choose(a, asks)
  PROVE  ChatInv'
<1>1. screen' \in Screen
  BY DEF Choose, GoTo, ChatInv, ChatTypeOK, Screen
<1>2. CASE a = thread.avatar /\ thread.conv # 0
  <2>1. UNCHANGED <<rooms, page, request, calls, first>> /\ Click
    BY <1>2 DEF Choose
  <2>2. CASE asks /\ CanSend
    BY <1>1, <1>2, <2>1, <2>2, SendToKeeps DEF Choose, ChatInv, ShownInv, Made
  <2>3. CASE ~(asks /\ CanSend)
    <3>1. UNCHANGED <<thread, stream, sound>>
      BY <1>2, <2>3 DEF Choose
    <3> QED BY <1>1, <2>1, <3>1, ThreadCalms DEF ChatInv, ChatTypeOK
  <2> QED BY <2>2, <2>3
<1>3. CASE ~(a = thread.avatar /\ thread.conv # 0)
  BY <1>1, <1>3, StartChatKeeps DEF Choose
<1> QED BY <1>2, <1>3

(* A page comes to its session, and restores what the one before showed.    *)
LEMMA SessionArrivesInv ==
  ASSUME ChatInv, SessionArrives
  PROVE  ChatInv'
<1> USE PlayerAssumption DEF ChatInv
<1>1. /\ page.session = 0 /\ page'.session # 0 /\ page'.remembered = page.remembered
      /\ stream' = NoStream /\ sound' = Silence
      /\ UNCHANGED <<rooms, screen, first, clicks>>
      /\ thread.conv = 0 /\ thread'.conv = 0 /\ thread'.messages = {}
  BY DEF SessionArrives, ChatTypeOK, Page, ShownInv, Cleared
<1>2. page' \in Page
  <2>1. page \in Page /\ page' = [page EXCEPT !.session = page.next]
    BY DEF SessionArrives, ChatTypeOK
  <2> QED BY <2>1 DEF Page
<1>3. request' \in {request + 1, request + 2} /\ request \in Nat
  BY DEF SessionArrives, ChatTypeOK, Numbers
<1>4. CountInv' /\ request' \in Numbers
  BY <1>1, <1>3 DEF CountInv, ChatTypeOK, Numbers
<1>5. \A j \in calls : CallOk(j)' /\ j.request # request'
  BY <1>1, <1>3 DEF CallsInv, CallOk, ChatTypeOK, Call, Numbers, Made
<1>6. ShownInv' /\ StreamInv' /\ ThreadIsOfConversation' /\ ConversationIsOfAvatar'
  BY <1>1 DEF ShownInv, StreamInv, ThreadIsOfConversation, ConversationIsOfAvatar, NoStream, Made
<1>7. stream' \in Stream /\ sound' \in Sound
  BY <1>1 DEF Stream, NoStream, Sound, Silence, Numbers
<1>8. CASE page.remembered = 0
  <2>1. thread' = Cleared(0, "idle") /\ calls' = calls
    BY <1>8 DEF SessionArrives
  <2>2. ChatTypeOK'
    BY <2>1, <1>1, <1>2, <1>4, <1>7 DEF ChatTypeOK, Thread, Cleared
  <2>3. CallsInv'
    BY <2>1, <1>5 DEF CallsInv
  <2> QED BY <1>4, <1>6, <2>2, <2>3
<1>9. CASE page.remembered # 0
  <2>1. PICK k : k = [kind |-> "restore", served |-> TRUE, request |-> request + 2,
                      session |-> page.next, avatar |-> 0, conv |-> page.remembered]
    BY Zenon
  <2>2. /\ request' = request + 2 /\ calls' = calls \cup {k}
        /\ thread' = Cleared(rooms[page.remembered].avatar, "starting")
    BY <1>9, <2>1 DEF SessionArrives
  <2>3. /\ k \in Call /\ k.kind = "restore" /\ k.request = request'
        /\ k.conv = page.remembered /\ k.conv \in Made
    BY <1>4, <1>9, <2>1, <2>2 DEF Call, ChatTypeOK, Page, ShownInv
  <2>4. thread' \in Thread
    BY <2>2, <2>3 DEF Thread, Cleared, Made, ChatTypeOK, Room
  <2>5. ChatTypeOK'
    BY <1>1, <1>2, <1>4, <1>7, <2>2, <2>3, <2>4 DEF ChatTypeOK
  <2>6. CallOk(k)'
    BY <1>1, <1>3, <2>2, <2>3 DEF CallOk, Made
  <2>7. CallsInv'
    BY <1>5, <2>2, <2>6 DEF CallsInv
  <2> QED BY <1>4, <1>6, <2>5, <2>7
<1> QED BY <1>8, <1>9

LEMMA PressSwitchInv ==
  ASSUME ChatInv, PressSwitch
  PROVE  ChatInv'
<1>1. /\ Click /\ screen' \in Screen /\ sound' \in Sound
      /\ UNCHANGED <<rooms, page, thread, request, calls, stream, first>>
  BY PlayerAssumption DEF PressSwitch, GoTo, ChatInv, ChatTypeOK, Screen, Sound, Silence
<1> QED BY <1>1, ThreadCalms DEF ChatInv, ChatTypeOK

LEMMA PressEndInv ==
  ASSUME ChatInv, PressEnd
  PROVE  ChatInv'
<1> USE PlayerAssumption DEF ChatInv
<1>1. PICK k : k = EndCall
  BY Zenon
<1>2. /\ request' = request + 1 /\ request \in Nat
      /\ clicks' = clicks + 1 /\ clicks < MaxClicks
      /\ calls' = calls \cup {k} /\ sound' = Silence
      /\ UNCHANGED <<rooms, page, stream, first>>
      /\ thread.conv # 0 /\ thread.conv \in Made /\ page.session # 0
  BY <1>1 DEF PressEnd, Click, ChatTypeOK, Numbers, ShownInv
<1>3. /\ thread' \in Thread /\ thread'.conv = thread.conv
      /\ thread'.avatar = thread.avatar /\ thread'.messages = thread.messages
  BY DEF PressEnd, ChatTypeOK, Thread
<1>4. CountInv' /\ request' \in Numbers
  BY <1>2 DEF CountInv, ChatTypeOK, Numbers
<1>5. k \in Call /\ k.kind = "end" /\ k.request = request' /\ k.conv \in Made
  BY <1>1, <1>2, <1>4 DEF EndCall, Call, ChatTypeOK, Page, Made, Rooms
<1>6. ChatTypeOK'
  <2>1. screen' \in Screen
    BY DEF PressEnd, ChatTypeOK, Screen
  <2>2. sound' \in Sound
    BY <1>2 DEF Sound, Silence
  <2>3. clicks' \in 0..MaxClicks
    BY <1>2 DEF ChatTypeOK
  <2> QED BY <1>2, <1>3, <1>4, <1>5, <2>1, <2>2, <2>3 DEF ChatTypeOK
<1>7. CallsInv'
  <2>1. \A j \in calls : CallOk(j)' /\ j.request # request'
    BY <1>2, <1>3 DEF CallsInv, CallOk, ChatTypeOK, Call, Numbers, Made
  <2>2. CallOk(k)'
    BY <1>2, <1>5 DEF CallOk, Made
  <2> QED BY <1>2, <2>1, <2>2 DEF CallsInv
<1>8. StreamInv'
  BY <1>2, <1>3 DEF StreamInv, Heard, ChatTypeOK, Stream, Numbers
<1>9. ShownInv' /\ ThreadIsOfConversation' /\ ConversationIsOfAvatar'
  BY <1>2, <1>3 DEF ShownInv, ThreadIsOfConversation, ConversationIsOfAvatar, Made
<1> QED BY <1>4, <1>6, <1>7, <1>8, <1>9

-----------------------------------------------------------------------------
(* What Core does, and what it answers *)

(* A conversation that is there keeps its session and its character, and    *)
(* the calls but for one stay; that one is still of the same request.       *)
LEMMA ServedKeeps ==
  ASSUME ChatInv, NEW k \in calls, NEW n \in Call,
         rooms' \in [Rooms -> Room],
         \A c \in Made : c \in Made' /\ rooms'[c].avatar = rooms[c].avatar,
         n.kind = k.kind, n.request = k.request, n.avatar = k.avatar,
         n.conv \in Made', n.kind = "open" => rooms'[n.conv].avatar = n.avatar,
         calls' = (calls \ {k}) \cup {n},
         UNCHANGED <<page, screen, thread, request, stream, first, sound, clicks>>
  PROVE  ChatInv'
<1> USE DEF ChatInv
<1>1. ChatTypeOK'
  BY DEF ChatTypeOK
<1>2. CallsInv'
  <2>1. \A j \in calls : CallOk(j)'
    BY DEF CallsInv, CallOk
  <2>2. CallOk(n)'
    BY DEF CallsInv, CallOk
  <2>3. \A j \in calls' : j = n \/ (j \in calls /\ j # k)
    OBVIOUS
  <2>4. \A j, m \in calls' : j.request = request' /\ m.request = request' => j = m
    BY <2>3 DEF CallsInv
  <2> QED BY <2>1, <2>2, <2>3, <2>4 DEF CallsInv
<1>3. NoneCurrent => NoneCurrent'
  BY DEF NoneCurrent
<1>4. ShownInv' /\ CountInv' /\ StreamInv'
  BY <1>3 DEF ShownInv, CountInv, StreamInv, Heard
<1>5. ThreadIsOfConversation' /\ ConversationIsOfAvatar'
  BY DEF ThreadIsOfConversation, ConversationIsOfAvatar, ShownInv
<1> QED BY <1>1, <1>2, <1>4, <1>5

LEMMA ServeOpenInv ==
  ASSUME ChatInv, NEW k \in calls, ServeOpen(k)
  PROVE  ChatInv'
<1>1. k \in Call /\ k.kind = "open" /\ k.avatar # 0 /\ rooms \in [Rooms -> Room]
  BY DEF ServeOpen, ChatInv, ChatTypeOK, CallsInv, CallOk
<1>2. PICK c \in Rooms \ Made :
        /\ rooms' = [d \in Rooms |->
             IF d = c THEN [session |-> k.session, avatar |-> k.avatar, open |-> TRUE]
             ELSE IF rooms[d].session = k.session THEN [rooms[d] EXCEPT !.open = FALSE]
             ELSE rooms[d]]
        /\ calls' = (calls \ {k}) \cup {[k EXCEPT !.served = TRUE, !.conv = c]}
  BY DEF ServeOpen
<1>3. PICK n : n = [k EXCEPT !.served = TRUE, !.conv = c]
  BY Zenon
<1>4. /\ n \in Call /\ n.kind = "open" /\ n.request = k.request /\ n.avatar = k.avatar
      /\ n.conv = c
  <2>1. c \in 0..MaxConvs
    BY PlayerAssumption DEF Rooms
  <2> QED BY <1>1, <1>3, <2>1 DEF Call
<1>5. rooms'[c] = [session |-> k.session, avatar |-> k.avatar, open |-> TRUE]
  BY <1>2
<1>6. \A d \in Rooms : d # c => /\ rooms'[d] \in Room
                                /\ rooms'[d].session = rooms[d].session
                                /\ rooms'[d].avatar = rooms[d].avatar
  BY <1>1, <1>2 DEF Room
<1>7. rooms'[c] \in Room /\ rooms'[c].session # 0 /\ rooms'[c].avatar = k.avatar
  BY <1>1, <1>5, PlayerAssumption DEF Call, Room
<1>8. rooms' \in [Rooms -> Room]
  BY <1>2, <1>6, <1>7
<1>9. \A d \in Made : d \in Made' /\ rooms'[d].avatar = rooms[d].avatar
  BY <1>2, <1>6 DEF Made
<1>10. c \in Made'
  BY <1>7, <1>2 DEF Made
<1>11. calls' = (calls \ {k}) \cup {n}
       /\ UNCHANGED <<page, screen, thread, request, stream, first, sound, clicks>>
  BY <1>2, <1>3 DEF ServeOpen
<1> QED
  BY <1>1, <1>4, <1>7, <1>8, <1>9, <1>10, <1>11, ServedKeeps

LEMMA ServeEndInv ==
  ASSUME ChatInv, NEW k \in calls, ServeEnd(k)
  PROVE  ChatInv'
<1>1. k \in Call /\ k.kind = "end" /\ k.conv \in Made /\ rooms \in [Rooms -> Room]
  BY DEF ServeEnd, ChatInv, ChatTypeOK, CallsInv, CallOk
<1>2. rooms' = [rooms EXCEPT ![k.conv] = [rooms[k.conv] EXCEPT !.open = FALSE]]
  BY DEF ServeEnd
<1>3. PICK n : n = [k EXCEPT !.served = TRUE]
  BY Zenon
<1>4. /\ n \in Call /\ n.kind = "end" /\ n.request = k.request /\ n.avatar = k.avatar
      /\ n.conv = k.conv
  BY <1>1, <1>3 DEF Call
<1>5. [rooms[k.conv] EXCEPT !.open = FALSE] \in Room
  BY <1>1 DEF Room, Made
<1>6. rooms' \in [Rooms -> Room]
  BY <1>1, <1>2, <1>5
<1>7. \A d \in Rooms : /\ rooms'[d].session = rooms[d].session
                       /\ rooms'[d].avatar = rooms[d].avatar
  BY <1>1, <1>2 DEF Room
<1>8. \A d \in Made : d \in Made' /\ rooms'[d].avatar = rooms[d].avatar
  BY <1>7 DEF Made
<1> QED
  BY <1>1, <1>3, <1>4, <1>6, <1>8, ServedKeeps DEF ServeEnd

LEMMA AnswerOpenInv ==
  ASSUME ChatInv, NEW k \in calls, AnswerOpen(k)
  PROVE  ChatInv'
<1>1. /\ k.kind = "open" /\ k.served /\ calls' = calls \ {k}
      /\ UNCHANGED <<rooms, page, screen, request, clicks>>
      /\ thread \in Thread /\ CallOk(k)
  BY DEF AnswerOpen, ChatInv, ChatTypeOK, CallsInv
<1>2. CASE k.request = request
  <2>1. PICK t : t = [thread EXCEPT !.conv = k.conv, !.status = "ready"]
    BY Zenon
  <2>2. /\ k.conv \in Made /\ rooms[k.conv].avatar = k.avatar
        /\ thread.messages = {} /\ thread.avatar = k.avatar
    BY <1>1, <1>2 DEF CallOk
  <2>3. /\ t \in Thread /\ t.conv = k.conv /\ t.avatar = k.avatar /\ t.messages = {}
    <3>1. k.conv \in 0..MaxConvs
      BY <2>2, PlayerAssumption DEF Made, Rooms
    <3> QED BY <1>1, <2>1, <2>2, <3>1 DEF Thread
  <2>4. ShowReady(t)
    BY <1>2, <2>1 DEF AnswerOpen
  <2> QED BY <1>1, <1>2, <2>2, <2>3, <2>4, ShowReadyKeeps
<1>3. CASE k.request # request
  <2>1. UNCHANGED <<thread, stream, first, sound>>
    BY <1>3 DEF AnswerOpen
  <2> QED BY <1>1, <2>1, ThreadCalms DEF ChatInv, ChatTypeOK
<1> QED BY <1>2, <1>3

LEMMA AnswerRestoreInv ==
  ASSUME ChatInv, NEW k \in calls, AnswerRestore(k)
  PROVE  ChatInv'
<1>1. /\ k.kind = "restore" /\ calls' = calls \ {k}
      /\ UNCHANGED <<rooms, page, screen, request, clicks>>
      /\ thread \in Thread /\ k.conv \in Made /\ rooms \in [Rooms -> Room]
  BY DEF AnswerRestore, ChatInv, ChatTypeOK, CallsInv, CallOk
<1>2. CASE k.request = request
  <2>1. PICK t : t = [avatar |-> rooms[k.conv].avatar, conv |-> k.conv, sending |-> FALSE,
                      status |-> "ready", messages |-> {[conv |-> k.conv, is |-> "history"]}]
    BY Zenon
  <2>2. [conv |-> k.conv, is |-> "history"] \in Message
    BY <1>1 DEF Message, Made
  <2>3. /\ t \in Thread /\ t.conv = k.conv /\ t.avatar = rooms[k.conv].avatar
        /\ \A m \in t.messages : m.conv = t.conv
    BY <1>1, <2>1, <2>2, PlayerAssumption DEF Thread, Made, Rooms, Room
  <2>4. ShowReady(t)
    BY <1>2, <2>1 DEF AnswerRestore
  <2> QED BY <1>1, <1>2, <2>3, <2>4, ShowReadyKeeps
<1>3. CASE k.request # request
  <2>1. UNCHANGED <<thread, stream, first, sound>>
    BY <1>3 DEF AnswerRestore
  <2> QED BY <1>1, <2>1, ThreadCalms DEF ChatInv, ChatTypeOK
<1> QED BY <1>2, <1>3

(* The values a thread and a screen are left with.                          *)
LEMMA LeftValues ==
  ASSUME ChatTypeOK
  PROVE  /\ Silence \in Sound
         /\ NoStream \in Stream
         /\ Cleared(0, "idle") \in Thread
         /\ \A status \in {"ready", "error"} : [thread EXCEPT !.status = status] \in Thread
         /\ \A lost \in BOOLEAN : Leave(lost) => screen' \in Screen
<1> USE PlayerAssumption
<1>1. Silence \in Sound /\ NoStream \in Stream
  BY DEF Silence, Sound, NoStream, Stream, Numbers
<1>2. Cleared(0, "idle") \in Thread
  BY DEF Cleared, Thread
<1>3. \A status \in {"ready", "error"} : [thread EXCEPT !.status = status] \in Thread
  BY DEF ChatTypeOK, Thread
<1>4. \A lost \in BOOLEAN : Leave(lost) => screen' \in Screen
  BY DEF Leave, ChatTypeOK, Screen
<1> QED BY <1>1, <1>2, <1>3, <1>4

LEMMA AnswerEndInv ==
  ASSUME ChatInv, NEW k \in calls, AnswerEnd(k)
  PROVE  ChatInv'
<1>1. /\ calls' = calls \ {k}
      /\ UNCHANGED <<rooms, page, request, stream, first, clicks>>
      /\ ChatTypeOK
  BY DEF AnswerEnd, ChatInv
<1>2. CASE k.request = request
  <2>1. thread' = Cleared(0, "idle") /\ sound' = Silence /\ Leave(FALSE)
    BY <1>2 DEF AnswerEnd
  <2>2. thread'.conv = 0 /\ \A n \in calls' : n.request # request
    BY <1>1, <1>2, <2>1 DEF Cleared, ChatInv, CallsInv
  <2> QED BY <1>1, <2>1, <2>2, LeftValues, ThreadCalms
<1>3. CASE k.request # request
  <2>1. UNCHANGED <<thread, sound, screen>>
    BY <1>3 DEF AnswerEnd
  <2> QED BY <1>1, <2>1, ThreadCalms DEF ChatTypeOK
<1> QED BY <1>2, <1>3

LEMMA OpenFailsInv ==
  ASSUME ChatInv, NEW k \in calls, OpenFails(k)
  PROVE  ChatInv'
<1>1. /\ calls' = calls \ {k}
      /\ UNCHANGED <<rooms, page, request, stream, first, sound, clicks>>
      /\ ChatTypeOK
  BY DEF OpenFails, ChatInv
<1>2. CASE k.request = request
  <2>1. thread' = [thread EXCEPT !.status = "error"] /\ Leave(TRUE)
    BY <1>2 DEF OpenFails
  <2>2. /\ thread'.conv = thread.conv /\ thread'.avatar = thread.avatar
        /\ thread'.messages = thread.messages
    BY <1>1, <2>1 DEF ChatTypeOK, Thread
  <2>3. thread' \in Thread /\ screen' \in Screen
    BY <1>1, <2>1, LeftValues
  <2> QED BY <1>1, <2>2, <2>3, ThreadCalms DEF ChatTypeOK
<1>3. CASE k.request # request
  <2>1. UNCHANGED <<thread, screen>>
    BY <1>3 DEF OpenFails
  <2> QED BY <1>1, <2>1, ThreadCalms DEF ChatTypeOK
<1> QED BY <1>2, <1>3

LEMMA RestoreFailsInv ==
  ASSUME ChatInv, NEW k \in calls, RestoreFails(k)
  PROVE  ChatInv'
<1>1. /\ calls' = calls \ {k}
      /\ UNCHANGED <<rooms, page, request, stream, first, sound, clicks>>
      /\ ChatTypeOK
  BY DEF RestoreFails, ChatInv
<1>2. CASE k.request = request
  <2>1. thread' = Cleared(0, "idle") /\ Leave(FALSE)
    BY <1>2 DEF RestoreFails
  <2>2. thread'.conv = 0 /\ \A n \in calls' : n.request # request
    BY <1>1, <1>2, <2>1 DEF Cleared, ChatInv, CallsInv
  <2>3. thread' \in Thread /\ screen' \in Screen
    BY <1>1, <2>1, LeftValues
  <2> QED BY <1>1, <2>2, <2>3, ThreadCalms DEF ChatTypeOK
<1>3. CASE k.request # request
  <2>1. UNCHANGED <<thread, screen>>
    BY <1>3 DEF RestoreFails
  <2> QED BY <1>1, <2>1, ThreadCalms DEF ChatTypeOK
<1> QED BY <1>2, <1>3

LEMMA EndFailsInv ==
  ASSUME ChatInv, NEW k \in calls, EndFails(k)
  PROVE  ChatInv'
<1>1. /\ calls' = calls \ {k}
      /\ UNCHANGED <<rooms, page, screen, request, stream, first, sound, clicks>>
      /\ ChatTypeOK
  BY DEF EndFails, ChatInv
<1>2. thread' \in {thread, [thread EXCEPT !.status = "ready"]}
  BY DEF EndFails
<1>3. /\ thread'.conv = thread.conv /\ thread'.avatar = thread.avatar
      /\ thread'.messages = thread.messages
  BY <1>1, <1>2 DEF ChatTypeOK, Thread
<1>4. thread' \in Thread
  BY <1>1, <1>2, LeftValues DEF ChatTypeOK
<1> QED BY <1>1, <1>3, <1>4, ThreadCalms DEF ChatTypeOK

-----------------------------------------------------------------------------
(* The turn that streams in, and its sound *)

LEMMA TurnStartsInv ==
  ASSUME ChatInv, TurnStarts
  PROVE  ChatInv'
<1>1. /\ stream.pc # "none" /\ stream \in Stream /\ thread \in Thread /\ sound \in Sound
      /\ stream' = [stream EXCEPT !.pc = "started"]
      /\ UNCHANGED <<rooms, page, screen, request, calls, first, sound, clicks>>
  BY DEF TurnStarts, ChatInv, ChatTypeOK
<1>2. stream' \in Stream /\ stream'.conv = stream.conv /\ stream'.request = stream.request
  BY <1>1 DEF Stream
<1>3. CASE Heard
  <2>1. PICK M : M = Becomes(thread.messages, "user")
    BY Zenon
  <2>2. thread' = [thread EXCEPT !.messages = M]
    BY <1>3, <2>1 DEF TurnStarts
  <2>3. M \in SUBSET Message /\ \A m \in M : \E n \in thread.messages : m.conv = n.conv
    BY <1>1, <2>1, BecomesKeepsConv DEF Thread
  <2>4. /\ thread' \in Thread /\ thread'.conv = thread.conv /\ thread'.avatar = thread.avatar
        /\ thread'.messages = M
    BY <1>1, <2>2, <2>3 DEF Thread
  <2> QED BY <1>1, <1>2, <2>3, <2>4, StreamKeeps
<1>4. CASE ~Heard
  <2>1. thread' = thread
    BY <1>4 DEF TurnStarts
  <2> QED BY <1>1, <1>2, <2>1, StreamKeeps
<1> QED BY <1>3, <1>4

LEMMA TurnCompletesInv ==
  ASSUME ChatInv, TurnCompletes
  PROVE  ChatInv'
<1>1. /\ stream.pc # "none" /\ stream \in Stream /\ thread \in Thread /\ sound \in Sound
      /\ stream' = NoStream /\ ChatTypeOK
      /\ UNCHANGED <<rooms, page, screen, request, calls, first, clicks>>
  BY DEF TurnCompletes, ChatInv, ChatTypeOK
<1>2. stream' \in Stream /\ stream'.pc = "none"
  BY <1>1, LeftValues DEF NoStream
<1>3. CASE Heard
  <2>1. PICK M : M = Becomes(thread.messages, "user") \cup
                       {[conv |-> stream.conv, is |-> "avatar"]}
    BY Zenon
  <2>2. /\ thread' = [thread EXCEPT !.sending = FALSE, !.messages = M]
        /\ sound' = [status |-> "loading", conv |-> stream.conv]
    BY <1>3, <2>1 DEF TurnCompletes
  <2>3. stream.conv \in Rooms
    BY <1>1, PlayerAssumption DEF Stream, Rooms, ChatInv, StreamInv
  <2>4. PICK r : r = [conv |-> stream.conv, is |-> "avatar"]
    BY Zenon
  <2>5. r \in Message /\ r.conv = stream.conv
    BY <2>3, <2>4 DEF Message
  <2>6. /\ M \in SUBSET Message
        /\ \A m \in M : m.conv = stream.conv \/ \E n \in thread.messages : m.conv = n.conv
    BY <1>1, <2>1, <2>4, <2>5, BecomesKeepsConv DEF Thread
  <2>7. /\ thread' \in Thread /\ thread'.conv = thread.conv /\ thread'.avatar = thread.avatar
        /\ thread'.messages = M
    BY <1>1, <2>2, <2>6 DEF Thread
  <2>8. sound' \in Sound
    BY <1>1, <2>2 DEF Sound, Stream
  <2> QED BY <1>1, <1>2, <1>3, <2>6, <2>7, <2>8, StreamKeeps
<1>4. CASE ~Heard
  <2>1. thread' = thread /\ sound' = sound
    BY <1>4 DEF TurnCompletes
  <2> QED BY <1>1, <1>2, <2>1, StreamKeeps
<1> QED BY <1>3, <1>4

LEMMA TurnFailsInv ==
  ASSUME ChatInv, TurnFails
  PROVE  ChatInv'
<1>1. /\ stream.pc # "none" /\ thread \in Thread /\ sound \in Sound
      /\ stream' = NoStream /\ ChatTypeOK
      /\ UNCHANGED <<rooms, page, screen, request, calls, first, sound, clicks>>
  BY DEF TurnFails, ChatInv, ChatTypeOK
<1>2. stream' \in Stream /\ stream'.pc = "none"
  BY <1>1, LeftValues DEF NoStream
<1>3. CASE Heard
  <2>1. PICK is \in {"failed", "left"} :
          thread' = [thread EXCEPT !.sending = FALSE,
                                   !.messages = Becomes(thread.messages, is)]
    BY <1>3 DEF TurnFails
  <2>2. PICK M : M = Becomes(thread.messages, is)
    BY Zenon
  <2>3. M \in SUBSET Message /\ \A m \in M : \E n \in thread.messages : m.conv = n.conv
    BY <1>1, <2>2, BecomesKeepsConv DEF Thread
  <2>4. thread' = [thread EXCEPT !.sending = FALSE, !.messages = M]
    BY <2>1, <2>2
  <2>5. /\ thread' \in Thread /\ thread'.conv = thread.conv /\ thread'.avatar = thread.avatar
        /\ thread'.messages = M
    BY <1>1, <2>3, <2>4 DEF Thread
  <2> QED BY <1>1, <1>2, <2>3, <2>5, StreamKeeps
<1>4. CASE ~Heard
  <2>1. thread' = thread
    BY <1>4 DEF TurnFails
  <2> QED BY <1>1, <1>2, <2>1, StreamKeeps
<1> QED BY <1>3, <1>4

LEMMA SoundInv ==
  ASSUME ChatInv, PlayAgain \/ AudioPlays \/ AudioStops
  PROVE  ChatInv'
<1>1. ChatTypeOK
  BY DEF ChatInv
<1>2. sound' \in Sound
  <2>1. CASE PlayAgain
    BY <1>1, <2>1 DEF PlayAgain, ChatTypeOK, Thread, Sound
  <2>2. CASE AudioPlays
    BY <1>1, <2>2 DEF AudioPlays, ChatTypeOK, Sound
  <2>3. CASE AudioStops
    BY <1>1, <2>3, LeftValues DEF AudioStops
  <2> QED BY <2>1, <2>2, <2>3
<1>3. /\ clicks' = clicks \/ Click
      /\ UNCHANGED <<rooms, page, screen, thread, request, calls, stream, first>>
  BY DEF PlayAgain, AudioPlays, AudioStops
<1> QED BY <1>1, <1>2, <1>3, ThreadCalms DEF ChatTypeOK

LEMMA ChatStepInv ==
  ASSUME ChatInv, ChatClicks \/ ChatAnswers \/ Send
  PROVE  ChatInv'
<1>1. CASE ChatClicks
  BY <1>1, ChooseInv, PressSwitchInv, PressEndInv, SoundInv, LeaveSessionInv, ReloadInv
     DEF ChatClicks
<1>2. CASE ChatAnswers
  <2>1. CASE \E k \in calls : CallStep(k)
    BY <2>1, ServeOpenInv, ServeEndInv, AnswerOpenInv, AnswerRestoreInv, AnswerEndInv,
       OpenFailsInv, RestoreFailsInv, EndFailsInv DEF CallStep
  <2> QED
    BY <1>2, <2>1, SessionArrivesInv, TurnStartsInv, TurnCompletesInv, TurnFailsInv, SoundInv
       DEF ChatAnswers
<1> QED BY <1>1, <1>2, SendInv

-----------------------------------------------------------------------------
(* The rest of the inductive invariant.  An utterance that is put together  *)
(* is for the conversation shown, for none, or for one that has been left   *)
(* while no call was current; no cue but the first has started.             *)

Fits(m) == thread.conv = m.chat \/ (thread.conv = 0 /\ NoneCurrent)

MicInv ==
  /\ mic \in Mic
  /\ mic.asking <= clicks
  /\ page.session = 0 => ~mic.sending
  /\ screen.step = "conversation" => mic.chat \in {0, thread.conv}
  /\ screen.step # "conversation" /\ ~mic.sending => mic.chat = 0
  /\ mic.sending /\ mic.chat # 0 => Fits(mic)
  /\ recording \in {"none", "silent", "speech"}

InLine(q) == q \in Seq(Cue) /\ \A i \in 2..Len(q) : ~q[i].started

CueInv ==
  /\ InLine(media)
  /\ IsFiniteSet(cues) /\ cues \subseteq [cue : 1..MaxCues, session : 1..MaxSessions]
  /\ cued \in 0..MaxCues
  /\ Len(media) + Cardinality(cues) <= cued

PlayerInv == ChatInv /\ MicInv /\ CueInv

LEMMA PlayerBegins ==
  ASSUME PlayerInit
  PROVE  PlayerInv
<1>1. ChatInit /\ mic = MicOff /\ recording = "none" /\ media = <<>> /\ cues = {} /\ cued = 0
  BY DEF PlayerInit
<1>2. ChatInv
  BY <1>1, ChatBegins
<1>3. MicInv
  BY <1>1, PlayerAssumption DEF MicInv, MicOff, Mic, ChatInit, Cleared
<1>4. CueInv
  BY <1>1, FS_EmptySet, MediaAssumption DEF CueInv, InLine
<1> QED BY <1>2, <1>3, <1>4 DEF PlayerInv

(* What the microphone's hook leaves, whatever has come before it.          *)
LEMMA MicFollowsInv ==
  ASSUME ChatTypeOK', NEW m \in Mic, m.asking <= clicks', NEW r \in {"none", "silent", "speech"},
         MicFollows(m), RecordingFollows(r),
         /\ screen'.step # "conversation" /\ page'.session # 0 /\ m.sending /\ m.chat # 0
         => thread'.conv = m.chat \/ (thread'.conv = 0 /\ NoneCurrent')
  PROVE  MicInv'
<1> USE PlayerAssumption
<1>1. recording' \in {"none", "silent", "speech"}
  BY DEF RecordingFollows
<1>2. clicks' \in Nat /\ thread'.conv \in 0..MaxConvs
  BY DEF ChatTypeOK, Thread
<1>3. CASE page'.session = 0
  <2>1. mic' = MicOff
    BY <1>3 DEF MicFollows
  <2>2. mic' \in Mic /\ mic'.asking = 0 /\ mic'.sending = FALSE /\ mic'.chat = 0
    BY <2>1 DEF MicOff, Mic
  <2> QED BY <1>1, <1>2, <2>2 DEF MicInv
<1>4. CASE page'.session # 0 /\ screen'.step # "conversation"
  <2>1. mic' = IF m.sending THEN [MicOff EXCEPT !.sending = TRUE, !.chat = m.chat] ELSE MicOff
    BY <1>4 DEF MicFollows
  <2>2. /\ mic' \in Mic /\ mic'.asking = 0 /\ mic'.sending = m.sending
        /\ m.sending => mic'.chat = m.chat
        /\ ~m.sending => mic'.chat = 0
    <3>1. CASE m.sending
      <4>1. mic' = [enabled |-> FALSE, asking |-> 0, held |-> FALSE, sending |-> TRUE,
                    chat |-> m.chat]
        BY <2>1, <3>1 DEF MicOff
      <4>2. m.chat \in 0..MaxConvs /\ MaxClicks \in Nat
        BY DEF Mic
      <4>3. mic' \in Mic
        BY <4>1, <4>2 DEF Mic
      <4>4. mic'.asking = 0 /\ mic'.sending = TRUE /\ mic'.chat = m.chat
        BY <4>1
      <4> QED BY <3>1, <4>3, <4>4
    <3>2. CASE ~m.sending
      <4>1. mic' = MicOff /\ m.sending = FALSE
        BY <2>1, <3>2 DEF Mic
      <4>2. MicOff \in Mic
        BY DEF MicOff, Mic
      <4>3. mic'.asking = 0 /\ mic'.sending = FALSE /\ mic'.chat = 0
        BY <4>1 DEF MicOff
      <4> QED BY <3>2, <4>1, <4>2, <4>3
    <3> QED BY <3>1, <3>2
  <2> QED BY <1>1, <1>2, <1>4, <2>2 DEF MicInv, Fits
<1>5. CASE page'.session # 0 /\ screen'.step = "conversation"
  <2>1. PICK lasts, holds \in BOOLEAN, c \in {0, thread'.conv} :
          mic' = [m EXCEPT !.enabled = lasts, !.held = holds, !.chat = c]
    <3>1. /\ (m.enabled /\ thread'.conv # 0) \in BOOLEAN
          /\ (m.held /\ ((m.enabled /\ thread'.conv # 0) \/ ~m.enabled)) \in BOOLEAN
          /\ (IF thread'.sending THEN 0 ELSE thread'.conv) \in {0, thread'.conv}
      OBVIOUS
    <3> QED BY <1>5, <3>1 DEF MicFollows
  <2>2. mic' = [enabled |-> lasts, asking |-> m.asking, held |-> holds, sending |-> m.sending,
                chat |-> c]
    BY <2>1 DEF Mic
  <2>3. c \in 0..MaxConvs /\ m.asking \in 0..MaxClicks /\ m.sending \in BOOLEAN
    BY <1>2 DEF Mic
  <2>4. mic' \in Mic
    BY <2>2, <2>3 DEF Mic
  <2>5. mic'.asking = m.asking /\ mic'.chat = c
    BY <2>2
  <2> QED BY <1>1, <1>5, <2>4, <2>5 DEF MicInv, Fits
<1> QED BY <1>3, <1>4, <1>5

(* What the queue's hook leaves.                                            *)
LEMMA TailInLine ==
  ASSUME NEW q, InLine(q), q # <<>>
  PROVE  InLine(Tail(q)) /\ Len(Tail(q)) = Len(q) - 1
<1>1. q \in Seq(Cue)
  BY DEF InLine
<1>2. Tail(q) \in Seq(Cue) /\ Len(Tail(q)) = Len(q) - 1
      /\ \A i \in 1..Len(Tail(q)) : Tail(q)[i] = q[i + 1]
  BY <1>1
<1>3. Len(q) \in Nat
  BY <1>1
<1> QED BY <1>2, <1>3 DEF InLine

LEMMA MediaFollowsInv ==
  ASSUME NEW q, InLine(q), MediaFollows(q), IsFiniteSet(cues'),
         cues' \subseteq [cue : 1..MaxCues, session : 1..MaxSessions],
         cued' \in 0..MaxCues, Len(q) + Cardinality(cues') <= cued'
  PROVE  CueInv'
<1>1. Len(q) \in Nat /\ Cardinality(cues') \in Nat /\ cued' \in Nat
  BY FS_CardinalityType, MediaAssumption DEF InLine
<1>2. InLine(media') /\ Len(media') <= Len(q) /\ Len(media') \in Nat
  <2>1. CASE media' = <<>>
    BY <1>1, <2>1 DEF InLine
  <2>2. CASE media' = Tail(q) /\ q # <<>>
    BY <1>1, <2>2, TailInLine DEF InLine
  <2>3. CASE media' = q
    BY <1>1, <2>3 DEF InLine
  <2> QED BY <2>1, <2>2, <2>3 DEF MediaFollows
<1>3. Len(media') + Cardinality(cues') <= cued'
  BY <1>1, <1>2
<1> QED BY <1>2, <1>3 DEF CueInv, InLine

LEMMA FollowInv ==
  ASSUME ChatInv', NEW m \in Mic, m.asking <= clicks',
         NEW r \in {"none", "silent", "speech"}, NEW q, InLine(q), Follow(m, r, q),
         /\ screen'.step # "conversation" /\ page'.session # 0 /\ m.sending /\ m.chat # 0
         => thread'.conv = m.chat \/ (thread'.conv = 0 /\ NoneCurrent'),
         IsFiniteSet(cues'), cues' \subseteq [cue : 1..MaxCues, session : 1..MaxSessions],
         cued' \in 0..MaxCues, Len(q) + Cardinality(cues') <= cued'
  PROVE  PlayerInv'
BY MicFollowsInv, MediaFollowsInv DEF Follow, PlayerInv, ChatInv

(* The chat moves, the microphone has not yet followed: what is put         *)
(* together is still for the conversation shown, or for one that is left.   *)
LEMMA ClickFits ==
  ASSUME ChatInv, MicInv, ChatClicks, Composed, mic.sending, mic.chat # 0,
         screen'.step # "conversation", page'.session # 0
  PROVE  thread'.conv = mic.chat \/ (thread'.conv = 0 /\ NoneCurrent')
<1>1. screen.step = "conversation" /\ thread.conv = mic.chat
  BY DEF Composed, MicInv
<1>2. screen \in Screen
  BY DEF ChatInv, ChatTypeOK
<1>3. ASSUME NEW a \in Avatars, NEW asks \in BOOLEAN, Choose(a, asks)
      PROVE  FALSE
  BY <1>2, <1>3 DEF Choose, GoTo, Screen
<1>4. CASE PressSwitch
  BY <1>1, <1>4 DEF PressSwitch
<1>5. CASE PressEnd
  BY <1>1, <1>2, <1>5 DEF PressEnd, Screen
<1>6. CASE PlayAgain
  BY <1>1, <1>6 DEF PlayAgain
<1>7. CASE LeaveSession
  BY <1>1, <1>7 DEF LeaveSession
<1>8. CASE Reload
  BY <1>8 DEF Reload
<1> QED BY <1>3, <1>4, <1>5, <1>6, <1>7, <1>8 DEF ChatClicks

LEMMA AnswerFits ==
  ASSUME ChatInv, MicInv, ChatAnswers, mic.sending, mic.chat # 0
  PROVE  thread'.conv = mic.chat \/ (thread'.conv = 0 /\ NoneCurrent')
<1>1. /\ thread \in Thread /\ stream \in Stream /\ page.session # 0 /\ Fits(mic)
      /\ CallsInv
  BY DEF MicInv, ChatInv, ChatTypeOK
<1>2. CASE SessionArrives
  BY <1>1, <1>2 DEF SessionArrives
<1>3. CASE thread'.conv = thread.conv /\ request' = request
           /\ \A k \in calls' : \E n \in calls : k.request = n.request
  BY <1>1, <1>3 DEF Fits, NoneCurrent
<1>4. CASE TurnStarts
  BY <1>1, <1>3, <1>4 DEF TurnStarts, Thread
<1>5. CASE TurnCompletes
  BY <1>1, <1>3, <1>5 DEF TurnCompletes, Thread
<1>6. CASE TurnFails
  BY <1>1, <1>3, <1>6 DEF TurnFails, Thread
<1>7. CASE AudioPlays \/ AudioStops
  BY <1>3, <1>7 DEF AudioPlays, AudioStops
<1>8. ASSUME NEW k \in calls, CallStep(k)
      PROVE  thread'.conv = mic.chat \/ (thread'.conv = 0 /\ NoneCurrent')
  <2> USE <1>1
  <2>1. k \in Call /\ CallOk(k)
    BY DEF ChatInv, ChatTypeOK, CallsInv
  <2>2. CASE ServeOpen(k)
    <3>1. PICK c \in Rooms \ Made :
            calls' = (calls \ {k}) \cup {[k EXCEPT !.served = TRUE, !.conv = c]}
      BY <2>2 DEF ServeOpen
    <3>2. [k EXCEPT !.served = TRUE, !.conv = c].request = k.request
      BY <2>1 DEF Call
    <3>3. \A j \in calls' : \E n \in calls : j.request = n.request
      BY <3>1, <3>2
    <3> QED BY <1>3, <2>2, <3>3 DEF ServeOpen
  <2>3. CASE ServeEnd(k)
    <3>1. calls' = (calls \ {k}) \cup {[k EXCEPT !.served = TRUE]}
      BY <2>3 DEF ServeEnd
    <3>2. [k EXCEPT !.served = TRUE].request = k.request
      BY <2>1 DEF Call
    <3>3. \A j \in calls' : \E n \in calls : j.request = n.request
      BY <3>1, <3>2
    <3> QED BY <1>3, <2>3, <3>3 DEF ServeEnd
  <2>4. calls' = calls \ {k} => \A j \in calls' : \E n \in calls : j.request = n.request
    OBVIOUS
  <2>5. k.kind # "end" => k.request # request
    BY <2>1 DEF CallOk, Fits, NoneCurrent
  <2>6. CASE AnswerOpen(k) \/ AnswerRestore(k) \/ OpenFails(k) \/ RestoreFails(k)
    BY <1>3, <2>4, <2>5, <2>6 DEF AnswerOpen, AnswerRestore, OpenFails, RestoreFails
  <2>7. CASE EndFails(k)
    BY <1>3, <2>4, <2>7 DEF EndFails, Thread
  <2>8. CASE AnswerEnd(k)
    <3>1. CASE k.request = request
      BY <2>8, <3>1 DEF AnswerEnd, Cleared, CallsInv, NoneCurrent
    <3>2. CASE k.request # request
      BY <1>3, <2>4, <2>8, <3>2 DEF AnswerEnd
    <3> QED BY <3>1, <3>2
  <2> QED BY <1>8, <2>2, <2>3, <2>6, <2>7, <2>8 DEF CallStep
<1> QED BY <1>2, <1>4, <1>5, <1>6, <1>7, <1>8 DEF ChatAnswers

LEMMA ClickStepInv ==
  ASSUME PlayerInv, ClickStep
  PROVE  PlayerInv'
<1>1. /\ ChatInv /\ MicInv /\ CueInv /\ UNCHANGED <<cues, cued>> /\ Follow(mic, recording, media)
      /\ (Composed /\ ChatClicks) \/ Send
  BY DEF ClickStep, PlayerInv
<1>2. ChatInv'
  BY <1>1, ChatStepInv
<1>3. /\ mic \in Mic /\ clicks' >= mic.asking
  <2>1. clicks' = clicks + 1 /\ clicks \in Nat /\ mic \in Mic /\ mic.asking <= clicks
        /\ mic.asking \in Nat
    BY <1>1, PlayerAssumption
       DEF Send, ChatClicks, Choose, PressSwitch, PressEnd, PlayAgain, LeaveSession, Reload,
           Click, MicInv, ChatInv, ChatTypeOK, Mic
  <2> QED BY <2>1
<1>4. ASSUME screen'.step # "conversation", page'.session # 0, mic.sending, mic.chat # 0
      PROVE  thread'.conv = mic.chat \/ (thread'.conv = 0 /\ NoneCurrent')
  <2>1. ~Send
    BY <1>4 DEF Send
  <2> QED BY <1>1, <1>4, <2>1, ClickFits
<1> QED
  BY <1>1, <1>2, <1>3, <1>4, FollowInv DEF MicInv, CueInv

LEMMA AnswerStepInv ==
  ASSUME PlayerInv, AnswerStep
  PROVE  PlayerInv'
<1>1. /\ ChatInv /\ MicInv /\ CueInv /\ UNCHANGED <<cues, cued>> /\ Follow(mic, recording, media)
      /\ ChatAnswers
  BY DEF AnswerStep, PlayerInv
<1>2. ChatInv'
  BY <1>1, ChatStepInv
<1>3. clicks' = clicks
  BY <1>1 DEF ChatAnswers, SessionArrives, CallStep, ServeOpen, ServeEnd, AnswerOpen,
              AnswerRestore, AnswerEnd, OpenFails, RestoreFails, EndFails, TurnStarts,
              TurnCompletes, TurnFails, AudioPlays, AudioStops
<1> QED
  BY <1>1, <1>2, <1>3, AnswerFits, FollowInv DEF MicInv, CueInv

(* Steps of the microphone and of the queue, which leave the chat.          *)
LEMMA ChatStays ==
  ASSUME ChatInv, UNCHANGED chatVars
  PROVE  ChatInv'
BY ThreadCalms DEF chatVars, ChatInv, ChatTypeOK

LEMMA HooksInv ==
  ASSUME PlayerInv, ChatInv', clicks <= clicks', NoneCurrent' = NoneCurrent,
         UNCHANGED <<page, screen, thread>>,
         NEW m \in Mic, m.asking <= clicks', NEW r \in {"none", "silent", "speech"},
         m.chat = mic.chat, m.sending => mic.sending \/ recording = "speech",
         NEW q, InLine(q), Follow(m, r, q),
         IsFiniteSet(cues'), cues' \subseteq [cue : 1..MaxCues, session : 1..MaxSessions],
         cued' \in 0..MaxCues, Len(q) + Cardinality(cues') <= cued'
  PROVE  PlayerInv'
<1>1. ASSUME screen'.step # "conversation", page'.session # 0, m.sending, m.chat # 0
      PROVE  thread'.conv = m.chat \/ (thread'.conv = 0 /\ NoneCurrent')
  BY <1>1 DEF PlayerInv, MicInv, Fits
<1> QED BY <1>1, FollowInv

LEMMA StartVoiceInv ==
  ASSUME PlayerInv, StartVoice
  PROVE  PlayerInv'
<1>1. /\ ChatInv /\ MicInv /\ CueInv
      /\ Click /\ UNCHANGED <<rooms, page, screen, thread, request, calls, stream, first, sound>>
      /\ UNCHANGED <<cues, cued>>
  BY DEF StartVoice, PlayerInv
<1>2. ChatInv'
  BY <1>1, ThreadCalms DEF ChatInv, ChatTypeOK
<1>3. PICK m : m = [mic EXCEPT !.enabled = TRUE, !.asking = mic.asking + 1]
  BY Zenon
<1>4. Follow(m, recording, media)
  BY <1>3 DEF StartVoice
<1>5. /\ clicks \in Nat /\ clicks' = clicks + 1 /\ clicks' <= MaxClicks /\ MaxClicks \in Nat
      /\ mic.asking <= clicks /\ mic \in Mic
  BY <1>1, PlayerAssumption DEF Click, MicInv, ChatInv, ChatTypeOK
<1>6. mic.asking \in Nat /\ mic.asking + 1 \in 0..MaxClicks
  BY <1>5 DEF Mic
<1>7. /\ m \in Mic /\ m.asking = mic.asking + 1 /\ m.chat = mic.chat /\ m.sending = mic.sending
  BY <1>3, <1>5, <1>6 DEF Mic
<1>8. m.asking <= clicks'
  BY <1>5, <1>6, <1>7
<1>9. NoneCurrent' = NoneCurrent
  BY <1>1 DEF NoneCurrent
<1> QED BY <1>1, <1>2, <1>4, <1>5, <1>7, <1>8, <1>9, HooksInv DEF MicInv, CueInv

LEMMA StopVoiceInv ==
  ASSUME PlayerInv, StopVoice
  PROVE  PlayerInv'
<1>1. /\ ChatInv /\ MicInv /\ CueInv
      /\ Click /\ UNCHANGED <<rooms, page, screen, thread, request, calls, stream, first, sound>>
      /\ UNCHANGED <<cues, cued>>
  BY DEF StopVoice, PlayerInv
<1>2. ChatInv'
  BY <1>1, ThreadCalms DEF ChatInv, ChatTypeOK
<1>3. PICK m : m = [mic EXCEPT !.enabled = FALSE, !.held = FALSE]
  BY Zenon
<1>4. Follow(m, "none", media)
  BY <1>3 DEF StopVoice
<1>5. clicks \in Nat /\ clicks' = clicks + 1 /\ mic.asking <= clicks /\ mic \in Mic
  BY <1>1, PlayerAssumption DEF Click, MicInv, ChatInv, ChatTypeOK
<1>6. m \in Mic /\ m.asking = mic.asking /\ m.chat = mic.chat /\ m.sending = mic.sending
  BY <1>3, <1>5 DEF Mic
<1>7. m.asking <= clicks' /\ clicks <= clicks'
  BY <1>5, <1>6, PlayerAssumption DEF Mic
<1>8. NoneCurrent' = NoneCurrent
  BY <1>1 DEF NoneCurrent
<1> QED BY <1>1, <1>2, <1>4, <1>6, <1>7, <1>8, HooksInv DEF MicInv, CueInv

LEMMA SpeechStartsInv ==
  ASSUME PlayerInv, SpeechStarts
  PROVE  PlayerInv'
<1>1. /\ ChatInv /\ MicInv /\ CueInv
      /\ Click /\ UNCHANGED <<rooms, page, screen, thread, request, calls, stream, first, sound>>
      /\ UNCHANGED <<cues, cued>> /\ Follow(mic, "speech", media)
  BY DEF SpeechStarts, PlayerInv
<1>2. ChatInv'
  BY <1>1, ThreadCalms DEF ChatInv, ChatTypeOK
<1>3. /\ clicks \in Nat /\ clicks' = clicks + 1 /\ mic.asking <= clicks /\ mic \in Mic
      /\ mic.asking \in Nat
  BY <1>1, PlayerAssumption DEF Click, MicInv, ChatInv, ChatTypeOK, Mic
<1>4. mic.asking <= clicks' /\ clicks <= clicks'
  BY <1>3
<1>5. NoneCurrent' = NoneCurrent
  BY <1>1 DEF NoneCurrent
<1> QED BY <1>1, <1>2, <1>3, <1>4, <1>5, HooksInv DEF MicInv, CueInv

(* The microphone is granted or denied, and the recorder stops.             *)
LEMMA MicStepInv ==
  ASSUME PlayerInv, MicGranted \/ MicDenied \/ UtteranceEnds
  PROVE  PlayerInv'
<1>1. /\ ChatInv /\ MicInv /\ CueInv /\ UNCHANGED <<chatVars, cues, cued>>
  BY DEF MicGranted, MicDenied, UtteranceEnds, PlayerInv
<1>2. ChatInv' /\ clicks' = clicks /\ clicks \in Nat /\ NoneCurrent' = NoneCurrent
  BY <1>1, ChatStays DEF chatVars, ChatInv, ChatTypeOK, NoneCurrent
<1>3. mic \in Mic /\ mic.asking <= clicks /\ mic.asking \in 0..MaxClicks /\ MaxClicks \in Nat
  BY <1>1, PlayerAssumption DEF MicInv, Mic
<1>4. PICK m, r :
        /\ Follow(m, r, media) /\ r \in {"none", "silent", "speech"}
        /\ m \in Mic /\ m.asking <= mic.asking /\ m.asking \in Nat /\ m.chat = mic.chat
        /\ m.sending => mic.sending \/ recording = "speech"
  <2>1. CASE MicGranted
    <3>1. PICK m : m = [mic EXCEPT !.asking = mic.asking - 1, !.held = TRUE]
      BY Zenon
    <3>2. Follow(m, recording, media) /\ mic.asking > 0
      BY <2>1, <3>1 DEF MicGranted
    <3>3. mic.asking - 1 \in 0..MaxClicks /\ mic.asking - 1 <= mic.asking
      BY <1>3, <3>2
    <3>4. m \in Mic /\ m.asking = mic.asking - 1 /\ m.chat = mic.chat /\ m.sending = mic.sending
      BY <1>3, <3>1, <3>3 DEF Mic
    <3> QED BY <1>1, <1>3, <3>2, <3>3, <3>4 DEF MicInv
  <2>2. CASE MicDenied
    <3>1. PICK m : m = [mic EXCEPT !.asking = mic.asking - 1, !.enabled = FALSE]
      BY Zenon
    <3>2. Follow(m, recording, media) /\ mic.asking > 0
      BY <2>2, <3>1 DEF MicDenied
    <3>3. mic.asking - 1 \in 0..MaxClicks /\ mic.asking - 1 <= mic.asking
      BY <1>3, <3>2
    <3>4. m \in Mic /\ m.asking = mic.asking - 1 /\ m.chat = mic.chat /\ m.sending = mic.sending
      BY <1>3, <3>1, <3>3 DEF Mic
    <3> QED BY <1>1, <1>3, <3>2, <3>3, <3>4 DEF MicInv
  <2>3. CASE UtteranceEnds
    <3>1. PICK m : m = [mic EXCEPT !.sending = TRUE]
      BY Zenon
    <3>2. Follow(m, "none", media) /\ recording = "speech"
      BY <2>3, <3>1 DEF UtteranceEnds
    <3>3. m \in Mic /\ m.asking = mic.asking /\ m.chat = mic.chat
      BY <1>3, <3>1 DEF Mic
    <3> QED BY <1>3, <3>2, <3>3
  <2> QED BY <2>1, <2>2, <2>3
<1>5. m.asking <= clicks'
  BY <1>2, <1>3, <1>4
<1>6. UNCHANGED <<page, screen, thread>> /\ clicks <= clicks'
  BY <1>1, <1>2 DEF chatVars
<1> QED BY <1>1, <1>2, <1>4, <1>5, <1>6, HooksInv DEF CueInv

LEMMA SendUtteranceInv ==
  ASSUME PlayerInv, SendUtterance
  PROVE  PlayerInv'
<1>1. /\ ChatInv /\ MicInv /\ CueInv /\ mic.sending
      /\ UNCHANGED <<rooms, page, screen, request, calls, first, clicks>>
      /\ UNCHANGED <<cues, cued>>
  BY DEF SendUtterance, PlayerInv
<1>2. mic \in Mic /\ mic.asking <= clicks /\ ChatTypeOK
  BY <1>1 DEF MicInv, ChatInv
<1>3. ChatInv'
  <2>1. CASE mic.chat # 0
    <3>1. mic.chat \in Rooms /\ SendTo(mic.chat)
      BY <1>2, <2>1, PlayerAssumption DEF SendUtterance, Mic, Rooms
    <3>2. thread.conv = mic.chat \/ (thread.conv = 0 /\ NoneCurrent)
      BY <1>1, <2>1 DEF MicInv, Fits
    <3> QED BY <1>1, <1>2, <3>1, <3>2, SendToKeeps DEF ChatTypeOK
  <2>2. CASE mic.chat = 0
    BY <1>1, <2>2, ChatStays DEF SendUtterance, chatVars
  <2> QED BY <2>1, <2>2
<1>4. PICK m : m = [mic EXCEPT !.sending = FALSE]
  BY Zenon
<1>5. Follow(m, recording, media)
  BY <1>4 DEF SendUtterance
<1>6. m \in Mic /\ m.asking = mic.asking /\ m.sending = FALSE
  BY <1>2, <1>4 DEF Mic
<1> QED BY <1>1, <1>2, <1>3, <1>5, <1>6, FollowInv DEF MicInv, CueInv

LEMMA EmitCueInv ==
  ASSUME PlayerInv, EmitCue
  PROVE  PlayerInv'
<1>1. /\ ChatInv /\ MicInv /\ CueInv /\ UNCHANGED <<chatVars, mic, recording, media>>
      /\ cued < MaxCues /\ cued' = cued + 1 /\ page.session # 0
  BY DEF EmitCue, PlayerInv
<1>2. PICK c : c = [cue |-> cued + 1, session |-> page.session]
  BY Zenon
<1>3. cues' \in {cues, cues \cup {c}}
  BY <1>2 DEF EmitCue
<1>4. cued \in Nat /\ MaxCues \in Nat /\ cued + 1 \in 1..MaxCues /\ page.session \in 1..MaxSessions
  BY <1>1, MediaAssumption, PlayerAssumption DEF CueInv, ChatInv, ChatTypeOK, Page
<1>5. c \in [cue : 1..MaxCues, session : 1..MaxSessions]
  BY <1>2, <1>4
<1>6. IsFiniteSet(cues) /\ Cardinality(cues) \in Nat
  BY <1>1, FS_CardinalityType DEF CueInv
<1>7. IsFiniteSet(cues') /\ Cardinality(cues') <= Cardinality(cues) + 1
      /\ Cardinality(cues') \in Nat
  BY <1>3, <1>6, FS_AddElement, FS_CardinalityType
<1>8. Len(media) \in Nat
  BY <1>1 DEF CueInv, InLine
<1>9. CueInv'
  BY <1>1, <1>3, <1>4, <1>5, <1>6, <1>7, <1>8 DEF CueInv, InLine
<1>10. ChatInv'
  BY <1>1, ChatStays
<1>11. MicInv'
  BY <1>1 DEF MicInv, Fits, NoneCurrent, chatVars
<1> QED BY <1>9, <1>10, <1>11 DEF PlayerInv

LEMMA ReceiveCueInv ==
  ASSUME PlayerInv, NEW k \in cues, ReceiveCue(k)
  PROVE  PlayerInv'
<1>1. /\ ChatInv /\ MicInv /\ CueInv /\ UNCHANGED <<chatVars, cued>> /\ cues' = cues \ {k}
      /\ mic \in Mic /\ clicks' = clicks
  BY DEF ReceiveCue, PlayerInv, MicInv, chatVars
<1>2. ChatInv' /\ UNCHANGED <<page, screen, thread>> /\ NoneCurrent' = NoneCurrent
  BY <1>1, ChatStays DEF chatVars, NoneCurrent
<1>3. PICK c : c = [cue |-> k.cue, started |-> FALSE]
  BY Zenon
<1>4. c \in Cue /\ c.started = FALSE
  BY <1>1, <1>3 DEF Cue, CueInv
<1>5. PICK q : q \in {media, Append(media, c)} /\ Follow(mic, recording, q)
  BY <1>3 DEF ReceiveCue
<1>6. media \in Seq(Cue) /\ Len(media) \in Nat
  BY <1>1 DEF CueInv, InLine
<1>7. InLine(q) /\ Len(q) <= Len(media) + 1 /\ Len(q) \in Nat
  BY <1>1, <1>4, <1>5, <1>6 DEF InLine, CueInv
<1>8. IsFiniteSet(cues) /\ Cardinality(cues) \in Nat /\ cued \in Nat
  BY <1>1, FS_CardinalityType, MediaAssumption DEF CueInv
<1>9. IsFiniteSet(cues') /\ Cardinality(cues') = Cardinality(cues) - 1
  BY <1>1, <1>8, FS_RemoveElement
<1>10. Len(q) + Cardinality(cues') <= cued'
  BY <1>1, <1>6, <1>7, <1>8, <1>9 DEF CueInv
<1>11. mic.asking <= clicks' /\ clicks <= clicks' /\ recording \in {"none", "silent", "speech"}
  BY <1>1 DEF MicInv, ChatInv, ChatTypeOK
<1> QED
  BY <1>1, <1>2, <1>5, <1>7, <1>9, <1>10, <1>11, HooksInv DEF CueInv

(* The first cue starts, and another time ends.                             *)
LEMMA HeadStarts ==
  ASSUME InLine(media), media # <<>>
  PROVE  /\ InLine(<<[Head(media) EXCEPT !.started = TRUE]>> \o Tail(media))
         /\ Len(<<[Head(media) EXCEPT !.started = TRUE]>> \o Tail(media)) = Len(media)
<1>1. media \in Seq(Cue) /\ Len(media) \in Nat /\ Len(media) >= 1 /\ Head(media) \in Cue
  BY DEF InLine
<1>2. PICK c : c = [Head(media) EXCEPT !.started = TRUE]
  BY Zenon
<1>3. c \in Cue
  BY <1>1, <1>2 DEF Cue
<1>4. PICK t : t = Tail(media)
  BY Zenon
<1>5. t \in Seq(Cue) /\ Len(t) = Len(media) - 1 /\ \A i \in 1..Len(t) : t[i] = media[i + 1]
  BY <1>1, <1>4
<1>6. /\ <<c>> \o t \in Seq(Cue) /\ Len(<<c>> \o t) = Len(media)
      /\ \A i \in 2..Len(media) : (<<c>> \o t)[i] = t[i - 1]
  BY <1>1, <1>3, <1>5
<1>7. \A i \in 2..Len(media) : ~(<<c>> \o t)[i].started
  <2> TAKE i \in 2..Len(media)
  <2>1. ~media[i].started
    BY DEF InLine
  <2>2. i - 1 \in 1..Len(t) /\ (i - 1) + 1 = i
    BY <1>1, <1>5
  <2>3. t[i - 1] = media[i]
    BY <1>5, <2>2
  <2>4. (<<c>> \o t)[i] = media[i]
    BY <1>6, <2>3
  <2> QED BY <2>1, <2>4
<1> QED BY <1>2, <1>4, <1>6, <1>7 DEF InLine

LEMMA MediaStepInv ==
  ASSUME PlayerInv, MediaStarts \/ MediaEnds
  PROVE  PlayerInv'
<1>1. /\ ChatInv /\ MicInv /\ CueInv /\ UNCHANGED <<chatVars, cues, cued>>
      /\ mic \in Mic /\ clicks' = clicks /\ media # <<>>
  BY DEF MediaStarts, MediaEnds, Watching, OnScreen, PlayerInv, MicInv, chatVars
<1>2. ChatInv' /\ UNCHANGED <<page, screen, thread>> /\ NoneCurrent' = NoneCurrent
  BY <1>1, ChatStays DEF chatVars, NoneCurrent
<1>3. InLine(media) /\ media \in Seq(Cue) /\ Len(media) \in Nat
  BY <1>1 DEF CueInv, InLine
<1>4. PICK q : /\ q \in {<<[Head(media) EXCEPT !.started = TRUE]>> \o Tail(media), Tail(media)}
               /\ Follow(mic, recording, q)
  BY DEF MediaStarts, MediaEnds
<1>5. InLine(q) /\ Len(q) <= Len(media) /\ Len(q) \in Nat
  <2>1. CASE q = Tail(media)
    <3>1. InLine(q) /\ Len(q) = Len(media) - 1 /\ Len(media) >= 1
      BY <1>1, <1>3, <2>1, TailInLine
    <3> QED BY <1>3, <3>1
  <2>2. CASE q # Tail(media)
    <3>1. q = <<[Head(media) EXCEPT !.started = TRUE]>> \o Tail(media)
      BY <1>4, <2>2
    <3>2. InLine(q)
      BY <1>1, <1>3, <3>1, HeadStarts
    <3>3. Len(q) = Len(media)
      BY <1>1, <1>3, <3>1, HeadStarts
    <3> QED BY <1>3, <3>2, <3>3
  <2> QED BY <2>1, <2>2
<1>6. IsFiniteSet(cues) /\ Cardinality(cues) \in Nat /\ cued \in Nat
  BY <1>1, FS_CardinalityType, MediaAssumption DEF CueInv
<1>7. Len(q) + Cardinality(cues') <= cued'
  BY <1>1, <1>3, <1>5, <1>6 DEF CueInv
<1>8. mic.asking <= clicks' /\ clicks <= clicks' /\ recording \in {"none", "silent", "speech"}
  BY <1>1 DEF MicInv, ChatInv, ChatTypeOK
<1> QED
  BY <1>1, <1>2, <1>4, <1>5, <1>7, <1>8, HooksInv DEF CueInv

-----------------------------------------------------------------------------
(* The player, step by step *)

LEMMA PlayerNextInv ==
  ASSUME PlayerInv, [PlayerNext]_playerVars
  PROVE  PlayerInv'
<1>1. CASE UNCHANGED playerVars
  <2>1. ChatInv' /\ NoneCurrent' = NoneCurrent
    BY <1>1, ChatStays DEF playerVars, chatVars, PlayerInv, NoneCurrent
  <2>2. MicInv' /\ CueInv'
    BY <1>1, <2>1 DEF playerVars, chatVars, PlayerInv, MicInv, Fits, CueInv, InLine
  <2> QED BY <2>1, <2>2 DEF PlayerInv
<1>2. CASE VisitorStep
  BY <1>2, ClickStepInv, StartVoiceInv, StopVoiceInv, SpeechStartsInv DEF VisitorStep
<1>3. CASE DeviceStep
  BY <1>3, MicStepInv, SendUtteranceInv DEF DeviceStep
<1>4. CASE PlaybackStep
  BY <1>4, ReceiveCueInv, MediaStepInv DEF PlaybackStep
<1> QED
  BY <1>1, <1>2, <1>3, <1>4, AnswerStepInv, EmitCueInv DEF PlayerNext, PlayerQuiet

(* The invariant holds of the player whatever the visitor does.             *)
LEMMA PlayerInvHolds == PlayerSpec => []PlayerInv
<1>1. PlayerInit => PlayerInv
  BY PlayerBegins
<1>2. PlayerInv /\ [PlayerNext]_playerVars => PlayerInv'
  BY PlayerNextInv
<1> QED BY <1>1, <1>2, PTL DEF PlayerSpec

(* The player's state is of the declared kind, and no more cues are queued  *)
(* than Core emitted.                                                       *)
THEOREM PlayerTypeCorrect == PlayerSpec => []PlayerTypeOK
<1>1. PlayerInv => PlayerTypeOK
  <2> SUFFICES ASSUME PlayerInv PROVE PlayerTypeOK
    OBVIOUS
  <2>1. ChatTypeOK /\ mic \in Mic /\ recording \in {"none", "silent", "speech"}
    BY DEF PlayerInv, ChatInv, MicInv
  <2>2. /\ media \in Seq(Cue) /\ cues \subseteq [cue : 1..MaxCues, session : 1..MaxSessions]
        /\ cued \in 0..MaxCues /\ Len(media) + Cardinality(cues) <= cued
        /\ Cardinality(cues) \in Nat
    BY FS_CardinalityType DEF PlayerInv, CueInv, InLine
  <2>3. Len(media) <= cued
    BY <2>2, MediaAssumption
  <2> QED BY <2>1, <2>2, <2>3 DEF PlayerTypeOK
<1> QED BY <1>1, PlayerInvHolds, PTL

(* The thread never shows a message of another conversation than the one it *)
(* is of, whatever overlaps: replies stream in and utterances are sent      *)
(* while conversations are opened, restored, ended and left.                *)
THEOREM ThreadIsOfConversationHolds == PlayerSpec => []ThreadIsOfConversation
<1>1. PlayerInv => ThreadIsOfConversation
  BY DEF PlayerInv, ChatInv
<1> QED BY <1>1, PlayerInvHolds, PTL

(* The conversation shown is one with the character shown: an answer to a   *)
(* selection that another has overtaken changes nothing.                    *)
THEOREM ConversationIsOfAvatarHolds == PlayerSpec => []ConversationIsOfAvatar
<1>1. PlayerInv => ConversationIsOfAvatar
  BY DEF PlayerInv, ChatInv
<1> QED BY <1>1, PlayerInvHolds, PTL

-----------------------------------------------------------------------------
(* The queue's first cue has started only by MediaStarts.                   *)

Starts == /\ media' # <<>> /\ Head(media').started
          /\ media # <<>> => ~Head(media).started

(* A queue whose first cue has not started does not come to one that has by *)
(* what the hooks do.                                                       *)
LEMMA WaitingQueue ==
  ASSUME NEW q, InLine(q), MediaFollows(q), media' # <<>>, Head(media').started
  PROVE  q # <<>> /\ Head(q).started
<1>1. q \in Seq(Cue)
  BY DEF InLine
<1>2. CASE media' = q
  BY <1>2
<1>3. CASE media' # q
  BY <1>1, <1>3 DEF MediaFollows
<1> QED BY <1>2, <1>3

(* A tail does not begin with a cue that has started.                       *)
LEMMA TailWaits ==
  ASSUME NEW q, InLine(q), q # <<>>, Tail(q) # <<>>
  PROVE  ~Head(Tail(q)).started
<1>1. q \in Seq(Cue) /\ Len(q) \in Nat /\ Len(q) >= 2 /\ Head(Tail(q)) = q[2]
  BY DEF InLine
<1> QED BY <1>1 DEF InLine

LEMMA StartsIsMediaStarts ==
  ASSUME PlayerInv, PlayerNext, Starts
  PROVE  MediaStarts
<1>1. InLine(media) /\ media \in Seq(Cue)
  BY DEF PlayerInv, CueInv, InLine
<1>2. media' # media
  BY DEF Starts
<1>3. ~\E m, r : Follow(m, r, media)
  BY <1>1, WaitingQueue DEF Starts, Follow
<1>4. ASSUME NEW k \in cues, ReceiveCue(k)
      PROVE  FALSE
  <2>1. PICK c : c = [cue |-> k.cue, started |-> FALSE]
    BY Zenon
  <2>2. c \in Cue /\ ~c.started
    BY <2>1 DEF PlayerInv, CueInv, Cue
  <2>3. Follow(mic, recording, Append(media, c))
    BY <1>3, <1>4, <2>1 DEF ReceiveCue
  <2>4. InLine(Append(media, c))
    BY <1>1, <2>2 DEF InLine
  <2>5. Head(Append(media, c)).started
    BY <2>3, <2>4, WaitingQueue DEF Follow, Starts
  <2>6. Head(Append(media, c)) = IF media = <<>> THEN c ELSE Head(media)
    BY <1>1, <2>2
  <2> QED BY <2>2, <2>5, <2>6 DEF Starts
<1>5. ASSUME MediaEnds
      PROVE  FALSE
  <2>1. media # <<>> /\ Follow(mic, recording, Tail(media))
    BY <1>5 DEF MediaEnds, Watching, OnScreen
  <2>2. Tail(media) # <<>> /\ Head(Tail(media)).started
    BY <1>1, <2>1, TailInLine, WaitingQueue DEF Follow, Starts
  <2> QED BY <1>1, <2>1, <2>2, TailWaits
<1> QED
  BY <1>2, <1>3, <1>4, <1>5
     DEF PlayerNext, VisitorStep, ClickStep, StartVoice, StopVoice, SpeechStarts, AnswerStep,
         DeviceStep, MicGranted, MicDenied, UtteranceEnds, SendUtterance, EmitCue, PlaybackStep,
         PlayerQuiet, playerVars


(* Where the first cue starts, nothing is to be heard and nothing recorded, *)
(* whatever the cue waited for.                                             *)
LEMMA MediaStartsSilently ==
  ASSUME PlayerInv, MediaStarts, Starts
  PROVE  ~Busy' /\ recording' = "none"
<1>1. /\ media # <<>> /\ ~Busy /\ UNCHANGED chatVars
      /\ Follow(mic, recording, <<[Head(media) EXCEPT !.started = TRUE]>> \o Tail(media))
  BY DEF MediaStarts, Watching, OnScreen
<1>2. ~Busy' /\ ~thread'.sending /\ page' = page
  BY <1>1 DEF Busy, chatVars
<1>3. OnScreen(media', Busy', recording = "speech")
  BY DEF Starts, OnScreen
<1>4. ~Listens(mic', OnScreen(media', Busy', recording = "speech"), Busy')
  BY <1>3 DEF Listens
<1> QED BY <1>1, <1>2, <1>4 DEF Follow, RecordingFollows

(* A cue starts only while nobody speaks and the microphone does not        *)
(* record, whatever has become of the chat and the voice loop meanwhile.    *)
THEOREM MediaStartsInSilenceHolds == PlayerSpec => MediaStartsInSilence
<1>1. PlayerInv /\ [PlayerNext]_playerVars =>
        [Starts => ~Busy' /\ recording' = "none"]_playerVars
  BY StartsIsMediaStarts, MediaStartsSilently
<1>2. PlayerSpec => [][Starts => ~Busy' /\ recording' = "none"]_playerVars
  BY <1>1, PlayerInvHolds, PTL DEF PlayerSpec
<1>3. (Starts => ~Busy' /\ recording' = "none") <=>
        (media' # <<>> /\ Head(media').started /\ (media # <<>> => ~Head(media).started) =>
           ~Busy' /\ recording' = "none")
  BY DEF Starts
<1> QED BY <1>2, <1>3, PTL DEF MediaStartsInSilence

-----------------------------------------------------------------------------
(* The inductive invariant.  A call is of a choice made by now, and each    *)
(* choice has one load at most.  That of the choice there is finds its      *)
(* session before the page knows one.  Afterwards it, the refreshes and     *)
(* the avatars shown are of this session.                                   *)

PlaysInv ==
  /\ plays \in [Plays -> Play]
  /\ \A p \in Plays : plays[p].untold <= plays[p].unlocked

ChoiceInv ==
  /\ choice \in Choice
  /\ listed \in BOOLEAN
  /\ ~listed => choice.number = 0
  /\ choice.play # 0 =>
       choice.scenario # 0 /\ plays[choice.play].scenario = choice.scenario

OfChoice(l) ==
  /\ l.scenario = choice.scenario
  /\ l.pc \in {"list", "start", "session"} => choice.play = 0
  /\ l.pc \in {"avatars", "answer"} => choice.play = l.play

LoadOk(l) ==
  /\ l.scenario # 0
  /\ l.number <= choice.number
  /\ l.pc \in {"session", "avatars", "answer"} =>
       l.play # 0 /\ plays[l.play].scenario = l.scenario
  /\ l.pc = "answer" => l.version <= plays[l.play].unlocked
  /\ l.number = choice.number => OfChoice(l)

LoadInv ==
  /\ loads \subseteq Load
  /\ \A l \in loads : LoadOk(l)
  /\ \A l, m \in loads : l.number = m.number => l = m

OfferInv ==
  /\ offer \in Offer
  /\ offer.of # 0 => offer.of = choice.play /\ offer.version <= plays[offer.of].unlocked

RefreshOk(c) ==
  /\ c.play # 0
  /\ c.number <= choice.number
  /\ c.pc = "answer" => c.version <= plays[c.play].unlocked
  /\ c.number = choice.number => c.play = choice.play

RefreshInv == refreshes \subseteq RefreshCall /\ \A c \in refreshes : RefreshOk(c)

FeedInv ==
  /\ feed \in Feed
  /\ feed.pc # "closed" => choice.play # 0
  /\ faults \in 0..MaxFaults
  /\ excused \in BOOLEAN

DiscoveryInv ==
  PlaysInv /\ ChoiceInv /\ LoadInv /\ OfferInv /\ RefreshInv /\ FeedInv

(* With the stream open and no event to come, what is shown is what is      *)
(* unlocked, or a refresh that finds it is under way.                       *)
Current == offer = [of |-> choice.play, version |-> plays[choice.play].unlocked,
                    status |-> "ready"]
Finds(c) ==
  ~Cancelled(c) /\ (c.pc = "asked" \/ c.version = plays[choice.play].unlocked)

UnlockInv ==
  feed.pc = "open" /\ feed.events = 0 /\ plays[choice.play].untold = 0 /\ ~excused =>
    Current \/ \E c \in refreshes : Finds(c)

LEMMA Bounds ==
  /\ Offered \subseteq Nat \ {0} /\ Recalled \subseteq Nat
  /\ MaxPlays \in Nat /\ MaxChoices \in Nat /\ MaxUnlocks \in Nat
  /\ MaxFaults \in Nat /\ MaxPending \in Nat
BY DiscoveryAssumption

LEMMA PlayNumbers == \A p : p \in Plays <=> p \in 0..MaxPlays /\ p # 0
BY Bounds DEF Plays

LEMMA DiscoveryInitInv == DiscoveryInit => DiscoveryInv
<1> SUFFICES ASSUME DiscoveryInit PROVE DiscoveryInv
  OBVIOUS
<1> USE Bounds DEF DiscoveryInit, Scenarios, Plays, UnlockSets
<1>1. PICK s \in Recalled :
        /\ choice = [scenario |-> s, number |-> 0, play |-> 0]
        /\ offer = Nothing(IF s = 0 THEN "idle" ELSE "loading")
        /\ loads = IF s = 0 THEN {} ELSE {LoadOf(s, 0, "list")}
  OBVIOUS
<1>2. PlaysInv
  BY DEF PlaysInv, Play, NoPlay
<1>3. ChoiceInv
  <2>1. choice \in Choice
    BY <1>1 DEF Choice
  <2>2. choice.number = 0 /\ choice.play = 0
    BY <1>1
  <2>3. QED
    BY <2>1, <2>2 DEF ChoiceInv
<1>4. LoadInv
  <2>1. CASE s = 0
    BY <1>1, <2>1 DEF LoadInv
  <2>2. CASE s # 0
    <3>1. loads = {LoadOf(s, 0, "list")}
      BY <1>1, <2>2
    <3>2. LoadOf(s, 0, "list") \in Load
      BY DEF Load, LoadOf
    <3>3. QED
      BY <1>1, <2>2, <3>1, <3>2 DEF LoadInv, LoadOk, LoadOf, OfChoice
  <2>3. QED
    BY <2>1, <2>2
<1>5. OfferInv
  BY <1>1 DEF OfferInv, Offer, Nothing
<1>6. RefreshInv
  BY DEF RefreshInv
<1>7. FeedInv
  <2>1. feed \in Feed /\ feed.pc = "closed"
    BY DEF Feed, Closed
  <2>2. faults \in 0..MaxFaults
    OBVIOUS
  <2>3. excused \in BOOLEAN
    OBVIOUS
  <2>4. QED
    BY <2>1, <2>2, <2>3 DEF FeedInv
<1>8. QED
  BY <1>2, <1>3, <1>4, <1>5, <1>6, <1>7 DEF DiscoveryInv

LEMMA InvGivesTypes == DiscoveryInv => DiscoveryTypeOK
BY DEF DiscoveryInv, DiscoveryTypeOK, PlaysInv, ChoiceInv, LoadInv, OfferInv,
       RefreshInv, FeedInv

LEMMA InvGivesSession == DiscoveryInv => AvatarsAreOfSession
BY DEF DiscoveryInv, AvatarsAreOfSession, ChoiceInv, OfferInv

-----------------------------------------------------------------------------
(* Choices.  With the new number every call under way is of an earlier one. *)

LEMMA DecideInv ==
  ASSUME DiscoveryInv, NEW s \in Scenarios, NEW status \in {"idle", "loading"},
         Decide(s, status), choice.number <= MaxChoices,
         UNCHANGED <<plays, refreshes, faults, excused>>
  PROVE  /\ PlaysInv' /\ OfferInv' /\ RefreshInv' /\ FeedInv'
         /\ choice' \in Choice
         /\ choice'.scenario = s /\ choice'.number = choice.number + 1 /\ choice'.play = 0
         /\ \A l \in loads : l.number < choice'.number
<1> USE Bounds DEF DiscoveryInv, Decide, Scenarios, Plays, UnlockSets
<1>1. choice.number \in Nat /\ choice.number + 1 \in 0..(MaxChoices + 1)
  BY DEF ChoiceInv, Choice
<1>2. choice' = [scenario |-> s, number |-> choice.number + 1, play |-> 0]
  OBVIOUS
<1>3. choice' \in Choice
  BY <1>1, <1>2 DEF Choice
<1>4. PlaysInv'
  BY DEF PlaysInv
<1>5. OfferInv'
  BY DEF OfferInv, Offer, Nothing
<1>6. RefreshInv'
  <2>1. \A c \in refreshes : c.number \in Nat /\ c.number <= choice.number
    BY DEF RefreshInv, RefreshOk, RefreshCall
  <2>2. QED
    BY <1>1, <1>2, <2>1 DEF RefreshInv, RefreshOk
<1>7. FeedInv'
  BY DEF FeedInv, Feed, Closed
<1>8. \A l \in loads : l.number < choice'.number
  <2>1. \A l \in loads : l.number \in Nat /\ l.number <= choice.number
    BY DEF LoadInv, LoadOk, Load
  <2>2. QED
    BY <1>1, <1>2, <2>1
<1>9. QED
  BY <1>2, <1>3, <1>4, <1>5, <1>6, <1>7, <1>8

LEMMA NewLoadInv ==
  ASSUME LoadInv, UNCHANGED plays, choice' \in Choice,
         choice'.scenario # 0, choice'.play = 0,
         \A l \in loads : l.number < choice'.number,
         NEW how \in {"list", "start"},
         loads' = loads \cup {LoadOf(choice'.scenario, choice'.number, how)}
  PROVE  LoadInv'
<1> DEFINE k == LoadOf(choice'.scenario, choice'.number, how)
<1> USE Bounds DEF Scenarios, Plays, UnlockSets
<1>1. k \in Load
  BY DEF LoadOf, Load, Choice
<1>2. /\ k.scenario = choice'.scenario /\ k.number = choice'.number
      /\ k.pc \in {"list", "start"}
  BY DEF LoadOf
<1>3. \A l \in loads : l.number \in Nat /\ l.number < choice'.number
  BY DEF LoadInv, Load
<1>4. choice'.number \in Nat
  BY DEF Choice
<1>5. loads' \subseteq Load
  BY <1>1 DEF LoadInv
<1>6. \A l, m \in loads' : l.number = m.number => l = m
  BY <1>2, <1>3, <1>4 DEF LoadInv
<1>7. ASSUME NEW l \in loads'
      PROVE  LoadOk(l)'
  <2>1. CASE l \in loads
    BY <1>3, <1>4, <2>1 DEF LoadInv, LoadOk
  <2>2. CASE l = k
    BY <1>2, <1>4, <2>2 DEF LoadOk, OfChoice
  <2>3. QED
    BY <2>1, <2>2
<1>8. QED
  BY <1>5, <1>6, <1>7 DEF LoadInv

LEMMA OldLoadsInv ==
  ASSUME LoadInv, UNCHANGED <<plays, loads>>, choice' \in Choice,
         \A l \in loads : l.number < choice'.number
  PROVE  LoadInv'
<1>1. \A l \in loads : l.number \in Nat
  BY Bounds DEF LoadInv, Load
<1>2. choice'.number \in Nat
  BY Bounds DEF Choice
<1>3. QED
  BY <1>1, <1>2 DEF LoadInv, LoadOk

LEMMA ListedInv == DiscoveryInv /\ ScenariosListed => DiscoveryInv'
<1> SUFFICES ASSUME DiscoveryInv, ScenariosListed PROVE DiscoveryInv'
  OBVIOUS
<1> USE DEF DiscoveryInv, ScenariosListed
<1>1. CASE UNCHANGED <<choice, offer, feed>>
  BY <1>1 DEF PlaysInv, ChoiceInv, LoadInv, LoadOk, OfChoice, OfferInv,
              RefreshInv, RefreshOk, FeedInv
<1>2. CASE Decide(0, "idle")
  <2>1. 0 \in Scenarios /\ choice.number <= MaxChoices
    BY Bounds DEF Scenarios, ChoiceInv
  <2>2. /\ PlaysInv' /\ OfferInv' /\ RefreshInv' /\ FeedInv'
        /\ choice' \in Choice /\ choice'.play = 0
        /\ \A l \in loads : l.number < choice'.number
    BY <1>2, <2>1, DecideInv
  <2>3. ChoiceInv'
    BY <2>2 DEF ChoiceInv
  <2>4. LoadInv'
    BY <2>2, OldLoadsInv
  <2>5. QED
    BY <2>2, <2>3, <2>4
<1>3. QED
  BY <1>1, <1>2

LEMMA SelectInv ==
  ASSUME DiscoveryInv, NEW s \in Offered, SelectScenario(s)
  PROVE  DiscoveryInv'
<1> USE DEF DiscoveryInv, SelectScenario
<1>1. s \in Scenarios /\ s # 0 /\ choice.number <= MaxChoices
  BY Bounds DEF Scenarios, ChoiceInv, Choice
<1>2. /\ PlaysInv' /\ OfferInv' /\ RefreshInv' /\ FeedInv'
      /\ choice' \in Choice /\ choice'.play = 0
      /\ choice'.scenario = s /\ choice'.number = choice.number + 1
      /\ \A l \in loads : l.number < choice'.number
  BY <1>1, DecideInv
<1>3. ChoiceInv'
  BY <1>2 DEF ChoiceInv
<1>4. LoadInv'
  BY <1>1, <1>2, NewLoadInv
<1>5. QED
  BY <1>2, <1>3, <1>4

LEMMA RestartInv == DiscoveryInv /\ RestartSession => DiscoveryInv'
<1> SUFFICES ASSUME DiscoveryInv, RestartSession PROVE DiscoveryInv'
  OBVIOUS
<1> USE DEF DiscoveryInv, RestartSession
<1>1. choice.scenario \in Scenarios /\ choice.scenario # 0 /\ choice.number <= MaxChoices
  BY Bounds DEF ChoiceInv, Choice
<1>2. /\ PlaysInv' /\ OfferInv' /\ RefreshInv' /\ FeedInv'
      /\ choice' \in Choice /\ choice'.play = 0
      /\ choice'.scenario = choice.scenario /\ choice'.number = choice.number + 1
      /\ \A l \in loads : l.number < choice'.number
  BY <1>1, DecideInv
<1>3. ChoiceInv'
  BY <1>2 DEF ChoiceInv
<1>4. LoadInv'
  BY <1>1, <1>2, NewLoadInv
<1>5. QED
  BY <1>2, <1>3, <1>4

-----------------------------------------------------------------------------
(* Loads.  There is one of a choice at most, so that what a load of the     *)
(* last choice changes is of no other's concern.                            *)

LEMMA LoadRemoved ==
  ASSUME LoadInv, NEW l \in loads, loads' = loads \ {l},
         \A m \in loads \ {l} : LoadOk(m)'
  PROVE  LoadInv'
BY DEF LoadInv

LEMMA LoadGoes ==
  ASSUME LoadInv, NEW l \in loads, NEW next \in Load, Goes(l, next),
         next.number = l.number, LoadOk(next)',
         \A m \in loads \ {l} : LoadOk(m)'
  PROVE  LoadInv'
<1>1. \A m \in loads' : LoadOk(m)'
  BY DEF Goes
<1>2. \A m, n \in loads' : m.number = n.number => m = n
  BY DEF LoadInv, Goes
<1>3. loads' \subseteq Load
  BY DEF LoadInv, Goes
<1>4. QED
  BY <1>1, <1>2, <1>3 DEF LoadInv

(* What a load's record is.                                                 *)
LEMMA LoadFields ==
  ASSUME LoadInv, NEW l \in loads
  PROVE  /\ LoadOk(l)
         /\ l.pc \in {"list", "start", "session", "avatars", "answer"}
         /\ l.scenario \in Scenarios /\ l.number \in Nat /\ l.play \in 0..MaxPlays
         /\ l.version \in UnlockSets
         /\ l = [pc |-> l.pc, scenario |-> l.scenario, number |-> l.number,
                 play |-> l.play, version |-> l.version]
         /\ \A m \in loads \ {l} : m.number # l.number
<1>1. l \in Load /\ LoadOk(l)
  BY DEF LoadInv
<1>2. \A m \in loads \ {l} : m.number # l.number
  BY DEF LoadInv
<1>3. QED
  BY <1>1, <1>2, Bounds DEF Load

LEMMA FindInv ==
  ASSUME DiscoveryInv, NEW l \in loads, FindSession(l),
         UNCHANGED <<listed, refreshes, faults>>
  PROVE  DiscoveryInv'
<1> USE DEF DiscoveryInv, FindSession
<1>1. PlaysInv' /\ ChoiceInv' /\ OfferInv' /\ RefreshInv' /\ FeedInv'
  BY DEF PlaysInv, ChoiceInv, OfferInv, RefreshInv, RefreshOk, FeedInv
<1>2. LoadInv /\ LoadOk(l) /\ l \in Load
  BY DEF LoadInv
<1>3. \A m \in loads \ {l} : LoadOk(m)'
  BY <1>2 DEF LoadInv, LoadOk, OfChoice
<1>4. CASE Goes(l, [l EXCEPT !.pc = "start"])
  <2> DEFINE next == [l EXCEPT !.pc = "start"]
  <2>1. next \in Load /\ next.number = l.number
    BY <1>2 DEF Load
  <2>2. LoadOk(next)'
    BY <1>2 DEF LoadOk, OfChoice, Load
  <2> HIDE DEF next
  <2>3. QED
    BY <1>1, <1>2, <1>3, <1>4, <2>1, <2>2, LoadGoes DEF next
<1>5. ASSUME NEW p \in Plays, plays[p].scenario = l.scenario,
             Goes(l, [l EXCEPT !.pc = "session", !.play = p])
      PROVE  DiscoveryInv'
  <2> DEFINE next == [l EXCEPT !.pc = "session", !.play = p]
  <2>1. next \in Load /\ next.number = l.number
    BY <1>2, PlayNumbers DEF Load
  <2>2. p # 0
    BY PlayNumbers
  <2>3. LoadOk(next)'
    BY <1>2, <1>5, <2>2 DEF LoadOk, OfChoice, Load
  <2> HIDE DEF next
  <2>4. QED
    BY <1>1, <1>2, <1>3, <1>5, <2>1, <2>3, LoadGoes DEF next
<1>6. QED
  BY <1>4, <1>5

LEMMA StartInv ==
  ASSUME DiscoveryInv, NEW l \in loads, StartSession(l),
         UNCHANGED <<listed, refreshes, faults>>
  PROVE  DiscoveryInv'
<1> USE DEF DiscoveryInv
<1>1. PICK p \in Plays :
        /\ plays[p].scenario = 0
        /\ plays' = [plays EXCEPT ![p].scenario = l.scenario]
        /\ Goes(l, [l EXCEPT !.pc = "session", !.play = p])
  BY DEF StartSession
<1> DEFINE next == [l EXCEPT !.pc = "session", !.play = p]
<1>2. LoadInv /\ LoadOk(l) /\ l \in Load /\ l.pc = "start"
  BY DEF LoadInv, StartSession
<1>3. UNCHANGED <<offer, choice, feed, excused>>
  BY DEF StartSession
<1>4. plays \in [Plays -> Play]
  BY DEF PlaysInv
<1>5. plays' \in [Plays -> Play]
  <2>1. l.scenario \in Scenarios
    BY <1>2 DEF Load
  <2>2. [plays[p] EXCEPT !.scenario = l.scenario] \in Play
    BY <1>4, <2>1 DEF Play
  <2>3. QED
    BY <1>1, <1>4, <2>2
<1>6. \A q \in Plays : /\ plays'[q].unlocked = plays[q].unlocked
                       /\ plays'[q].untold = plays[q].untold
  BY <1>1, <1>4 DEF Play
<1>7. \A q \in Plays : plays[q].scenario # 0 => plays'[q].scenario = plays[q].scenario
  BY <1>1, <1>4
<1>8. plays'[p].scenario = l.scenario /\ p # 0
  BY <1>1, <1>4, Bounds DEF Play, Plays
<1>9. PlaysInv'
  BY <1>5, <1>6 DEF PlaysInv
<1>10. ChoiceInv'
  <2>1. choice.play # 0 => choice.play \in Plays
    BY Bounds DEF ChoiceInv, Choice, Plays
  <2>2. QED
    BY <1>3, <1>7, <2>1 DEF ChoiceInv
<1>11. \A m \in loads \ {l} : LoadOk(m)'
  <2> TAKE m \in loads \ {l}
  <2>1. LoadOk(m) /\ m \in Load
    BY DEF LoadInv
  <2>2. m.play # 0 => m.play \in Plays
    BY <2>1, Bounds DEF Load, Plays
  <2>3. QED
    BY <1>3, <1>6, <1>7, <2>1, <2>2 DEF LoadOk, OfChoice
<1>12. next \in Load /\ next.number = l.number
  BY <1>2, PlayNumbers DEF Load
<1>13. LoadOk(next)'
  BY <1>2, <1>3, <1>8 DEF LoadOk, OfChoice, Load
<1>14. LoadInv'
  <2> HIDE DEF next
  <2>1. QED
    BY <1>1, <1>2, <1>11, <1>12, <1>13, LoadGoes DEF next
<1>15. OfferInv'
  <2>1. offer.of # 0 => offer.of \in Plays
    BY Bounds DEF OfferInv, Offer, Plays
  <2>2. QED
    BY <1>3, <1>6, <2>1 DEF OfferInv
<1>16. RefreshInv'
  <2>1. \A c \in refreshes : c.play \in Plays
    BY Bounds DEF RefreshInv, RefreshOk, RefreshCall, Plays
  <2>2. QED
    BY <1>3, <1>6, <2>1 DEF RefreshInv, RefreshOk
<1>17. FeedInv'
  BY <1>3 DEF FeedInv
<1>18. QED
  BY <1>9, <1>10, <1>14, <1>15, <1>16, <1>17

LEMMA SessionKnownInv ==
  ASSUME DiscoveryInv, NEW l \in loads, SessionKnown(l),
         UNCHANGED <<listed, refreshes, faults>>
  PROVE  DiscoveryInv'
<1> USE DEF DiscoveryInv
<1>1. /\ LoadInv /\ LoadOk(l) /\ l \in Load /\ l.pc = "session"
      /\ l.play \in 0..MaxPlays /\ l.play # 0
      /\ UNCHANGED <<plays, offer>>
  BY DEF LoadInv, LoadOk, Load, SessionKnown
<1>2. PlaysInv'
  BY <1>1 DEF PlaysInv
<1>3. CASE l.number = choice.number
  <2> DEFINE next == [l EXCEPT !.pc = "avatars"]
  <2>1. /\ choice' = [choice EXCEPT !.play = l.play]
        /\ feed' = [pc |-> "connecting", events |-> 0]
        /\ excused' = FALSE
        /\ Goes(l, next)
    BY <1>3 DEF SessionKnown
  <2>2. choice \in Choice /\ choice.play = 0 /\ l.scenario = choice.scenario
    BY <1>1, <1>3 DEF ChoiceInv, LoadOk, OfChoice
  <2>3. /\ choice' \in Choice /\ choice'.play = l.play
        /\ choice'.number = choice.number /\ choice'.scenario = choice.scenario
    BY <1>1, <2>1, <2>2 DEF Choice
  <2>4. ChoiceInv'
    BY <1>1, <2>2, <2>3 DEF ChoiceInv, LoadOk
  <2>5. \A m \in loads \ {l} : LoadOk(m)'
    <3> TAKE m \in loads \ {l}
    <3>1. LoadOk(m) /\ m.number # choice.number
      BY <1>3 DEF LoadInv
    <3>2. QED
      BY <1>1, <2>3, <3>1 DEF LoadOk
  <2>6. next \in Load /\ next.number = l.number
    BY <1>1 DEF Load
  <2>7. LoadOk(next)'
    BY <1>1, <2>2, <2>3 DEF LoadOk, OfChoice, Load
  <2>8. LoadInv'
    <3> HIDE DEF next
    <3>1. QED
      BY <1>1, <2>1, <2>5, <2>6, <2>7, LoadGoes
  <2>9. OfferInv'
    BY <1>1, <2>2 DEF OfferInv
  <2>10. RefreshInv'
    BY <1>1, <2>2, <2>3 DEF RefreshInv, RefreshOk
  <2>11. FeedInv'
    <3>1. feed' \in Feed /\ excused' \in BOOLEAN
      BY <2>1 DEF Feed
    <3>2. QED
      BY <1>1, <2>3, <3>1 DEF FeedInv
  <2>12. QED
    BY <1>2, <2>4, <2>8, <2>9, <2>10, <2>11
<1>4. CASE l.number # choice.number
  <2>1. loads' = loads \ {l} /\ UNCHANGED <<choice, feed, excused>>
    BY <1>4 DEF SessionKnown
  <2>2. \A m \in loads \ {l} : LoadOk(m)'
    BY <1>1, <2>1 DEF LoadInv, LoadOk, OfChoice
  <2>3. LoadInv'
    BY <1>1, <2>1, <2>2, LoadRemoved
  <2>4. QED
    BY <1>1, <1>2, <2>1, <2>3 DEF ChoiceInv, OfferInv, RefreshInv, RefreshOk, FeedInv
<1>5. QED
  BY <1>3, <1>4

LEMMA ReadAvatarsInv ==
  ASSUME DiscoveryInv, NEW l \in loads, ReadAvatars(l),
         UNCHANGED <<listed, refreshes, faults>>
  PROVE  DiscoveryInv'
<1> USE DEF DiscoveryInv
<1>1. /\ LoadInv /\ LoadOk(l) /\ l \in Load /\ l.pc = "avatars"
      /\ UNCHANGED <<plays, offer, choice, feed, excused>>
  BY DEF LoadInv, ReadAvatars
<1>2. l.play \in Plays
  BY <1>1, PlayNumbers DEF LoadOk, Load
<1>3. PICK v \in UnlockSets : v = plays[l.play].unlocked
  BY <1>2 DEF PlaysInv, Play
<1> DEFINE next == [l EXCEPT !.pc = "answer", !.version = v]
<1>4. \A m \in loads \ {l} : LoadOk(m)'
  BY <1>1 DEF LoadInv, LoadOk, OfChoice
<1>5. next \in Load /\ next.number = l.number
  BY <1>1 DEF Load
<1>6. LoadOk(next)'
  BY <1>1, <1>3, Bounds DEF LoadOk, OfChoice, Load, UnlockSets
<1>7. LoadInv'
  <2>1. Goes(l, next)
    BY <1>3 DEF ReadAvatars
  <2> HIDE DEF next
  <2>2. QED
    BY <1>1, <1>4, <1>5, <1>6, <2>1, LoadGoes
<1>8. QED
  BY <1>1, <1>7 DEF PlaysInv, ChoiceInv, OfferInv, RefreshInv, RefreshOk, FeedInv

(* A load that ends, whatever it shows.                                     *)
LEMMA LoadEndsInv ==
  ASSUME DiscoveryInv, NEW l \in loads, loads' = loads \ {l},
         UNCHANGED <<plays, choice, listed, refreshes, feed>>,
         OfferInv', faults' \in 0..MaxFaults, excused' \in BOOLEAN
  PROVE  DiscoveryInv'
<1> USE DEF DiscoveryInv
<1>1. \A m \in loads \ {l} : LoadOk(m)'
  BY DEF LoadInv, LoadOk, OfChoice
<1>2. LoadInv'
  BY <1>1, LoadRemoved
<1>3. QED
  BY <1>2 DEF PlaysInv, ChoiceInv, RefreshInv, RefreshOk, FeedInv

LEMMA AvatarsKnownInv ==
  ASSUME DiscoveryInv, NEW l \in loads, AvatarsKnown(l),
         UNCHANGED <<listed, refreshes, faults>>
  PROVE  DiscoveryInv'
<1> USE DEF DiscoveryInv
<1>1. LoadOk(l) /\ l \in Load /\ l.pc = "answer"
  BY DEF LoadInv, AvatarsKnown
<1>2. CASE l.number = choice.number
  <2>1. offer' = [of |-> l.play, version |-> l.version, status |-> "ready"]
    BY <1>2 DEF AvatarsKnown, Shows
  <2>2. excused' = (excused \/ Overtaken(l))
    BY <1>2 DEF AvatarsKnown
  <2>3. /\ l.play \in 0..MaxPlays /\ l.version \in UnlockSets
        /\ l.play = choice.play /\ l.version <= plays[l.play].unlocked
    BY <1>1, <1>2 DEF LoadOk, OfChoice, Load
  <2>4. offer' \in Offer
    BY <2>1, <2>3 DEF Offer
  <2>5. UNCHANGED <<plays, choice>>
    BY DEF AvatarsKnown
  <2>6. OfferInv'
    BY <2>1, <2>3, <2>4, <2>5 DEF OfferInv
  <2>7. excused' \in BOOLEAN
    BY <2>2, Zenon
  <2>8. faults' \in 0..MaxFaults
    BY DEF FeedInv
  <2>9. QED
    BY <2>6, <2>7, <2>8, LoadEndsInv DEF AvatarsKnown
<1>3. CASE l.number # choice.number
  <2>1. UNCHANGED <<offer, excused, plays, choice, faults>>
    BY <1>3 DEF AvatarsKnown
  <2>2. OfferInv' /\ faults' \in 0..MaxFaults /\ excused' \in BOOLEAN
    BY <2>1 DEF OfferInv, FeedInv
  <2>3. QED
    BY <2>2, LoadEndsInv DEF AvatarsKnown
<1>4. QED
  BY <1>2, <1>3

LEMMA FaultBound ==
  ASSUME FeedInv, Fault
  PROVE  faults' \in 0..MaxFaults
BY Bounds DEF FeedInv, Fault

LEMMA LoadFailsInv ==
  ASSUME DiscoveryInv, NEW l \in loads, LoadFails(l), UNCHANGED <<listed, refreshes>>
  PROVE  DiscoveryInv'
<1> USE DEF DiscoveryInv
<1>1. faults' \in 0..MaxFaults
  BY FaultBound DEF LoadFails
<1>2. UNCHANGED <<plays, choice>>
  BY DEF LoadFails
<1>3. OfferInv' /\ excused' \in BOOLEAN
  <2>1. CASE l.number = choice.number
    <3>1. offer' = [offer EXCEPT !.status = "error"] /\ excused' = TRUE
      BY <2>1 DEF LoadFails
    <3>2. offer \in Offer
      BY DEF OfferInv
    <3>3. offer' \in Offer /\ offer'.of = offer.of /\ offer'.version = offer.version
      BY <3>1, <3>2 DEF Offer
    <3>4. QED
      BY <1>2, <3>1, <3>3 DEF OfferInv
  <2>2. CASE l.number # choice.number
    BY <1>2, <2>2 DEF LoadFails, OfferInv, FeedInv
  <2>3. QED
    BY <2>1, <2>2
<1>4. QED
  BY <1>1, <1>3, LoadEndsInv DEF LoadFails

-----------------------------------------------------------------------------
(* The stream of events, unlocks and refreshes.                             *)

LEMMA AskInv ==
  ASSUME DiscoveryInv, Ask, choice.play # 0, UNCHANGED <<plays, choice>>
  PROVE  RefreshInv'
<1> DEFINE c == [pc |-> "asked", number |-> choice.number, play |-> choice.play,
                 version |-> 0]
<1>1. refreshes' = refreshes \cup {c}
  BY DEF Ask, Adds
<1>2. choice \in Choice
  BY DEF DiscoveryInv, ChoiceInv
<1>3. c \in RefreshCall
  BY <1>2, Bounds DEF Choice, RefreshCall, UnlockSets
<1>4. RefreshOk(c)'
  BY <1>2, Bounds DEF Choice, RefreshOk
<1>5. \A d \in refreshes : d \in RefreshCall /\ RefreshOk(d)'
  BY DEF DiscoveryInv, RefreshInv, RefreshOk
<1>6. QED
  BY <1>1, <1>3, <1>4, <1>5 DEF RefreshInv

LEMMA FeedStepInv == DiscoveryInv /\ FeedStep => DiscoveryInv'
<1> SUFFICES ASSUME DiscoveryInv, FeedStep PROVE DiscoveryInv'
  OBVIOUS
<1> USE DEF DiscoveryInv
<1>1. UNCHANGED <<plays, choice, listed, offer, loads, excused>>
  BY DEF FeedStep
<1>2. PlaysInv' /\ ChoiceInv' /\ LoadInv' /\ OfferInv'
  BY <1>1 DEF PlaysInv, ChoiceInv, LoadInv, LoadOk, OfChoice, OfferInv
<1>3. /\ feed \in Feed /\ (feed.pc # "closed" => choice.play # 0)
      /\ faults \in 0..MaxFaults /\ excused \in BOOLEAN
  BY DEF FeedInv
<1>4. CASE Subscribe
  <2>1. feed' \in Feed /\ choice.play # 0
    BY <1>3, <1>4 DEF Subscribe, Feed
  <2>2. QED
    BY <1>1, <1>2, <1>3, <1>4, <2>1 DEF Subscribe, RefreshInv, RefreshOk, FeedInv
<1>5. CASE Open
  <2>1. feed' \in Feed /\ choice.play # 0
    BY <1>3, <1>5 DEF Open, Feed
  <2>2. RefreshInv'
    BY <1>1, <1>5, <2>1, AskInv DEF Open
  <2>3. QED
    BY <1>1, <1>2, <1>3, <1>5, <2>1, <2>2 DEF Open, FeedInv
<1>6. CASE ReceiveUnlock
  <2>1. feed' \in Feed /\ choice.play # 0
    BY <1>3, <1>6 DEF ReceiveUnlock, Feed
  <2>2. RefreshInv'
    BY <1>1, <1>6, <2>1, AskInv DEF ReceiveUnlock
  <2>3. QED
    BY <1>1, <1>2, <1>3, <1>6, <2>1, <2>2 DEF ReceiveUnlock, FeedInv
<1>7. CASE Break
  <2>1. feed' \in Feed /\ choice.play # 0
    BY <1>3, <1>7 DEF Break, Feed
  <2>2. faults' \in 0..MaxFaults
    BY <1>7, FaultBound DEF Break
  <2>3. QED
    BY <1>1, <1>2, <1>3, <1>7, <2>1, <2>2 DEF Break, RefreshInv, RefreshOk, FeedInv
<1>8. CASE Reconnect
  <2>1. feed' \in Feed /\ choice.play # 0
    BY <1>3, <1>8 DEF Reconnect, Feed
  <2>2. QED
    BY <1>1, <1>2, <1>3, <1>8, <2>1 DEF Reconnect, RefreshInv, RefreshOk, FeedInv
<1>9. QED
  BY <1>4, <1>5, <1>6, <1>7, <1>8 DEF FeedStep

(* More avatars may be unlocked, no fewer.                                  *)
LEMMA PlaysGrowInv ==
  ASSUME DiscoveryInv, PlaysInv', feed' \in Feed, feed'.pc = feed.pc,
         UNCHANGED <<choice, listed, offer, loads, refreshes, faults, excused>>,
         \A q \in Plays : /\ plays'[q].scenario = plays[q].scenario
                         /\ plays[q].unlocked <= plays'[q].unlocked
  PROVE  DiscoveryInv'
<1> USE DEF DiscoveryInv
<1>1. \A q \in Plays : plays[q].unlocked \in Nat /\ plays'[q].unlocked \in Nat
  BY Bounds DEF PlaysInv, Play, UnlockSets
<1>2. ChoiceInv'
  <2>1. choice.play # 0 => choice.play \in Plays
    BY PlayNumbers DEF ChoiceInv, Choice
  <2>2. QED
    BY <2>1 DEF ChoiceInv
<1>3. LoadInv'
  <2> SUFFICES ASSUME NEW l \in loads PROVE LoadOk(l)'
    BY DEF LoadInv
  <2>1. LoadOk(l) /\ l \in Load
    BY DEF LoadInv
  <2>2. l.play # 0 => l.play \in Plays
    BY <2>1, PlayNumbers DEF Load
  <2>3. l.version \in Nat
    BY <2>1, Bounds DEF Load, UnlockSets
  <2>4. QED
    BY <1>1, <2>1, <2>2, <2>3 DEF LoadOk, OfChoice
<1>4. OfferInv'
  <2>1. offer.of # 0 => offer.of \in Plays
    BY PlayNumbers DEF OfferInv, Offer
  <2>2. offer.version \in Nat
    BY Bounds DEF OfferInv, Offer, UnlockSets
  <2>3. QED
    BY <1>1, <2>1, <2>2 DEF OfferInv
<1>5. RefreshInv'
  <2> SUFFICES ASSUME NEW c \in refreshes PROVE RefreshOk(c)'
    BY DEF RefreshInv
  <2>1. RefreshOk(c) /\ c \in RefreshCall
    BY DEF RefreshInv
  <2>2. c.play \in Plays
    BY <2>1, PlayNumbers DEF RefreshOk, RefreshCall
  <2>3. c.version \in Nat
    BY <2>1, Bounds DEF RefreshCall, UnlockSets
  <2>4. QED
    BY <1>1, <2>1, <2>2, <2>3 DEF RefreshOk
<1>6. FeedInv'
  BY DEF FeedInv
<1>7. QED
  BY <1>2, <1>3, <1>4, <1>5, <1>6

LEMMA UnlockStepInv == DiscoveryInv /\ UnlockStep => DiscoveryInv'
<1> SUFFICES ASSUME DiscoveryInv, UnlockStep PROVE DiscoveryInv'
  OBVIOUS
<1> USE DEF DiscoveryInv
<1>1. UNCHANGED <<choice, listed, offer, loads, refreshes, faults, excused>>
  BY DEF UnlockStep
<1>2. plays \in [Plays -> Play] /\ feed \in Feed
  BY DEF PlaysInv, FeedInv
<1>3. \A q \in Plays : /\ plays[q].scenario \in Scenarios
                       /\ plays[q].unlocked \in Nat /\ plays[q].untold \in Nat
                       /\ plays[q].unlocked <= MaxUnlocks
                       /\ plays[q].untold <= plays[q].unlocked
  BY <1>2, Bounds DEF PlaysInv, Play, UnlockSets
<1>4. ASSUME NEW p \in Plays, Unlock(p) PROVE DiscoveryInv'
  <2> DEFINE r == [plays[p] EXCEPT !.unlocked = plays[p].unlocked + 1,
                                   !.untold = plays[p].untold + 1]
  <2>1. plays' = [plays EXCEPT ![p] = r] /\ plays[p].unlocked < MaxUnlocks /\ feed' = feed
    BY <1>4 DEF Unlock
  <2>2. /\ r.scenario = plays[p].scenario /\ r.unlocked = plays[p].unlocked + 1
        /\ r.untold = plays[p].untold + 1
    BY <1>2 DEF Play
  <2>3. r \in Play
    <3>1. /\ plays[p].unlocked + 1 \in UnlockSets /\ plays[p].untold + 1 \in UnlockSets
      BY <1>3, <2>1, Bounds DEF UnlockSets
    <3>2. QED
      BY <1>2, <3>1 DEF Play
  <2>4. \A q \in Plays : plays'[q] = IF q = p THEN r ELSE plays[q]
    BY <1>2, <2>1
  <2> HIDE DEF r
  <2>5. PlaysInv'
    BY <1>2, <1>3, <2>1, <2>2, <2>3, <2>4 DEF PlaysInv
  <2>6. \A q \in Plays : /\ plays'[q].scenario = plays[q].scenario
                         /\ plays[q].unlocked <= plays'[q].unlocked
    BY <1>3, <2>2, <2>4
  <2>7. QED
    BY <1>1, <1>2, <2>1, <2>5, <2>6, PlaysGrowInv
<1>5. ASSUME NEW p \in Plays, Tell(p) PROVE DiscoveryInv'
  <2> DEFINE r == [scenario |-> plays[p].scenario, unlocked |-> plays[p].unlocked,
                   untold |-> plays[p].untold - 1]
  <2>1. plays' = [plays EXCEPT ![p] = r] /\ plays[p].untold > 0
    <3>1. plays' = [plays EXCEPT ![p].untold = @ - 1]
      BY <1>5 DEF Tell
    <3>2. \A q \in Plays : plays'[q] = IF q = p THEN r ELSE plays[q]
      BY <1>2, <3>1 DEF Play
    <3>3. plays' = [q \in Plays |-> plays'[q]]
      BY <1>2, <3>1
    <3>4. QED
      BY <1>2, <1>5, <3>2, <3>3 DEF Tell
  <2>2. /\ r.scenario = plays[p].scenario /\ r.unlocked = plays[p].unlocked
        /\ r.untold = plays[p].untold - 1
    BY <1>2 DEF Play
  <2>3. r \in Play
    BY <1>2, <1>3, <2>1, Bounds DEF Play, UnlockSets
  <2>4. \A q \in Plays : plays'[q] = IF q = p THEN r ELSE plays[q]
    BY <1>2, <2>1
  <2> HIDE DEF r
  <2>5. PlaysInv'
    BY <1>2, <1>3, <2>1, <2>2, <2>3, <2>4 DEF PlaysInv
  <2>6. \A q \in Plays : /\ plays'[q].scenario = plays[q].scenario
                         /\ plays[q].unlocked <= plays'[q].unlocked
    BY <1>3, <2>2, <2>4
  <2>7. feed' \in Feed /\ feed'.pc = feed.pc
    BY <1>2, <1>5 DEF Tell, Feed
  <2>8. QED
    BY <1>1, <2>5, <2>6, <2>7, PlaysGrowInv
<1>6. QED
  BY <1>4, <1>5 DEF UnlockStep

LEMMA RefreshStepInv == DiscoveryInv /\ AvatarRefreshStep => DiscoveryInv'
<1> SUFFICES ASSUME DiscoveryInv, AvatarRefreshStep PROVE DiscoveryInv'
  OBVIOUS
<1> USE DEF DiscoveryInv
<1>1. UNCHANGED <<plays, choice, listed, loads, feed>>
  BY DEF AvatarRefreshStep
<1>2. PlaysInv' /\ ChoiceInv' /\ LoadInv'
  BY <1>1 DEF PlaysInv, ChoiceInv, LoadInv, LoadOk, OfChoice
<1>3. \A d \in refreshes : d \in RefreshCall /\ RefreshOk(d)'
  BY <1>1 DEF RefreshInv, RefreshOk
<1>4. ASSUME NEW c \in refreshes, ReadUnlocked(c), UNCHANGED faults PROVE DiscoveryInv'
  <2>1. c \in RefreshCall /\ RefreshOk(c)
    BY DEF RefreshInv
  <2>2. c.play \in Plays
    BY <2>1, PlayNumbers DEF RefreshOk, RefreshCall
  <2>3. PICK v \in UnlockSets : v = plays[c.play].unlocked
    BY <2>2 DEF PlaysInv, Play
  <2> DEFINE k == [c EXCEPT !.pc = "answer", !.version = v]
  <2>4. refreshes' = (refreshes \ {c}) \cup {k} /\ UNCHANGED <<offer, excused>>
    BY <1>4, <2>3 DEF ReadUnlocked, Adds
  <2>5. k \in RefreshCall
    BY <2>1 DEF RefreshCall
  <2>6. RefreshOk(k)'
    BY <1>1, <2>1, <2>3, Bounds DEF RefreshOk, RefreshCall, UnlockSets
  <2> HIDE DEF k
  <2>7. RefreshInv'
    BY <1>3, <2>4, <2>5, <2>6 DEF RefreshInv
  <2>8. QED
    BY <1>1, <1>2, <1>4, <2>4, <2>7 DEF OfferInv, FeedInv
<1>5. ASSUME NEW c \in refreshes, AvatarsRefreshed(c), UNCHANGED faults PROVE DiscoveryInv'
  <2>1. refreshes' = refreshes \ {c} /\ c.pc = "answer"
    BY <1>5 DEF AvatarsRefreshed
  <2>2. RefreshInv'
    BY <1>3, <2>1 DEF RefreshInv
  <2>3. CASE Cancelled(c)
    BY <1>1, <1>2, <1>5, <2>2, <2>3 DEF AvatarsRefreshed, OfferInv, FeedInv
  <2>4. CASE ~Cancelled(c)
    <3>1. /\ offer' = [of |-> c.play, version |-> c.version, status |-> "ready"]
          /\ excused' = (excused \/ Overtaken(c))
      BY <1>5, <2>4 DEF AvatarsRefreshed, Shows
    <3>2. c \in RefreshCall /\ RefreshOk(c)
      BY DEF RefreshInv
    <3>3. offer' \in Offer
      BY <3>1, <3>2 DEF Offer, RefreshCall
    <3>4. OfferInv'
      BY <1>1, <2>1, <2>4, <3>1, <3>2, <3>3 DEF OfferInv, RefreshOk, Cancelled
    <3>5. excused' \in BOOLEAN
      BY <3>1, Zenon
    <3>6. QED
      BY <1>1, <1>2, <1>5, <2>2, <3>4, <3>5 DEF FeedInv
  <2>5. QED
    BY <2>3, <2>4
<1>6. ASSUME NEW c \in refreshes, AvatarRefreshFails(c) PROVE DiscoveryInv'
  <2>1. refreshes' = refreshes \ {c}
    BY <1>6 DEF AvatarRefreshFails
  <2>2. RefreshInv'
    BY <1>3, <2>1 DEF RefreshInv
  <2>3. faults' \in 0..MaxFaults
    BY <1>6, FaultBound DEF AvatarRefreshFails
  <2>4. CASE Cancelled(c)
    BY <1>1, <1>2, <1>6, <2>2, <2>3, <2>4 DEF AvatarRefreshFails, OfferInv, FeedInv
  <2>5. CASE ~Cancelled(c)
    <3>1. /\ offer' = [offer EXCEPT !.status = IF @ = "ready" THEN "ready" ELSE "error"]
          /\ excused' = TRUE
      BY <1>6, <2>5 DEF AvatarRefreshFails
    <3>2. offer \in Offer
      BY DEF OfferInv
    <3>3. offer' \in Offer /\ offer'.of = offer.of /\ offer'.version = offer.version
      BY <3>1, <3>2 DEF Offer
    <3>4. OfferInv'
      BY <1>1, <3>3 DEF OfferInv
    <3>5. QED
      BY <1>1, <1>2, <2>2, <2>3, <3>1, <3>4 DEF FeedInv
  <2>6. QED
    BY <2>4, <2>5
<1>7. QED
  BY <1>4, <1>5, <1>6 DEF AvatarRefreshStep

LEMMA LoadStepInv == DiscoveryInv /\ LoadStep => DiscoveryInv'
BY FindInv, StartInv, SessionKnownInv, ReadAvatarsInv, AvatarsKnownInv, LoadFailsInv
   DEF LoadStep

LEMMA StutterInv == DiscoveryInv /\ UNCHANGED discoveryVars => DiscoveryInv'
BY DEF discoveryVars, DiscoveryInv, PlaysInv, ChoiceInv, LoadInv, LoadOk, OfChoice, OfferInv,
       RefreshInv, RefreshOk, FeedInv

LEMMA NextKeepsInv == DiscoveryInv /\ [DiscoveryNext]_discoveryVars => DiscoveryInv'
BY ListedInv, SelectInv, RestartInv, LoadStepInv, FeedStepInv, UnlockStepInv, RefreshStepInv,
   StutterInv
   DEF DiscoveryNext, DiscoveryQuiet

(* The page's state, Core's sessions and the calls between them are of the  *)
(* declared kind, for any bounds.                                           *)
THEOREM DiscoveryTypeCorrect == DiscoverySpec => []DiscoveryTypeOK
<1>1. DiscoverySpec => []DiscoveryInv
  BY DiscoveryInitInv, NextKeepsInv, PTL DEF DiscoverySpec
<1>2. QED
  BY <1>1, InvGivesTypes, PTL

(* Whatever is chosen, and however late the answers to earlier choices come, *)
(* the session is of the scenario chosen last and the avatars shown are of   *)
(* this session.                                                             *)
THEOREM AvatarsAreOfSessionHolds == DiscoverySpec => []AvatarsAreOfSession
<1>1. DiscoverySpec => []DiscoveryInv
  BY DiscoveryInitInv, NextKeepsInv, PTL DEF DiscoverySpec
<1>2. QED
  BY <1>1, InvGivesSession, PTL

-----------------------------------------------------------------------------
(* Unlocks.  The refresh asked for when the stream opens, or an unlock is   *)
(* told, finds what is unlocked, unless another is told of later.           *)

LEMMA UnlockStays ==
  ASSUME UnlockInv, UNCHANGED <<choice, offer, feed, refreshes, excused>>,
         choice.play \in Plays => /\ plays'[choice.play].unlocked = plays[choice.play].unlocked
                                  /\ plays'[choice.play].untold = plays[choice.play].untold,
         feed.pc = "open" => choice.play \in Plays
  PROVE  UnlockInv'
BY DEF UnlockInv, Current, Finds, Cancelled

LEMMA FeedOfPlay == DiscoveryInv => (feed.pc # "closed" => choice.play \in Plays)
BY PlayNumbers DEF DiscoveryInv, FeedInv, ChoiceInv, Choice

LEMMA UnlockStepFinds ==
  ASSUME DiscoveryInv, UnlockInv, UnlockStep
  PROVE  UnlockInv'
<1>1. plays \in [Plays -> Play] /\ feed \in Feed
  BY DEF DiscoveryInv, PlaysInv, FeedInv
<1>2. \A q \in Plays : plays[q].untold \in Nat
  BY <1>1, Bounds DEF Play, UnlockSets
<1>3. UNCHANGED <<choice, listed, offer, loads, refreshes, faults, excused>>
  BY DEF UnlockStep
<1>4. ASSUME NEW p \in Plays, Unlock(p) PROVE UnlockInv'
  <2>1. plays'[choice'.play].untold = plays[p].untold + 1
    BY <1>1, <1>3, <1>4 DEF Unlock, Play
  <2>2. plays'[choice'.play].untold # 0
    BY <1>2, <2>1
  <2>3. QED
    BY <2>2 DEF UnlockInv
<1>5. ASSUME NEW p \in Plays, Tell(p) PROVE UnlockInv'
  <2>1. CASE p # choice.play
    <3>1. feed' = feed
      BY <1>5, <2>1 DEF Tell
    <3>2. choice.play \in Plays => plays'[choice.play] = plays[choice.play]
      BY <1>1, <1>5, <2>1 DEF Tell
    <3>3. QED
      BY <1>3, <3>1, <3>2, UnlockStays, FeedOfPlay
  <2>2. CASE p = choice.play /\ feed.pc \in {"subscribed", "open"}
    <3>1. feed.events \in Nat /\ feed'.events = feed.events + 1
      BY <1>1, <1>5, <2>2 DEF Tell, Feed
    <3>2. feed'.events # 0
      BY <3>1
    <3>3. QED
      BY <3>2 DEF UnlockInv
  <2>3. CASE p = choice.play /\ feed.pc \notin {"subscribed", "open"}
    <3>1. feed' = feed
      BY <1>5, <2>3 DEF Tell
    <3>2. QED
      BY <2>3, <3>1 DEF UnlockInv
  <2>4. QED
    BY <2>1, <2>2, <2>3
<1>6. QED
  BY <1>4, <1>5 DEF UnlockStep

LEMMA AskFinds ==
  ASSUME Ask, UNCHANGED choice
  PROVE  \E c \in refreshes' : Finds(c)'
<1> DEFINE c == [pc |-> "asked", number |-> choice.number, play |-> choice.play,
                 version |-> 0]
<1>1. PICK d : d = c
  OBVIOUS
<1>2. d \in refreshes'
  BY <1>1 DEF Ask, Adds
<1>3. Finds(d)'
  BY <1>1 DEF Finds, Cancelled
<1>4. QED
  BY <1>2, <1>3

LEMMA FeedStepFinds ==
  ASSUME DiscoveryInv, UnlockInv, FeedStep
  PROVE  UnlockInv'
<1>1. feed \in Feed /\ UNCHANGED <<plays, choice, offer, excused>>
  BY DEF DiscoveryInv, FeedInv, FeedStep
<1>2. CASE Subscribe \/ Break \/ Reconnect
  <2>1. feed'.pc # "open"
    BY <1>1, <1>2 DEF Subscribe, Break, Reconnect, Feed
  <2>2. QED
    BY <2>1 DEF UnlockInv
<1>3. CASE Open \/ ReceiveUnlock
  BY <1>1, <1>3, AskFinds DEF Open, ReceiveUnlock, UnlockInv
<1>4. QED
  BY <1>2, <1>3 DEF FeedStep

(* Avatars that are shown are those unlocked, if those shown before were    *)
(* and the answer is not overtaken.                                         *)
LEMMA ShownStaysCurrent ==
  ASSUME DiscoveryInv, Current, choice.play \in Plays, UNCHANGED <<plays, choice>>,
         NEW c, c.play = choice.play, c.version \in Nat,
         c.version <= plays[c.play].unlocked, Shows(c), ~Overtaken(c)
  PROVE  Current'
<1>1. plays[choice.play].unlocked \in Nat
  BY Bounds DEF DiscoveryInv, PlaysInv, Play, UnlockSets
<1>2. ~(c.version < plays[choice.play].unlocked)
  BY DEF Overtaken, Current
<1>3. c.version = plays[choice.play].unlocked
  BY <1>1, <1>2
<1>4. QED
  BY <1>3 DEF Shows, Current

LEMMA LoadStepFinds ==
  ASSUME DiscoveryInv, UnlockInv, LoadStep
  PROVE  UnlockInv'
<1>1. UNCHANGED <<listed, refreshes>>
  BY DEF LoadStep
<1>2. feed.pc # "closed" => choice.play \in Plays
  BY FeedOfPlay
<1>3. ASSUME NEW l \in loads, FindSession(l) \/ ReadAvatars(l) PROVE UnlockInv'
  BY <1>1, <1>2, <1>3, UnlockStays DEF FindSession, ReadAvatars
<1>4. ASSUME NEW l \in loads, StartSession(l) PROVE UnlockInv'
  <2>1. /\ plays \in [Plays -> Play]
        /\ UNCHANGED <<offer, choice, feed, excused>>
        /\ \E p \in Plays : plays' = [plays EXCEPT ![p].scenario = l.scenario]
    BY <1>4 DEF StartSession, DiscoveryInv, PlaysInv
  <2>2. \A q \in Plays : /\ plays'[q].unlocked = plays[q].unlocked
                         /\ plays'[q].untold = plays[q].untold
    BY <2>1 DEF Play
  <2>3. QED
    BY <1>1, <1>2, <2>1, <2>2, UnlockStays
<1>5. ASSUME NEW l \in loads, SessionKnown(l) PROVE UnlockInv'
  <2>1. CASE l.number = choice.number
    BY <1>5, <2>1 DEF SessionKnown, UnlockInv
  <2>2. CASE l.number # choice.number
    BY <1>1, <1>2, <1>5, <2>2, UnlockStays DEF SessionKnown
  <2>3. QED
    BY <2>1, <2>2
<1>6. ASSUME NEW l \in loads, AvatarsKnown(l) PROVE UnlockInv'
  <2>1. LoadOk(l) /\ l \in Load /\ l.pc = "answer" /\ UNCHANGED <<plays, choice, feed>>
    BY <1>6 DEF AvatarsKnown, DiscoveryInv, LoadInv
  <2>2. CASE l.number # choice.number
    BY <1>1, <1>2, <1>6, <2>2, UnlockStays DEF AvatarsKnown
  <2>3. CASE l.number = choice.number
    <3>1. Shows(l) /\ excused' = (excused \/ Overtaken(l))
      BY <1>6, <2>3 DEF AvatarsKnown
    <3>2. l.play = choice.play /\ l.version <= plays[l.play].unlocked
      BY <2>1, <2>3 DEF LoadOk, OfChoice
    <3>3. l.version \in Nat
      BY <2>1, Bounds DEF Load, UnlockSets
    <3>4. SUFFICES ASSUME feed.pc = "open", feed.events = 0,
                          plays[choice.play].untold = 0, ~excused'
                   PROVE  Current' \/ \E c \in refreshes' : Finds(c)'
      BY <2>1 DEF UnlockInv
    <3>5. ~excused /\ ~Overtaken(l)
      BY <3>1, <3>4, Zenon
    <3>6. CASE Current
      BY <1>2, <2>1, <3>1, <3>2, <3>3, <3>4, <3>5, <3>6, ShownStaysCurrent
    <3>7. CASE \E c \in refreshes : Finds(c)
      BY <1>1, <2>1, <3>7 DEF Finds, Cancelled
    <3>8. QED
      BY <3>4, <3>5, <3>6, <3>7 DEF UnlockInv
  <2>4. QED
    BY <2>2, <2>3
<1>7. ASSUME NEW l \in loads, LoadFails(l) PROVE UnlockInv'
  <2>1. CASE l.number = choice.number
    BY <1>7, <2>1 DEF LoadFails, UnlockInv
  <2>2. CASE l.number # choice.number
    BY <1>1, <1>2, <1>7, <2>2, UnlockStays DEF LoadFails
  <2>3. QED
    BY <2>1, <2>2
<1>8. QED
  BY <1>3, <1>4, <1>5, <1>6, <1>7 DEF LoadStep

(* A refresh that ends without being shown found nothing for this choice.   *)
LEMMA CancelledEnds ==
  ASSUME UnlockInv, NEW c \in refreshes, Cancelled(c), refreshes' = refreshes \ {c},
         UNCHANGED <<plays, choice, offer, feed, excused>>
  PROVE  UnlockInv'
<1>1. ASSUME NEW d \in refreshes, Finds(d) PROVE d \in refreshes' /\ Finds(d)'
  BY <1>1 DEF Finds, Cancelled
<1>2. QED
  BY <1>1 DEF UnlockInv, Current

LEMMA RefreshStepFinds ==
  ASSUME DiscoveryInv, UnlockInv, AvatarRefreshStep
  PROVE  UnlockInv'
<1>1. UNCHANGED <<plays, choice, listed, loads, feed>>
  BY DEF AvatarRefreshStep
<1>2. feed.pc # "closed" => choice.play \in Plays
  BY FeedOfPlay
<1>3. \A c \in refreshes : c \in RefreshCall /\ RefreshOk(c)
  BY DEF DiscoveryInv, RefreshInv
<1>4. ASSUME NEW c \in refreshes, ReadUnlocked(c) PROVE UnlockInv'
  <2>1. PICK k : k = [c EXCEPT !.pc = "answer", !.version = plays[c.play].unlocked]
    OBVIOUS
  <2>2. refreshes' = (refreshes \ {c}) \cup {k} /\ UNCHANGED <<offer, excused>>
    BY <1>4, <2>1 DEF ReadUnlocked, Adds
  <2>3. /\ k.number = c.number /\ k.version = plays[c.play].unlocked
    BY <1>3, <2>1 DEF RefreshCall
  <2>4. Finds(c) => Finds(k)'
    BY <1>1, <1>3, <2>3 DEF Finds, Cancelled, RefreshOk
  <2>5. ASSUME NEW d \in refreshes, Finds(d) PROVE \E e \in refreshes' : Finds(e)'
    <3>1. CASE d = c
      BY <2>2, <2>4, <2>5, <3>1
    <3>2. CASE d # c
      BY <1>1, <2>2, <2>5, <3>2 DEF Finds, Cancelled
    <3>3. QED
      BY <3>1, <3>2
  <2>6. QED
    BY <1>1, <2>2, <2>5 DEF UnlockInv, Current
<1>5. ASSUME NEW c \in refreshes, AvatarsRefreshed(c) PROVE UnlockInv'
  <2>1. refreshes' = refreshes \ {c} /\ c.pc = "answer"
    BY <1>5 DEF AvatarsRefreshed
  <2>2. CASE Cancelled(c)
    BY <1>1, <1>5, <2>1, <2>2, CancelledEnds DEF AvatarsRefreshed
  <2>3. CASE ~Cancelled(c)
    <3>1. Shows(c) /\ excused' = (excused \/ Overtaken(c))
      BY <1>5, <2>3 DEF AvatarsRefreshed
    <3>2. c.play = choice.play /\ c.version <= plays[c.play].unlocked
      BY <1>3, <2>1, <2>3 DEF RefreshOk, Cancelled
    <3>3. c.version \in Nat
      BY <1>3, Bounds DEF RefreshCall, UnlockSets
    <3>4. SUFFICES ASSUME feed.pc = "open", feed.events = 0,
                          plays[choice.play].untold = 0, ~excused'
                   PROVE  Current' \/ \E d \in refreshes' : Finds(d)'
      BY <1>1 DEF UnlockInv
    <3>5. ~excused /\ ~Overtaken(c)
      BY <3>1, <3>4, Zenon
    <3>6. CASE Current
      BY <1>1, <1>2, <3>1, <3>2, <3>3, <3>4, <3>5, <3>6, ShownStaysCurrent
    <3>7. ASSUME NEW d \in refreshes, Finds(d)
          PROVE  Current' \/ \E e \in refreshes' : Finds(e)'
      <4>1. CASE d = c
        <5>1. c.version = plays[choice.play].unlocked
          BY <2>1, <3>7, <4>1 DEF Finds
        <5>2. QED
          BY <1>1, <3>1, <3>2, <5>1 DEF Shows, Current
      <4>2. CASE d # c
        BY <1>1, <2>1, <3>7, <4>2 DEF Finds, Cancelled
      <4>3. QED
        BY <4>1, <4>2
    <3>8. QED
      BY <3>4, <3>5, <3>6, <3>7 DEF UnlockInv
  <2>4. QED
    BY <2>2, <2>3
<1>6. ASSUME NEW c \in refreshes, AvatarRefreshFails(c) PROVE UnlockInv'
  <2>1. CASE Cancelled(c)
    BY <1>1, <1>6, <2>1, CancelledEnds DEF AvatarRefreshFails
  <2>2. CASE ~Cancelled(c)
    BY <1>6, <2>2 DEF AvatarRefreshFails, UnlockInv
  <2>3. QED
    BY <2>1, <2>2
<1>7. QED
  BY <1>4, <1>5, <1>6 DEF AvatarRefreshStep

LEMMA NextFinds ==
  ASSUME DiscoveryInv, UnlockInv, [DiscoveryNext]_discoveryVars
  PROVE  UnlockInv'
<1>1. CASE UNCHANGED discoveryVars
  BY <1>1 DEF discoveryVars, UnlockInv, Current, Finds, Cancelled
<1>2. CASE ScenariosListed
  <2>1. CASE UNCHANGED <<choice, offer, feed>>
    BY <1>2, <2>1 DEF ScenariosListed, UnlockInv, Current, Finds, Cancelled
  <2>2. CASE Decide(0, "idle")
    BY <2>2 DEF Decide, Closed, UnlockInv
  <2>3. QED
    BY <1>2, <2>1, <2>2 DEF ScenariosListed
<1>3. ASSUME NEW s \in Offered, SelectScenario(s) PROVE UnlockInv'
  BY <1>3 DEF SelectScenario, Decide, Closed, UnlockInv
<1>4. CASE RestartSession
  BY <1>4 DEF RestartSession, Decide, Closed, UnlockInv
<1>5. QED
  BY <1>1, <1>2, <1>3, <1>4, LoadStepFinds, FeedStepFinds, UnlockStepFinds, RefreshStepFinds
     DEF DiscoveryNext, DiscoveryQuiet

LEMMA FoundIsShown == DiscoveryInv /\ UnlockInv => UnlocksAreShown
BY DEF UnlockInv, UnlocksAreShown, Current, Finds

(* An unlock that was told while the stream was connecting, or broken, is    *)
(* shown all the same: unless a call for the avatars failed or was answered  *)
(* after a later one, the refresh when the stream opens finds it.            *)
THEOREM UnlocksAreShownHolds == DiscoverySpec => []UnlocksAreShown
<1>1. DiscoveryInit => UnlockInv
  BY DEF DiscoveryInit, Closed, UnlockInv
<1>2. DiscoverySpec => [](DiscoveryInv /\ UnlockInv)
  BY <1>1, DiscoveryInitInv, NextKeepsInv, NextFinds, PTL DEF DiscoverySpec
<1>3. QED
  BY <1>2, FoundIsShown, PTL

=============================================================================
