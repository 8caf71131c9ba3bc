------------------------ MODULE StompServerProperties ------------------------
(***************************************************************************)
(* What the server promises its clients, stated over module StompServer.   *)
(* All hold (under the assumptions their runs make) but the last, which    *)
(* states what a comment of the code says and the code does not keep.      *)
(***************************************************************************)
EXTENDS StompServer

\* Positions of the MESSAGE frames, and of all other frames, handed to c.
Messages(c) == {k \in DOMAIN out[c] : out[c][k].type = "MESSAGE"}
Answers(c)  == DOMAIN out[c] \ Messages(c)

Answered(c, k) == \E j \in Answers(c) : out[c][j].of = k

\* No process is in the middle of a handler.
Idle(c) == pc[c] \in Outside

Subscribed(c, ch) == userOf[c] # None /\ SubIdsOf(userOf[c], ch) # {}

(***************************************************************************)
(* Clients that log in under names of their own: no two connections ever   *)
(* use the same login, and a connection uses one.  The registry is then    *)
(* never asked for one User by two processes.                              *)
(***************************************************************************)
Logins(c) == {f \in Sends[c] : f.cmd = "CONNECT" /\ f.name # None}

PersonalNames ==
  \A c, d \in Conn : \A f \in Logins(c), g \in Logins(d) :
    c = d <=> f.name = g.name

(***************************************************************************)
(* A subscription has two halves: the ids of the user, and the connection  *)
(* in the set of the channel.  Two things tear them apart: a lost update of*)
(* the HashSet, and an UNSUBSCRIBE of one of two ids of a channel.  The    *)
(* next four properties say that nothing else does, that neither harms     *)
(* another connection or channel, and that the next SUBSCRIBE mends it.    *)
(***************************************************************************)
Torn(c, ch) == <<c, ch>> \in torn

-----------------------------------------------------------------------------
\* The message-id of a MESSAGE is unique in the server, whoever receives it:
\* concurrent SENDs never draw the same number from msgCounter.
MessageIdsUnique ==
  \A c, d \in Conn : \A j \in Messages(c), k \in Messages(d) :
    out[c][j].id = out[d][k].id => c = d /\ j = k

\* A subscriber gets the messages of one sender in the order they were sent,
\* and none of them twice.
SenderOrder ==
  \A c \in Conn : \A j, k \in Messages(c) :
    j < k /\ out[c][j].from = out[c][k].from => out[c][j].of < out[c][k].of

\* When the loop over a channel ends and the set is the one it began with,
\* every connection in it that is still open has got this SEND's message.
FanoutComplete ==
  \A c \in Conn :
    At(c, "next") /\ iter[c].rem = {} /\ iter[c].ok =>
      \A d \in subscribtions[iter[c].chan] \cap clients :
        \E k \in Messages(d) : out[d][k].from = c /\ out[d][k].of = n[c]

\* The answers to a connection come in the order of its frames, a frame gets
\* one answer (CONNECT may get CONNECTED, then RECEIPT), and nothing but
\* messages of others comes after an ERROR.
AnswersInOrder ==
  \A c \in Conn : \A j, k \in Answers(c) : j < k =>
    /\ out[c][j].type # "ERROR"
    /\ \/ out[c][j].of < out[c][k].of
       \/ /\ out[c][j].of = out[c][k].of
          /\ out[c][j].type = "CONNECTED" /\ out[c][k].type = "RECEIPT"

\* No half that makes a SEND fail: a connection that is in the set of a channel
\* has an id for the channel, except between the two updates of its own
\* subscribe or unsubscribe, or when its last removal was lost.
NoGhostSubscription ==
  \A c \in Conn : \A ch \in Channel :
    c \in subscribtions[ch] =>
      \/ Subscribed(c, ch)
      \/ At(c, "putId") /\ frame[c].dest = ch
      \/ At(c, "remove") /\ ch \in todo[c]
      \/ Torn(c, ch)

\* No half that gets nothing: between frames a connection with an id for a
\* channel is among the channel's subscribers, unless its last SUBSCRIBE was
\* lost or it gave up another id of the channel since.
SubscriptionDelivers ==
  \A c \in Conn : \A ch \in Channel :
    At(c, "idle") /\ Subscribed(c, ch) => c \in subscribtions[ch] \/ Torn(c, ch)

\* When logout marks the user as gone nothing of its subscriptions is left:
\* no id, and the connection in no set but one whose last update was lost.
LogoutForgets ==
  \A c \in Conn : At(c, "logOff") =>
    \A ch \in Channel : /\ ~Subscribed(c, ch)
                        /\ c \in subscribtions[ch] => Torn(c, ch)

\* A receipt for SUBSCRIBE is the truth: when it is sent the id is mapped and
\* the connection is among the channel's subscribers, unless the add was lost.
ReceiptMeansSubscribed ==
  \A c \in Conn : At(c, "receipt") /\ frame[c].cmd = "SUBSCRIBE" =>
    /\ idToChannel[userOf[c]][frame[c].id] = frame[c].dest
    /\ c \in subscribtions[frame[c].dest] \/ Torn(c, frame[c].dest)

\* A frame that asks for a receipt gets one, or an
\* ERROR, or the connection ends; its thread never hangs inside a handler.
EveryFrameAnswered ==
  \A c \in Conn : \A k \in 1..MaxFrames[c] :
    n[c] = k /\ frame[c].receipt ~> Answered(c, k) \/ At(c, "dead")

-----------------------------------------------------------------------------
\* A user has one session at a time: two open connections never both hold
\* the answer CONNECTED for one name (checkLogin: "User already logged in").
InSession(c) ==
  /\ ~At(c, "dead") /\ out[c] # <<>> /\ out[c][Len(out[c])].type = "CONNECTED"

OneSessionPerUser ==
  \A c, d \in Conn : InSession(c) /\ InSession(d) /\ c # d =>
    userOf[c][2] # userOf[d][2]
=============================================================================
