---------------------------- MODULE ServerSession ----------------------------
(***************************************************************************)
(* One connection as its client sees it: the two directions of the socket, *)
(* and the server's end, which takes the frames one by one and answers each*)
(* with the frames StompServer would.  Other clients publish too, and with *)
(* MayDie the server may go away without a word.                           *)
(*                                                                         *)
(* A frame is read and written whole (ConnectionHandler shows that partial *)
(* reads and writes do not matter).  What other connections do to the      *)
(* registry while a frame is processed is in StompServer; all that is seen *)
(* of it here is the order of the frames that come out.                    *)
(***************************************************************************)
EXTENDS Integers, Sequences

CONSTANTS
  User, Channel, None,
  Texts,        \* what the reports of others may look like to this client
  MayRefuse,    \* whether a connection or a login may be refused
  MayDie,       \* whether the server may close the socket for no reason
  MaxMessages   \* others publish as long as a session has fewer MESSAGEs

\* A report as StompProtocol::process sees it: nothing special, a date that
\* std::stoi refuses, or a text with the name of another frame in it.
Text == {"plain", "badDate", "ERROR", "CONNECTED"}

ASSUME SessionAssumption ==
  /\ None \notin User \cup Channel
  /\ Texts \subseteq Text
  /\ MayRefuse \in BOOLEAN /\ MayDie \in BOOLEAN /\ MaxMessages \in Nat

VARIABLES
  name,      \* the user the connection was made for
  link,      \* the client's socket: not connected, open, closed by the server
  toServer,  \* frames the client has sent and the server has not read
  toClient,  \* frames the server has sent and the client has not read
  subs,      \* the server's idToChannel of the user: pairs of id and channel
  sent       \* MESSAGE frames sent in this session; numbers them

session == <<name, link, toServer, toClient, subs, sent>>

ClientFrame ==
  [cmd : {"CONNECT", "SUBSCRIBE", "UNSUBSCRIBE", "SEND", "DISCONNECT"},
   user : User \cup {None}, chan : Channel \cup {None}, id : Int, receipt : Int,
   text : Text]
ServerFrame ==
  [type : {"CONNECTED", "MESSAGE", "RECEIPT", "ERROR"}, id : Int,
   user : User \cup {None}, chan : Channel \cup {None}, text : Text]

SessionTypeOK ==
  /\ name \in User \cup {None}
  /\ link \in {"none", "open", "closed"}
  /\ toServer \in Seq(ClientFrame)
  /\ toClient \in Seq(ServerFrame)
  /\ subs \subseteq (Int \X Channel)
  /\ sent \in Nat

SessionInit ==
  /\ name = None /\ link = "none"
  /\ toServer = <<>> /\ toClient = <<>> /\ subs = {} /\ sent = 0

Reply(type, id) ==
  [type |-> type, id |-> id, user |-> None, chan |-> None, text |-> "plain"]

-----------------------------------------------------------------------------
(* The client's calls: connect, write, close *)

Fresh(state, u) ==
  /\ name' = u /\ link' = state
  /\ toServer' = <<>> /\ toClient' = <<>> /\ subs' = {} /\ sent' = 0
Open(u) == Fresh("open", u)
Close   == Fresh("none", None)
Write(f) ==
  /\ toServer' = IF link = "open" THEN Append(toServer, f) ELSE toServer
  /\ UNCHANGED <<name, link, toClient, subs, sent>>

-----------------------------------------------------------------------------
(* The server's end *)

Answer(f, newSubs) ==
  /\ toClient' = Append(toClient, f)
  /\ toServer' = Tail(toServer)
  /\ subs' = newSubs
  /\ UNCHANGED <<name, link, sent>>

\* handleError: an ERROR, the user is logged out and the socket closed.
Refuse ==
  /\ toClient' = Append(toClient, Reply("ERROR", -1))
  /\ link' = "closed" /\ toServer' = <<>> /\ subs' = {}
  /\ UNCHANGED <<name, sent>>

MessageFrom(u, ch, t) ==
  [type |-> "MESSAGE", id |-> sent + 1, user |-> u, chan |-> ch, text |-> t]

Takes(cmd) == link = "open" /\ toServer # <<>> /\ Head(toServer).cmd = cmd

TakeConnect ==
  /\ Takes("CONNECT")
  /\ Answer(Reply("CONNECTED", -1), subs) \/ (MayRefuse /\ Refuse)

TakeSubscribe == LET f == Head(toServer) IN
  /\ Takes("SUBSCRIBE")
  /\ IF \E ch \in Channel : <<f.id, ch>> \in subs
     THEN Refuse
     ELSE Answer(Reply("RECEIPT", f.receipt), subs \cup {<<f.id, f.chan>>})

TakeUnsubscribe == LET f == Head(toServer) IN
  /\ Takes("UNSUBSCRIBE")
  /\ IF \E ch \in Channel : <<f.id, ch>> \in subs
     THEN Answer(Reply("RECEIPT", f.receipt), {s \in subs : s[1] # f.id})
     ELSE Refuse

\* The client is a subscriber of what it may publish on.
TakeSend == LET f == Head(toServer) IN
  /\ Takes("SEND")
  /\ IF \E s \in subs : s[2] = f.chan
     THEN /\ toClient' = Append(toClient, MessageFrom(f.user, f.chan, f.text))
          /\ sent' = sent + 1 /\ toServer' = Tail(toServer)
          /\ UNCHANGED <<name, link, subs>>
     ELSE Refuse

TakeDisconnect == LET f == Head(toServer) IN
  Takes("DISCONNECT") /\ Answer(Reply("RECEIPT", f.receipt), {})

Take == \/ TakeConnect \/ TakeSubscribe \/ TakeUnsubscribe \/ TakeSend
        \/ TakeDisconnect

\* Another client publishes on a channel of this one.
OtherPublishes == \E s \in subs, u \in User, t \in Texts :
  /\ link = "open" /\ sent < MaxMessages
  /\ toClient' = Append(toClient, MessageFrom(u, s[2], t))
  /\ sent' = sent + 1
  /\ UNCHANGED <<name, link, toServer, subs>>

\* The server is gone; what it had sent may be lost with it.
ServerDies ==
  /\ MayDie /\ link = "open"
  /\ link' = "closed" /\ toServer' = <<>> /\ subs' = {}
  /\ toClient' \in {toClient, <<>>} /\ UNCHANGED <<name, sent>>
=============================================================================
