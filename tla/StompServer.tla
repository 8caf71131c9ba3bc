----------------------------- MODULE StompServer -----------------------------
(***************************************************************************)
(* The STOMP server: one process for each connection runs                  *)
(* StompMessagingProtocolImpl.process on the frames of that connection, one*)
(* after the other, over the registry all of them share.                   *)
(*                                                                         *)
(* A process is the connection's own thread in the thread-per-client server*)
(* (BaseServer, BlockingConnectionHandler), which gives each connection an *)
(* id that leads to its own handler.  In the reactor it does not (module   *)
(* Reactor, PersonalId): what is said here is not said of the reactor.     *)
(* A process reads and writes shared state in the order of the code; a step*)
(* is one access to the registry, with the local computation around it.    *)
(***************************************************************************)
EXTENDS ConnectionsImpl

CONSTANTS
  NaN,       \* an "id" header Integer.parseInt throws on
  Sends,     \* the frames each client may send
  MaxFrames  \* bound on the frames each connection receives

(***************************************************************************)
(* A decoded frame.  name and pass are None when a header that the checks  *)
(* of handleConnect need is missing or wrong; dest is None when the header *)
(* is missing or empty.                                                    *)
(***************************************************************************)
Command == {"CONNECT", "SEND", "SUBSCRIBE", "UNSUBSCRIBE", "DISCONNECT",
            "OTHER"}
Frame == [cmd : Command, name : Name \cup {None}, pass : Pass \cup {None},
          dest : Channel \cup {None}, id : SubId \cup {None, NaN},
          receipt : BOOLEAN]
NoFrame == [cmd |-> "OTHER", name |-> None, pass |-> None, dest |-> None,
            id |-> None, receipt |-> FALSE]

ASSUME ParameterAssumption ==
  /\ NaN \notin SubId \cup {None}
  /\ Sends \in [Conn -> SUBSET Frame]
  /\ \A c \in Conn : \A f \in Sends[c] :
       f.cmd = "CONNECT" /\ f.name # None => f.pass # None
  /\ MaxFrames \in [Conn -> Nat]

VARIABLES
  pc,     \* where each connection's process stands
  frame,  \* the frame it is processing
  n,      \* how many frames it has received
  user,   \* login: the local variable user
  todo,   \* unsubscribe, logout: channels whose set c must still leave
  msg     \* the MESSAGE being built: receiver, subscription and id

local == <<frame, n, user, todo, msg>>
vars  == <<registry, pc, local>>

NoMsg == [to |-> None, sub |-> None, id |-> 0]

Outside == {"new", "idle", "dead"}
Inside  == {"isLegalInfo", "isUserLoggedIn", "login", "put", "reuse",
            "setUser", "connected", "checkUniqueId", "add", "putId",
            "checkIdExists", "removeId", "remove", "checkDestination",
            "iterate", "next", "getSubId", "deliver", "receipt", "error",
            "logout", "sweep", "clear", "logOff", "close", "throw"}

LocalTypeOK ==
  /\ pc \in [Conn -> Outside \cup Inside]
  /\ frame \in [Conn -> Frame]
  /\ n \in [Conn -> Nat]
  /\ user \in [Conn -> Object \cup {None}]
  /\ todo \in [Conn -> SUBSET Channel]
  /\ msg \in [Conn -> [to : Conn \cup {None}, sub : SubId \cup {None},
                       id : Nat]]

TypeOK == RegistryTypeOK /\ LocalTypeOK

Init ==
  /\ RegistryInit
  /\ pc = [c \in Conn |-> "new"]
  /\ frame = [c \in Conn |-> NoFrame]
  /\ n = [c \in Conn |-> 0]
  /\ user = [c \in Conn |-> None]
  /\ todo = [c \in Conn |-> {}]
  /\ msg = [c \in Conn |-> NoMsg]

-----------------------------------------------------------------------------
(* Control.  At(c, l): the process stands at l.  Goto: it goes on to l.    *)
(* Leave: process returns and its local variables are gone.                *)

At(c, l) == pc[c] = l

Goto(c, l) == pc' = [pc EXCEPT ![c] = l] /\ UNCHANGED local

Leave(c, l) ==
  /\ pc' = [pc EXCEPT ![c] = l]
  /\ frame' = [frame EXCEPT ![c] = NoFrame]
  /\ user' = [user EXCEPT ![c] = None]
  /\ todo' = [todo EXCEPT ![c] = {}]
  /\ msg' = [msg EXCEPT ![c] = NoMsg]
  /\ n' = n

\* A check passes, or the process goes to handleError.
Check(c, ok, l) ==
  /\ Goto(c, IF ok THEN l ELSE "error")
  /\ UNCHANGED registry

\* The handlers that use a connection's user throw when there is none: no
\* CONNECT came first, or (another connection) its handler is gone from the
\* map.  The handler of a process that runs is in the map.
HasUser(c) == c \in clients /\ userOf[c] # None

NoUser(c) ==
  /\ ~HasUser(c)
  /\ Goto(c, "throw")
  /\ UNCHANGED registry

-----------------------------------------------------------------------------
(* The life of a connection *)

\* BaseServer accepts it: start and addConnection with one value of the
\* counter, on the one thread that counts, then the connection's thread.
Accept(c) ==
  /\ At(c, "new") /\ Goto(c, "idle")
  /\ addConnection(c)

\* A frame has been decoded; process dispatches it to the step l.
Receive(c, f, l) ==
  /\ At(c, "idle") /\ n[c] < MaxFrames[c]
  /\ n' = [n EXCEPT ![c] = @ + 1]
  /\ frame' = [frame EXCEPT ![c] = f]
  /\ pc' = [pc EXCEPT ![c] = l]
  /\ UNCHANGED <<registry, user, todo, msg>>

Incoming(c, cmd) == {f \in Sends[c] : f.cmd = cmd}

\* No more bytes: the peer is gone.  Nobody tells the registry.
EndOfStream(c) ==
  /\ At(c, "idle") /\ Leave(c, "dead")
  /\ UNCHANGED registry

\* Mutant: the thread swallows the exception and reads on.
SwallowException(c) ==
  /\ At(c, "throw") /\ Leave(c, "idle")
  /\ DropIterator(c)

\* A RuntimeException leaves process and ends the connection's thread.
Unwind(c) ==
  /\ At(c, "throw") /\ Leave(c, "dead")
  /\ DropIterator(c)

\* The frame's receipt, if it asks for one.  DISCONNECT logs out after it.
handleReceipt(c) ==
  /\ At(c, "receipt")
  /\ IF frame[c].receipt THEN Send(c, [type |-> "RECEIPT", of |-> n[c]])
                         ELSE UNCHANGED registry
  /\ IF frame[c].cmd = "DISCONNECT" THEN Goto(c, "logout") ELSE Leave(c, "idle")

-----------------------------------------------------------------------------
(* CONNECT *)

handleConnect(c) == \E f \in Incoming(c, "CONNECT") :
  Receive(c, f, IF f.name = None THEN "error" ELSE "isLegalInfo")

CheckLegalInfo(c) ==
  /\ At(c, "isLegalInfo")
  /\ Check(c, isLegalInfo(frame[c].name, frame[c].pass), "isUserLoggedIn")

CheckLoggedIn(c) ==
  /\ At(c, "isUserLoggedIn")
  /\ Check(c, ~isUserLoggedIn(frame[c].name), "login")

Login(c) ==
  /\ At(c, "login")
  /\ Goto(c, IF users[frame[c].name] = None THEN "put" ELSE "reuse")
  /\ UNCHANGED registry

LoginAs(c, o) ==
  /\ pc' = [pc EXCEPT ![c] = "setUser"]
  /\ user' = [user EXCEPT ![c] = o]
  /\ UNCHANGED <<frame, n, todo, msg>>

PutUser(c) ==
  /\ At(c, "put") /\ LoginAs(c, <<c, frame[c].name>>)
  /\ PutNewUser(<<c, frame[c].name>>, frame[c].pass)

ReuseUser(c) ==
  /\ At(c, "reuse") /\ LoginAs(c, users[frame[c].name])
  /\ SetLoggedIn(users[frame[c].name], TRUE)

LinkUser(c) ==
  /\ At(c, "setUser") /\ Goto(c, "connected")
  /\ SetUser(c, user[c])

Connected(c) ==
  /\ At(c, "connected") /\ Goto(c, "receipt")
  /\ Send(c, [type |-> "CONNECTED", of |-> n[c]])

-----------------------------------------------------------------------------
(* SUBSCRIBE and UNSUBSCRIBE *)

handleSubscribe(c) == \E f \in Incoming(c, "SUBSCRIBE") :
  Receive(c, f, IF f.dest = None \/ f.id = NaN THEN "throw"
                ELSE IF f.id = None THEN "error" ELSE "checkUniqueId")

checkUniqueId(c) ==
  /\ At(c, "checkUniqueId")
  /\ \/ NoUser(c)
     \/ HasUser(c) /\ Check(c, idToChannel[userOf[c]][frame[c].id] = None, "add")

\* Another process is at the same HashSet: this update may be lost.
Mutating(t, ch) == \/ At(t, "add") /\ frame[t].dest = ch
                   \/ pc[t] \in {"remove", "sweep"} /\ ch \in todo[t]
Overlaps(c, ch) == \E t \in Conn \ {c} : Mutating(t, ch)

\* Mutant: the user's own map is not told.
AddWithoutId(c) ==
  /\ At(c, "add") /\ Goto(c, "receipt")
  /\ AddSubscriber(frame[c].dest, c, FALSE)

AddToChannel(c) ==
  /\ At(c, "add") /\ Goto(c, "putId")
  /\ \E loses \in {FALSE, Overlaps(c, frame[c].dest)} :
       AddSubscriber(frame[c].dest, c, loses)

PutId(c) ==
  /\ At(c, "putId") /\ Goto(c, "receipt")
  /\ MapId(userOf[c], frame[c].id, frame[c].dest)

handleUnsubscribe(c) == \E f \in Incoming(c, "UNSUBSCRIBE") :
  Receive(c, f, IF f.id = None THEN "error"
                ELSE IF f.id = NaN THEN "throw" ELSE "checkIdExists")

checkIdExists(c) ==
  /\ At(c, "checkIdExists")
  /\ \/ NoUser(c)
     \/ /\ HasUser(c)
        /\ Check(c, idToChannel[userOf[c]][frame[c].id] # None, "removeId")

\* Mutant: no exception for the null channel.
RemoveIdOfNull(c) ==
  /\ At(c, "removeId")
  /\ pc' = [pc EXCEPT ![c] = "remove"]
  /\ todo' = [todo EXCEPT ![c] = {idToChannel[userOf[c]][frame[c].id]}]
  /\ MapId(userOf[c], frame[c].id, None)
  /\ UNCHANGED <<frame, n, user, msg>>

\* Mutant: get instead of remove.
GetOnly(c) ==
  /\ At(c, "removeId")
  /\ LET ch == idToChannel[userOf[c]][frame[c].id] IN
       /\ pc' = [pc EXCEPT ![c] = IF ch = None THEN "throw" ELSE "remove"]
       /\ todo' = [todo EXCEPT ![c] = {ch} \ {None}]
  /\ UNCHANGED <<registry, frame, n, user, msg>>

\* The channel may be gone again, when two sessions share the User: then
\* subscribtions.get(null) throws.
RemoveId(c) ==
  /\ At(c, "removeId")
  /\ LET ch == idToChannel[userOf[c]][frame[c].id] IN
       /\ pc' = [pc EXCEPT ![c] = IF ch = None THEN "throw" ELSE "remove"]
       /\ todo' = [todo EXCEPT ![c] = {ch} \ {None}]
  /\ MapId(userOf[c], frame[c].id, None)
  /\ UNCHANGED <<frame, n, user, msg>>

\* UNSUBSCRIBE of one id, with another one for the same channel.
OtherIds(c, ch) ==
  At(c, "remove") /\ SubIdsOf(userOf[c], ch) \ {frame[c].id} # {}

\* One channel of todo: its set loses c.
LeaveChannel(c) == \E ch \in todo[c] :
  /\ todo' = [todo EXCEPT ![c] = @ \ {ch}]
  /\ \E loses \in {FALSE, Overlaps(c, ch)} :
       RemoveSubscriber(ch, c, loses, OtherIds(c, ch))
  /\ UNCHANGED <<frame, n, user, msg>>

RemoveFromChannel(c) ==
  /\ At(c, "remove") /\ LeaveChannel(c)
  /\ pc' = [pc EXCEPT ![c] = "receipt"]

-----------------------------------------------------------------------------
(* SEND *)

handleSend(c) == \E f \in Incoming(c, "SEND") :
  Receive(c, f, IF f.dest = None THEN "throw" ELSE "checkDestination")

checkDestination(c) ==
  /\ At(c, "checkDestination")
  /\ \/ isChannel(frame[c].dest) /\ NoUser(c)
     \/ /\ isChannel(frame[c].dest) => HasUser(c)
        /\ Check(c, isChannel(frame[c].dest) /\ isHandlerSubbed(frame[c].dest, c),
                 "iterate")

Iterate(c) ==
  /\ At(c, "iterate") /\ Goto(c, "next")
  /\ OpenIterator(c, frame[c].dest)

\* The set changed since the last next(): ConcurrentModificationException.
NextFails(c) ==
  /\ At(c, "next") /\ iter[c].rem # {} /\ ~iter[c].ok
  /\ Goto(c, "throw")
  /\ UNCHANGED registry

NextSubscriber(c) ==
  /\ At(c, "next")
  /\ \E d \in iter[c].rem :
       /\ Advance(c, d)
       /\ msg' = [msg EXCEPT ![c].to = d]
  /\ pc' = [pc EXCEPT ![c] = "getSubId"]
  /\ UNCHANGED <<frame, n, user, todo>>

EndOfLoop(c) ==
  /\ At(c, "next") /\ iter[c].rem = {} /\ Goto(c, "receipt")
  /\ DropIterator(c)

\* The receiver's id for the channel, then makeMessageFrame.
GetSubId(c) ==
  /\ At(c, "getSubId")
  /\ \/ /\ ~HasUser(msg[c].to)
        /\ Goto(c, "throw") /\ UNCHANGED registry
     \/ /\ HasUser(msg[c].to)
        /\ \E i \in SubIdByChannel(userOf[msg[c].to], frame[c].dest) :
             msg' = [msg EXCEPT ![c].sub = i, ![c].id = msgCounter]
        /\ pc' = [pc EXCEPT ![c] = "deliver"]
        /\ getAndIncMessageCounter
        /\ UNCHANGED <<frame, n, user, todo>>

Deliver(c) ==
  /\ At(c, "deliver")
  /\ Send(msg[c].to, [type |-> "MESSAGE", from |-> c, of |-> n[c],
                      id |-> msg[c].id, sub |-> msg[c].sub])
  /\ msg' = [msg EXCEPT ![c] = NoMsg]
  /\ pc' = [pc EXCEPT ![c] = "next"]
  /\ UNCHANGED <<frame, n, user, todo>>

-----------------------------------------------------------------------------
(* DISCONNECT, frames of no known command, and handleError *)

handleDisconnect(c) == \E f \in Incoming(c, "DISCONNECT") :
  Receive(c, f, IF f.receipt THEN "receipt" ELSE "error")

handleOther(c) == \E f \in Incoming(c, "OTHER") : Receive(c, f, "error")

\* Mutant: the handler goes on after handleError.
ErrorThenReceipt(c) ==
  /\ At(c, "error") /\ Goto(c, "receipt")
  /\ Send(c, [type |-> "ERROR", of |-> n[c]])

SendError(c) ==
  /\ At(c, "error") /\ Goto(c, "logout")
  /\ Send(c, [type |-> "ERROR", of |-> n[c]])

\* logout is reached from handleError, but for a DISCONNECT with a receipt.
Failing(c) == ~(frame[c].cmd = "DISCONNECT" /\ frame[c].receipt)

AfterLogout(c) == IF Failing(c) THEN Goto(c, "close") ELSE Leave(c, "idle")

Logout(c) ==
  /\ At(c, "logout")
  /\ \/ userOf[c] = None /\ AfterLogout(c)
     \/ /\ userOf[c] # None
        /\ pc' = [pc EXCEPT ![c] = "sweep"]
        /\ todo' = [todo EXCEPT ![c] =
                      {ch \in Channel : isHandlerSubbed(ch, c)}]
        /\ UNCHANGED <<frame, n, user, msg>>
  /\ UNCHANGED registry

Sweep(c) ==
  /\ At(c, "sweep") /\ LeaveChannel(c) /\ pc' = pc

\* Mutant: no clear() at all.
NoClear(c) ==
  /\ At(c, "sweep") /\ todo[c] = {} /\ Goto(c, "logOff")
  /\ UNCHANGED registry

ClearAll(c) ==
  /\ At(c, "sweep") /\ todo[c] = {} /\ Goto(c, "logOff")
  /\ ClearChannels(userOf[c])

LogOff(c) ==
  /\ At(c, "logOff") /\ AfterLogout(c)
  /\ SetLoggedIn(userOf[c], FALSE)

\* The thread of the connection ends by shouldTerminate.
CloseConnection(c) ==
  /\ At(c, "close") /\ closeConnection(c) /\ Leave(c, "dead")

-----------------------------------------------------------------------------
\* What the thread of a connection does with a frame, up to its end.
Process(c) ==
  \/ CheckLegalInfo(c) \/ CheckLoggedIn(c) \/ Login(c) \/ PutUser(c)
  \/ ReuseUser(c) \/ LinkUser(c) \/ Connected(c)
  \/ checkUniqueId(c) \/ AddToChannel(c) \/ PutId(c)
  \/ checkIdExists(c) \/ RemoveId(c) \/ RemoveFromChannel(c)
  \/ checkDestination(c) \/ Iterate(c) \/ NextFails(c) \/ NextSubscriber(c)
  \/ EndOfLoop(c) \/ GetSubId(c) \/ Deliver(c)
  \/ SendError(c) \/ Logout(c) \/ Sweep(c) \/ ClearAll(c) \/ LogOff(c)
  \/ CloseConnection(c) \/ handleReceipt(c) \/ Unwind(c)

\* What the client decides: to connect, to send a frame, to go away.
Client(c) ==
  \/ Accept(c) \/ EndOfStream(c)
  \/ handleConnect(c) \/ handleSubscribe(c) \/ handleUnsubscribe(c)
  \/ handleSend(c) \/ handleDisconnect(c) \/ handleOther(c)

\* Every connection has ended: the server waits for another one.
Quiet == (\A c \in Conn : At(c, "dead")) /\ UNCHANGED vars

Next == Quiet \/ \E c \in Conn : Process(c) \/ Client(c)

Spec == Init /\ [][Next]_vars

\* A thread that has a frame to process is scheduled again and again.
FairSpec == Spec /\ \A c \in Conn : WF_vars(Process(c))
=============================================================================
