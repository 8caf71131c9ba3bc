----------------------------- MODULE StompClient -----------------------------
(***************************************************************************)
(* The client: the keyboard thread (StompClient::keyboardReader, with      *)
(* StompProtocol::processKeyboardInput) and the reader thread              *)
(* (serverReader, with process), over the one StompProtocol object and the *)
(* globals beside it.  Only the reader takes the mutex, so a step is one   *)
(* access of a thread to what both use.  kpc and spc say where the threads *)
(* stand, by the names of the code's variables and calls.                  *)
(*                                                                         *)
(* Undefined behaviour ends the process or goes unnoticed, as the build    *)
(* may: a null ConnectionHandler crashes; one that was deleted under its   *)
(* user crashes or fails like a closed socket; two unguarded accesses to a *)
(* map or a string at once crash or happen one after the other.            *)
(***************************************************************************)
EXTENDS ServerSession

CONSTANTS
  Commands,     \* what the user may type
  MaxCommands,  \* bound on the commands typed
  Careful       \* the user waits for every answer and joins no channel twice

Command == [op : {"login", "join", "exit", "logout", "report", "summary"},
            user : User \cup {None}, chan : Channel \cup {None},
            events : Nat, text : Text]

ASSUME ClientAssumption ==
  /\ Commands \subseteq Command
  /\ \A c \in Commands : c.op \in {"report", "summary"} => c.chan # None
  /\ \A c \in Commands : c.op = "login" => c.user # None
  /\ MaxCommands \in Nat /\ Careful \in BOOLEAN

VARIABLES
  connectionHandler,    \* 0, or the number of the login that created it
  logins, typed,        \* how many logins and commands there were
  receipt_Id, subscription_Id, logout_Id,
  channelName, channels_map, events_map, loggedUser,  \* the globals
  mtx,                  \* whether the mutex is locked
  kpc, cmd, left, out, kptr,  \* keyboard: command, events left, frame, this
  spc, frame, sptr,           \* reader: frame, this
  crashed

ids      == <<receipt_Id, subscription_Id, logout_Id>>
globals  == <<channelName, channels_map, events_map, loggedUser>>
keyboard == <<kpc, cmd, left, out, kptr, typed>>
reader   == <<spc, frame, sptr, mtx>>
vars     == <<session, connectionHandler, logins, ids, globals, keyboard,
              reader, crashed>>

Key      == (User \cup {None}) \X Channel
NoCmd    == [op |-> "login", user |-> None, chan |-> None, events |-> 0,
             text |-> "plain"]
Frame(command, user, chan, id, receipt, text) ==
  [cmd |-> command, user |-> user, chan |-> chan, id |-> id, receipt |-> receipt,
   text |-> text]
NoOut    == Frame("CONNECT", None, None, -1, -1, "plain")
NoFrame  == Reply("CONNECTED", -1)

KLabel == {"prompt", "new", "connect", "reset", "joinAt", "exitAt", "logoutId",
           "reportAt", "build", "find", "copy", "sendLine", "write", "loggedIn",
           "insert", "erase"}
SLabel == {"lock", "get", "getLine", "read", "process", "record", "logoutId",
           "compare", "noLogout", "reset", "clearChannels", "clearEvents",
           "clearUser", "unlock"}

TypeOK ==
  /\ SessionTypeOK
  /\ connectionHandler \in Nat /\ logins \in Nat /\ typed \in Nat
  /\ receipt_Id \in Nat /\ subscription_Id \in Nat /\ logout_Id \in Nat \cup {-1}
  /\ channelName \in Channel \cup {None}
  /\ channels_map \in [Channel -> Nat \cup {-1}]
  /\ events_map \in [Key -> Seq(Int)]
  /\ loggedUser \in User \cup {None}
  /\ mtx \in BOOLEAN /\ crashed \in BOOLEAN
  /\ kpc \in KLabel /\ cmd \in Command /\ left \in Nat /\ kptr \in Nat
  /\ out \in ClientFrame
  /\ spc \in SLabel /\ frame \in ServerFrame /\ sptr \in Nat

Init ==
  /\ SessionInit
  /\ connectionHandler = 0 /\ logins = 0 /\ typed = 0
  /\ receipt_Id = 0 /\ subscription_Id = 0 /\ logout_Id = -1
  /\ channelName = None /\ loggedUser = None
  /\ channels_map = [ch \in Channel |-> -1]
  /\ events_map = [k \in Key |-> <<>>]
  /\ mtx = FALSE /\ crashed = FALSE
  /\ kpc = "prompt" /\ cmd = NoCmd /\ left = 0 /\ out = NoOut /\ kptr = 0
  /\ spc = "lock" /\ frame = NoFrame /\ sptr = 0

-----------------------------------------------------------------------------
(* Undefined behaviour *)

Crash == /\ crashed' = TRUE
         /\ UNCHANGED <<session, connectionHandler, logins, ids, globals,
                        keyboard, reader>>

\* Both threads are about to touch a map or a string, one of them to change it.
Racing ==
  \/ /\ kpc \in {"joinAt", "exitAt", "reportAt", "insert", "erase"}
     /\ spc = "clearChannels"
  \/ kpc \in {"find", "copy"} /\ spc \in {"record", "clearEvents"}
  \/ kpc \in {"build", "loggedIn"} /\ spc = "clearUser"

\* sendLine or getLine of a ConnectionHandler that is not there any more.
NullHandler ==
  connectionHandler = 0 /\ (kpc = "sendLine" \/ spc = "getLine")
Dangling ==
  \/ kpc = "write" /\ kptr # connectionHandler
  \/ spc = "read" /\ sptr # connectionHandler

UndefinedBehaviour == ~crashed /\ (Racing \/ NullHandler \/ Dangling) /\ Crash

-----------------------------------------------------------------------------
(* The keyboard thread *)

\* What the user has seen the end of: nothing on its way, no frame in process.
Settled == /\ toServer = <<>> /\ toClient = <<>>
           /\ spc \in {"lock", "get", "getLine", "read"}

\* iss >> channelName leaves the variable alone when the line is at its end.
Named(c) == IF c.op \in {"join", "exit", "report"} /\ c.chan # None
            THEN c.chan ELSE channelName

First(op) == CASE op = "login" -> "new"        [] op = "join" -> "joinAt"
               [] op = "exit" -> "exitAt"      [] op = "logout" -> "logoutId"
               [] op = "report" -> "reportAt"  [] op = "summary" -> "find"

\* A command that is refused at once (no login, a login too many, no channel)
\* changes nothing.
ReadCommand(c) ==
  /\ kpc = "prompt" /\ typed < MaxCommands
  /\ c.op = "login" <=> connectionHandler = 0
  /\ c.op \in {"join", "exit"} => Named(c) # None
  /\ Careful => Settled /\ (c.op = "join" => channels_map[Named(c)] = -1)
  /\ typed' = typed + 1 /\ cmd' = c /\ left' = c.events
  /\ channelName' = Named(c) /\ kpc' = First(c.op)
  /\ UNCHANGED <<session, connectionHandler, logins, ids, channels_map,
                 events_map, loggedUser, out, kptr>>

\* Back to getline.
Done == /\ kpc' = "prompt"
        /\ cmd' = NoCmd /\ left' = 0 /\ out' = NoOut /\ kptr' = 0
        /\ typed' = typed

Goto(label) == kpc' = label /\ UNCHANGED <<cmd, left, kptr, typed>>
Send(f)     == out' = f /\ Goto("sendLine")

NewHandler ==
  /\ kpc = "new" /\ Goto("connect")
  /\ logins' = logins + 1 /\ connectionHandler' = logins + 1
  /\ UNCHANGED <<session, ids, globals, out>>

Connect ==
  /\ kpc = "connect"
  /\ \/ Open(cmd.user) /\ Send(Frame("CONNECT", cmd.user, None, -1, -1, "plain"))
     \/ MayRefuse /\ Goto("reset") /\ UNCHANGED <<session, out>>
  /\ UNCHANGED <<connectionHandler, logins, ids, globals>>

ResetHandler ==
  /\ kpc = "reset" /\ Done /\ connectionHandler' = 0
  /\ UNCHANGED <<session, logins, ids, globals>>

Receipted(command, id) ==
  Frame(command, None, channelName, id, receipt_Id, "plain")

\* Mutant: the counter is not advanced for a channel that was left before.
JoinAtSameId == LET id == IF channels_map[channelName] # -1
                          THEN channels_map[channelName] ELSE subscription_Id IN
  /\ kpc = "joinAt" /\ Send(Receipted("SUBSCRIBE", id))
  /\ receipt_Id' = receipt_Id + 1
  /\ UNCHANGED <<session, connectionHandler, logins, subscription_Id, logout_Id,
                 globals>>

JoinAt == LET known == channels_map[channelName] # -1
              id    == IF known THEN channels_map[channelName]
                                ELSE subscription_Id IN
  /\ kpc = "joinAt" /\ Send(Receipted("SUBSCRIBE", id))
  /\ subscription_Id' = IF known THEN subscription_Id ELSE subscription_Id + 1
  /\ receipt_Id' = receipt_Id + 1
  /\ UNCHANGED <<session, connectionHandler, logins, logout_Id, globals>>

ExitAt ==
  /\ kpc = "exitAt"
  /\ IF channels_map[channelName] = -1
     THEN Done /\ UNCHANGED receipt_Id
     ELSE /\ Send(Receipted("UNSUBSCRIBE", channels_map[channelName]))
          /\ receipt_Id' = receipt_Id + 1
  /\ UNCHANGED <<session, connectionHandler, logins, subscription_Id,
                 logout_Id, globals>>

\* Mutant: the id is taken after the frame has used it.
SetLogoutIdLate ==
  /\ kpc = "logoutId"
  /\ logout_Id' = receipt_Id + 1 /\ receipt_Id' = receipt_Id + 1
  /\ Send(Frame("DISCONNECT", None, None, -1, receipt_Id, "plain"))
  /\ UNCHANGED <<session, connectionHandler, logins, subscription_Id, globals>>

SetLogoutId ==
  /\ kpc = "logoutId"
  /\ logout_Id' = receipt_Id /\ receipt_Id' = receipt_Id + 1
  /\ Send(Frame("DISCONNECT", None, None, -1, receipt_Id, "plain"))
  /\ UNCHANGED <<session, connectionHandler, logins, subscription_Id, globals>>

ReportAt ==
  /\ kpc = "reportAt"
  /\ IF channels_map[channelName] = -1 \/ left = 0
     THEN Done ELSE Goto("build") /\ UNCHANGED out
  /\ UNCHANGED <<session, connectionHandler, logins, ids, globals>>

BuildEvent ==
  /\ kpc = "build"
  /\ Send(Frame("SEND", loggedUser, channelName, -1, -1, cmd.text))
  /\ UNCHANGED <<session, connectionHandler, logins, ids, globals>>

\* processSummaryCommand looks the vector up, then copies and prints it.
FindEvents ==
  /\ kpc = "find"
  /\ IF events_map[<<cmd.user, cmd.chan>>] = <<>>
     THEN Done ELSE Goto("copy") /\ UNCHANGED out
  /\ UNCHANGED <<session, connectionHandler, logins, ids, globals>>

CopyEvents ==
  /\ kpc = "copy" /\ Done
  /\ UNCHANGED <<session, connectionHandler, logins, ids, globals>>

SendLine ==
  /\ kpc = "sendLine" /\ connectionHandler # 0
  /\ kptr' = connectionHandler /\ kpc' = "write"
  /\ UNCHANGED <<cmd, left, out, typed, session, connectionHandler, logins,
                 ids, globals>>

\* Mutant: one event too many.
NextEventTooMany ==
  IF left >= 0 THEN /\ kpc' = "build" /\ left' = left - 1
                    /\ UNCHANGED <<cmd, out, kptr, typed>>
               ELSE Done

NextEvent ==
  IF left > 1 THEN /\ kpc' = "build" /\ left' = left - 1
                   /\ UNCHANGED <<cmd, out, kptr, typed>>
              ELSE Done

\* Where a frame leads when sendLine returns true, and when it returns false.
AfterSend ==
  CASE out.cmd = "CONNECT"     -> Goto("loggedIn") /\ out' = out
    [] out.cmd = "SUBSCRIBE"   -> Goto("insert") /\ out' = out
    [] out.cmd = "UNSUBSCRIBE" -> Goto("erase") /\ out' = out
    [] out.cmd = "SEND"        -> NextEvent
    [] out.cmd = "DISCONNECT"  -> Done
AfterFailure == IF out.cmd = "SEND" THEN NextEvent ELSE Done

\* The kernel may still take a frame for a socket the server has closed.
WriteFrame ==
  /\ kpc = "write"
  /\ \/ kptr = connectionHandler /\ Write(out) /\ AfterSend
     \/ /\ kptr # connectionHandler \/ link # "open"
        /\ AfterFailure /\ UNCHANGED session
  /\ UNCHANGED <<connectionHandler, logins, ids, globals>>

\* Mutant: the first user's name is kept.
LoggedInOnce ==
  /\ kpc = "loggedIn" /\ Done
  /\ loggedUser' = IF logins = 1 THEN cmd.user ELSE loggedUser
  /\ UNCHANGED <<session, connectionHandler, logins, ids, channelName,
                 channels_map, events_map>>

LoggedIn ==
  /\ kpc = "loggedIn" /\ loggedUser' = cmd.user /\ Done
  /\ UNCHANGED <<session, connectionHandler, logins, ids, channelName,
                 channels_map, events_map>>

\* unordered_map::insert keeps the value of a key that is there.
Insert ==
  /\ kpc = "insert" /\ Done
  /\ channels_map' = IF channels_map[channelName] = -1
                     THEN [channels_map EXCEPT ![channelName] = out.id]
                     ELSE channels_map
  /\ UNCHANGED <<session, connectionHandler, logins, ids, channelName,
                 events_map, loggedUser>>

\* Mutant: the channel is left and stays in the map.
EraseNot ==
  /\ kpc = "erase" /\ Done
  /\ UNCHANGED <<session, connectionHandler, logins, ids, globals>>

Erase ==
  /\ kpc = "erase" /\ Done
  /\ channels_map' = [channels_map EXCEPT ![channelName] = -1]
  /\ UNCHANGED <<session, connectionHandler, logins, ids, channelName,
                 events_map, loggedUser>>

\* keyboardReader after getline.
RunCommand ==
  /\ ~crashed /\ UNCHANGED <<reader, crashed>>
  /\ \/ NewHandler \/ Connect \/ ResetHandler \/ JoinAt \/ ExitAt
     \/ SetLogoutId \/ ReportAt \/ BuildEvent \/ FindEvents \/ CopyEvents
     \/ SendLine \/ WriteFrame \/ LoggedIn \/ Insert \/ Erase

TypeCommand ==
  ~crashed /\ UNCHANGED <<reader, crashed>> /\ \E c \in Commands : ReadCommand(c)

-----------------------------------------------------------------------------
(* The reader thread *)

Turn(from, to) == spc = from /\ spc' = to
Keep == UNCHANGED <<frame, sptr, mtx>>

Lock ==
  /\ Turn("lock", "get") /\ ~mtx /\ mtx' = TRUE
  /\ UNCHANGED <<frame, sptr, session, connectionHandler, ids, globals>>

GetHandler ==
  /\ Turn("get", IF connectionHandler = 0 THEN "unlock" ELSE "getLine")
  /\ Keep /\ UNCHANGED <<session, connectionHandler, ids, globals>>

GetLine ==
  /\ Turn("getLine", "read") /\ connectionHandler # 0
  /\ sptr' = connectionHandler
  /\ UNCHANGED <<frame, mtx, session, connectionHandler, ids, globals>>

\* getLine returns false: the socket is not connected, or at its end.
ReadFails ==
  /\ Turn("read", "unlock")
  /\ \/ sptr # connectionHandler \/ link = "none"
     \/ link = "closed" /\ toClient = <<>>
  /\ Keep /\ UNCHANGED <<session, connectionHandler, ids, globals>>

ReadFrame ==
  /\ Turn("read", "process")
  /\ sptr = connectionHandler /\ toClient # <<>>
  /\ frame' = Head(toClient) /\ toClient' = Tail(toClient)
  /\ UNCHANGED <<sptr, mtx, name, link, toServer, subs, sent, connectionHandler, ids,
                 globals>>

\* process takes the first of these words it finds anywhere in the frame.
Word(f) == IF f.type = "MESSAGE" /\ f.text \in {"ERROR", "CONNECTED"}
           THEN f.text ELSE f.type

\* An exception of std::stoi leaves process and serverReader's try block, past
\* the unlock.
Dispatch ==
  /\ Turn("process",
          CASE Word(frame) = "ERROR"     -> "noLogout"
            [] Word(frame) = "CONNECTED" -> "unlock"
            [] Word(frame) = "MESSAGE"   ->
                 IF frame.text = "badDate" THEN "lock" ELSE "record"
            [] Word(frame) = "RECEIPT"   -> "logoutId")
  /\ Keep /\ UNCHANGED <<session, connectionHandler, ids, globals>>

\* Mutant: the vector is made anew for every report.
RecordLast == LET k == <<frame.user, frame.chan>> IN
  /\ Turn("record", "unlock")
  /\ events_map' = [events_map EXCEPT ![k] = <<frame.id>>]
  /\ Keep
  /\ UNCHANGED <<session, connectionHandler, ids, channelName, channels_map,
                 loggedUser>>

Record == LET k == <<frame.user, frame.chan>> IN
  /\ Turn("record", "unlock")
  /\ events_map' = [events_map EXCEPT ![k] = Append(@, frame.id)]
  /\ Keep
  /\ UNCHANGED <<session, connectionHandler, ids, channelName, channels_map,
                 loggedUser>>

\* Mutant: whether a logout is pending is not asked, nor whose receipt it is.
ReadLogoutIdNot ==
  /\ Turn("logoutId", "noLogout")
  /\ Keep /\ UNCHANGED <<session, connectionHandler, ids, globals>>

ReadLogoutId ==
  /\ Turn("logoutId", IF logout_Id = -1 THEN "unlock" ELSE "compare")
  /\ Keep /\ UNCHANGED <<session, connectionHandler, ids, globals>>

\* Mutant: any receipt will do once a logout is pending.
CompareNot ==
  /\ Turn("compare", "noLogout")
  /\ Keep /\ UNCHANGED <<session, connectionHandler, ids, globals>>

Compare ==
  /\ Turn("compare", IF logout_Id = frame.id THEN "noLogout" ELSE "unlock")
  /\ Keep /\ UNCHANGED <<session, connectionHandler, ids, globals>>

NoLogout ==
  /\ Turn("noLogout", "reset") /\ logout_Id' = -1
  /\ Keep
  /\ UNCHANGED <<session, connectionHandler, receipt_Id, subscription_Id, globals>>

DeleteHandler ==
  /\ Turn("reset", "clearChannels") /\ connectionHandler' = 0
  /\ IF connectionHandler = 0 THEN UNCHANGED session ELSE Close
  /\ Keep /\ UNCHANGED <<ids, globals>>

ClearChannels ==
  /\ Turn("clearChannels", "clearEvents")
  /\ channels_map' = [ch \in Channel |-> -1]
  /\ Keep
  /\ UNCHANGED <<session, connectionHandler, ids, channelName, events_map,
                 loggedUser>>

\* Mutant: the reports of the last session stay.
ClearEventsNot ==
  /\ Turn("clearEvents", "clearUser")
  /\ Keep /\ UNCHANGED <<session, connectionHandler, ids, globals>>

ClearEvents ==
  /\ Turn("clearEvents", "clearUser")
  /\ events_map' = [k \in Key |-> <<>>]
  /\ Keep
  /\ UNCHANGED <<session, connectionHandler, ids, channelName, channels_map,
                 loggedUser>>

ClearUser ==
  /\ Turn("clearUser", "unlock") /\ loggedUser' = None
  /\ Keep
  /\ UNCHANGED <<session, connectionHandler, ids, channelName, channels_map,
                 events_map>>

Unlock ==
  /\ Turn("unlock", "lock") /\ mtx' = FALSE
  /\ frame' = NoFrame /\ sptr' = 0
  /\ UNCHANGED <<session, connectionHandler, ids, globals>>

RunReader ==
  /\ ~crashed /\ UNCHANGED <<keyboard, logins, crashed>>
  /\ \/ Lock \/ GetHandler \/ GetLine \/ ReadFails \/ ReadFrame \/ Dispatch
     \/ Record \/ ReadLogoutId \/ Compare \/ NoLogout \/ DeleteHandler
     \/ ClearChannels \/ ClearEvents \/ ClearUser \/ Unlock

-----------------------------------------------------------------------------

Server == /\ ~crashed
          /\ Take \/ OtherPublishes \/ ServerDies
          /\ UNCHANGED <<connectionHandler, logins, ids, globals, keyboard,
                         reader, crashed>>

\* The process is gone, or the user types nothing more.
Quiet == /\ \/ crashed
            \/ kpc = "prompt" /\ typed = MaxCommands
         /\ UNCHANGED vars

Next == \/ TypeCommand \/ RunCommand \/ RunReader \/ Server
        \/ UndefinedBehaviour \/ Quiet

Spec == Init /\ [][Next]_vars

\* The scheduler runs both threads, and the server answers while it is up; the
\* user need not type.
ServerAnswers == Server /\ Len(toServer') < Len(toServer)
FairSpec == Spec /\ WF_vars(RunCommand) /\ WF_vars(RunReader)
                 /\ WF_vars(ServerAnswers)

-----------------------------------------------------------------------------
(* Properties *)

\* No interleaving of the two threads makes the process use a handler that was
\* deleted or a map the other thread is changing.
ClientSurvives == ~crashed /\ ~Racing /\ ~NullHandler /\ ~Dangling

\* The channels the client believes it has joined, with their ids.
StoredIds ==
  {<<channels_map[ch], ch>> : ch \in {x \in Channel : channels_map[x] # -1}}

\* When the user has seen the answers to everything typed, the channels the
\* client believes it has joined are those the server has it subscribed to,
\* with the same ids.
ChannelsAgree ==
  (kpc = "prompt" /\ Settled /\ link = "open") =>
    subs = StoredIds

\* Every report goes out with the name its session was opened with, which is not
\* read from the session but from the global the two threads share: a user who
\* logs in while the last session is torn down may report without a name, and
\* never with the one he had before.
OwnName(u) == u = name \/ (~Careful /\ u = None)
ReportsSigned ==
  \A i \in DOMAIN toServer : toServer[i].cmd = "SEND" => OwnName(toServer[i].user)

\* The subscription ids the client has used and the server may still compare:
\* stored, on their way, or in the server's table.
QueuedIds ==
  {<<toServer[i].id, toServer[i].chan>> :
     i \in {j \in DOMAIN toServer : toServer[j].cmd = "SUBSCRIBE"}}
IdsInUse == StoredIds \cup QueuedIds \cup subs

\* No two channels ever share a subscription id, over logouts, logins and the
\* entries a late teardown leaves behind.
SubscriptionIdsUnique == \A p, q \in IdsInUse : p[1] = q[1] => p[2] = q[2]

\* The client ends a session on a receipt only when the server has read the
\* DISCONNECT of the logout that is pending, and with it everything typed before.
GracefulLogout ==
  [][(spc = "compare" /\ spc' = "noLogout") =>
       \A i \in DOMAIN toServer :
          toServer[i].receipt = -1 \/ toServer[i].receipt > logout_Id]_vars

\* The numbers of the messages that have come and are stored, being stored, or
\* still in the socket.
Stored    == UNION {{events_map[k][i] : i \in DOMAIN events_map[k]} : k \in Key}
InProcess == IF spc \in {"process", "record"} /\ frame.type = "MESSAGE"
             THEN {frame.id} ELSE {}
InSocket  == {toClient[i].id : i \in {j \in DOMAIN toClient :
                                        toClient[j].type = "MESSAGE"}}

\* While a session is open, every message of this session is stored, in
\* process or in the socket, and none of an earlier one is left: a summary
\* neither misses a report nor shows what was seen before a logout.
NothingMissed ==
  (link = "open" /\ spc \notin {"noLogout", "reset", "clearChannels", "clearEvents"}) =>
    Stored \cup InProcess \cup InSocket = 1..sent

\* A logout that reached the socket ends the session, unless the server closes
\* it first.
LogoutCompletes ==
  (\E i \in DOMAIN toServer : toServer[i].cmd = "DISCONNECT")
    ~> (connectionHandler = 0 \/ link = "closed" \/ crashed)
=============================================================================
