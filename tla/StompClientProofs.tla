-------------------------- MODULE StompClientProofs --------------------------
(***************************************************************************)
(* Theorems about StompClient, for any users, channels and commands, any   *)
(* number of them typed at any time, with every outcome of undefined       *)
(* behaviour that leaves the process running; then what a session of it    *)
(* keeps, and what a user who waits for the answers can count on.          *)
(***************************************************************************)
EXTENDS StompClient, TLAPS

\* A SUBSCRIBE, before and after it is sent, names a channel: that of the
\* command, which stays the same while the command runs.
CommandNamed ==
  kpc \in {"joinAt", "exitAt", "reportAt", "insert"} => channelName \in Channel
Subscribing == kpc \in {"sendLine", "write", "insert"} /\ out.cmd = "SUBSCRIBE"
OutNamed ==
  /\ kpc = "insert" => out.cmd = "SUBSCRIBE"
  /\ Subscribing => /\ channelName \in Channel /\ out.chan = channelName
                    /\ out.id \in Nat
QueueNamed ==
  \A i \in DOMAIN toServer : toServer[i].cmd = "SUBSCRIBE" => toServer[i].chan \in Channel
NamedInv == CommandNamed /\ OutNamed /\ QueueNamed
TypeInv  == TypeOK /\ NamedInv

-----------------------------------------------------------------------------
(* Frames *)

LEMMA FramesTyped ==
  /\ NoOut \in ClientFrame /\ NoFrame \in ServerFrame /\ NoCmd \in Command
  /\ \A f \in {"CONNECTED", "RECEIPT", "ERROR"}, i \in Int : Reply(f, i) \in ServerFrame
BY DEF NoOut, Frame, NoFrame, NoCmd, Reply, ClientFrame, ServerFrame, Command, Text

LEMMA MessageTyped ==
  ASSUME sent \in Nat, NEW u \in User \cup {None}, NEW ch \in Channel, NEW t \in Text
  PROVE  MessageFrom(u, ch, t) \in ServerFrame /\ MessageFrom(u, ch, t).type = "MESSAGE"
BY DEF MessageFrom, ServerFrame

-----------------------------------------------------------------------------
(* Types *)

THEOREM InitTypes == Init => TypeInv
<1> SUFFICES ASSUME Init PROVE TypeInv
  OBVIOUS
<1>1. SessionTypeOK
  BY DEF Init, SessionInit, SessionTypeOK
<1>2. /\ channels_map \in [Channel -> Nat \cup {-1}]
      /\ events_map \in [Key -> Seq(Int)]
  <2>1. <<>> \in Seq(Int) OBVIOUS
  <2> QED BY <2>1 DEF Init
<1>3. NoOut \in ClientFrame /\ NoFrame \in ServerFrame /\ NoCmd \in Command
  BY FramesTyped
<1>4. TypeOK
  BY <1>1, <1>2, <1>3 DEF Init, TypeOK, KLabel, SLabel
<1>5. NamedInv
  BY DEF Init, SessionInit, NamedInv, CommandNamed, OutNamed, QueueNamed, Subscribing
<1> QED BY <1>4, <1>5 DEF TypeInv

\* The server's end.
LEMMA ServerTypes == TypeInv /\ Server => TypeInv'
<1> SUFFICES ASSUME TypeInv, Server PROVE TypeInv'
  OBVIOUS
<1> USE DEF TypeInv
<1> DEFINE h == Head(toServer)
<1>u. UNCHANGED <<connectionHandler, logins, ids, globals, keyboard, reader, crashed>>
  BY DEF Server
<1>v. name' = name
  BY DEF Server, Take, TakeConnect, TakeSubscribe, TakeUnsubscribe, TakeSend, TakeDisconnect,
         Answer, Refuse, OtherPublishes, ServerDies
<1>w. name' \in User \cup {None}
  BY <1>v DEF TypeOK, SessionTypeOK
<1>s. ASSUME SessionTypeOK', QueueNamed'
      PROVE  TypeInv'
  BY <1>s, <1>u DEF TypeOK, NamedInv, CommandNamed, OutNamed, Subscribing, ids, globals,
                    keyboard, reader
<1>t. ASSUME toServer # <<>>
      PROVE  /\ h \in ClientFrame /\ Tail(toServer) \in Seq(ClientFrame)
             /\ h.cmd = "SUBSCRIBE" => h.chan \in Channel
             /\ \A i \in DOMAIN Tail(toServer) :
                   Tail(toServer)[i].cmd = "SUBSCRIBE" => Tail(toServer)[i].chan \in Channel
  BY <1>t DEF TypeOK, NamedInv, QueueNamed, SessionTypeOK
<1>r. ASSUME Refuse PROVE TypeInv'
  <2>1. toClient' \in Seq(ServerFrame)
    BY <1>r, FramesTyped DEF Refuse, TypeOK, SessionTypeOK
  <2> QED BY <1>r, <1>s, <1>w, <2>1 DEF Refuse, TypeOK, SessionTypeOK, QueueNamed
<1>a. ASSUME NEW f \in ServerFrame, NEW n \in SUBSET (Int \X Channel), toServer # <<>>,
             Answer(f, n)
      PROVE  TypeInv'
  <2>1. toClient' \in Seq(ServerFrame)
    BY <1>a DEF Answer, TypeOK, SessionTypeOK
  <2> QED BY <1>a, <1>s, <1>t, <1>w, <2>1 DEF Answer, TypeOK, SessionTypeOK, QueueNamed
<1>m. ASSUME NEW f \in ServerFrame, toClient' = Append(toClient, f), sent' = sent + 1,
             toServer' = toServer \/ (toServer # <<>> /\ toServer' = Tail(toServer)),
             UNCHANGED <<link, subs>>
      PROVE  TypeInv'
  <2>1. toClient' \in Seq(ServerFrame)
    BY <1>m DEF TypeOK, SessionTypeOK
  <2>2. link' \in {"none", "open", "closed"} /\ subs' \subseteq (Int \X Channel) /\ sent' \in Nat
    BY <1>m DEF TypeOK, SessionTypeOK
  <2>3. /\ toServer' \in Seq(ClientFrame)
        /\ QueueNamed'
    BY <1>m, <1>t DEF TypeOK, SessionTypeOK, NamedInv, QueueNamed
  <2> QED BY <1>s, <1>w, <2>1, <2>2, <2>3 DEF SessionTypeOK
<1>1. CASE TakeConnect
  <2>1. Reply("CONNECTED", -1) \in ServerFrame
    BY FramesTyped
  <2>2. toServer # <<>> /\ (Answer(Reply("CONNECTED", -1), subs) \/ Refuse)
    BY <1>1 DEF TakeConnect, Takes
  <2>3. subs \in SUBSET (Int \X Channel)
    BY DEF TypeOK, SessionTypeOK
  <2>4. CASE Refuse BY <2>4, <1>r
  <2>5. CASE Answer(Reply("CONNECTED", -1), subs)
    BY <2>1, <2>2, <2>3, <2>5, <1>a
  <2> QED BY <2>2, <2>4, <2>5
<1>2. CASE TakeSubscribe
  <2>1. CASE Refuse BY <2>1, <1>r
  <2>2. CASE Answer(Reply("RECEIPT", h.receipt), subs \cup {<<h.id, h.chan>>})
    <3>1. toServer # <<>> /\ h.cmd = "SUBSCRIBE"
      BY <1>2 DEF TakeSubscribe, Takes
    <3>2. h.receipt \in Int /\ h.id \in Int /\ h.chan \in Channel
      BY <3>1, <1>t DEF ClientFrame
    <3>3. Reply("RECEIPT", h.receipt) \in ServerFrame
      BY <3>2, FramesTyped
    <3>4. subs \cup {<<h.id, h.chan>>} \in SUBSET (Int \X Channel)
      BY <3>2 DEF TypeOK, SessionTypeOK
    <3> QED BY <2>2, <3>1, <3>3, <3>4, <1>a
  <2> QED BY <1>2, <2>1, <2>2 DEF TakeSubscribe
<1>3. CASE TakeUnsubscribe
  <2>1. CASE Refuse BY <2>1, <1>r
  <2>2. CASE Answer(Reply("RECEIPT", h.receipt), {s \in subs : s[1] # h.id})
    <3>1. toServer # <<>>
      BY <1>3 DEF TakeUnsubscribe, Takes
    <3>2. Reply("RECEIPT", h.receipt) \in ServerFrame
      BY <3>1, <1>t, FramesTyped DEF ClientFrame
    <3> QED BY <2>2, <3>1, <3>2, <1>a DEF TypeOK, SessionTypeOK
  <2> QED BY <1>3, <2>1, <2>2 DEF TakeUnsubscribe
<1>4. CASE TakeSend
  <2>1. CASE Refuse BY <2>1, <1>r
  <2>2. CASE ~Refuse
    <3>1. /\ \E s \in subs : s[2] = h.chan
          /\ toClient' = Append(toClient, MessageFrom(h.user, h.chan, h.text))
          /\ sent' = sent + 1 /\ toServer # <<>> /\ toServer' = Tail(toServer)
          /\ UNCHANGED <<link, subs>>
      BY <1>4, <2>2 DEF TakeSend, Takes
    <3>2. h.chan \in Channel /\ h.user \in User \cup {None} /\ h.text \in Text
      BY <3>1, <1>t DEF TypeOK, SessionTypeOK, ClientFrame
    <3>3. MessageFrom(h.user, h.chan, h.text) \in ServerFrame
      BY <3>2, MessageTyped DEF TypeOK, SessionTypeOK
    <3> QED BY <3>1, <3>3, <1>m
  <2> QED BY <2>1, <2>2
<1>5. CASE TakeDisconnect
  <2>1. Answer(Reply("RECEIPT", h.receipt), {}) /\ toServer # <<>>
    BY <1>5 DEF TakeDisconnect, Takes
  <2>2. Reply("RECEIPT", h.receipt) \in ServerFrame
    BY <2>1, <1>t, FramesTyped DEF ClientFrame
  <2> QED BY <2>1, <2>2, <1>a
<1>6. CASE OtherPublishes
  <2>1. PICK s \in subs, u \in User, t \in Texts :
           /\ toClient' = Append(toClient, MessageFrom(u, s[2], t))
           /\ sent' = sent + 1 /\ UNCHANGED <<link, toServer, subs>>
    BY <1>6 DEF OtherPublishes
  <2> DEFINE m == MessageFrom(u, s[2], t)
  <2>2. s[2] \in Channel /\ t \in Text /\ u \in User \cup {None} /\ sent \in Nat
    BY <2>1, SessionAssumption DEF TypeOK, SessionTypeOK
  <2>3. m \in ServerFrame
    BY <2>2, MessageTyped
  <2>4. /\ toClient' = Append(toClient, m) /\ sent' = sent + 1
        /\ toServer' = toServer /\ UNCHANGED <<link, subs>>
    BY <2>1
  <2> HIDE DEF m
  <2> QED BY <2>3, <2>4, <1>m
<1>7. CASE ServerDies
  <2>1. toClient' \in Seq(ServerFrame)
    <3>1. toClient \in Seq(ServerFrame) BY DEF TypeOK, SessionTypeOK
    <3>2. <<>> \in Seq(ServerFrame) OBVIOUS
    <3>3. toClient' = toClient \/ toClient' = <<>> BY <1>7 DEF ServerDies
    <3> QED BY <3>1, <3>2, <3>3
  <2>3. <<>> \in Seq(ClientFrame) /\ {} \subseteq (Int \X Channel)
    OBVIOUS
  <2>4. sent \in Nat BY DEF TypeOK, SessionTypeOK
  <2>2. /\ link' = "closed" /\ toServer' = <<>> /\ subs' = {} /\ sent' = sent
    BY <1>7 DEF ServerDies
  <2> QED BY <1>s, <1>w, <2>1, <2>2, <2>3, <2>4 DEF SessionTypeOK, QueueNamed
<1> QED BY <1>1, <1>2, <1>3, <1>4, <1>5, <1>6, <1>7 DEF Server, Take

\* The client's calls.
LEMMA FreshTypes ==
  ASSUME NEW state \in {"none", "open"}, NEW u \in User \cup {None}, Fresh(state, u)
  PROVE  SessionTypeOK' /\ QueueNamed'
<1>1. <<>> \in Seq(ClientFrame) /\ <<>> \in Seq(ServerFrame) /\ {} \subseteq (Int \X Channel)
  OBVIOUS
<1> QED BY <1>1 DEF Fresh, SessionTypeOK, QueueNamed

LEMMA WriteTypes ==
  ASSUME TypeInv, kpc = "write", Write(out)
  PROVE  SessionTypeOK' /\ QueueNamed'
<1>1. out \in ClientFrame /\ toServer \in Seq(ClientFrame)
  BY DEF TypeInv, TypeOK, SessionTypeOK
<1>2. out.cmd = "SUBSCRIBE" => out.chan \in Channel
  BY DEF TypeInv, NamedInv, OutNamed, Subscribing
<1>3. toServer' \in Seq(ClientFrame) /\ QueueNamed'
  BY <1>1, <1>2 DEF Write, TypeInv, NamedInv, QueueNamed
<1> QED BY <1>3 DEF Write, TypeInv, TypeOK, SessionTypeOK

\* The keyboard's own variables.
KeyboardTyped ==
  /\ kpc \in KLabel /\ cmd \in Command /\ left \in Nat /\ kptr \in Nat
  /\ out \in ClientFrame /\ typed \in Nat

LEMMA DoneTypes ==
  ASSUME TypeOK, Done
  PROVE  KeyboardTyped' /\ kpc' = "prompt"
BY FramesTyped DEF Done, KeyboardTyped, TypeOK, KLabel

LEMMA SendTypes ==
  ASSUME TypeOK, NEW f \in ClientFrame, Send(f)
  PROVE  KeyboardTyped' /\ kpc' = "sendLine" /\ out' = f
BY DEF Send, Goto, KeyboardTyped, TypeOK, KLabel

LEMMA GotoTypes ==
  ASSUME TypeOK, NEW label \in KLabel, Goto(label), out' = out
  PROVE  KeyboardTyped' /\ kpc' = label
BY DEF Goto, KeyboardTyped, TypeOK

LEMMA NextEventTypes ==
  ASSUME TypeOK, NextEvent
  PROVE  KeyboardTyped' /\ kpc' \in {"prompt", "build"}
<1>1. CASE left > 1
  BY <1>1 DEF NextEvent, KeyboardTyped, TypeOK, KLabel
<1>2. CASE ~(left > 1)
  BY <1>2, DoneTypes DEF NextEvent
<1> QED BY <1>1, <1>2

\* The keyboard thread.  What its step leaves to show: its own variables, and
\* what it changes of the rest.
LEMMA RestTypes ==
  ASSUME TypeInv, UNCHANGED <<reader, crashed>>, KeyboardTyped',
         SessionTypeOK', QueueNamed', CommandNamed', OutNamed',
         connectionHandler' \in Nat, logins' \in Nat,
         receipt_Id' \in Nat, subscription_Id' \in Nat, logout_Id' \in Nat \cup {-1},
         channelName' \in Channel \cup {None},
         channels_map' \in [Channel -> Nat \cup {-1}],
         events_map' = events_map, loggedUser' \in User \cup {None}
  PROVE  TypeInv'
BY DEF TypeInv, TypeOK, NamedInv, KeyboardTyped, reader

LEMMA SessionKept == TypeInv /\ UNCHANGED session => SessionTypeOK' /\ QueueNamed'
BY DEF TypeInv, TypeOK, NamedInv, SessionTypeOK, QueueNamed, session

LEMMA TypeCommandTypes == TypeInv /\ TypeCommand => TypeInv'
<1> SUFFICES ASSUME TypeInv, TypeCommand PROVE TypeInv'
  OBVIOUS
<1>1. PICK c \in Commands : ReadCommand(c)
  BY DEF TypeCommand
<1>2. c \in Command /\ (c.op = "report" => c.chan # None)
  BY ClientAssumption
<1>3. /\ c.op \in {"login", "join", "exit", "logout", "report", "summary"}
      /\ c.chan \in Channel \cup {None} /\ c.events \in Nat
  BY <1>2 DEF Command
<1>4. /\ First(c.op) \in KLabel
      /\ First(c.op) \in {"joinAt", "exitAt", "reportAt", "insert"} =>
            c.op \in {"join", "exit", "report"}
      /\ First(c.op) \notin {"sendLine", "write", "insert"}
  BY <1>3 DEF First, KLabel
<1>5. /\ Named(c) \in Channel \cup {None}
      /\ c.op = "report" => Named(c) \in Channel
  BY <1>2, <1>3 DEF Named, TypeInv, TypeOK
<1>6. /\ KeyboardTyped' /\ kpc' = First(c.op) /\ channelName' = Named(c)
      /\ c.op \in {"join", "exit"} => Named(c) # None
  BY <1>1, <1>2, <1>3, <1>4 DEF ReadCommand, KeyboardTyped, TypeInv, TypeOK
<1>7. CommandNamed' /\ OutNamed'
  BY <1>3, <1>4, <1>5, <1>6 DEF CommandNamed, OutNamed, Subscribing
<1>8. UNCHANGED <<session, connectionHandler, logins, ids, channels_map, events_map,
                  loggedUser, reader, crashed>>
  BY <1>1 DEF ReadCommand, TypeCommand
<1>9. SessionTypeOK' /\ QueueNamed'
  BY <1>8, SessionKept
<1> QED BY <1>5, <1>6, <1>7, <1>8, <1>9, RestTypes DEF TypeInv, TypeOK, ids

LEMMA RunCommandTypes == TypeInv /\ RunCommand => TypeInv'
<1> SUFFICES ASSUME TypeInv, RunCommand PROVE TypeInv'
  OBVIOUS
<1>t. /\ TypeOK /\ UNCHANGED <<reader, crashed>>
      /\ cmd \in Command /\ out \in ClientFrame /\ receipt_Id \in Int
      /\ channelName \in Channel \cup {None} /\ loggedUser \in User \cup {None}
      /\ cmd.user \in User \cup {None} /\ cmd.text \in Text /\ "plain" \in Text
  BY DEF TypeInv, TypeOK, RunCommand, Command, Text
\* The globals and the counters stay as they are.
<1>s. ASSUME KeyboardTyped', SessionTypeOK', QueueNamed', CommandNamed', OutNamed',
             connectionHandler' \in Nat, logins' \in Nat, UNCHANGED <<ids, globals>>
      PROVE  TypeInv'
  BY <1>s, <1>t, RestTypes DEF TypeInv, TypeOK, ids, globals
\* Nor does a step that ends a command or goes on to a plain label disturb names.
<1>n. ASSUME kpc' \notin {"joinAt", "exitAt", "reportAt", "insert", "sendLine", "write"}
      PROVE  CommandNamed' /\ OutNamed'
  BY <1>n DEF CommandNamed, OutNamed, Subscribing
<1>f. ASSUME NEW f \in ClientFrame, Send(f), f.cmd # "SUBSCRIBE"
      PROVE  KeyboardTyped' /\ CommandNamed' /\ OutNamed'
  BY <1>f, <1>t, SendTypes DEF CommandNamed, OutNamed, Subscribing
<1>1. CASE NewHandler
  <2>1. KeyboardTyped' /\ kpc' = "connect"
    BY <1>1, <1>t, GotoTypes DEF NewHandler, KLabel
  <2>2. logins' \in Nat /\ connectionHandler' \in Nat
    BY <1>1, <1>t DEF NewHandler, TypeOK
  <2> QED BY <1>1, <2>1, <2>2, <1>n, <1>s, SessionKept DEF NewHandler
<1>2. CASE Connect
  <2>1. CASE Open(cmd.user) /\ Send(Frame("CONNECT", cmd.user, None, -1, -1, "plain"))
    <3> DEFINE f == Frame("CONNECT", cmd.user, None, -1, -1, "plain")
    <3>1. f \in ClientFrame /\ f.cmd = "CONNECT"
      BY <1>t DEF Frame, ClientFrame
    <3>2. SessionTypeOK' /\ QueueNamed'
      <4>1. cmd.user \in User \cup {None}
        BY <1>t DEF Command
      <4> QED BY <2>1, <4>1, FreshTypes DEF Open
    <3> HIDE DEF f
    <3>3. KeyboardTyped' /\ CommandNamed' /\ OutNamed'
      BY <2>1, <3>1, <1>f DEF f
    <3> QED BY <1>2, <1>t, <3>2, <3>3, <1>s DEF Connect, TypeOK
  <2>2. CASE Goto("reset") /\ UNCHANGED <<session, out>>
    <3>1. KeyboardTyped' /\ kpc' = "reset"
      BY <2>2, <1>t, GotoTypes DEF KLabel
    <3> QED BY <1>2, <1>t, <2>2, <3>1, <1>n, <1>s, SessionKept DEF Connect, TypeOK
  <2> QED BY <1>2, <2>1, <2>2 DEF Connect
<1>3. CASE ResetHandler
  <2>1. KeyboardTyped' /\ kpc' = "prompt"
    BY <1>3, <1>t, DoneTypes DEF ResetHandler
  <2> QED BY <1>3, <1>t, <2>1, <1>n, <1>s, SessionKept DEF ResetHandler, TypeOK
<1>4. CASE JoinAt
  <2> DEFINE id == IF channels_map[channelName] # -1 THEN channels_map[channelName]
                                                     ELSE subscription_Id
             f  == Receipted("SUBSCRIBE", id)
  <2>1. channelName \in Channel
    BY <1>4 DEF JoinAt, TypeInv, NamedInv, CommandNamed
  <2>2. id \in Nat
    BY <1>t, <2>1 DEF TypeOK
  <2> HIDE DEF id
  <2>3. f \in ClientFrame /\ f.chan = channelName /\ f.id = id
    BY <1>t, <2>2 DEF Receipted, Frame, ClientFrame
  <2> HIDE DEF f
  <2>4. Send(f) /\ UNCHANGED channelName
    BY <1>4 DEF JoinAt, f, id, globals
  <2>5. KeyboardTyped' /\ kpc' = "sendLine" /\ out' = f
    BY <1>t, <2>3, <2>4, SendTypes
  <2>6. CommandNamed' /\ OutNamed'
    BY <2>1, <2>2, <2>3, <2>4, <2>5 DEF CommandNamed, OutNamed, Subscribing
  <2>7. receipt_Id' \in Nat /\ subscription_Id' \in Nat
    BY <1>4, <1>t DEF JoinAt, TypeOK
  <2>8. UNCHANGED <<session, connectionHandler, logins, logout_Id, globals>>
    BY <1>4 DEF JoinAt
  <2>9. SessionTypeOK' /\ QueueNamed'
    BY <2>8, SessionKept
  <2> QED BY <1>t, <2>5, <2>6, <2>7, <2>8, <2>9, RestTypes DEF TypeOK, globals
<1>5. CASE ExitAt
  <2>1. CASE Done /\ UNCHANGED receipt_Id
    <3>1. KeyboardTyped' /\ kpc' = "prompt"
      BY <1>t, <2>1, DoneTypes
    <3>2. UNCHANGED <<session, connectionHandler, logins, ids, globals>>
      BY <1>5, <2>1 DEF ExitAt, ids
    <3> QED BY <1>t, <3>1, <3>2, <1>n, <1>s, SessionKept DEF TypeOK
  <2>2. CASE /\ Send(Receipted("UNSUBSCRIBE", channels_map[channelName]))
             /\ receipt_Id' = receipt_Id + 1
    <3> DEFINE f == Receipted("UNSUBSCRIBE", channels_map[channelName])
    <3>1. channelName \in Channel
      BY <1>5 DEF ExitAt, TypeInv, NamedInv, CommandNamed
    <3>2. channels_map[channelName] \in Int
      BY <1>t, <3>1 DEF TypeOK
    <3>3. f \in ClientFrame /\ f.cmd = "UNSUBSCRIBE"
      BY <1>t, <3>2 DEF Receipted, Frame, ClientFrame
    <3> HIDE DEF f
    <3>4. KeyboardTyped' /\ CommandNamed' /\ OutNamed'
      BY <2>2, <3>3, <1>f DEF f
    <3>5. UNCHANGED <<session, connectionHandler, logins, subscription_Id, logout_Id, globals>>
      BY <1>5 DEF ExitAt
    <3>6. SessionTypeOK' /\ QueueNamed' /\ receipt_Id' \in Nat
      BY <1>t, <2>2, <3>5, SessionKept DEF TypeOK
    <3> QED BY <1>t, <3>4, <3>5, <3>6, RestTypes DEF TypeOK, globals
  <2> QED BY <1>5, <2>1, <2>2 DEF ExitAt
<1>6. CASE SetLogoutId
  <2> DEFINE f == Frame("DISCONNECT", None, None, -1, receipt_Id, "plain")
  <2>1. f \in ClientFrame /\ f.cmd = "DISCONNECT"
    BY <1>t DEF Frame, ClientFrame
  <2> HIDE DEF f
  <2>2. KeyboardTyped' /\ CommandNamed' /\ OutNamed'
    BY <1>6, <2>1, <1>f DEF SetLogoutId, f
  <2>3. /\ UNCHANGED <<session, connectionHandler, logins, subscription_Id, globals>>
        /\ receipt_Id' \in Nat /\ logout_Id' \in Nat
    BY <1>6, <1>t DEF SetLogoutId, TypeOK
  <2>4. SessionTypeOK' /\ QueueNamed'
    BY <2>3, SessionKept
  <2> QED BY <1>t, <2>2, <2>3, <2>4, RestTypes DEF TypeOK, globals
<1>7. CASE ReportAt
  <2>1. KeyboardTyped' /\ kpc' \in {"prompt", "build"}
    BY <1>7, <1>t, DoneTypes, GotoTypes DEF ReportAt, KLabel
  <2> QED BY <1>7, <1>t, <2>1, <1>n, <1>s, SessionKept DEF ReportAt, TypeOK
<1>8. CASE BuildEvent
  <2> DEFINE f == Frame("SEND", loggedUser, channelName, -1, -1, cmd.text)
  <2>1. f \in ClientFrame /\ f.cmd = "SEND"
    BY <1>t DEF Frame, ClientFrame
  <2> HIDE DEF f
  <2>2. KeyboardTyped' /\ CommandNamed' /\ OutNamed'
    BY <1>8, <2>1, <1>f DEF BuildEvent, f
  <2> QED BY <1>8, <1>t, <2>2, <1>s, SessionKept DEF BuildEvent, TypeOK
<1>9. CASE FindEvents
  <2>1. KeyboardTyped' /\ kpc' \in {"prompt", "copy"}
    BY <1>9, <1>t, DoneTypes, GotoTypes DEF FindEvents, KLabel
  <2> QED BY <1>9, <1>t, <2>1, <1>n, <1>s, SessionKept DEF FindEvents, TypeOK
<1>10. CASE CopyEvents
  <2>1. KeyboardTyped' /\ kpc' = "prompt"
    BY <1>10, <1>t, DoneTypes DEF CopyEvents
  <2> QED BY <1>10, <1>t, <2>1, <1>n, <1>s, SessionKept DEF CopyEvents, TypeOK
<1>11. CASE SendLine
  <2>1. KeyboardTyped' /\ kpc = "sendLine" /\ kpc' = "write" /\ out' = out
    BY <1>11, <1>t DEF SendLine, KeyboardTyped, KLabel, TypeOK
  <2>2. UNCHANGED <<session, connectionHandler, logins, ids, globals>>
    BY <1>11 DEF SendLine
  <2>3. CommandNamed' /\ OutNamed'
    BY <2>1, <2>2 DEF CommandNamed, OutNamed, Subscribing, globals, TypeInv, NamedInv
  <2> QED BY <1>t, <2>1, <2>2, <2>3, <1>s, SessionKept DEF TypeOK
<1>12. CASE WriteFrame
  <2>k. kpc = "write"
    BY <1>12 DEF WriteFrame
  <2>1. CASE Write(out) /\ AfterSend
    <3>1. /\ out.cmd \in {"CONNECT", "SUBSCRIBE", "UNSUBSCRIBE", "SEND", "DISCONNECT"}
          /\ KeyboardTyped'
          /\ kpc' \in {"loggedIn", "insert", "erase", "prompt", "build"}
          /\ kpc' = "insert" => out.cmd = "SUBSCRIBE" /\ out' = out
      <4>1. CASE out.cmd = "CONNECT"
        BY <1>t, <2>1, <4>1, GotoTypes DEF AfterSend, KLabel
      <4>2. CASE out.cmd = "SUBSCRIBE"
        BY <1>t, <2>1, <4>2, GotoTypes DEF AfterSend, KLabel
      <4>3. CASE out.cmd = "UNSUBSCRIBE"
        BY <1>t, <2>1, <4>3, GotoTypes DEF AfterSend, KLabel
      <4>4. CASE out.cmd = "SEND"
        BY <1>t, <2>1, <4>4, NextEventTypes DEF AfterSend
      <4>5. CASE out.cmd = "DISCONNECT"
        BY <1>t, <2>1, <4>5, DoneTypes DEF AfterSend
      <4> QED BY <1>t, <4>1, <4>2, <4>3, <4>4, <4>5 DEF ClientFrame
    <3>2. UNCHANGED globals
      BY <1>12 DEF WriteFrame
    <3>3. CommandNamed' /\ OutNamed'
      BY <2>k, <3>1, <3>2 DEF CommandNamed, OutNamed, Subscribing, globals, TypeInv, NamedInv
    <3> QED BY <1>12, <1>t, <2>k, <2>1, <3>1, <3>3, <1>s, WriteTypes DEF WriteFrame, TypeOK
  <2>2. CASE AfterFailure /\ UNCHANGED session
    <3>1. KeyboardTyped' /\ kpc' \in {"prompt", "build"}
      BY <1>t, <2>2, NextEventTypes, DoneTypes DEF AfterFailure
    <3> QED BY <1>12, <1>t, <2>2, <3>1, <1>n, <1>s, SessionKept DEF WriteFrame, TypeOK
  <2> QED BY <1>12, <2>1, <2>2 DEF WriteFrame
<1>13. CASE LoggedIn
  <2>1. KeyboardTyped' /\ kpc' = "prompt"
    BY <1>13, <1>t, DoneTypes DEF LoggedIn
  <2>2. /\ UNCHANGED <<session, connectionHandler, logins, ids, channelName, channels_map,
                       events_map>>
        /\ loggedUser' \in User \cup {None}
    BY <1>13, <1>t DEF LoggedIn
  <2>3. SessionTypeOK' /\ QueueNamed' /\ CommandNamed' /\ OutNamed'
    BY <2>1, <2>2, <1>n, SessionKept
  <2> QED BY <1>t, <2>1, <2>2, <2>3, RestTypes DEF TypeOK, ids
<1>14. CASE Insert
  <2>1. KeyboardTyped' /\ kpc' = "prompt"
    BY <1>14, <1>t, DoneTypes DEF Insert
  <2>2. UNCHANGED <<session, connectionHandler, logins, ids, channelName, events_map,
                    loggedUser>>
    BY <1>14 DEF Insert
  <2>3. out.id \in Nat
    BY <1>14 DEF Insert, TypeInv, NamedInv, OutNamed, Subscribing
  <2>4. SessionTypeOK' /\ QueueNamed' /\ CommandNamed' /\ OutNamed'
    BY <2>1, <2>2, <1>n, SessionKept
  <2>5. channels_map' \in [Channel -> Nat \cup {-1}]
    BY <1>14, <1>t, <2>3 DEF Insert, TypeOK
  <2> QED BY <1>t, <2>1, <2>2, <2>4, <2>5, RestTypes DEF TypeOK, ids
<1>15. CASE Erase
  <2>1. KeyboardTyped' /\ kpc' = "prompt"
    BY <1>15, <1>t, DoneTypes DEF Erase
  <2>2. UNCHANGED <<session, connectionHandler, logins, ids, channelName, events_map,
                    loggedUser>>
    BY <1>15 DEF Erase
  <2>3. SessionTypeOK' /\ QueueNamed' /\ CommandNamed' /\ OutNamed'
    BY <2>1, <2>2, <1>n, SessionKept
  <2>4. channels_map' \in [Channel -> Nat \cup {-1}]
    BY <1>15, <1>t DEF Erase, TypeOK
  <2> QED BY <1>t, <2>1, <2>2, <2>3, <2>4, RestTypes DEF TypeOK, ids
<1> QED BY <1>1, <1>2, <1>3, <1>4, <1>5, <1>6, <1>7, <1>8, <1>9, <1>10, <1>11, <1>12, <1>13,
           <1>14, <1>15 DEF RunCommand

\* The reader thread, which calls nothing of the keyboard's.
LEMMA RunReaderTypes == TypeInv /\ RunReader => TypeInv'
<1> SUFFICES ASSUME TypeInv, RunReader PROVE TypeInv'
  OBVIOUS
<1>t. TypeOK /\ NamedInv /\ UNCHANGED <<keyboard, logins, crashed>>
  BY DEF TypeInv, RunReader
\* What a step of the reader leaves to show.
<1>s. ASSUME SessionTypeOK', QueueNamed', connectionHandler' \in Nat,
             UNCHANGED <<receipt_Id, subscription_Id, channelName>>,
             logout_Id' \in Nat \cup {-1}, channels_map' \in [Channel -> Nat \cup {-1}],
             events_map' \in [Key -> Seq(Int)], loggedUser' \in User \cup {None},
             spc' \in SLabel, frame' \in ServerFrame, sptr' \in Nat, mtx' \in BOOLEAN
      PROVE  TypeInv'
  <2>1. TypeOK'
    BY <1>s, <1>t DEF TypeOK, keyboard
  <2>2. NamedInv'
    BY <1>s, <1>t DEF NamedInv, CommandNamed, OutNamed, Subscribing, keyboard
  <2> QED BY <2>1, <2>2 DEF TypeInv
\* Most change only where the reader stands and what it holds.
<1>k. ASSUME UNCHANGED <<session, connectionHandler, ids, globals>>, spc' \in SLabel,
             frame' \in ServerFrame, sptr' \in Nat, mtx' \in BOOLEAN
      PROVE  TypeInv'
  BY <1>k, <1>s, <1>t, SessionKept DEF TypeInv, TypeOK, ids, globals
<1>m. Keep => frame' \in ServerFrame /\ sptr' \in Nat /\ mtx' \in BOOLEAN
  BY <1>t DEF Keep, TypeOK
<1>1. CASE Lock
  BY <1>1, <1>t, <1>k DEF Lock, Turn, SLabel, TypeOK
<1>2. CASE GetHandler
  BY <1>2, <1>k, <1>m DEF GetHandler, Turn, SLabel
<1>3. CASE GetLine
  BY <1>3, <1>t, <1>k DEF GetLine, Turn, SLabel, TypeOK
<1>4. CASE ReadFails
  BY <1>4, <1>k, <1>m DEF ReadFails, Turn, SLabel
<1>5. CASE ReadFrame
  <2>1. /\ frame' \in ServerFrame /\ toClient' \in Seq(ServerFrame)
    BY <1>5, <1>t DEF ReadFrame, TypeOK, SessionTypeOK
  <2>2. UNCHANGED <<sptr, mtx, name, link, toServer, subs, sent, connectionHandler, ids, globals>>
    BY <1>5 DEF ReadFrame
  <2>3. SessionTypeOK' /\ QueueNamed'
    BY <1>t, <2>1, <2>2 DEF TypeOK, SessionTypeOK, NamedInv, QueueNamed
  <2>4. spc' \in SLabel
    BY <1>5 DEF ReadFrame, Turn, SLabel
  <2> QED BY <1>t, <2>1, <2>2, <2>3, <2>4, <1>s DEF TypeOK, ids, globals
<1>6. CASE Dispatch
  <2>1. Word(frame) \in {"ERROR", "CONNECTED", "MESSAGE", "RECEIPT"}
    BY <1>t DEF Word, TypeOK, ServerFrame
  <2>2. spc' \in SLabel
    BY <1>6, <2>1 DEF Dispatch, Turn, SLabel
  <2> QED BY <1>6, <2>2, <1>k, <1>m DEF Dispatch
<1>7. CASE Record
  <2>1. frame.id \in Int
    BY <1>t DEF TypeOK, ServerFrame
  <2>2. events_map' \in [Key -> Seq(Int)]
    <3> DEFINE k == <<frame.user, frame.chan>>
    <3>1. events_map \in [Key -> Seq(Int)]
      BY <1>t DEF TypeOK
    <3>2. events_map' = [events_map EXCEPT ![k] = Append(events_map[k], frame.id)]
      BY <1>7 DEF Record
    <3>3. k \in Key => Append(events_map[k], frame.id) \in Seq(Int)
      BY <2>1, <3>1
    <3> HIDE DEF k
    <3> QED BY <3>1, <3>2, <3>3
  <2>3. UNCHANGED <<session, connectionHandler, ids, channelName, channels_map, loggedUser>>
    BY <1>7 DEF Record
  <2>4. spc' \in SLabel /\ Keep
    BY <1>7 DEF Record, Turn, SLabel
  <2> QED BY <1>t, <1>m, <2>2, <2>3, <2>4, <1>s, SessionKept DEF TypeOK, ids
<1>8. CASE ReadLogoutId
  BY <1>8, <1>k, <1>m DEF ReadLogoutId, Turn, SLabel
<1>9. CASE Compare
  BY <1>9, <1>k, <1>m DEF Compare, Turn, SLabel
<1>10. CASE NoLogout
  <2>1. spc' \in SLabel /\ Keep /\ logout_Id' \in Nat \cup {-1}
    BY <1>10 DEF NoLogout, Turn, SLabel
  <2>2. UNCHANGED <<session, connectionHandler, receipt_Id, subscription_Id, globals>>
    BY <1>10 DEF NoLogout
  <2> QED BY <1>t, <1>m, <2>1, <2>2, <1>s, SessionKept DEF TypeOK, globals
<1>11. CASE DeleteHandler
  <2>1. SessionTypeOK' /\ QueueNamed'
    BY <1>11, FreshTypes, SessionKept DEF DeleteHandler, Close
  <2>2. spc' \in SLabel /\ Keep /\ connectionHandler' = 0 /\ UNCHANGED <<ids, globals>>
    BY <1>11 DEF DeleteHandler, Turn, SLabel
  <2> QED BY <1>t, <1>m, <2>1, <2>2, <1>s DEF TypeOK, ids, globals
<1>12. CASE ClearChannels
  <2>1. /\ spc' \in SLabel /\ Keep /\ channels_map' \in [Channel -> Nat \cup {-1}]
        /\ UNCHANGED <<session, connectionHandler, ids, channelName, events_map, loggedUser>>
    BY <1>12 DEF ClearChannels, Turn, SLabel
  <2> QED BY <1>t, <1>m, <2>1, <1>s, SessionKept DEF TypeOK, ids
<1>13. CASE ClearEvents
  <2>1. <<>> \in Seq(Int)
    OBVIOUS
  <2>2. /\ spc' \in SLabel /\ Keep /\ events_map' \in [Key -> Seq(Int)]
        /\ UNCHANGED <<session, connectionHandler, ids, channelName, channels_map, loggedUser>>
    BY <1>13, <2>1 DEF ClearEvents, Turn, SLabel
  <2> QED BY <1>t, <1>m, <2>2, <1>s, SessionKept DEF TypeOK, ids
<1>14. CASE ClearUser
  <2>1. /\ spc' \in SLabel /\ Keep /\ loggedUser' = None
        /\ UNCHANGED <<session, connectionHandler, ids, channelName, channels_map, events_map>>
    BY <1>14 DEF ClearUser, Turn, SLabel
  <2> QED BY <1>t, <1>m, <2>1, <1>s, SessionKept DEF TypeOK, ids
<1>15. CASE Unlock
  BY <1>15, <1>k, FramesTyped DEF Unlock, Turn, SLabel
<1> QED BY <1>1, <1>2, <1>3, <1>4, <1>5, <1>6, <1>7, <1>8, <1>9, <1>10, <1>11, <1>12, <1>13,
           <1>14, <1>15 DEF RunReader

LEMMA NextTypes == TypeInv /\ [Next]_vars => TypeInv'
<1> SUFFICES ASSUME TypeInv, [Next]_vars PROVE TypeInv'
  OBVIOUS
<1>1. CASE UNCHANGED vars
  <2>1. UNCHANGED <<session, connectionHandler, logins, ids, globals, keyboard, reader, crashed>>
    BY <1>1 DEF vars
  <2> QED BY <2>1, RestTypes, SessionKept DEF TypeInv, TypeOK, NamedInv, CommandNamed, OutNamed,
       Subscribing, KeyboardTyped, ids, globals, keyboard
<1>2. CASE UndefinedBehaviour
  <2>1. UNCHANGED <<session, connectionHandler, logins, ids, globals, keyboard, reader>>
    BY <1>2 DEF UndefinedBehaviour, Crash
  <2>2. SessionTypeOK' /\ QueueNamed' /\ crashed' = TRUE
    BY <1>2, <2>1, SessionKept DEF UndefinedBehaviour, Crash
  <2>3. TypeOK'
    BY <2>1, <2>2 DEF TypeInv, TypeOK, ids, globals, keyboard, reader
  <2>4. NamedInv'
    BY <2>1, <2>2 DEF TypeInv, NamedInv, CommandNamed, OutNamed, Subscribing, globals, keyboard
  <2> QED BY <2>3, <2>4 DEF TypeInv
<1> QED BY <1>1, <1>2, TypeCommandTypes, RunCommandTypes, RunReaderTypes, ServerTypes
        DEF Next, Quiet

\* The state keeps its types, whatever is typed and however the threads
\* interleave: the tables of the client and the frames it sends are well formed
\* also when a session is torn down in the middle of a command.
THEOREM TypeCorrect == Spec => []TypeOK
<1>1. Spec => []TypeInv
  BY InitTypes, NextTypes, PTL DEF Spec
<1> QED BY <1>1, PTL DEF TypeInv

-----------------------------------------------------------------------------
(***************************************************************************)
(* Two promises of the client's counters, for any users, channels and      *)
(* commands and any interleaving of its threads: subscription ids are      *)
(* never shared by two channels, and a logout is taken for done only on a  *)
(* receipt that the server sent after everything asked before it.          *)
(***************************************************************************)
\* Every id in use, that of the SUBSCRIBE in the keyboard's hands included, was
\* given out by the counter, and for one channel.
PendingId == IF Subscribing THEN {<<out.id, out.chan>>} ELSE {}
IdPairs   == IdsInUse \cup PendingId
IdsInv ==
  /\ \A p \in IdPairs : p[1] < subscription_Id
  /\ \A p, q \in IdPairs : p[1] = q[1] => p[2] = q[2]

\* Receipts are asked for in the order of their ids, and answered in it: an
\* answer is below whatever the server has not read, and that is below the frame
\* in the keyboard's hands.
Asking == kpc \in {"sendLine", "write"} /\ out.receipt # -1
Answered ==
  {toClient[i].id : i \in {j \in DOMAIN toClient : toClient[j].type = "RECEIPT"}}
  \cup (IF frame.type = "RECEIPT" THEN {frame.id} ELSE {})
QueueOrdered ==
  /\ \A i \in DOMAIN toServer : toServer[i].receipt < receipt_Id
  /\ \A i, j \in DOMAIN toServer :
        i < j => toServer[j].receipt = -1 \/ toServer[i].receipt < toServer[j].receipt
AnswersBelow ==
  \A r \in Answered :
     /\ r < receipt_Id
     /\ \A j \in DOMAIN toServer : toServer[j].receipt = -1 \/ r < toServer[j].receipt
AskingAbove ==
  Asking => /\ out.receipt < receipt_Id
            /\ \A j \in DOMAIN toServer : toServer[j].receipt < out.receipt
            /\ \A r \in Answered : r < out.receipt
HoldsReceipt == spc \in {"logoutId", "compare"} => frame.type = "RECEIPT"
ReceiptsInv == QueueOrdered /\ AnswersBelow /\ AskingAbove /\ HoldsReceipt

-----------------------------------------------------------------------------
(* Subscription ids *)

LEMMA IdsShrink ==
  ASSUME IdsInv, IdPairs' \subseteq IdPairs, UNCHANGED subscription_Id
  PROVE  IdsInv'
BY DEF IdsInv

\* What becomes of the parts of IdPairs.
LEMMA StoredKept == UNCHANGED channels_map => StoredIds' = StoredIds
BY DEF StoredIds

LEMMA QueuedKept == UNCHANGED toServer => QueuedIds' = QueuedIds
BY DEF QueuedIds

LEMMA QueuedEmpty == toServer' = <<>> => QueuedIds' = {}
BY DEF QueuedIds

LEMMA QueuedTail ==
  ASSUME TypeOK, toServer # <<>>, toServer' = Tail(toServer)
  PROVE  /\ QueuedIds' \subseteq QueuedIds
         /\ Head(toServer).cmd = "SUBSCRIBE" =>
               <<Head(toServer).id, Head(toServer).chan>> \in QueuedIds
<1>1. toServer \in Seq(ClientFrame)
  BY DEF TypeOK, SessionTypeOK
<1>2. /\ Head(toServer) = toServer[1] /\ 1 \in DOMAIN toServer
      /\ \A i \in DOMAIN toServer' :
            toServer'[i] = toServer[i + 1] /\ i + 1 \in DOMAIN toServer
  BY <1>1
<1> QED BY <1>2 DEF QueuedIds

LEMMA QueuedAppend ==
  ASSUME TypeOK, toServer' = Append(toServer, out)
  PROVE  \A p \in QueuedIds' :
            p \in QueuedIds \/ (out.cmd = "SUBSCRIBE" /\ p = <<out.id, out.chan>>)
<1>1. toServer \in Seq(ClientFrame)
  BY DEF TypeOK, SessionTypeOK
<1>2. \A i \in DOMAIN toServer' : \/ i \in DOMAIN toServer /\ toServer'[i] = toServer[i]
                                 \/ toServer'[i] = out
  BY <1>1
<1> QED BY <1>2 DEF QueuedIds

LEMMA PendingKept ==
  ASSUME UNCHANGED <<kpc, out>>
  PROVE  PendingId' = PendingId
BY DEF PendingId, Subscribing

LEMMA PendingGone ==
  ASSUME kpc' \notin {"sendLine", "write", "insert"} \/ out'.cmd # "SUBSCRIBE"
  PROVE  PendingId' = {}
BY DEF PendingId, Subscribing

LEMMA FreshIds == ASSUME NEW state, NEW u, Fresh(state, u) PROVE QueuedIds' = {} /\ subs' = {}
BY QueuedEmpty DEF Fresh

LEMMA InitIds == Init => IdsInv
<1> SUFFICES ASSUME Init PROVE IdsInv
  OBVIOUS
<1>1. IdPairs = {}
  BY DEF Init, SessionInit, IdPairs, IdsInUse, StoredIds, QueuedIds, PendingId, Subscribing
<1> QED BY <1>1 DEF IdsInv

\* The server keeps in its table what it took from the socket.
LEMMA ServerIds == TypeInv /\ IdsInv /\ Server => IdsInv'
<1> SUFFICES ASSUME TypeInv, IdsInv, Server PROVE IdsInv'
  OBVIOUS
<1>t. TypeOK /\ UNCHANGED <<ids, globals, keyboard>>
  BY DEF TypeInv, Server
<1>u. /\ StoredIds' = StoredIds /\ PendingId' = PendingId
      /\ UNCHANGED subscription_Id
  BY <1>t, StoredKept, PendingKept DEF ids, globals, keyboard
<1>s. ASSUME QueuedIds' \cup subs' \subseteq QueuedIds \cup subs PROVE IdsInv'
  BY <1>s, <1>u, IdsShrink DEF IdPairs, IdsInUse
<1>r. ASSUME Refuse PROVE IdsInv'
  BY <1>r, <1>s, QueuedEmpty DEF Refuse
<1>a. ASSUME NEW f, NEW n, Answer(f, n), toServer # <<>>,
             \A p \in n : p \in QueuedIds \cup subs
      PROVE  IdsInv'
  <2>1. toServer' = Tail(toServer) /\ subs' = n
    BY <1>a DEF Answer
  <2> QED BY <1>a, <1>s, <1>t, <2>1, QueuedTail
<1>1. CASE TakeConnect
  BY <1>1, <1>r, <1>a DEF TakeConnect, Takes
<1>2. CASE TakeSubscribe
  <2> DEFINE h == Head(toServer)
  <2>1. toServer # <<>> /\ h.cmd = "SUBSCRIBE"
    BY <1>2 DEF TakeSubscribe, Takes
  <2>2. CASE Refuse BY <2>2, <1>r
  <2>3. CASE Answer(Reply("RECEIPT", h.receipt), subs \cup {<<h.id, h.chan>>})
    <3>1. toServer' = Tail(toServer) /\ subs' = subs \cup {<<h.id, h.chan>>}
      BY <2>3 DEF Answer
    <3>2. <<h.id, h.chan>> \in QueuedIds /\ QueuedIds' \subseteq QueuedIds
      BY <1>t, <2>1, <3>1, QueuedTail
    <3> QED BY <3>1, <3>2, <1>s
  <2> QED BY <1>2, <2>2, <2>3 DEF TakeSubscribe
<1>3. CASE TakeUnsubscribe
  BY <1>3, <1>r, <1>a DEF TakeUnsubscribe, Takes
<1>4. CASE TakeSend
  <2>1. CASE Refuse BY <2>1, <1>r
  <2>2. CASE ~Refuse
    <3>1. toServer # <<>> /\ toServer' = Tail(toServer) /\ UNCHANGED subs
      BY <1>4, <2>2 DEF TakeSend, Takes
    <3> QED BY <3>1, <1>s, <1>t, QueuedTail
  <2> QED BY <2>1, <2>2
<1>5. CASE TakeDisconnect
  BY <1>5, <1>a DEF TakeDisconnect, Takes
<1>6. CASE OtherPublishes
  BY <1>6, <1>s, QueuedKept DEF OtherPublishes
<1>7. CASE ServerDies
  BY <1>7, <1>s, QueuedEmpty DEF ServerDies
<1> QED BY <1>1, <1>2, <1>3, <1>4, <1>5, <1>6, <1>7 DEF Server, Take

\* The reader only forgets.
LEMMA RunReaderIds == IdsInv /\ RunReader => IdsInv'
<1> SUFFICES ASSUME IdsInv, RunReader PROVE IdsInv'
  OBVIOUS
<1>1. PendingId' = PendingId
  BY PendingKept DEF RunReader, keyboard
<1>2. StoredIds' \subseteq StoredIds /\ UNCHANGED subscription_Id
  <2>1. CASE ClearChannels
    BY <2>1 DEF ClearChannels, StoredIds, ids
  <2>2. CASE ~ClearChannels
    BY <2>2, StoredKept DEF RunReader, Lock, GetHandler, GetLine, ReadFails, ReadFrame, Dispatch,
       Record, ReadLogoutId, Compare, NoLogout, DeleteHandler, ClearEvents, ClearUser, Unlock,
       ids, globals
  <2> QED BY <2>1, <2>2
<1>3. QueuedIds' \cup subs' \subseteq QueuedIds \cup subs
  <2>1. CASE DeleteHandler
    BY <2>1, FreshIds, QueuedKept DEF DeleteHandler, Close, session
  <2>2. CASE ~DeleteHandler
    BY <2>2, QueuedKept DEF RunReader, Lock, GetHandler, GetLine, ReadFails, ReadFrame, Dispatch,
       Record, ReadLogoutId, Compare, NoLogout, ClearChannels, ClearEvents, ClearUser, Unlock,
       session
  <2> QED BY <2>1, <2>2
<1> QED BY <1>1, <1>2, <1>3, IdsShrink DEF IdPairs, IdsInUse

LEMMA KeyboardIds == TypeInv /\ IdsInv /\ (TypeCommand \/ RunCommand) => IdsInv'
<1> SUFFICES ASSUME TypeInv, IdsInv, TypeCommand \/ RunCommand PROVE IdsInv'
  OBVIOUS
<1>t. TypeOK /\ OutNamed
  BY DEF TypeInv, NamedInv
\* A step that leaves nothing pending and adds nothing.
<1>n. ASSUME kpc' \notin {"sendLine", "write", "insert"} \/ out'.cmd # "SUBSCRIBE",
             StoredIds' \subseteq StoredIds, QueuedIds' \cup subs' \subseteq QueuedIds \cup subs,
             UNCHANGED subscription_Id
      PROVE  IdsInv'
  BY <1>n, PendingGone, IdsShrink DEF IdPairs, IdsInUse
<1>k. ASSUME kpc' \notin {"sendLine", "write", "insert"} \/ out'.cmd # "SUBSCRIBE",
             UNCHANGED <<session, channels_map, subscription_Id>>
      PROVE  IdsInv'
  BY <1>k, <1>n, StoredKept, QueuedKept DEF session
<1>0. CASE TypeCommand
  <2>1. PICK c \in Commands : ReadCommand(c)
    BY <1>0 DEF TypeCommand
  <2>2. c.op \in {"login", "join", "exit", "logout", "report", "summary"}
    BY ClientAssumption DEF Command
  <2>3. kpc' \notin {"sendLine", "write", "insert"}
    BY <2>1, <2>2 DEF ReadCommand, First
  <2>4. UNCHANGED <<session, channels_map, subscription_Id>>
    BY <2>1 DEF ReadCommand, ids
  <2> QED BY <2>3, <2>4, <1>k
<1>1. CASE NewHandler
  BY <1>1, <1>k DEF NewHandler, Goto, ids, globals
<1>2. CASE Connect
  <2>1. CASE Open(cmd.user) /\ Send(Frame("CONNECT", cmd.user, None, -1, -1, "plain"))
    <3>1. QueuedIds' = {} /\ subs' = {}
      BY <2>1, FreshIds DEF Open
    <3>2. out'.cmd # "SUBSCRIBE"
      BY <2>1 DEF Send, Frame
    <3>3. UNCHANGED <<ids, globals>>
      BY <1>2 DEF Connect
    <3> QED BY <3>1, <3>2, <3>3, <1>n, StoredKept DEF ids, globals
  <2>2. CASE Goto("reset") /\ UNCHANGED <<session, out>>
    BY <1>2, <2>2, <1>k DEF Connect, Goto, ids, globals
  <2> QED BY <1>2, <2>1, <2>2 DEF Connect
<1>3. CASE ResetHandler
  BY <1>3, <1>k DEF ResetHandler, Done, ids, globals
<1>4. CASE JoinAt
  <2> DEFINE known == channels_map[channelName] # -1
             id    == IF known THEN channels_map[channelName] ELSE subscription_Id
  <2>1. channelName \in Channel /\ kpc = "joinAt"
    BY <1>4 DEF JoinAt, TypeInv, NamedInv, CommandNamed
  <2>2. out'.id = id /\ out'.chan = channelName
    BY <1>4 DEF JoinAt, Send, Receipted, Frame
  <2>3. /\ subscription_Id' = IF known THEN subscription_Id ELSE subscription_Id + 1
        /\ UNCHANGED <<session, globals>>
    BY <1>4 DEF JoinAt
  <2>4. /\ StoredIds' = StoredIds /\ QueuedIds' = QueuedIds /\ subs' = subs
        /\ PendingId' \subseteq {<<id, channelName>>}
    BY <2>2, <2>3, StoredKept, QueuedKept DEF session, globals, PendingId
  <2>5. \A p \in IdPairs' : p \in IdPairs \/ p = <<id, channelName>>
    BY <2>4 DEF IdPairs, IdsInUse
  <2>6. CASE known
    <3>1. <<id, channelName>> \in IdPairs
      BY <2>1, <2>6 DEF IdPairs, IdsInUse, StoredIds
    <3> QED BY <2>3, <2>5, <2>6, <3>1, IdsShrink
  <2>7. CASE ~known
    <3>1. id = subscription_Id /\ subscription_Id' = subscription_Id + 1
      BY <2>3, <2>7
    <3>2. \A p \in IdPairs : p[1] \in Int
      <4>1. \A p \in StoredIds : p[1] \in Int
        BY <1>t DEF StoredIds, TypeOK
      <4>2. \A p \in QueuedIds : p[1] \in Int
        <5>1. \A i \in DOMAIN toServer : toServer[i] \in ClientFrame
          BY <1>t DEF TypeOK, SessionTypeOK
        <5>2. \A f \in ClientFrame : f.id \in Int
          BY DEF ClientFrame
        <5>3. ASSUME NEW p \in QueuedIds PROVE p[1] \in Int
          <6>1. PICK i \in DOMAIN toServer : p = <<toServer[i].id, toServer[i].chan>>
            BY DEF QueuedIds
          <6> QED BY <5>1, <5>2, <6>1
        <5> QED BY <5>3
      <4>3. \A p \in subs : p[1] \in Int
        BY <1>t DEF TypeOK, SessionTypeOK
      <4> QED BY <2>1, <4>1, <4>2, <4>3 DEF IdPairs, IdsInUse, PendingId, Subscribing
    <3>3. \A p \in IdPairs : p[1] < subscription_Id
      BY DEF IdsInv
    <3>4. subscription_Id \in Int
      BY <1>t DEF TypeOK
    <3> HIDE DEF id
    <3>5. \A p \in IdPairs' : p[1] < subscription_Id'
      BY <2>5, <3>1, <3>2, <3>3, <3>4
    <3>6. ASSUME NEW p \in IdPairs', NEW q \in IdPairs', p[1] = q[1] PROVE p[2] = q[2]
      <4>1. CASE p \in IdPairs /\ q \in IdPairs
        BY <3>6, <4>1 DEF IdsInv
      <4>2. CASE p = <<id, channelName>> /\ q = <<id, channelName>>
        BY <4>2
      <4>3. \A r \in IdPairs : r[1] # id
        BY <3>1, <3>2, <3>3, <3>4
      <4> QED BY <2>5, <3>6, <4>1, <4>2, <4>3
    <3> QED BY <3>5, <3>6 DEF IdsInv
  <2> QED BY <2>6, <2>7
<1>5. CASE ExitAt
  <2>1. out'.cmd # "SUBSCRIBE" \/ kpc' = "prompt"
    BY <1>5 DEF ExitAt, Done, Send, Receipted, Frame
  <2> QED BY <1>5, <2>1, <1>k DEF ExitAt, globals
<1>6. CASE SetLogoutId
  BY <1>6, <1>k DEF SetLogoutId, Send, Frame, globals
<1>7. CASE ReportAt
  BY <1>7, <1>k DEF ReportAt, Done, Goto, ids, globals
<1>8. CASE BuildEvent
  BY <1>8, <1>k DEF BuildEvent, Send, Frame, ids, globals
<1>9. CASE FindEvents
  BY <1>9, <1>k DEF FindEvents, Done, Goto, ids, globals
<1>10. CASE CopyEvents
  BY <1>10, <1>k DEF CopyEvents, Done, ids, globals
<1>11. CASE SendLine
  <2>1. PendingId' = PendingId
    BY <1>11 DEF SendLine, PendingId, Subscribing
  <2>2. UNCHANGED <<session, ids, globals>>
    BY <1>11 DEF SendLine
  <2> QED BY <2>1, <2>2, StoredKept, QueuedKept, IdsShrink
          DEF session, ids, globals, IdPairs, IdsInUse
<1>12. CASE WriteFrame
  <2>k. kpc = "write" /\ UNCHANGED <<ids, globals>> /\ out \in ClientFrame
    BY <1>12, <1>t DEF WriteFrame, TypeOK
  <2>s. StoredIds' = StoredIds /\ UNCHANGED subscription_Id
    BY <2>k, StoredKept DEF ids, globals
  <2>1. CASE Write(out) /\ AfterSend
    <3>1. kpc' \in {"sendLine", "write", "insert"} => out.cmd = "SUBSCRIBE" /\ out' = out
      BY <2>k, <2>1 DEF AfterSend, Goto, NextEvent, Done, ClientFrame
    <3>2. PendingId' \subseteq PendingId
      BY <2>k, <3>1 DEF PendingId, Subscribing
    <3>3. \A p \in QueuedIds' \cup subs' : p \in QueuedIds \cup subs \cup PendingId
      BY <1>t, <2>k, <2>1, QueuedAppend, QueuedKept DEF Write, PendingId, Subscribing
    <3> QED BY <2>s, <3>2, <3>3, IdsShrink DEF IdPairs, IdsInUse
  <2>2. CASE AfterFailure /\ UNCHANGED session
    BY <2>k, <2>2, <1>k DEF AfterFailure, NextEvent, Done, ids, globals
  <2> QED BY <1>12, <2>1, <2>2 DEF WriteFrame
<1>13. CASE LoggedIn
  BY <1>13, <1>k DEF LoggedIn, Done, ids
<1>14. CASE Insert
  <2>1. kpc = "insert" /\ kpc' = "prompt" /\ UNCHANGED <<session, subscription_Id>>
    BY <1>14 DEF Insert, Done, ids
  <2>2. PendingId = {<<out.id, channelName>>} /\ channelName \in Channel
    BY <1>t, <2>1 DEF PendingId, OutNamed, Subscribing
  <2>3. PendingId' = {} /\ QueuedIds' = QueuedIds /\ subs' = subs
    BY <2>1, PendingGone, QueuedKept DEF session
  <2>4. StoredIds' \subseteq StoredIds \cup {<<out.id, channelName>>}
    <3> SUFFICES ASSUME NEW ch \in Channel, channels_map'[ch] # -1
                 PROVE  <<channels_map'[ch], ch>> \in StoredIds \cup {<<out.id, channelName>>}
      BY DEF StoredIds
    <3>1. channels_map'[ch] = channels_map[ch]
            \/ (ch = channelName /\ channels_map'[ch] = out.id)
      BY <1>14, <1>t DEF Insert, TypeOK
    <3> QED BY <3>1 DEF StoredIds
  <2> QED BY <2>1, <2>2, <2>3, <2>4, IdsShrink DEF IdPairs, IdsInUse
<1>15. CASE Erase
  <2>1. kpc' = "prompt" /\ UNCHANGED <<session, subscription_Id>>
    BY <1>15 DEF Erase, Done, ids
  <2>2. StoredIds' \subseteq StoredIds
    BY <1>15, <1>t DEF Erase, StoredIds, TypeOK
  <2> QED BY <2>1, <2>2, <1>n, QueuedKept DEF session
<1> QED BY <1>0, <1>1, <1>2, <1>3, <1>4, <1>5, <1>6, <1>7, <1>8, <1>9, <1>10, <1>11, <1>12,
           <1>13, <1>14, <1>15 DEF RunCommand

LEMMA NextIds == TypeInv /\ IdsInv /\ [Next]_vars => IdsInv'
<1> SUFFICES ASSUME TypeInv, IdsInv, [Next]_vars PROVE IdsInv'
  OBVIOUS
<1>1. CASE UNCHANGED vars \/ UndefinedBehaviour
  <2>1. UNCHANGED <<session, ids, globals, keyboard>>
    BY <1>1 DEF vars, UndefinedBehaviour, Crash
  <2> QED BY <2>1, StoredKept, QueuedKept, PendingKept, IdsShrink
          DEF session, ids, globals, keyboard, IdPairs, IdsInUse
<1> QED BY <1>1, KeyboardIds, RunReaderIds, ServerIds DEF Next, Quiet

\* No two channels ever share a subscription id, whatever logouts, failed
\* logins, closed sockets and late entries there were: the server, which looks a
\* channel up by the id, never leaves the wrong one.
THEOREM SubscriptionIdsNeverShared == Spec => []SubscriptionIdsUnique
<1>1. Spec => [](TypeInv /\ IdsInv)
  BY InitTypes, NextTypes, InitIds, NextIds, PTL DEF Spec
<1>2. IdsInv => SubscriptionIdsUnique
  BY DEF IdsInv, IdPairs, SubscriptionIdsUnique
<1> QED BY <1>1, <1>2, PTL

-----------------------------------------------------------------------------
(* Receipts *)

LEMMA InitReceipts == Init => ReceiptsInv
<1> SUFFICES ASSUME Init PROVE ReceiptsInv
  OBVIOUS
<1>1. Answered = {} /\ ~Asking
  BY DEF Init, SessionInit, Answered, Asking, NoFrame, Reply
<1> QED BY <1>1 DEF Init, SessionInit, ReceiptsInv, QueueOrdered, AnswersBelow, AskingAbove,
                    HoldsReceipt

LEMMA AnsweredAppend ==
  ASSUME TypeOK, NEW f, toClient' = Append(toClient, f), UNCHANGED frame
  PROVE  \A r \in Answered' : r \in Answered \/ (f.type = "RECEIPT" /\ r = f.id)
<1>1. toClient \in Seq(ServerFrame)
  BY DEF TypeOK, SessionTypeOK
<1>2. \A i \in DOMAIN toClient' : \/ i \in DOMAIN toClient /\ toClient'[i] = toClient[i]
                                 \/ toClient'[i] = f
  BY <1>1
<1> QED BY <1>2 DEF Answered

LEMMA AnsweredRead ==
  ASSUME TypeOK, toClient # <<>>, frame' = Head(toClient), toClient' = Tail(toClient)
  PROVE  Answered' \subseteq Answered
<1>1. toClient \in Seq(ServerFrame)
  BY DEF TypeOK, SessionTypeOK
<1>2. /\ frame' = toClient[1] /\ 1 \in DOMAIN toClient
      /\ \A i \in DOMAIN toClient' :
            toClient'[i] = toClient[i + 1] /\ i + 1 \in DOMAIN toClient
  BY <1>1
<1> QED BY <1>2 DEF Answered

LEMMA AnsweredKept ==
  ASSUME UNCHANGED toClient \/ toClient' = <<>>, UNCHANGED frame \/ frame'.type # "RECEIPT"
  PROVE  Answered' \subseteq Answered
BY DEF Answered

\* What the server or the socket does to the queue: the first frame goes, and
\* is answered with its own receipt, or all of them do.
LEMMA QueueShrinks ==
  ASSUME TypeInv, ReceiptsInv, UNCHANGED <<kpc, out, receipt_Id, frame, spc>>,
         \/ UNCHANGED toServer \/ toServer' = <<>>
         \/ toServer # <<>> /\ toServer' = Tail(toServer),
         \A r \in Answered' :
            \/ r \in Answered
            \/ /\ toServer # <<>> /\ toServer' = Tail(toServer)
               /\ r = Head(toServer).receipt
  PROVE  ReceiptsInv'
<1> DEFINE last == toServer # <<>> /\ toServer' = Tail(toServer)
<1>1. /\ toServer \in Seq(ClientFrame) /\ receipt_Id \in Int
      /\ \A i \in DOMAIN toServer : toServer[i].receipt \in Int
  <2>1. \A f \in ClientFrame : f.receipt \in Int
    BY DEF ClientFrame
  <2> QED BY <2>1 DEF TypeInv, TypeOK, SessionTypeOK
\* Each frame that is left was there, one place further back if the first went.
<1>2. PICK d \in {0, 1} :
        /\ \A i \in DOMAIN toServer' :
              i + d \in DOMAIN toServer /\ toServer'[i] = toServer[i + d]
        /\ last => d = 1
  <2>1. CASE last
    <3>1. \A i \in DOMAIN toServer' : i + 1 \in DOMAIN toServer /\ toServer'[i] = toServer[i + 1]
      BY <1>1, <2>1
    <3> QED BY <3>1
  <2>2. CASE ~last
    <3>1. \A i \in DOMAIN toServer' : /\ i + 0 \in DOMAIN toServer
                                     /\ toServer'[i] = toServer[i + 0]
      BY <1>1, <2>2
    <3> QED BY <2>2, <3>1
  <2> QED BY <2>1, <2>2
<1>3. last => Head(toServer) = toServer[1] /\ 1 \in DOMAIN toServer
  BY <1>1
<1>4. \A i \in DOMAIN toServer' : i \in Int /\ i >= 1
  BY <1>1
<1>o. /\ \A i \in DOMAIN toServer : toServer[i].receipt < receipt_Id
      /\ \A i, j \in DOMAIN toServer :
            i < j => toServer[j].receipt = -1 \/ toServer[i].receipt < toServer[j].receipt
      /\ Asking => \A j \in DOMAIN toServer : toServer[j].receipt < out.receipt
  BY DEF ReceiptsInv, QueueOrdered, AskingAbove
<1>b. \A r \in Answered :
         /\ r < receipt_Id
         /\ \A j \in DOMAIN toServer : toServer[j].receipt = -1 \/ r < toServer[j].receipt
         /\ Asking => r < out.receipt
  BY DEF ReceiptsInv, AnswersBelow, AskingAbove
<1>c. \A r \in Answered' : r \in Answered \/ (last /\ r = Head(toServer).receipt)
  OBVIOUS
<1>5. QueueOrdered'
  <2>1. \A i \in DOMAIN toServer' : toServer'[i].receipt < receipt_Id'
    BY <1>2, <1>o
  <2>2. ASSUME NEW i \in DOMAIN toServer', NEW j \in DOMAIN toServer', i < j
        PROVE  toServer'[j].receipt = -1 \/ toServer'[i].receipt < toServer'[j].receipt
    <3>1. i + d < j + d
      BY <1>4, <2>2
    <3>2. /\ i + d \in DOMAIN toServer /\ toServer'[i] = toServer[i + d]
          /\ j + d \in DOMAIN toServer /\ toServer'[j] = toServer[j + d]
      BY <1>2
    <3> QED BY <1>o, <3>1, <3>2
  <2> QED BY <2>1, <2>2 DEF QueueOrdered
<1>6. ASSUME NEW r \in Answered'
      PROVE  /\ r < receipt_Id
             /\ \A j \in DOMAIN toServer' : toServer'[j].receipt = -1 \/ r < toServer'[j].receipt
             /\ Asking => r < out.receipt
  <2>1. CASE r \in Answered
    <3>1. \A j \in DOMAIN toServer' : j + d \in DOMAIN toServer /\ toServer'[j] = toServer[j + d]
      BY <1>2
    <3>2. \A j \in DOMAIN toServer : toServer[j].receipt = -1 \/ r < toServer[j].receipt
      BY <1>b, <2>1
    <3>3. \A j \in DOMAIN toServer' : toServer'[j].receipt = -1 \/ r < toServer'[j].receipt
      BY <3>1, <3>2
    <3> QED BY <1>b, <2>1, <3>3
  <2>2. CASE last /\ r = Head(toServer).receipt
    <3>1. r = toServer[1].receipt /\ 1 \in DOMAIN toServer /\ d = 1
      BY <1>2, <1>3, <2>2
    <3>2. \A j \in DOMAIN toServer' : 1 < j + d
      BY <1>4, <3>1
    <3>3. \A j \in DOMAIN toServer' : j + d \in DOMAIN toServer /\ toServer'[j] = toServer[j + d]
      BY <1>2
    <3>4. \A j \in DOMAIN toServer' : toServer'[j].receipt = -1 \/ r < toServer'[j].receipt
      BY <1>o, <3>1, <3>2, <3>3
    <3> QED BY <1>o, <3>1, <3>4
  <2> QED BY <1>6, <1>c, <2>1, <2>2
<1>7. Asking' = Asking
  BY DEF Asking
<1>8. AnswersBelow'
  BY <1>6 DEF AnswersBelow
<1>9. AskingAbove'
  <2>1. Asking => \A j \in DOMAIN toServer' : toServer'[j].receipt < out.receipt
    BY <1>2, <1>o
  <2>2. Asking => out.receipt < receipt_Id
    BY DEF ReceiptsInv, AskingAbove
  <2> QED BY <1>6, <1>7, <2>1, <2>2 DEF AskingAbove
<1>10. HoldsReceipt'
  BY DEF HoldsReceipt, ReceiptsInv
<1> QED BY <1>5, <1>8, <1>9, <1>10 DEF ReceiptsInv

LEMMA ServerReceipts == TypeInv /\ ReceiptsInv /\ Server => ReceiptsInv'
<1> SUFFICES ASSUME TypeInv, ReceiptsInv, Server PROVE ReceiptsInv'
  OBVIOUS
<1>t. TypeOK /\ UNCHANGED <<kpc, out, receipt_Id, frame, spc>>
  BY DEF TypeInv, Server, keyboard, ids, reader
<1>s. ASSUME NEW f, toClient' = Append(toClient, f), f.type # "RECEIPT",
             \/ UNCHANGED toServer \/ toServer' = <<>>
             \/ toServer # <<>> /\ toServer' = Tail(toServer)
      PROVE  ReceiptsInv'
  BY <1>s, <1>t, AnsweredAppend, QueueShrinks
<1>a. ASSUME toServer # <<>>, NEW n, Answer(Reply("RECEIPT", Head(toServer).receipt), n)
      PROVE  ReceiptsInv'
  <2> DEFINE f == Reply("RECEIPT", Head(toServer).receipt)
  <2>1. /\ toClient' = Append(toClient, f) /\ toServer' = Tail(toServer)
        /\ f.id = Head(toServer).receipt
    BY <1>a DEF Answer, Reply
  <2> HIDE DEF f
  <2>2. \A r \in Answered' : r \in Answered \/ r = Head(toServer).receipt
    BY <1>t, <2>1, AnsweredAppend
  <2> QED BY <1>a, <1>t, <2>1, <2>2, QueueShrinks
<1>r. ASSUME Refuse PROVE ReceiptsInv'
  <2>1. Reply("ERROR", -1).type # "RECEIPT"
    BY DEF Reply
  <2> QED BY <1>r, <2>1, <1>s DEF Refuse
<1>1. CASE TakeConnect
  <2>1. Reply("CONNECTED", -1).type # "RECEIPT"
    BY DEF Reply
  <2> QED BY <1>1, <1>r, <2>1, <1>s DEF TakeConnect, Takes, Answer
<1>2. CASE TakeSubscribe
  BY <1>2, <1>r, <1>a DEF TakeSubscribe, Takes
<1>3. CASE TakeUnsubscribe
  BY <1>3, <1>r, <1>a DEF TakeUnsubscribe, Takes
<1>m. \A u, ch, t : MessageFrom(u, ch, t).type # "RECEIPT"
  BY DEF MessageFrom
<1>4. CASE TakeSend
  <2>1. CASE Refuse BY <2>1, <1>r
  <2>2. CASE ~Refuse
    BY <1>4, <2>2, <1>m, <1>s DEF TakeSend, Takes
  <2> QED BY <2>1, <2>2
<1>5. CASE TakeDisconnect
  BY <1>5, <1>a DEF TakeDisconnect, Takes
<1>6. CASE OtherPublishes
  BY <1>6, <1>m, <1>s DEF OtherPublishes
<1>7. CASE ServerDies
  BY <1>7, <1>t, AnsweredKept, QueueShrinks DEF ServerDies
<1> QED BY <1>1, <1>2, <1>3, <1>4, <1>5, <1>6, <1>7 DEF Server, Take

LEMMA RunReaderReceipts == TypeInv /\ ReceiptsInv /\ RunReader => ReceiptsInv'
<1> SUFFICES ASSUME TypeInv, ReceiptsInv, RunReader PROVE ReceiptsInv'
  OBVIOUS
<1>t. TypeOK /\ UNCHANGED <<kpc, out>>
  BY DEF TypeInv, RunReader, keyboard
<1>1. UNCHANGED receipt_Id
  BY DEF RunReader, Lock, GetHandler, GetLine, ReadFails, ReadFrame, Dispatch, Record, ReadLogoutId,
     Compare, NoLogout, DeleteHandler, ClearChannels, ClearEvents, ClearUser, Unlock, ids
<1>2. UNCHANGED toServer \/ toServer' = <<>>
  BY DEF RunReader, Lock, GetHandler, GetLine, ReadFails, ReadFrame, Dispatch, Record, ReadLogoutId,
     Compare, NoLogout, DeleteHandler, ClearChannels, ClearEvents, ClearUser, Unlock, session,
     Close, Fresh
<1>3. Answered' \subseteq Answered
  <2>1. CASE ReadFrame
    BY <1>t, <2>1, AnsweredRead DEF ReadFrame
  <2>2. CASE Unlock
    <3>1. UNCHANGED toClient /\ frame'.type # "RECEIPT"
      BY <2>2 DEF Unlock, NoFrame, Reply, session
    <3> QED BY <3>1, AnsweredKept
  <2>3. CASE ~ReadFrame /\ ~Unlock
    <3>1. UNCHANGED frame
      BY <2>3 DEF RunReader, Lock, GetHandler, GetLine, ReadFails, Dispatch, Record, ReadLogoutId,
         Compare, NoLogout, DeleteHandler, ClearChannels, ClearEvents, ClearUser, Keep
    <3>2. UNCHANGED toClient \/ toClient' = <<>>
      BY <2>3 DEF RunReader, Lock, GetHandler, GetLine, ReadFails, Dispatch, Record, ReadLogoutId,
         Compare, NoLogout, DeleteHandler, ClearChannels, ClearEvents, ClearUser, session, Close,
         Fresh
    <3> QED BY <3>1, <3>2, AnsweredKept
  <2> QED BY <2>1, <2>2, <2>3
<1>4. HoldsReceipt'
  <2>1. CASE Dispatch
    <3>1. frame.type \in {"CONNECTED", "MESSAGE", "RECEIPT", "ERROR"} /\ UNCHANGED frame
      BY <1>t, <2>1 DEF Dispatch, Keep, TypeOK, ServerFrame
    <3>2. Word(frame) \in {"ERROR", "CONNECTED", "MESSAGE"} => spc' \notin {"logoutId", "compare"}
      BY <2>1 DEF Dispatch, Turn
    <3>3. Word(frame) \notin {"ERROR", "CONNECTED", "MESSAGE"} => frame.type = "RECEIPT"
      BY <3>1 DEF Word
    <3> QED BY <3>1, <3>2, <3>3 DEF HoldsReceipt
  <2>2. CASE ReadLogoutId
    BY <2>2 DEF ReadLogoutId, Turn, Keep, HoldsReceipt, ReceiptsInv
  <2>3. CASE ~Dispatch /\ ~ReadLogoutId
    <3>1. spc' \notin {"logoutId", "compare"}
      BY <2>3 DEF RunReader, Lock, GetHandler, GetLine, ReadFails, ReadFrame, Record, Compare,
         NoLogout, DeleteHandler, ClearChannels, ClearEvents, ClearUser, Unlock, Turn
    <3> QED BY <3>1 DEF HoldsReceipt
  <2> QED BY <2>1, <2>2, <2>3
<1>5. Asking' = Asking
  BY <1>t DEF Asking
<1>6. QueueOrdered' /\ AnswersBelow' /\ AskingAbove'
  BY <1>t, <1>1, <1>2, <1>3, <1>5
     DEF ReceiptsInv, QueueOrdered, AnswersBelow, AskingAbove
<1> QED BY <1>4, <1>6 DEF ReceiptsInv

LEMMA KeyboardReceipts ==
  TypeInv /\ ReceiptsInv /\ (TypeCommand \/ RunCommand) => ReceiptsInv'
<1> SUFFICES ASSUME TypeInv, ReceiptsInv, TypeCommand \/ RunCommand PROVE ReceiptsInv'
  OBVIOUS
<1>t. /\ TypeOK /\ receipt_Id \in Int /\ UNCHANGED <<spc, frame>>
      /\ out \in ClientFrame /\ out.receipt \in Int
      /\ HoldsReceipt'
  <2>1. UNCHANGED <<spc, frame>>
    BY DEF TypeCommand, RunCommand, reader
  <2>2. HoldsReceipt'
    BY <2>1 DEF ReceiptsInv, HoldsReceipt
  <2> QED BY <2>1, <2>2 DEF TypeInv, TypeOK, ClientFrame
\* Nothing is asked for, and the queues stay or are emptied.
<1>k. ASSUME ~Asking' \/ (Asking' = Asking /\ UNCHANGED out), UNCHANGED receipt_Id,
             \/ UNCHANGED <<toServer, toClient>>
             \/ toServer' = <<>> /\ toClient' = <<>>
      PROVE  ReceiptsInv'
  <2>1. Answered' \subseteq Answered
    BY <1>k, <1>t, AnsweredKept
  <2>2. QueueOrdered' /\ AnswersBelow' /\ AskingAbove'
    BY <1>k, <2>1 DEF ReceiptsInv, QueueOrdered, AnswersBelow, AskingAbove
  <2> QED BY <1>t, <2>2 DEF ReceiptsInv
\* A receipt is asked for under the next id.
<1>a. ASSUME out'.receipt = receipt_Id, receipt_Id' = receipt_Id + 1, UNCHANGED session
      PROVE  ReceiptsInv'
  <2>1. Answered' \subseteq Answered /\ UNCHANGED toServer
    BY <1>a, <1>t, AnsweredKept DEF session
  <2>2. \A i \in DOMAIN toServer : toServer[i].receipt \in Int /\ toServer[i].receipt < receipt_Id
    <3>1. \A f \in ClientFrame : f.receipt \in Int
      BY DEF ClientFrame
    <3> QED BY <1>t, <3>1 DEF TypeOK, SessionTypeOK, ReceiptsInv, QueueOrdered
  <2>3. \A r \in Answered : r \in Int /\ r < receipt_Id
    <3>1. \A f \in ServerFrame : f.id \in Int
      BY DEF ServerFrame
    <3> QED BY <1>t, <3>1 DEF TypeOK, SessionTypeOK, Answered, ReceiptsInv, AnswersBelow
  <2>4. QueueOrdered'
    BY <1>a, <1>t, <2>1, <2>2 DEF ReceiptsInv, QueueOrdered
  <2>5. AnswersBelow'
    BY <1>a, <1>t, <2>1, <2>3 DEF ReceiptsInv, AnswersBelow
  <2>6. AskingAbove'
    BY <1>a, <1>t, <2>1, <2>2, <2>3 DEF AskingAbove
  <2> QED BY <1>t, <2>4, <2>5, <2>6 DEF ReceiptsInv
<1>q. ASSUME kpc' \notin {"sendLine", "write"}, UNCHANGED <<session, receipt_Id>>
      PROVE  ReceiptsInv'
  BY <1>q, <1>k DEF Asking, session
<1>0. CASE TypeCommand
  <2>1. PICK c \in Commands : ReadCommand(c)
    BY <1>0 DEF TypeCommand
  <2>2. c.op \in {"login", "join", "exit", "logout", "report", "summary"}
    BY ClientAssumption DEF Command
  <2>3. kpc' \notin {"sendLine", "write"}
    BY <2>1, <2>2 DEF ReadCommand, First
  <2>4. UNCHANGED <<session, receipt_Id>>
    BY <2>1 DEF ReadCommand, ids
  <2> QED BY <2>3, <2>4, <1>q
<1>1. CASE NewHandler
  BY <1>1, <1>q DEF NewHandler, Goto, ids
<1>2. CASE Connect
  <2>1. CASE Open(cmd.user) /\ Send(Frame("CONNECT", cmd.user, None, -1, -1, "plain"))
    <3>1. ~Asking'
      BY <2>1 DEF Send, Frame, Asking
    <3>2. toServer' = <<>> /\ toClient' = <<>> /\ UNCHANGED receipt_Id
      BY <1>2, <2>1 DEF Open, Fresh, Connect, ids
    <3> QED BY <3>1, <3>2, <1>k
  <2>2. CASE Goto("reset") /\ UNCHANGED <<session, out>>
    BY <1>2, <2>2, <1>q DEF Connect, Goto, ids
  <2> QED BY <1>2, <2>1, <2>2 DEF Connect
<1>3. CASE ResetHandler
  BY <1>3, <1>q DEF ResetHandler, Done, ids
<1>4. CASE JoinAt
  BY <1>4, <1>a DEF JoinAt, Send, Receipted, Frame
<1>5. CASE ExitAt
  <2>1. CASE Done /\ UNCHANGED receipt_Id
    BY <1>5, <2>1, <1>q DEF ExitAt, Done
  <2>2. CASE /\ Send(Receipted("UNSUBSCRIBE", channels_map[channelName]))
             /\ receipt_Id' = receipt_Id + 1
    BY <1>5, <2>2, <1>a DEF ExitAt, Send, Receipted, Frame
  <2> QED BY <1>5, <2>1, <2>2 DEF ExitAt
<1>6. CASE SetLogoutId
  BY <1>6, <1>a DEF SetLogoutId, Send, Frame
<1>7. CASE ReportAt
  BY <1>7, <1>q DEF ReportAt, Done, Goto, ids
<1>8. CASE BuildEvent
  <2>1. ~Asking' /\ UNCHANGED <<toServer, toClient, receipt_Id>>
    BY <1>8 DEF BuildEvent, Send, Frame, Asking, session, ids
  <2> QED BY <2>1, <1>k
<1>9. CASE FindEvents
  BY <1>9, <1>q DEF FindEvents, Done, Goto, ids
<1>10. CASE CopyEvents
  BY <1>10, <1>q DEF CopyEvents, Done, ids
<1>11. CASE SendLine
  <2>1. Asking' = Asking /\ UNCHANGED <<out, toServer, toClient, receipt_Id>>
    BY <1>11 DEF SendLine, Asking, session, ids
  <2> QED BY <2>1, <1>k
<1>12. CASE WriteFrame
  <2>k. kpc = "write" /\ UNCHANGED receipt_Id
    BY <1>12 DEF WriteFrame, ids
  <2>1. CASE Write(out) /\ AfterSend
    <3>1. kpc' \notin {"sendLine", "write"}
      BY <1>t, <2>1 DEF AfterSend, Goto, NextEvent, Done, ClientFrame
    <3>2. Answered' \subseteq Answered
      BY <1>t, <2>1, AnsweredKept DEF Write
    <3>3. CASE UNCHANGED toServer
      BY <2>k, <2>1, <3>1, <3>3, <1>k DEF Write, Asking
    <3>4. CASE toServer' = Append(toServer, out)
      <4>1. /\ toServer \in Seq(ClientFrame)
            /\ \A i \in DOMAIN toServer : i < Len(toServer) + 1 /\ toServer'[i] = toServer[i]
            /\ toServer'[Len(toServer) + 1] = out
            /\ \A i \in DOMAIN toServer' : i \in DOMAIN toServer \/ i = Len(toServer) + 1
        BY <1>t, <3>4 DEF TypeOK, SessionTypeOK
      <4>2. out.receipt = -1 \/ Asking
        BY <2>k DEF Asking
      <4>3. out.receipt < receipt_Id
        BY <1>t, <4>2 DEF ReceiptsInv, AskingAbove, TypeOK
      <4>4. \A i \in DOMAIN toServer : out.receipt = -1 \/ toServer[i].receipt < out.receipt
        BY <4>2 DEF ReceiptsInv, AskingAbove
      <4>5. \A r \in Answered : out.receipt = -1 \/ r < out.receipt
        BY <4>2 DEF ReceiptsInv, AskingAbove
      <4>6. \A i \in DOMAIN toServer' : toServer'[i].receipt < receipt_Id
        BY <4>1, <4>3 DEF ReceiptsInv, QueueOrdered
      <4>7. ASSUME NEW i \in DOMAIN toServer', NEW j \in DOMAIN toServer', i < j
            PROVE  toServer'[j].receipt = -1 \/ toServer'[i].receipt < toServer'[j].receipt
        <5>1. i \in DOMAIN toServer
          BY <4>1, <4>7
        <5>2. CASE j \in DOMAIN toServer
          BY <4>1, <4>7, <5>1, <5>2 DEF ReceiptsInv, QueueOrdered
        <5>3. CASE j = Len(toServer) + 1
          BY <4>1, <4>4, <5>1, <5>3
        <5> QED BY <4>1, <5>2, <5>3
      <4>8. QueueOrdered'
        BY <2>k, <4>6, <4>7 DEF QueueOrdered
      <4>9. ASSUME NEW r \in Answered', NEW j \in DOMAIN toServer'
            PROVE  toServer'[j].receipt = -1 \/ r < toServer'[j].receipt
        BY <3>2, <4>1, <4>5 DEF ReceiptsInv, AnswersBelow
      <4>10. AnswersBelow'
        BY <2>k, <3>2, <4>9 DEF ReceiptsInv, AnswersBelow
      <4> QED BY <1>t, <3>1, <4>8, <4>10 DEF ReceiptsInv, AskingAbove, Asking
    <3> QED BY <2>1, <3>3, <3>4 DEF Write
  <2>2. CASE AfterFailure /\ UNCHANGED session
    <3>1. kpc' \notin {"sendLine", "write"}
      BY <2>2 DEF AfterFailure, NextEvent, Done
    <3> QED BY <2>k, <2>2, <3>1, <1>q
  <2> QED BY <1>12, <2>1, <2>2 DEF WriteFrame
<1>13. CASE LoggedIn
  BY <1>13, <1>q DEF LoggedIn, Done, ids
<1>14. CASE Insert
  BY <1>14, <1>q DEF Insert, Done, ids
<1>15. CASE Erase
  BY <1>15, <1>q DEF Erase, Done, ids
<1> QED BY <1>0, <1>1, <1>2, <1>3, <1>4, <1>5, <1>6, <1>7, <1>8, <1>9, <1>10, <1>11, <1>12,
           <1>13, <1>14, <1>15 DEF RunCommand

LEMMA NextReceipts == TypeInv /\ ReceiptsInv /\ [Next]_vars => ReceiptsInv'
<1> SUFFICES ASSUME TypeInv, ReceiptsInv, [Next]_vars PROVE ReceiptsInv'
  OBVIOUS
<1>1. CASE UNCHANGED vars \/ UndefinedBehaviour
  <2>1. UNCHANGED <<session, ids, keyboard, reader>>
    BY <1>1 DEF vars, UndefinedBehaviour, Crash
  <2>2. /\ UNCHANGED <<kpc, out, receipt_Id, frame, spc, toServer, toClient>>
    BY <2>1 DEF session, ids, keyboard, reader
  <2>3. Answered' \subseteq Answered
    BY <2>2, AnsweredKept
  <2> QED BY <2>2, <2>3, QueueShrinks
<1> QED BY <1>1, KeyboardReceipts, RunReaderReceipts, ServerReceipts DEF Next, Quiet

\* The client takes a logout for done only on its own receipt: when it decides
\* so, nothing it asked for before the logout is still unread by the server.
THEOREM LogoutsAreGraceful == Spec => GracefulLogout
<1>1. Spec => [](TypeInv /\ ReceiptsInv)
  BY InitTypes, NextTypes, InitReceipts, NextReceipts, PTL DEF Spec
<1> DEFINE Graceful == (spc = "compare" /\ spc' = "noLogout") =>
                          \A i \in DOMAIN toServer :
                             toServer[i].receipt = -1 \/ toServer[i].receipt > logout_Id
<1>2. TypeInv /\ ReceiptsInv /\ [Next]_vars => Graceful
  <2> SUFFICES ASSUME TypeInv, ReceiptsInv, [Next]_vars, spc = "compare", spc' = "noLogout"
               PROVE  \A i \in DOMAIN toServer :
                         toServer[i].receipt = -1 \/ toServer[i].receipt > logout_Id
    OBVIOUS
  <2>1. RunReader
    BY DEF Next, vars, reader, TypeCommand, RunCommand, Server, UndefinedBehaviour, Crash, Quiet
  <2>2. Compare
    BY <2>1 DEF RunReader, Lock, GetHandler, GetLine, ReadFails, ReadFrame, Dispatch, Record,
       ReadLogoutId, NoLogout, DeleteHandler, ClearChannels, ClearEvents, ClearUser, Unlock, Turn
  <2>3. logout_Id = frame.id /\ frame.type = "RECEIPT"
    BY <2>2 DEF Compare, Turn, ReceiptsInv, HoldsReceipt
  <2>4. frame.id \in Answered
    BY <2>3 DEF Answered
  <2>5. \A i \in DOMAIN toServer : toServer[i].receipt = -1 \/ frame.id < toServer[i].receipt
    BY <2>4 DEF ReceiptsInv, AnswersBelow
  <2>6. /\ frame.id \in Int
        /\ \A i \in DOMAIN toServer : toServer[i].receipt \in Int
    <3>1. (\A f \in ClientFrame : f.receipt \in Int) /\ (\A f \in ServerFrame : f.id \in Int)
      BY DEF ClientFrame, ServerFrame
    <3> QED BY <3>1 DEF TypeInv, TypeOK, SessionTypeOK
  <2> QED BY <2>3, <2>5, <2>6
<1>3. (TypeInv /\ ReceiptsInv) /\ [Next]_vars => [Graceful]_vars
  BY <1>2
<1> QED BY <1>1, <1>3, PTL DEF Spec, GracefulLogout

-----------------------------------------------------------------------------
(* The socket and the handler *)

\* There is a socket exactly as long as there is a handler that is not just
\* being made; the keyboard writes on the one it looked at, or on none; a frame
\* is in process only while there is one.
Connecting == kpc \in {"new", "connect", "reset"}
Processing == spc \in {"process", "record", "logoutId", "compare", "noLogout", "reset"}
LinkInv ==
  /\ link = "none" => toServer = <<>> /\ toClient = <<>>
  /\ Connecting \/ connectionHandler = 0 => link = "none"
  /\ link = "none" => Connecting \/ connectionHandler = 0
  /\ kpc = "new" => connectionHandler = 0
  /\ kpc = "connect" => connectionHandler # 0
  /\ kpc = "write" => kptr = connectionHandler \/ link = "none"
  /\ Processing => link # "none"

LEMMA InitLinked == Init => LinkInv
BY DEF Init, SessionInit, LinkInv, Connecting, Processing

LEMMA ServerLinked == LinkInv /\ Server => LinkInv'
<1> SUFFICES ASSUME LinkInv, Server PROVE LinkInv'
  OBVIOUS
<1>1. UNCHANGED <<connectionHandler, kpc, kptr, spc>>
  BY DEF Server, keyboard, reader
<1>2. link = "open" /\ link' \in {"open", "closed"}
  BY DEF Server, Take, TakeConnect, TakeSubscribe, TakeUnsubscribe, TakeSend, TakeDisconnect,
         Takes, Answer, Refuse, OtherPublishes, ServerDies
<1> QED BY <1>1, <1>2 DEF LinkInv, Connecting, Processing

LEMMA ReaderLinked == LinkInv /\ RunReader => LinkInv'
<1> SUFFICES ASSUME LinkInv, RunReader PROVE LinkInv'
  OBVIOUS
<1>u. UNCHANGED <<kpc, kptr>>
  BY DEF RunReader, keyboard
<1>1. CASE DeleteHandler
  <2>1. spc = "reset" /\ spc' = "clearChannels" /\ connectionHandler' = 0 /\ link # "none"
    BY <1>1 DEF DeleteHandler, Turn, LinkInv, Processing
  <2>2. connectionHandler # 0 /\ ~Connecting
    BY <2>1 DEF LinkInv
  <2>3. link' = "none" /\ toServer' = <<>> /\ toClient' = <<>>
    BY <1>1, <2>2 DEF DeleteHandler, Close, Fresh
  <2> QED BY <2>1, <2>2, <2>3, <1>u DEF LinkInv, Connecting, Processing
<1>2. CASE ReadFrame
  <2>1. /\ spc' = "process" /\ toClient # <<>> /\ UNCHANGED <<link, toServer, connectionHandler>>
    BY <1>2 DEF ReadFrame, Turn
  <2> QED BY <2>1, <1>u DEF LinkInv, Connecting, Processing
<1>3. CASE ~DeleteHandler /\ ~ReadFrame
  <2>1. UNCHANGED <<link, toServer, toClient, connectionHandler>> /\ (Processing' => Processing)
    BY <1>3 DEF RunReader, Lock, GetHandler, GetLine, ReadFails, Dispatch, Record, ReadLogoutId,
       Compare, NoLogout, ClearChannels, ClearEvents, ClearUser, Unlock, Turn, session, Processing
  <2> QED BY <2>1, <1>u DEF LinkInv, Connecting
<1> QED BY <1>1, <1>2, <1>3

LEMMA KeyboardLinked == TypeOK /\ LinkInv /\ (TypeCommand \/ RunCommand) => LinkInv'
<1> SUFFICES ASSUME TypeOK, LinkInv, TypeCommand \/ RunCommand PROVE LinkInv'
  OBVIOUS
<1>u. UNCHANGED spc
  BY DEF TypeCommand, RunCommand, reader
<1>n. ASSUME UNCHANGED <<link, toClient, connectionHandler>>, link = "none" => UNCHANGED toServer,
             ~Connecting, kpc' \notin {"new", "connect", "reset", "write"}
      PROVE  LinkInv'
  BY <1>n, <1>u DEF LinkInv, Connecting, Processing
<1>0. CASE TypeCommand
  <2>1. PICK c \in Commands : ReadCommand(c)
    BY <1>0 DEF TypeCommand
  <2>2. c.op \in {"login", "join", "exit", "logout", "report", "summary"}
    BY ClientAssumption DEF Command
  <2>3. /\ kpc = "prompt" /\ kpc' \notin {"connect", "reset", "write"}
        /\ kpc' = "new" => connectionHandler = 0
        /\ UNCHANGED <<session, connectionHandler>>
    BY <2>1, <2>2 DEF ReadCommand, First
  <2> QED BY <2>3, <1>u DEF LinkInv, Connecting, Processing, session
<1>1. CASE NewHandler
  <2>1. /\ kpc = "new" /\ kpc' = "connect" /\ connectionHandler' # 0 /\ UNCHANGED session
    BY <1>1 DEF NewHandler, Goto, TypeOK
  <2> QED BY <2>1, <1>u DEF LinkInv, Connecting, Processing, session
<1>2. CASE Connect
  <2>1. kpc = "connect" /\ UNCHANGED connectionHandler
    BY <1>2 DEF Connect
  <2>2. CASE Open(cmd.user) /\ Send(Frame("CONNECT", cmd.user, None, -1, -1, "plain"))
    <3>1. link' = "open" /\ kpc' = "sendLine"
      BY <2>2 DEF Open, Fresh, Send, Goto
    <3> QED BY <2>1, <3>1, <1>u DEF LinkInv, Connecting, Processing
  <2>3. CASE Goto("reset") /\ UNCHANGED session
    BY <2>1, <2>3, <1>u DEF Goto, LinkInv, Connecting, Processing, session
  <2> QED BY <1>2, <2>2, <2>3 DEF Connect
<1>3. CASE ResetHandler
  BY <1>3, <1>u DEF ResetHandler, Done, LinkInv, Connecting, Processing, session
<1>4. CASE SendLine
  BY <1>4, <1>u DEF SendLine, LinkInv, Connecting, Processing, session
<1>5. CASE WriteFrame
  <2>1. /\ kpc = "write" /\ UNCHANGED <<link, toClient, connectionHandler>>
        /\ link = "none" => UNCHANGED toServer
    BY <1>5 DEF WriteFrame, Write, session
  <2>2. kpc' \notin {"new", "connect", "reset", "write"}
    <3>1. out.cmd \in {"CONNECT", "SUBSCRIBE", "UNSUBSCRIBE", "SEND", "DISCONNECT"}
      BY DEF TypeOK, ClientFrame
    <3> QED BY <1>5, <3>1 DEF WriteFrame, AfterSend, AfterFailure, NextEvent, Goto, Done
  <2> QED BY <2>1, <2>2, <1>n DEF Connecting
<1>6. CASE JoinAt \/ ExitAt \/ SetLogoutId \/ ReportAt \/ BuildEvent \/ FindEvents \/ CopyEvents
           \/ LoggedIn \/ Insert \/ Erase
  <2>1. UNCHANGED <<session, connectionHandler>>
    BY <1>6 DEF JoinAt, ExitAt, SetLogoutId, ReportAt, BuildEvent, FindEvents, CopyEvents,
                LoggedIn, Insert, Erase
  <2>2. ~Connecting /\ kpc' \notin {"new", "connect", "reset", "write"}
    BY <1>6 DEF JoinAt, ExitAt, SetLogoutId, ReportAt, BuildEvent, FindEvents, CopyEvents,
                LoggedIn, Insert, Erase, Send, Goto, Done, Connecting
  <2> QED BY <2>1, <2>2, <1>n DEF session
<1> QED BY <1>0, <1>1, <1>2, <1>3, <1>4, <1>5, <1>6 DEF RunCommand

LEMMA NextLinked == TypeOK /\ LinkInv /\ [Next]_vars => LinkInv'
<1> SUFFICES ASSUME TypeOK, LinkInv, [Next]_vars PROVE LinkInv'
  OBVIOUS
<1>1. CASE UNCHANGED vars \/ UndefinedBehaviour
  BY <1>1 DEF vars, UndefinedBehaviour, Crash, LinkInv, Connecting, Processing, session, keyboard,
              reader
<1> QED BY <1>1, KeyboardLinked, ReaderLinked, ServerLinked DEF Next, Quiet

-----------------------------------------------------------------------------
(* Frames in the socket *)

LEMMA QueueTail ==
  ASSUME TypeOK, toServer # <<>>, toServer' = Tail(toServer)
  PROVE  /\ 1 \in DOMAIN toServer /\ Head(toServer) = toServer[1]
         /\ Head(toServer) \in ClientFrame
         /\ \A i \in DOMAIN toServer' :
               i + 1 \in DOMAIN toServer /\ toServer'[i] = toServer[i + 1]
         /\ \A j \in DOMAIN toServer :
               j = 1 \/ (j - 1 \in DOMAIN toServer' /\ toServer'[j - 1] = toServer[j])
         /\ Len(toServer) \in Nat /\ Len(toServer') = Len(toServer) - 1
         /\ Len(toServer) <= 1 => toServer' = <<>>
<1>1. toServer \in Seq(ClientFrame)
  BY DEF TypeOK, SessionTypeOK
<1> QED BY <1>1

LEMMA QueueAppend ==
  ASSUME TypeOK, toServer' = Append(toServer, out)
  PROVE  /\ \A i \in DOMAIN toServer' : \/ i \in DOMAIN toServer /\ toServer'[i] = toServer[i]
                                       \/ toServer'[i] = out
         /\ \A i \in DOMAIN toServer : i \in DOMAIN toServer' /\ toServer'[i] = toServer[i]
         /\ Len(toServer) + 1 \in DOMAIN toServer' /\ toServer'[Len(toServer) + 1] = out
         /\ toServer = <<>> => Len(toServer') = 1 /\ DOMAIN toServer' = {1}
<1>1. toServer \in Seq(ClientFrame) /\ out \in ClientFrame
  BY DEF TypeOK, SessionTypeOK
<1>2. Len(toServer) + 1 \in DOMAIN toServer' /\ toServer'[Len(toServer) + 1] = out
  BY <1>1
<1>3. \A i \in DOMAIN toServer : i \in DOMAIN toServer' /\ toServer'[i] = toServer[i]
  BY <1>1
<1>4. \A i \in DOMAIN toServer' : \/ i \in DOMAIN toServer /\ toServer'[i] = toServer[i]
                                 \/ toServer'[i] = out
  BY <1>1
<1>5. toServer = <<>> => Len(toServer') = 1 /\ DOMAIN toServer' = {1}
  BY <1>1
<1> QED BY <1>2, <1>3, <1>4, <1>5

LEMMA SocketAppend ==
  ASSUME TypeOK, NEW f, toClient' = Append(toClient, f)
  PROVE  /\ \A i \in DOMAIN toClient' : \/ i \in DOMAIN toClient /\ toClient'[i] = toClient[i]
                                       \/ toClient'[i] = f
         /\ \A i \in DOMAIN toClient : i \in DOMAIN toClient' /\ toClient'[i] = toClient[i]
         /\ \E i \in DOMAIN toClient' : toClient'[i] = f
<1>1. toClient \in Seq(ServerFrame)
  BY DEF TypeOK, SessionTypeOK
<1>2. Len(toClient) + 1 \in DOMAIN toClient' /\ toClient'[Len(toClient) + 1] = f
  BY <1>1
<1>3. \A i \in DOMAIN toClient : i \in DOMAIN toClient' /\ toClient'[i] = toClient[i]
  BY <1>1
<1>4. \A i \in DOMAIN toClient' : \/ i \in DOMAIN toClient /\ toClient'[i] = toClient[i]
                                 \/ toClient'[i] = f
  BY <1>1
<1> QED BY <1>2, <1>3, <1>4

LEMMA SocketTail ==
  ASSUME TypeOK, toClient # <<>>, toClient' = Tail(toClient)
  PROVE  /\ 1 \in DOMAIN toClient /\ Head(toClient) = toClient[1]
         /\ Head(toClient) \in ServerFrame
         /\ \A i \in DOMAIN toClient' :
               i + 1 \in DOMAIN toClient /\ toClient'[i] = toClient[i + 1]
         /\ \A j \in DOMAIN toClient :
               j = 1 \/ (j - 1 \in DOMAIN toClient' /\ toClient'[j - 1] = toClient[j])
<1>1. toClient \in Seq(ServerFrame)
  BY DEF TypeOK, SessionTypeOK
<1> QED BY <1>1

\* What a step of the server does to the socket.
Taken(f) ==
  /\ toServer # <<>> /\ toServer' = Tail(toServer) /\ link' = "open"
  /\ toClient' = Append(toClient, f)
LEMMA ServerSteps ==
  ASSUME TypeOK, Server
  PROVE  /\ link = "open" /\ name' = name
         /\ UNCHANGED <<connectionHandler, logins, ids, globals, keyboard, reader, crashed>>
         /\ \/ Takes("CONNECT") /\ Taken(Reply("CONNECTED", -1)) /\ UNCHANGED <<subs, sent>>
            \/ /\ Takes("SUBSCRIBE") /\ Taken(Reply("RECEIPT", Head(toServer).receipt))
               /\ \A p \in subs : p[1] # Head(toServer).id
               /\ subs' = subs \cup {<<Head(toServer).id, Head(toServer).chan>>}
               /\ sent' = sent
            \/ /\ Takes("UNSUBSCRIBE") /\ Taken(Reply("RECEIPT", Head(toServer).receipt))
               /\ subs' = {p \in subs : p[1] # Head(toServer).id} /\ sent' = sent
            \/ /\ Takes("SEND") /\ Head(toServer).chan \in Channel
               /\ Taken(MessageFrom(Head(toServer).user, Head(toServer).chan, Head(toServer).text))
               /\ sent' = sent + 1 /\ subs' = subs
            \/ /\ Takes("DISCONNECT") /\ Taken(Reply("RECEIPT", Head(toServer).receipt))
               /\ subs' = {} /\ sent' = sent
            \/ /\ Refuse
               /\ \/ MayRefuse /\ Takes("CONNECT")
                  \/ Takes("SUBSCRIBE") /\ \E p \in subs : p[1] = Head(toServer).id
                  \/ Takes("UNSUBSCRIBE") /\ \A p \in subs : p[1] # Head(toServer).id
                  \/ Takes("SEND") /\ \A p \in subs : p[2] # Head(toServer).chan
            \/ /\ UNCHANGED <<link, toServer, subs>> /\ sent' = sent + 1
               /\ \E u \in User, ch \in Channel, t \in Texts :
                     toClient' = Append(toClient, MessageFrom(u, ch, t))
            \/ /\ MayDie /\ link' = "closed" /\ toServer' = <<>> /\ subs' = {} /\ sent' = sent
               /\ toClient' \in {toClient, <<>>}
<1> DEFINE h == Head(toServer)
<1>s. subs \subseteq (Int \X Channel)
  BY DEF TypeOK, SessionTypeOK
<1>i. (\E ch \in Channel : <<h.id, ch>> \in subs) <=> \E p \in subs : p[1] = h.id
  <2>1. ASSUME NEW p \in subs, p[1] = h.id PROVE \E ch \in Channel : <<h.id, ch>> \in subs
    <3>1. p = <<p[1], p[2]>> /\ p[2] \in Channel
      BY <1>s
    <3> QED BY <2>1, <3>1
  <2> QED BY <2>1
<1>u. UNCHANGED <<connectionHandler, logins, ids, globals, keyboard, reader, crashed>>
  BY DEF Server
<1>v. name' = name
  BY DEF Server, Take, TakeConnect, TakeSubscribe, TakeUnsubscribe, TakeSend, TakeDisconnect,
         Answer, Refuse, OtherPublishes, ServerDies
<1>1. CASE TakeConnect
  BY <1>1, <1>u, <1>v DEF TakeConnect, Takes, Answer, Taken
<1>2. CASE TakeSubscribe
  BY <1>2, <1>u, <1>v, <1>i DEF TakeSubscribe, Takes, Answer, Taken
<1>3. CASE TakeUnsubscribe
  BY <1>3, <1>u, <1>v, <1>i DEF TakeUnsubscribe, Takes, Answer, Taken
<1>4. CASE TakeSend
  <2>1. CASE \E p \in subs : p[2] = h.chan
    <3>1. h.chan \in Channel
      BY <2>1, <1>s
    <3> QED BY <1>4, <1>u, <1>v, <2>1, <3>1 DEF TakeSend, Takes, Taken
  <2>2. CASE \A p \in subs : p[2] # h.chan
    BY <1>4, <1>u, <1>v, <2>2 DEF TakeSend, Takes
  <2> QED BY <2>1, <2>2
<1>5. CASE TakeDisconnect
  BY <1>5, <1>u, <1>v DEF TakeDisconnect, Takes, Answer, Taken
<1>6. CASE OtherPublishes
  <2>1. PICK s \in subs, u \in User, t \in Texts :
           /\ link = "open" /\ toClient' = Append(toClient, MessageFrom(u, s[2], t))
           /\ sent' = sent + 1 /\ UNCHANGED <<link, toServer, subs>>
    BY <1>6 DEF OtherPublishes
  <2>2. s[2] \in Channel
    BY <1>s
  <2> QED BY <1>u, <1>v, <2>1, <2>2
<1>7. CASE ServerDies
  BY <1>7, <1>u, <1>v DEF ServerDies
<1> QED BY <1>1, <1>2, <1>3, <1>4, <1>5, <1>6, <1>7 DEF Server, Take

-----------------------------------------------------------------------------
(* Reports *)

\* No report, from the command to the vector it is stored in, has one of these
\* texts, and every MESSAGE names a channel.
TextsAvoid(bad) == (\A t \in Texts : t \notin bad) /\ (\A c \in Commands : c.text \notin bad)
SentAvoid(bad) ==
  /\ cmd.text \notin bad /\ out.text \notin bad
  /\ \A i \in DOMAIN toServer : toServer[i].text \notin bad
Kept(bad, f) == f.type = "MESSAGE" => f.chan \in Channel /\ f.text \notin bad
CameAvoid(bad) ==
  /\ \A i \in DOMAIN toClient : Kept(bad, toClient[i])
  /\ spc \in {"process", "record"} => Kept(bad, frame)
  /\ spc = "record" => frame.type = "MESSAGE"
ReportsInv(bad) == SentAvoid(bad) /\ CameAvoid(bad)

LEMMA InitReports == ASSUME NEW bad, "plain" \notin bad PROVE Init => ReportsInv(bad)
BY DEF Init, SessionInit, ReportsInv, SentAvoid, CameAvoid, NoCmd, NoOut, Frame

LEMMA ServerReports ==
  ASSUME NEW bad, TextsAvoid(bad), TypeOK, ReportsInv(bad), Server
  PROVE  ReportsInv(bad)'
<1>u. UNCHANGED <<cmd, out, spc, frame>>
  BY DEF Server, keyboard, reader
<1>f. ASSUME NEW f, toClient' = Append(toClient, f), Kept(bad, f)
      PROVE  CameAvoid(bad)'
  BY <1>f, <1>u, SocketAppend DEF ReportsInv, CameAvoid, Kept
<1>q. ASSUME toServer' = toServer \/ toServer' = <<>> \/ (toServer # <<>> /\ toServer' = Tail(toServer))
      PROVE  SentAvoid(bad)'
  <2>1. \A i \in DOMAIN toServer' : \E j \in DOMAIN toServer : toServer'[i] = toServer[j]
    BY <1>q, QueueTail
  <2> QED BY <2>1, <1>u DEF ReportsInv, SentAvoid
<1>h. ASSUME toServer # <<>>, toServer' = Tail(toServer) PROVE Head(toServer).text \notin bad
  BY <1>h, QueueTail DEF ReportsInv, SentAvoid
<1>o. ASSUME NEW type \in {"CONNECTED", "RECEIPT", "ERROR"}, NEW i
      PROVE  Kept(bad, Reply(type, i))
  BY DEF Reply, Kept
<1>m. ASSUME NEW u, NEW ch \in Channel, NEW t, t \notin bad
      PROVE  Kept(bad, MessageFrom(u, ch, t))
  BY <1>m DEF MessageFrom, Kept
<1>1. CASE \E i : Taken(Reply("CONNECTED", i)) \/ Taken(Reply("RECEIPT", i))
  BY <1>1, <1>f, <1>q, <1>o DEF Taken, ReportsInv
<1>2. CASE /\ Head(toServer).chan \in Channel
           /\ Taken(MessageFrom(Head(toServer).user, Head(toServer).chan, Head(toServer).text))
  BY <1>2, <1>f, <1>q, <1>h, <1>m DEF Taken, ReportsInv
<1>3. CASE Refuse
  BY <1>3, <1>f, <1>q, <1>o DEF Refuse, ReportsInv
<1>4. CASE /\ toServer' = toServer
           /\ \E u \in User, ch \in Channel, t \in Texts :
                 toClient' = Append(toClient, MessageFrom(u, ch, t))
  <2>1. PICK u \in User, ch \in Channel, t \in Texts :
           toClient' = Append(toClient, MessageFrom(u, ch, t))
    BY <1>4
  <2>2. Kept(bad, MessageFrom(u, ch, t))
    BY <1>m DEF TextsAvoid
  <2> QED BY <1>4, <2>1, <2>2, <1>f, <1>q DEF ReportsInv
<1>5. CASE toServer' = <<>> /\ toClient' \in {toClient, <<>>}
  <2>1. CameAvoid(bad)'
    BY <1>5, <1>u DEF ReportsInv, CameAvoid
  <2> QED BY <1>5, <2>1, <1>q DEF ReportsInv
<1> QED BY <1>1, <1>2, <1>3, <1>4, <1>5, ServerSteps

LEMMA ReaderReports ==
  ASSUME NEW bad, TypeOK, ReportsInv(bad), RunReader
  PROVE  ReportsInv(bad)'
<1>u. UNCHANGED <<cmd, out>>
  BY DEF RunReader, keyboard
<1>1. CASE DeleteHandler
  <2>1. /\ spc' = "clearChannels"
        /\ UNCHANGED <<toServer, toClient>> \/ (toServer' = <<>> /\ toClient' = <<>>)
    BY <1>1 DEF DeleteHandler, Turn, Close, Fresh, session
  <2> QED BY <2>1, <1>u DEF ReportsInv, SentAvoid, CameAvoid
<1>2. CASE ReadFrame
  <2>1. /\ toClient # <<>> /\ toClient' = Tail(toClient) /\ frame' = Head(toClient)
        /\ spc' = "process" /\ UNCHANGED toServer
    BY <1>2 DEF ReadFrame, Turn
  <2> QED BY <2>1, <1>u, SocketTail DEF ReportsInv, SentAvoid, CameAvoid, Kept
<1>3. CASE Dispatch
  <2>1. /\ spc = "process" /\ UNCHANGED <<toServer, toClient, frame>>
        /\ spc' = "record" => Word(frame) = "MESSAGE"
        /\ spc' \in {"record", "noLogout", "lock", "unlock", "logoutId"}
    BY <1>3 DEF Dispatch, Turn, Keep, session, TypeOK, ServerFrame, Word
  <2>2. Word(frame) = "MESSAGE" => frame.type = "MESSAGE"
    BY DEF Word
  <2> QED BY <2>1, <2>2, <1>u DEF ReportsInv, SentAvoid, CameAvoid
<1>4. CASE ~DeleteHandler /\ ~ReadFrame /\ ~Dispatch
  <2>1. UNCHANGED <<toServer, toClient>> /\ spc' \notin {"process", "record"}
    BY <1>4 DEF RunReader, Lock, GetHandler, GetLine, ReadFails, Record, ReadLogoutId,
       Compare, NoLogout, ClearChannels, ClearEvents, ClearUser, Unlock, Turn, session
  <2> QED BY <2>1, <1>u DEF ReportsInv, SentAvoid, CameAvoid
<1> QED BY <1>1, <1>2, <1>3, <1>4

LEMMA KeyboardReports ==
  ASSUME NEW bad, "plain" \notin bad, TextsAvoid(bad), TypeOK, ReportsInv(bad),
         TypeCommand \/ RunCommand
  PROVE  ReportsInv(bad)'
<1>u. UNCHANGED <<spc, frame>>
  BY DEF TypeCommand, RunCommand, reader
<1>c. /\ cmd.text \notin bad /\ out.text \notin bad
      /\ NoCmd.text \notin bad /\ NoOut.text \notin bad
  BY DEF ReportsInv, SentAvoid, NoCmd, NoOut, Frame
<1>n. ASSUME cmd'.text \notin bad, out'.text \notin bad, UNCHANGED <<toServer, toClient>>
      PROVE  ReportsInv(bad)'
  BY <1>n, <1>u DEF ReportsInv, SentAvoid, CameAvoid
<1>0. CASE TypeCommand
  <2>1. PICK c \in Commands : ReadCommand(c)
    BY <1>0 DEF TypeCommand
  <2> QED BY <2>1, <1>c, <1>n DEF ReadCommand, TextsAvoid, session
<1>1. CASE Connect
  <2>1. cmd'.text \notin bad /\ out'.text \notin bad
    BY <1>1, <1>c DEF Connect, Send, Goto, Frame
  <2>2. UNCHANGED <<toServer, toClient>> \/ (toServer' = <<>> /\ toClient' = <<>>)
    BY <1>1 DEF Connect, Open, Fresh, session
  <2>3. spc = "record" => frame.type = "MESSAGE"
    BY DEF ReportsInv, CameAvoid
  <2> QED BY <2>1, <2>2, <1>u DEF ReportsInv, SentAvoid, CameAvoid
<1>2. CASE WriteFrame
  <2>1. /\ UNCHANGED toClient
        /\ toServer' = toServer \/ toServer' = Append(toServer, out)
    BY <1>2 DEF WriteFrame, Write, session
  <2>2. cmd'.text \notin bad /\ out'.text \notin bad
    <3>1. out.cmd \in {"CONNECT", "SUBSCRIBE", "UNSUBSCRIBE", "SEND", "DISCONNECT"}
      BY DEF TypeOK, ClientFrame
    <3> QED BY <1>2, <1>c, <3>1 DEF WriteFrame, AfterSend, AfterFailure, NextEvent, Goto, Done
  <2>3. \A i \in DOMAIN toServer' : toServer'[i].text \notin bad
    BY <2>1, <1>c, QueueAppend DEF ReportsInv, SentAvoid
  <2> QED BY <2>1, <2>2, <2>3, <1>u DEF ReportsInv, SentAvoid, CameAvoid
<1>3. CASE BuildEvent
  BY <1>3, <1>c, <1>n DEF BuildEvent, Send, Goto, Frame, session
<1>4. CASE NewHandler \/ ResetHandler \/ JoinAt \/ ExitAt \/ SetLogoutId \/ ReportAt
           \/ FindEvents \/ CopyEvents \/ SendLine \/ LoggedIn \/ Insert \/ Erase
  BY <1>4, <1>c, <1>n DEF NewHandler, ResetHandler, JoinAt, ExitAt, SetLogoutId, ReportAt,
     FindEvents, CopyEvents, SendLine, LoggedIn, Insert, Erase, Send, Goto, Done, Receipted, Frame,
     session
<1> QED BY <1>0, <1>1, <1>2, <1>3, <1>4 DEF RunCommand

LEMMA NextReports ==
  ASSUME NEW bad, "plain" \notin bad, TextsAvoid(bad), TypeOK, ReportsInv(bad), [Next]_vars
  PROVE  ReportsInv(bad)'
<1>1. CASE UNCHANGED vars \/ UndefinedBehaviour
  BY <1>1 DEF vars, UndefinedBehaviour, Crash, ReportsInv, SentAvoid, CameAvoid, session,
              keyboard, reader
<1> QED BY <1>1, KeyboardReports, ReaderReports, ServerReports DEF Next, Quiet

-----------------------------------------------------------------------------
(***************************************************************************)
(* What a summary shows: every report of the session that is open, and     *)
(* nothing of an earlier one, for any number of messages, with a server    *)
(* that may refuse and may die, and teardowns that are overtaken by the    *)
(* next login.                                                             *)
(***************************************************************************)
\* What process cannot take in: a report whose date is refused or that names a
\* CONNECTED frame.  Those are thrown away, as the code has it.
Unreadable      == {"badDate", "CONNECTED"}
ReadableReports == TextsAvoid(Unreadable)

\* A late teardown: the next session may be open before it is over, but what
\* it has received is in the socket still.
Clearing == spc \in {"clearChannels", "clearEvents"}
StoreInv ==
  /\ link = "none" /\ ~Clearing => Stored = {}
  /\ link = "open" /\ Clearing => InSocket = 1..sent
  /\ NothingMissed

LEMMA SocketIdsAppend ==
  ASSUME TypeOK, NEW f, toClient' = Append(toClient, f)
  PROVE  InSocket' = InSocket \cup (IF f.type = "MESSAGE" THEN {f.id} ELSE {})
BY SocketAppend DEF InSocket

LEMMA SocketIdsTail ==
  ASSUME TypeOK, toClient # <<>>, toClient' = Tail(toClient)
  PROVE  InSocket = InSocket' \cup (IF Head(toClient).type = "MESSAGE"
                                    THEN {Head(toClient).id} ELSE {})
<1>1. InSocket \subseteq InSocket' \cup (IF Head(toClient).type = "MESSAGE"
                                        THEN {Head(toClient).id} ELSE {})
  <2> SUFFICES ASSUME NEW j \in DOMAIN toClient, toClient[j].type = "MESSAGE", j # 1
               PROVE  toClient[j].id \in InSocket'
    BY SocketTail DEF InSocket
  <2>1. j - 1 \in DOMAIN toClient' /\ toClient'[j - 1] = toClient[j]
    BY SocketTail
  <2> QED BY <2>1 DEF InSocket
<1>2. InSocket' \subseteq InSocket
  BY SocketTail DEF InSocket
<1>3. Head(toClient).type = "MESSAGE" => Head(toClient).id \in InSocket
  BY SocketTail DEF InSocket
<1> QED BY <1>1, <1>2, <1>3

LEMMA SocketEmpty == toClient' = <<>> => InSocket' = {}
BY DEF InSocket

LEMMA SocketKept == UNCHANGED toClient => InSocket' = InSocket
BY DEF InSocket

LEMMA StoreKept == UNCHANGED events_map => Stored' = Stored
BY DEF Stored

LEMMA ProcessKept == UNCHANGED <<spc, frame>> => InProcess' = InProcess
BY DEF InProcess

LEMMA StoreInvKept ==
  ASSUME StoreInv, UNCHANGED <<link, toClient, sent, events_map, spc, frame>>
  PROVE  StoreInv'
BY SocketKept, StoreKept, ProcessKept DEF StoreInv, Clearing, NothingMissed

LEMMA InitStore == Init => StoreInv
<1> SUFFICES ASSUME Init PROVE StoreInv
  OBVIOUS
<1>1. Stored = {}
  BY DEF Init, Stored
<1> QED BY <1>1 DEF Init, SessionInit, StoreInv, Clearing, NothingMissed

\* The server's end: a frame more in the socket, a MESSAGE or another.
LEMMA ServerStore == TypeOK /\ StoreInv /\ Server => StoreInv'
<1> SUFFICES ASSUME TypeOK, StoreInv, Server PROVE StoreInv'
  OBVIOUS
<1>u. UNCHANGED <<spc, frame, events_map>> /\ link = "open" /\ sent \in Nat
  BY DEF Server, reader, globals, TypeOK, SessionTypeOK, Take, TakeConnect, TakeSubscribe,
         TakeUnsubscribe, TakeSend, TakeDisconnect, Takes, OtherPublishes, ServerDies
<1>v. Stored' = Stored /\ InProcess' = InProcess
  BY <1>u, StoreKept, ProcessKept
<1>f. ASSUME NEW f, toClient' = Append(toClient, f), link' \in {"open", "closed"},
             \/ f.type # "MESSAGE" /\ sent' = sent
             \/ f.type = "MESSAGE" /\ f.id = sent + 1 /\ sent' = sent + 1
      PROVE  StoreInv'
  <2>1. InSocket' = InSocket \cup (IF f.type = "MESSAGE" THEN {f.id} ELSE {})
    BY <1>f, SocketIdsAppend
  <2>2. 1..sent' = 1..sent \cup (IF f.type = "MESSAGE" THEN {f.id} ELSE {})
    BY <1>f, <1>u
  <2> QED BY <1>f, <1>u, <1>v, <2>1, <2>2 DEF StoreInv, Clearing, NothingMissed
<1>1. ASSUME NEW type \in {"CONNECTED", "RECEIPT"}, NEW i, Taken(Reply(type, i)), sent' = sent
      PROVE  StoreInv'
  <2>1. Reply(type, i).type # "MESSAGE"
    BY DEF Reply
  <2> QED BY <1>1, <1>f, <2>1 DEF Taken
<1>2. CASE Refuse
  <2>1. Reply("ERROR", -1).type # "MESSAGE"
    BY DEF Reply
  <2> QED BY <1>2, <2>1, <1>f DEF Refuse
<1>3. ASSUME NEW u, NEW ch, NEW t, toClient' = Append(toClient, MessageFrom(u, ch, t)),
             sent' = sent + 1, link' = "open"
      PROVE  StoreInv'
  <2>1. MessageFrom(u, ch, t).type = "MESSAGE" /\ MessageFrom(u, ch, t).id = sent + 1
    BY DEF MessageFrom
  <2> QED BY <1>3, <2>1, <1>f
<1>4. CASE link' = "closed" /\ toServer' = <<>>
  BY <1>4 DEF StoreInv, NothingMissed
<1> QED BY <1>u, <1>1, <1>2, <1>3, <1>4, ServerSteps DEF Taken

LEMMA ReaderStore ==
  TypeOK /\ ReportsInv(Unreadable) /\ LinkInv /\ StoreInv /\ RunReader => StoreInv'
<1> SUFFICES ASSUME TypeOK, ReportsInv(Unreadable), LinkInv, StoreInv, RunReader PROVE StoreInv'
  OBVIOUS
\* A step that only moves the reader on, outside the teardown, and drops no
\* report on the way.
<1>n. ASSUME UNCHANGED <<session, events_map>>, ~Clearing, ~Clearing', InProcess' = InProcess,
             spc \in {"noLogout", "reset"} => spc' \in {"noLogout", "reset"}
      PROVE  StoreInv'
  <2>1. Stored' = Stored /\ InSocket' = InSocket /\ UNCHANGED <<link, sent>>
    BY <1>n, StoreKept, SocketKept DEF session
  <2> QED BY <1>n, <2>1 DEF StoreInv, NothingMissed, Clearing
<1>1. CASE Lock \/ GetHandler \/ GetLine \/ ReadFails \/ ReadLogoutId \/ Compare \/ NoLogout
           \/ ClearUser \/ Unlock
  <2>1. /\ UNCHANGED <<session, events_map>> /\ ~Clearing /\ ~Clearing'
        /\ spc \in {"noLogout", "reset"} => spc' \in {"noLogout", "reset"}
    BY <1>1 DEF Lock, GetHandler, GetLine, ReadFails, ReadLogoutId, Compare, NoLogout, ClearUser,
       Unlock, Turn, Clearing, globals
  <2>2. InProcess = {} /\ InProcess' = {}
    BY <1>1 DEF Lock, GetHandler, GetLine, ReadFails, ReadLogoutId, Compare, NoLogout, ClearUser,
       Unlock, Turn, InProcess
  <2> QED BY <2>1, <2>2, <1>n
<1>2. CASE ReadFrame
  <2>1. /\ spc = "read" /\ spc' = "process" /\ toClient # <<>>
        /\ frame' = Head(toClient) /\ toClient' = Tail(toClient)
        /\ UNCHANGED <<link, sent, events_map>>
    BY <1>2 DEF ReadFrame, Turn, globals
  <2>2. InSocket = InSocket' \cup InProcess' /\ InProcess = {} /\ Stored' = Stored
    BY <2>1, SocketIdsTail, StoreKept DEF InProcess
  <2>3. link # "none"
    BY <2>1 DEF LinkInv
  <2> QED BY <2>1, <2>2, <2>3 DEF StoreInv, NothingMissed, Clearing
<1>3. CASE Dispatch
  <2>1. /\ spc = "process" /\ Kept(Unreadable, frame)
        /\ frame.type \in {"CONNECTED", "MESSAGE", "RECEIPT", "ERROR"}
        /\ UNCHANGED <<session, events_map, frame>>
    BY <1>3 DEF Dispatch, Turn, Keep, globals, ReportsInv, CameAvoid, TypeOK, ServerFrame
  <2>2. \/ frame.type = "MESSAGE" /\ spc' \in {"record", "noLogout"}
        \/ frame.type # "MESSAGE" /\ spc' \in {"noLogout", "unlock", "logoutId"}
    BY <1>3, <2>1 DEF Dispatch, Turn, Word, Kept, Unreadable
  <2>3. CASE spc' = "noLogout"
    BY <2>1, <2>3 DEF LinkInv, Processing, StoreInv, NothingMissed, Clearing, session
  <2>4. CASE spc' # "noLogout"
    <3>1. InProcess' = InProcess
      BY <2>1, <2>2, <2>4 DEF InProcess
    <3> QED BY <2>1, <2>2, <2>4, <3>1, <1>n DEF Clearing
  <2> QED BY <2>3, <2>4
<1>4. CASE Record
  <2> DEFINE k == <<frame.user, frame.chan>>
  <2>1. /\ spc = "record" /\ spc' = "unlock" /\ frame.type = "MESSAGE"
        /\ frame \in ServerFrame /\ frame.chan \in Channel
        /\ events_map' = [events_map EXCEPT ![k] = Append(@, frame.id)]
        /\ UNCHANGED <<session, frame>>
    BY <1>4 DEF Record, Turn, Keep, ReportsInv, CameAvoid, Kept, TypeOK
  <2>2. k \in Key /\ frame.id \in Int
    BY <2>1 DEF ServerFrame, Key
  <2>3. Stored' = Stored \cup {frame.id}
    <3> HIDE DEF k
    <3>1. events_map \in [Key -> Seq(Int)]
      BY DEF TypeOK
    <3>2. \A j \in Key \ {k} : events_map'[j] = events_map[j]
      BY <2>1, <3>1
    <3>3. events_map'[k] = Append(events_map[k], frame.id) /\ events_map[k] \in Seq(Int)
      BY <2>1, <2>2, <3>1
    <3>4. {events_map'[k][i] : i \in DOMAIN events_map'[k]}
            = {events_map[k][i] : i \in DOMAIN events_map[k]} \cup {frame.id}
      <4> DEFINE s == events_map[k]
                 e == frame.id
      <4>1. s \in Seq(Int) /\ e \in Int
        BY <3>3, <2>2
      <4> HIDE DEF s, e
      <4>2. /\ DOMAIN Append(s, e) = DOMAIN s \cup {Len(s) + 1}
            /\ \A i \in DOMAIN s : Append(s, e)[i] = s[i]
            /\ Append(s, e)[Len(s) + 1] = e
        BY <4>1
      <4>3. {Append(s, e)[i] : i \in DOMAIN Append(s, e)} = {s[i] : i \in DOMAIN s} \cup {e}
        BY <4>2
      <4> QED BY <3>3, <4>3 DEF s, e
    <3> QED BY <2>2, <3>2, <3>4 DEF Stored
  <2>4. InProcess = {frame.id} /\ InProcess' = {} /\ InSocket' = InSocket
        /\ UNCHANGED <<link, sent>> /\ link # "none"
    BY <2>1, SocketKept DEF InProcess, session, LinkInv, Processing
  <2> QED BY <2>1, <2>3, <2>4 DEF StoreInv, NothingMissed, Clearing
<1>5. CASE DeleteHandler
  <2>1. spc = "reset" /\ spc' = "clearChannels" /\ Close
    BY <1>5 DEF DeleteHandler, Turn, LinkInv, Processing
  <2> QED BY <2>1 DEF Close, Fresh, StoreInv, NothingMissed, Clearing
<1>6. CASE ClearChannels
  <2>1. spc = "clearChannels" /\ spc' = "clearEvents" /\ UNCHANGED <<session, events_map>>
    BY <1>6 DEF ClearChannels, Turn
  <2> QED BY <2>1, SocketKept DEF StoreInv, NothingMissed, Clearing, session
<1>7. CASE ClearEvents
  <2>1. /\ spc = "clearEvents" /\ spc' = "clearUser" /\ events_map' = [k \in Key |-> <<>>]
        /\ UNCHANGED session
    BY <1>7 DEF ClearEvents, Turn
  <2>2. Stored' = {} /\ InProcess' = {} /\ InSocket' = InSocket /\ UNCHANGED <<link, sent>>
    BY <2>1, SocketKept DEF Stored, InProcess, session
  <2> QED BY <2>1, <2>2 DEF StoreInv, NothingMissed, Clearing
<1> QED BY <1>1, <1>2, <1>3, <1>4, <1>5, <1>6, <1>7 DEF RunReader

LEMMA KeyboardStore ==
  TypeOK /\ LinkInv /\ StoreInv /\ (TypeCommand \/ RunCommand) => StoreInv'
<1> SUFFICES ASSUME TypeOK, LinkInv, StoreInv, TypeCommand \/ RunCommand PROVE StoreInv'
  OBVIOUS
<1>u. UNCHANGED <<spc, frame, events_map>>
  BY DEF TypeCommand, RunCommand, reader, ReadCommand, NewHandler, Connect, ResetHandler, JoinAt,
     ExitAt, SetLogoutId, ReportAt, BuildEvent, FindEvents, CopyEvents, SendLine, WriteFrame,
     LoggedIn, Insert, Erase, globals
<1>1. CASE Connect /\ Open(cmd.user)
  <2>1. link' = "open" /\ toClient' = <<>> /\ sent' = 0
    BY <1>1 DEF Open, Fresh
  <2>2. link = "none" /\ ~Processing
    BY <1>1 DEF Connect, LinkInv, Connecting
  <2>3. /\ InSocket' = {} /\ 1..sent' = {} /\ InProcess' = {} /\ Stored' = Stored
        /\ ~Clearing => Stored = {}
    BY <2>1, <2>2, <1>u, SocketEmpty, StoreKept DEF InProcess, Processing, StoreInv
  <2> QED BY <2>1, <2>3, <1>u DEF StoreInv, Clearing, NothingMissed
<1>2. CASE ~(Connect /\ Open(cmd.user))
  <2>1. UNCHANGED <<link, toClient, sent>>
    BY <1>2 DEF TypeCommand, RunCommand, ReadCommand, NewHandler, Connect, ResetHandler, JoinAt,
       ExitAt, SetLogoutId, ReportAt, BuildEvent, FindEvents, CopyEvents, SendLine, WriteFrame,
       Write, LoggedIn, Insert, Erase, session
  <2> QED BY <2>1, <1>u, StoreInvKept
<1> QED BY <1>1, <1>2

LEMMA NextStore ==
  TypeOK /\ ReportsInv(Unreadable) /\ LinkInv /\ StoreInv /\ [Next]_vars => StoreInv'
<1> SUFFICES ASSUME TypeOK, ReportsInv(Unreadable), LinkInv, StoreInv, [Next]_vars PROVE StoreInv'
  OBVIOUS
<1>1. CASE UNCHANGED vars \/ UndefinedBehaviour
  BY <1>1, StoreInvKept DEF vars, UndefinedBehaviour, Crash, session, globals, reader
<1> QED BY <1>1, KeyboardStore, ReaderStore, ServerStore DEF Next, Quiet

\* However the two threads, the server and the network take turns, a client whose
\* reports can be read keeps every message of the session that is open, stored
\* or on its way, and none of an earlier one: a teardown that clears the vectors
\* after the next login has connected takes nothing of the new session with it.
THEOREM SummariesComplete ==
  ASSUME ReadableReports
  PROVE  Spec => []NothingMissed
<1> DEFINE SummaryInv == TypeInv /\ LinkInv /\ ReportsInv(Unreadable) /\ StoreInv
<1>u. "plain" \notin Unreadable
  BY DEF Unreadable
<1>1. Init => SummaryInv
  BY <1>u, InitTypes, InitLinked, InitReports, InitStore
<1>2. SummaryInv /\ [Next]_vars => SummaryInv'
  BY <1>u, NextTypes, NextLinked, NextReports, NextStore DEF TypeInv, ReadableReports
<1>3. SummaryInv => NothingMissed
  BY DEF StoreInv
<1> QED BY <1>1, <1>2, <1>3, PTL DEF Spec

-----------------------------------------------------------------------------
(***************************************************************************)
(* A careful user, who waits for every answer: the frames of one command   *)
(* are gone before the next is typed, and so is the teardown of a session. *)
(* Nothing is assumed here of the server, which may refuse and die, nor of *)
(* the reports.                                                            *)
(***************************************************************************)
\* A frame in the keyboard's hands goes with the command that made it.
Sending(c) == kpc \in {"sendLine", "write"} /\ out.cmd = c
LoggingIn  == kpc = "loggedIn" \/ Sending("CONNECT")
Held ==
  /\ Connecting \/ LoggingIn => cmd.user # None
  /\ kpc = "erase" => out.cmd = "UNSUBSCRIBE"
  /\ kpc \in {"build", "erase"} \/ Sending("SEND") \/ Sending("UNSUBSCRIBE") =>
       channelName \in Channel
  /\ Sending("SEND") => out.chan = channelName

\* A command starts with nothing on its way to the server, and puts at most one
\* frame there, or reports.
AllOf(c)  == \A i \in DOMAIN toServer : toServer[i].cmd = c
NoneOf(c) == \A i \in DOMAIN toServer : toServer[i].cmd # c
Unsent ==
  \/ kpc \in {"new", "connect", "reset", "joinAt", "exitAt", "logoutId", "reportAt"}
  \/ kpc \in {"sendLine", "write"} /\ out.cmd # "SEND"
OneAtATime ==
  /\ Unsent => toServer = <<>>
  /\ kpc = "build" \/ Sending("SEND") => AllOf("SEND")
  /\ kpc \in {"loggedIn", "insert", "erase"} => NoneOf("SEND")
  /\ AllOf("SEND") \/ Len(toServer) <= 1

\* The teardown of a session is over before the next command is typed.
TearsDown     == spc \in {"clearChannels", "clearEvents", "clearUser"}
TornDownAlone == TearsDown => link = "none" /\ ~Connecting

WaitingInv == Held /\ OneAtATime /\ TornDownAlone

LEMMA InitWaiting == Init => WaitingInv
<1> SUFFICES ASSUME Init PROVE WaitingInv
  OBVIOUS
<1>1. kpc = "prompt" /\ toServer = <<>> /\ link = "none" /\ spc = "lock"
  BY DEF Init, SessionInit
<1> QED BY <1>1 DEF WaitingInv, Held, OneAtATime, TornDownAlone, Connecting,
       LoggingIn, Sending, AllOf, NoneOf, Unsent, TearsDown

\* Frames only leave the queue.
Shrinks == \/ UNCHANGED toServer \/ toServer' = <<>>
           \/ toServer # <<>> /\ toServer' = Tail(toServer)
LEMMA Shrunk ==
  ASSUME TypeOK, Shrinks
  PROVE  /\ \A i \in DOMAIN toServer' : \E j \in DOMAIN toServer : toServer'[i] = toServer[j]
         /\ toServer = <<>> => toServer' = <<>>
         /\ Len(toServer) <= 1 => Len(toServer') <= 1
<1>1. CASE UNCHANGED toServer
  BY <1>1
<1>2. CASE toServer' = <<>>
  BY <1>2
<1>3. CASE toServer # <<>> /\ toServer' = Tail(toServer)
  BY <1>3, QueueTail
<1> QED BY <1>1, <1>2, <1>3 DEF Shrinks

LEMMA OneShrunk ==
  ASSUME TypeOK, OneAtATime, Shrinks, UNCHANGED <<kpc, out>>
  PROVE  OneAtATime'
<1>1. (AllOf("SEND") => AllOf("SEND")') /\ (NoneOf("SEND") => NoneOf("SEND")')
  BY Shrunk DEF AllOf, NoneOf
<1> QED BY <1>1, Shrunk DEF OneAtATime, Unsent, Sending

LEMMA ServerShrinks == TypeOK /\ Server => Shrinks
BY ServerSteps DEF Shrinks, Taken, Refuse

LEMMA ReaderShrinks == RunReader => Shrinks
BY DEF Shrinks, RunReader, Lock, GetHandler, GetLine, ReadFails, ReadFrame, Dispatch, Record,
       ReadLogoutId, Compare, NoLogout, DeleteHandler, Close, Fresh, ClearChannels, ClearEvents,
       ClearUser, Unlock, session

LEMMA ServerWaiting == TypeOK /\ WaitingInv /\ Server => WaitingInv'
<1> SUFFICES ASSUME TypeOK, WaitingInv, Server PROVE WaitingInv'
  OBVIOUS
<1>u. UNCHANGED <<kpc, cmd, out, channelName, loggedUser, spc>>
  BY DEF Server, keyboard, reader, globals
<1>1. link = "open"
  BY ServerSteps
<1>2. Held'
  BY <1>u DEF WaitingInv, Held, Connecting, LoggingIn, Sending
<1>3. OneAtATime'
  BY <1>u, ServerShrinks, OneShrunk DEF WaitingInv
<1>4. TornDownAlone'
  BY <1>u, <1>1 DEF WaitingInv, TornDownAlone, TearsDown, Connecting
<1> QED BY <1>2, <1>3, <1>4 DEF WaitingInv

LEMMA ReaderWaiting == TypeOK /\ LinkInv /\ WaitingInv /\ RunReader => WaitingInv'
<1> SUFFICES ASSUME TypeOK, LinkInv, WaitingInv, RunReader PROVE WaitingInv'
  OBVIOUS
<1>u. UNCHANGED <<kpc, cmd, out, channelName>>
  BY DEF RunReader, keyboard, Lock, GetHandler, GetLine, ReadFails, ReadFrame, Dispatch, Record,
         ReadLogoutId, Compare, NoLogout, DeleteHandler, ClearChannels, ClearEvents, ClearUser,
         Unlock, globals
<1>1. Held'
  BY <1>u DEF WaitingInv, Held, Connecting, LoggingIn, Sending
<1>2. OneAtATime'
  BY <1>u, ReaderShrinks, OneShrunk DEF WaitingInv
<1>3. TornDownAlone' /\ (link' = "open" => link = "open")
  <2>1. CASE DeleteHandler
    <3>1. link # "none" /\ spc = "reset"
      BY <2>1 DEF DeleteHandler, Turn, LinkInv, Processing
    <3>2. link' = "none" /\ ~Connecting
      BY <2>1, <3>1 DEF DeleteHandler, Close, Fresh, LinkInv
    <3> QED BY <3>2, <1>u DEF TornDownAlone, Connecting
  <2>2. CASE ~DeleteHandler
    <3>1. UNCHANGED link /\ (TearsDown' => TearsDown)
      <4>1. CASE Dispatch
        BY <4>1 DEF Dispatch, Turn, Word, TearsDown, session, TypeOK, ServerFrame
      <4>2. CASE ~Dispatch
        BY <2>2, <4>2 DEF RunReader, Lock, GetHandler, GetLine, ReadFails, ReadFrame, Record,
           ReadLogoutId, Compare, NoLogout, ClearChannels, ClearEvents, ClearUser, Unlock, Turn,
           TearsDown, session
      <4> QED BY <4>1, <4>2
    <3> QED BY <3>1, <1>u DEF WaitingInv, TornDownAlone, Connecting
  <2> QED BY <2>1, <2>2
<1> QED BY <1>1, <1>2, <1>3 DEF WaitingInv

LEMMA KeyboardWaiting ==
  ASSUME Careful, TypeInv, LinkInv, WaitingInv, TypeCommand \/ RunCommand
  PROVE  WaitingInv'
<1>t. TypeOK /\ CommandNamed /\ Held /\ OneAtATime /\ TornDownAlone
  BY DEF TypeInv, NamedInv, WaitingInv
<1>u. UNCHANGED spc
  BY DEF TypeCommand, RunCommand, reader
<1>o. out.cmd \in {"CONNECT", "SUBSCRIBE", "UNSUBSCRIBE", "SEND", "DISCONNECT"}
  BY <1>t DEF TypeOK, ClientFrame
\* A step that leaves the socket as it is.
<1>n. ASSUME UNCHANGED <<link, toServer>>, Connecting' => Connecting, Held', OneAtATime'
      PROVE  WaitingInv'
  BY <1>n, <1>t, <1>u DEF WaitingInv, TornDownAlone, TearsDown
<1>0. CASE TypeCommand
  <2>1. PICK c \in Commands : ReadCommand(c)
    BY <1>0 DEF TypeCommand
  <2>2. /\ c.op \in {"login", "join", "exit", "logout", "report", "summary"}
        /\ c.op = "login" => c.user # None
    BY ClientAssumption DEF Command
  <2>3. /\ kpc = "prompt" /\ kpc' = First(c.op) /\ cmd' = c /\ Settled
        /\ UNCHANGED <<session, loggedUser>>
    BY <2>1 DEF ReadCommand
  <2>4. /\ kpc' \in {"new", "joinAt", "exitAt", "logoutId", "reportAt", "find"}
        /\ kpc' = "new" => c.op = "login"
    BY <2>2, <2>3 DEF First
  <2>5. Held'
    BY <2>2, <2>3, <2>4 DEF Held, Connecting, LoggingIn, Sending
  <2>6. OneAtATime'
    BY <2>3, <2>4, <1>t DEF OneAtATime, Settled, AllOf, NoneOf, Unsent, Sending, session
  <2>7. TornDownAlone'
    BY <2>3, <1>u DEF TornDownAlone, Settled, TearsDown
  <2> QED BY <2>5, <2>6, <2>7 DEF WaitingInv
<1>1. CASE NewHandler
  <2>1. /\ kpc = "new" /\ kpc' = "connect" /\ UNCHANGED <<session, cmd, loggedUser>>
    BY <1>1 DEF NewHandler, Goto, globals
  <2>2. Held' /\ OneAtATime'
    BY <2>1, <1>t DEF Held, OneAtATime, AllOf, NoneOf, Unsent, Connecting, LoggingIn, Sending, session
  <2> QED BY <2>1, <2>2, <1>n DEF Connecting, LoggingIn, Sending, session
<1>2. CASE Connect
  <2>1. CASE Open(cmd.user) /\ Send(Frame("CONNECT", cmd.user, None, -1, -1, "plain"))
    <3>1. /\ kpc = "connect" /\ kpc' = "sendLine" /\ out'.cmd = "CONNECT" /\ UNCHANGED cmd
          /\ link' = "open" /\ toServer' = <<>>
      BY <1>2, <2>1 DEF Connect, Open, Fresh, Send, Goto, Frame
    <3>2. Held'
      BY <3>1, <1>t DEF Held, Connecting, LoggingIn, Sending
    <3>3. OneAtATime'
      BY <3>1 DEF OneAtATime, AllOf, NoneOf, Unsent, Sending
    <3>4. TornDownAlone'
      BY <3>1, <1>t, <1>u DEF TornDownAlone, TearsDown, Connecting
    <3> QED BY <3>2, <3>3, <3>4 DEF WaitingInv
  <2>2. CASE Goto("reset") /\ UNCHANGED <<session, out>>
    <3>1. /\ kpc = "connect" /\ kpc' = "reset" /\ UNCHANGED <<session, cmd, loggedUser>>
      BY <1>2, <2>2 DEF Connect, Goto, globals
    <3>2. Held' /\ OneAtATime'
      BY <3>1, <1>t DEF Held, OneAtATime, AllOf, NoneOf, Unsent, Connecting, LoggingIn, Sending, session
    <3> QED BY <3>1, <3>2, <1>n DEF Connecting, LoggingIn, Sending, session
  <2> QED BY <1>2, <2>1, <2>2 DEF Connect
\* A command ends.
<1>d. ASSUME Done, UNCHANGED <<link, toServer, loggedUser>>, ~LoggingIn
      PROVE  WaitingInv'
  <2>1. kpc' = "prompt"
    BY <1>d DEF Done
  <2>2. Held' /\ OneAtATime'
    BY <2>1, <1>d, <1>t DEF Held, OneAtATime, AllOf, NoneOf, Unsent, Connecting, LoggingIn, Sending
  <2> QED BY <2>1, <2>2, <1>d, <1>n DEF Connecting, Sending
\* A frame other than a report is made.
<1>f. ASSUME NEW f, Send(f), f.cmd \in {"SUBSCRIBE", "UNSUBSCRIBE", "DISCONNECT"},
             f.cmd = "UNSUBSCRIBE" => channelName' \in Channel,
             Unsent, ~LoggingIn, UNCHANGED <<link, toServer, loggedUser>>
      PROVE  WaitingInv'
  <2>1. kpc' = "sendLine" /\ out' = f /\ toServer = <<>>
    BY <1>f, <1>t DEF Send, Goto, OneAtATime
  <2>2. Held' /\ OneAtATime'
    BY <2>1, <1>f DEF Held, OneAtATime, AllOf, NoneOf, Unsent, Connecting, LoggingIn, Sending
  <2> QED BY <2>1, <2>2, <1>f, <1>n DEF Connecting, Sending
<1>3. CASE ResetHandler
  BY <1>3, <1>d DEF ResetHandler, session, globals, LoggingIn, Sending
<1>4. CASE JoinAt
  BY <1>4, <1>f DEF JoinAt, Receipted, Frame, Unsent, LoggingIn, Sending, session, globals
<1>5. CASE ExitAt
  <2>1. kpc = "exitAt" /\ channelName' \in Channel /\ UNCHANGED <<session, globals>>
    BY <1>5, <1>t DEF ExitAt, CommandNamed, globals
  <2>2. Unsent /\ ~LoggingIn /\ UNCHANGED <<link, toServer, loggedUser>>
    BY <2>1 DEF Unsent, LoggingIn, Sending, session, globals
  <2>3. CASE Done
    BY <2>2, <2>3, <1>d
  <2>4. CASE Send(Receipted("UNSUBSCRIBE", channels_map[channelName]))
    BY <2>1, <2>2, <2>4, <1>f DEF Receipted, Frame
  <2> QED BY <1>5, <2>3, <2>4 DEF ExitAt
<1>6. CASE SetLogoutId
  BY <1>6, <1>f DEF SetLogoutId, Frame, Unsent, LoggingIn, Sending, session, globals
<1>7. CASE ReportAt
  <2>1. kpc = "reportAt" /\ channelName' \in Channel /\ UNCHANGED <<session, globals>>
    BY <1>7, <1>t DEF ReportAt, CommandNamed, globals
  <2>2. Unsent /\ ~LoggingIn /\ ~Sending("SEND") /\ UNCHANGED <<link, toServer, loggedUser>>
    BY <2>1 DEF Unsent, LoggingIn, Sending, session, globals
  <2>3. CASE Done
    BY <2>2, <2>3, <1>d
  <2>4. CASE Goto("build")
    <3>1. kpc' = "build" /\ toServer = <<>>
      BY <2>2, <2>4, <1>t DEF Goto, OneAtATime
    <3>2. Held' /\ OneAtATime'
      BY <2>1, <2>2, <3>1 DEF Held, OneAtATime, AllOf, NoneOf, Unsent, Connecting, LoggingIn, Sending
    <3> QED BY <2>2, <3>1, <3>2, <1>n DEF Connecting, Sending
  <2> QED BY <1>7, <2>3, <2>4 DEF ReportAt
<1>8. CASE BuildEvent
  <2>1. /\ kpc = "build" /\ kpc' = "sendLine" /\ out'.cmd = "SEND" /\ out'.user = loggedUser
        /\ out'.chan = channelName /\ UNCHANGED <<session, globals>>
    BY <1>8 DEF BuildEvent, Send, Goto, Frame
  <2>2. UNCHANGED <<link, toServer, loggedUser, channelName>> /\ ~LoggingIn
    BY <2>1 DEF LoggingIn, Sending, session, globals
  <2>3. Held' /\ OneAtATime'
    BY <2>1, <2>2, <1>t DEF Held, OneAtATime, AllOf, NoneOf, Unsent, Connecting, LoggingIn, Sending
  <2>4. TornDownAlone'
    BY <2>1, <2>2, <1>t, <1>u DEF TornDownAlone, TearsDown, Connecting
  <2> QED BY <2>3, <2>4 DEF WaitingInv
<1>9. CASE FindEvents
  <2>1. kpc = "find" /\ UNCHANGED <<link, toServer, loggedUser>>
    BY <1>9 DEF FindEvents, session, globals
  <2>2. ~LoggingIn /\ ~Sending("SEND")
    BY <2>1 DEF LoggingIn, Sending
  <2>3. CASE Done
    BY <2>1, <2>2, <2>3, <1>d
  <2>4. CASE Goto("copy")
    <3>1. kpc' = "copy"
      BY <2>4 DEF Goto
    <3>2. Held' /\ OneAtATime'
      BY <2>1, <3>1, <1>t DEF Held, OneAtATime, AllOf, NoneOf, Unsent, Connecting, LoggingIn, Sending
    <3> QED BY <2>1, <2>2, <3>1, <3>2, <1>n DEF Connecting, Sending
  <2> QED BY <1>9, <2>3, <2>4 DEF FindEvents
<1>10. CASE CopyEvents
  BY <1>10, <1>d DEF CopyEvents, LoggingIn, Sending, session, globals
<1>11. CASE SendLine
  <2>1. /\ kpc = "sendLine" /\ kpc' = "write"
        /\ UNCHANGED <<cmd, out, link, toServer, loggedUser, channelName>>
    BY <1>11 DEF SendLine, session, globals
  <2>2. Held' /\ OneAtATime'
    BY <2>1, <1>t DEF Held, OneAtATime, AllOf, NoneOf, Unsent, Connecting, LoggingIn, Sending
  <2> QED BY <2>1, <2>2, <1>n DEF Connecting, LoggingIn, Sending
<1>12. CASE WriteFrame
  <2>1. kpc = "write" /\ UNCHANGED <<link, channelName, loggedUser>>
    BY <1>12 DEF WriteFrame, Write, session, globals
  <2>2. CASE kptr = connectionHandler /\ Write(out) /\ AfterSend
    <3>1. toServer' = IF link = "open" THEN Append(toServer, out) ELSE toServer
      BY <2>2 DEF Write
    <3>2. CASE out.cmd = "SEND"
      <4>1. kpc' \in {"prompt", "build"} /\ AllOf("SEND")
        BY <2>1, <2>2, <3>2, <1>t DEF AfterSend, NextEvent, Done, OneAtATime, Sending
      <4>2. AllOf("SEND")'
        BY <3>1, <3>2, <4>1, <1>t, QueueAppend DEF AllOf
      <4>3. Held' /\ OneAtATime'
        BY <2>1, <3>2, <4>1, <4>2, <1>t DEF Held, OneAtATime, Unsent, Connecting, LoggingIn, Sending
      <4>4. TornDownAlone'
        BY <2>1, <4>1, <1>t, <1>u DEF TornDownAlone, TearsDown, Connecting
      <4> QED BY <4>3, <4>4 DEF WaitingInv
    <3>3. CASE out.cmd # "SEND"
      <4>1. /\ \/ kpc' \in {"loggedIn", "insert", "erase", "prompt"} /\ UNCHANGED cmd
               \/ kpc' = "prompt"
            /\ kpc' = "loggedIn" <=> out.cmd = "CONNECT"
            /\ kpc' = "erase" => out.cmd = "UNSUBSCRIBE" /\ out' = out
        BY <2>2, <3>3, <1>o DEF AfterSend, Goto, Done
      <4>2. toServer = <<>>
        BY <2>1, <3>3, <1>t DEF OneAtATime, Unsent
      <4>3. NoneOf("SEND")' /\ Len(toServer') <= 1
        BY <3>1, <3>3, <4>2, <1>t, QueueAppend DEF NoneOf
      <4>4. Held'
        BY <2>1, <4>1, <1>t DEF Held, Connecting, LoggingIn, Sending
      <4>5. OneAtATime'
        BY <4>1, <4>3 DEF OneAtATime, Unsent, Sending
      <4>6. TornDownAlone'
        BY <2>1, <4>1, <1>t, <1>u DEF TornDownAlone, TearsDown, Connecting
      <4> QED BY <4>4, <4>5, <4>6 DEF WaitingInv
    <3> QED BY <3>2, <3>3
  <2>3. CASE (kptr # connectionHandler \/ link # "open") /\ AfterFailure /\ UNCHANGED session
    <3>1. link # "open" /\ UNCHANGED <<link, toServer>>
      BY <2>1, <2>3 DEF LinkInv, session
    <3>2. kpc' \in {"prompt", "build"} /\ (kpc' = "build" => out.cmd = "SEND")
      BY <2>3 DEF AfterFailure, NextEvent, Done
    <3>3. Held' /\ OneAtATime'
      BY <2>1, <3>1, <3>2, <1>t DEF Held, OneAtATime, AllOf, NoneOf, Unsent, Connecting, LoggingIn,
                                    Sending
    <3>4. TornDownAlone'
      BY <2>1, <3>2, <1>t, <1>u DEF TornDownAlone, TearsDown, Connecting
    <3> QED BY <3>3, <3>4 DEF WaitingInv
  <2> QED BY <1>12, <2>2, <2>3 DEF WriteFrame
<1>13. CASE LoggedIn
  <2>1. kpc = "loggedIn" /\ kpc' = "prompt" /\ loggedUser' = cmd.user /\ UNCHANGED <<link, toServer>>
    BY <1>13 DEF LoggedIn, Done, session
  <2>2. Held' /\ OneAtATime'
    BY <2>1, <1>t DEF Held, OneAtATime, AllOf, NoneOf, Unsent, Connecting, LoggingIn, Sending
  <2>3. TornDownAlone'
    BY <2>1, <1>t, <1>u DEF TornDownAlone, TearsDown, Connecting
  <2> QED BY <2>2, <2>3 DEF WaitingInv
<1>14. CASE Insert
  BY <1>14, <1>d DEF Insert, LoggingIn, Sending, session
<1>15. CASE Erase
  BY <1>15, <1>d DEF Erase, LoggingIn, Sending, session
<1> QED BY <1>0, <1>1, <1>2, <1>3, <1>4, <1>5, <1>6, <1>7, <1>8, <1>9, <1>10, <1>11, <1>12,
           <1>13, <1>14, <1>15 DEF RunCommand

LEMMA NextWaiting ==
  ASSUME Careful, TypeInv, LinkInv, WaitingInv, [Next]_vars
  PROVE  WaitingInv'
<1>t. TypeOK
  BY DEF TypeInv
<1>1. CASE UNCHANGED vars \/ UndefinedBehaviour
  <2>1. UNCHANGED <<link, toServer, channelName, loggedUser, kpc, cmd, out, spc>>
    BY <1>1 DEF vars, UndefinedBehaviour, Crash, session, globals, keyboard, reader
  <2> QED BY <2>1 DEF WaitingInv, Held, OneAtATime, TornDownAlone, Connecting,
             LoggingIn, Sending, AllOf, NoneOf, Unsent, TearsDown
<1> QED BY <1>t, <1>1, KeyboardWaiting, ReaderWaiting, ServerWaiting DEF Next, Quiet

-----------------------------------------------------------------------------
(***************************************************************************)
(* The name on a report, for any user: loggedUser is written by both       *)
(* threads, by the keyboard when the CONNECT is out and by the reader at   *)
(* the end of a teardown.                                                  *)
(***************************************************************************)
\* Whoever is not logging in has the name of the open session, or none, and so do
\* the reports he makes.
Signed ==
  /\ link = "open" /\ LoggingIn => cmd.user = name
  /\ link = "open" /\ ~LoggingIn => OwnName(loggedUser)
  /\ link = "open" /\ Sending("SEND") => OwnName(out.user)
  /\ ReportsSigned

LEMMA InitSigned == Init => Signed
BY DEF Init, SessionInit, Signed, ReportsSigned, LoggingIn, Sending

\* A step that leaves the keyboard where it is and lets frames out of the queue.
LEMMA SignedKept ==
  ASSUME TypeOK, Signed, Shrinks, UNCHANGED <<kpc, cmd, out>>,
         link' = "open" => OwnName(loggedUser') \/ loggedUser' = loggedUser,
         link' = "open" => link = "open",
         name' = name
  PROVE  Signed'
<1>1. ReportsSigned'
  <2> SUFFICES ASSUME NEW i \in DOMAIN toServer', toServer'[i].cmd = "SEND"
               PROVE  OwnName(toServer'[i].user)
    BY DEF ReportsSigned, OwnName
  <2>1. PICK j \in DOMAIN toServer : toServer'[i] = toServer[j]
    BY Shrunk
  <2> QED BY <2>1 DEF Signed, ReportsSigned
<1> QED BY <1>1 DEF Signed, LoggingIn, Sending, OwnName

LEMMA ServerSigned == TypeOK /\ Signed /\ Server => Signed'
<1> SUFFICES ASSUME TypeOK, Signed, Server PROVE Signed'
  OBVIOUS
<1>1. UNCHANGED <<kpc, cmd, out, loggedUser, name>> /\ link = "open"
  BY ServerSteps DEF keyboard, globals
<1> QED BY <1>1, ServerShrinks, SignedKept

LEMMA ReaderSigned ==
  ASSUME TypeOK, LinkInv, Careful => TornDownAlone, Signed, RunReader
  PROVE  Signed'
<1>u. UNCHANGED <<kpc, cmd, out>>
  BY DEF RunReader, keyboard, Lock, GetHandler, GetLine, ReadFails, ReadFrame, Dispatch, Record,
         ReadLogoutId, Compare, NoLogout, DeleteHandler, ClearChannels, ClearEvents, ClearUser,
         Unlock
<1>1. CASE DeleteHandler
  <2>1. link # "none" /\ spc = "reset" /\ connectionHandler # 0
    BY <1>1 DEF DeleteHandler, Turn, LinkInv, Processing
  <2>2. link' = "none" /\ toServer' = <<>>
    BY <1>1, <2>1 DEF DeleteHandler, Close, Fresh
  <2> QED BY <1>u, <2>2 DEF Signed, ReportsSigned
<1>2. CASE ClearUser
  <2>1. UNCHANGED <<name, link, toServer>> /\ loggedUser' = None /\ TearsDown
    BY <1>2 DEF ClearUser, Turn, session, TearsDown
  <2>2. link = "open" => OwnName(loggedUser')
    BY <2>1 DEF TornDownAlone, OwnName
  <2> QED BY <1>u, <2>1, <2>2, SignedKept DEF Shrinks
<1>3. CASE ~DeleteHandler /\ ~ClearUser
  <2>1. UNCHANGED <<name, link, toServer, loggedUser>>
    BY <1>3 DEF RunReader, Lock, GetHandler, GetLine, ReadFails, ReadFrame, Dispatch, Record,
       ReadLogoutId, Compare, NoLogout, ClearChannels, ClearEvents, Unlock, session, globals
  <2> QED BY <1>u, <2>1, SignedKept DEF Shrinks
<1> QED BY <1>1, <1>2, <1>3

LEMMA KeyboardSigned ==
  ASSUME TypeOK, LinkInv, Signed, TypeCommand \/ RunCommand
  PROVE  Signed'
\* A step that leaves the session as it is, and is not one of a login.
<1>n. ASSUME UNCHANGED <<name, link, toServer, loggedUser>>, ~LoggingIn, ~LoggingIn',
             Sending("SEND")' => Sending("SEND") /\ UNCHANGED out
      PROVE  Signed'
  BY <1>n DEF Signed, ReportsSigned, OwnName
<1>d. ASSUME Done, UNCHANGED <<name, link, toServer, loggedUser>>, ~LoggingIn
      PROVE  Signed'
  BY <1>d, <1>n DEF Done, LoggingIn, Sending
<1>f. ASSUME NEW f, Send(f), f.cmd \in {"SUBSCRIBE", "UNSUBSCRIBE", "DISCONNECT"},
             ~LoggingIn, UNCHANGED <<name, link, toServer, loggedUser>>
      PROVE  Signed'
  BY <1>f, <1>n DEF Send, Goto, LoggingIn, Sending
<1>o. out.cmd \in {"CONNECT", "SUBSCRIBE", "UNSUBSCRIBE", "SEND", "DISCONNECT"}
  BY DEF TypeOK, ClientFrame
<1>0. CASE TypeCommand
  <2>1. PICK c \in Commands : ReadCommand(c)
    BY <1>0 DEF TypeCommand
  <2>2. c.op \in {"login", "join", "exit", "logout", "report", "summary"}
    BY ClientAssumption DEF Command
  <2>3. /\ kpc = "prompt" /\ kpc' = First(c.op) /\ UNCHANGED <<session, loggedUser>>
    BY <2>1 DEF ReadCommand
  <2>4. kpc' \in {"new", "joinAt", "exitAt", "logoutId", "reportAt", "find"}
    BY <2>2, <2>3 DEF First
  <2> QED BY <2>3, <2>4, <1>n DEF LoggingIn, Sending, session
<1>1. CASE NewHandler
  BY <1>1, <1>n DEF NewHandler, Goto, LoggingIn, Sending, session, globals
<1>2. CASE Connect
  <2>1. CASE Open(cmd.user) /\ Send(Frame("CONNECT", cmd.user, None, -1, -1, "plain"))
    <3>1. /\ kpc' = "sendLine" /\ out'.cmd = "CONNECT" /\ UNCHANGED cmd
          /\ name' = cmd.user /\ toServer' = <<>>
      BY <1>2, <2>1 DEF Connect, Open, Fresh, Send, Goto, Frame
    <3> QED BY <3>1 DEF Signed, ReportsSigned, LoggingIn, Sending
  <2>2. CASE Goto("reset") /\ UNCHANGED <<session, out>>
    BY <1>2, <2>2, <1>n DEF Connect, Goto, LoggingIn, Sending, session, globals
  <2> QED BY <1>2, <2>1, <2>2 DEF Connect
<1>3. CASE ResetHandler
  BY <1>3, <1>d DEF ResetHandler, LoggingIn, Sending, session, globals
<1>4. CASE JoinAt
  BY <1>4, <1>f DEF JoinAt, Receipted, Frame, LoggingIn, Sending, session, globals
<1>5. CASE ExitAt
  <2>1. kpc = "exitAt" /\ UNCHANGED <<session, globals>>
    BY <1>5 DEF ExitAt, globals
  <2>2. ~LoggingIn /\ UNCHANGED <<name, link, toServer, loggedUser>>
    BY <2>1 DEF LoggingIn, Sending, session, globals
  <2>3. CASE Done
    BY <2>2, <2>3, <1>d
  <2>4. CASE Send(Receipted("UNSUBSCRIBE", channels_map[channelName]))
    BY <2>2, <2>4, <1>f DEF Receipted, Frame
  <2> QED BY <1>5, <2>3, <2>4 DEF ExitAt
<1>6. CASE SetLogoutId
  BY <1>6, <1>f DEF SetLogoutId, Frame, LoggingIn, Sending, session, globals
<1>7. CASE ReportAt
  <2>1. ~LoggingIn /\ UNCHANGED <<name, link, toServer, loggedUser>>
    BY <1>7 DEF ReportAt, LoggingIn, Sending, session, globals
  <2>2. CASE Done
    BY <2>1, <2>2, <1>d
  <2>3. CASE Goto("build")
    BY <2>1, <2>3, <1>n DEF Goto, LoggingIn, Sending
  <2> QED BY <1>7, <2>2, <2>3 DEF ReportAt
<1>8. CASE BuildEvent
  <2>1. /\ kpc = "build" /\ kpc' = "sendLine" /\ out'.cmd = "SEND" /\ out'.user = loggedUser
        /\ UNCHANGED <<name, link, toServer, loggedUser>>
    BY <1>8 DEF BuildEvent, Send, Goto, Frame, session, globals
  <2> QED BY <2>1 DEF Signed, ReportsSigned, LoggingIn, Sending, OwnName
<1>9. CASE FindEvents
  <2>1. ~LoggingIn /\ UNCHANGED <<name, link, toServer, loggedUser>>
    BY <1>9 DEF FindEvents, LoggingIn, Sending, session, globals
  <2>2. CASE Done
    BY <2>1, <2>2, <1>d
  <2>3. CASE Goto("copy")
    BY <2>1, <2>3, <1>n DEF Goto, LoggingIn, Sending
  <2> QED BY <1>9, <2>2, <2>3 DEF FindEvents
<1>10. CASE CopyEvents
  BY <1>10, <1>d DEF CopyEvents, LoggingIn, Sending, session, globals
<1>11. CASE SendLine
  <2>1. /\ kpc = "sendLine" /\ kpc' = "write"
        /\ UNCHANGED <<cmd, out, name, link, toServer, loggedUser>>
    BY <1>11 DEF SendLine, session, globals
  <2> QED BY <2>1 DEF Signed, ReportsSigned, LoggingIn, Sending, OwnName
<1>12. CASE WriteFrame
  <2>1. kpc = "write" /\ UNCHANGED <<name, link, loggedUser>>
    BY <1>12 DEF WriteFrame, Write, session, globals
  <2>2. CASE kptr = connectionHandler /\ Write(out) /\ AfterSend
    <3>1. toServer' = IF link = "open" THEN Append(toServer, out) ELSE toServer
      BY <2>2 DEF Write
    <3>2. /\ kpc' \in {"loggedIn", "insert", "erase", "prompt", "build"}
          /\ kpc' = "loggedIn" <=> out.cmd = "CONNECT"
          /\ kpc' = "loggedIn" => UNCHANGED cmd
      BY <2>2, <1>o DEF AfterSend, Goto, NextEvent, Done
    <3>3. ReportsSigned'
      <4>1. link = "open" /\ out.cmd = "SEND" => OwnName(out.user)
        BY <2>1 DEF Signed, Sending
      <4> QED BY <2>1, <3>1, <4>1, QueueAppend DEF Signed, ReportsSigned, OwnName
    <3> QED BY <2>1, <3>2, <3>3 DEF Signed, LoggingIn, Sending, OwnName
  <2>3. CASE (kptr # connectionHandler \/ link # "open") /\ AfterFailure /\ UNCHANGED session
    <3>1. link # "open" /\ UNCHANGED <<name, link, toServer>>
      BY <2>1, <2>3 DEF LinkInv, session
    <3> QED BY <3>1 DEF Signed, ReportsSigned, OwnName
  <2> QED BY <1>12, <2>2, <2>3 DEF WriteFrame
<1>13. CASE LoggedIn
  <2>1. /\ kpc = "loggedIn" /\ kpc' = "prompt" /\ loggedUser' = cmd.user
        /\ UNCHANGED <<name, link, toServer>>
    BY <1>13 DEF LoggedIn, Done, session
  <2> QED BY <2>1 DEF Signed, ReportsSigned, LoggingIn, Sending, OwnName
<1>14. CASE Insert
  BY <1>14, <1>d DEF Insert, LoggingIn, Sending, session
<1>15. CASE Erase
  BY <1>15, <1>d DEF Erase, LoggingIn, Sending, session
<1> QED BY <1>0, <1>1, <1>2, <1>3, <1>4, <1>5, <1>6, <1>7, <1>8, <1>9, <1>10, <1>11, <1>12,
           <1>13, <1>14, <1>15 DEF RunCommand

LEMMA NextSigned ==
  ASSUME TypeInv, LinkInv, Careful => WaitingInv, Signed, [Next]_vars
  PROVE  Signed'
<1>t. TypeOK /\ (Careful => TornDownAlone)
  BY DEF TypeInv, WaitingInv
<1>1. CASE UNCHANGED vars \/ UndefinedBehaviour
  <2>1. UNCHANGED <<name, link, toServer, loggedUser, kpc, cmd, out>>
    BY <1>1 DEF vars, UndefinedBehaviour, Crash, session, globals, keyboard
  <2> QED BY <2>1 DEF Signed, ReportsSigned, LoggingIn, Sending, OwnName
<1> QED BY <1>t, <1>1, KeyboardSigned, ReaderSigned, ServerSigned DEF Next, Quiet

\* Reports go out with the name their session was opened with, whatever is typed
\* and when, whatever the server refuses and whenever it dies: between the
\* CONNECT and the line that stores the name no report is made.  A user who waits
\* never reports without a name either, for the teardown that clears it is over
\* before there is a socket again.
THEOREM ReportsAreSigned == Spec => []ReportsSigned
<1> DEFINE Inv == TypeInv /\ LinkInv /\ (Careful => WaitingInv) /\ Signed
<1>1. Init => Inv
  BY InitTypes, InitLinked, InitWaiting, InitSigned
<1>2. Inv /\ [Next]_vars => Inv'
  BY NextTypes, NextLinked, NextWaiting, NextSigned DEF TypeInv
<1>3. Inv => ReportsSigned
  BY DEF Signed
<1> QED BY <1>1, <1>2, <1>3, PTL DEF Spec

-----------------------------------------------------------------------------
(***************************************************************************)
(* Then, that the two tables of channels agree, with reports that do not   *)
(* name an ERROR frame: for process takes such a report for an ERROR and   *)
(* ends the session, whatever its user is doing.                           *)
(***************************************************************************)
NoErrorReports == TextsAvoid({"ERROR"})

\* An ERROR is the last frame of its session.
ErrorsClose ==
  (\/ \E i \in DOMAIN toClient : toClient[i].type = "ERROR"
   \/ Processing /\ frame.type = "ERROR") => link # "open"

\* Nothing on its way, or in process, ends the session.
IsReceipt(f) == f.type = "RECEIPT" /\ logout_Id # -1 /\ f.id = logout_Id
Ends(f)      == f.type = "ERROR" \/ IsReceipt(f)
Calm ==
  /\ NoneOf("DISCONNECT")
  /\ \A i \in DOMAIN toClient : ~Ends(toClient[i])
  /\ Processing => ~Ends(frame)
  /\ spc \notin {"noLogout", "reset"} /\ ~TearsDown
Busy    == kpc \notin {"prompt", "loggedIn"}
CalmInv ==
  /\ Busy => Calm /\ NoneOf("CONNECT")
  /\ Busy /\ ~Connecting => connectionHandler # 0

\* A logout is pending until the receipt of its DISCONNECT is read.
Leaving  == logout_Id # -1 \/ spc \in {"noLogout", "reset"}
Expected ==
  \/ \E i \in DOMAIN toServer : toServer[i].cmd = "DISCONNECT" /\ toServer[i].receipt = logout_Id
  \/ \E i \in DOMAIN toClient : IsReceipt(toClient[i])
  \/ spc \in {"process", "logoutId", "compare"} /\ IsReceipt(frame)
  \/ spc \in {"noLogout", "reset"}
LogoutInv ==
  /\ link = "none" \/ spc = "reset" => logout_Id = -1
  /\ spc = "compare" => logout_Id # -1
  /\ link = "open" /\ Leaving => AllOf("DISCONNECT")
  /\ link = "open" /\ Leaving /\ kpc # "prompt" =>
       Sending("DISCONNECT") /\ out.receipt = logout_Id
  /\ link = "open" /\ Leaving /\ kpc = "prompt" => Expected
  /\ link = "open" /\ (Sending("DISCONNECT") \/ ~NoneOf("DISCONNECT")) => Leaving

\* Between logins and logouts the two tables are the same, but for the frame
\* that is on its way and for what its sender has yet to note.
QuitIds   == {toServer[i].id : i \in {j \in DOMAIN toServer : toServer[j].cmd = "UNSUBSCRIBE"}}
ToBeSubs  == {p \in subs \cup QueuedIds : p[1] \notin QuitIds}
ToBeNoted == IF kpc = "insert" THEN StoredIds \cup {<<out.id, channelName>>}
             ELSE IF kpc = "erase" THEN {p \in StoredIds : p[2] # channelName}
             ELSE StoredIds
TablesAgree == link = "open" /\ ~Leaving => ToBeSubs = ToBeNoted
TablesInv ==
  /\ TablesAgree
  /\ link = "none" /\ spc # "clearChannels" => StoredIds = {}
  /\ kpc = "joinAt" \/ Subscribing => channels_map[channelName] = -1
  /\ Sending("UNSUBSCRIBE") \/ kpc = "erase" =>
       channels_map[channelName] # -1 /\ out.id = channels_map[channelName]
  /\ kpc = "build" \/ Sending("SEND") => channels_map[channelName] # -1

\* So the server accepts whatever comes but, perhaps, a login.
Accepted(f) ==
  /\ f.cmd = "SUBSCRIBE"   => \A p \in subs : p[1] # f.id
  /\ f.cmd = "UNSUBSCRIBE" => \E p \in subs : p[1] = f.id
  /\ f.cmd = "SEND"        => f.chan \in Channel /\ channels_map[f.chan] # -1
AcceptedInv == link = "open" => \A i \in DOMAIN toServer : Accepted(toServer[i])

CarefulInv == CalmInv /\ LogoutInv /\ TablesInv /\ AcceptedInv

LEMMA InitCareful == Init => ErrorsClose /\ CarefulInv
<1> SUFFICES ASSUME Init PROVE ErrorsClose /\ CarefulInv
  OBVIOUS
<1>1. StoredIds = {}
  BY DEF Init, StoredIds
<1> QED BY <1>1 DEF Init, SessionInit, ErrorsClose, CarefulInv, CalmInv, LogoutInv, TablesInv,
       TablesAgree, AcceptedInv, Busy, Leaving, Sending, Subscribing

LEMMA NextErrors == TypeOK /\ LinkInv /\ ErrorsClose /\ [Next]_vars => ErrorsClose'
<1> SUFFICES ASSUME TypeOK, LinkInv, ErrorsClose, [Next]_vars PROVE ErrorsClose'
  OBVIOUS
\* A step that opens no socket and brings no frame, or brings one that is not
\* an ERROR.
<1>n. ASSUME link' = "open" => link = "open", UNCHANGED toClient \/ toClient' = <<>>,
             Processing' => Processing /\ UNCHANGED frame
      PROVE  ErrorsClose'
  BY <1>n DEF ErrorsClose
<1>f. ASSUME NEW f, toClient' = Append(toClient, f), f.type # "ERROR", link = "open",
             UNCHANGED <<spc, frame>>
      PROVE  ErrorsClose'
  BY <1>f, SocketAppend DEF ErrorsClose, Processing
<1>1. CASE Server
  <2>1. UNCHANGED <<spc, frame>> /\ link = "open"
    BY <1>1, ServerSteps DEF reader
  <2>2. ASSUME NEW type \in {"CONNECTED", "RECEIPT"}, NEW i, Taken(Reply(type, i))
        PROVE  ErrorsClose'
    <3>1. Reply(type, i).type # "ERROR"
      BY DEF Reply
    <3> QED BY <2>1, <2>2, <3>1, <1>f DEF Taken
  <2>3. ASSUME NEW u, NEW ch, NEW t, toClient' = Append(toClient, MessageFrom(u, ch, t))
        PROVE  ErrorsClose'
    <3>1. MessageFrom(u, ch, t).type # "ERROR"
      BY DEF MessageFrom
    <3> QED BY <2>1, <2>3, <3>1, <1>f
  <2>4. CASE link' = "closed"
    BY <2>4 DEF ErrorsClose
  <2> QED BY <1>1, <2>2, <2>3, <2>4, ServerSteps DEF Taken, Refuse
<1>2. CASE RunReader
  <2>1. CASE ReadFrame
    <3>1. /\ toClient # <<>> /\ toClient' = Tail(toClient) /\ frame' = Head(toClient)
          /\ link' = link
      BY <2>1 DEF ReadFrame
    <3> QED BY <3>1, SocketTail DEF ErrorsClose
  <2>2. CASE DeleteHandler
    BY <2>2 DEF DeleteHandler, LinkInv, Processing, Turn, Close, Fresh, ErrorsClose
  <2>3. CASE ~ReadFrame /\ ~DeleteHandler
    <3>1. UNCHANGED <<link, toClient>> /\ (Processing' => Processing /\ UNCHANGED frame)
      BY <1>2, <2>3 DEF RunReader, Lock, GetHandler, GetLine, ReadFails, Dispatch, Record,
         ReadLogoutId, Compare, NoLogout, ClearChannels, ClearEvents, ClearUser, Unlock, Turn,
         Keep, Processing, session
    <3> QED BY <3>1, <1>n
  <2> QED BY <2>1, <2>2, <2>3
<1>3. CASE TypeCommand \/ RunCommand
  <2>1. UNCHANGED <<spc, frame>>
    BY <1>3 DEF TypeCommand, RunCommand, reader
  <2>2. CASE Connect /\ Open(cmd.user)
    <3>1. link = "none" /\ ~Processing /\ toClient' = <<>>
      BY <2>2 DEF Connect, Open, Fresh, LinkInv, Connecting
    <3> QED BY <2>1, <3>1 DEF ErrorsClose, Processing
  <2>3. CASE ~(Connect /\ Open(cmd.user))
    <3>1. UNCHANGED <<link, toClient>>
      BY <1>3, <2>3 DEF TypeCommand, RunCommand, ReadCommand, NewHandler, Connect, ResetHandler,
         JoinAt, ExitAt, SetLogoutId, ReportAt, BuildEvent, FindEvents, CopyEvents, SendLine,
         WriteFrame, Write, LoggedIn, Insert, Erase, session
    <3> QED BY <2>1, <3>1, <1>n DEF Processing
  <2> QED BY <2>2, <2>3
<1>4. CASE UNCHANGED vars \/ UndefinedBehaviour
  BY <1>4, <1>n DEF vars, UndefinedBehaviour, Crash, session, reader, Processing
<1> QED BY <1>1, <1>2, <1>3, <1>4 DEF Next, Quiet

-----------------------------------------------------------------------------
(* What the tables are to become *)

LEMMA QueueOne ==
  ASSUME TypeOK, toServer # <<>>, Len(toServer) <= 1
  PROVE  DOMAIN toServer = {1} /\ Head(toServer) = toServer[1]
<1>1. toServer \in Seq(ClientFrame)
  BY DEF TypeOK, SessionTypeOK
<1>2. 1 \in DOMAIN toServer
  BY <1>1
<1>3. DOMAIN toServer = 1..Len(toServer) /\ Len(toServer) \in Nat
  BY <1>1
<1> QED BY <1>2, <1>3

LEMMA QuietQueue ==
  /\ NoneOf("SUBSCRIBE") /\ NoneOf("UNSUBSCRIBE") => ToBeSubs = subs
  /\ NoneOf("SUBSCRIBE")' /\ NoneOf("UNSUBSCRIBE")' => ToBeSubs' = subs'
BY DEF NoneOf, ToBeSubs, QueuedIds, QuitIds

LEMMA QueueJoins ==
  ASSUME DOMAIN toServer = {1}, toServer[1].cmd = "SUBSCRIBE"
  PROVE  ToBeSubs = subs \cup {<<toServer[1].id, toServer[1].chan>>}
BY DEF ToBeSubs, QueuedIds, QuitIds

LEMMA QueueQuits ==
  ASSUME DOMAIN toServer = {1}, toServer[1].cmd = "UNSUBSCRIBE"
  PROVE  ToBeSubs = {p \in subs : p[1] # toServer[1].id}
BY DEF ToBeSubs, QueuedIds, QuitIds

LEMMA NotedKept ==
  ASSUME UNCHANGED <<channels_map, kpc, out, channelName>>
  PROVE  ToBeNoted' = ToBeNoted
BY StoredKept DEF ToBeNoted

LEMMA SubsKept == UNCHANGED <<toServer, subs>> => ToBeSubs' = ToBeSubs
BY DEF ToBeSubs, QueuedIds, QuitIds

\* In a session nobody is leaving, with only reports on the way, the tables agree.
LEMMA ReportsAgree ==
  ASSUME WaitingInv, CarefulInv, link = "open", toServer # <<>>, TypeOK, Head(toServer).cmd = "SEND"
  PROVE  AllOf("SEND") /\ ~Leaving /\ subs = StoredIds
<1>1. AllOf("SEND")
  <2>1. CASE Len(toServer) <= 1
    BY <2>1, QueueOne DEF AllOf
  <2> QED BY <2>1 DEF WaitingInv, OneAtATime
<1>2. 1 \in DOMAIN toServer
  <2>1. toServer \in Seq(ClientFrame)
    BY DEF TypeOK, SessionTypeOK
  <2> QED BY <2>1
<1>3. toServer[1].cmd = "SEND"
  BY <1>1, <1>2 DEF AllOf
<1>4. ~Leaving
  BY <1>2, <1>3 DEF CarefulInv, LogoutInv, AllOf
<1>5. kpc \notin {"insert", "erase"}
  BY <1>2, <1>3 DEF WaitingInv, OneAtATime, NoneOf
<1>6. ToBeSubs = subs /\ ToBeNoted = StoredIds
  BY <1>1, <1>5, QuietQueue DEF AllOf, NoneOf, ToBeNoted
<1> QED BY <1>1, <1>4, <1>6 DEF CarefulInv, TablesInv, TablesAgree

LEMMA OnlyLoginsRefused ==
  ASSUME TypeOK, WaitingInv, CarefulInv, link = "open", toServer # <<>>
  PROVE  /\ Head(toServer).cmd = "SUBSCRIBE" => \A p \in subs : p[1] # Head(toServer).id
         /\ Head(toServer).cmd = "UNSUBSCRIBE" => \E p \in subs : p[1] = Head(toServer).id
         /\ Head(toServer).cmd = "SEND" => \E p \in subs : p[2] = Head(toServer).chan
<1>1. 1 \in DOMAIN toServer /\ Head(toServer) = toServer[1]
  <2>1. toServer \in Seq(ClientFrame)
    BY DEF TypeOK, SessionTypeOK
  <2> QED BY <2>1
<1>2. Accepted(Head(toServer))
  BY <1>1 DEF CarefulInv, AcceptedInv
<1>3. ASSUME Head(toServer).cmd = "SEND" PROVE \E p \in subs : p[2] = Head(toServer).chan
  <2> DEFINE ch == Head(toServer).chan
  <2>1. ch \in Channel /\ channels_map[ch] # -1
    BY <1>2, <1>3 DEF Accepted
  <2>2. <<channels_map[ch], ch>> \in StoredIds
    BY <2>1 DEF StoredIds
  <2> QED BY <1>3, <2>2, ReportsAgree
<1> QED BY <1>2, <1>3 DEF Accepted

-----------------------------------------------------------------------------
(* The server's end *)

\* Where nothing ends the session, no answer of the server does, but for a
\* login that may be refused.
LEMMA ServerLetsBe ==
  ASSUME TypeOK, WaitingInv, CarefulInv, Server, Calm, NoneOf("CONNECT") \/ ~MayRefuse
  PROVE  Calm'
<1>u. UNCHANGED <<spc, frame, logout_Id>> /\ link = "open"
  BY ServerSteps DEF reader, ids
<1>q. NoneOf("DISCONNECT")'
  BY ServerShrinks, Shrunk DEF Calm, NoneOf
<1>e. \A g : Ends(g)' <=> Ends(g)
  BY <1>u DEF Ends, IsReceipt
<1>f. ASSUME NEW f, toClient' = Append(toClient, f), ~Ends(f)
      PROVE  Calm'
  BY <1>f, <1>u, <1>q, <1>e, SocketAppend DEF Calm, Processing, TearsDown, Ends, IsReceipt
<1>h. ASSUME toServer # <<>>
      PROVE  /\ Head(toServer).cmd # "DISCONNECT"
             /\ Head(toServer).cmd = "CONNECT" => ~MayRefuse
             /\ Head(toServer).cmd \in {"SUBSCRIBE", "UNSUBSCRIBE"} => logout_Id = -1
  <2>1. 1 \in DOMAIN toServer /\ Head(toServer) = toServer[1]
    <3>1. toServer \in Seq(ClientFrame)
      BY DEF TypeOK, SessionTypeOK
    <3> QED BY <1>h, <3>1
  <2> QED BY <1>h, <1>u, <2>1 DEF Calm, NoneOf, CarefulInv, LogoutInv, Leaving, AllOf
<1>1. CASE Takes("CONNECT") /\ Taken(Reply("CONNECTED", -1))
  <2>1. ~Ends(Reply("CONNECTED", -1))
    BY DEF Ends, IsReceipt, Reply
  <2> QED BY <1>1, <2>1, <1>f DEF Taken
<1>2. CASE (Takes("SUBSCRIBE") \/ Takes("UNSUBSCRIBE")) /\ Taken(Reply("RECEIPT", Head(toServer).receipt))
  <2>1. ~Ends(Reply("RECEIPT", Head(toServer).receipt))
    BY <1>2, <1>h DEF Ends, IsReceipt, Reply, Takes
  <2> QED BY <1>2, <2>1, <1>f DEF Taken
<1>3. ASSUME NEW w, NEW ch, NEW t, toClient' = Append(toClient, MessageFrom(w, ch, t))
      PROVE  Calm'
  <2>1. ~Ends(MessageFrom(w, ch, t))
    BY DEF Ends, IsReceipt, MessageFrom
  <2> QED BY <1>3, <2>1, <1>f
<1>4. CASE Takes("DISCONNECT") \/ (Takes("CONNECT") /\ MayRefuse)
  BY <1>4, <1>h DEF Takes
<1>6. CASE toServer' = <<>> /\ toClient' \in {toClient, <<>>}
  BY <1>6, <1>u, <1>q, <1>e DEF Calm, Processing, TearsDown, Ends, IsReceipt
<1>7. ASSUME \/ Takes("SUBSCRIBE") /\ \E p \in subs : p[1] = Head(toServer).id
             \/ Takes("UNSUBSCRIBE") /\ \A p \in subs : p[1] # Head(toServer).id
             \/ Takes("SEND") /\ \A p \in subs : p[2] # Head(toServer).chan
      PROVE FALSE
  BY <1>7, OnlyLoginsRefused DEF Takes
<1>8. CASE \E w \in User, ch \in Channel, t \in Texts :
              toClient' = Append(toClient, MessageFrom(w, ch, t))
  BY <1>3, <1>8
<1>9. CASE Taken(MessageFrom(Head(toServer).user, Head(toServer).chan, Head(toServer).text))
  BY <1>3, <1>9 DEF Taken
<1> QED BY <1>1, <1>2, <1>4, <1>6, <1>7, <1>8, <1>9, ServerSteps

LEMMA ServerCalm ==
  ASSUME TypeOK, WaitingInv, CarefulInv, Server
  PROVE  CalmInv'
<1>1. UNCHANGED <<connectionHandler, kpc>>
  BY ServerSteps DEF keyboard
<1>2. Busy => Calm' /\ NoneOf("CONNECT")'
  BY ServerLetsBe, ServerShrinks, Shrunk DEF CarefulInv, CalmInv, NoneOf
<1> QED BY <1>1, <1>2 DEF CarefulInv, CalmInv, Busy, Connecting

LEMMA ServerLogout ==
  ASSUME TypeOK, WaitingInv, CarefulInv, Server
  PROVE  LogoutInv'
<1>u. /\ UNCHANGED <<kpc, out, spc, frame, logout_Id>> /\ link = "open"
      /\ link' \in {"open", "closed"}
  BY ServerSteps DEF keyboard, reader, ids, Taken, Refuse
<1>q. /\ NoneOf("DISCONNECT") => NoneOf("DISCONNECT")'
      /\ AllOf("DISCONNECT") => AllOf("DISCONNECT")'
  BY ServerShrinks, Shrunk DEF NoneOf, AllOf
<1>1. ASSUME link' = "open", Leaving, kpc = "prompt" PROVE Expected'
  <2>1. Expected /\ AllOf("DISCONNECT")
    BY <1>1, <1>u DEF CarefulInv, LogoutInv
  <2>2. CASE spc \in {"noLogout", "reset"}
    BY <2>2, <1>u DEF Expected
  <2>3. CASE spc \in {"process", "logoutId", "compare"} /\ IsReceipt(frame)
    BY <2>3, <1>u DEF Expected, IsReceipt
  <2>s. spc \notin {"noLogout", "reset"} => logout_Id # -1
    BY <1>1 DEF Leaving
  <2>4. ASSUME \E i \in DOMAIN toClient : IsReceipt(toClient[i]) PROVE Expected'
    <3>1. \E f : toClient' = Append(toClient, f)
      BY <1>1, ServerSteps DEF Taken, Refuse
    <3> QED BY <2>4, <3>1, <1>u, SocketAppend DEF Expected, IsReceipt
  <2>5. ASSUME NEW i \in DOMAIN toServer, toServer[i].cmd = "DISCONNECT",
               toServer[i].receipt = logout_Id, spc \notin {"noLogout", "reset"}
        PROVE Expected'
    <3>1. CASE UNCHANGED toServer
      BY <2>5, <3>1, <1>u DEF Expected
    <3>2. CASE ~UNCHANGED toServer
      <4>0. toServer # <<>>
        BY <2>5
      <4>1. Head(toServer).cmd = "DISCONNECT" /\ Head(toServer) = toServer[i]
        <5>1. Len(toServer) <= 1
          BY <2>5 DEF WaitingInv, OneAtATime, AllOf
        <5> QED BY <2>5, <4>0, <5>1, QueueOne
      <4>2. toClient' = Append(toClient, Reply("RECEIPT", logout_Id))
        BY <1>1, <2>5, <3>2, <4>1, ServerSteps DEF Taken, Takes, Refuse
      <4>3. IsReceipt(Reply("RECEIPT", logout_Id))
        BY <2>s, <2>5 DEF IsReceipt, Reply
      <4> QED BY <4>2, <4>3, <1>u, SocketAppend DEF Expected, IsReceipt
    <3> QED BY <3>1, <3>2
  <2> QED BY <2>1, <2>2, <2>3, <2>4, <2>5 DEF Expected
<1> QED BY <1>u, <1>q, <1>1 DEF CarefulInv, LogoutInv, Leaving, Sending

LEMMA ServerTables ==
  ASSUME TypeOK, WaitingInv, CarefulInv, Server
  PROVE  TablesInv' /\ AcceptedInv'
<1> DEFINE h == Head(toServer)
<1>u. /\ UNCHANGED <<kpc, out, spc, logout_Id, channels_map, channelName>> /\ link = "open"
      /\ link' \in {"open", "closed"}
  BY ServerSteps DEF keyboard, reader, ids, globals, Taken, Refuse
<1>n. ToBeNoted' = ToBeNoted /\ (Leaving' <=> Leaving)
  BY <1>u, NotedKept DEF Leaving
<1>t. ASSUME TablesAgree' PROVE TablesInv'
  BY <1>t, <1>u DEF CarefulInv, TablesInv, Subscribing, Sending
<1>c. CASE link' = "closed"
  BY <1>c, <1>t DEF TablesAgree, AcceptedInv
\* All but reports come alone.
<1>o. ASSUME toServer # <<>>, toServer' = Tail(toServer), h.cmd # "SEND"
      PROVE  /\ DOMAIN toServer = {1} /\ h = toServer[1]
             /\ toServer' = <<>> /\ ToBeSubs' = subs' /\ AcceptedInv'
  <2>1. 1 \in DOMAIN toServer /\ h = toServer[1]
    BY <1>o, QueueTail
  <2>2. Len(toServer) <= 1
    BY <1>o, <2>1 DEF WaitingInv, OneAtATime, AllOf
  <2>3. toServer' = <<>>
    BY <1>o, <2>2, QueueTail
  <2>4. (NoneOf("SUBSCRIBE") /\ NoneOf("UNSUBSCRIBE"))'
    BY <2>3 DEF NoneOf
  <2> QED BY <1>o, <2>2, <2>3, <2>4, QueueOne, QuietQueue DEF AcceptedInv
<1>1. CASE Takes("CONNECT") /\ Taken(Reply("CONNECTED", -1)) /\ UNCHANGED subs
  <2>1. DOMAIN toServer = {1} /\ toServer[1].cmd = "CONNECT" /\ ToBeSubs' = subs /\ AcceptedInv'
    BY <1>1, <1>o DEF Takes, Taken
  <2>2. ToBeSubs = subs
    BY <2>1, QuietQueue DEF NoneOf
  <2> QED BY <2>1, <2>2, <1>u, <1>n, <1>t DEF CarefulInv, TablesInv, TablesAgree
<1>2. CASE /\ Takes("SUBSCRIBE") /\ Taken(Reply("RECEIPT", h.receipt))
           /\ subs' = subs \cup {<<h.id, h.chan>>}
  <2>1. /\ DOMAIN toServer = {1} /\ toServer[1].cmd = "SUBSCRIBE" /\ toServer[1] = h
        /\ ToBeSubs' = subs \cup {<<h.id, h.chan>>} /\ AcceptedInv'
    BY <1>2, <1>o DEF Takes, Taken
  <2> QED BY <2>1, <1>u, <1>n, <1>t, QueueJoins DEF CarefulInv, TablesInv, TablesAgree
<1>3. CASE /\ Takes("UNSUBSCRIBE") /\ Taken(Reply("RECEIPT", h.receipt))
           /\ subs' = {p \in subs : p[1] # h.id}
  <2>1. /\ DOMAIN toServer = {1} /\ toServer[1].cmd = "UNSUBSCRIBE" /\ toServer[1] = h
        /\ ToBeSubs' = {p \in subs : p[1] # h.id} /\ AcceptedInv'
    BY <1>3, <1>o DEF Takes, Taken
  <2> QED BY <2>1, <1>u, <1>n, <1>t, QueueQuits DEF CarefulInv, TablesInv, TablesAgree
<1>4. CASE Takes("SEND") /\ toServer' = Tail(toServer) /\ UNCHANGED subs /\ link' = "open"
  <2>1. toServer # <<>> /\ h.cmd = "SEND"
    BY <1>4 DEF Takes
  <2>2. AllOf("SEND")
    BY <2>1, <1>u, ReportsAgree
  <2>3. \A i \in DOMAIN toServer' : \E j \in DOMAIN toServer : toServer'[i] = toServer[j]
    BY <1>4, <2>1, QueueTail
  <2>4. ToBeSubs = subs /\ ToBeSubs' = subs'
    <3>1. NoneOf("SUBSCRIBE") /\ NoneOf("UNSUBSCRIBE")
      BY <2>2 DEF AllOf, NoneOf
    <3>2. (NoneOf("SUBSCRIBE") /\ NoneOf("UNSUBSCRIBE"))'
      BY <3>1, <2>3 DEF NoneOf
    <3> QED BY <3>1, <3>2, QuietQueue
  <2>5. TablesAgree'
    BY <1>4, <2>4, <1>u, <1>n DEF CarefulInv, TablesInv, TablesAgree
  <2>6. AcceptedInv'
    BY <1>4, <2>3, <1>u DEF CarefulInv, AcceptedInv, Accepted
  <2> QED BY <2>5, <2>6, <1>t
<1>5. CASE Takes("DISCONNECT") /\ Taken(Reply("RECEIPT", h.receipt))
  <2>1. DOMAIN toServer = {1} /\ toServer[1].cmd = "DISCONNECT" /\ AcceptedInv'
    BY <1>5, <1>o DEF Takes, Taken
  <2>2. Leaving
    BY <2>1, <1>u DEF CarefulInv, LogoutInv, NoneOf
  <2> QED BY <2>1, <2>2, <1>n, <1>t DEF TablesAgree
<1>6. CASE UNCHANGED <<link, toServer, subs>>
  BY <1>6, <1>u, <1>n, <1>t, SubsKept DEF CarefulInv, TablesInv, TablesAgree, AcceptedInv, Accepted
<1> QED BY <1>c, <1>1, <1>2, <1>3, <1>4, <1>5, <1>6, ServerSteps DEF Taken, Refuse

-----------------------------------------------------------------------------
(* The reader thread *)

LEMMA ReaderCareful ==
  ASSUME TypeOK, LinkInv, ErrorsClose, ReportsInv({"ERROR"}), HoldsReceipt, WaitingInv, CarefulInv,
         RunReader
  PROVE  CarefulInv'
<1>u. UNCHANGED <<kpc, out, channelName>>
  BY DEF RunReader, keyboard, Lock, GetHandler, GetLine, ReadFails, ReadFrame, Dispatch, Record,
         ReadLogoutId, Compare, NoLogout, DeleteHandler, ClearChannels, ClearEvents, ClearUser,
         Unlock, globals
<1>i. CalmInv /\ LogoutInv /\ TablesInv /\ AcceptedInv
  BY DEF CarefulInv
\* What the frames and tables say stays true while they do.
<1>t. ASSUME UNCHANGED <<link, toServer, subs, channels_map>>, spc # "clearChannels",
             link = "open" => (Leaving' <=> Leaving)
      PROVE  TablesInv' /\ AcceptedInv'
  <2>1. ToBeSubs' = ToBeSubs /\ ToBeNoted' = ToBeNoted /\ StoredIds' = StoredIds
    BY <1>t, <1>u, SubsKept, NotedKept, StoredKept
  <2>2. TablesInv'
    BY <1>t, <1>u, <1>i, <2>1 DEF TablesInv, TablesAgree, Subscribing, Sending
  <2>3. AcceptedInv'
    BY <1>t, <1>i DEF AcceptedInv, Accepted
  <2> QED BY <2>2, <2>3
\* A step that only moves the reader on.
<1>n. ASSUME UNCHANGED <<session, connectionHandler, ids, channels_map>>,
             spc \notin {"noLogout", "reset", "clearChannels"}, spc' \notin {"noLogout", "reset"},
             Processing' => Processing /\ UNCHANGED frame, TearsDown' => TearsDown,
             spc' = "compare" => logout_Id # -1,
             spc \in {"process", "logoutId", "compare"} /\ IsReceipt(frame) =>
               spc' \in {"process", "logoutId", "compare"} /\ UNCHANGED frame
      PROVE  CarefulInv'
  <2>u. UNCHANGED <<link, toServer, toClient, subs, logout_Id>>
    BY <1>n DEF session, ids
  <2>1. CalmInv'
    BY <1>n, <1>u, <2>u, <1>i DEF CalmInv, Calm, Busy, Connecting, Ends, IsReceipt, NoneOf
  <2>2. LogoutInv'
    <3>1. Leaving' <=> Leaving
      BY <1>n, <2>u DEF Leaving
    <3>2. Expected => Expected'
      BY <1>n, <2>u DEF Expected, IsReceipt
    <3> QED BY <1>n, <1>u, <2>u, <1>i, <3>1, <3>2 DEF LogoutInv, AllOf, NoneOf, Sending
  <2>3. TablesInv' /\ AcceptedInv'
    BY <1>n, <2>u, <1>t DEF Leaving
  <2> QED BY <2>1, <2>2, <2>3 DEF CarefulInv
<1>1. CASE Lock \/ GetHandler \/ GetLine \/ ReadFails \/ Record \/ ReadLogoutId \/ ClearEvents
           \/ ClearUser \/ Unlock
  <2>1. /\ UNCHANGED <<session, connectionHandler, ids, channels_map>>
        /\ spc \notin {"noLogout", "reset", "clearChannels", "compare", "process"}
        /\ spc' \notin {"noLogout", "reset"}
        /\ Processing' => Processing /\ UNCHANGED frame
        /\ TearsDown' => TearsDown
    BY <1>1 DEF Lock, GetHandler, GetLine, ReadFails, Record, ReadLogoutId, ClearEvents, ClearUser,
       Unlock, Turn, Keep, Processing, TearsDown, globals
  <2>2. /\ spc' = "compare" => logout_Id # -1
        /\ spc = "logoutId" /\ logout_Id # -1 => spc' = "compare" /\ UNCHANGED frame
    BY <1>1 DEF Lock, GetHandler, GetLine, ReadFails, Record, ReadLogoutId, ClearEvents, ClearUser,
       Unlock, Turn, Keep
  <2> QED BY <2>1, <2>2, <1>n DEF IsReceipt
<1>2. CASE ReadFrame
  <2>1. /\ spc = "read" /\ spc' = "process" /\ toClient # <<>>
        /\ toClient' = Tail(toClient) /\ frame' = Head(toClient)
        /\ UNCHANGED <<link, toServer, subs, connectionHandler, logout_Id, channels_map>>
    BY <1>2 DEF ReadFrame, Turn, ids, globals
  <2>2. CalmInv'
    BY <2>1, <1>u, <1>i, SocketTail
       DEF CalmInv, Calm, Busy, Connecting, Ends, IsReceipt, NoneOf, TearsDown
  <2>3. Leaving' <=> Leaving
    BY <2>1 DEF Leaving
  <2>4. Expected => Expected'
    <3>1. ASSUME NEW j \in DOMAIN toClient, IsReceipt(toClient[j]) PROVE Expected'
      <4>1. CASE j = 1
        BY <2>1, <3>1, <4>1, SocketTail DEF Expected, IsReceipt
      <4>2. CASE j # 1
        BY <2>1, <3>1, <4>2, SocketTail DEF Expected, IsReceipt
      <4> QED BY <4>1, <4>2
    <3> QED BY <2>1, <3>1 DEF Expected
  <2>5. LogoutInv'
    BY <2>1, <1>u, <1>i, <2>3, <2>4 DEF LogoutInv, AllOf, NoneOf, Sending
  <2> QED BY <2>1, <2>2, <2>3, <2>5, <1>t DEF CarefulInv
<1>3. CASE Dispatch
  <2>1. /\ spc = "process" /\ UNCHANGED <<session, connectionHandler, ids, channels_map, frame>>
        /\ frame.type \in {"CONNECTED", "MESSAGE", "RECEIPT", "ERROR"}
        /\ Kept({"ERROR"}, frame)
    BY <1>3 DEF Dispatch, Turn, Keep, globals, TypeOK, ServerFrame, ReportsInv, CameAvoid
  <2>2. /\ spc' = "noLogout" <=> frame.type = "ERROR"
        /\ spc' \in {"noLogout", "unlock", "lock", "record", "logoutId"}
        /\ frame.type = "RECEIPT" => spc' = "logoutId"
    BY <1>3, <2>1 DEF Dispatch, Turn, Word, Kept
  <2>3. CASE spc' = "noLogout"
    <3>1. link = "closed" /\ ~Busy
      BY <2>1, <2>2, <2>3, <1>i DEF ErrorsClose, Processing, LinkInv, CalmInv, Calm, Ends, TypeOK,
                                    SessionTypeOK
    <3>2. UNCHANGED <<link, toServer, toClient, subs, logout_Id>>
      BY <2>1 DEF session, ids
    <3>3. CalmInv' /\ LogoutInv'
      BY <2>3, <3>1, <3>2, <1>u DEF CalmInv, LogoutInv, Busy
    <3> QED BY <2>1, <3>1, <3>2, <3>3, <1>t DEF CarefulInv
  <2>4. CASE spc' # "noLogout"
    BY <2>1, <2>2, <2>4, <1>n DEF Processing, TearsDown, IsReceipt
  <2> QED BY <2>3, <2>4
<1>4. CASE Compare
  <2>1. /\ spc = "compare" /\ UNCHANGED <<session, connectionHandler, ids, channels_map, frame>>
        /\ spc' = IF logout_Id = frame.id THEN "noLogout" ELSE "unlock"
    BY <1>4 DEF Compare, Turn, Keep, globals
  <2>2. CASE spc' = "noLogout"
    <3>1. IsReceipt(frame) /\ logout_Id # -1
      BY <2>1, <2>2, <1>i DEF HoldsReceipt, LogoutInv, IsReceipt
    <3>2. ~Busy
      BY <2>1, <3>1, <1>i DEF Processing, CalmInv, Calm, Ends
    <3>3. UNCHANGED <<link, toServer, toClient, subs, logout_Id>>
      BY <2>1 DEF session, ids
    <3>4. CalmInv'
      BY <3>2, <1>u DEF CalmInv, Busy
    <3>5. LogoutInv'
      BY <2>2, <3>1, <3>2, <3>3, <1>u, <1>i
         DEF LogoutInv, Leaving, Expected, AllOf, NoneOf, Sending, Busy
    <3>6. Leaving' <=> Leaving
      BY <2>2, <3>1, <3>3 DEF Leaving
    <3> QED BY <2>1, <3>3, <3>4, <3>5, <3>6, <1>t DEF CarefulInv
  <2>3. CASE spc' # "noLogout"
    BY <2>1, <2>3, <1>n DEF Processing, TearsDown, IsReceipt
  <2> QED BY <2>2, <2>3
<1>5. CASE NoLogout
  <2>1. /\ spc = "noLogout" /\ spc' = "reset" /\ logout_Id' = -1
        /\ UNCHANGED <<session, connectionHandler, channels_map>>
    BY <1>5 DEF NoLogout, Turn, globals
  <2>2. ~Busy /\ UNCHANGED <<link, toServer, subs>>
    BY <2>1, <1>i DEF CalmInv, Calm, session
  <2>3. CalmInv'
    BY <2>2, <1>u DEF CalmInv, Busy
  <2>4. LogoutInv'
    BY <2>1, <2>2, <1>u, <1>i DEF LogoutInv, Leaving, Expected, AllOf, NoneOf, Sending, Busy
  <2> QED BY <2>1, <2>2, <2>3, <2>4, <1>t DEF CarefulInv, Leaving
<1>6. CASE DeleteHandler
  <2>1. spc = "reset" /\ spc' = "clearChannels" /\ link # "none" /\ UNCHANGED <<ids, globals>>
    BY <1>6 DEF DeleteHandler, Turn, LinkInv, Processing
  <2>2. link' = "none" /\ ~Busy /\ logout_Id' = -1
    BY <2>1, <1>6, <1>i DEF DeleteHandler, LinkInv, Close, Fresh, CalmInv, Calm, LogoutInv, ids
  <2> QED BY <2>1, <2>2, <1>u, <1>i DEF CarefulInv, CalmInv, LogoutInv, TablesInv, TablesAgree,
          AcceptedInv, Busy, Sending, Subscribing
<1>7. CASE ClearChannels
  <2>1. /\ spc = "clearChannels" /\ spc' = "clearEvents" /\ UNCHANGED <<session, connectionHandler, ids>>
        /\ channels_map' = [ch \in Channel |-> -1]
    BY <1>7 DEF ClearChannels, Turn
  <2>2. link = "none" /\ link' = "none" /\ ~Busy /\ UNCHANGED logout_Id
    BY <2>1, <1>i DEF WaitingInv, TornDownAlone, TearsDown, CalmInv, Calm, session, ids
  <2>3. StoredIds' = {}
    BY <2>1 DEF StoredIds
  <2> QED BY <2>1, <2>2, <2>3, <1>u, <1>i DEF CarefulInv, CalmInv, LogoutInv, TablesInv,
          TablesAgree, AcceptedInv, Busy, Sending, Subscribing
<1> QED BY <1>1, <1>2, <1>3, <1>4, <1>5, <1>6, <1>7 DEF RunReader

-----------------------------------------------------------------------------
(* The keyboard thread *)

LEMMA KeyboardCareful ==
  ASSUME Careful, TypeInv, LinkInv, WaitingInv, IdsInv, ReceiptsInv, CarefulInv,
         TypeCommand \/ RunCommand
  PROVE  CarefulInv'
<1>u. UNCHANGED <<spc, frame>>
  BY DEF TypeCommand, RunCommand, reader
<1>i. /\ CalmInv /\ LogoutInv /\ TablesInv /\ AcceptedInv
      /\ Held /\ OneAtATime /\ TornDownAlone /\ TypeOK /\ CommandNamed /\ OutNamed
  BY DEF CarefulInv, WaitingInv, TypeInv, NamedInv
<1>o. out.cmd \in {"CONNECT", "SUBSCRIBE", "UNSUBSCRIBE", "SEND", "DISCONNECT"}
  BY <1>i DEF TypeOK, ClientFrame
\* A step of a command that leaves the socket and the tables as they are.
<1>n. ASSUME UNCHANGED <<session, connectionHandler, logout_Id, channels_map, channelName>>,
             Busy, ~Connecting, ~Connecting',
             kpc \notin {"insert", "erase"}, kpc' \notin {"insert", "erase"},
             Sending("DISCONNECT") <=> Sending("DISCONNECT")',
             Sending("DISCONNECT") => UNCHANGED out,
             kpc' = "joinAt" \/ Subscribing' => channels_map[channelName] = -1,
             Sending("UNSUBSCRIBE")' =>
               channels_map[channelName] # -1 /\ out'.id = channels_map[channelName],
             kpc' = "build" \/ Sending("SEND")' => channels_map[channelName] # -1
      PROVE  CarefulInv'
  <2>u. UNCHANGED <<link, toServer, toClient, subs>>
    BY <1>n DEF session
  <2>1. CalmInv'
    BY <1>n, <1>u, <2>u, <1>i
       DEF CalmInv, Calm, Busy, Ends, IsReceipt, NoneOf, Processing, TearsDown
  <2>2. LogoutInv'
    BY <1>n, <1>u, <2>u, <1>i DEF LogoutInv, Leaving, AllOf, NoneOf, Busy, Sending
  <2>3. TablesInv'
    <3>1. ToBeSubs' = ToBeSubs /\ ToBeNoted' = ToBeNoted /\ StoredIds' = StoredIds
      BY <1>n, <2>u, SubsKept, StoredKept DEF ToBeNoted
    <3> QED BY <1>n, <1>u, <2>u, <1>i, <3>1 DEF TablesInv, TablesAgree, Leaving
  <2>4. AcceptedInv'
    BY <1>n, <2>u, <1>i DEF AcceptedInv, Accepted
  <2> QED BY <2>1, <2>2, <2>3, <2>4 DEF CarefulInv
\* A step of a login that has not connected yet.
<1>l. ASSUME UNCHANGED <<session, logout_Id, channels_map>>, link = "none", Connecting,
             kpc' \in {"connect", "reset", "prompt"}
      PROVE  CarefulInv'
  <2>u. UNCHANGED <<link, toServer, toClient, subs>>
    BY <1>l DEF session
  <2>1. CalmInv'
    BY <1>l, <1>u, <2>u, <1>i
       DEF CalmInv, Calm, Busy, Connecting, Ends, IsReceipt, NoneOf, Processing, TearsDown
  <2>2. LogoutInv'
    BY <1>l, <1>u, <2>u, <1>i DEF LogoutInv
  <2>3. TablesInv'
    BY <1>l, <1>u, <2>u, <1>i, StoredKept DEF TablesInv, TablesAgree, Sending, Subscribing
  <2>4. AcceptedInv'
    BY <1>l, <2>u DEF AcceptedInv
  <2> QED BY <2>1, <2>2, <2>3, <2>4 DEF CarefulInv
<1>0. CASE TypeCommand
  <2>1. PICK c \in Commands : ReadCommand(c)
    BY <1>0 DEF TypeCommand
  <2>2. c.op \in {"login", "join", "exit", "logout", "report", "summary"}
    BY ClientAssumption DEF Command
  <2>3. /\ kpc = "prompt" /\ kpc' = First(c.op) /\ Settled /\ channelName' = Named(c)
        /\ c.op = "login" <=> connectionHandler = 0
        /\ c.op = "join" => channels_map[Named(c)] = -1
        /\ UNCHANGED <<session, connectionHandler, ids, channels_map, out>>
    BY <2>1 DEF ReadCommand
  <2>4. /\ kpc' \in {"new", "joinAt", "exitAt", "logoutId", "reportAt", "find"}
        /\ kpc' = "new" <=> c.op = "login"
        /\ kpc' = "joinAt" => c.op = "join"
    BY <2>2, <2>3 DEF First
  <2>5. /\ toServer = <<>> /\ toClient = <<>> /\ spc \in {"lock", "get", "getLine", "read"}
        /\ UNCHANGED <<link, toServer, toClient, subs, logout_Id>>
    BY <2>3 DEF Settled, session, ids
  <2>6. link = "open" => ~Leaving
    <3>1. ~Expected
      BY <2>5 DEF Expected
    <3> QED BY <2>3, <3>1, <1>i DEF LogoutInv
  <2>7. CalmInv'
    BY <2>3, <2>4, <2>5, <1>u DEF CalmInv, Calm, Busy, Connecting, NoneOf, Processing, TearsDown
  <2>8. LogoutInv'
    BY <2>4, <2>5, <2>6, <1>u, <1>i DEF LogoutInv, Leaving, AllOf, NoneOf, Sending
  <2>9. TablesInv'
    <3>1. ToBeSubs' = ToBeSubs /\ ToBeNoted' = ToBeNoted /\ StoredIds' = StoredIds
      BY <2>3, <2>4, <2>5, SubsKept, StoredKept DEF ToBeNoted
    <3> QED BY <2>3, <2>4, <2>5, <3>1, <1>u, <1>i
            DEF TablesInv, TablesAgree, Leaving, Sending, Subscribing
  <2>10. AcceptedInv'
    BY <2>5 DEF AcceptedInv
  <2> QED BY <2>7, <2>8, <2>9, <2>10 DEF CarefulInv
<1>1. CASE NewHandler
  <2>1. /\ kpc = "new" /\ kpc' = "connect" /\ UNCHANGED <<session, logout_Id, channels_map>>
    BY <1>1 DEF NewHandler, Goto, ids, globals
  <2> QED BY <2>1, <1>l DEF LinkInv, Connecting
<1>2. CASE Connect
  <2>0. /\ kpc = "connect" /\ link = "none" /\ connectionHandler # 0 /\ ~Processing
        /\ UNCHANGED <<connectionHandler, ids, globals>>
    BY <1>2 DEF Connect, LinkInv, Connecting
  <2>1. CASE Open(cmd.user) /\ Send(Frame("CONNECT", cmd.user, None, -1, -1, "plain"))
    <3>1. /\ link' = "open" /\ toServer' = <<>> /\ toClient' = <<>> /\ subs' = {}
          /\ kpc' = "sendLine" /\ out'.cmd = "CONNECT"
      BY <2>1 DEF Open, Fresh, Send, Goto, Frame
    <3>2. Calm /\ logout_Id' = -1 /\ UNCHANGED channels_map
      BY <2>0, <1>i DEF CalmInv, Busy, LogoutInv, ids, globals
    <3>3. CalmInv'
      BY <2>0, <3>1, <3>2, <1>u DEF CalmInv, Calm, NoneOf, Processing, TearsDown
    <3>4. LogoutInv'
      BY <2>0, <3>1, <3>2, <1>u DEF LogoutInv, Leaving, AllOf, NoneOf, Sending, Processing
    <3>5. ToBeSubs' = {} /\ ToBeNoted' = StoredIds
      <4>1. NoneOf("SUBSCRIBE")' /\ NoneOf("UNSUBSCRIBE")'
        BY <3>1 DEF NoneOf
      <4> QED BY <3>1, <3>2, <4>1, QuietQueue, StoredKept DEF ToBeNoted
    <3>6. TablesInv'
      BY <2>0, <3>1, <3>2, <3>5, <1>i DEF TablesInv, TablesAgree, Calm, TearsDown, Sending, Subscribing
    <3>7. AcceptedInv'
      BY <3>1 DEF AcceptedInv
    <3> QED BY <3>3, <3>4, <3>6, <3>7 DEF CarefulInv
  <2>2. CASE Goto("reset") /\ UNCHANGED session
    BY <2>0, <2>2, <1>l DEF Goto, Connecting, ids, globals
  <2> QED BY <1>2, <2>1, <2>2 DEF Connect
<1>3. CASE ResetHandler
  <2>1. /\ kpc = "reset" /\ kpc' = "prompt" /\ UNCHANGED <<session, logout_Id, channels_map>>
    BY <1>3 DEF ResetHandler, Done, ids, globals
  <2> QED BY <2>1, <1>l DEF LinkInv, Connecting
<1>4. CASE JoinAt
  <2>1. /\ kpc = "joinAt" /\ kpc' = "sendLine" /\ out'.cmd = "SUBSCRIBE"
        /\ UNCHANGED <<session, connectionHandler, logout_Id, channels_map, channelName>>
    BY <1>4 DEF JoinAt, Send, Goto, Receipted, Frame, globals
  <2>2. channels_map[channelName] = -1
    BY <2>1, <1>i DEF TablesInv
  <2> QED BY <2>1, <2>2, <1>n DEF Busy, Connecting, Sending, Subscribing
<1>5. CASE ExitAt
  <2>1. /\ kpc = "exitAt"
        /\ UNCHANGED <<session, connectionHandler, logout_Id, channels_map, channelName>>
    BY <1>5 DEF ExitAt, globals
  <2>2. CASE Done
    BY <2>1, <2>2, <1>n DEF Done, Busy, Connecting, Sending, Subscribing
  <2>3. CASE /\ Send(Receipted("UNSUBSCRIBE", channels_map[channelName]))
             /\ channels_map[channelName] # -1
    BY <2>1, <2>3, <1>n DEF Send, Goto, Receipted, Frame, Busy, Connecting, Sending, Subscribing
  <2> QED BY <1>5, <2>2, <2>3 DEF ExitAt
<1>6. CASE SetLogoutId
  <2>1. /\ kpc = "logoutId" /\ kpc' = "sendLine" /\ logout_Id' = receipt_Id
        /\ out'.cmd = "DISCONNECT" /\ out'.receipt = receipt_Id
        /\ UNCHANGED <<session, connectionHandler, channels_map, channelName>>
    BY <1>6 DEF SetLogoutId, Send, Goto, Frame, globals
  <2>2. UNCHANGED <<link, toServer, toClient, subs>> /\ receipt_Id \in Nat
    BY <2>1, <1>i DEF session, TypeOK
  <2>3. Calm /\ NoneOf("CONNECT") /\ connectionHandler # 0 /\ toServer = <<>> /\ link # "none"
    BY <2>1, <1>i DEF CalmInv, Busy, Connecting, OneAtATime, Unsent, LinkInv
  <2>4. \A r \in Answered : r < receipt_Id
    BY DEF ReceiptsInv, AnswersBelow
  <2>5. \A f : f.type = "RECEIPT" /\ f.id \in Answered => ~IsReceipt(f)'
    BY <2>1, <2>2, <2>4 DEF IsReceipt
  <2>6. Calm'
    <3>1. \A i \in DOMAIN toClient : ~IsReceipt(toClient[i])'
      <4> SUFFICES ASSUME NEW i \in DOMAIN toClient, toClient[i].type = "RECEIPT"
                   PROVE  ~IsReceipt(toClient[i])'
        BY <2>2 DEF IsReceipt
      <4>1. toClient[i].id \in Answered
        BY DEF Answered
      <4>2. toClient[i].id < receipt_Id
        BY <4>1, <2>4
      <4> QED BY <2>1, <2>2, <4>2 DEF IsReceipt
    <3>2. ~IsReceipt(frame)'
      <4> SUFFICES ASSUME frame.type = "RECEIPT" PROVE ~IsReceipt(frame)'
        BY <1>u DEF IsReceipt
      <4>1. frame.id < receipt_Id
        BY <2>4 DEF Answered
      <4> QED BY <2>1, <2>2, <4>1, <1>u DEF IsReceipt
    <3> QED BY <2>2, <2>3, <3>1, <3>2, <1>u DEF Calm, Ends, NoneOf, Processing, TearsDown, IsReceipt
  <2>7. CalmInv'
    BY <2>1, <2>2, <2>3, <2>6 DEF CalmInv, NoneOf
  <2>8. LogoutInv' /\ Leaving'
    BY <2>1, <2>2, <2>3, <1>u DEF LogoutInv, Leaving, AllOf, NoneOf, Calm, Sending
  <2>9. TablesInv'
    BY <2>1, <2>2, <2>3, <2>8, <1>u DEF TablesInv, TablesAgree, Sending, Subscribing
  <2>10. AcceptedInv'
    BY <2>2, <2>3 DEF AcceptedInv
  <2> QED BY <2>7, <2>8, <2>9, <2>10 DEF CarefulInv
<1>7. CASE ReportAt
  <2>1. /\ kpc = "reportAt"
        /\ UNCHANGED <<session, connectionHandler, logout_Id, channels_map, channelName>>
    BY <1>7 DEF ReportAt, ids, globals
  <2>2. CASE Done
    BY <2>1, <2>2, <1>n DEF Done, Busy, Connecting, Sending, Subscribing
  <2>3. CASE Goto("build") /\ channels_map[channelName] # -1
    BY <2>1, <2>3, <1>n DEF Goto, Busy, Connecting, Sending, Subscribing
  <2> QED BY <1>7, <2>2, <2>3 DEF ReportAt
<1>8. CASE BuildEvent
  <2>1. /\ kpc = "build" /\ kpc' = "sendLine" /\ out'.cmd = "SEND"
        /\ UNCHANGED <<session, connectionHandler, logout_Id, channels_map, channelName>>
    BY <1>8 DEF BuildEvent, Send, Goto, Frame, ids, globals
  <2>2. channels_map[channelName] # -1
    BY <2>1, <1>i DEF TablesInv
  <2> QED BY <2>1, <2>2, <1>n DEF Busy, Connecting, Sending, Subscribing
<1>9. CASE FindEvents \/ CopyEvents
  <2>1. /\ kpc \in {"find", "copy"} /\ kpc' \in {"copy", "prompt"}
        /\ UNCHANGED <<session, connectionHandler, logout_Id, channels_map, channelName>>
    BY <1>9 DEF FindEvents, CopyEvents, Goto, Done, ids, globals
  <2> QED BY <2>1, <1>n DEF Busy, Connecting, Sending, Subscribing
<1>11. CASE SendLine
  <2>1. /\ kpc = "sendLine" /\ kpc' = "write" /\ UNCHANGED out
        /\ UNCHANGED <<session, connectionHandler, logout_Id, channels_map, channelName>>
    BY <1>11 DEF SendLine, ids, globals
  <2> QED BY <2>1, <1>n, <1>i DEF TablesInv, Busy, Connecting, Sending, Subscribing
<1>12. CASE WriteFrame
  <2>1. /\ kpc = "write" /\ Busy /\ ~Connecting /\ connectionHandler # 0 /\ link # "none"
        /\ Calm /\ NoneOf("CONNECT")
        /\ UNCHANGED <<link, toClient, subs, connectionHandler, logout_Id, channels_map, channelName>>
    BY <1>12, <1>i DEF WriteFrame, Write, Busy, Connecting, CalmInv, LinkInv, ids, globals, session
  <2>2. /\ kpc' = "loggedIn" => out.cmd = "CONNECT"
        /\ kpc' = "insert" => out.cmd = "SUBSCRIBE" /\ out' = out
        /\ kpc' = "erase" => out.cmd = "UNSUBSCRIBE" /\ out' = out
        /\ kpc' = "build" => out.cmd = "SEND"
        /\ kpc' \in {"loggedIn", "insert", "erase", "build", "prompt"}
    BY <1>12, <1>o DEF WriteFrame, AfterSend, AfterFailure, NextEvent, Goto, Done
  <2>3. ASSUME CalmInv' \/ ~Busy', LogoutInv', TablesAgree', AcceptedInv' PROVE CarefulInv'
    <3>1. CalmInv'
      BY <2>3 DEF CalmInv
    <3>2. TablesInv'
      BY <2>1, <2>2, <2>3, <1>i DEF TablesInv, Sending, Subscribing
    <3> QED BY <2>3, <3>1, <3>2 DEF CarefulInv
  <2>4. CASE link = "closed"
    <3>1. UNCHANGED toServer
      BY <1>12, <2>4 DEF WriteFrame, Write, session
    <3>2. CalmInv'
      BY <2>1, <3>1, <1>u DEF CalmInv, Calm, NoneOf, Ends, IsReceipt, Processing, TearsDown
    <3>3. LogoutInv'
      BY <2>1, <2>4, <1>u, <1>i DEF LogoutInv
    <3> QED BY <2>1, <2>3, <2>4, <3>2, <3>3 DEF TablesAgree, AcceptedInv
  <2>5. CASE link = "open"
    <3>1. AfterSend /\ toServer' = Append(toServer, out)
      BY <1>12, <2>1, <2>5 DEF WriteFrame, Write, LinkInv
    <3>a. /\ \A i \in DOMAIN toServer' : \/ i \in DOMAIN toServer /\ toServer'[i] = toServer[i]
                                        \/ toServer'[i] = out
          /\ toServer = <<>> => DOMAIN toServer' = {1} /\ toServer'[1] = out
      BY <3>1, <1>i, QueueAppend
    <3>l. Leaving => out.cmd = "DISCONNECT" /\ out.receipt = logout_Id
      BY <2>1, <2>5, <1>i DEF LogoutInv, Sending
    <3>e. /\ out.cmd # "SEND" => toServer = <<>>
          /\ out.cmd = "SEND" => AllOf("SEND")
      BY <2>1, <1>i DEF OneAtATime, Unsent, Sending
    <3>s. (Leaving' <=> Leaving) /\ StoredIds' = StoredIds
      BY <2>1, <1>u, StoredKept DEF Leaving
    <3>c. ASSUME out.cmd \notin {"CONNECT", "DISCONNECT"} PROVE CalmInv'
      <4>1. NoneOf("CONNECT")' /\ NoneOf("DISCONNECT")'
        BY <2>1, <3>a, <3>c DEF Calm, NoneOf
      <4> QED BY <2>1, <4>1, <1>u DEF CalmInv, Calm, Ends, IsReceipt, Processing, TearsDown
    <3>g. ASSUME out.cmd # "DISCONNECT" PROVE LogoutInv'
      <4>1. ~Leaving' /\ NoneOf("DISCONNECT")'
        BY <2>1, <3>a, <3>g, <3>l, <3>s DEF Calm, NoneOf
      <4> QED BY <2>1, <2>2, <4>1, <1>u, <1>i DEF LogoutInv, Sending
    <3>t. ~Leaving => (IF out.cmd = "SEND" THEN ToBeSubs ELSE subs) = StoredIds
      <4>1. toServer = <<>> => ToBeSubs = subs
        BY QuietQueue DEF NoneOf
      <4>2. ToBeNoted = StoredIds
        BY <2>1 DEF ToBeNoted
      <4> QED BY <2>5, <3>e, <4>1, <4>2, <1>i DEF TablesInv, TablesAgree
    <3>2. CASE out.cmd = "SEND"
      <4>1. AllOf("SEND") /\ AllOf("SEND")'
        BY <3>2, <3>a, <3>e DEF AllOf
      <4>2. ToBeSubs = subs /\ ToBeSubs' = subs'
        BY <4>1, QuietQueue DEF AllOf, NoneOf
      <4>3. TablesAgree'
        BY <2>1, <2>2, <3>2, <3>t, <3>s, <4>2 DEF TablesAgree, ToBeNoted
      <4>4. AcceptedInv'
        <5>1. out.chan \in Channel /\ channels_map[out.chan] # -1
          BY <2>1, <3>2, <1>i DEF Held, TablesInv, Sending
        <5>2. \A i \in DOMAIN toServer : /\ toServer[i].cmd = "SEND"
                                        /\ toServer[i].chan \in Channel
                                        /\ channels_map[toServer[i].chan] # -1
          BY <2>5, <4>1, <1>i DEF AcceptedInv, AllOf, Accepted
        <5>3. \A i \in DOMAIN toServer' : /\ toServer'[i].cmd = "SEND"
                                         /\ toServer'[i].chan \in Channel
                                         /\ channels_map'[toServer'[i].chan] # -1
          BY <2>1, <3>2, <3>a, <5>1, <5>2
        <5> QED BY <5>3 DEF AcceptedInv, Accepted
      <4> QED BY <3>2, <3>c, <3>g, <4>3, <4>4, <2>3
    <3>3. CASE out.cmd = "CONNECT"
      <4>1. kpc' = "loggedIn" /\ DOMAIN toServer' = {1} /\ toServer'[1] = out
        BY <3>1, <3>3, <3>a, <3>e DEF AfterSend, Goto
      <4>2. ToBeSubs' = subs'
        BY <3>3, <4>1, QuietQueue DEF NoneOf
      <4>3. TablesAgree'
        BY <2>1, <3>3, <3>t, <3>s, <4>1, <4>2 DEF TablesAgree, ToBeNoted
      <4>4. AcceptedInv'
        BY <3>3, <4>1 DEF AcceptedInv, Accepted
      <4> QED BY <3>3, <3>g, <4>1, <4>3, <4>4, <2>3 DEF Busy
    <3>4. CASE out.cmd = "SUBSCRIBE"
      <4>1. /\ kpc' = "insert" /\ out' = out /\ DOMAIN toServer' = {1} /\ toServer'[1] = out
        BY <3>1, <3>4, <3>a, <3>e DEF AfterSend, Goto
      <4>2. /\ out.chan = channelName /\ channels_map[channelName] = -1 /\ ~Leaving
            /\ PendingId = {<<out.id, channelName>>}
        BY <2>1, <3>4, <3>l, <1>i DEF OutNamed, Subscribing, TablesInv, PendingId
      <4>3. ToBeSubs' = subs' \cup {<<out.id, channelName>>}
        BY <3>4, <4>1, <4>2 DEF ToBeSubs, QueuedIds, QuitIds
      <4>4. TablesAgree'
        BY <2>1, <3>4, <3>t, <3>s, <4>1, <4>2, <4>3 DEF TablesAgree, ToBeNoted
      <4>5. \A p \in subs : p[1] # out.id
        <5> SUFFICES ASSUME NEW p \in StoredIds, p[1] = out.id PROVE FALSE
          BY <3>4, <3>t, <4>2
        <5>1. <<out.id, channelName>> \in IdPairs /\ p \in IdPairs
          BY <4>2 DEF IdPairs, IdsInUse
        <5>2. \A q, r \in IdPairs : q[1] = r[1] => q[2] = r[2]
          BY DEF IdsInv
        <5>3. p[2] = <<out.id, channelName>>[2]
          BY <5>1, <5>2
        <5> QED BY <4>2, <5>3 DEF StoredIds
      <4>6. AcceptedInv'
        BY <2>1, <3>4, <4>1, <4>5 DEF AcceptedInv, Accepted
      <4> QED BY <3>4, <3>c, <3>g, <4>4, <4>6, <2>3
    <3>5. CASE out.cmd = "UNSUBSCRIBE"
      <4>1. /\ kpc' = "erase" /\ out' = out /\ DOMAIN toServer' = {1} /\ toServer'[1] = out
        BY <3>1, <3>5, <3>a, <3>e DEF AfterSend, Goto
      <4>2. /\ channelName \in Channel /\ channels_map[channelName] # -1 /\ ~Leaving
            /\ out.id = channels_map[channelName]
        BY <2>1, <3>5, <3>l, <1>i DEF Held, Sending, TablesInv
      <4>3. ToBeSubs' = {p \in subs' : p[1] # out.id}
        BY <3>5, <4>1 DEF ToBeSubs, QueuedIds, QuitIds
      <4>4. <<out.id, channelName>> \in StoredIds /\ subs = StoredIds
        BY <3>5, <3>t, <4>2 DEF StoredIds
      <4>5. \A p \in StoredIds : p[1] = out.id <=> p[2] = channelName
        <5>1. \A p \in StoredIds : p[1] = out.id => p[2] = channelName
          BY <4>4 DEF IdsInv, IdPairs, IdsInUse
        <5>2. \A p \in StoredIds : p[2] = channelName => p[1] = out.id
          BY <4>2 DEF StoredIds
        <5> QED BY <5>1, <5>2
      <4>6. TablesAgree'
        BY <2>1, <3>s, <4>1, <4>3, <4>4, <4>5 DEF TablesAgree, ToBeNoted
      <4>7. AcceptedInv'
        BY <2>1, <3>5, <4>1, <4>4 DEF AcceptedInv, Accepted
      <4> QED BY <3>5, <3>c, <3>g, <4>6, <4>7, <2>3
    <3>6. CASE out.cmd = "DISCONNECT"
      <4>1. kpc' = "prompt" /\ DOMAIN toServer' = {1} /\ toServer'[1] = out
        BY <3>1, <3>6, <3>a, <3>e DEF AfterSend, Done
      <4>2. Leaving /\ out.receipt = logout_Id
        BY <2>1, <2>5, <3>6, <3>l, <1>i DEF LogoutInv, Sending
      <4>3. LogoutInv'
        BY <2>1, <3>6, <3>s, <4>1, <4>2, <1>u, <1>i DEF LogoutInv, Expected, AllOf, NoneOf, Sending
      <4>4. TablesAgree' /\ AcceptedInv'
        BY <3>6, <3>s, <4>1, <4>2 DEF TablesAgree, AcceptedInv, Accepted
      <4> QED BY <4>1, <4>3, <4>4, <2>3 DEF Busy
    <3> QED BY <1>o, <3>2, <3>3, <3>4, <3>5, <3>6
  <2> QED BY <2>1, <2>4, <2>5, <1>i DEF TypeOK, SessionTypeOK
\* The command ends when its answer is noted.
<1>e. ASSUME UNCHANGED <<session, connectionHandler, logout_Id>>, kpc' = "prompt",
             kpc \in {"loggedIn", "insert", "erase"},
             StoredIds' = ToBeNoted, UNCHANGED channels_map \/ kpc \in {"insert", "erase"}
      PROVE  CarefulInv'
  <2>1. UNCHANGED <<link, toServer, toClient, subs>>
    BY <1>e DEF session
  <2>2. link = "open" => ~Leaving
    BY <1>e, <1>i DEF LogoutInv, Sending
  <2>3. CalmInv'
    BY <1>e DEF CalmInv, Busy
  <2>4. LogoutInv'
    BY <1>e, <2>1, <2>2, <1>u, <1>i DEF LogoutInv, Leaving, NoneOf, AllOf, Sending
  <2>5. ToBeSubs' = ToBeSubs /\ ToBeNoted' = ToBeNoted
    BY <1>e, <2>1, SubsKept DEF ToBeNoted
  <2>6. kpc \in {"insert", "erase"} => link # "none"
    BY <1>i DEF CalmInv, Busy, Connecting, LinkInv
  <2>7. TablesInv'
    BY <1>e, <2>1, <2>5, <2>6, <1>u, <1>i, StoredKept
       DEF TablesInv, TablesAgree, Leaving, Sending, Subscribing
  <2>8. AcceptedInv'
    BY <1>e, <2>1, <1>i DEF AcceptedInv, Accepted, OneAtATime, NoneOf
  <2> QED BY <2>3, <2>4, <2>7, <2>8 DEF CarefulInv
<1>13. CASE LoggedIn
  <2>1. /\ kpc = "loggedIn" /\ kpc' = "prompt"
        /\ UNCHANGED <<session, connectionHandler, logout_Id, channels_map>>
    BY <1>13 DEF LoggedIn, Done, ids
  <2>2. StoredIds' = ToBeNoted
    BY <2>1, StoredKept DEF ToBeNoted
  <2> QED BY <2>1, <2>2, <1>e
<1>14. CASE Insert
  <2>1. /\ kpc = "insert" /\ kpc' = "prompt"
        /\ UNCHANGED <<session, connectionHandler, logout_Id>>
    BY <1>14 DEF Insert, Done, ids
  <2>2. channels_map[channelName] = -1 /\ channelName \in Channel /\ out.id \in Nat
    BY <2>1, <1>i DEF TablesInv, OutNamed, Subscribing
  <2>3. channels_map' = [channels_map EXCEPT ![channelName] = out.id]
    BY <1>14, <2>2 DEF Insert
  <2>4. StoredIds' = StoredIds \cup {<<out.id, channelName>>}
    <3>1. channels_map \in [Channel -> Nat \cup {-1}]
      BY <1>i DEF TypeOK
    <3>2. /\ channels_map'[channelName] = out.id /\ out.id # -1
          /\ \A ch \in Channel \ {channelName} : channels_map'[ch] = channels_map[ch]
      BY <2>2, <2>3, <3>1
    <3> QED BY <2>2, <3>2 DEF StoredIds
  <2>5. StoredIds' = ToBeNoted
    BY <2>1, <2>4 DEF ToBeNoted
  <2> QED BY <2>1, <2>5, <1>e
<1>15. CASE Erase
  <2>1. /\ kpc = "erase" /\ kpc' = "prompt"
        /\ UNCHANGED <<session, connectionHandler, logout_Id>>
        /\ channels_map' = [channels_map EXCEPT ![channelName] = -1]
    BY <1>15 DEF Erase, Done, ids
  <2>2. channelName \in Channel
    BY <2>1, <1>i DEF Held
  <2>3. StoredIds' = {p \in StoredIds : p[2] # channelName}
    <3>1. channels_map \in [Channel -> Nat \cup {-1}]
      BY <1>i DEF TypeOK
    <3>2. /\ channels_map'[channelName] = -1
          /\ \A ch \in Channel \ {channelName} : channels_map'[ch] = channels_map[ch]
      BY <2>1, <2>2, <3>1
    <3> QED BY <2>2, <3>2 DEF StoredIds
  <2>4. StoredIds' = ToBeNoted
    BY <2>1, <2>3 DEF ToBeNoted
  <2> QED BY <2>1, <2>4, <1>e
<1> QED BY <1>0, <1>1, <1>2, <1>3, <1>4, <1>5, <1>6, <1>7, <1>8, <1>9, <1>11, <1>12,
           <1>13, <1>14, <1>15 DEF RunCommand

LEMMA CarefulKept ==
  ASSUME CarefulInv, UNCHANGED <<session, connectionHandler, ids, globals, keyboard, reader>>
  PROVE  CarefulInv'
<1>1. UNCHANGED <<link, toServer, toClient, subs, connectionHandler, logout_Id, channels_map,
                  channelName, kpc, out, spc, frame>>
  BY DEF session, ids, globals, keyboard, reader
<1>2. ToBeSubs' = ToBeSubs /\ ToBeNoted' = ToBeNoted /\ StoredIds' = StoredIds
  BY <1>1, SubsKept, NotedKept, StoredKept
<1>3. CalmInv'
  BY <1>1 DEF CarefulInv, CalmInv, Calm, Busy, Connecting, Ends, IsReceipt, NoneOf, Processing, TearsDown
<1>4. LogoutInv'
  BY <1>1 DEF CarefulInv, LogoutInv, Leaving, Expected, IsReceipt, AllOf, NoneOf, Sending
<1>5. TablesInv'
  BY <1>1, <1>2 DEF CarefulInv, TablesInv, TablesAgree, Leaving, Sending, Subscribing
<1>6. AcceptedInv'
  BY <1>1 DEF CarefulInv, AcceptedInv, Accepted
<1> QED BY <1>3, <1>4, <1>5, <1>6 DEF CarefulInv

\* All that is known of a session.
SessionInv ==
  /\ TypeInv /\ LinkInv /\ ErrorsClose /\ ReportsInv({"ERROR"})
  /\ IdsInv /\ ReceiptsInv /\ WaitingInv /\ CarefulInv

LEMMA InitSession == Init => SessionInv
BY InitTypes, InitLinked, InitReports, InitIds, InitReceipts, InitWaiting, InitCareful DEF SessionInv

LEMMA NextSession ==
  ASSUME Careful, NoErrorReports
  PROVE  SessionInv /\ [Next]_vars => SessionInv'
<1> SUFFICES ASSUME SessionInv, [Next]_vars PROVE SessionInv'
  OBVIOUS
<1>i. /\ TypeInv /\ TypeOK /\ LinkInv /\ ErrorsClose /\ ReportsInv({"ERROR"})
      /\ IdsInv /\ ReceiptsInv /\ WaitingInv /\ CarefulInv /\ HoldsReceipt
  BY DEF SessionInv, TypeInv, ReceiptsInv
<1>1. CarefulInv'
  <2>1. CASE UNCHANGED vars \/ UndefinedBehaviour
    BY <2>1, <1>i, CarefulKept DEF vars, UndefinedBehaviour, Crash
  <2>2. CASE Server
    BY <2>2, <1>i, ServerCalm, ServerLogout, ServerTables DEF CarefulInv
  <2>3. CASE RunReader
    BY <2>3, <1>i, ReaderCareful
  <2>4. CASE TypeCommand \/ RunCommand
    BY <2>4, <1>i, KeyboardCareful
  <2> QED BY <2>1, <2>2, <2>3, <2>4 DEF Next, Quiet
<1>2. TypeInv' /\ LinkInv' /\ IdsInv' /\ ReceiptsInv' /\ WaitingInv' /\ ErrorsClose'
  BY <1>i, NextTypes, NextLinked, NextIds, NextReceipts, NextWaiting, NextErrors
<1>3. ReportsInv({"ERROR"})'
  BY <1>i, NextReports DEF NoErrorReports
<1> QED BY <1>1, <1>2, <1>3 DEF SessionInv

\* What a careful user sees at the prompt, with everything answered, is what
\* the server has: whatever was joined, left, logged out of and into again,
\* refused at login or cut off before, the channels the client notes, and the
\* ids it will leave them by, are those of the server's table.
THEOREM CarefulChannelsAgree ==
  ASSUME Careful, NoErrorReports
  PROVE  Spec => []ChannelsAgree
<1>1. SessionInv => ChannelsAgree
  <2> SUFFICES ASSUME SessionInv, kpc = "prompt", Settled, link = "open"
               PROVE  subs = StoredIds
    BY DEF ChannelsAgree
  <2>1. toServer = <<>> /\ toClient = <<>> /\ spc \in {"lock", "get", "getLine", "read"}
    BY DEF Settled
  <2>2. ~Leaving
    <3>1. ~Expected
      BY <2>1 DEF Expected
    <3> QED BY <3>1 DEF SessionInv, CarefulInv, LogoutInv
  <2>3. ToBeSubs = ToBeNoted
    BY <2>2 DEF SessionInv, CarefulInv, TablesInv, TablesAgree
  <2>4. ToBeSubs = subs /\ ToBeNoted = StoredIds
    BY <2>1, QuietQueue DEF NoneOf, ToBeNoted
  <2> QED BY <2>3, <2>4
<1> QED BY <1>1, InitSession, NextSession, PTL DEF Spec

-----------------------------------------------------------------------------
(***************************************************************************)
(* Last, that the process survives: the handler the two threads share is   *)
(* there whenever one of them uses it, and the tables are torn down while  *)
(* the keyboard is idle.  A login that may be refused is excluded, for its *)
(* thread drops the handler while the reader may hold it, and so are       *)
(* summaries, for the reader stores a report at any time.                  *)
(***************************************************************************)
NoRefusals  == ~MayRefuse
NoSummaries == \A c \in Commands : c.op # "summary"

HandlerInv ==
  /\ ~crashed
  /\ spc \in {"getLine", "read"} => connectionHandler # 0
  /\ spc = "read" => sptr = connectionHandler
  /\ kpc \notin {"reset", "find", "copy"}
  /\ kpc = "loggedIn" => Calm
  /\ kpc = "loggedIn" => connectionHandler # 0

LEMMA InitHandler == Init => HandlerInv
BY DEF Init, HandlerInv

\* What is calm stays calm while the reader works.
LEMMA ReaderLetsBe ==
  ASSUME TypeOK, ErrorsClose, ReportsInv({"ERROR"}), HoldsReceipt, LogoutInv, RunReader, Calm
  PROVE  Calm'
<1>1. CASE ReadFrame
  BY <1>1, SocketTail DEF ReadFrame, Turn, Calm, Ends, IsReceipt, NoneOf, TearsDown, ids
<1>2. CASE Dispatch
  <2>1. /\ spc = "process" /\ UNCHANGED <<session, ids, frame>>
        /\ frame.type \in {"CONNECTED", "MESSAGE", "RECEIPT", "ERROR"}
        /\ Kept({"ERROR"}, frame)
    BY <1>2 DEF Dispatch, Turn, Keep, TypeOK, ServerFrame, ReportsInv, CameAvoid
  <2>2. /\ spc' = "noLogout" <=> frame.type = "ERROR"
        /\ spc' \in {"noLogout", "unlock", "lock", "record", "logoutId"}
    BY <1>2, <2>1 DEF Dispatch, Turn, Word, Kept
  <2> QED BY <2>1, <2>2 DEF Calm, Ends, IsReceipt, NoneOf, Processing, TearsDown, session, ids
<1>3. CASE Compare
  <2>1. spc = "compare" /\ UNCHANGED <<session, ids, frame>>
        /\ spc' = IF logout_Id = frame.id THEN "noLogout" ELSE "unlock"
    BY <1>3 DEF Compare, Turn, Keep
  <2>2. ~IsReceipt(frame)
    BY <2>1 DEF Calm, Ends, Processing
  <2>3. spc' = "unlock"
    BY <2>1, <2>2 DEF IsReceipt, HoldsReceipt, LogoutInv
  <2> QED BY <2>1, <2>3 DEF Calm, Ends, IsReceipt, NoneOf, Processing, TearsDown, session, ids
<1>4. CASE Lock \/ GetHandler \/ GetLine \/ ReadFails \/ Record \/ ReadLogoutId \/ Unlock
  <2>1. /\ UNCHANGED <<session, ids>>
        /\ spc' \notin {"noLogout", "reset"} /\ ~TearsDown'
        /\ Processing' => Processing /\ UNCHANGED frame
    BY <1>4 DEF Lock, GetHandler, GetLine, ReadFails, Record, ReadLogoutId, Unlock, Turn, Keep,
                Processing, TearsDown
  <2> QED BY <2>1 DEF Calm, Ends, IsReceipt, NoneOf, session, ids
<1>5. CASE NoLogout \/ DeleteHandler \/ ClearChannels \/ ClearEvents \/ ClearUser
  BY <1>5 DEF NoLogout, DeleteHandler, ClearChannels, ClearEvents, ClearUser, Turn, Calm, TearsDown
<1> QED BY <1>1, <1>2, <1>3, <1>4, <1>5 DEF RunReader

LEMMA SafeFromThere == SessionInv /\ HandlerInv => ClientSurvives
<1> SUFFICES ASSUME SessionInv, HandlerInv PROVE ClientSurvives
  OBVIOUS
<1>i. CalmInv /\ LinkInv
  BY DEF SessionInv, CarefulInv
<1>1. ~Racing
  BY <1>i DEF Racing, HandlerInv, CalmInv, Busy, Calm, TearsDown
<1>2. ~NullHandler
  BY <1>i DEF NullHandler, HandlerInv, CalmInv, Busy, Connecting
<1>3. ~Dangling
  BY <1>i DEF Dangling, HandlerInv, CalmInv, LinkInv, Busy, Connecting
<1> QED BY <1>1, <1>2, <1>3 DEF ClientSurvives, HandlerInv

LEMMA ServerHandler ==
  ASSUME NoRefusals, SessionInv, HandlerInv, Server
  PROVE  HandlerInv'
<1>1. UNCHANGED <<connectionHandler, crashed, kpc, spc, sptr>>
  BY DEF Server, keyboard, reader
<1>2. kpc = "loggedIn" => Calm'
  BY ServerLetsBe DEF NoRefusals, SessionInv, TypeInv, HandlerInv
<1> QED BY <1>1, <1>2 DEF HandlerInv

LEMMA ReaderHandler ==
  ASSUME SessionInv, HandlerInv, RunReader
  PROVE  HandlerInv'
<1>1. UNCHANGED <<kpc, crashed>>
  BY DEF RunReader, keyboard
<1>2. kpc = "loggedIn" => Calm'
  BY ReaderLetsBe DEF SessionInv, TypeInv, ReceiptsInv, CarefulInv, HandlerInv
<1>3. CASE DeleteHandler
  <2>1. spc = "reset" /\ spc' = "clearChannels"
    BY <1>3 DEF DeleteHandler, Turn
  <2>2. kpc # "loggedIn"
    BY <2>1 DEF HandlerInv, Calm
  <2> QED BY <1>1, <2>1, <2>2 DEF HandlerInv
<1>4. CASE ~DeleteHandler
  <2> SUFFICES ASSUME UNCHANGED connectionHandler,
                      spc' \in {"getLine", "read"} => connectionHandler # 0,
                      spc' = "read" => sptr' = connectionHandler
               PROVE  HandlerInv'
    <3>1. CASE Dispatch
      <4>1. UNCHANGED connectionHandler /\ spc' \notin {"getLine", "read"}
        BY <3>1 DEF Dispatch, Turn, Word, SessionInv, TypeInv, TypeOK, ServerFrame
      <4> QED BY <4>1
    <3>2. CASE ~Dispatch
      BY <1>4, <3>2 DEF RunReader, Lock, GetHandler, GetLine, ReadFails, ReadFrame, Record,
           ReadLogoutId, Compare, NoLogout, ClearChannels, ClearEvents, ClearUser, Unlock, Turn
    <3> QED BY <3>1, <3>2
  <2> QED BY <1>1, <1>2 DEF HandlerInv
<1> QED BY <1>3, <1>4

LEMMA KeyboardHandler ==
  ASSUME NoRefusals, NoSummaries, SessionInv, HandlerInv, TypeCommand \/ RunCommand
  PROVE  HandlerInv'
<1>u. UNCHANGED <<spc, frame, sptr, crashed>>
  BY DEF TypeCommand, RunCommand, reader
<1>i. CalmInv /\ LinkInv
  BY DEF SessionInv, CarefulInv
\* A step that leaves the handler where it is and goes on.
<1>n. ASSUME UNCHANGED connectionHandler, kpc' \notin {"reset", "find", "copy", "loggedIn"}
      PROVE  HandlerInv'
  BY <1>n, <1>u DEF HandlerInv
<1>0. CASE TypeCommand
  <2>1. PICK c \in Commands : ReadCommand(c)
    BY <1>0 DEF TypeCommand
  <2>2. c.op \in {"login", "join", "exit", "logout", "report"}
    BY ClientAssumption DEF Command, NoSummaries
  <2>3. kpc' = First(c.op) /\ UNCHANGED connectionHandler
    BY <2>1 DEF ReadCommand
  <2>4. kpc' \in {"new", "joinAt", "exitAt", "logoutId", "reportAt"}
    BY <2>2, <2>3 DEF First
  <2> QED BY <2>3, <2>4, <1>n
<1>1. CASE NewHandler
  <2>1. kpc = "new" /\ kpc' = "connect" /\ connectionHandler = 0
    BY <1>1, <1>i DEF NewHandler, Goto, LinkInv
  <2> QED BY <2>1, <1>u DEF HandlerInv
<1>2. CASE Connect \/ JoinAt \/ ExitAt \/ SetLogoutId \/ ReportAt \/ BuildEvent \/ SendLine
  <2>1. kpc' \in {"sendLine", "prompt", "build", "write"} /\ UNCHANGED connectionHandler
    BY <1>2 DEF NoRefusals, Connect, JoinAt, ExitAt, SetLogoutId, ReportAt, BuildEvent, SendLine,
                Send, Goto, Done
  <2> QED BY <2>1, <1>n
<1>3. CASE ResetHandler \/ FindEvents \/ CopyEvents
  BY <1>3 DEF ResetHandler, FindEvents, CopyEvents, HandlerInv
<1>4. CASE LoggedIn \/ Insert \/ Erase
  <2>1. kpc' = "prompt" /\ UNCHANGED connectionHandler
    BY <1>4 DEF LoggedIn, Insert, Erase, Done
  <2> QED BY <2>1, <1>n
<1>5. CASE WriteFrame
  <2>1. /\ kpc = "write" /\ connectionHandler # 0 /\ Calm
        /\ UNCHANGED <<toClient, connectionHandler, logout_Id>>
    BY <1>5, <1>i DEF WriteFrame, Write, Busy, Connecting, CalmInv, ids, session
  <2>2. kpc' \in {"loggedIn", "insert", "erase", "build", "prompt"}
    BY <1>5 DEF WriteFrame, AfterSend, AfterFailure, NextEvent, Goto, Done,
         SessionInv, TypeInv, TypeOK, ClientFrame
  <2>3. CASE kpc' = "loggedIn"
    <3>1. out.cmd = "CONNECT" /\ (UNCHANGED toServer \/ toServer' = Append(toServer, out))
      BY <1>5, <2>3 DEF WriteFrame, Write, AfterSend, AfterFailure, NextEvent, Goto, Done, session,
           SessionInv, TypeInv, TypeOK, ClientFrame
    <3>2. NoneOf("DISCONNECT")'
      BY <2>1, <3>1, QueueAppend DEF Calm, NoneOf, SessionInv, TypeInv, TypeOK, SessionTypeOK
    <3>3. Calm'
      BY <2>1, <3>2, <1>u DEF Calm, Ends, IsReceipt, Processing, TearsDown
    <3> QED BY <2>1, <2>3, <3>3, <1>u DEF HandlerInv
  <2>4. CASE kpc' # "loggedIn"
    BY <2>1, <2>2, <2>4, <1>n
  <2> QED BY <2>3, <2>4
<1> QED BY <1>0, <1>1, <1>2, <1>3, <1>4, <1>5 DEF RunCommand

\* A careful user's client does not crash: under logouts, logins, reports and
\* reports of others in any order, and a server that may go away at any time,
\* neither thread uses the handler the other has dropped, or a table the other
\* is changing.  Each hypothesis is one the code needs: without it, it can crash.
THEOREM CarefulClientSurvives ==
  ASSUME Careful, NoErrorReports, NoRefusals, NoSummaries
  PROVE  Spec => []ClientSurvives
<1>1. SessionInv /\ HandlerInv /\ [Next]_vars => HandlerInv'
  <2> SUFFICES ASSUME SessionInv, HandlerInv, [Next]_vars PROVE HandlerInv'
    OBVIOUS
  <2>1. CASE UNCHANGED vars
    BY <2>1 DEF vars, session, ids, globals, keyboard, reader, HandlerInv, Calm, Ends, IsReceipt,
                NoneOf, Processing, TearsDown
  <2>2. ~UndefinedBehaviour
    BY SafeFromThere DEF ClientSurvives, UndefinedBehaviour
  <2> QED BY <2>1, <2>2, ServerHandler, ReaderHandler, KeyboardHandler DEF Next, Quiet
<1>2. Init => SessionInv /\ HandlerInv
  BY InitSession, InitHandler
<1>3. SessionInv /\ [Next]_vars => SessionInv'
  BY NextSession
<1> QED BY <1>1, <1>2, <1>3, SafeFromThere, PTL DEF Spec
=============================================================================
