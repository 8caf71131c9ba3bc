-------------------------- MODULE StompServerProofs --------------------------
(***************************************************************************)
(* Type correctness of the server, for every set of connections, names,    *)
(* channels and frames: first what each operation of the registry does to  *)
(* its types, then the steps of the processes.  Then the subscriptions of  *)
(* clients that do not share a name.                                       *)
(***************************************************************************)
EXTENDS StompServerProperties, SequenceTheorems, TLAPS

(* The registry *)

LEMMA RegistryInitType == RegistryInit => RegistryTypeOK
<1> SUFFICES ASSUME RegistryInit PROVE RegistryTypeOK
  OBVIOUS
<1>1. <<>> \in Seq(Answer \cup Message)
  OBVIOUS
<1>2. NoIter \in Iterator
  BY DEF NoIter, Iterator
<1> QED
  BY <1>1, <1>2 DEF RegistryInit, RegistryTypeOK

LEMMA SameRegistry ==
  ASSUME RegistryTypeOK, UNCHANGED registry
  PROVE  RegistryTypeOK'
  BY DEF RegistryTypeOK, registry, userVars, topicVars, wireVars

LEMMA ClientsType ==
  ASSUME RegistryTypeOK, NEW c \in Conn, addConnection(c) \/ closeConnection(c)
  PROVE  RegistryTypeOK'
  BY DEF RegistryTypeOK, addConnection, closeConnection, userVars, topicVars

LEMMA SendType ==
  ASSUME RegistryTypeOK, NEW c, NEW f \in Answer \cup Message, Send(c, f)
  PROVE  RegistryTypeOK'
<1>1. out' \in [Conn -> Seq(Answer \cup Message)]
  <2>1. CASE c \in clients
    <3>1. c \in Conn /\ Append(out[c], f) \in Seq(Answer \cup Message)
      BY <2>1, AppendProperties DEF RegistryTypeOK
    <3> QED
      BY <2>1, <3>1 DEF Send, RegistryTypeOK
  <2>2. CASE c \notin clients
    BY <2>2 DEF Send, RegistryTypeOK
  <2> QED
    BY <2>1, <2>2
<1> QED
  BY <1>1 DEF Send, RegistryTypeOK, userVars, topicVars

LEMMA CounterType ==
  ASSUME RegistryTypeOK, getAndIncMessageCounter
  PROVE  RegistryTypeOK'
  BY DEF RegistryTypeOK, getAndIncMessageCounter, userVars, topicVars

LEMMA UserType ==
  ASSUME RegistryTypeOK, NEW o \in Object, NEW p \in Pass \cup {None},
         NEW b \in BOOLEAN, NEW c \in Conn,
         PutNewUser(o, p) \/ SetLoggedIn(o, b) \/ SetUser(c, o)
  PROVE  RegistryTypeOK'
<1>1. o[2] \in Name
  BY DEF Object
<1>2. CASE PutNewUser(o, p)
  BY <1>1, <1>2 DEF RegistryTypeOK, PutNewUser, topicVars, wireVars
<1>3. CASE SetLoggedIn(o, b)
  BY <1>3 DEF RegistryTypeOK, SetLoggedIn, topicVars, wireVars
<1>4. CASE SetUser(c, o)
  BY <1>4 DEF RegistryTypeOK, SetUser, topicVars, wireVars
<1> QED
  BY <1>2, <1>3, <1>4

LEMMA ChannelsType ==
  ASSUME RegistryTypeOK, NEW o \in Object, NEW i \in SubId,
         NEW ch \in Channel \cup {None}, MapId(o, i, ch) \/ ClearChannels(o)
  PROVE  RegistryTypeOK'
<1>1. idToChannel' \in [Object -> [SubId -> Channel \cup {None}]]
  <2>1. idToChannel \in [Object -> [SubId -> Channel \cup {None}]]
    BY DEF RegistryTypeOK
  <2> QED
    BY <2>1 DEF MapId, ClearChannels
<1> QED
  BY <1>1 DEF RegistryTypeOK, MapId, ClearChannels, topicVars, wireVars

LEMMA SubscribersType ==
  ASSUME RegistryTypeOK, NEW c \in Conn, NEW ch \in Channel, NEW loses \in BOOLEAN,
         NEW others \in BOOLEAN,
         AddSubscriber(ch, c, loses) \/ RemoveSubscriber(ch, c, loses, others)
  PROVE  RegistryTypeOK'
<1>1. PICK S \in SUBSET Conn : SetSubscribers(ch, S)
  BY DEF RegistryTypeOK, AddSubscriber, RemoveSubscriber
<1>2. topics' \subseteq Channel
  BY DEF RegistryTypeOK, AddSubscriber, RemoveSubscriber
<1>3. \A t \in Conn : [iter[t] EXCEPT !.ok = FALSE] \in Iterator
  <2>1. \A it \in Iterator : [it EXCEPT !.ok = FALSE] \in Iterator
    BY DEF Iterator
  <2> QED
    BY <2>1 DEF RegistryTypeOK
<1>4. iter' \in [Conn -> Iterator]
  <2>1. \A t \in Conn : iter[t] \in Iterator
    BY DEF RegistryTypeOK
  <2>2. iter' = [t \in Conn |->
          IF S # subscribtions[ch] /\ iter[t].chan = ch
          THEN [iter[t] EXCEPT !.ok = FALSE] ELSE iter[t]]
    BY <1>1 DEF SetSubscribers
  <2> HIDE DEF Iterator
  <2> QED
    BY <1>3, <2>1, <2>2
<1>5. torn' \subseteq Conn \X Channel
  BY DEF RegistryTypeOK, AddSubscriber, RemoveSubscriber, Tear
<1> QED
  BY <1>1, <1>2, <1>4, <1>5 DEF RegistryTypeOK, SetSubscribers, userVars, wireVars

LEMMA IteratorType ==
  ASSUME RegistryTypeOK, NEW c \in Conn, NEW d \in Conn, NEW ch \in Channel,
         OpenIterator(c, ch) \/ Advance(c, d)
  PROVE  RegistryTypeOK'
<1>1. subscribtions[ch] \subseteq Conn /\ iter[c] \in Iterator
  BY DEF RegistryTypeOK
<1>2. [chan |-> ch, rem |-> subscribtions[ch], ok |-> TRUE] \in Iterator
  BY <1>1 DEF Iterator
<1>3. [iter[c] EXCEPT !.rem = @ \ {d}] \in Iterator
  BY <1>1 DEF Iterator
<1>4. iter' \in [Conn -> Iterator]
  <2>1. CASE OpenIterator(c, ch)
    BY <1>2, <2>1 DEF RegistryTypeOK, OpenIterator
  <2>2. CASE Advance(c, d)
    <3>1. iter' = [iter EXCEPT ![c] = [iter[c] EXCEPT !.rem = @ \ {d}]]
      BY <2>2 DEF Advance
    <3> QED
      BY <1>3, <3>1 DEF RegistryTypeOK
  <2> QED
    BY <2>1, <2>2
<1> QED
  BY <1>4 DEF RegistryTypeOK, OpenIterator, Advance, userVars, wireVars

LEMMA DropIteratorType ==
  ASSUME RegistryTypeOK, NEW c \in Conn, DropIterator(c)
  PROVE  RegistryTypeOK'
<1>1. NoIter \in Iterator
  BY DEF NoIter, Iterator
<1> QED
  BY <1>1 DEF RegistryTypeOK, DropIterator, userVars, wireVars

-----------------------------------------------------------------------------
(* The processes *)

LoginSteps == {"isLegalInfo", "isUserLoggedIn", "login", "put", "reuse",
               "setUser"}

\* What a process that stands at a step has checked before: the operands of
\* the step are there.
OperandsAt(c) ==
  /\ pc[c] \in LoginSteps => frame[c].name \in Name
  /\ pc[c] = "reuse" => users[frame[c].name] # None
  /\ pc[c] = "setUser" => user[c] \in Object
  /\ pc[c] \in {"checkUniqueId", "add", "putId"} =>
       frame[c].dest \in Channel /\ frame[c].id \in SubId
  /\ pc[c] \in {"checkIdExists", "removeId"} => frame[c].id \in SubId
  /\ pc[c] \in {"add", "putId", "removeId", "remove", "sweep", "logOff"} =>
       userOf[c] \in Object
  /\ pc[c] \in {"checkDestination", "iterate", "next", "getSubId", "deliver"} =>
       frame[c].dest \in Channel
  /\ pc[c] \in {"getSubId", "deliver"} => msg[c].to \in Conn

Operands == \A c \in Conn : OperandsAt(c)

\* No step forgets a user, or the user of a handler.
Grows ==
  /\ \A u \in Name : users[u] # None => users'[u] # None
  /\ \A c \in Conn : userOf[c] \in Object => userOf'[c] \in Object

LEMMA SameUsersGrow == UNCHANGED <<users, userOf>> => Grows
  BY DEF Grows

\* A process's own step leaves the local state of the others alone.
OnlyLocal(c) == \A d \in Conn \ {c} :
  /\ pc'[d] = pc[d] /\ frame'[d] = frame[d] /\ n'[d] = n[d]
  /\ user'[d] = user[d] /\ todo'[d] = todo[d] /\ msg'[d] = msg[d]

LEMMA OthersOperands ==
  ASSUME Operands, NEW c \in Conn, OnlyLocal(c), Grows, LocalTypeOK,
         OperandsAt(c)'
  PROVE  Operands'
<1> SUFFICES ASSUME NEW d \in Conn, d # c PROVE OperandsAt(d)'
  BY DEF Operands
<1>1. OperandsAt(d)
  BY DEF Operands
<1> QED
  BY <1>1 DEF OperandsAt, OnlyLocal, Grows, LoginSteps

LEMMA GotoType ==
  ASSUME LocalTypeOK, NEW c \in Conn, NEW l \in Outside \cup Inside, Goto(c, l)
  PROVE  /\ LocalTypeOK' /\ OnlyLocal(c) /\ pc'[c] = l
         /\ UNCHANGED <<frame, n, user, todo, msg>>
  BY DEF Goto, LocalTypeOK, OnlyLocal, local

LEMMA LeaveType ==
  ASSUME LocalTypeOK, NEW c \in Conn, NEW l \in Outside, Leave(c, l)
  PROVE  LocalTypeOK' /\ OnlyLocal(c) /\ pc'[c] = l /\ OperandsAt(c)'
<1>1. NoFrame \in Frame
  BY DEF NoFrame, Frame, Command
<1>2. NoMsg \in [to : Conn \cup {None}, sub : SubId \cup {None}, id : Nat]
  BY DEF NoMsg
<1>3. LocalTypeOK' /\ OnlyLocal(c) /\ pc'[c] = l
  BY <1>1, <1>2 DEF Leave, LocalTypeOK, OnlyLocal
<1> QED
  BY <1>3 DEF OperandsAt, LoginSteps, Outside

LEMMA ReceiveType ==
  ASSUME LocalTypeOK, NEW c \in Conn, NEW f \in Sends[c],
         NEW l \in Outside \cup Inside, Receive(c, f, l)
  PROVE  /\ LocalTypeOK' /\ OnlyLocal(c) /\ pc'[c] = l /\ frame'[c] = f
         /\ UNCHANGED registry
<1>1. f \in Frame
  BY ParameterAssumption
<1> QED
  BY <1>1 DEF Receive, LocalTypeOK, OnlyLocal

-----------------------------------------------------------------------------
Typed == TypeOK /\ Operands

LEMMA Assemble ==
  ASSUME Typed, NEW c \in Conn, RegistryTypeOK', LocalTypeOK', OnlyLocal(c),
         Grows, OperandsAt(c)'
  PROVE  Typed'
  BY OthersOperands DEF Typed, TypeOK

\* Steps that read the registry and go on.
LEMMA QuietStep ==
  ASSUME Typed, NEW c \in Conn, UNCHANGED registry, LocalTypeOK', OnlyLocal(c),
         OperandsAt(c)'
  PROVE  Typed'
<1>1. RegistryTypeOK'
  BY SameRegistry DEF Typed, TypeOK
<1>2. Grows
  BY SameUsersGrow DEF registry, userVars
<1> QED
  BY <1>1, <1>2, Assemble

LEMMA CheckStep ==
  ASSUME Typed, NEW c \in Conn, NEW ok \in BOOLEAN, NEW l \in Inside, Check(c, ok, l),
         ok /\ pc'[c] = l => OperandsAt(c)'
  PROVE  Typed'
<1>1. /\ LocalTypeOK' /\ OnlyLocal(c)
      /\ pc'[c] = IF ok THEN l ELSE "error"
  BY GotoType DEF Check, Typed, TypeOK, Inside
<1>2. OperandsAt(c)'
  BY <1>1 DEF OperandsAt, LoginSteps
<1> QED
  BY <1>1, <1>2, QuietStep DEF Check

LEMMA ReceiveStep ==
  ASSUME Typed, NEW c \in Conn, NEW f \in Sends[c], NEW l \in Inside, Receive(c, f, l),
         pc'[c] = l /\ frame'[c] = f => OperandsAt(c)'
  PROVE  Typed'
<1>1. /\ LocalTypeOK' /\ OnlyLocal(c) /\ pc'[c] = l /\ frame'[c] = f
      /\ UNCHANGED registry
  BY ReceiveType DEF Typed, TypeOK
<1> QED
  BY <1>1, QuietStep

LEMMA NoUserStep ==
  ASSUME Typed, NEW c \in Conn, NoUser(c)
  PROVE  Typed'
<1>1. LocalTypeOK' /\ OnlyLocal(c) /\ pc'[c] = "throw" /\ UNCHANGED registry
  BY GotoType DEF NoUser, Typed, TypeOK, Inside
<1>2. OperandsAt(c)'
  BY <1>1 DEF OperandsAt, LoginSteps
<1> QED
  BY <1>1, <1>2, QuietStep

LEMMA TypedInit == Init => Typed
<1> SUFFICES ASSUME Init PROVE Typed
  OBVIOUS
<1>1. NoFrame \in Frame
  BY DEF NoFrame, Frame, Command
<1>2. NoMsg \in [to : Conn \cup {None}, sub : SubId \cup {None}, id : Nat]
  BY DEF NoMsg
<1>3. TypeOK
  BY <1>1, <1>2, RegistryInitType DEF Init, TypeOK, LocalTypeOK, Outside
<1>4. Operands
  BY DEF Init, Operands, OperandsAt, LoginSteps
<1> QED
  BY <1>3, <1>4 DEF Typed

\* The steps of CONNECT.
LEMMA ConnectTyped ==
  ASSUME Typed, NEW c \in Conn,
         \/ handleConnect(c) \/ CheckLegalInfo(c) \/ CheckLoggedIn(c) \/ Login(c)
         \/ PutUser(c) \/ ReuseUser(c) \/ LinkUser(c) \/ Connected(c)
  PROVE  Typed'
<1>0. /\ RegistryTypeOK /\ LocalTypeOK /\ OperandsAt(c) /\ frame[c] \in Frame
      /\ n[c] \in Nat
  BY DEF Typed, TypeOK, Operands, LocalTypeOK
<1>1. CASE handleConnect(c)
  <2>1. PICK f \in Incoming(c, "CONNECT") :
          Receive(c, f, IF f.name = None THEN "error" ELSE "isLegalInfo")
    BY <1>1 DEF handleConnect
  <2>2. f \in Sends[c] /\ f.name \in Name \cup {None}
    BY ParameterAssumption DEF Incoming, Frame
  <2>3. frame'[c] = f /\ pc'[c] = (IF f.name = None THEN "error" ELSE "isLegalInfo")
        => OperandsAt(c)'
    BY <2>2 DEF OperandsAt, LoginSteps
  <2> QED
    BY <2>1, <2>2, <2>3, ReceiveStep DEF Inside
<1>2. CASE CheckLegalInfo(c)
  <2>1. Check(c, isLegalInfo(frame[c].name, frame[c].pass), "isUserLoggedIn")
    BY <1>2 DEF CheckLegalInfo
  <2>2. pc'[c] = "isUserLoggedIn" => OperandsAt(c)'
    BY <1>0, <1>2, <2>1 DEF CheckLegalInfo, At, OperandsAt, LoginSteps, Check, Goto, local
  <2> QED
    BY <2>1, <2>2, CheckStep DEF Inside, isLegalInfo
<1>3. CASE CheckLoggedIn(c)
  <2>1. Check(c, ~isUserLoggedIn(frame[c].name), "login")
    BY <1>3 DEF CheckLoggedIn
  <2>2. pc'[c] = "login" => OperandsAt(c)'
    BY <1>0, <1>3, <2>1 DEF CheckLoggedIn, At, OperandsAt, LoginSteps, Check, Goto, local
  <2> QED
    BY <2>1, <2>2, CheckStep DEF Inside, isUserLoggedIn
<1>4. CASE Login(c)
  <2>1. /\ LocalTypeOK' /\ OnlyLocal(c) /\ UNCHANGED registry /\ frame' = frame
        /\ pc'[c] = IF users[frame[c].name] = None THEN "put" ELSE "reuse"
    BY <1>0, <1>4, GotoType DEF Login, Inside
  <2>2. OperandsAt(c)'
    BY <1>0, <1>4, <2>1
    DEF Login, At, OperandsAt, LoginSteps, registry, userVars
  <2> QED
    BY <2>1, <2>2, QuietStep
<1>5. ASSUME NEW o \in Object, LoginAs(c, o)
      PROVE  /\ LocalTypeOK' /\ OnlyLocal(c) /\ pc'[c] = "setUser" /\ user'[c] = o
             /\ frame' = frame
  BY <1>0, <1>5 DEF LoginAs, LocalTypeOK, OnlyLocal, Inside
<1>6. CASE PutUser(c)
  <2> DEFINE o == <<c, frame[c].name>>
  <2>1. frame[c].name \in Name /\ frame[c].pass \in Pass \cup {None}
    BY <1>0, <1>6 DEF PutUser, At, OperandsAt, LoginSteps, Frame
  <2>2. o \in Object /\ LoginAs(c, o) /\ PutNewUser(o, frame[c].pass)
    BY <1>6, <2>1 DEF PutUser, Object
  <2>3. Grows
    <3>1. o \in Object /\ o # None
      BY <2>2, NoneAssumption DEF Object
    <3> QED
      BY <1>0, <2>2, <3>1 DEF PutNewUser, Grows, RegistryTypeOK
  <2>4. RegistryTypeOK'
    BY <1>0, <2>1, <2>2, UserType
  <2> HIDE DEF o
  <2>5. OperandsAt(c)'
    BY <1>0, <1>5, <2>1, <2>2 DEF OperandsAt, LoginSteps
  <2> QED
    BY <1>5, <2>2, <2>3, <2>4, <2>5, Assemble
<1>7. CASE ReuseUser(c)
  <2> DEFINE o == users[frame[c].name]
  <2>1. frame[c].name \in Name /\ o \in Object
    BY <1>0, <1>7 DEF ReuseUser, At, OperandsAt, LoginSteps, RegistryTypeOK
  <2>2. LoginAs(c, o) /\ SetLoggedIn(o, TRUE)
    BY <1>7 DEF ReuseUser
  <2>3. Grows
    BY <2>2, SameUsersGrow DEF SetLoggedIn
  <2>4. RegistryTypeOK'
    BY <1>0, <2>1, <2>2, UserType
  <2> HIDE DEF o
  <2>5. OperandsAt(c)'
    BY <1>0, <1>5, <2>1, <2>2 DEF OperandsAt, LoginSteps
  <2> QED
    BY <1>5, <2>1, <2>2, <2>3, <2>4, <2>5, Assemble
<1>8. CASE LinkUser(c)
  <2>1. user[c] \in Object
    BY <1>0, <1>8 DEF LinkUser, At, OperandsAt
  <2>2. LocalTypeOK' /\ OnlyLocal(c) /\ pc'[c] = "connected"
    BY <1>0, <1>8, GotoType DEF LinkUser, Inside
  <2>3. OperandsAt(c)'
    BY <2>2 DEF OperandsAt, LoginSteps
  <2>4. RegistryTypeOK'
    BY <1>0, <1>8, <2>1, UserType DEF LinkUser
  <2>5. Grows
    BY <1>0, <1>8, <2>1 DEF LinkUser, SetUser, Grows, RegistryTypeOK
  <2> QED
    BY <2>2, <2>3, <2>4, <2>5, Assemble
<1>9. CASE Connected(c)
  <2>1. LocalTypeOK' /\ OnlyLocal(c) /\ pc'[c] = "receipt"
    BY <1>0, <1>9, GotoType DEF Connected, Inside
  <2>2. OperandsAt(c)'
    BY <2>1 DEF OperandsAt, LoginSteps
  <2>3. [type |-> "CONNECTED", of |-> n[c]] \in Answer \cup Message
    BY <1>0 DEF Answer
  <2>4. RegistryTypeOK'
    BY <1>0, <1>9, <2>3, SendType DEF Connected
  <2>5. Grows
    BY <1>9, SameUsersGrow DEF Connected, Send, userVars
  <2> QED
    BY <2>1, <2>2, <2>4, <2>5, Assemble
<1> QED
  BY <1>1, <1>2, <1>3, <1>4, <1>6, <1>7, <1>8, <1>9

-----------------------------------------------------------------------------
\* Steps that need no operand.
LEMMA FreeStep ==
  ASSUME NEW c \in Conn,
         pc'[c] \in {"receipt", "error", "logout", "close", "throw"}
  PROVE  OperandsAt(c)'
  BY DEF OperandsAt, LoginSteps

\* The loop bodies of logout and the second half of unsubscribe.
LEMMA LeaveChannelTyped ==
  ASSUME Typed, NEW c \in Conn, NEW l \in {"receipt", "sweep"},
         LeaveChannel(c), pc' = [pc EXCEPT ![c] = l], userOf[c] \in Object
  PROVE  Typed'
<1>0. RegistryTypeOK /\ LocalTypeOK
  BY DEF Typed, TypeOK
<1>1. PICK ch \in todo[c] :
        /\ todo' = [todo EXCEPT ![c] = @ \ {ch}]
        /\ \E loses \in {FALSE, Overlaps(c, ch)} :
             RemoveSubscriber(ch, c, loses, OtherIds(c, ch))
        /\ UNCHANGED <<frame, n, user, msg>>
  BY DEF LeaveChannel
<1>2. PICK loses \in BOOLEAN, others \in BOOLEAN :
        RemoveSubscriber(ch, c, loses, others)
  <2>1. Overlaps(c, ch) \in BOOLEAN /\ OtherIds(c, ch) \in BOOLEAN
    BY DEF Overlaps, OtherIds
  <2> QED
    BY <1>1, <2>1
<1>3. ch \in Channel
  BY <1>0, <1>1 DEF LocalTypeOK
<1>4. RegistryTypeOK'
  BY <1>0, <1>2, <1>3, SubscribersType
<1>5. LocalTypeOK' /\ OnlyLocal(c) /\ pc'[c] = l
  BY <1>0, <1>1 DEF LocalTypeOK, OnlyLocal, Inside
<1>6. UNCHANGED <<users, userOf>>
  BY <1>2 DEF RemoveSubscriber, SetSubscribers, userVars
<1>7. OperandsAt(c)'
  BY <1>5, <1>6 DEF OperandsAt, LoginSteps
<1> QED
  BY <1>4, <1>5, <1>6, <1>7, SameUsersGrow, Assemble

\* The steps of SUBSCRIBE.
LEMMA SubscribeTyped ==
  ASSUME Typed, NEW c \in Conn,
         handleSubscribe(c) \/ checkUniqueId(c) \/ AddToChannel(c) \/ PutId(c)
  PROVE  Typed'
<1>0. /\ RegistryTypeOK /\ LocalTypeOK /\ OperandsAt(c) /\ frame[c] \in Frame
  BY DEF Typed, TypeOK, Operands, LocalTypeOK
<1>1. CASE handleSubscribe(c)
  <2>1. PICK f \in Incoming(c, "SUBSCRIBE") :
          Receive(c, f, IF f.dest = None \/ f.id = NaN THEN "throw"
                        ELSE IF f.id = None THEN "error" ELSE "checkUniqueId")
    BY <1>1 DEF handleSubscribe
  <2> DEFINE l == IF f.dest = None \/ f.id = NaN THEN "throw"
                  ELSE IF f.id = None THEN "error" ELSE "checkUniqueId"
  <2>2. f \in Sends[c] /\ f.dest \in Channel \cup {None} /\ f.id \in SubId \cup {None, NaN}
    BY ParameterAssumption DEF Incoming, Frame
  <2>3. frame'[c] = f /\ pc'[c] = l => OperandsAt(c)'
    BY <2>2 DEF OperandsAt, LoginSteps
  <2>4. l \in Inside
    BY DEF Inside
  <2>5. Receive(c, f, l)
    BY <2>1
  <2> HIDE DEF l
  <2> QED
    BY <2>2, <2>3, <2>4, <2>5, ReceiveStep
<1>2. CASE checkUniqueId(c)
  <2>1. CASE NoUser(c)
    BY <2>1, NoUserStep
  <2>2. CASE HasUser(c) /\ Check(c, idToChannel[userOf[c]][frame[c].id] = None, "add")
    <3>1. UNCHANGED <<frame, userOf>>
      BY <2>2 DEF Check, Goto, local, registry, userVars
    <3>2. pc'[c] = "add" => OperandsAt(c)'
      BY <1>0, <1>2, <2>2, <3>1
      DEF checkUniqueId, At, HasUser, OperandsAt, LoginSteps, RegistryTypeOK
    <3> QED
      BY <2>2, <3>2, CheckStep DEF Inside
  <2> QED
    BY <1>2, <2>1, <2>2 DEF checkUniqueId
<1>3. CASE AddToChannel(c)
  <2>1. frame[c].dest \in Channel /\ frame[c].id \in SubId /\ userOf[c] \in Object
    BY <1>0, <1>3 DEF AddToChannel, At, OperandsAt
  <2>2. PICK loses \in BOOLEAN : AddSubscriber(frame[c].dest, c, loses)
    <3>1. Overlaps(c, frame[c].dest) \in BOOLEAN
      BY DEF Overlaps
    <3> QED
      BY <1>3, <3>1 DEF AddToChannel
  <2>3. RegistryTypeOK'
    BY <1>0, <2>1, <2>2, SubscribersType
  <2>4. /\ LocalTypeOK' /\ OnlyLocal(c) /\ pc'[c] = "putId"
        /\ UNCHANGED <<frame, n, user, todo, msg>>
    BY <1>0, <1>3, GotoType DEF AddToChannel, Inside
  <2>5. UNCHANGED <<users, userOf>>
    BY <2>2 DEF AddSubscriber, SetSubscribers, userVars
  <2>6. OperandsAt(c)'
    BY <2>1, <2>4, <2>5 DEF OperandsAt, LoginSteps
  <2> QED
    BY <2>3, <2>4, <2>5, <2>6, SameUsersGrow, Assemble
<1>4. CASE PutId(c)
  <2>1. frame[c].dest \in Channel /\ frame[c].id \in SubId /\ userOf[c] \in Object
    BY <1>0, <1>4 DEF PutId, At, OperandsAt
  <2>2. RegistryTypeOK'
    BY <1>0, <1>4, <2>1, ChannelsType DEF PutId
  <2>3. LocalTypeOK' /\ OnlyLocal(c) /\ pc'[c] = "receipt"
    BY <1>0, <1>4, GotoType DEF PutId, Inside
  <2>4. UNCHANGED <<users, userOf>>
    BY <1>4 DEF PutId, MapId
  <2> QED
    BY <2>2, <2>3, <2>4, FreeStep, SameUsersGrow, Assemble
<1> QED
  BY <1>1, <1>2, <1>3, <1>4

\* The steps of UNSUBSCRIBE.
LEMMA UnsubscribeTyped ==
  ASSUME Typed, NEW c \in Conn,
         \/ handleUnsubscribe(c) \/ checkIdExists(c) \/ RemoveId(c)
         \/ RemoveFromChannel(c)
  PROVE  Typed'
<1>0. /\ RegistryTypeOK /\ LocalTypeOK /\ OperandsAt(c) /\ frame[c] \in Frame
  BY DEF Typed, TypeOK, Operands, LocalTypeOK
<1>1. CASE handleUnsubscribe(c)
  <2>1. PICK f \in Incoming(c, "UNSUBSCRIBE") :
          Receive(c, f, IF f.id = None THEN "error"
                        ELSE IF f.id = NaN THEN "throw" ELSE "checkIdExists")
    BY <1>1 DEF handleUnsubscribe
  <2> DEFINE l == IF f.id = None THEN "error"
                  ELSE IF f.id = NaN THEN "throw" ELSE "checkIdExists"
  <2>2. f \in Sends[c] /\ f.id \in SubId \cup {None, NaN}
    BY ParameterAssumption DEF Incoming, Frame
  <2>3. frame'[c] = f /\ pc'[c] = l => OperandsAt(c)'
    BY <2>2 DEF OperandsAt, LoginSteps
  <2>4. l \in Inside
    BY DEF Inside
  <2>5. Receive(c, f, l)
    BY <2>1
  <2> HIDE DEF l
  <2> QED
    BY <2>2, <2>3, <2>4, <2>5, ReceiveStep
<1>2. CASE checkIdExists(c)
  <2>1. CASE NoUser(c)
    BY <2>1, NoUserStep
  <2>2. CASE /\ HasUser(c)
             /\ Check(c, idToChannel[userOf[c]][frame[c].id] # None, "removeId")
    <3>1. UNCHANGED <<frame, userOf>>
      BY <2>2 DEF Check, Goto, local, registry, userVars
    <3>2. pc'[c] = "removeId" => OperandsAt(c)'
      BY <1>0, <1>2, <2>2, <3>1
      DEF checkIdExists, At, HasUser, OperandsAt, LoginSteps, RegistryTypeOK
    <3> QED
      BY <2>2, <3>2, CheckStep DEF Inside
  <2> QED
    BY <1>2, <2>1, <2>2 DEF checkIdExists
<1>3. CASE RemoveId(c)
  <2> DEFINE ch == idToChannel[userOf[c]][frame[c].id]
  <2>1. frame[c].id \in SubId /\ userOf[c] \in Object
    BY <1>0, <1>3 DEF RemoveId, At, OperandsAt
  <2>2. ch \in Channel \cup {None}
    BY <1>0, <2>1 DEF RegistryTypeOK
  <2>3. RegistryTypeOK'
    BY <1>0, <1>3, <2>1, ChannelsType DEF RemoveId
  <2>4. /\ LocalTypeOK' /\ OnlyLocal(c) /\ pc'[c] \in {"throw", "remove"}
        /\ userOf' = userOf /\ users' = users
    <3> HIDE DEF ch
    <3>1. /\ pc' = [pc EXCEPT ![c] = IF ch = None THEN "throw" ELSE "remove"]
          /\ todo' = [todo EXCEPT ![c] = {ch} \ {None}]
          /\ UNCHANGED <<frame, n, user, msg>> /\ userOf' = userOf /\ users' = users
      BY <1>3 DEF RemoveId, MapId, ch
    <3> QED
      BY <1>0, <2>2, <3>1 DEF LocalTypeOK, OnlyLocal, Inside
  <2>5. OperandsAt(c)'
    BY <2>1, <2>4 DEF OperandsAt, LoginSteps
  <2> QED
    BY <2>3, <2>4, <2>5, SameUsersGrow, Assemble
<1>4. CASE RemoveFromChannel(c)
  <2>1. userOf[c] \in Object
    BY <1>0, <1>4 DEF RemoveFromChannel, At, OperandsAt
  <2> QED
    BY <1>4, <2>1, LeaveChannelTyped DEF RemoveFromChannel
<1> QED
  BY <1>1, <1>2, <1>3, <1>4

\* The steps of SEND.
LEMMA SendTyped ==
  ASSUME Typed, NEW c \in Conn,
         \/ handleSend(c) \/ checkDestination(c) \/ Iterate(c) \/ NextFails(c)
         \/ NextSubscriber(c) \/ EndOfLoop(c) \/ GetSubId(c) \/ Deliver(c)
  PROVE  Typed'
<1>0. /\ RegistryTypeOK /\ LocalTypeOK /\ OperandsAt(c) /\ frame[c] \in Frame
      /\ n[c] \in Nat /\ msgCounter \in Nat
      /\ msg[c] \in [to : Conn \cup {None}, sub : SubId \cup {None}, id : Nat]
  BY DEF Typed, TypeOK, Operands, LocalTypeOK, RegistryTypeOK
<1>1. CASE handleSend(c)
  <2>1. PICK f \in Incoming(c, "SEND") :
          Receive(c, f, IF f.dest = None THEN "throw" ELSE "checkDestination")
    BY <1>1 DEF handleSend
  <2>2. f \in Sends[c] /\ f.dest \in Channel \cup {None}
    BY ParameterAssumption DEF Incoming, Frame
  <2>3. /\ frame'[c] = f
        /\ pc'[c] = (IF f.dest = None THEN "throw" ELSE "checkDestination")
        => OperandsAt(c)'
    BY <2>2 DEF OperandsAt, LoginSteps
  <2> QED
    BY <2>1, <2>2, <2>3, ReceiveStep DEF Inside
<1>2. CASE checkDestination(c)
  <2>1. CASE NoUser(c)
    BY <2>1, NoUserStep
  <2>2. CASE Check(c, isChannel(frame[c].dest) /\ isHandlerSubbed(frame[c].dest, c),
                   "iterate")
    <3>1. frame' = frame
      BY <2>2 DEF Check, Goto, local
    <3>2. pc'[c] = "iterate" => OperandsAt(c)'
      BY <1>0, <1>2, <3>1 DEF checkDestination, At, OperandsAt, LoginSteps
    <3> QED
      BY <2>2, <3>2, CheckStep DEF Inside, isChannel
  <2> QED
    BY <1>2, <2>1, <2>2 DEF checkDestination
<1>3. CASE Iterate(c)
  <2>1. frame[c].dest \in Channel
    BY <1>0, <1>3 DEF Iterate, At, OperandsAt
  <2>2. RegistryTypeOK'
    BY <1>0, <1>3, <2>1, IteratorType DEF Iterate
  <2>3. LocalTypeOK' /\ OnlyLocal(c) /\ pc'[c] = "next" /\ frame' = frame
    BY <1>0, <1>3, GotoType DEF Iterate, Inside
  <2>4. UNCHANGED <<users, userOf>>
    BY <1>3 DEF Iterate, OpenIterator, userVars
  <2>5. OperandsAt(c)'
    BY <2>1, <2>3 DEF OperandsAt, LoginSteps
  <2> QED
    BY <2>2, <2>3, <2>4, <2>5, SameUsersGrow, Assemble
<1>4. CASE NextFails(c)
  <2>1. LocalTypeOK' /\ OnlyLocal(c) /\ pc'[c] = "throw" /\ UNCHANGED registry
    BY <1>0, <1>4, GotoType DEF NextFails, Inside
  <2> QED
    BY <2>1, FreeStep, QuietStep
<1>5. CASE NextSubscriber(c)
  <2>1. PICK d \in iter[c].rem : Advance(c, d) /\ msg' = [msg EXCEPT ![c].to = d]
    BY <1>5 DEF NextSubscriber
  <2>2. d \in Conn /\ frame[c].dest \in Channel
    <3>1. iter[c].rem \subseteq Conn
      BY <1>0 DEF RegistryTypeOK, Iterator
    <3> QED
      BY <1>0, <1>5, <2>1, <3>1 DEF NextSubscriber, At, OperandsAt
  <2>3. RegistryTypeOK'
    BY <1>0, <2>1, <2>2, IteratorType
  <2>4. /\ LocalTypeOK' /\ OnlyLocal(c) /\ pc'[c] = "getSubId"
        /\ frame' = frame /\ msg'[c].to = d
    BY <1>0, <1>5, <2>1, <2>2 DEF NextSubscriber, LocalTypeOK, OnlyLocal, Inside
  <2>5. UNCHANGED <<users, userOf>>
    BY <2>1 DEF Advance, userVars
  <2>6. OperandsAt(c)'
    BY <2>2, <2>4 DEF OperandsAt, LoginSteps
  <2> QED
    BY <2>3, <2>4, <2>5, <2>6, SameUsersGrow, Assemble
<1>6. CASE EndOfLoop(c)
  <2>1. LocalTypeOK' /\ OnlyLocal(c) /\ pc'[c] = "receipt"
    BY <1>0, <1>6, GotoType DEF EndOfLoop, Inside
  <2>2. RegistryTypeOK'
    BY <1>0, <1>6, DropIteratorType DEF EndOfLoop
  <2>3. UNCHANGED <<users, userOf>>
    BY <1>6 DEF EndOfLoop, DropIterator, userVars
  <2> QED
    BY <2>1, <2>2, <2>3, FreeStep, SameUsersGrow, Assemble
<1>7. CASE GetSubId(c)
  <2>0. frame[c].dest \in Channel /\ msg[c].to \in Conn
    BY <1>0, <1>7 DEF GetSubId, At, OperandsAt
  <2>1. CASE Goto(c, "throw") /\ UNCHANGED registry
    <3>1. LocalTypeOK' /\ OnlyLocal(c) /\ pc'[c] = "throw"
      BY <1>0, <2>1, GotoType DEF Inside
    <3> QED
      BY <2>1, <3>1, FreeStep, QuietStep
  <2>2. CASE /\ \E i \in SubIdByChannel(userOf[msg[c].to], frame[c].dest) :
                  msg' = [msg EXCEPT ![c].sub = i, ![c].id = msgCounter]
             /\ pc' = [pc EXCEPT ![c] = "deliver"]
             /\ getAndIncMessageCounter
             /\ UNCHANGED <<frame, n, user, todo>>
    <3>1. PICK i \in SubIdByChannel(userOf[msg[c].to], frame[c].dest) :
            msg' = [msg EXCEPT ![c].sub = i, ![c].id = msgCounter]
      BY <2>2
    <3>2. i \in SubId \cup {None}
      BY DEF SubIdByChannel, SubIdsOf
    <3>3. RegistryTypeOK'
      BY <1>0, <2>2, CounterType
    <3>4. /\ LocalTypeOK' /\ OnlyLocal(c) /\ pc'[c] = "deliver"
          /\ frame' = frame /\ msg'[c].to = msg[c].to
      BY <1>0, <2>2, <3>1, <3>2 DEF LocalTypeOK, OnlyLocal, Inside
    <3>5. UNCHANGED <<users, userOf>>
      BY <2>2 DEF getAndIncMessageCounter, userVars
    <3>6. OperandsAt(c)'
      BY <2>0, <3>4 DEF OperandsAt, LoginSteps
    <3> QED
      BY <3>3, <3>4, <3>5, <3>6, SameUsersGrow, Assemble
  <2> QED
    BY <1>7, <2>1, <2>2 DEF GetSubId
<1>8. CASE Deliver(c)
  <2> DEFINE f == [type |-> "MESSAGE", from |-> c, of |-> n[c],
                   id |-> msg[c].id, sub |-> msg[c].sub]
  <2>1. f \in Answer \cup Message
    BY <1>0 DEF Message
  <2>2. Send(msg[c].to, f)
    BY <1>8 DEF Deliver
  <2>3. RegistryTypeOK'
    <3> HIDE DEF f
    <3> QED
      BY <1>0, <2>1, <2>2, SendType
  <2>4. /\ LocalTypeOK' /\ OnlyLocal(c) /\ pc'[c] = "next" /\ frame' = frame
    <3>1. NoMsg \in [to : Conn \cup {None}, sub : SubId \cup {None}, id : Nat]
      BY DEF NoMsg
    <3> QED
      BY <1>0, <1>8, <3>1 DEF Deliver, LocalTypeOK, OnlyLocal, Inside
  <2>5. OperandsAt(c)'
    BY <1>0, <1>8, <2>4 DEF Deliver, At, OperandsAt, LoginSteps
  <2>6. UNCHANGED <<users, userOf>>
    BY <2>2 DEF Send, userVars
  <2> QED
    BY <2>3, <2>4, <2>5, <2>6, SameUsersGrow, Assemble
<1> QED
  BY <1>1, <1>2, <1>3, <1>4, <1>5, <1>6, <1>7, <1>8

\* The steps of DISCONNECT and of handleError, and what ends a frame or a
\* connection.
LEMMA EndTyped ==
  ASSUME Typed, NEW c \in Conn,
         \/ handleDisconnect(c) \/ handleOther(c) \/ SendError(c) \/ Logout(c)
         \/ Sweep(c) \/ ClearAll(c) \/ LogOff(c) \/ CloseConnection(c)
         \/ handleReceipt(c) \/ Unwind(c) \/ Accept(c) \/ EndOfStream(c)
  PROVE  Typed'
<1>0. /\ RegistryTypeOK /\ LocalTypeOK /\ OperandsAt(c) /\ n[c] \in Nat
  BY DEF Typed, TypeOK, Operands, LocalTypeOK
<1>1. CASE handleDisconnect(c)
  <2>1. PICK f \in Incoming(c, "DISCONNECT") :
          Receive(c, f, IF f.receipt THEN "receipt" ELSE "error")
    BY <1>1 DEF handleDisconnect
  <2>2. pc'[c] = (IF f.receipt THEN "receipt" ELSE "error") => OperandsAt(c)'
    BY FreeStep
  <2> QED
    BY <2>1, <2>2, ReceiveStep DEF Incoming, Inside
<1>2. CASE handleOther(c)
  <2>1. PICK f \in Incoming(c, "OTHER") : Receive(c, f, "error")
    BY <1>2 DEF handleOther
  <2>2. pc'[c] = "error" => OperandsAt(c)'
    BY FreeStep
  <2> QED
    BY <2>1, <2>2, ReceiveStep DEF Incoming, Inside
<1>3. CASE SendError(c)
  <2>1. LocalTypeOK' /\ OnlyLocal(c) /\ pc'[c] = "logout"
    BY <1>0, <1>3, GotoType DEF SendError, Inside
  <2>2. [type |-> "ERROR", of |-> n[c]] \in Answer \cup Message
    BY <1>0 DEF Answer
  <2>3. RegistryTypeOK'
    BY <1>0, <1>3, <2>2, SendType DEF SendError
  <2>4. UNCHANGED <<users, userOf>>
    BY <1>3 DEF SendError, Send, userVars
  <2> QED
    BY <2>1, <2>3, <2>4, FreeStep, SameUsersGrow, Assemble
<1>4. ASSUME AfterLogout(c)
      PROVE  LocalTypeOK' /\ OnlyLocal(c) /\ OperandsAt(c)'
  <2>1. CASE Goto(c, "close")
    BY <1>0, <2>1, GotoType, FreeStep DEF Inside
  <2>2. CASE Leave(c, "idle")
    BY <1>0, <2>2, LeaveType DEF Outside
  <2> QED
    BY <1>4, <2>1, <2>2 DEF AfterLogout
<1>5. CASE Logout(c)
  <2>1. CASE AfterLogout(c)
    BY <1>4, <1>5, <2>1, QuietStep DEF Logout
  <2>2. CASE /\ userOf[c] # None
             /\ pc' = [pc EXCEPT ![c] = "sweep"]
             /\ todo' = [todo EXCEPT ![c] =
                           {ch \in Channel : isHandlerSubbed(ch, c)}]
             /\ UNCHANGED <<frame, n, user, msg>>
    <3>1. LocalTypeOK' /\ OnlyLocal(c) /\ pc'[c] = "sweep"
      BY <1>0, <2>2 DEF LocalTypeOK, OnlyLocal, Inside
    <3>2. userOf'[c] \in Object
      BY <1>0, <1>5, <2>2
      DEF Logout, RegistryTypeOK, registry, userVars
    <3>3. OperandsAt(c)'
      BY <3>1, <3>2 DEF OperandsAt, LoginSteps
    <3> QED
      BY <1>5, <3>1, <3>3, QuietStep DEF Logout
  <2> QED
    BY <1>5, <2>1, <2>2 DEF Logout
<1>6. CASE Sweep(c)
  <2>1. userOf[c] \in Object
    BY <1>0, <1>6 DEF Sweep, At, OperandsAt
  <2>2. pc' = [pc EXCEPT ![c] = "sweep"]
    BY <1>0, <1>6 DEF Sweep, At, LocalTypeOK
  <2> QED
    BY <1>6, <2>1, <2>2, LeaveChannelTyped DEF Sweep
<1>7. CASE ClearAll(c)
  <2>1. userOf[c] \in Object
    BY <1>0, <1>7 DEF ClearAll, At, OperandsAt
  <2>2. /\ LocalTypeOK' /\ OnlyLocal(c) /\ pc'[c] = "logOff"
    BY <1>0, <1>7, GotoType DEF ClearAll, Inside
  <2>3. RegistryTypeOK'
    <3>1. idToChannel' \in [Object -> [SubId -> Channel \cup {None}]]
      BY <1>0, <1>7 DEF RegistryTypeOK, ClearAll, ClearChannels
    <3> QED
      BY <1>0, <1>7, <3>1
      DEF RegistryTypeOK, ClearAll, ClearChannels, topicVars, wireVars
  <2>4. UNCHANGED <<users, userOf>>
    BY <1>7 DEF ClearAll, ClearChannels
  <2>5. OperandsAt(c)'
    BY <2>1, <2>2, <2>4 DEF OperandsAt, LoginSteps
  <2> QED
    BY <2>2, <2>3, <2>4, <2>5, SameUsersGrow, Assemble
<1>8. CASE LogOff(c)
  <2>1. userOf[c] \in Object
    BY <1>0, <1>8 DEF LogOff, At, OperandsAt
  <2>2. RegistryTypeOK'
    BY <1>0, <1>8, <2>1, UserType DEF LogOff
  <2>3. UNCHANGED <<users, userOf>>
    BY <1>8 DEF LogOff, SetLoggedIn
  <2> QED
    BY <1>4, <1>8, <2>2, <2>3, SameUsersGrow, Assemble DEF LogOff
<1>9. CASE CloseConnection(c)
  <2>1. LocalTypeOK' /\ OnlyLocal(c) /\ OperandsAt(c)'
    BY <1>0, <1>9, LeaveType DEF CloseConnection, Outside
  <2>2. RegistryTypeOK'
    BY <1>0, <1>9, ClientsType DEF CloseConnection
  <2>3. UNCHANGED <<users, userOf>>
    BY <1>9 DEF CloseConnection, closeConnection, userVars
  <2> QED
    BY <2>1, <2>2, <2>3, SameUsersGrow, Assemble
<1>10. CASE handleReceipt(c)
  <2>1. [type |-> "RECEIPT", of |-> n[c]] \in Answer \cup Message
    BY <1>0 DEF Answer
  <2>2. RegistryTypeOK' /\ UNCHANGED <<users, userOf>>
    <3>1. CASE Send(c, [type |-> "RECEIPT", of |-> n[c]])
      BY <1>0, <2>1, <3>1, SendType DEF Send, userVars
    <3>2. CASE UNCHANGED registry
      BY <1>0, <3>2, SameRegistry DEF registry, userVars
    <3> QED
      BY <1>10, <3>1, <3>2 DEF handleReceipt
  <2>3. LocalTypeOK' /\ OnlyLocal(c) /\ OperandsAt(c)'
    <3>1. CASE Goto(c, "logout")
      BY <1>0, <3>1, GotoType, FreeStep DEF Inside
    <3>2. CASE Leave(c, "idle")
      BY <1>0, <3>2, LeaveType DEF Outside
    <3> QED
      BY <1>10, <3>1, <3>2 DEF handleReceipt
  <2> QED
    BY <2>2, <2>3, SameUsersGrow, Assemble
<1>11. CASE Unwind(c)
  <2>1. LocalTypeOK' /\ OnlyLocal(c) /\ OperandsAt(c)'
    BY <1>0, <1>11, LeaveType DEF Unwind, Outside
  <2>2. RegistryTypeOK'
    BY <1>0, <1>11, DropIteratorType DEF Unwind
  <2>3. UNCHANGED <<users, userOf>>
    BY <1>11 DEF Unwind, DropIterator, userVars
  <2> QED
    BY <2>1, <2>2, <2>3, SameUsersGrow, Assemble
<1>12. CASE Accept(c)
  <2>1. LocalTypeOK' /\ OnlyLocal(c) /\ pc'[c] = "idle"
    BY <1>0, <1>12, GotoType DEF Accept, Outside
  <2>2. OperandsAt(c)'
    BY <2>1 DEF OperandsAt, LoginSteps
  <2>3. RegistryTypeOK'
    BY <1>0, <1>12, ClientsType DEF Accept
  <2>4. UNCHANGED <<users, userOf>>
    BY <1>12 DEF Accept, addConnection, userVars
  <2> QED
    BY <2>1, <2>2, <2>3, <2>4, SameUsersGrow, Assemble
<1>13. CASE EndOfStream(c)
  <2>1. LocalTypeOK' /\ OnlyLocal(c) /\ OperandsAt(c)'
    BY <1>0, <1>13, LeaveType DEF EndOfStream, Outside
  <2> QED
    BY <1>13, <2>1, QuietStep DEF EndOfStream
<1> QED
  BY <1>1, <1>2, <1>3, <1>5, <1>6, <1>7, <1>8, <1>9, <1>10, <1>11, <1>12, <1>13

-----------------------------------------------------------------------------
LEMMA TypedNext == Typed /\ [Next]_vars => Typed'
<1> SUFFICES ASSUME Typed, [Next]_vars PROVE Typed'
  OBVIOUS
<1>1. CASE UNCHANGED vars
  <2>1. UNCHANGED registry /\ UNCHANGED <<pc, frame, n, user, todo, msg>>
    BY <1>1 DEF vars, local
  <2>2. RegistryTypeOK' /\ LocalTypeOK'
    BY <2>1, SameRegistry DEF Typed, TypeOK, LocalTypeOK
  <2>3. Operands'
    BY <2>1
    DEF Typed, Operands, OperandsAt, LoginSteps, registry, userVars
  <2> QED
    BY <2>2, <2>3 DEF Typed, TypeOK
<1>2. ASSUME NEW c \in Conn, Process(c) \/ Client(c) PROVE Typed'
  BY <1>2, ConnectTyped, SubscribeTyped, UnsubscribeTyped, SendTyped, EndTyped
  DEF Process, Client
<1> QED
  BY <1>1, <1>2 DEF Next, Quiet

(***************************************************************************)
(* In every reachable state the registry and the processes hold values of  *)
(* their types, whatever the connections, names, channels and frames: no   *)
(* step of process looks a user, a channel or an id up that its checks, or *)
(* those of another connection in between, have not left there.  (The      *)
(* NullPointerExceptions the code does run into are the steps to "throw".) *)
(***************************************************************************)
THEOREM TypeCorrect == Spec => []TypeOK
<1>1. Typed => TypeOK
  BY DEF Typed
<1> QED
  BY <1>1, TypedInit, TypedNext, PTL DEF Spec

-----------------------------------------------------------------------------
(***************************************************************************)
(* Subscriptions are kept twice, in the User of a connection and in the    *)
(* HashSet of the channel, and nothing locks the two.  For clients with    *)
(* names of their own the two agree about a connection and a channel       *)
(* wherever its last update of the set has not torn them apart: theorems   *)
(* for any number of clients, names, channels, ids and frames.             *)
(***************************************************************************)

-----------------------------------------------------------------------------
(* The frame a process handles is one its client may send, and its command *)
(* says in which handler the process can stand.                            *)

ConnectSteps     == LoginSteps \cup {"connected"}
SubscribeSteps   == {"checkUniqueId", "add", "putId"}
UnsubscribeSteps == {"checkIdExists", "removeId", "remove"}
SendingSteps     == {"checkDestination", "iterate", "next", "getSubId", "deliver"}

CommandOf(l) ==
  CASE l \in ConnectSteps -> {"CONNECT"}
    [] l \in SubscribeSteps -> {"SUBSCRIBE"}
    [] l \in UnsubscribeSteps -> {"UNSUBSCRIBE"}
    [] l \in SendingSteps -> {"SEND"}
    [] OTHER -> Command

FrameAt(c) == pc[c] \in Inside =>
  frame[c] \in Sends[c] /\ frame[c].cmd \in CommandOf(pc[c])

FrameInv == \A c \in Conn : FrameAt(c)

-----------------------------------------------------------------------------
(* The User of a connection is its own *)

OwnUser(c, o) == o \in Object /\ o[1] = c /\ \E f \in Logins(c) : f.name = o[2]

OwnerAt(c) ==
  /\ pc[c] = "setUser" => OwnUser(c, user[c])
  /\ userOf[c] # None => OwnUser(c, userOf[c])

UsersOwned == \A u \in Name : users[u] # None =>
  users[u][2] = u /\ OwnUser(users[u][1], users[u])

OwnerInv == UsersOwned /\ \A c \in Conn : OwnerAt(c)

-----------------------------------------------------------------------------
(* The two halves of a connection's subscriptions *)

InSet(c, ch) == c \in subscribtions[ch]

\* The set has the connection, or what it lacks is accounted for; and the other
\* way round.
Reached(c, ch) == InSet(c, ch) \/ Torn(c, ch)
Ghost(c, ch)   == InSet(c, ch) /\ ~Torn(c, ch)

\* The id of a SUBSCRIBE stays free until it is mapped, and the channel's set
\* has the connection by then.
AddingAt(c) ==
  /\ pc[c] \in {"add", "putId"} => idToChannel[userOf[c]][frame[c].id] = None
  /\ pc[c] = "putId" => Reached(c, frame[c].dest)
  /\ pc[c] = "receipt" /\ frame[c].cmd = "SUBSCRIBE" =>
       /\ userOf[c] # None /\ frame[c].dest \in Channel
       /\ idToChannel[userOf[c]][frame[c].id] = frame[c].dest
       /\ Reached(c, frame[c].dest)

\* A process that takes the connection out of sets has the sets in todo, and the
\* id of an UNSUBSCRIBE is gone by then.
LeavingAt(c) ==
  /\ pc[c] = "remove" => /\ \E ch \in Channel : todo[c] = {ch}
                         /\ idToChannel[userOf[c]][frame[c].id] = None
  /\ pc[c] = "sweep" => \A ch \in Channel : Ghost(c, ch) => ch \in todo[c]
  /\ pc[c] = "logOff" => \A ch \in Channel : ~Ghost(c, ch) /\ ~Subscribed(c, ch)

NoGhostAt(c) == \A ch \in Channel : Ghost(c, ch) =>
  \/ Subscribed(c, ch)
  \/ pc[c] = "putId" /\ frame[c].dest = ch
  \/ pc[c] = "remove" /\ ch \in todo[c]

\* But for the sweep of logout, which ends with the ids.
DeliveredAt(c) == pc[c] # "sweep" =>
  \A ch \in Channel : Subscribed(c, ch) => Reached(c, ch)

\* Before the connection has a User, nothing is subscribed.
NothingBefore(c) == userOf[c] = None =>
  /\ \A ch \in Channel : ~InSet(c, ch)
  /\ \A u \in Name : \A i \in SubId : idToChannel[<<c, u>>][i] = None

PairAt(c) == /\ AddingAt(c) /\ LeavingAt(c) /\ NoGhostAt(c)
             /\ DeliveredAt(c) /\ NothingBefore(c)

PairInv == \A c \in Conn : PairAt(c)

-----------------------------------------------------------------------------
(* Steps and what they leave alone *)

LEMMA LocalProcess ==
  ASSUME TypeOK, NEW c \in Conn, Process(c) \/ Client(c)
  PROVE  OnlyLocal(c)
<1> USE DEF TypeOK, LocalTypeOK, OnlyLocal, Goto, Leave, Receive, local, Check, NoUser
<1>1. CASE Client(c)
  BY <1>1 DEF Client, Accept, EndOfStream, handleConnect, handleSubscribe,
     handleUnsubscribe, handleSend, handleDisconnect, handleOther
<1>2. CASE \/ CheckLegalInfo(c) \/ CheckLoggedIn(c) \/ Login(c) \/ PutUser(c)
           \/ ReuseUser(c) \/ LinkUser(c) \/ Connected(c)
  BY <1>2 DEF CheckLegalInfo, CheckLoggedIn, Login, PutUser, ReuseUser, LinkUser,
     Connected, LoginAs
<1>3. CASE \/ checkUniqueId(c) \/ AddToChannel(c) \/ PutId(c)
           \/ checkIdExists(c) \/ RemoveId(c) \/ RemoveFromChannel(c) \/ Sweep(c)
  BY <1>3 DEF checkUniqueId, AddToChannel, PutId, checkIdExists, RemoveId,
     RemoveFromChannel, Sweep, LeaveChannel
<1>4. CASE \/ checkDestination(c) \/ Iterate(c) \/ NextFails(c) \/ NextSubscriber(c)
           \/ EndOfLoop(c) \/ Deliver(c)
  BY <1>4 DEF checkDestination, Iterate, NextFails, NextSubscriber, EndOfLoop, Deliver
<1>5. CASE GetSubId(c)
  BY <1>5 DEF GetSubId
<1>6. CASE \/ SendError(c) \/ Logout(c) \/ ClearAll(c) \/ LogOff(c)
           \/ CloseConnection(c) \/ handleReceipt(c) \/ Unwind(c)
  BY <1>6 DEF SendError, Logout, ClearAll, LogOff, CloseConnection, handleReceipt,
     Unwind, AfterLogout
<1> QED
  BY <1>1, <1>2, <1>3, <1>4, <1>5, <1>6 DEF Process

-----------------------------------------------------------------------------
(* The frame in hand *)

\* A step goes on with the same frame, or the process leaves its handler.
SameFrame(c) == /\ pc[c] \in Inside /\ frame'[c] = frame[c]
                /\ pc'[c] \in Inside => frame[c].cmd \in CommandOf(pc'[c])

LEMMA FrameStep ==
  ASSUME FrameInv, NEW c \in Conn, OnlyLocal(c),
         SameFrame(c) \/ pc'[c] \in Outside \/ FrameAt(c)'
  PROVE  FrameInv'
<1>1. FrameAt(c)'
  BY DEF FrameInv, FrameAt, SameFrame, Outside, Inside
<1> QED
  BY <1>1 DEF FrameInv, FrameAt, OnlyLocal

LEMMA FrameInit == Init => FrameInv
  BY DEF Init, FrameInv, FrameAt, Inside

LEMMA FrameProcess ==
  ASSUME FrameInv, TypeOK, NEW c \in Conn, Process(c)
  PROVE  SameFrame(c) \/ pc'[c] \in Outside
<1> USE DEF TypeOK, LocalTypeOK, Goto, Leave, local, Check, NoUser, At, SameFrame
<1>0. /\ pc[c] \in Inside => frame[c].cmd \in CommandOf(pc[c])
      /\ frame[c].cmd \in Command
  BY DEF FrameInv, FrameAt, Frame
<1>1. CASE \/ CheckLegalInfo(c) \/ CheckLoggedIn(c) \/ Login(c) \/ PutUser(c)
           \/ ReuseUser(c) \/ LinkUser(c) \/ Connected(c)
  <2>0. pc[c] \in ConnectSteps /\ frame' = frame
    BY <1>1 DEF ConnectSteps, LoginSteps, CheckLegalInfo, CheckLoggedIn, Login,
       PutUser, ReuseUser, LinkUser, Connected, LoginAs
  <2>1. frame[c].cmd = "CONNECT" /\ pc[c] \in Inside
    BY <1>0, <2>0 DEF CommandOf, ConnectSteps, LoginSteps, SubscribeSteps,
       UnsubscribeSteps, SendingSteps, Inside
  <2>2. pc'[c] \in ConnectSteps \cup {"error", "throw", "receipt"}
    BY <1>1 DEF ConnectSteps, LoginSteps, CheckLegalInfo, CheckLoggedIn, Login,
       PutUser, ReuseUser, LinkUser, Connected, LoginAs
  <2>3. frame[c].cmd \in CommandOf(pc'[c])
    BY <2>1, <2>2 DEF CommandOf, ConnectSteps, LoginSteps, SubscribeSteps,
       UnsubscribeSteps, SendingSteps, Command
  <2> QED
    BY <2>0, <2>1, <2>3
<1>2. CASE checkUniqueId(c) \/ AddToChannel(c) \/ PutId(c)
  <2>0. pc[c] \in SubscribeSteps /\ frame' = frame
    BY <1>2 DEF SubscribeSteps, checkUniqueId, AddToChannel, PutId
  <2>1. frame[c].cmd = "SUBSCRIBE" /\ pc[c] \in Inside
    BY <1>0, <2>0 DEF CommandOf, ConnectSteps, LoginSteps, SubscribeSteps,
       UnsubscribeSteps, SendingSteps, Inside
  <2>2. pc'[c] \in SubscribeSteps \cup {"error", "throw", "receipt"}
    BY <1>2 DEF SubscribeSteps, checkUniqueId, AddToChannel, PutId
  <2>3. frame[c].cmd \in CommandOf(pc'[c])
    BY <2>1, <2>2 DEF CommandOf, ConnectSteps, LoginSteps, SubscribeSteps,
       UnsubscribeSteps, SendingSteps, Command
  <2> QED
    BY <2>0, <2>1, <2>3
<1>3. CASE checkIdExists(c) \/ RemoveId(c) \/ RemoveFromChannel(c)
  <2>0. pc[c] \in UnsubscribeSteps /\ frame' = frame
    BY <1>3 DEF UnsubscribeSteps, checkIdExists, RemoveId, RemoveFromChannel, LeaveChannel
  <2>1. frame[c].cmd = "UNSUBSCRIBE" /\ pc[c] \in Inside
    BY <1>0, <2>0 DEF CommandOf, ConnectSteps, LoginSteps, SubscribeSteps,
       UnsubscribeSteps, SendingSteps, Inside
  <2>2. pc'[c] \in UnsubscribeSteps \cup {"error", "throw", "receipt"}
    BY <1>3 DEF UnsubscribeSteps, checkIdExists, RemoveId, RemoveFromChannel
  <2>3. frame[c].cmd \in CommandOf(pc'[c])
    BY <2>1, <2>2 DEF CommandOf, ConnectSteps, LoginSteps, SubscribeSteps,
       UnsubscribeSteps, SendingSteps, Command
  <2> QED
    BY <2>0, <2>1, <2>3
<1>4. CASE \/ checkDestination(c) \/ Iterate(c) \/ NextFails(c) \/ NextSubscriber(c)
           \/ EndOfLoop(c) \/ GetSubId(c) \/ Deliver(c)
  <2>0. pc[c] \in SendingSteps /\ frame' = frame
    BY <1>4 DEF SendingSteps, checkDestination, Iterate, NextFails,
       NextSubscriber, EndOfLoop, GetSubId, Deliver
  <2>1. frame[c].cmd = "SEND" /\ pc[c] \in Inside
    BY <1>0, <2>0 DEF CommandOf, ConnectSteps, LoginSteps, SubscribeSteps,
       UnsubscribeSteps, SendingSteps, Inside
  <2>2. pc'[c] \in SendingSteps \cup {"error", "throw", "receipt"}
    BY <1>4 DEF SendingSteps, checkDestination, Iterate, NextFails, NextSubscriber,
       EndOfLoop, GetSubId, Deliver
  <2>3. frame[c].cmd \in CommandOf(pc'[c])
    BY <2>1, <2>2 DEF CommandOf, ConnectSteps, LoginSteps, SubscribeSteps,
       UnsubscribeSteps, SendingSteps, Command
  <2> QED
    BY <2>0, <2>1, <2>3
<1>5. CASE \/ SendError(c) \/ Logout(c) \/ Sweep(c) \/ ClearAll(c) \/ LogOff(c)
           \/ CloseConnection(c) \/ handleReceipt(c) \/ Unwind(c)
  <2>1. /\ pc[c] \in Inside
        /\ \/ pc'[c] \in {"new", "idle", "dead"}
           \/ /\ pc'[c] \in {"logout", "throw", "sweep", "logOff", "close"}
              /\ frame'[c] = frame[c]
    BY <1>5 DEF Inside, SendError, Logout, Sweep, LeaveChannel, ClearAll, LogOff,
       CloseConnection, handleReceipt, Unwind, AfterLogout
  <2>2. \A l \in {"logout", "throw", "sweep", "logOff", "close"} : CommandOf(l) = Command
    BY DEF CommandOf, ConnectSteps, LoginSteps, SubscribeSteps, UnsubscribeSteps,
       SendingSteps
  <2> QED
    BY <1>0, <2>1, <2>2 DEF Outside
<1> QED
  BY <1>1, <1>2, <1>3, <1>4, <1>5 DEF Process

LEMMA FrameClient ==
  ASSUME TypeOK, NEW c \in Conn, Client(c)
  PROVE  pc'[c] \in Outside \/ FrameAt(c)'
<1>1. CASE Accept(c) \/ EndOfStream(c)
  BY <1>1 DEF Accept, EndOfStream, Goto, Leave, TypeOK, LocalTypeOK, Outside
<1>2. ASSUME NEW f \in Sends[c], NEW l, Receive(c, f, l), f.cmd \in CommandOf(l)
      PROVE  FrameAt(c)'
  BY <1>2 DEF Receive, TypeOK, LocalTypeOK, FrameAt
<1>3. \A f \in Sends[c] : f.cmd \in Command
  BY ParameterAssumption DEF Frame
<1> USE DEF CommandOf, ConnectSteps, LoginSteps, SubscribeSteps, UnsubscribeSteps,
            SendingSteps, Incoming
<1>4. CASE handleConnect(c)
  BY <1>2, <1>3, <1>4 DEF handleConnect
<1>5. CASE handleSubscribe(c)
  BY <1>2, <1>3, <1>5 DEF handleSubscribe
<1>6. CASE handleUnsubscribe(c)
  BY <1>2, <1>3, <1>6 DEF handleUnsubscribe
<1>7. CASE handleSend(c)
  BY <1>2, <1>3, <1>7 DEF handleSend
<1>8. CASE handleDisconnect(c)
  BY <1>2, <1>3, <1>8 DEF handleDisconnect
<1>9. CASE handleOther(c)
  BY <1>2, <1>3, <1>9 DEF handleOther
<1> QED
  BY <1>1, <1>4, <1>5, <1>6, <1>7, <1>8, <1>9 DEF Client

LEMMA FrameNext == FrameInv /\ Typed /\ [Next]_vars => FrameInv'
<1> SUFFICES ASSUME FrameInv, TypeOK, [Next]_vars PROVE FrameInv'
  BY DEF Typed
<1>1. CASE UNCHANGED vars
  BY <1>1 DEF vars, local, FrameInv, FrameAt
<1>2. ASSUME NEW c \in Conn, Process(c) PROVE FrameInv'
  BY <1>2, LocalProcess, FrameProcess, FrameStep
<1>3. ASSUME NEW c \in Conn, Client(c) PROVE FrameInv'
  BY <1>3, LocalProcess, FrameClient, FrameStep
<1> QED
  BY <1>1, <1>2, <1>3 DEF Next, Quiet

-----------------------------------------------------------------------------
(* Users *)

LEMMA OneOwner ==
  ASSUME PersonalNames, NEW c \in Conn, NEW o, NEW p, OwnUser(c, o), OwnUser(c, p)
  PROVE  o = p
<1>1. o[2] = p[2]
  BY DEF OwnUser, PersonalNames
<1> QED
  BY <1>1 DEF OwnUser, Object

LEMMA OwnerInit == Init => OwnerInv
  BY DEF Init, RegistryInit, OwnerInv, OwnerAt, UsersOwned

\* Steps with nothing to do with login.
LEMMA SameUsers ==
  ASSUME OwnerInv, NEW c \in Conn, OnlyLocal(c), UNCHANGED <<users, userOf>>,
         pc'[c] = "setUser" => OwnUser(c, user'[c])
  PROVE  OwnerInv'
<1>1. UsersOwned'
  BY DEF OwnerInv, UsersOwned, OwnUser
<1>2. ASSUME NEW d \in Conn PROVE OwnerAt(d)'
  BY DEF OwnerInv, OwnerAt, OwnUser, OnlyLocal
<1> QED
  BY <1>1, <1>2 DEF OwnerInv

\* A login name in a frame of c is c's own.
LEMMA LoginIsOwn ==
  ASSUME FrameInv, Typed, NEW c \in Conn, pc[c] \in LoginSteps
  PROVE  frame[c].name \in Name /\ \E f \in Logins(c) : f.name = frame[c].name
<1>1. frame[c].name \in Name
  BY DEF Typed, Operands, OperandsAt
<1>2. frame[c] \in Sends[c] /\ frame[c].cmd = "CONNECT"
  BY DEF FrameInv, FrameAt, CommandOf, ConnectSteps, LoginSteps, SubscribeSteps,
     UnsubscribeSteps, SendingSteps, Inside
<1> QED
  BY <1>1, <1>2, NoneAssumption DEF Logins

LEMMA LoginOwned ==
  ASSUME PersonalNames, OwnerInv, FrameInv, Typed, NEW c \in Conn,
         PutUser(c) \/ ReuseUser(c) \/ LinkUser(c)
  PROVE  OwnerInv'
<1>0. TypeOK /\ LocalTypeOK /\ RegistryTypeOK /\ OnlyLocal(c)
  BY LocalProcess DEF Typed, TypeOK, Process
<1> DEFINE u == frame[c].name
<1>1. u \in Name /\ \E f \in Logins(c) : f.name = u
  BY LoginIsOwn DEF PutUser, ReuseUser, LinkUser, At, LoginSteps, Typed, Operands, OperandsAt
<1>2. CASE PutUser(c)
  <2>1. OwnUser(c, <<c, u>>)
    BY <1>1 DEF OwnUser, Object
  <2>2. /\ pc'[c] = "setUser" /\ user'[c] = <<c, u>> /\ userOf' = userOf
        /\ users' = [users EXCEPT ![u] = <<c, u>>]
    BY <1>0, <1>2 DEF PutUser, LoginAs, PutNewUser, LocalTypeOK
  <2>3. UsersOwned'
    <3> SUFFICES ASSUME NEW v \in Name, users'[v] # None
                 PROVE  users'[v][2] = v /\ OwnUser(users'[v][1], users'[v])
      BY DEF UsersOwned, OwnUser
    <3> QED
      BY <1>0, <1>1, <2>1, <2>2 DEF OwnerInv, UsersOwned, RegistryTypeOK
  <2>4. \A d \in Conn : OwnerAt(d)'
    BY <1>0, <2>1, <2>2 DEF OwnerInv, OwnerAt, OnlyLocal
  <2> QED
    BY <2>3, <2>4 DEF OwnerInv
<1>3. CASE ReuseUser(c)
  <2>1. users[u] # None
    BY <1>3 DEF ReuseUser, At, Typed, Operands, OperandsAt
  <2>2. /\ users[u][2] = u /\ OwnUser(users[u][1], users[u])
        /\ users[u][1] \in Conn
    BY <1>1, <2>1 DEF OwnerInv, UsersOwned, OwnUser, Object
  <2>3. users[u][1] = c
    BY <1>1, <2>2 DEF OwnUser, PersonalNames
  <2>4. pc'[c] = "setUser" => OwnUser(c, user'[c])
    BY <1>0, <1>3, <2>2, <2>3 DEF ReuseUser, LoginAs, LocalTypeOK
  <2>5. UNCHANGED <<users, userOf>>
    BY <1>3 DEF ReuseUser, SetLoggedIn
  <2> QED
    BY <1>0, <2>4, <2>5, SameUsers
<1>4. CASE LinkUser(c)
  <2>1. OwnUser(c, user[c]) /\ pc'[c] # "setUser" /\ users' = users
    BY <1>0, <1>4 DEF LinkUser, Goto, At, SetUser, OwnerInv, OwnerAt, registry, userVars,
       LocalTypeOK
  <2>2. userOf' = userOf \/ userOf' = [userOf EXCEPT ![c] = user[c]]
    BY <1>4 DEF LinkUser, SetUser, registry, userVars
  <2>3. \A d \in Conn : OwnerAt(d)'
    BY <1>0, <2>1, <2>2 DEF OwnerInv, OwnerAt, OnlyLocal, RegistryTypeOK
  <2>4. UsersOwned'
    BY <2>1 DEF OwnerInv, UsersOwned, OwnUser
  <2> QED
    BY <2>3, <2>4 DEF OwnerInv
<1> QED
  BY <1>2, <1>3, <1>4

LEMMA OtherUsers ==
  ASSUME TypeOK, NEW c \in Conn, Process(c) \/ Client(c),
         ~PutUser(c), ~ReuseUser(c), ~LinkUser(c)
  PROVE  UNCHANGED <<users, userOf>> /\ pc'[c] # "setUser"
<1> USE DEF TypeOK, LocalTypeOK, Goto, Leave, Receive, Check, NoUser, registry,
            userVars
<1>1. CASE Client(c)
  BY <1>1 DEF Client, Accept, EndOfStream, handleConnect, handleSubscribe,
     handleUnsubscribe, handleSend, handleDisconnect, handleOther, addConnection
<1>2. CASE CheckLegalInfo(c) \/ CheckLoggedIn(c) \/ Login(c) \/ Connected(c)
  BY <1>2 DEF CheckLegalInfo, CheckLoggedIn, Login, Connected, Send
<1>3. CASE \/ checkUniqueId(c) \/ AddToChannel(c) \/ PutId(c)
           \/ checkIdExists(c) \/ RemoveId(c)
  BY <1>3 DEF checkUniqueId, AddToChannel, PutId, checkIdExists, RemoveId,
     AddSubscriber, SetSubscribers, MapId
<1>4. CASE RemoveFromChannel(c) \/ Sweep(c)
  BY <1>4 DEF RemoveFromChannel, Sweep, LeaveChannel, RemoveSubscriber,
     SetSubscribers, At
<1>5. CASE \/ checkDestination(c) \/ Iterate(c) \/ NextFails(c) \/ NextSubscriber(c)
           \/ EndOfLoop(c) \/ GetSubId(c) \/ Deliver(c)
  BY <1>5 DEF checkDestination, Iterate, NextFails, NextSubscriber, EndOfLoop,
     GetSubId, Deliver, OpenIterator, Advance, DropIterator,
     getAndIncMessageCounter, Send
<1>6. CASE \/ SendError(c) \/ Logout(c) \/ ClearAll(c) \/ LogOff(c)
           \/ CloseConnection(c) \/ handleReceipt(c) \/ Unwind(c)
  BY <1>6 DEF SendError, Logout, ClearAll, LogOff, CloseConnection, handleReceipt,
     Unwind, AfterLogout, Send, ClearChannels, SetLoggedIn, closeConnection, DropIterator
<1> QED
  BY <1>1, <1>2, <1>3, <1>4, <1>5, <1>6 DEF Process

LEMMA OwnerNext ==
  ASSUME PersonalNames, OwnerInv, FrameInv, Typed, [Next]_vars
  PROVE  OwnerInv'
<1>0. TypeOK
  BY DEF Typed
<1>1. CASE UNCHANGED vars
  BY <1>1 DEF vars, local, registry, userVars, OwnerInv, OwnerAt, UsersOwned, OwnUser
<1>2. ASSUME NEW c \in Conn, Process(c) \/ Client(c) PROVE OwnerInv'
  <2>1. CASE PutUser(c) \/ ReuseUser(c) \/ LinkUser(c)
    BY <2>1, LoginOwned
  <2>2. CASE ~(PutUser(c) \/ ReuseUser(c) \/ LinkUser(c))
    BY <1>0, <1>2, <2>2, OtherUsers, SameUsers, LocalProcess
  <2> QED
    BY <2>1, <2>2
<1> QED
  BY <1>1, <1>2 DEF Next, Quiet

-----------------------------------------------------------------------------
(* A step leaves the subscriptions of the other connections alone *)

SameHalves(d, ch) == InSet(d, ch)' = InSet(d, ch) /\ Torn(d, ch)' = Torn(d, ch)

OthersPairs(c) == \A d \in Conn \ {c} :
  /\ userOf'[d] = userOf[d]
  /\ \A u \in Name : idToChannel'[<<d, u>>] = idToChannel[<<d, u>>]
  /\ \A ch \in Channel : SameHalves(d, ch)

SamePairs == UNCHANGED <<userOf, idToChannel, subscribtions, torn>>

LEMMA PairStep ==
  ASSUME OwnerInv, PairInv, NEW c \in Conn, OnlyLocal(c), OthersPairs(c), PairAt(c)',
         FrameInv, Typed
  PROVE  PairInv'
<1> SUFFICES ASSUME NEW d \in Conn, d # c PROVE PairAt(d)'
  BY DEF PairInv
<1>1. /\ pc'[d] = pc[d] /\ frame'[d] = frame[d] /\ todo'[d] = todo[d]
      /\ userOf'[d] = userOf[d]
      /\ \A ch \in Channel : InSet(d, ch)' = InSet(d, ch)
      /\ \A ch \in Channel : Reached(d, ch)' = Reached(d, ch)
      /\ \A ch \in Channel : Ghost(d, ch)' = Ghost(d, ch)
  BY DEF OnlyLocal, OthersPairs, SameHalves, Reached, Ghost
<1>2. userOf[d] # None => \E u \in Name : userOf[d] = <<d, u>>
  BY DEF OwnerInv, OwnerAt, OwnUser, Object
<1>3. userOf[d] # None => idToChannel'[userOf[d]] = idToChannel[userOf[d]]
  BY <1>2 DEF OthersPairs
<1>4. \A ch : Subscribed(d, ch)' = Subscribed(d, ch)
  BY <1>1, <1>3 DEF Subscribed, SubIdsOf
<1>5. /\ pc[d] \in {"add", "putId"} => userOf[d] # None /\ frame[d].dest \in Channel
      /\ pc[d] = "remove" => userOf[d] # None
  BY NoneAssumption DEF Typed, Operands, OperandsAt, Object
<1>6. PairAt(d)
  BY DEF PairInv
<1>7. AddingAt(d)'
  <2>1. AddingAt(d)
    BY <1>6 DEF PairAt
  <2> QED
    BY <1>1, <1>3, <1>5, <2>1 DEF AddingAt
<1>8. LeavingAt(d)'
  BY <1>1, <1>3, <1>4, <1>5, <1>6 DEF PairAt, LeavingAt
<1>9. NoGhostAt(d)' /\ DeliveredAt(d)'
  BY <1>1, <1>4, <1>6 DEF PairAt, NoGhostAt, DeliveredAt
<1>10. NothingBefore(d)'
  BY <1>1, <1>6 DEF PairAt, NothingBefore, OthersPairs
<1> QED
  BY <1>7, <1>8, <1>9, <1>10 DEF PairAt

\* A step that changes no subscription and ends none that is under way.
Inert(c) ==
  /\ SamePairs
  /\ pc[c] \notin {"putId", "remove", "sweep"}
  /\ pc'[c] \notin {"add", "putId", "remove", "sweep", "logOff"}
  /\ pc'[c] = "receipt" => frame'[c].cmd # "SUBSCRIBE"

LEMMA ClientInert ==
  ASSUME TypeOK, NEW c \in Conn, Client(c)
  PROVE  Inert(c)
<1> USE DEF TypeOK, LocalTypeOK, Inert, SamePairs, registry, userVars, topicVars, At
<1>1. CASE Accept(c) \/ EndOfStream(c)
  BY <1>1 DEF Accept, EndOfStream, addConnection, Goto, Leave
<1>2. ASSUME NEW f \in Sends[c], NEW l, Receive(c, f, l),
             l \notin {"add", "putId", "remove", "sweep", "logOff"},
             l = "receipt" => f.cmd # "SUBSCRIBE"
      PROVE  Inert(c)
  BY <1>2 DEF Receive
<1> HIDE DEF Inert
<1>3. CASE handleConnect(c)
  BY <1>2, <1>3 DEF handleConnect, Incoming
<1>4. CASE handleSubscribe(c)
  BY <1>2, <1>4 DEF handleSubscribe, Incoming
<1>5. CASE handleUnsubscribe(c)
  BY <1>2, <1>5 DEF handleUnsubscribe, Incoming
<1>6. CASE handleSend(c)
  BY <1>2, <1>6 DEF handleSend, Incoming
<1>7. CASE handleDisconnect(c)
  BY <1>2, <1>7 DEF handleDisconnect, Incoming
<1>8. CASE handleOther(c)
  BY <1>2, <1>8 DEF handleOther, Incoming
<1> QED
  BY <1>1, <1>3, <1>4, <1>5, <1>6, <1>7, <1>8 DEF Client

LEMMA ConnectInert ==
  ASSUME FrameInv, TypeOK, NEW c \in Conn,
         \/ CheckLegalInfo(c) \/ CheckLoggedIn(c) \/ Login(c) \/ PutUser(c)
         \/ ReuseUser(c) \/ Connected(c)
  PROVE  Inert(c)
<1>1. SamePairs
  BY DEF SamePairs, CheckLegalInfo, CheckLoggedIn, Login, PutUser, ReuseUser,
     Connected, Check, registry, userVars, topicVars, PutNewUser, SetLoggedIn, Send
<1>2. /\ pc[c] \in ConnectSteps /\ pc'[c] \in LoginSteps \cup {"error", "receipt"}
      /\ frame' = frame
  BY DEF TypeOK, LocalTypeOK, ConnectSteps, LoginSteps, Goto, LoginAs, local, At, Check,
     CheckLegalInfo, CheckLoggedIn, Login, PutUser, ReuseUser, Connected
<1>3. frame[c].cmd = "CONNECT"
  BY <1>2 DEF FrameInv, FrameAt, Inside, CommandOf, ConnectSteps, LoginSteps,
     SubscribeSteps, UnsubscribeSteps, SendingSteps
<1> QED
  BY <1>1, <1>2, <1>3 DEF Inert, ConnectSteps, LoginSteps

LEMMA SendInert ==
  ASSUME FrameInv, TypeOK, NEW c \in Conn,
         \/ checkDestination(c) \/ Iterate(c) \/ NextFails(c) \/ NextSubscriber(c)
         \/ EndOfLoop(c) \/ GetSubId(c) \/ Deliver(c)
  PROVE  Inert(c)
<1>1. SamePairs
  BY DEF SamePairs, checkDestination, Iterate, NextFails, NextSubscriber, EndOfLoop,
     GetSubId, Deliver, NoUser, Check, registry, userVars, topicVars, OpenIterator,
     Advance, DropIterator, getAndIncMessageCounter, Send
<1>2. /\ pc[c] \in SendingSteps
      /\ pc'[c] \in SendingSteps \cup {"error", "throw", "receipt"}
      /\ frame' = frame
  BY DEF TypeOK, LocalTypeOK, SendingSteps, Goto, local, At, NoUser, Check,
     checkDestination, Iterate, NextFails, NextSubscriber, EndOfLoop, GetSubId, Deliver
<1>3. frame[c].cmd = "SEND"
  BY <1>2 DEF FrameInv, FrameAt, Inside, CommandOf, ConnectSteps, LoginSteps,
     SubscribeSteps, UnsubscribeSteps, SendingSteps
<1> QED
  BY <1>1, <1>2, <1>3 DEF Inert, SendingSteps

LEMMA EndInert ==
  ASSUME TypeOK, NEW c \in Conn,
         \/ SendError(c) \/ (Logout(c) /\ pc'[c] # "sweep") \/ LogOff(c)
         \/ CloseConnection(c) \/ handleReceipt(c) \/ Unwind(c)
         \/ checkIdExists(c) \/ (checkUniqueId(c) /\ pc'[c] # "add")
  PROVE  Inert(c)
<1>1. SamePairs
  BY DEF SamePairs, SendError, Logout, LogOff, CloseConnection, handleReceipt, Unwind,
     checkIdExists, checkUniqueId, NoUser, Check, registry, userVars, topicVars,
     SetLoggedIn, closeConnection, DropIterator, Send
<1>2. pc[c] \notin {"putId", "remove", "sweep"}
  BY DEF At, SendError, Logout, LogOff, CloseConnection, handleReceipt, Unwind,
     checkIdExists, checkUniqueId
<1>3. pc'[c] \in {"logout", "close", "idle", "dead", "throw", "error", "removeId"}
  BY DEF TypeOK, LocalTypeOK, Goto, Leave, AfterLogout, NoUser, Check, SendError, Logout,
     LogOff, CloseConnection, handleReceipt, Unwind, checkIdExists, checkUniqueId
<1> QED
  BY <1>1, <1>2, <1>3 DEF Inert

-----------------------------------------------------------------------------
(* The steps that do change subscriptions *)

Agrees(c) == OthersPairs(c) /\ PairAt(c)'

\* The set of one channel changes for one connection.
OneSet(c, ch) ==
  /\ OthersPairs(c) /\ UNCHANGED <<userOf, idToChannel>>
  /\ \A x \in Channel \ {ch} : SameHalves(c, x)

LEMMA SetEffect ==
  ASSUME RegistryTypeOK, NEW c \in Conn, NEW ch \in Channel, NEW b \in BOOLEAN,
         NEW S, S \in {subscribtions[ch] \cup {c}, subscribtions[ch] \ {c},
                       subscribtions[ch]},
         SetSubscribers(ch, S), Tear(c, ch, b)
  PROVE  /\ OneSet(c, ch) /\ (InSet(c, ch)' <=> c \in S) /\ (Torn(c, ch)' <=> b)
<1>1. /\ subscribtions' = [subscribtions EXCEPT ![ch] = S]
      /\ UNCHANGED <<userOf, idToChannel>>
  BY DEF SetSubscribers, userVars
<1>2. \A d \in Conn : \A x \in Channel : d # c \/ x # ch => InSet(d, x)' = InSet(d, x)
  BY <1>1 DEF RegistryTypeOK, InSet
<1>3. \A d \in Conn : \A x \in Channel : d # c \/ x # ch => Torn(d, x)' = Torn(d, x)
  BY DEF Tear, Torn
<1>4. InSet(c, ch)' <=> c \in S
  BY <1>1 DEF RegistryTypeOK, InSet
<1>5. Torn(c, ch)' <=> b
  BY DEF Tear, Torn
<1> QED
  BY <1>1, <1>2, <1>3, <1>4, <1>5 DEF OneSet, OthersPairs, SameHalves

LEMMA AddEffect ==
  ASSUME RegistryTypeOK, NEW c \in Conn, NEW ch \in Channel, NEW loses \in BOOLEAN,
         AddSubscriber(ch, c, loses)
  PROVE  OneSet(c, ch) /\ Reached(c, ch)'
<1>1. PICK S \in {subscribtions[ch] \cup {c}, subscribtions[ch]} :
        SetSubscribers(ch, S) /\ (c \in S \/ loses)
  BY DEF AddSubscriber
<1> QED
  BY <1>1, SetEffect DEF AddSubscriber, Reached

LEMMA RemoveEffect ==
  ASSUME RegistryTypeOK, NEW c \in Conn, NEW ch \in Channel, NEW loses \in BOOLEAN,
         NEW others \in BOOLEAN, RemoveSubscriber(ch, c, loses, others)
  PROVE  OneSet(c, ch) /\ ~Ghost(c, ch)' /\ (others => Reached(c, ch)')
<1>1. PICK S \in {subscribtions[ch] \ {c}, subscribtions[ch]} :
        SetSubscribers(ch, S) /\ (c \in S => loses)
  BY DEF RemoveSubscriber
<1>2. (loses \/ others) \in BOOLEAN
  OBVIOUS
<1> QED
  BY <1>1, <1>2, SetEffect DEF RemoveSubscriber, Reached, Ghost

\* A connection's own map changes at one id, or is cleared.
LEMMA MapEffect ==
  ASSUME RegistryTypeOK, OwnerInv, NEW c \in Conn, userOf[c] \in Object,
         NEW i \in SubId, NEW v, MapId(userOf[c], i, v)
  PROVE  /\ OthersPairs(c) /\ UNCHANGED <<userOf, subscribtions, torn>>
         /\ \A j \in SubId : idToChannel'[userOf[c]][j] =
              IF j = i THEN v ELSE idToChannel[userOf[c]][j]
<1>1. userOf[c][1] = c
  BY NoneAssumption DEF OwnerInv, OwnerAt, OwnUser, Object
<1>2. UNCHANGED <<userOf, subscribtions, torn>>
  BY DEF MapId, topicVars
<1>3. \A d \in Conn \ {c} : \A u \in Name : <<d, u>> \in Object /\ <<d, u>> # userOf[c]
  BY <1>1 DEF Object
<1> QED
  BY <1>2, <1>3 DEF MapId, RegistryTypeOK, OthersPairs, SameHalves, InSet, Torn

LEMMA ClearEffect ==
  ASSUME RegistryTypeOK, OwnerInv, NEW c \in Conn, userOf[c] \in Object,
         ClearChannels(userOf[c])
  PROVE  /\ OthersPairs(c) /\ UNCHANGED <<userOf, subscribtions, torn>>
         /\ \A j \in SubId : idToChannel'[userOf[c]][j] = None
<1>1. userOf[c][1] = c
  BY NoneAssumption DEF OwnerInv, OwnerAt, OwnUser, Object
<1>2. UNCHANGED <<userOf, subscribtions, torn>>
  BY DEF ClearChannels, topicVars
<1>3. \A d \in Conn \ {c} : \A u \in Name : <<d, u>> \in Object /\ <<d, u>> # userOf[c]
  BY <1>1 DEF Object
<1> QED
  BY <1>2, <1>3 DEF ClearChannels, RegistryTypeOK, OthersPairs, SameHalves, InSet, Torn

\* What is known where a step of the process of c begins.
Known == /\ PersonalNames /\ OwnerInv /\ FrameInv /\ Typed /\ PairInv

LEMMA KnownAt ==
  ASSUME Known, NEW c \in Conn
  PROVE  /\ OwnerInv /\ Typed /\ TypeOK /\ RegistryTypeOK /\ LocalTypeOK
         /\ PairAt(c) /\ AddingAt(c) /\ LeavingAt(c) /\ NoGhostAt(c)
         /\ DeliveredAt(c) /\ NothingBefore(c)
         /\ OperandsAt(c) /\ FrameAt(c) /\ OwnerAt(c)
         /\ \A ch \in Channel : ch # None
         /\ \A o \in Object : o # None
  BY NoneAssumption DEF Known, PairInv, PairAt, Typed, TypeOK, Operands, FrameInv,
     OwnerInv, Object

LEMMA AddAgrees ==
  ASSUME Known, NEW c \in Conn, AddToChannel(c)
  PROVE  Agrees(c)
<1>1. /\ pc[c] = "add" /\ pc'[c] = "putId" /\ frame' = frame /\ todo' = todo
  BY KnownAt DEF AddToChannel, At, Goto, local, LocalTypeOK
<1>2. userOf[c] \in Object /\ frame[c].dest \in Channel
  BY <1>1, KnownAt DEF OperandsAt
<1>3. OneSet(c, frame[c].dest) /\ Reached(c, frame[c].dest)'
  <2>1. PICK ch \in Channel : ch = frame[c].dest
    BY <1>2
  <2>2. Overlaps(c, ch) \in BOOLEAN
    BY DEF Overlaps
  <2>3. PICK loses \in BOOLEAN : AddSubscriber(ch, c, loses)
    BY <2>1, <2>2 DEF AddToChannel
  <2>4. OneSet(c, ch) /\ Reached(c, ch)'
    BY <2>3, AddEffect, KnownAt
  <2> QED
    BY <1>1, <2>1, <2>4
<1>4. \A x : Subscribed(c, x)' = Subscribed(c, x)
  BY <1>3 DEF OneSet, Subscribed, SubIdsOf
<1>5. \A x \in Channel : x # frame[c].dest =>
        Reached(c, x)' = Reached(c, x) /\ Ghost(c, x)' = Ghost(c, x)
  BY <1>3 DEF OneSet, SameHalves, Reached, Ghost
<1>6. AddingAt(c)' /\ LeavingAt(c)'
  BY <1>1, <1>2, <1>3, KnownAt DEF AddingAt, LeavingAt, OneSet
<1>7. NoGhostAt(c)' /\ DeliveredAt(c)'
  BY <1>1, <1>3, <1>4, <1>5, KnownAt DEF NoGhostAt, DeliveredAt
<1>8. NothingBefore(c)'
  BY <1>2, <1>3, KnownAt DEF NothingBefore, OneSet
<1> QED
  BY <1>3, <1>6, <1>7, <1>8 DEF Agrees, PairAt, OneSet

\* A step that leaves both sets as they are.
LEMMA SetsKept ==
  ASSUME UNCHANGED <<subscribtions, torn>>, NEW c
  PROVE  \A x : /\ InSet(c, x)' = InSet(c, x) /\ Torn(c, x)' = Torn(c, x)
                /\ Reached(c, x)' = Reached(c, x) /\ Ghost(c, x)' = Ghost(c, x)
  BY DEF InSet, Torn, Reached, Ghost

LEMMA PutAgrees ==
  ASSUME Known, NEW c \in Conn, PutId(c)
  PROVE  Agrees(c)
<1> DEFINE o == userOf[c]
           i == frame[c].id
           ch == frame[c].dest
<1>1. /\ pc[c] = "putId" /\ pc'[c] = "receipt" /\ frame' = frame /\ todo' = todo
      /\ MapId(o, i, ch)
  BY KnownAt DEF PutId, At, Goto, local, LocalTypeOK
<1>2. o \in Object /\ ch \in Channel /\ i \in SubId
  BY <1>1, KnownAt DEF OperandsAt
<1>3. /\ OthersPairs(c) /\ UNCHANGED <<userOf, subscribtions, torn>>
      /\ \A j \in SubId : idToChannel'[o][j] = IF j = i THEN ch ELSE idToChannel[o][j]
  BY <1>1, <1>2, MapEffect, KnownAt
<1>4. idToChannel[o][i] = None /\ Reached(c, ch)
  BY <1>1, KnownAt DEF AddingAt
<1>5. \A x \in Channel : Subscribed(c, x)' <=> Subscribed(c, x) \/ x = ch
  BY <1>2, <1>3, <1>4, KnownAt DEF Subscribed, SubIdsOf
<1>6. \A x : /\ InSet(c, x)' = InSet(c, x) /\ Torn(c, x)' = Torn(c, x)
             /\ Reached(c, x)' = Reached(c, x) /\ Ghost(c, x)' = Ghost(c, x)
  BY <1>3, SetsKept
<1>7. AddingAt(c)' /\ LeavingAt(c)'
  BY <1>1, <1>2, <1>3, <1>4, <1>6, KnownAt DEF AddingAt, LeavingAt
<1>8. NoGhostAt(c)' /\ DeliveredAt(c)'
  BY <1>1, <1>4, <1>5, <1>6, KnownAt DEF NoGhostAt, DeliveredAt
<1>9. NothingBefore(c)'
  BY <1>2, <1>3, KnownAt DEF NothingBefore
<1> QED
  BY <1>3, <1>7, <1>8, <1>9 DEF Agrees, PairAt

LEMMA RemoveIdAgrees ==
  ASSUME Known, NEW c \in Conn, RemoveId(c)
  PROVE  Agrees(c)
<1> DEFINE o == userOf[c]
           i == frame[c].id
           ch == idToChannel[o][i]
<1>1. /\ pc[c] = "removeId" /\ frame' = frame /\ MapId(o, i, None)
      /\ pc'[c] = IF ch = None THEN "throw" ELSE "remove"
      /\ todo'[c] = {ch} \ {None}
  BY KnownAt DEF RemoveId, At, LocalTypeOK
<1>2. o \in Object /\ i \in SubId /\ ch \in Channel \cup {None}
  BY <1>1, KnownAt DEF OperandsAt, RegistryTypeOK
<1>3. /\ OthersPairs(c) /\ UNCHANGED <<userOf, subscribtions, torn>>
      /\ \A j \in SubId : idToChannel'[o][j] = IF j = i THEN None ELSE idToChannel[o][j]
  <2>1. RegistryTypeOK /\ OwnerInv
    BY KnownAt
  <2>2. MapId(o, i, None) /\ o \in Object /\ i \in SubId
    BY <1>1, <1>2
  <2> QED
    BY <2>1, <2>2, MapEffect
<1>4. \A x : /\ InSet(c, x)' = InSet(c, x) /\ Torn(c, x)' = Torn(c, x)
             /\ Reached(c, x)' = Reached(c, x) /\ Ghost(c, x)' = Ghost(c, x)
  BY <1>3, SetsKept
<1>5. \A x \in Channel : Subscribed(c, x) => Subscribed(c, x)' \/ x = ch
  BY <1>2, <1>3, KnownAt DEF Subscribed, SubIdsOf
<1>6. \A x \in Channel : Subscribed(c, x)' => Subscribed(c, x)
  BY <1>2, <1>3, KnownAt DEF Subscribed, SubIdsOf
<1>7. AddingAt(c)' /\ LeavingAt(c)'
  BY <1>1, <1>2, <1>3 DEF AddingAt, LeavingAt
<1>8. NoGhostAt(c)'
  <2> SUFFICES ASSUME NEW x \in Channel, Ghost(c, x)
               PROVE  \/ Subscribed(c, x)'
                      \/ pc'[c] = "putId" /\ frame'[c].dest = x
                      \/ pc'[c] = "remove" /\ x \in todo'[c]
    BY <1>4 DEF NoGhostAt
  <2>1. Subscribed(c, x)
    BY <1>1, KnownAt DEF NoGhostAt
  <2> QED
    BY <1>1, <1>5, <2>1, KnownAt
<1>9. DeliveredAt(c)'
  BY <1>1, <1>4, <1>6, KnownAt DEF DeliveredAt
<1>10. NothingBefore(c)'
  BY <1>2, <1>3, KnownAt DEF NothingBefore
<1> QED
  BY <1>3, <1>7, <1>8, <1>9, <1>10 DEF Agrees, PairAt

\* Both uses of LeaveChannel.
Left(c, ch) ==
  /\ ch \in Channel /\ todo'[c] = todo[c] \ {ch} /\ frame' = frame
  /\ OneSet(c, ch) /\ ~Ghost(c, ch)'
  /\ OtherIds(c, ch) => Reached(c, ch)'

LEMMA LeaveEffect ==
  ASSUME Known, NEW c \in Conn, LeaveChannel(c)
  PROVE  \E ch \in todo[c] : Left(c, ch)
<1>1. PICK ch \in todo[c] :
        /\ todo' = [todo EXCEPT ![c] = @ \ {ch}]
        /\ \E loses \in {FALSE, Overlaps(c, ch)} :
             RemoveSubscriber(ch, c, loses, OtherIds(c, ch))
        /\ UNCHANGED <<frame, n, user, msg>>
  BY DEF LeaveChannel
<1>2. ch \in Channel /\ todo'[c] = todo[c] \ {ch}
  BY <1>1, KnownAt DEF LocalTypeOK
<1>3. Overlaps(c, ch) \in BOOLEAN /\ OtherIds(c, ch) \in BOOLEAN
  BY DEF Overlaps, OtherIds
<1>4. PICK loses \in BOOLEAN : RemoveSubscriber(ch, c, loses, OtherIds(c, ch))
  BY <1>1, <1>3
<1>5. OneSet(c, ch) /\ ~Ghost(c, ch)' /\ (OtherIds(c, ch) => Reached(c, ch)')
  BY <1>2, <1>3, <1>4, RemoveEffect, KnownAt
<1> QED
  BY <1>1, <1>2, <1>5 DEF Left

\* What a Left channel means for all channels.
LEMMA LeftEffect ==
  ASSUME NEW c, NEW ch, Left(c, ch)
  PROVE  /\ OthersPairs(c) /\ UNCHANGED <<userOf, idToChannel>>
         /\ \A x : Subscribed(c, x)' = Subscribed(c, x)
         /\ \A x \in Channel : Ghost(c, x)' => Ghost(c, x) /\ x # ch
         /\ \A x \in Channel : x # ch => Reached(c, x)' = Reached(c, x)
  BY DEF Left, OneSet, SameHalves, Subscribed, SubIdsOf, Reached, Ghost

LEMMA RemoveAgrees ==
  ASSUME Known, NEW c \in Conn, RemoveFromChannel(c)
  PROVE  Agrees(c)
<1>1. PICK ch \in todo[c] : Left(c, ch)
  BY LeaveEffect DEF RemoveFromChannel
<1>2. /\ ch \in Channel /\ todo'[c] = todo[c] \ {ch} /\ frame' = frame
      /\ OtherIds(c, ch) => Reached(c, ch)'
  BY <1>1 DEF Left
<1>3. /\ OthersPairs(c) /\ UNCHANGED <<userOf, idToChannel>>
      /\ \A x : Subscribed(c, x)' = Subscribed(c, x)
      /\ \A x \in Channel : Ghost(c, x)' => Ghost(c, x) /\ x # ch
      /\ \A x \in Channel : x # ch => Reached(c, x)' = Reached(c, x)
  BY <1>1, LeftEffect
<1>4. pc[c] = "remove" /\ pc'[c] = "receipt"
  BY KnownAt DEF RemoveFromChannel, At, LocalTypeOK
<1>5. /\ userOf[c] \in Object /\ todo[c] = {ch}
      /\ idToChannel[userOf[c]][frame[c].id] = None
  BY <1>1, <1>4, KnownAt DEF OperandsAt, LeavingAt
<1>6. frame[c].cmd = "UNSUBSCRIBE"
  BY <1>4, KnownAt DEF FrameAt, Inside, CommandOf, ConnectSteps, LoginSteps,
     SubscribeSteps, UnsubscribeSteps, SendingSteps
<1>7. AddingAt(c)' /\ LeavingAt(c)'
  BY <1>2, <1>4, <1>6 DEF AddingAt, LeavingAt
<1>8. NoGhostAt(c)'
  BY <1>3, <1>4, <1>5, KnownAt DEF NoGhostAt
<1>9. DeliveredAt(c)'
  <2>1. Subscribed(c, ch) => OtherIds(c, ch)
    BY <1>2, <1>4, <1>5, KnownAt DEF Subscribed, SubIdsOf, OtherIds, At
  <2> QED
    BY <1>2, <1>3, <1>4, <2>1, KnownAt DEF DeliveredAt
<1>10. NothingBefore(c)'
  BY <1>3, <1>5, KnownAt DEF NothingBefore
<1> QED
  BY <1>3, <1>7, <1>8, <1>9, <1>10 DEF Agrees, PairAt

LEMMA SweepAgrees ==
  ASSUME Known, NEW c \in Conn, Sweep(c)
  PROVE  Agrees(c)
<1>1. PICK ch \in todo[c] : Left(c, ch)
  BY LeaveEffect DEF Sweep
<1>2. todo'[c] = todo[c] \ {ch}
  BY <1>1 DEF Left
<1>3. /\ OthersPairs(c) /\ UNCHANGED <<userOf, idToChannel>>
      /\ \A x : Subscribed(c, x)' = Subscribed(c, x)
      /\ \A x \in Channel : Ghost(c, x)' => Ghost(c, x) /\ x # ch
  BY <1>1, LeftEffect
<1>4. pc[c] = "sweep" /\ pc'[c] = "sweep"
  BY DEF Sweep, At
<1>5. userOf[c] \in Object
  BY <1>4, KnownAt DEF OperandsAt
<1>6. AddingAt(c)' /\ LeavingAt(c)'
  BY <1>2, <1>3, <1>4, KnownAt DEF AddingAt, LeavingAt
<1>7. NoGhostAt(c)' /\ DeliveredAt(c)'
  BY <1>3, <1>4, KnownAt DEF NoGhostAt, DeliveredAt
<1>8. NothingBefore(c)'
  BY <1>3, <1>5, KnownAt DEF NothingBefore
<1> QED
  BY <1>3, <1>6, <1>7, <1>8 DEF Agrees, PairAt

LEMMA ClearAgrees ==
  ASSUME Known, NEW c \in Conn, ClearAll(c)
  PROVE  Agrees(c)
<1>1. /\ pc[c] = "sweep" /\ pc'[c] = "logOff" /\ frame' = frame /\ todo[c] = {}
      /\ ClearChannels(userOf[c])
  BY KnownAt DEF ClearAll, At, Goto, local, LocalTypeOK
<1>2. userOf[c] \in Object
  BY <1>1, KnownAt DEF OperandsAt
<1>3. /\ OthersPairs(c) /\ UNCHANGED <<userOf, subscribtions, torn>>
      /\ \A j \in SubId : idToChannel'[userOf[c]][j] = None
  BY <1>1, <1>2, ClearEffect, KnownAt
<1>4. \A x \in Channel : ~Ghost(c, x)'
  BY <1>1, <1>3, SetsKept, KnownAt DEF LeavingAt
<1>5. \A x \in Channel : ~Subscribed(c, x)'
  BY <1>3, KnownAt DEF Subscribed, SubIdsOf
<1>6. AddingAt(c)' /\ LeavingAt(c)' /\ NoGhostAt(c)' /\ DeliveredAt(c)'
  BY <1>1, <1>4, <1>5 DEF AddingAt, LeavingAt, NoGhostAt, DeliveredAt
<1>7. NothingBefore(c)'
  BY <1>2, <1>3, KnownAt DEF NothingBefore
<1> QED
  BY <1>3, <1>6, <1>7 DEF Agrees, PairAt

\* The checks that lead on to a change.
LEMMA ChecksAgree ==
  ASSUME Known, NEW c \in Conn,
         \/ checkUniqueId(c) /\ pc'[c] = "add"
         \/ Logout(c) /\ pc'[c] = "sweep"
  PROVE  Agrees(c)
<1>1. SamePairs
  BY DEF checkUniqueId, Logout, NoUser, Check, SamePairs, registry, userVars, topicVars
<1>2. \A x : /\ InSet(c, x)' = InSet(c, x) /\ Torn(c, x)' = Torn(c, x)
             /\ Reached(c, x)' = Reached(c, x) /\ Ghost(c, x)' = Ghost(c, x)
  BY <1>1, SetsKept DEF SamePairs
<1>3. OthersPairs(c) /\ \A x : Subscribed(c, x)' = Subscribed(c, x)
  BY <1>1 DEF SamePairs, OthersPairs, SameHalves, InSet, Torn, Subscribed, SubIdsOf
<1>4. NothingBefore(c)'
  BY <1>1, KnownAt DEF NothingBefore, SamePairs, InSet
<1>5. CASE checkUniqueId(c) /\ pc'[c] = "add"
  <2>1. /\ pc[c] = "checkUniqueId" /\ frame' = frame
        /\ idToChannel[userOf[c]][frame[c].id] = None
    BY <1>5, KnownAt DEF checkUniqueId, NoUser, Check, At, Goto, local, LocalTypeOK
  <2> QED
    BY <1>1, <1>2, <1>3, <1>4, <1>5, <2>1, KnownAt DEF Agrees, PairAt, AddingAt,
       LeavingAt, NoGhostAt, SamePairs, DeliveredAt
<1>6. CASE Logout(c) /\ pc'[c] = "sweep"
  <2>1. /\ pc[c] = "logout"
        /\ todo'[c] = {ch \in Channel : isHandlerSubbed(ch, c)}
    BY <1>6, KnownAt DEF Logout, AfterLogout, At, Goto, Leave, LocalTypeOK
  <2>2. \A x \in Channel : Ghost(c, x) => Subscribed(c, x)
    BY <2>1, KnownAt DEF NoGhostAt
  <2>3. \A x \in Channel : Ghost(c, x)' => x \in todo'[c]
    BY <1>2, <2>1, <2>2 DEF isHandlerSubbed, Subscribed
  <2> QED
    BY <1>2, <1>3, <1>4, <1>6, <2>2, <2>3 DEF Agrees, PairAt, AddingAt, LeavingAt,
       NoGhostAt, DeliveredAt
<1> QED
  BY <1>5, <1>6

LEMMA LinkAgrees ==
  ASSUME Known, NEW c \in Conn, LinkUser(c)
  PROVE  Agrees(c)
<1>1. /\ pc[c] = "setUser" /\ pc'[c] = "connected" /\ frame' = frame
      /\ userOf' = [userOf EXCEPT ![c] = user[c]]
      /\ UNCHANGED <<idToChannel, subscribtions, torn>>
  BY KnownAt DEF LinkUser, At, Goto, local, LocalTypeOK, SetUser, registry, userVars,
     topicVars
<1>2. OwnUser(c, user[c])
  BY <1>1, KnownAt DEF OwnerAt
<1>3. \/ userOf' = userOf
      \/ userOf[c] = None /\ userOf'[c] = user[c] /\ \E u \in Name : user[c] = <<c, u>>
  <2>1. CASE userOf[c] = None
    BY <1>1, <1>2, <2>1, KnownAt DEF RegistryTypeOK, OwnUser, Object
  <2>2. CASE userOf[c] # None
    <3>1. user[c] = userOf[c]
      BY <1>2, <2>2, OneOwner, KnownAt DEF OwnerAt, Known
    <3> QED
      BY <1>1, <3>1, KnownAt DEF RegistryTypeOK
  <2> QED
    BY <2>1, <2>2
<1>4. \A x : /\ InSet(c, x)' = InSet(c, x) /\ Torn(c, x)' = Torn(c, x)
             /\ Reached(c, x)' = Reached(c, x) /\ Ghost(c, x)' = Ghost(c, x)
  BY <1>1, SetsKept
<1>5. OthersPairs(c)
  BY <1>1, KnownAt DEF OthersPairs, SameHalves, InSet, Torn, RegistryTypeOK
<1>6. AddingAt(c)' /\ LeavingAt(c)'
  BY <1>1 DEF AddingAt, LeavingAt
<1>7. CASE userOf' = userOf
  <2>1. \A x : Subscribed(c, x)' = Subscribed(c, x)
    BY <1>1, <1>7 DEF Subscribed, SubIdsOf
  <2>2. NothingBefore(c)'
    BY <1>1, <1>7, KnownAt DEF NothingBefore, InSet
  <2> QED
    BY <1>1, <1>4, <1>5, <1>6, <2>1, <2>2, KnownAt DEF Agrees, PairAt, NoGhostAt,
       DeliveredAt
<1>8. CASE userOf[c] = None /\ userOf'[c] = user[c] /\ \E u \in Name : user[c] = <<c, u>>
  <2>1. \A x \in Channel : ~Ghost(c, x)'
    BY <1>4, <1>8, KnownAt DEF NothingBefore, Ghost
  <2>2. \A i \in SubId : idToChannel'[userOf'[c]][i] = None
    BY <1>1, <1>8, KnownAt DEF NothingBefore
  <2>3. userOf'[c] # None
    BY <1>2, <1>8, KnownAt DEF OwnUser
  <2>4. \A x \in Channel : ~Subscribed(c, x)'
    BY <2>2, KnownAt DEF Subscribed, SubIdsOf
  <2> QED
    BY <1>1, <1>5, <1>6, <2>1, <2>3, <2>4 DEF Agrees, PairAt, NoGhostAt,
       DeliveredAt, NothingBefore
<1> QED
  BY <1>3, <1>7, <1>8

-----------------------------------------------------------------------------
LEMMA InertAgrees ==
  ASSUME Known, NEW c \in Conn, Inert(c)
  PROVE  Agrees(c)
<1>1. \A x : /\ InSet(c, x)' = InSet(c, x) /\ Torn(c, x)' = Torn(c, x)
             /\ Reached(c, x)' = Reached(c, x) /\ Ghost(c, x)' = Ghost(c, x)
  BY SetsKept DEF Inert, SamePairs
<1>2. OthersPairs(c) /\ \A x : Subscribed(c, x)' = Subscribed(c, x)
  BY DEF Inert, SamePairs, OthersPairs, SameHalves, InSet, Torn, Subscribed, SubIdsOf
<1>3. AddingAt(c)' /\ LeavingAt(c)' /\ NoGhostAt(c)' /\ DeliveredAt(c)'
  BY <1>1, <1>2, KnownAt DEF Inert, AddingAt, LeavingAt, NoGhostAt, DeliveredAt
<1>4. NothingBefore(c)'
  BY KnownAt DEF Inert, SamePairs, NothingBefore, InSet
<1> QED
  BY <1>2, <1>3, <1>4 DEF Agrees, PairAt

LEMMA StepAgrees ==
  ASSUME Known, NEW c \in Conn, Process(c) \/ Client(c)
  PROVE  Agrees(c)
<1>0. TypeOK /\ FrameInv
  BY DEF Known, Typed
<1>1. CASE Client(c)
  BY <1>0, <1>1, ClientInert, InertAgrees
<1>2. CASE \/ CheckLegalInfo(c) \/ CheckLoggedIn(c) \/ Login(c) \/ PutUser(c)
           \/ ReuseUser(c) \/ Connected(c)
  BY <1>0, <1>2, ConnectInert, InertAgrees
<1>3. CASE \/ checkDestination(c) \/ Iterate(c) \/ NextFails(c) \/ NextSubscriber(c)
           \/ EndOfLoop(c) \/ GetSubId(c) \/ Deliver(c)
  BY <1>0, <1>3, SendInert, InertAgrees
<1>4. CASE \/ SendError(c) \/ Logout(c) \/ LogOff(c) \/ CloseConnection(c)
           \/ handleReceipt(c) \/ Unwind(c) \/ checkIdExists(c) \/ checkUniqueId(c)
  BY <1>0, <1>4, EndInert, InertAgrees, ChecksAgree
<1>5. CASE \/ LinkUser(c) \/ AddToChannel(c) \/ PutId(c) \/ RemoveId(c)
           \/ RemoveFromChannel(c) \/ Sweep(c) \/ ClearAll(c)
  BY <1>5, LinkAgrees, AddAgrees, PutAgrees, RemoveIdAgrees, RemoveAgrees, SweepAgrees,
     ClearAgrees
<1> QED
  BY <1>1, <1>2, <1>3, <1>4, <1>5 DEF Process

LEMMA PairInit == Init => PairInv
<1> SUFFICES ASSUME Init PROVE PairInv
  OBVIOUS
<1>1. ASSUME NEW c \in Conn
      PROVE  /\ pc[c] = "new" /\ userOf[c] = None
             /\ \A ch \in Channel : ~InSet(c, ch) /\ ~Subscribed(c, ch)
  BY DEF Init, RegistryInit, InSet, Subscribed
<1>2. ASSUME NEW c \in Conn PROVE NothingBefore(c)
  BY <1>1 DEF NothingBefore, Init, RegistryInit, Object
<1> QED
  BY <1>1, <1>2 DEF PairInv, PairAt, AddingAt, LeavingAt, NoGhostAt, DeliveredAt, Ghost

LEMMA PairNext ==
  ASSUME Known, [Next]_vars
  PROVE  PairInv'
<1>1. CASE UNCHANGED vars
  <2>1. SamePairs /\ UNCHANGED <<pc, frame, todo>>
    BY <1>1 DEF vars, local, registry, userVars, topicVars, SamePairs
  <2>2. \A c \in Conn : PairAt(c)' = PairAt(c)
    BY <2>1 DEF SamePairs, PairAt, AddingAt, LeavingAt, NoGhostAt, DeliveredAt,
       NothingBefore, Reached, Ghost, InSet, Torn, Subscribed, SubIdsOf
  <2> QED
    BY <2>2 DEF Known, PairInv
<1>2. ASSUME NEW c \in Conn, Process(c) \/ Client(c) PROVE PairInv'
  <2>1. Agrees(c) /\ OnlyLocal(c)
    BY <1>2, StepAgrees, LocalProcess, KnownAt
  <2> QED
    BY <2>1, PairStep DEF Agrees, Known
<1> QED
  BY <1>1, <1>2 DEF Next, Quiet

\* Everything the theorems need, as one inductive invariant.
LEMMA PairsAlways ==
  ASSUME PersonalNames
  PROVE  Spec => [](Typed /\ FrameInv /\ OwnerInv /\ PairInv)
<1> DEFINE Inv == Typed /\ FrameInv /\ OwnerInv /\ PairInv
<1>1. Init => Inv
  BY TypedInit, FrameInit, OwnerInit, PairInit
<1>2. Inv /\ [Next]_vars => Inv'
  BY TypedNext, FrameNext, OwnerNext, PairNext DEF Known
<1> QED
  BY <1>1, <1>2, PTL DEF Spec

\* With overlapping updates of the HashSets that may be lost, and any number of
\* ids for a channel: a connection in the set of a channel has an id for it, but
\* for the window of its own subscribe or unsubscribe and a removal that was lost.
\* Nothing another client does makes getSubIdByChannel fail for a subscriber.
THEOREM NoGhosts ==
  ASSUME PersonalNames
  PROVE  Spec => []NoGhostSubscription
<1>1. PairInv => NoGhostSubscription
  BY DEF PairInv, PairAt, NoGhostAt, Ghost, InSet, NoGhostSubscription, At
<1> QED
  BY <1>1, PairsAlways, PTL

\* When logout marks the user as gone its map is empty, and a set that still has
\* the connection has it because the update of that very set was lost.
THEOREM LogoutLeavesNothing ==
  ASSUME PersonalNames
  PROVE  Spec => []LogoutForgets
<1>1. PairInv => LogoutForgets
  BY DEF PairInv, PairAt, LeavingAt, Ghost, InSet, LogoutForgets, At
<1> QED
  BY <1>1, PairsAlways, PTL

\* When subscribe comes to its receipt the id is mapped and nothing has undone
\* that; the connection is in the set unless its own add was lost.
THEOREM ReceiptIsTrue ==
  ASSUME PersonalNames
  PROVE  Spec => []ReceiptMeansSubscribed
<1>1. PairInv => ReceiptMeansSubscribed
  BY DEF PairInv, PairAt, AddingAt, Reached, InSet, ReceiptMeansSubscribed, At
<1> QED
  BY <1>1, PairsAlways, PTL

\* Between frames, a connection with an id for a channel is in the channel's set,
\* unless its own last add was lost or it gave up another id of the channel: no
\* other client and no other channel ever costs it a subscription, and its next
\* SUBSCRIBE brings it back.
THEOREM SubscriptionsDeliver ==
  ASSUME PersonalNames
  PROVE  Spec => []SubscriptionDelivers
<1>1. PairInv => SubscriptionDelivers
  BY DEF PairInv, PairAt, DeliveredAt, Reached, InSet, SubscriptionDelivers, At
<1> QED
  BY <1>1, PairsAlways, PTL
=============================================================================
