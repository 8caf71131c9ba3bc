--------------------------- MODULE ConnectionsImpl ---------------------------
(***************************************************************************)
(* The registry every connection shares: ConnectionsImpl with the User     *)
(* objects and the HashSets it holds.  Nothing in it takes a lock: each    *)
(* ConcurrentHashMap call is atomic, each method is several such calls, so *)
(* an operator below is one atomic step of a method; the methods are the   *)
(* sequences of steps of module StompServer.  An operator that changes the *)
(* registry says what becomes of all of it.                                *)
(*                                                                         *)
(* A User object is created at most once for a connection and a name (the  *)
(* name is in the users map from then on), so the pair names the object.   *)
(* User.handler and User.connectionId are written and never read; they are *)
(* not modelled.                                                           *)
(***************************************************************************)
EXTENDS Naturals, Sequences

CONSTANTS
  Conn,      \* connection ids
  Name,      \* values of the "login" header
  Pass,      \* values of the "passcode" header
  Channel,   \* channel names, after the leading "/" has been cut off
  SubId,     \* subscription ids that Integer.parseInt accepts
  None       \* null; for a subscription id also the -1 of getSubIdByChannel

ASSUME NoneAssumption == None \notin Conn \cup Name \cup Pass \cup Channel
                                     \cup SubId \cup (Conn \X Name)

Object == Conn \X Name

VARIABLES
  clients,        \* the connection ids with a handler in the map
  userOf,         \* the User each connection handler refers to
  users,          \* name -> User
  password, loggedIn, idToChannel,             \* the fields of each User
  topics,         \* the channels with a set in the subscribtions map
  subscribtions,  \* channel -> the HashSet of subscribed connection ids
  torn,           \* history: <<c, ch>> when what c did last to the set of ch
                  \* left it at odds with the ids of c
  iter,           \* the HashSet iterator each connection's thread has open
  msgCounter,
  out             \* the frames handed to each connection handler's send

userVars  == <<userOf, users, password, loggedIn, idToChannel>>
topicVars == <<topics, subscribtions, torn, iter>>
wireVars  == <<clients, msgCounter, out>>
registry  == <<userVars, topicVars, wireVars>>

(***************************************************************************)
(* Types.  A MESSAGE keeps the SEND frame it carries (its sender and the   *)
(* number that frame has among the sender's frames) for its body and       *)
(* destination; an answer keeps the number of the frame it answers.        *)
(***************************************************************************)
Answer   == [type : {"CONNECTED", "RECEIPT", "ERROR"}, of : Nat]
Message  == [type : {"MESSAGE"}, from : Conn, of : Nat, id : Nat,
             sub : SubId \cup {None}]
Iterator == [chan : Channel \cup {None}, rem : SUBSET Conn, ok : BOOLEAN]
NoIter   == [chan |-> None, rem |-> {}, ok |-> TRUE]

RegistryTypeOK ==
  /\ clients \subseteq Conn
  /\ userOf \in [Conn -> Object \cup {None}]
  /\ users \in [Name -> Object \cup {None}]
  /\ password \in [Object -> Pass \cup {None}]
  /\ loggedIn \in [Object -> BOOLEAN]
  /\ idToChannel \in [Object -> [SubId -> Channel \cup {None}]]
  /\ topics \subseteq Channel
  /\ subscribtions \in [Channel -> SUBSET Conn]
  /\ torn \subseteq Conn \X Channel
  /\ iter \in [Conn -> Iterator]
  /\ msgCounter \in Nat
  /\ out \in [Conn -> Seq(Answer \cup Message)]

RegistryInit ==
  /\ clients = {}
  /\ userOf = [c \in Conn |-> None]
  /\ users = [u \in Name |-> None]
  /\ password = [o \in Object |-> None]
  /\ loggedIn = [o \in Object |-> FALSE]
  /\ idToChannel = [o \in Object |-> [i \in SubId |-> None]]
  /\ topics = {}
  /\ subscribtions = [ch \in Channel |-> {}]
  /\ torn = {}
  /\ iter = [c \in Conn |-> NoIter]
  /\ msgCounter = 0
  /\ out = [c \in Conn |-> <<>>]

-----------------------------------------------------------------------------
(* Reads *)

isLegalInfo(u, p) == users[u] = None \/ password[users[u]] = p

isUserLoggedIn(u) == users[u] # None /\ loggedIn[users[u]]

isChannel(ch) == ch \in topics

\* What User.getChannels of a connection's user maps to the channel.
SubIdsOf(o, ch) == {i \in SubId : idToChannel[o][i] = ch}

isHandlerSubbed(ch, c) == SubIdsOf(userOf[c], ch) # {}

\* getSubIdByChannel: one of the ids of the channel, -1 when it has none.
SubIdByChannel(o, ch) ==
  IF SubIdsOf(o, ch) = {} THEN {None} ELSE SubIdsOf(o, ch)

-----------------------------------------------------------------------------
(* Connections and frames *)

addConnection(c) ==
  /\ clients' = clients \cup {c}
  /\ UNCHANGED <<userVars, topicVars, msgCounter, out>>

closeConnection(c) ==
  /\ clients' = clients \ {c}
  /\ UNCHANGED <<userVars, topicVars, msgCounter, out>>

\* send(int, msg): a frame for a connection that is gone is dropped.
Send(c, f) ==
  /\ out' = IF c \in clients THEN [out EXCEPT ![c] = Append(@, f)] ELSE out
  /\ UNCHANGED <<userVars, topicVars, clients, msgCounter>>

\* Mutant: get instead of getAndIncrement.
CounterOnlyRead == UNCHANGED registry

getAndIncMessageCounter ==
  /\ msgCounter' = msgCounter + 1
  /\ UNCHANGED <<userVars, topicVars, clients, out>>

-----------------------------------------------------------------------------
(* Users *)

\* login, a name nobody has: the new User replaces what the map has by now.
PutNewUser(o, p) ==
  /\ users' = [users EXCEPT ![o[2]] = o]
  /\ password' = [password EXCEPT ![o] = p]
  /\ loggedIn' = [loggedIn EXCEPT ![o] = TRUE]
  /\ UNCHANGED <<userOf, idToChannel, topicVars, wireVars>>

\* The user's setLoggedIn, at login of a known name and at logout.
SetLoggedIn(o, b) ==
  /\ loggedIn' = [loggedIn EXCEPT ![o] = b]
  /\ UNCHANGED <<userOf, users, password, idToChannel, topicVars, wireVars>>

\* login ends with the handler referring to the user.
SetUser(c, o) ==
  /\ userOf' = [userOf EXCEPT ![c] = o]
  /\ UNCHANGED <<users, password, loggedIn, idToChannel, topicVars, wireVars>>

\* The user's getChannels().put(id, ch) or, with None, remove(id).
MapId(o, i, ch) ==
  /\ idToChannel' = [idToChannel EXCEPT ![o][i] = ch]
  /\ UNCHANGED <<userOf, users, password, loggedIn, topicVars, wireVars>>

\* logout: getChannels().clear()
ClearChannels(o) ==
  /\ idToChannel' = [idToChannel EXCEPT ![o] = [i \in SubId |-> None]]
  /\ UNCHANGED <<userOf, users, password, loggedIn, topicVars, wireVars>>

-----------------------------------------------------------------------------
(* The HashSet of a channel.  Its iterators fail fast: a change of the set *)
(* that is not the iterator's own makes the next call of next() throw.     *)

\* Mutant: a set whose iterators do not notice changes.
SnapshotIterators(ch, S) ==
  /\ subscribtions' = [subscribtions EXCEPT ![ch] = S]
  /\ UNCHANGED <<iter, userVars, wireVars>>

SetSubscribers(ch, S) ==
  /\ subscribtions' = [subscribtions EXCEPT ![ch] = S]
  /\ iter' = [t \in Conn |->
       IF S # subscribtions[ch] /\ iter[t].chan = ch
       THEN [iter[t] EXCEPT !.ok = FALSE] ELSE iter[t]]
  /\ UNCHANGED <<userVars, wireVars>>

Tear(c, ch, b) ==
  torn' = IF b THEN torn \cup {<<c, ch>>} ELSE torn \ {<<c, ch>>}

\* computeIfAbsent, then add.  loses: a racing update overwrote this one.
AddSubscriber(ch, c, loses) ==
  /\ topics' = topics \cup {ch}
  /\ SetSubscribers(ch, IF loses THEN subscribtions[ch]
                                 ELSE subscribtions[ch] \cup {c})
  /\ Tear(c, ch, loses)

\* Mutant: only the user's own map forgets the subscription.
SetKeepsSubscriber(ch, c, loses, others) == UNCHANGED registry

\* others: the connection has another id for the channel, and keeps it.
RemoveSubscriber(ch, c, loses, others) ==
  /\ topics' = topics
  /\ SetSubscribers(ch, IF loses THEN subscribtions[ch]
                                 ELSE subscribtions[ch] \ {c})
  /\ Tear(c, ch, loses \/ others)

\* Mutant: no message for the sender itself.
IterateOverOthers(c, ch) ==
  /\ iter' = [iter EXCEPT ![c] =
                [chan |-> ch, rem |-> subscribtions[ch] \ {c}, ok |-> TRUE]]
  /\ UNCHANGED <<topics, subscribtions, torn, userVars, wireVars>>

OpenIterator(c, ch) ==
  /\ iter' = [iter EXCEPT ![c] =
                [chan |-> ch, rem |-> subscribtions[ch], ok |-> TRUE]]
  /\ UNCHANGED <<topics, subscribtions, torn, userVars, wireVars>>

\* Mutant: the same element again.
AdvanceStays(c, d) == iter[c].ok /\ d \in iter[c].rem /\ UNCHANGED registry

\* A next() that returns d.
Advance(c, d) ==
  /\ iter[c].ok /\ d \in iter[c].rem
  /\ iter' = [iter EXCEPT ![c].rem = @ \ {d}]
  /\ UNCHANGED <<topics, subscribtions, torn, userVars, wireVars>>

\* The loop over the set ends, normally or by the exception.
DropIterator(c) ==
  /\ iter' = [iter EXCEPT ![c] = NoIter]
  /\ UNCHANGED <<topics, subscribtions, torn, userVars, wireVars>>
=============================================================================
