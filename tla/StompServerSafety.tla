-------------------------- MODULE StompServerSafety --------------------------
(***************************************************************************)
(* What is true of the MESSAGE frames of every server, whatever the        *)
(* clients do, share or get wrong: their ids are unique, those of one      *)
(* sender come to a subscriber in the order they were sent, once each, and *)
(* a loop over a set that does not change leaves nobody out.  And of the   *)
(* answers: their order, and what an ERROR is followed by.                 *)
(***************************************************************************)
EXTENDS StompServerProofs

-----------------------------------------------------------------------------
(* Steps that put no MESSAGE into any connection *)

NoMail(c) ==
  /\ \A d \in Conn : Messages(d)' = Messages(d)
  /\ \A d \in Conn : \A k \in Messages(d) : out'[d][k] = out[d][k]
  /\ \A d \in Conn \ {c} : iter'[d].rem = iter[d].rem

Silent(c) == NoMail(c) /\ msgCounter' = msgCounter

LEMMA MessageType ==
  ASSUME RegistryTypeOK, NEW c \in Conn, NEW k \in Messages(c)
  PROVE  /\ out[c][k] \in Message
         /\ out[c][k].from \in Conn /\ out[c][k].of \in Nat /\ out[c][k].id \in Nat
<1>1. out[c][k] \in Answer \cup Message /\ out[c][k].type = "MESSAGE"
  BY DEF RegistryTypeOK, Messages
<1>2. out[c][k] \in Message
  BY <1>1 DEF Answer, Message
<1> QED
  BY <1>2 DEF Message

LEMMA SameOut ==
  ASSUME NEW c, UNCHANGED <<out, msgCounter>>,
         \A d \in Conn \ {c} : iter'[d].rem = iter[d].rem
  PROVE  Silent(c)
  BY DEF Silent, NoMail, Messages

LEMMA SendAnswer ==
  ASSUME RegistryTypeOK, NEW c \in Conn, NEW f \in Answer, Send(c, f)
  PROVE  Silent(c)
<1>1. f.type # "MESSAGE"
  BY DEF Answer
<1>2. UNCHANGED <<iter, msgCounter>>
  BY DEF Send, topicVars
<1>3. CASE c \notin clients
  BY <1>2, <1>3, SameOut DEF Send
<1>4. CASE c \in clients
  <2>1. /\ out' = [out EXCEPT ![c] = Append(@, f)]
        /\ out[c] \in Seq(Answer \cup Message)
    BY <1>4 DEF Send, RegistryTypeOK
  <2>2. /\ Len(out[c]) \in Nat /\ DOMAIN out[c] = 1..Len(out[c])
        /\ DOMAIN out'[c] = 1..(Len(out[c]) + 1)
        /\ out'[c][Len(out[c]) + 1] = f
        /\ \A k \in 1..Len(out[c]) : out'[c][k] = out[c][k]
    BY <2>1, AppendProperties DEF RegistryTypeOK
  <2>3. Messages(c)' = Messages(c) /\ \A k \in Messages(c) : out'[c][k] = out[c][k]
    BY <1>1, <2>2 DEF Messages
  <2>4. \A d \in Conn \ {c} : out'[d] = out[d]
    BY <2>1 DEF RegistryTypeOK
  <2>5. \A d \in Conn \ {c} : Messages(d)' = Messages(d)
    BY <2>4 DEF Messages
  <2> QED
    BY <1>2, <2>3, <2>4, <2>5 DEF Silent, NoMail
<1> QED
  BY <1>3, <1>4

LEMMA SetKeepsIterators ==
  ASSUME RegistryTypeOK, NEW c \in Conn, NEW ch \in Channel, NEW loses,
         NEW others,
         AddSubscriber(ch, c, loses) \/ RemoveSubscriber(ch, c, loses, others)
  PROVE  Silent(c)
<1>1. PICK S : SetSubscribers(ch, S)
  BY DEF AddSubscriber, RemoveSubscriber
<1>2. UNCHANGED <<out, msgCounter>>
  BY <1>1 DEF SetSubscribers, wireVars
<1>3. \A d \in Conn : iter[d] \in Iterator
  BY DEF RegistryTypeOK
<1>4. \A d \in Conn : iter'[d].rem = iter[d].rem
  BY <1>1, <1>3 DEF SetSubscribers, Iterator
<1> QED
  BY <1>2, <1>4, SameOut

LEMMA OwnIterator ==
  ASSUME RegistryTypeOK, NEW c \in Conn,
         DropIterator(c) \/ (\E ch : OpenIterator(c, ch)) \/ (\E d : Advance(c, d))
  PROVE  Silent(c)
<1>1. UNCHANGED <<out, msgCounter>>
  BY DEF DropIterator, OpenIterator, Advance, wireVars
<1>2. \A d \in Conn \ {c} : iter'[d] = iter[d]
  BY DEF DropIterator, OpenIterator, Advance, RegistryTypeOK
<1> QED
  BY <1>1, <1>2, SameOut

LEMMA UsersOnly ==
  ASSUME NEW c, UNCHANGED <<topicVars, out, msgCounter>>
  PROVE  Silent(c)
  BY SameOut DEF topicVars

LEMMA SameRegistrySilent ==
  ASSUME NEW c, UNCHANGED registry
  PROVE  Silent(c)
  BY UsersOnly DEF registry, wireVars

-----------------------------------------------------------------------------
(* The two invariants *)

SendSteps == {"checkDestination", "iterate", "next", "getSubId", "deliver"}

\* Ids in use, and ids drawn for a MESSAGE that is about to be sent, are below
\* the counter, and no two are the same.
UsedBelow == \A d \in Conn : \A k \in Messages(d) : out[d][k].id < msgCounter
DrawnFresh == \A c \in Conn : pc[c] = "deliver" =>
  /\ msg[c].id < msgCounter
  /\ \A d \in Conn : \A k \in Messages(d) : out[d][k].id # msg[c].id
DrawnDistinct == \A c, d \in Conn :
  pc[c] = "deliver" /\ pc[d] = "deliver" /\ msg[c].id = msg[d].id => c = d

\* The connections that may yet get the message of the frame c processes.
Owed(c) ==
  CASE pc[c] \in {"checkDestination", "iterate"} -> Conn
    [] pc[c] = "next" -> iter[c].rem
    [] pc[c] \in {"getSubId", "deliver"} -> iter[c].rem \cup {msg[c].to}
    [] OTHER -> {}

\* A connection has messages of frames received so far, and none of the frame
\* whose message it may yet get; it will not get that one twice.
FromThePast == \A d \in Conn : \A k \in Messages(d) :
  out[d][k].of <= n[out[d][k].from]
OwedIsNew == \A c, d \in Conn : d \in Owed(c) =>
  \A k \in Messages(d) : out[d][k].from = c => out[d][k].of < n[c]
OwedOnce == \A c \in Conn :
  pc[c] \in {"getSubId", "deliver"} => msg[c].to \notin iter[c].rem

MailInv ==
  /\ UsedBelow /\ DrawnFresh /\ DrawnDistinct /\ MessageIdsUnique
  /\ FromThePast /\ OwedIsNew /\ OwedOnce /\ SenderOrder

\* A step of c outside the loop of send(channel).
Calm(c) ==
  /\ Silent(c) /\ OnlyLocal(c)
  /\ \/ n'[c] = n[c] + 1 /\ pc'[c] \notin SendSteps \ {"checkDestination"}
     \/ n'[c] = n[c] /\ pc'[c] \notin SendSteps

LEMMA OthersOwed ==
  ASSUME NEW c \in Conn, NoMail(c), OnlyLocal(c), NEW e \in Conn, e # c
  PROVE  Owed(e)' = Owed(e) /\ n'[e] = n[e]
  BY DEF NoMail, OnlyLocal, Owed

\* What a step without a MESSAGE leaves of the first invariant.
LEMMA NoMailIds ==
  ASSUME MailInv, NEW c \in Conn, Silent(c), OnlyLocal(c), pc'[c] # "deliver"
  PROVE  (UsedBelow /\ DrawnFresh /\ DrawnDistinct /\ MessageIdsUnique)'
<1>1. \A d \in Conn : pc'[d] = "deliver" => d # c /\ pc[d] = "deliver" /\ msg'[d] = msg[d]
  BY DEF OnlyLocal
<1>2. UsedBelow'
  BY DEF MailInv, Silent, NoMail, UsedBelow
<1>3. DrawnFresh'
  BY <1>1 DEF MailInv, Silent, NoMail, DrawnFresh
<1>4. DrawnDistinct'
  BY <1>1 DEF MailInv, DrawnDistinct
<1>5. MessageIdsUnique'
  BY DEF MailInv, Silent, NoMail, MessageIdsUnique
<1> QED
  BY <1>2, <1>3, <1>4, <1>5

\* And of the second, if c owes nothing new.
LEMMA NoMailOrder ==
  ASSUME MailInv, TypeOK, NEW c \in Conn, NoMail(c), OnlyLocal(c),
         \/ n'[c] = n[c] + 1
         \/ n'[c] = n[c] /\ \A d \in Conn : d \in Owed(c)' => d \in Owed(c),
         pc'[c] \in {"getSubId", "deliver"} => msg'[c].to \notin iter'[c].rem
  PROVE  (FromThePast /\ OwedIsNew /\ OwedOnce /\ SenderOrder)'
<1>1. \A d \in Conn : n[d] \in Nat
  BY DEF TypeOK, LocalTypeOK
<1>2. \A d \in Conn : \A k \in Messages(d) :
        out[d][k].from \in Conn /\ out[d][k].of \in Nat
  BY MessageType DEF TypeOK
<1>3. \A e \in Conn : n[e] <= n'[e]
  BY <1>1, OthersOwed
<1>4. FromThePast'
  <2> SUFFICES ASSUME NEW d \in Conn, NEW k \in Messages(d)
               PROVE  out[d][k].of <= n'[out[d][k].from]
    BY DEF NoMail, FromThePast
  <2>1. out[d][k].of <= n[out[d][k].from]
    BY DEF MailInv, FromThePast
  <2>2. out[d][k].from \in Conn /\ out[d][k].of \in Nat
    BY <1>2
  <2>3. n'[out[d][k].from] \in Nat
    BY <1>1, <2>2, OthersOwed
  <2> QED
    BY <1>1, <1>3, <2>1, <2>2, <2>3
<1>5. OwedIsNew'
  <2> SUFFICES ASSUME NEW e \in Conn, NEW d \in Conn, d \in Owed(e)',
                      NEW k \in Messages(d), out[d][k].from = e
               PROVE  out[d][k].of < n'[e]
    BY DEF NoMail, OwedIsNew
  <2>1. CASE d \in Owed(e) /\ n'[e] = n[e]
    BY <2>1 DEF MailInv, OwedIsNew
  <2>2. CASE e = c /\ n'[c] = n[c] + 1
    <3>1. out[d][k].of <= n[c] /\ out[d][k].of \in Nat
      BY <1>2, <2>2 DEF MailInv, FromThePast
    <3> QED
      BY <1>1, <2>2, <3>1
  <2> QED
    BY <2>1, <2>2, OthersOwed
<1>6. OwedOnce'
  BY DEF MailInv, OwedOnce, OnlyLocal, NoMail
<1>7. SenderOrder'
  BY DEF MailInv, NoMail, SenderOrder
<1> QED
  BY <1>4, <1>5, <1>6, <1>7

LEMMA CalmStep ==
  ASSUME MailInv, TypeOK, NEW c \in Conn, Calm(c)
  PROVE  MailInv'
<1>1. pc'[c] \notin {"getSubId", "deliver"}
  BY DEF Calm, SendSteps
<1>2. \/ n'[c] = n[c] + 1
      \/ n'[c] = n[c] /\ \A d \in Conn : d \in Owed(c)' => d \in Owed(c)
  BY DEF Calm, SendSteps, Owed
<1>3. (UsedBelow /\ DrawnFresh /\ DrawnDistinct /\ MessageIdsUnique)'
  BY <1>1, NoMailIds DEF Calm
<1>4. (FromThePast /\ OwedIsNew /\ OwedOnce /\ SenderOrder)'
  BY <1>1, <1>2, NoMailOrder DEF Calm, Silent
<1> QED
  BY <1>3, <1>4 DEF MailInv

-----------------------------------------------------------------------------
(* The loop of send(channel) *)

LEMMA IterateMail ==
  ASSUME MailInv, TypeOK, NEW c \in Conn, Iterate(c)
  PROVE  MailInv'
<1>1. pc[c] = "iterate" /\ pc'[c] = "next" /\ n'[c] = n[c] /\ OnlyLocal(c)
  BY GotoType DEF Iterate, At, Inside, TypeOK
<1>2. Silent(c)
  BY OwnIterator DEF Iterate, TypeOK
<1>3. \A d \in Conn : d \in Owed(c)' => d \in Owed(c)
  BY <1>1 DEF Owed
<1> QED
  BY <1>1, <1>2, <1>3, NoMailIds, NoMailOrder DEF MailInv, Silent

LEMMA NextSubscriberMail ==
  ASSUME MailInv, TypeOK, NEW c \in Conn, NextSubscriber(c)
  PROVE  MailInv'
<1>1. PICK d \in iter[c].rem :
        Advance(c, d) /\ msg' = [msg EXCEPT ![c].to = d]
  BY DEF NextSubscriber
<1>2. /\ pc[c] = "next" /\ pc'[c] = "getSubId" /\ n'[c] = n[c]
      /\ OnlyLocal(c) /\ msg'[c].to = d
  BY <1>1 DEF NextSubscriber, At, TypeOK, LocalTypeOK, OnlyLocal
<1>3. iter'[c].rem = iter[c].rem \ {d}
  <2>1. iter[c] \in Iterator
    BY DEF TypeOK, RegistryTypeOK
  <2> QED
    BY <1>1, <2>1 DEF Advance, TypeOK, RegistryTypeOK, Iterator
<1>4. Silent(c)
  BY <1>1, OwnIterator DEF TypeOK
<1>5. \A e \in Conn : e \in Owed(c)' => e \in Owed(c)
  BY <1>1, <1>2, <1>3 DEF Owed
<1> QED
  BY <1>2, <1>3, <1>4, <1>5, NoMailIds, NoMailOrder DEF MailInv, Silent

LEMMA DrawMail ==
  ASSUME MailInv, TypeOK, NEW c \in Conn, GetSubId(c), pc'[c] # "throw"
  PROVE  MailInv'
<1>1. /\ pc[c] = "getSubId" /\ HasUser(msg[c].to)
      /\ pc' = [pc EXCEPT ![c] = "deliver"]
      /\ getAndIncMessageCounter /\ UNCHANGED <<frame, n, user, todo>>
  BY DEF GetSubId, At, Goto, TypeOK, LocalTypeOK
<1>2. PICK i \in SubIdByChannel(userOf[msg[c].to], frame[c].dest) :
        msg' = [msg EXCEPT ![c].sub = i, ![c].id = msgCounter]
  BY <1>1 DEF GetSubId, At, Goto, TypeOK, LocalTypeOK
<1>3. /\ pc'[c] = "deliver" /\ OnlyLocal(c) /\ n'[c] = n[c]
      /\ msg'[c].to = msg[c].to /\ msg'[c].id = msgCounter
  BY <1>1, <1>2 DEF TypeOK, LocalTypeOK, OnlyLocal
<1>4. msgCounter \in Nat /\ msgCounter' = msgCounter + 1 /\ out' = out /\ iter' = iter
  BY <1>1 DEF getAndIncMessageCounter, topicVars, TypeOK, RegistryTypeOK
<1>5. \A d \in Conn : Messages(d)' = Messages(d)
  BY <1>4 DEF Messages
<1>6. NoMail(c)
  BY <1>4, <1>5 DEF NoMail
<1>7. (FromThePast /\ OwedIsNew /\ OwedOnce /\ SenderOrder)'
  <2>1. \A d \in Conn : d \in Owed(c)' => d \in Owed(c)
    BY <1>1, <1>3, <1>4 DEF Owed
  <2>2. msg'[c].to \notin iter'[c].rem
    BY <1>1, <1>3, <1>4 DEF MailInv, OwedOnce
  <2> QED
    BY <1>3, <1>6, <2>1, <2>2, NoMailOrder
<1>8. \A d \in Conn : \A k \in Messages(d) : out[d][k].id \in Nat
  BY MessageType DEF TypeOK
<1>9. \A d \in Conn \ {c} : pc'[d] = "deliver" => pc[d] = "deliver" /\ msg'[d] = msg[d]
  BY <1>3 DEF OnlyLocal
<1>10. \A d \in Conn : msg[d].id \in Nat
  BY DEF TypeOK, LocalTypeOK
<1>11. UsedBelow'
  BY <1>4, <1>5, <1>8 DEF MailInv, UsedBelow
<1>12. DrawnFresh'
  <2> SUFFICES ASSUME NEW e \in Conn, pc'[e] = "deliver"
               PROVE  /\ msg'[e].id < msgCounter'
                      /\ \A d \in Conn : \A k \in Messages(d) : out[d][k].id # msg'[e].id
    BY <1>4, <1>5 DEF DrawnFresh
  <2>1. CASE e = c
    BY <1>3, <1>4, <1>8, <2>1 DEF MailInv, UsedBelow
  <2>2. CASE e # c
    BY <1>4, <1>9, <1>10, <2>2 DEF MailInv, DrawnFresh
  <2> QED
    BY <2>1, <2>2
<1>13. DrawnDistinct'
  <2>1. \A d \in Conn \ {c} : pc'[d] = "deliver" => msg'[d].id < msgCounter
    BY <1>9 DEF MailInv, DrawnFresh
  <2> QED
    BY <1>3, <1>4, <1>9, <1>10, <2>1 DEF MailInv, DrawnDistinct
<1>14. MessageIdsUnique'
  BY <1>4, <1>5 DEF MailInv, MessageIdsUnique
<1> QED
  BY <1>7, <1>11, <1>12, <1>13, <1>14 DEF MailInv

LEMMA DeliverMail ==
  ASSUME MailInv, Typed, NEW c \in Conn, Deliver(c)
  PROVE  MailInv'
<1>1. TypeOK /\ RegistryTypeOK
  BY DEF Typed, TypeOK
<1>2. PICK d \in Conn : d = msg[c].to
  BY DEF Typed, Operands, OperandsAt, Deliver, At
<1> DEFINE m == [type |-> "MESSAGE", from |-> c, of |-> n[c],
                 id |-> msg[c].id, sub |-> msg[c].sub]
           last == Len(out[d]) + 1
<1>3. /\ pc[c] = "deliver" /\ pc'[c] = "next" /\ n' = n /\ OnlyLocal(c)
      /\ Send(d, m) /\ UNCHANGED <<iter, msgCounter>>
  BY <1>1, <1>2 DEF Deliver, At, TypeOK, LocalTypeOK, OnlyLocal, Send, topicVars
<1>4. \A e \in Conn : pc'[e] = "deliver" => e # c /\ pc[e] = "deliver" /\ msg'[e] = msg[e]
  BY <1>3 DEF OnlyLocal
<1>5. CASE d \notin clients
  <2>1. Silent(c)
    BY <1>3, <1>5, SameOut DEF Send
  <2>2. \A e \in Conn : e \in Owed(c)' => e \in Owed(c)
    BY <1>2, <1>3 DEF Owed
  <2> QED
    BY <1>1, <1>3, <2>1, <2>2, NoMailIds, NoMailOrder DEF MailInv, Silent
<1>6. CASE d \in clients
  <2>1. out' = [out EXCEPT ![d] = Append(@, m)] /\ out[d] \in Seq(Answer \cup Message)
    BY <1>1, <1>3, <1>6 DEF Send, RegistryTypeOK
  <2>2. m \in Message
    <3>1. n[c] \in Nat /\ msg[c].id \in Nat /\ msg[c].sub \in SubId \cup {None}
      BY <1>1 DEF TypeOK, LocalTypeOK
    <3> QED
      BY <3>1 DEF Message
  <2>3. /\ Len(out[d]) \in Nat /\ DOMAIN out[d] = 1..Len(out[d])
        /\ DOMAIN out'[d] = 1..last /\ out'[d][last] = m
        /\ \A k \in 1..Len(out[d]) : out'[d][k] = out[d][k]
    BY <1>1, <2>1, <2>2, AppendProperties DEF RegistryTypeOK
  <2>4. /\ m.type = "MESSAGE" /\ m.from = c /\ m.of = n[c] /\ m.id = msg[c].id
        /\ last \notin 1..Len(out[d])
        /\ \A k \in 1..last : k = last \/ k \in 1..Len(out[d])
        /\ \A k \in 1..Len(out[d]) : k \in 1..last /\ k < last
        /\ last \in 1..last /\ last \in Nat
    BY <2>3
  <2> HIDE DEF m, last
  <2>5. /\ \A k \in Messages(d)' : k = last \/ k \in Messages(d)
        /\ \A k \in Messages(d) :
             /\ k \in Messages(d)' /\ k \in Nat /\ k < last
             /\ k # last /\ out'[d][k] = out[d][k]
    BY <2>3, <2>4 DEF Messages
  <2>6. \A e \in Conn \ {d} : out'[e] = out[e] /\ Messages(e)' = Messages(e)
    <3>1. \A e \in Conn \ {d} : out'[e] = out[e]
      BY <1>1, <2>1 DEF RegistryTypeOK
    <3> QED
      BY <3>1 DEF Messages
  <2>7. \A e \in Conn : \A k \in Messages(e)' :
          \/ k \in Messages(e) /\ out'[e][k] = out[e][k]
          \/ e = d /\ k = last /\ k \notin Messages(e) /\ out'[e][k] = m
    <3> SUFFICES ASSUME NEW e \in Conn, NEW k \in Messages(e)'
                 PROVE  \/ k \in Messages(e) /\ out'[e][k] = out[e][k]
                        \/ e = d /\ k = last /\ k \notin Messages(e) /\ out'[e][k] = m
      OBVIOUS
    <3>1. CASE e = d
      BY <2>3, <2>5, <3>1
    <3>2. CASE e # d
      BY <2>6, <3>2
    <3> QED
      BY <3>1, <3>2
  <2>8. m.from = c /\ m.of = n[c] /\ m.id = msg[c].id
    BY <2>4
  <2>9. UsedBelow'
    BY <1>3, <2>7, <2>8 DEF MailInv, UsedBelow, DrawnFresh
  <2>10. DrawnDistinct'
    BY <1>4 DEF MailInv, DrawnDistinct
  <2>11. DrawnFresh'
    BY <1>3, <1>4, <2>7, <2>8 DEF MailInv, DrawnFresh, DrawnDistinct
  <2>12. MessageIdsUnique'
    BY <1>3, <2>7, <2>8 DEF MailInv, MessageIdsUnique, DrawnFresh
  <2>13. FromThePast'
    <3>1. n[c] \in Nat
      BY <1>1 DEF TypeOK, LocalTypeOK
    <3> QED
      BY <1>3, <2>7, <2>8, <3>1 DEF MailInv, FromThePast
  <2>14. \A e, g \in Conn : g \in Owed(e)' => g \in Owed(e) /\ ~(e = c /\ g = d)
    <3>1. \A e \in Conn \ {c} : Owed(e)' = Owed(e)
      BY <1>3 DEF Owed, OnlyLocal
    <3>2. Owed(c)' = iter[c].rem /\ Owed(c) = iter[c].rem \cup {d}
      BY <1>2, <1>3 DEF Owed
    <3>3. d \notin iter[c].rem
      BY <1>2, <1>3 DEF MailInv, OwedOnce
    <3> QED
      BY <3>1, <3>2, <3>3
  <2>15. OwedIsNew'
    BY <1>3, <2>7, <2>8, <2>14 DEF MailInv, OwedIsNew
  <2>16. OwedOnce'
    BY <1>3 DEF MailInv, OwedOnce, OnlyLocal
  <2>17. d \in Owed(c)
    BY <1>2, <1>3 DEF Owed
  <2>18. SenderOrder'
    <3> SUFFICES ASSUME NEW e \in Conn, NEW j \in Messages(e)', NEW k \in Messages(e)',
                        j < k, out'[e][j].from = out'[e][k].from
                 PROVE  out'[e][j].of < out'[e][k].of
      BY DEF SenderOrder
    <3>1. CASE j \in Messages(e) /\ k \in Messages(e)
      BY <2>7, <3>1 DEF MailInv, SenderOrder
    <3>2. CASE j \in Messages(e) /\ e = d /\ k = last /\ out'[e][k] = m
      <4>1. out'[e][j] = out[e][j]
        BY <2>5, <3>2
      <4> QED
        BY <2>8, <2>17, <3>2, <4>1 DEF MailInv, OwedIsNew
    <3>3. ~(e = d /\ j = last /\ k \in Messages(e)')
      BY <2>4, <2>5
    <3> QED
      BY <2>7, <3>1, <3>2, <3>3
  <2> QED
    BY <2>9, <2>10, <2>11, <2>12, <2>13, <2>15, <2>16, <2>18 DEF MailInv
<1> QED
  BY <1>5, <1>6

-----------------------------------------------------------------------------
(* All other steps *)

LEMMA CalmGoto ==
  ASSUME TypeOK, NEW c \in Conn, NEW l \in (Outside \cup Inside) \ SendSteps,
         Goto(c, l), Silent(c)
  PROVE  Calm(c)
  BY GotoType DEF Calm, TypeOK

LEMMA CalmLeave ==
  ASSUME TypeOK, NEW c \in Conn, NEW l \in Outside, Leave(c, l), Silent(c)
  PROVE  Calm(c)
<1>1. OnlyLocal(c) /\ pc'[c] = l
  BY LeaveType DEF TypeOK
<1>2. n'[c] = n[c]
  BY DEF Leave
<1> QED
  BY <1>1, <1>2 DEF Calm, Outside, SendSteps

\* A step that goes to l and changes any local variables but n.
LEMMA CalmOwn ==
  ASSUME TypeOK, NEW c \in Conn, NEW l, l \notin SendSteps, Silent(c),
         pc' = [pc EXCEPT ![c] = l], n' = n, OnlyLocal(c)
  PROVE  Calm(c)
  BY DEF Calm, TypeOK, LocalTypeOK

LEMMA CalmReceive ==
  ASSUME TypeOK, NEW c \in Conn, NEW f \in Sends[c], NEW l \in Outside \cup Inside,
         l \notin SendSteps \ {"checkDestination"}, Receive(c, f, l)
  PROVE  Calm(c)
<1>1. OnlyLocal(c) /\ pc'[c] = l /\ UNCHANGED registry
  BY ReceiveType DEF TypeOK
<1>2. n'[c] = n[c] + 1
  BY DEF Receive, TypeOK, LocalTypeOK
<1>3. Silent(c)
  BY <1>1, SameRegistrySilent
<1> QED
  BY <1>1, <1>2, <1>3 DEF Calm

LEMMA CalmCheck ==
  ASSUME TypeOK, NEW c \in Conn, NEW ok, NEW l \in Inside \ SendSteps, Check(c, ok, l)
  PROVE  Calm(c)
<1>1. (IF ok THEN l ELSE "error") \in (Outside \cup Inside) \ SendSteps
  BY DEF Inside, SendSteps
<1>2. Silent(c)
  BY SameRegistrySilent DEF Check
<1> QED
  BY <1>1, <1>2, CalmGoto DEF Check

LEMMA CalmNoUser ==
  ASSUME TypeOK, NEW c \in Conn, NoUser(c)
  PROVE  Calm(c)
<1>1. "throw" \in (Outside \cup Inside) \ SendSteps
  BY DEF Inside, SendSteps
<1>2. Silent(c)
  BY SameRegistrySilent DEF NoUser
<1> QED
  BY <1>1, <1>2, CalmGoto DEF NoUser

\* What the client decides.
LEMMA ClientCalm ==
  ASSUME TypeOK, NEW c \in Conn, Client(c)
  PROVE  Calm(c)
<1> USE DEF Inside, Outside, SendSteps
<1>1. CASE Accept(c)
  <2>1. Silent(c)
    BY <1>1, SameOut DEF Accept, addConnection, topicVars
  <2> QED
    BY <1>1, <2>1, CalmGoto DEF Accept
<1>2. CASE EndOfStream(c)
  BY <1>2, SameRegistrySilent, CalmLeave DEF EndOfStream
<1>3. CASE handleConnect(c)
  BY <1>3, CalmReceive DEF handleConnect, Incoming
<1>4. CASE handleSubscribe(c)
  BY <1>4, CalmReceive DEF handleSubscribe, Incoming
<1>5. CASE handleUnsubscribe(c)
  BY <1>5, CalmReceive DEF handleUnsubscribe, Incoming
<1>6. CASE handleSend(c)
  BY <1>6, CalmReceive DEF handleSend, Incoming
<1>7. CASE handleDisconnect(c)
  BY <1>7, CalmReceive DEF handleDisconnect, Incoming
<1>8. CASE handleOther(c)
  BY <1>8, CalmReceive DEF handleOther, Incoming
<1> QED
  BY <1>1, <1>2, <1>3, <1>4, <1>5, <1>6, <1>7, <1>8 DEF Client

LEMMA UserOpsSilent ==
  ASSUME NEW c, NEW o, NEW p,
         \/ PutNewUser(o, p) \/ SetLoggedIn(o, p) \/ SetUser(c, o)
         \/ ClearChannels(o) \/ (\E i : MapId(o, i, p))
  PROVE  Silent(c)
<1>1. UNCHANGED <<topicVars, wireVars>>
  BY DEF PutNewUser, SetLoggedIn, SetUser, ClearChannels, MapId
<1> QED
  BY <1>1, UsersOnly DEF wireVars

LEMMA CalmLogin ==
  ASSUME TypeOK, NEW c \in Conn, NEW o, LoginAs(c, o), Silent(c)
  PROVE  Calm(c)
<1>1. OnlyLocal(c) /\ n' = n
  BY DEF LoginAs, TypeOK, LocalTypeOK, OnlyLocal
<1> QED
  BY <1>1, CalmOwn DEF LoginAs, SendSteps

LEMMA ConnectCalm ==
  ASSUME TypeOK, NEW c \in Conn,
         \/ CheckLegalInfo(c) \/ CheckLoggedIn(c) \/ Login(c) \/ PutUser(c)
         \/ ReuseUser(c) \/ LinkUser(c) \/ Connected(c)
  PROVE  Calm(c)
<1> USE DEF Inside, Outside, SendSteps
<1>1. CASE CheckLegalInfo(c)
  BY <1>1, CalmCheck DEF CheckLegalInfo
<1>2. CASE CheckLoggedIn(c)
  BY <1>2, CalmCheck DEF CheckLoggedIn
<1>3. CASE Login(c)
  BY <1>3, CalmGoto, SameRegistrySilent DEF Login
<1>4. CASE PutUser(c)
  BY <1>4, CalmLogin, UserOpsSilent DEF PutUser
<1>5. CASE ReuseUser(c)
  BY <1>5, CalmLogin, UserOpsSilent DEF ReuseUser
<1>6. CASE LinkUser(c)
  BY <1>6, CalmGoto, UserOpsSilent, SameRegistrySilent DEF LinkUser
<1>7. CASE Connected(c)
  <2>1. [type |-> "CONNECTED", of |-> n[c]] \in Answer
    BY DEF Answer, TypeOK, LocalTypeOK
  <2>2. Silent(c)
    BY <1>7, <2>1, SendAnswer DEF Connected, TypeOK
  <2> QED
    BY <1>7, <2>2, CalmGoto DEF Connected
<1> QED
  BY <1>1, <1>2, <1>3, <1>4, <1>5, <1>6, <1>7

LEMMA CalmLeaveChannel ==
  ASSUME TypeOK, NEW c \in Conn, LeaveChannel(c), NEW l, l \notin SendSteps,
         pc' = [pc EXCEPT ![c] = l]
  PROVE  Calm(c)
<1>1. PICK ch \in todo[c] :
        /\ todo' = [todo EXCEPT ![c] = @ \ {ch}]
        /\ \E loses \in {FALSE, Overlaps(c, ch)} :
             RemoveSubscriber(ch, c, loses, OtherIds(c, ch))
        /\ UNCHANGED <<frame, n, user, msg>>
  BY DEF LeaveChannel
<1>2. ch \in Channel
  BY DEF TypeOK, LocalTypeOK
<1>3. Silent(c)
  BY <1>1, <1>2, SetKeepsIterators DEF TypeOK
<1>4. OnlyLocal(c) /\ n' = n
  BY <1>1 DEF TypeOK, LocalTypeOK, OnlyLocal
<1> QED
  BY <1>3, <1>4, CalmOwn

LEMMA SubscribeCalm ==
  ASSUME Typed, NEW c \in Conn,
         \/ checkUniqueId(c) \/ AddToChannel(c) \/ PutId(c)
         \/ checkIdExists(c) \/ RemoveId(c) \/ RemoveFromChannel(c)
  PROVE  Calm(c)
<1> USE DEF Inside, Outside, SendSteps
<1>0. TypeOK /\ RegistryTypeOK
  BY DEF Typed, TypeOK
<1>1. CASE checkUniqueId(c)
  BY <1>0, <1>1, CalmNoUser, CalmCheck DEF checkUniqueId
<1>2. CASE AddToChannel(c)
  <2>1. frame[c].dest \in Channel
    BY <1>2 DEF AddToChannel, At, Typed, Operands, OperandsAt
  <2>2. Silent(c)
    BY <1>0, <1>2, <2>1, SetKeepsIterators DEF AddToChannel
  <2> QED
    BY <1>0, <1>2, <2>2, CalmGoto DEF AddToChannel
<1>3. CASE PutId(c)
  BY <1>0, <1>3, CalmGoto, UserOpsSilent DEF PutId
<1>4. CASE checkIdExists(c)
  BY <1>0, <1>4, CalmNoUser, CalmCheck DEF checkIdExists
<1>5. CASE RemoveId(c)
  <2>1. Silent(c)
    BY <1>5, UserOpsSilent DEF RemoveId
  <2>2. OnlyLocal(c) /\ n' = n
    BY <1>0, <1>5 DEF RemoveId, TypeOK, LocalTypeOK, OnlyLocal
  <2>3. PICK l \in {"throw", "remove"} : pc' = [pc EXCEPT ![c] = l]
    BY <1>5 DEF RemoveId
  <2> QED
    BY <1>0, <2>1, <2>2, <2>3, CalmOwn
<1>6. CASE RemoveFromChannel(c)
  BY <1>0, <1>6, CalmLeaveChannel DEF RemoveFromChannel
<1> QED
  BY <1>1, <1>2, <1>3, <1>4, <1>5, <1>6

LEMMA AfterLogoutCalm ==
  ASSUME TypeOK, NEW c \in Conn, AfterLogout(c), Silent(c)
  PROVE  Calm(c)
<1>1. CASE Failing(c)
  BY <1>1, CalmGoto DEF AfterLogout, Inside, SendSteps
<1>2. CASE ~Failing(c)
  BY <1>2, CalmLeave DEF AfterLogout, Outside
<1> QED
  BY <1>1, <1>2

LEMMA EndCalm ==
  ASSUME Typed, NEW c \in Conn,
         \/ SendError(c) \/ Logout(c) \/ Sweep(c) \/ ClearAll(c) \/ LogOff(c)
         \/ CloseConnection(c) \/ handleReceipt(c) \/ Unwind(c)
         \/ NextFails(c) \/ EndOfLoop(c)
  PROVE  Calm(c)
<1> USE DEF Inside, Outside, SendSteps
<1>0. TypeOK /\ RegistryTypeOK /\ n[c] \in Nat
  BY DEF Typed, TypeOK, LocalTypeOK
<1>1. CASE SendError(c)
  <2>1. [type |-> "ERROR", of |-> n[c]] \in Answer
    BY <1>0 DEF Answer
  <2>2. Silent(c)
    BY <1>0, <1>1, <2>1, SendAnswer DEF SendError
  <2> QED
    BY <1>0, <1>1, <2>2, CalmGoto DEF SendError
<1>2. CASE Logout(c)
  <2>1. Silent(c)
    BY <1>2, SameRegistrySilent DEF Logout
  <2>2. CASE AfterLogout(c)
    BY <1>0, <2>1, <2>2, AfterLogoutCalm
  <2>3. CASE ~AfterLogout(c)
    <3>1. pc' = [pc EXCEPT ![c] = "sweep"] /\ n' = n /\ OnlyLocal(c)
      BY <1>0, <1>2, <2>3 DEF Logout, TypeOK, LocalTypeOK, OnlyLocal
    <3> QED
      BY <1>0, <2>1, <3>1, CalmOwn
  <2> QED
    BY <2>2, <2>3
<1>3. CASE Sweep(c)
  <2>1. pc' = [pc EXCEPT ![c] = "sweep"]
    BY <1>0, <1>3 DEF Sweep, At, TypeOK, LocalTypeOK
  <2> QED
    BY <1>0, <1>3, <2>1, CalmLeaveChannel DEF Sweep
<1>4. CASE ClearAll(c)
  BY <1>0, <1>4, CalmGoto, UserOpsSilent DEF ClearAll
<1>5. CASE LogOff(c)
  BY <1>0, <1>5, AfterLogoutCalm, UserOpsSilent DEF LogOff
<1>6. CASE CloseConnection(c)
  <2>1. Silent(c)
    BY <1>6, SameOut DEF CloseConnection, closeConnection, topicVars
  <2> QED
    BY <1>0, <1>6, <2>1, CalmLeave DEF CloseConnection
<1>7. CASE handleReceipt(c)
  <2>1. [type |-> "RECEIPT", of |-> n[c]] \in Answer
    BY <1>0 DEF Answer
  <2>2. Silent(c)
    BY <1>0, <1>7, <2>1, SendAnswer, SameRegistrySilent DEF handleReceipt
  <2> QED
    BY <1>0, <1>7, <2>2, CalmGoto, CalmLeave DEF handleReceipt
<1>8. CASE Unwind(c)
  <2>1. Silent(c)
    BY <1>0, <1>8, OwnIterator DEF Unwind
  <2> QED
    BY <1>0, <1>8, <2>1, CalmLeave DEF Unwind
<1>9. CASE NextFails(c)
  BY <1>0, <1>9, CalmGoto, SameRegistrySilent DEF NextFails
<1>10. CASE EndOfLoop(c)
  <2>1. Silent(c)
    BY <1>0, <1>10, OwnIterator DEF EndOfLoop
  <2> QED
    BY <1>0, <1>10, <2>1, CalmGoto DEF EndOfLoop
<1> QED
  BY <1>1, <1>2, <1>3, <1>4, <1>5, <1>6, <1>7, <1>8, <1>9, <1>10

LEMMA CheckDestinationMail ==
  ASSUME MailInv, TypeOK, NEW c \in Conn, checkDestination(c)
  PROVE  MailInv'
<1>1. CASE NoUser(c)
  BY <1>1, CalmNoUser, CalmStep
<1>2. CASE \E ok : Check(c, ok, "iterate")
  <2>1. PICK l \in {"iterate", "error"} : Goto(c, l)
    BY <1>2 DEF Check
  <2>2. Silent(c)
    BY <1>2, SameRegistrySilent DEF Check
  <2>3. pc[c] = "checkDestination" /\ pc'[c] = l /\ n'[c] = n[c] /\ OnlyLocal(c)
    BY <2>1, GotoType DEF checkDestination, At, Inside, TypeOK
  <2>4. \A d \in Conn : d \in Owed(c)' => d \in Owed(c)
    BY <2>3 DEF Owed
  <2> QED
    BY <2>2, <2>3, <2>4, NoMailIds, NoMailOrder DEF MailInv, Silent
<1> QED
  BY <1>1, <1>2 DEF checkDestination

LEMMA GetSubIdMail ==
  ASSUME MailInv, TypeOK, NEW c \in Conn, GetSubId(c)
  PROVE  MailInv'
<1>1. CASE Goto(c, "throw") /\ UNCHANGED registry
  BY <1>1, CalmGoto, SameRegistrySilent, CalmStep DEF Inside, SendSteps
<1>2. CASE ~(Goto(c, "throw") /\ UNCHANGED registry)
  <2>1. pc'[c] = "deliver"
    BY <1>2 DEF GetSubId, TypeOK, LocalTypeOK
  <2> QED
    BY <2>1, DrawMail
<1> QED
  BY <1>1, <1>2

-----------------------------------------------------------------------------
LEMMA MailInit == Init => MailInv
<1> SUFFICES ASSUME Init PROVE MailInv
  OBVIOUS
<1>1. \A c \in Conn : Messages(c) = {}
  <2>1. \A c \in Conn : out[c] = <<>>
    BY DEF Init, RegistryInit
  <2>2. DOMAIN << >> = {}
    OBVIOUS
  <2> QED
    BY <2>1, <2>2 DEF Messages
<1>2. \A c \in Conn : pc[c] = "new" /\ Owed(c) = {}
  BY DEF Init, Owed
<1> QED
  BY <1>1, <1>2 DEF MailInv, UsedBelow, DrawnFresh, DrawnDistinct,
     MessageIdsUnique, FromThePast, OwedIsNew, OwedOnce, SenderOrder

LEMMA MailNext == MailInv /\ Typed /\ [Next]_vars => MailInv'
<1> SUFFICES ASSUME MailInv, Typed, [Next]_vars PROVE MailInv'
  OBVIOUS
<1>0. TypeOK
  BY DEF Typed
<1>1. CASE UNCHANGED vars
  <2>1. UNCHANGED <<out, msgCounter, pc, n, msg, iter>>
    BY <1>1 DEF vars, registry, topicVars, wireVars, local
  <2>2. \A d \in Conn : Messages(d)' = Messages(d) /\ Owed(d)' = Owed(d)
    BY <2>1 DEF Messages, Owed
  <2>3. (UsedBelow /\ DrawnFresh /\ DrawnDistinct /\ MessageIdsUnique)'
    BY <2>1, <2>2 DEF MailInv, UsedBelow, DrawnFresh, DrawnDistinct, MessageIdsUnique
  <2>4. (FromThePast /\ OwedIsNew /\ OwedOnce /\ SenderOrder)'
    BY <2>1, <2>2 DEF MailInv, FromThePast, OwedIsNew, OwedOnce, SenderOrder
  <2> QED
    BY <2>3, <2>4 DEF MailInv
<1>2. ASSUME NEW c \in Conn, Client(c) PROVE MailInv'
  BY <1>0, <1>2, ClientCalm, CalmStep
<1>3. ASSUME NEW c \in Conn, Process(c) PROVE MailInv'
  <2>1. CASE \/ CheckLegalInfo(c) \/ CheckLoggedIn(c) \/ Login(c) \/ PutUser(c)
             \/ ReuseUser(c) \/ LinkUser(c) \/ Connected(c)
    BY <1>0, <2>1, ConnectCalm, CalmStep
  <2>2. CASE \/ checkUniqueId(c) \/ AddToChannel(c) \/ PutId(c)
             \/ checkIdExists(c) \/ RemoveId(c) \/ RemoveFromChannel(c)
    BY <1>0, <2>2, SubscribeCalm, CalmStep
  <2>3. CASE \/ SendError(c) \/ Logout(c) \/ Sweep(c) \/ ClearAll(c) \/ LogOff(c)
             \/ CloseConnection(c) \/ handleReceipt(c) \/ Unwind(c)
             \/ NextFails(c) \/ EndOfLoop(c)
    BY <1>0, <2>3, EndCalm, CalmStep
  <2>4. CASE \/ checkDestination(c) \/ Iterate(c) \/ NextSubscriber(c)
             \/ GetSubId(c) \/ Deliver(c)
    BY <1>0, <2>4, CheckDestinationMail, IterateMail, NextSubscriberMail,
       GetSubIdMail, DeliverMail
  <2> QED
    BY <1>3, <2>1, <2>2, <2>3, <2>4 DEF Process
<1> QED
  BY <1>1, <1>2, <1>3 DEF Next, Quiet

LEMMA MailAlways == Spec => []MailInv
<1>1. Init => Typed /\ MailInv
  BY TypedInit, MailInit
<1>2. Typed /\ MailInv /\ [Next]_vars => Typed' /\ MailInv'
  BY TypedNext, MailNext
<1> QED
  BY <1>1, <1>2, PTL DEF Spec

\* The message-id of a MESSAGE is unique, whatever the clients do: getAndIncrement
\* hands every number out once, and a number drawn is used for one frame.
THEOREM MessageIdsDistinct == Spec => []MessageIdsUnique
<1>1. MailInv => MessageIdsUnique
  BY DEF MailInv
<1> QED
  BY <1>1, MailAlways, PTL

\* A subscriber gets the messages of one sender in the order they were sent and
\* none of them twice, whatever joins, leaves and fails during the loop of
\* send(channel).
THEOREM SenderOrderKept == Spec => []SenderOrder
<1>1. MailInv => SenderOrder
  BY DEF MailInv
<1> QED
  BY <1>1, MailAlways, PTL

-----------------------------------------------------------------------------
(* The loop of send(channel) leaves nobody out *)

InLoop(c) == pc[c] \in {"next", "getSubId", "deliver"}

Got(c, d) == \E k \in Messages(d) : out[d][k].from = c /\ out[d][k].of = n[c]

\* As long as the set is the one the loop of c began with, each open connection
\* in it is still to come, is the receiver in hand, or has the message.
Covered(c) == InLoop(c) =>
  /\ iter[c].chan \in Channel
  /\ iter[c].ok => \A d \in subscribtions[iter[c].chan] \cap clients :
       \/ d \in iter[c].rem
       \/ pc[c] # "next" /\ d = msg[c].to
       \/ Got(c, d)

\* A connection not yet accepted is in no set: it cannot turn up in one that a
\* loop has already passed.
NewInNoSet == \A c \in Conn : pc[c] = "new" =>
  \A ch \in Channel : c \notin subscribtions[ch]

FanInv == NewInNoSet /\ \A c \in Conn : Covered(c)

\* A step of c that a loop of another process does not notice, or that its
\* iterator does.
Unnoticed(c) == \A d \in Conn \ {c} :
  /\ iter'[d].chan = iter[d].chan
  /\ iter'[d].ok => iter[d].ok
  /\ iter'[d].ok /\ iter[d].chan \in Channel =>
       subscribtions'[iter[d].chan] = subscribtions[iter[d].chan]

OnlyAdds(c) == \A ch \in Channel : subscribtions'[ch] \subseteq subscribtions[ch] \cup {c}

\* Who is open: only the step that accepts a connection adds one.
Opens(c) == \/ clients' \subseteq clients
            \/ pc[c] = "new" /\ clients' = clients \cup {c} /\ UNCHANGED subscribtions

Keeps(c) == Unnoticed(c) /\ OnlyAdds(c) /\ Opens(c) /\ pc'[c] # "new"

LEMMA FanOthers ==
  ASSUME FanInv, RegistryTypeOK, NEW c \in Conn, OnlyLocal(c), Keeps(c),
         \A d \in Conn : \A k \in Messages(d) : k \in Messages(d)' /\ out'[d][k] = out[d][k],
         \A d \in Conn \ {c} : iter'[d].rem = iter[d].rem,
         Covered(c)'
  PROVE  FanInv'
<1>1. NewInNoSet'
  BY DEF FanInv, NewInNoSet, Keeps, OnlyAdds, OnlyLocal
<1>2. ASSUME NEW e \in Conn, e # c PROVE Covered(e)'
  <2>1. /\ pc'[e] = pc[e] /\ n'[e] = n[e] /\ msg'[e] = msg[e]
        /\ iter'[e].chan = iter[e].chan /\ iter'[e].rem = iter[e].rem
    BY <1>2 DEF OnlyLocal, Keeps, Unnoticed
  <2> SUFFICES ASSUME InLoop(e), iter'[e].ok,
                      NEW d \in subscribtions'[iter[e].chan] \cap clients'
               PROVE  \/ d \in iter[e].rem
                      \/ pc[e] # "next" /\ d = msg[e].to
                      \/ Got(e, d)'
    BY <2>1 DEF Covered, InLoop, FanInv
  <2>2. iter[e].ok /\ iter[e].chan \in Channel
        /\ subscribtions'[iter[e].chan] = subscribtions[iter[e].chan]
    BY <1>2 DEF FanInv, Covered, Keeps, Unnoticed
  <2>3. d \in clients /\ d \in Conn
    BY <2>2 DEF FanInv, NewInNoSet, Keeps, Opens, RegistryTypeOK
  <2>4. \/ d \in iter[e].rem
        \/ pc[e] # "next" /\ d = msg[e].to
        \/ Got(e, d)
    BY <2>2, <2>3 DEF FanInv, Covered
  <2> QED
    BY <2>1, <2>3, <2>4 DEF Got
<1> QED
  BY <1>1, <1>2 DEF FanInv

-----------------------------------------------------------------------------
(* Which steps keep it *)

LEMMA SetUnnoticed ==
  ASSUME RegistryTypeOK, NEW c \in Conn, NEW ch \in Channel, NEW loses,
         NEW others,
         AddSubscriber(ch, c, loses) \/ RemoveSubscriber(ch, c, loses, others)
  PROVE  Unnoticed(c) /\ OnlyAdds(c) /\ clients' = clients
<1>1. PICK S : SetSubscribers(ch, S) /\ S \subseteq subscribtions[ch] \cup {c}
  BY DEF AddSubscriber, RemoveSubscriber
<1>2. \A d \in Conn : iter[d] \in Iterator
  BY DEF RegistryTypeOK
<1>3. \A x \in Channel : x # ch => subscribtions'[x] = subscribtions[x]
  BY <1>1 DEF SetSubscribers, RegistryTypeOK
<1>4. subscribtions'[ch] = S
  BY <1>1 DEF SetSubscribers, RegistryTypeOK
<1>5. \A d \in Conn : IF S # subscribtions[ch] /\ iter[d].chan = ch
                      THEN iter'[d].chan = iter[d].chan /\ ~iter'[d].ok
                      ELSE iter'[d] = iter[d]
  BY <1>1, <1>2 DEF SetSubscribers, Iterator
<1>6. Unnoticed(c)
  BY <1>3, <1>4, <1>5 DEF Unnoticed
<1>7. OnlyAdds(c)
  BY <1>1, <1>3, <1>4 DEF OnlyAdds
<1> QED
  BY <1>1, <1>6, <1>7 DEF SetSubscribers, wireVars

LEMMA SameTopics ==
  ASSUME NEW c, UNCHANGED <<topicVars, clients>>
  PROVE  Unnoticed(c) /\ OnlyAdds(c) /\ clients' = clients
  BY DEF Unnoticed, OnlyAdds, topicVars

LEMMA OwnIteratorUnnoticed ==
  ASSUME RegistryTypeOK, NEW c \in Conn,
         DropIterator(c) \/ (\E ch : OpenIterator(c, ch)) \/ (\E d : Advance(c, d))
  PROVE  Unnoticed(c) /\ OnlyAdds(c) /\ clients' = clients
<1>1. UNCHANGED <<subscribtions, clients>>
  BY DEF DropIterator, OpenIterator, Advance, wireVars
<1>2. \A d \in Conn \ {c} : iter'[d] = iter[d]
  BY DEF DropIterator, OpenIterator, Advance, RegistryTypeOK
<1> QED
  BY <1>1, <1>2 DEF Unnoticed, OnlyAdds

LEMMA NotNew ==
  ASSUME TypeOK, NEW c \in Conn,
         \/ \E l : l # "new" /\ (Goto(c, l) \/ Leave(c, l) \/ pc' = [pc EXCEPT ![c] = l])
         \/ pc' = pc /\ pc[c] # "new"
  PROVE  pc'[c] # "new"
  BY DEF Goto, Leave, TypeOK, LocalTypeOK

LEMMA ClientKeeps ==
  ASSUME TypeOK, NEW c \in Conn, Client(c)
  PROVE  Keeps(c)
<1>1. CASE Accept(c)
  <2>1. Unnoticed(c) /\ OnlyAdds(c) /\ UNCHANGED subscribtions
    BY <1>1 DEF Accept, addConnection, topicVars, Unnoticed, OnlyAdds
  <2>2. Opens(c)
    BY <1>1, <2>1 DEF Accept, At, addConnection, Opens
  <2>3. pc'[c] # "new"
    BY <1>1, NotNew DEF Accept
  <2> QED
    BY <2>1, <2>2, <2>3 DEF Keeps
<1>2. CASE ~Accept(c)
  <2>1. UNCHANGED registry
    BY <1>2 DEF Client, EndOfStream, handleConnect, handleSubscribe,
       handleUnsubscribe, handleSend, handleDisconnect, handleOther, Receive
  <2>2. PICK l : l # "new" /\ (Leave(c, l) \/ pc' = [pc EXCEPT ![c] = l])
    BY <1>2 DEF Client, EndOfStream, handleConnect, handleSubscribe,
       handleUnsubscribe, handleSend, handleDisconnect, handleOther, Receive
  <2>3. Unnoticed(c) /\ OnlyAdds(c) /\ clients' = clients
    BY <2>1, SameTopics DEF registry, wireVars
  <2> QED
    BY <2>2, <2>3, NotNew DEF Keeps, Opens
<1> QED
  BY <1>1, <1>2

\* Handlers that do not touch a set.
LEMMA UsersKeep ==
  ASSUME TypeOK, NEW c \in Conn,
         \/ CheckLegalInfo(c) \/ CheckLoggedIn(c) \/ Login(c) \/ PutUser(c)
         \/ ReuseUser(c) \/ LinkUser(c) \/ Connected(c)
         \/ checkUniqueId(c) \/ PutId(c) \/ checkIdExists(c) \/ RemoveId(c)
         \/ checkDestination(c) \/ NextFails(c) \/ GetSubId(c)
  PROVE  Keeps(c)
<1> USE DEF CheckLegalInfo, CheckLoggedIn, Login, PutUser, ReuseUser, LinkUser,
            Connected, checkUniqueId, PutId, checkIdExists, RemoveId,
            checkDestination, NextFails, GetSubId, Check, NoUser, LoginAs
<1>1. UNCHANGED <<topicVars, clients>>
  BY DEF registry, wireVars, PutNewUser, SetLoggedIn, SetUser, Send, MapId,
     getAndIncMessageCounter
<1>2. \E l : l # "new" /\ (Goto(c, l) \/ pc' = [pc EXCEPT ![c] = l])
  OBVIOUS
<1> QED
  BY <1>1, <1>2, SameTopics, NotNew DEF Keeps, Opens

LEMMA SetsKeep ==
  ASSUME Typed, NEW c \in Conn,
         AddToChannel(c) \/ RemoveFromChannel(c) \/ Sweep(c)
  PROVE  Keeps(c)
<1>0. TypeOK /\ RegistryTypeOK
  BY DEF Typed, TypeOK
<1>1. CASE AddToChannel(c)
  <2>1. frame[c].dest \in Channel
    BY <1>1 DEF AddToChannel, At, Typed, Operands, OperandsAt
  <2>2. Unnoticed(c) /\ OnlyAdds(c) /\ clients' = clients
    BY <1>0, <1>1, <2>1, SetUnnoticed DEF AddToChannel
  <2>3. pc'[c] # "new"
    BY <1>0, <1>1, NotNew DEF AddToChannel
  <2> QED
    BY <2>2, <2>3 DEF Keeps, Opens
<1>2. CASE RemoveFromChannel(c) \/ Sweep(c)
  <2>1. PICK ch \in todo[c] : \E loses \in {FALSE, Overlaps(c, ch)} :
          RemoveSubscriber(ch, c, loses, OtherIds(c, ch))
    BY <1>2 DEF RemoveFromChannel, Sweep, LeaveChannel
  <2>2. ch \in Channel
    BY <1>0 DEF TypeOK, LocalTypeOK
  <2>3. Unnoticed(c) /\ OnlyAdds(c) /\ clients' = clients
    BY <1>0, <2>1, <2>2, SetUnnoticed
  <2>4. pc'[c] # "new"
    BY <1>0, <1>2, NotNew DEF RemoveFromChannel, Sweep, At
  <2> QED
    BY <2>3, <2>4 DEF Keeps, Opens
<1> QED
  BY <1>1, <1>2

LEMMA LoopsKeep ==
  ASSUME TypeOK, NEW c \in Conn,
         Iterate(c) \/ NextSubscriber(c) \/ EndOfLoop(c) \/ Unwind(c)
  PROVE  Keeps(c)
<1>1. Unnoticed(c) /\ OnlyAdds(c) /\ clients' = clients
  BY OwnIteratorUnnoticed DEF TypeOK, Iterate, NextSubscriber, EndOfLoop, Unwind
<1>2. pc'[c] # "new"
  <2>1. \E l : l # "new" /\ (Goto(c, l) \/ Leave(c, l) \/ pc' = [pc EXCEPT ![c] = l])
    BY DEF Iterate, NextSubscriber, EndOfLoop, Unwind
  <2> QED
    BY <2>1, NotNew
<1> QED
  BY <1>1, <1>2 DEF Keeps, Opens

LEMMA EndKeeps ==
  ASSUME TypeOK, NEW c \in Conn,
         \/ SendError(c) \/ Logout(c) \/ ClearAll(c) \/ LogOff(c)
         \/ CloseConnection(c) \/ handleReceipt(c) \/ Deliver(c)
  PROVE  Keeps(c)
<1> USE DEF SendError, Logout, ClearAll, LogOff, CloseConnection, handleReceipt,
            Deliver, AfterLogout
<1>1. UNCHANGED topicVars /\ clients' \subseteq clients
  BY DEF registry, wireVars, Send, ClearChannels, SetLoggedIn, closeConnection
<1>2. \E l : l # "new" /\ (Goto(c, l) \/ Leave(c, l) \/ pc' = [pc EXCEPT ![c] = l])
  OBVIOUS
<1>3. Unnoticed(c) /\ OnlyAdds(c)
  BY <1>1 DEF Unnoticed, OnlyAdds, topicVars
<1> QED
  BY <1>1, <1>2, <1>3, NotNew DEF Keeps, Opens

-----------------------------------------------------------------------------
(* The steps of the loop *)

LEMMA SilentKeepsMail ==
  ASSUME NEW c \in Conn, NoMail(c)
  PROVE  /\ \A d \in Conn : \A k \in Messages(d) :
              k \in Messages(d)' /\ out'[d][k] = out[d][k]
         /\ \A d \in Conn \ {c} : iter'[d].rem = iter[d].rem
  BY DEF NoMail

LEMMA IterateCovered ==
  ASSUME Typed, NEW c \in Conn, Iterate(c)
  PROVE  NoMail(c) /\ OnlyLocal(c) /\ Covered(c)'
<1>0. TypeOK /\ RegistryTypeOK
  BY DEF Typed, TypeOK
<1>1. Silent(c)
  BY <1>0, OwnIterator DEF Iterate
<1>2. OnlyLocal(c)
  BY <1>0, GotoType DEF Iterate, Inside, TypeOK
<1>3. frame[c].dest \in Channel
  BY DEF Typed, Operands, OperandsAt, Iterate, At
<1>4. /\ iter'[c] = [chan |-> frame[c].dest, rem |-> subscribtions[frame[c].dest],
                     ok |-> TRUE]
      /\ subscribtions' = subscribtions
  BY <1>0 DEF Iterate, OpenIterator, RegistryTypeOK
<1> QED
  BY <1>1, <1>2, <1>3, <1>4 DEF Silent, Covered

LEMMA NextCovered ==
  ASSUME FanInv, Typed, NEW c \in Conn, NextSubscriber(c)
  PROVE  NoMail(c) /\ OnlyLocal(c) /\ Covered(c)'
<1>0. TypeOK /\ RegistryTypeOK /\ iter[c] \in Iterator
  BY DEF Typed, TypeOK, RegistryTypeOK
<1>1. PICK d \in iter[c].rem :
        Advance(c, d) /\ msg' = [msg EXCEPT ![c].to = d]
  BY DEF NextSubscriber
<1>2. /\ pc[c] = "next" /\ pc'[c] = "getSubId" /\ n' = n
      /\ OnlyLocal(c) /\ msg'[c].to = d
  BY <1>0, <1>1 DEF NextSubscriber, At, TypeOK, LocalTypeOK, OnlyLocal
<1>3. /\ iter'[c].rem = iter[c].rem \ {d} /\ iter'[c].chan = iter[c].chan
      /\ iter'[c].ok = iter[c].ok
      /\ subscribtions' = subscribtions /\ UNCHANGED wireVars
  BY <1>0, <1>1 DEF Advance, RegistryTypeOK, Iterator
<1>4. Silent(c)
  BY <1>0, <1>1, OwnIterator
<1>5. \A e \in Conn : Got(c, e)' = Got(c, e)
  BY <1>2, <1>3 DEF Got, Messages, wireVars
<1>6. clients \subseteq Conn /\ clients' = clients
  BY <1>0, <1>3 DEF RegistryTypeOK, wireVars
<1>7. Covered(c)'
  <2>1. Covered(c)
    BY DEF FanInv
  <2> QED
    BY <1>2, <1>3, <1>5, <1>6, <2>1 DEF Covered, InLoop
<1> QED
  BY <1>2, <1>4, <1>7 DEF Silent

LEMMA GetSubIdCovered ==
  ASSUME FanInv, Typed, NEW c \in Conn, GetSubId(c)
  PROVE  NoMail(c) /\ OnlyLocal(c) /\ Covered(c)'
<1>0. TypeOK /\ clients \subseteq Conn
  BY DEF Typed, TypeOK, RegistryTypeOK
<1>1. UNCHANGED <<iter, subscribtions, clients, out>>
  BY DEF GetSubId, registry, topicVars, wireVars, getAndIncMessageCounter
<1>2. NoMail(c)
  BY <1>1 DEF NoMail, Messages
<1>3. /\ OnlyLocal(c) /\ n' = n /\ pc[c] = "getSubId"
      /\ pc'[c] = "deliver" => msg'[c].to = msg[c].to
      /\ pc'[c] \in {"throw", "deliver"}
  <2>1. CASE Goto(c, "throw")
    BY <1>0, <2>1 DEF GetSubId, At, Goto, local, TypeOK, LocalTypeOK, OnlyLocal
  <2>2. CASE pc' = [pc EXCEPT ![c] = "deliver"] /\ UNCHANGED <<frame, n, user, todo>>
    <3>1. msg' = msg \/ \E i : msg' = [msg EXCEPT ![c].sub = i, ![c].id = msgCounter]
      BY DEF GetSubId, Goto, local
    <3>2. /\ \A d \in Conn \ {c} : msg'[d] = msg[d]
          /\ msg'[c].to = msg[c].to
      <4>1. DOMAIN msg = Conn /\ msg[c].to = msg[c].to
            /\ msg[c] \in [to : Conn \cup {None}, sub : SubId \cup {None}, id : Nat]
            /\ msg = [d \in Conn |-> msg[d]]
        BY <1>0 DEF TypeOK, LocalTypeOK
      <4>2. CASE msg' = msg
        BY <4>2
      <4>3. ASSUME NEW i, msg' = [msg EXCEPT ![c].sub = i, ![c].id = msgCounter]
            PROVE  /\ \A d \in Conn \ {c} : msg'[d] = msg[d]
                   /\ msg'[c].to = msg[c].to
        BY <4>1, <4>3
      <4> QED
        BY <3>1, <4>2, <4>3
    <3> QED
      BY <1>0, <2>2, <3>2 DEF GetSubId, At, TypeOK, LocalTypeOK, OnlyLocal
  <2> QED
    BY <2>1, <2>2 DEF GetSubId
<1>4. \A e \in Conn : Got(c, e)' = Got(c, e)
  BY <1>1, <1>3 DEF Got, Messages
<1>5. Covered(c)'
  <2>1. Covered(c)
    BY DEF FanInv
  <2> QED
    BY <1>0, <1>1, <1>3, <1>4, <2>1 DEF Covered, InLoop
<1> QED
  BY <1>2, <1>3, <1>5

LEMMA DeliverCovered ==
  ASSUME FanInv, Typed, NEW c \in Conn, Deliver(c)
  PROVE  /\ OnlyLocal(c) /\ Covered(c)' /\ iter' = iter
         /\ \A d \in Conn : \A k \in Messages(d) :
              k \in Messages(d)' /\ out'[d][k] = out[d][k]
<1>0. TypeOK /\ RegistryTypeOK /\ clients \subseteq Conn
  BY DEF Typed, TypeOK, RegistryTypeOK
<1>1. PICK d \in Conn : d = msg[c].to
  BY DEF Typed, Operands, OperandsAt, Deliver, At
<1> DEFINE m == [type |-> "MESSAGE", from |-> c, of |-> n[c],
                 id |-> msg[c].id, sub |-> msg[c].sub]
           last == Len(out[d]) + 1
<1>2. /\ pc[c] = "deliver" /\ pc'[c] = "next" /\ n' = n /\ OnlyLocal(c)
      /\ Send(d, m) /\ UNCHANGED <<iter, subscribtions, clients>>
  BY <1>0, <1>1 DEF Deliver, At, TypeOK, LocalTypeOK, OnlyLocal, Send, topicVars
<1>3. /\ \A e \in Conn : \A k \in Messages(e) :
           k \in Messages(e)' /\ out'[e][k] = out[e][k]
      /\ d \in clients => last \in Messages(d)' /\ out'[d][last] = m
  <2>1. CASE d \notin clients
    BY <1>2, <2>1 DEF Send, Messages
  <2>2. CASE d \in clients
    <3>1. out' = [out EXCEPT ![d] = Append(@, m)] /\ out[d] \in Seq(Answer \cup Message)
      BY <1>0, <1>2, <2>2 DEF Send, RegistryTypeOK
    <3>2. m \in Message
      <4>1. n[c] \in Nat /\ msg[c].id \in Nat /\ msg[c].sub \in SubId \cup {None}
        BY <1>0 DEF TypeOK, LocalTypeOK
      <4> QED
        BY <4>1 DEF Message
    <3>3. /\ Len(out[d]) \in Nat /\ DOMAIN out[d] = 1..Len(out[d])
          /\ DOMAIN out'[d] = 1..last /\ out'[d][last] = m
          /\ \A k \in 1..Len(out[d]) : out'[d][k] = out[d][k]
      BY <1>0, <3>1, <3>2, AppendProperties DEF RegistryTypeOK
    <3>4. m.type = "MESSAGE" /\ last \in 1..last /\ 1..Len(out[d]) \subseteq 1..last
      BY <3>3
    <3> HIDE DEF m, last
    <3>5. \A e \in Conn \ {d} : out'[e] = out[e]
      BY <1>0, <3>1 DEF RegistryTypeOK
    <3> QED
      BY <3>3, <3>4, <3>5 DEF Messages
  <2> QED
    BY <2>1, <2>2
<1>4. m.from = c /\ m.of = n[c]
  OBVIOUS
<1> HIDE DEF m, last
<1>5. \A e \in Conn : Got(c, e) => Got(c, e)'
  BY <1>2, <1>3 DEF Got
<1>6. d \in clients => Got(c, d)'
  BY <1>2, <1>3, <1>4 DEF Got
<1>7. Covered(c)'
  <2>1. Covered(c)
    BY DEF FanInv
  <2> QED
    BY <1>0, <1>1, <1>2, <1>5, <1>6, <2>1 DEF Covered, InLoop
<1> QED
  BY <1>2, <1>3, <1>7

-----------------------------------------------------------------------------
LEMMA FanInit == Init => FanInv
  BY DEF Init, RegistryInit, FanInv, NewInNoSet, Covered, InLoop

\* A step that leaves the loop, or is not in it.
LEMMA OutsideLoop ==
  ASSUME FanInv, TypeOK, NEW c \in Conn, Calm(c), Keeps(c)
  PROVE  FanInv'
<1>1. Covered(c)'
  BY DEF Covered, InLoop, Calm, SendSteps
<1> QED
  BY <1>1, FanOthers, SilentKeepsMail DEF Calm, Silent, TypeOK

LEMMA CheckDestinationFan ==
  ASSUME FanInv, TypeOK, NEW c \in Conn, checkDestination(c)
  PROVE  FanInv'
<1>1. PICK l \in {"iterate", "error", "throw"} : Goto(c, l) /\ UNCHANGED registry
  BY DEF checkDestination, NoUser, Check
<1>2. OnlyLocal(c) /\ pc'[c] = l
  BY <1>1, GotoType DEF Inside, TypeOK
<1>3. Silent(c)
  BY <1>1, SameRegistrySilent
<1>4. Covered(c)'
  BY <1>2 DEF Covered, InLoop
<1> QED
  BY <1>2, <1>3, <1>4, UsersKeep, FanOthers, SilentKeepsMail DEF Silent, TypeOK

LEMMA FanNext == FanInv /\ Typed /\ [Next]_vars => FanInv'
<1> SUFFICES ASSUME FanInv, Typed, [Next]_vars PROVE FanInv'
  OBVIOUS
<1>0. TypeOK /\ RegistryTypeOK
  BY DEF Typed, TypeOK
<1>1. CASE UNCHANGED vars
  <2>1. UNCHANGED <<clients, out, pc, n, msg, iter, subscribtions>>
    BY <1>1 DEF vars, registry, topicVars, wireVars, local
  <2>2. \A c \in Conn : Covered(c)' = Covered(c)
    BY <2>1 DEF Covered, InLoop, Got, Messages
  <2> QED
    BY <2>1, <2>2 DEF FanInv, NewInNoSet
<1>2. ASSUME NEW c \in Conn, Client(c) PROVE FanInv'
  BY <1>0, <1>2, ClientCalm, ClientKeeps, OutsideLoop
<1>3. ASSUME NEW c \in Conn, Process(c) PROVE FanInv'
  <2>1. CASE \/ CheckLegalInfo(c) \/ CheckLoggedIn(c) \/ Login(c) \/ PutUser(c)
             \/ ReuseUser(c) \/ LinkUser(c) \/ Connected(c)
    BY <1>0, <2>1, ConnectCalm, UsersKeep, OutsideLoop
  <2>2. CASE checkUniqueId(c) \/ PutId(c) \/ checkIdExists(c) \/ RemoveId(c)
    BY <1>0, <2>2, SubscribeCalm, UsersKeep, OutsideLoop
  <2>3. CASE AddToChannel(c) \/ RemoveFromChannel(c)
    BY <1>0, <2>3, SubscribeCalm, SetsKeep, OutsideLoop
  <2>4. CASE \/ SendError(c) \/ Logout(c) \/ ClearAll(c) \/ LogOff(c)
             \/ CloseConnection(c) \/ handleReceipt(c)
    BY <1>0, <2>4, EndCalm, EndKeeps, OutsideLoop
  <2>5. CASE Sweep(c)
    BY <1>0, <2>5, EndCalm, SetsKeep, OutsideLoop
  <2>6. CASE Unwind(c) \/ EndOfLoop(c)
    BY <1>0, <2>6, EndCalm, LoopsKeep, OutsideLoop
  <2>7. CASE NextFails(c)
    BY <1>0, <2>7, EndCalm, UsersKeep, OutsideLoop
  <2>8. CASE checkDestination(c)
    BY <1>0, <2>8, CheckDestinationFan
  <2>9. CASE Iterate(c)
    BY <1>0, <2>9, IterateCovered, LoopsKeep, FanOthers, SilentKeepsMail
  <2>10. CASE NextSubscriber(c)
    BY <1>0, <2>10, NextCovered, LoopsKeep, FanOthers, SilentKeepsMail
  <2>11. CASE GetSubId(c)
    BY <1>0, <2>11, GetSubIdCovered, UsersKeep, FanOthers, SilentKeepsMail
  <2>12. CASE Deliver(c)
    BY <1>0, <2>12, DeliverCovered, EndKeeps, FanOthers
  <2> QED
    BY <1>3, <2>1, <2>2, <2>3, <2>4, <2>5, <2>6, <2>7, <2>8, <2>9, <2>10,
       <2>11, <2>12 DEF Process
<1> QED
  BY <1>1, <1>2, <1>3 DEF Next, Quiet

\* When send(channel) gets to the end of its loop without an exception and the
\* set is still the one it began with, every open connection in the set has the
\* message, whatever joined, left or was closed meanwhile.
THEOREM NobodyLeftOut == Spec => []FanoutComplete
<1>1. Init => Typed /\ FanInv
  BY TypedInit, FanInit
<1>2. Typed /\ FanInv /\ [Next]_vars => Typed' /\ FanInv'
  BY TypedNext, FanNext
<1>3. FanInv => FanoutComplete
  BY DEF FanInv, Covered, InLoop, Got, FanoutComplete, At
<1> QED
  BY <1>1, <1>2, <1>3, PTL DEF Spec

-----------------------------------------------------------------------------
(***************************************************************************)
(* The answers: a proof that they come in the order of the frames, one for *)
(* each frame, and that nothing but messages follows an ERROR.             *)
(*                                                                         *)
(* The argument: until a handler reaches its answer no answer is for the   *)
(* frame it processes, and a connection that has got an ERROR is on its way*)
(* through the logout to closeConnection, which makes send drop the rest.  *)
(***************************************************************************)

\* Steps before the answer to the frame, and those of the logout.
LoggingOut == {"logout", "sweep", "logOff", "close"}
Unanswered == Inside \ (LoggingOut \cup {"receipt", "throw", "clear"})

\* The answers so far are for frames so far, and for earlier ones until the
\* handler reaches its answer; at the receipt only CONNECTED may have come.
ForThePast(c) == \A k \in Answers(c) : out[c][k].of <= n[c]
NoneYet(c) ==
  /\ pc[c] = "new" => Answers(c) = {}
  /\ pc[c] \in Unanswered => \A k \in Answers(c) : out[c][k].of < n[c]
  /\ pc[c] = "receipt" =>
       \A k \in Answers(c) : out[c][k].of = n[c] => out[c][k].type = "CONNECTED"

\* A DISCONNECT gets one answer: its receipt, or an ERROR if it asks for none.
OneForDisconnect(c) == pc[c] \in Unanswered /\ frame[c].cmd = "DISCONNECT" =>
  pc[c] = "error" /\ ~frame[c].receipt

HasError(c) == \E k \in Answers(c) : out[c][k].type = "ERROR"
ErrorCloses(c) ==
  HasError(c) => c \notin clients \/ (pc[c] \in LoggingOut /\ Failing(c))

AnswersAt(c) ==
  ForThePast(c) /\ NoneYet(c) /\ OneForDisconnect(c) /\ ErrorCloses(c)

AnswersInv == AnswersInOrder /\ \A c \in Conn : AnswersAt(c)

-----------------------------------------------------------------------------
(* Steps that answer nothing *)

NoAnswer == \A d \in Conn :
  /\ Answers(d)' = Answers(d)
  /\ \A k \in Answers(d) : out'[d][k] = out[d][k]

LEMMA SameOutNoAnswer == out' = out => NoAnswer
  BY DEF NoAnswer, Answers, Messages

LEMMA AnswerType ==
  ASSUME RegistryTypeOK, NEW c \in Conn, NEW k \in Answers(c)
  PROVE  out[c][k] \in Answer /\ out[c][k].of \in Nat
<1>1. out[c][k] \in Answer \cup Message /\ out[c][k].type # "MESSAGE"
  BY DEF RegistryTypeOK, Answers, Messages
<1>2. out[c][k] \in Answer
  BY <1>1 DEF Message
<1> QED
  BY <1>2 DEF Answer

\* A process's own step takes no other connection into the map.
OthersStay(c) == \A d \in Conn \ {c} : d \in clients' => d \in clients

LEMMA NoAnswerStep ==
  ASSUME AnswersInv, NEW c \in Conn, OnlyLocal(c), OthersStay(c), NoAnswer,
         AnswersAt(c)'
  PROVE  AnswersInv'
<1>1. AnswersInOrder'
  BY DEF AnswersInv, AnswersInOrder, NoAnswer
<1>2. ASSUME NEW d \in Conn, d # c PROVE AnswersAt(d)'
  <2>1. AnswersAt(d) /\ (d \in clients' => d \in clients)
    BY <1>2 DEF AnswersInv, OthersStay
  <2>2. UNCHANGED <<pc[d], n[d], frame[d], Answers(d)>>
    BY <1>2 DEF NoAnswer, OnlyLocal
  <2>3. ForThePast(d)' /\ NoneYet(d)'
    BY <2>1, <2>2 DEF AnswersAt, ForThePast, NoneYet, NoAnswer
  <2>4. OneForDisconnect(d)' /\ ErrorCloses(d)'
    BY <2>1, <2>2 DEF AnswersAt, OneForDisconnect, ErrorCloses, HasError, NoAnswer,
       Failing
  <2> QED
    BY <2>3, <2>4 DEF AnswersAt
<1> QED
  BY <1>1, <1>2 DEF AnswersInv

(***************************************************************************)
(* The moves of a process that answers nothing: it is accepted, receives a *)
(* frame, goes on before its answer, logs out, or is done.                 *)
(***************************************************************************)
Stays(c) == c \in clients' => c \in clients

Receives(c) ==
  /\ pc[c] = "idle" /\ n'[c] = n[c] + 1 /\ Stays(c)
  /\ pc'[c] \in Unanswered \cup {"receipt", "throw"}
  /\ frame'[c].cmd = "DISCONNECT" =>
       pc'[c] = "receipt" \/ (pc'[c] = "error" /\ ~frame'[c].receipt)

GoesOn(c) ==
  /\ pc[c] \in Unanswered \ {"error"} /\ n'[c] = n[c] /\ Stays(c)
  /\ pc'[c] \in Unanswered \cup {"receipt", "throw"} /\ frame'[c] = frame[c]

LogsOut(c) ==
  /\ pc[c] # "new" /\ n'[c] = n[c] /\ Stays(c) /\ pc'[c] \in LoggingOut
  /\ pc[c] \in LoggingOut => frame'[c] = frame[c]

IsDone(c) ==
  /\ n'[c] = n[c] /\ pc'[c] \in {"idle", "dead", "throw"}
  /\ pc[c] # "new" =>
       (c \in clients' => c \in clients /\ ~(pc[c] \in LoggingOut /\ Failing(c)))

Move(c) == Receives(c) \/ GoesOn(c) \/ LogsOut(c) \/ IsDone(c)

LEMMA MoveStep ==
  ASSUME AnswersInv, TypeOK, NEW c \in Conn, Move(c), NoAnswer, OnlyLocal(c),
         OthersStay(c)
  PROVE  AnswersInv'
<1>0. AnswersAt(c) /\ n[c] \in Nat
  BY DEF AnswersInv, TypeOK, LocalTypeOK
<1>1. \A k \in Answers(c) : out[c][k].of \in Nat /\ out[c][k].of <= n[c]
  BY <1>0, AnswerType DEF AnswersAt, ForThePast, TypeOK
<1>2. /\ Answers(c)' = Answers(c) /\ \A k \in Answers(c) : out'[c][k] = out[c][k]
      /\ HasError(c)' <=> HasError(c)
  BY DEF NoAnswer, HasError
<1>3. n'[c] \in {n[c], n[c] + 1}
  BY DEF Move, Receives, GoesOn, LogsOut, IsDone
<1>4. ForThePast(c)'
  BY <1>0, <1>1, <1>2, <1>3 DEF ForThePast
<1>5. ErrorCloses(c)'
  <2> SUFFICES ASSUME HasError(c), c \in clients'
               PROVE  pc'[c] \in LoggingOut /\ Failing(c)'
    BY <1>2 DEF ErrorCloses
  <2>1. pc[c] # "new"
    BY <1>0 DEF AnswersAt, NoneYet, HasError
  <2>2. c \in clients
    BY <2>1 DEF Move, Receives, GoesOn, LogsOut, IsDone, Stays
  <2>3. pc[c] \in LoggingOut /\ Failing(c)
    BY <1>0, <2>2 DEF AnswersAt, ErrorCloses
  <2>4. LogsOut(c)
    BY <2>1, <2>3 DEF Move, Receives, GoesOn, IsDone, LoggingOut, Unanswered
  <2> QED
    BY <2>3, <2>4 DEF LogsOut, Failing
<1>6. OneForDisconnect(c)'
  <2>1. CASE Receives(c)
    BY <2>1 DEF Receives, OneForDisconnect, Unanswered
  <2>2. CASE GoesOn(c)
    BY <1>0, <2>2 DEF GoesOn, AnswersAt, OneForDisconnect
  <2>3. CASE LogsOut(c) \/ IsDone(c)
    BY <2>3 DEF LogsOut, IsDone, OneForDisconnect, Unanswered, LoggingOut, Inside
  <2> QED
    BY <2>1, <2>2, <2>3 DEF Move
<1>7. NoneYet(c)'
  <2>0. pc'[c] # "new"
    BY DEF Move, Receives, GoesOn, LogsOut, IsDone, Unanswered, Inside, LoggingOut
  <2>1. CASE Receives(c) \/ GoesOn(c)
    <3>1. \A k \in Answers(c) : out[c][k].of < n'[c] /\ out[c][k].of # n'[c]
      BY <1>0, <1>1, <2>1 DEF Receives, GoesOn, AnswersAt, NoneYet
    <3> QED
      BY <1>2, <2>0, <3>1 DEF NoneYet
  <2>2. CASE LogsOut(c) \/ IsDone(c)
    <3>1. pc'[c] \notin Unanswered \cup {"receipt"}
      BY <2>2 DEF LogsOut, IsDone, Unanswered, LoggingOut, Inside
    <3> QED
      BY <2>0, <3>1 DEF NoneYet
  <2> QED
    BY <2>1, <2>2 DEF Move
<1> QED
  BY <1>4, <1>5, <1>6, <1>7, NoAnswerStep DEF AnswersAt

-----------------------------------------------------------------------------
(* Steps that send a frame *)

LEMMA MessageNoAnswer ==
  ASSUME RegistryTypeOK, NEW d \in Conn, NEW m \in Message, Send(d, m)
  PROVE  NoAnswer /\ clients' = clients
<1>1. CASE d \notin clients
  BY <1>1, SameOutNoAnswer DEF Send
<1>2. CASE d \in clients
  <2>1. /\ out' = [out EXCEPT ![d] = Append(@, m)]
        /\ out[d] \in Seq(Answer \cup Message) /\ m.type = "MESSAGE"
    BY <1>2 DEF Send, RegistryTypeOK, Message
  <2>2. /\ DOMAIN out[d] = 1..Len(out[d]) /\ Len(out[d]) \in Nat
        /\ DOMAIN out'[d] = 1..(Len(out[d]) + 1)
        /\ out'[d][Len(out[d]) + 1] = m
        /\ \A k \in 1..Len(out[d]) : out'[d][k] = out[d][k]
    BY <2>1, AppendProperties DEF RegistryTypeOK
  <2>3. Answers(d)' = Answers(d) /\ \A k \in Answers(d) : out'[d][k] = out[d][k]
    BY <2>1, <2>2 DEF Answers, Messages
  <2>4. \A e \in Conn \ {d} : out'[e] = out[e]
    BY <2>1 DEF RegistryTypeOK
  <2>5. \A e \in Conn \ {d} : Answers(e)' = Answers(e)
    BY <2>4 DEF Answers, Messages
  <2> QED
    BY <2>3, <2>4, <2>5 DEF NoAnswer, Send
<1> QED
  BY <1>1, <1>2 DEF Send

\* An answer comes after all others of the connection.
LEMMA AnswerAdded ==
  ASSUME RegistryTypeOK, NEW c \in Conn, NEW f \in Answer, Send(c, f), c \in clients
  PROVE  \E last \in Nat :
           /\ Answers(c)' = Answers(c) \cup {last} /\ out'[c][last] = f
           /\ \A k \in Answers(c) : /\ k \in Nat /\ k < last
                                    /\ out'[c][k] = out[c][k]
           /\ \A d \in Conn \ {c} : /\ Answers(d)' = Answers(d)
                                    /\ out'[d] = out[d]
<1> DEFINE last == Len(out[c]) + 1
<1>1. /\ out' = [out EXCEPT ![c] = Append(@, f)]
      /\ out[c] \in Seq(Answer \cup Message) /\ f.type # "MESSAGE"
  BY DEF Send, RegistryTypeOK, Answer
<1>2. /\ DOMAIN out[c] = 1..Len(out[c]) /\ Len(out[c]) \in Nat
      /\ DOMAIN out'[c] = 1..last /\ out'[c][last] = f
      /\ \A k \in 1..Len(out[c]) : out'[c][k] = out[c][k]
  BY <1>1, AppendProperties DEF RegistryTypeOK
<1>3. Answers(c)' = Answers(c) \cup {last}
  BY <1>1, <1>2 DEF Answers, Messages
<1>4. \A k \in Answers(c) : k \in Nat /\ k < last /\ out'[c][k] = out[c][k]
  BY <1>2 DEF Answers
<1>5. \A d \in Conn \ {c} : out'[d] = out[d]
  BY <1>1 DEF RegistryTypeOK
<1>6. \A d \in Conn \ {c} : Answers(d)' = Answers(d)
  BY <1>5 DEF Answers, Messages
<1>7. last \in Nat
  BY <1>2
<1> HIDE DEF last
<1> QED
  BY <1>2, <1>3, <1>4, <1>5, <1>6, <1>7

LEMMA AnswerStep ==
  ASSUME AnswersInv, TypeOK, NEW c \in Conn, NEW f \in Answer, Send(c, f),
         OnlyLocal(c), c \in clients, ~HasError(c), f.of = n[c], n'[c] = n[c],
         \A k \in Answers(c) : \/ out[c][k].of < n[c]
                               \/ out[c][k].type = "CONNECTED" /\ f.type = "RECEIPT",
         pc'[c] \notin Unanswered \cup {"new"},
         pc'[c] = "receipt" => f.type = "CONNECTED",
         f.type = "ERROR" => pc'[c] \in LoggingOut /\ Failing(c)'
  PROVE  AnswersInv'
<1>0. /\ AnswersAt(c) /\ AnswersInOrder /\ n[c] \in Nat /\ RegistryTypeOK
      /\ clients' = clients
  BY DEF AnswersInv, TypeOK, LocalTypeOK, Send
<1>1. \A k \in Answers(c) : out[c][k].of \in Nat /\ out[c][k].of <= n[c]
  BY <1>0, AnswerType DEF AnswersAt, ForThePast
<1>2. PICK last \in Nat :
        /\ Answers(c)' = Answers(c) \cup {last} /\ out'[c][last] = f
        /\ \A k \in Answers(c) : /\ k \in Nat /\ k < last
                                 /\ out'[c][k] = out[c][k]
        /\ \A d \in Conn \ {c} : Answers(d)' = Answers(d) /\ out'[d] = out[d]
  BY <1>0, AnswerAdded
<1>3. AnswersInOrder'
  <2> SUFFICES ASSUME NEW d \in Conn, NEW j \in Answers(d)', NEW k \in Answers(d)',
                      j < k
               PROVE  /\ out'[d][j].type # "ERROR"
                      /\ \/ out'[d][j].of < out'[d][k].of
                         \/ /\ out'[d][j].of = out'[d][k].of
                            /\ out'[d][j].type = "CONNECTED"
                            /\ out'[d][k].type = "RECEIPT"
    BY DEF AnswersInOrder
  <2>1. CASE d # c
    BY <1>0, <1>2, <2>1 DEF AnswersInOrder
  <2>2. CASE d = c /\ j \in Answers(c) /\ k \in Answers(c)
    BY <1>0, <1>2, <2>2 DEF AnswersInOrder
  <2>3. CASE d = c /\ j \in Answers(c) /\ k = last
    <3>1. out'[c][j] = out[c][j] /\ out'[c][k] = f /\ out[c][j].type # "ERROR"
      BY <1>2, <2>3 DEF HasError
    <3> QED
      BY <1>0, <1>1, <2>3, <3>1
  <2>4. CASE d = c /\ j = last
    BY <1>2, <2>4
  <2> QED
    BY <1>2, <2>1, <2>2, <2>3, <2>4
<1>4. ASSUME NEW d \in Conn, d # c PROVE AnswersAt(d)'
  <2>1. AnswersAt(d)
    BY DEF AnswersInv
  <2>2. UNCHANGED <<pc[d], n[d], frame[d], Answers(d), out[d], clients>>
    BY <1>0, <1>2, <1>4 DEF OnlyLocal
  <2>3. ForThePast(d)' /\ NoneYet(d)'
    BY <2>1, <2>2 DEF AnswersAt, ForThePast, NoneYet
  <2>4. OneForDisconnect(d)' /\ ErrorCloses(d)'
    BY <2>1, <2>2 DEF AnswersAt, OneForDisconnect, ErrorCloses, HasError, Failing
  <2> QED
    BY <2>3, <2>4 DEF AnswersAt
<1>5. ForThePast(c)'
  BY <1>0, <1>1, <1>2 DEF ForThePast
<1>6. NoneYet(c)'
  <2>1. CASE pc'[c] # "receipt"
    BY <2>1 DEF NoneYet
  <2>2. CASE pc'[c] = "receipt"
    <3>1. \A k \in Answers(c) : out[c][k].of # n[c]
      BY <1>0, <1>1, <2>2
    <3> QED
      BY <1>2, <2>2, <3>1 DEF NoneYet
  <2> QED
    BY <2>1, <2>2
<1>7. OneForDisconnect(c)'
  BY DEF OneForDisconnect
<1>8. ErrorCloses(c)'
  BY <1>2 DEF ErrorCloses, HasError
<1> QED
  BY <1>3, <1>4, <1>5, <1>6, <1>7, <1>8 DEF AnswersInv, AnswersAt

-----------------------------------------------------------------------------
(* The steps of a process *)

Plain(c) == Move(c) /\ NoAnswer /\ OnlyLocal(c) /\ OthersStay(c)

LEMMA PlainStep ==
  ASSUME AnswersInv, TypeOK, NEW c \in Conn, Plain(c)
  PROVE  AnswersInv'
  BY MoveStep DEF Plain

\* A move that sends nothing.
LEMMA PlainSame ==
  ASSUME NEW c \in Conn, Move(c), OnlyLocal(c), UNCHANGED <<out, clients>>
  PROVE  Plain(c)
  BY SameOutNoAnswer DEF Plain, OthersStay

LEMMA PlainReceive ==
  ASSUME TypeOK, NEW c \in Conn, NEW f \in Sends[c],
         NEW l \in Unanswered \cup {"receipt", "throw"}, Receive(c, f, l),
         f.cmd = "DISCONNECT" => l = "receipt" \/ (l = "error" /\ ~f.receipt)
  PROVE  Plain(c)
<1>1. l \in Outside \cup Inside
  BY DEF Unanswered, Inside
<1>2. /\ OnlyLocal(c) /\ pc'[c] = l /\ frame'[c] = f /\ UNCHANGED registry
      /\ n'[c] = n[c] + 1 /\ pc[c] = "idle"
  BY <1>1, ReceiveType DEF TypeOK, LocalTypeOK, Receive, At
<1>3. Move(c)
  BY <1>2 DEF Move, Receives, Stays, registry, wireVars
<1> QED
  BY <1>2, <1>3, PlainSame DEF registry, wireVars

LEMMA ClientPlain ==
  ASSUME TypeOK, NEW c \in Conn, Client(c)
  PROVE  Plain(c)
<1>0. OnlyLocal(c)
  BY ClientCalm DEF Calm
<1> USE DEF Unanswered, Inside, LoggingOut
<1>1. CASE Accept(c)
  <2>1. pc[c] = "new" /\ pc'[c] = "idle" /\ n' = n
    BY <1>1 DEF Accept, At, Goto, local, TypeOK, LocalTypeOK
  <2>2. out' = out /\ clients' = clients \cup {c}
    BY <1>1 DEF Accept, addConnection
  <2> QED
    BY <1>0, <2>1, <2>2, SameOutNoAnswer DEF Plain, Move, IsDone, OthersStay
<1>2. CASE EndOfStream(c)
  <2>1. /\ pc[c] = "idle" /\ pc'[c] = "dead" /\ n' = n
        /\ UNCHANGED <<out, clients>>
    BY <1>2 DEF EndOfStream, At, Leave, TypeOK, LocalTypeOK, registry, wireVars
  <2> QED
    BY <1>0, <2>1, PlainSame DEF Move, IsDone
<1>3. CASE handleConnect(c)
  BY <1>3, PlainReceive DEF handleConnect, Incoming
<1>4. CASE handleSubscribe(c)
  BY <1>4, PlainReceive DEF handleSubscribe, Incoming
<1>5. CASE handleUnsubscribe(c)
  BY <1>5, PlainReceive DEF handleUnsubscribe, Incoming
<1>6. CASE handleSend(c)
  BY <1>6, PlainReceive DEF handleSend, Incoming
<1>7. CASE handleDisconnect(c)
  BY <1>7, PlainReceive DEF handleDisconnect, Incoming
<1>8. CASE handleOther(c)
  BY <1>8, PlainReceive DEF handleOther, Incoming
<1> QED
  BY <1>1, <1>2, <1>3, <1>4, <1>5, <1>6, <1>7, <1>8 DEF Client

\* A step between two accesses of a handler, before its answer.
LEMMA PlainOn ==
  ASSUME TypeOK, NEW c \in Conn, pc[c] \in Unanswered \ {"error"},
         NEW l \in Unanswered \cup {"receipt", "throw"},
         pc' = [pc EXCEPT ![c] = l], UNCHANGED <<n, frame, clients>>,
         NoAnswer, OnlyLocal(c)
  PROVE  Plain(c)
<1>1. pc'[c] = l
  BY DEF TypeOK, LocalTypeOK
<1> QED
  BY <1>1 DEF Plain, Move, GoesOn, Stays, OthersStay

LEMMA ConnectPlain ==
  ASSUME TypeOK, NEW c \in Conn,
         \/ CheckLegalInfo(c) \/ CheckLoggedIn(c) \/ Login(c) \/ PutUser(c)
         \/ ReuseUser(c) \/ LinkUser(c)
  PROVE  Plain(c)
<1>0. OnlyLocal(c)
  BY ConnectCalm DEF Calm
<1>1. NoAnswer /\ UNCHANGED <<n, frame, clients>>
  <2>1. UNCHANGED <<out, n, frame, clients>>
    BY DEF CheckLegalInfo, CheckLoggedIn, Login, PutUser, ReuseUser, LinkUser,
       Check, Goto, LoginAs, PutNewUser, SetLoggedIn, SetUser, local, registry,
       wireVars
  <2> QED
    BY <2>1, SameOutNoAnswer
<1>2. /\ pc[c] \in Unanswered \ {"error"}
      /\ \E l \in Unanswered \cup {"receipt", "throw"} : pc' = [pc EXCEPT ![c] = l]
  BY DEF CheckLegalInfo, CheckLoggedIn, Login, PutUser, ReuseUser, LinkUser,
     Check, Goto, LoginAs, At, Unanswered, LoggingOut, Inside
<1> QED
  BY <1>0, <1>1, <1>2, PlainOn

LEMMA SubscribePlain ==
  ASSUME Typed, NEW c \in Conn,
         \/ checkUniqueId(c) \/ AddToChannel(c) \/ PutId(c)
         \/ checkIdExists(c) \/ RemoveId(c) \/ RemoveFromChannel(c)
  PROVE  Plain(c)
<1>0. OnlyLocal(c) /\ TypeOK
  BY SubscribeCalm DEF Calm, Typed
<1>1. NoAnswer /\ UNCHANGED <<n, frame, clients>>
  <2>1. UNCHANGED <<out, n, frame, clients>>
    BY DEF checkUniqueId, AddToChannel, PutId, checkIdExists, RemoveId,
       RemoveFromChannel, LeaveChannel, NoUser, Check, Goto, AddSubscriber,
       RemoveSubscriber, SetSubscribers, MapId, local, registry, wireVars
  <2> QED
    BY <2>1, SameOutNoAnswer
<1>2. /\ pc[c] \in Unanswered \ {"error"}
      /\ \E l \in Unanswered \cup {"receipt", "throw"} : pc' = [pc EXCEPT ![c] = l]
  BY DEF checkUniqueId, AddToChannel, PutId, checkIdExists, RemoveId,
     RemoveFromChannel, NoUser, Check, Goto, At, Unanswered, LoggingOut, Inside
<1> QED
  BY <1>0, <1>1, <1>2, PlainOn

LEMMA SendPlain ==
  ASSUME Typed, NEW c \in Conn,
         \/ checkDestination(c) \/ Iterate(c) \/ NextFails(c) \/ NextSubscriber(c)
         \/ EndOfLoop(c) \/ GetSubId(c) \/ Deliver(c)
  PROVE  Plain(c)
<1>0. TypeOK /\ RegistryTypeOK /\ LocalTypeOK
  BY DEF Typed, TypeOK
<1>1. UNCHANGED <<n, frame, user, todo>>
  BY DEF checkDestination, Iterate, NextFails, NextSubscriber, EndOfLoop, GetSubId,
     Deliver, NoUser, Check, Goto, local
<1>2. /\ pc[c] \in Unanswered \ {"error"}
      /\ \E l \in Unanswered \cup {"receipt", "throw"} : pc' = [pc EXCEPT ![c] = l]
  BY DEF checkDestination, Iterate, NextFails, NextSubscriber, EndOfLoop, GetSubId,
     Deliver, NoUser, Check, Goto, At, Unanswered, LoggingOut, Inside
<1>3. \A d \in Conn \ {c} : msg'[d] = msg[d]
  BY <1>0 DEF checkDestination, Iterate, NextFails, NextSubscriber, EndOfLoop,
     GetSubId, Deliver, NoUser, Check, Goto, local, LocalTypeOK
<1>4. OnlyLocal(c)
  BY <1>0, <1>1, <1>2, <1>3 DEF OnlyLocal, LocalTypeOK
<1>5. NoAnswer /\ clients' = clients
  <2>1. CASE Deliver(c)
    <3>1. PICK d \in Conn : d = msg[c].to
      BY <2>1 DEF Typed, Operands, OperandsAt, Deliver, At
    <3>2. [type |-> "MESSAGE", from |-> c, of |-> n[c], id |-> msg[c].id,
           sub |-> msg[c].sub] \in Message
      BY <1>0 DEF LocalTypeOK, Message
    <3> QED
      BY <1>0, <2>1, <3>1, <3>2, MessageNoAnswer DEF Deliver
  <2>2. CASE ~Deliver(c)
    <3>1. UNCHANGED <<out, clients>>
      BY <2>2 DEF checkDestination, Iterate, NextFails, NextSubscriber, EndOfLoop,
         GetSubId, NoUser, Check, OpenIterator, Advance, DropIterator,
         getAndIncMessageCounter, registry, wireVars
    <3> QED
      BY <3>1, SameOutNoAnswer
  <2> QED
    BY <2>1, <2>2
<1> QED
  BY <1>0, <1>1, <1>2, <1>4, <1>5, PlainOn

LEMMA AfterLogoutMoves ==
  ASSUME TypeOK, NEW c \in Conn, pc[c] \in LoggingOut, AfterLogout(c),
         clients' = clients
  PROVE  Move(c)
<1>1. CASE Failing(c)
  <2>1. pc'[c] = "close" /\ UNCHANGED <<n, frame>> /\ pc[c] # "new"
    BY <1>1 DEF AfterLogout, Goto, local, TypeOK, LocalTypeOK, LoggingOut
  <2> QED
    BY <2>1 DEF Move, LogsOut, Stays, LoggingOut
<1>2. CASE ~Failing(c)
  <2>1. pc'[c] = "idle" /\ n' = n
    BY <1>2 DEF AfterLogout, Leave, TypeOK, LocalTypeOK
  <2> QED
    BY <1>2, <2>1 DEF Move, IsDone
<1> QED
  BY <1>1, <1>2

LEMMA EndPlain ==
  ASSUME Typed, NEW c \in Conn,
         \/ Logout(c) \/ Sweep(c) \/ ClearAll(c) \/ LogOff(c)
         \/ CloseConnection(c) \/ Unwind(c)
  PROVE  Plain(c)
<1>0. OnlyLocal(c) /\ TypeOK /\ LocalTypeOK
  BY EndCalm DEF Calm, Typed, TypeOK
<1>1. CASE Logout(c)
  <2>1. pc[c] = "logout" /\ UNCHANGED <<out, clients>>
    BY <1>1 DEF Logout, At, registry, wireVars
  <2>2. CASE AfterLogout(c)
    BY <1>0, <2>1, <2>2, AfterLogoutMoves, PlainSame DEF LoggingOut
  <2>3. CASE pc' = [pc EXCEPT ![c] = "sweep"] /\ UNCHANGED <<frame, n>>
    <3>1. pc'[c] = "sweep"
      BY <1>0, <2>3 DEF LocalTypeOK
    <3> QED
      BY <1>0, <2>1, <2>3, <3>1, PlainSame DEF Move, LogsOut, Stays, LoggingOut
  <2> QED
    BY <1>1, <2>2, <2>3 DEF Logout
<1>2. CASE Sweep(c) \/ ClearAll(c)
  <2>1. UNCHANGED <<out, clients, frame, n>>
    BY <1>2 DEF Sweep, ClearAll, LeaveChannel, RemoveSubscriber, SetSubscribers,
       ClearChannels, Goto, local, wireVars
  <2>2. pc[c] = "sweep" /\ pc'[c] \in {"sweep", "logOff"}
    BY <1>0, <1>2 DEF Sweep, ClearAll, At, Goto, LocalTypeOK
  <2> QED
    BY <1>0, <2>1, <2>2, PlainSame DEF Move, LogsOut, Stays, LoggingOut
<1>3. CASE LogOff(c)
  <2>1. UNCHANGED <<out, clients>> /\ pc[c] = "logOff" /\ AfterLogout(c)
    BY <1>3 DEF LogOff, At, SetLoggedIn, wireVars
  <2> QED
    BY <1>0, <2>1, AfterLogoutMoves, PlainSame DEF LoggingOut
<1>4. CASE CloseConnection(c)
  <2>1. /\ out' = out /\ clients' = clients \ {c} /\ n' = n
        /\ pc'[c] \in {"idle", "dead"}
    BY <1>0, <1>4 DEF CloseConnection, closeConnection, Leave, LocalTypeOK
  <2> QED
    BY <1>0, <2>1, SameOutNoAnswer DEF Plain, Move, IsDone, OthersStay
<1>5. CASE Unwind(c)
  <2>1. /\ UNCHANGED <<out, clients, n>> /\ pc[c] = "throw"
        /\ pc'[c] \in {"idle", "dead"}
    BY <1>0, <1>5 DEF Unwind, At, Leave, DropIterator, wireVars, LocalTypeOK
  <2> QED
    BY <1>0, <2>1, PlainSame DEF Move, IsDone, LoggingOut
<1> QED
  BY <1>1, <1>2, <1>3, <1>4, <1>5

\* A connection that is still open and not logging out has got no ERROR.
LEMMA NoErrorYet ==
  ASSUME AnswersInv, NEW c \in Conn, c \in clients, pc[c] \notin LoggingOut
  PROVE  ~HasError(c)
  BY DEF AnswersInv, AnswersAt, ErrorCloses

LEMMA ConnectedAnswers ==
  ASSUME AnswersInv, Typed, NEW c \in Conn, Connected(c)
  PROVE  AnswersInv'
<1> DEFINE f == [type |-> "CONNECTED", of |-> n[c]]
<1>0. TypeOK /\ LocalTypeOK /\ OnlyLocal(c)
  BY ConnectCalm DEF Calm, Typed, TypeOK
<1>1. /\ pc[c] = "connected" /\ pc'[c] = "receipt" /\ Send(c, f)
      /\ pc' = [pc EXCEPT ![c] = "receipt"] /\ UNCHANGED <<n, frame, clients>>
  BY <1>0 DEF Connected, At, Goto, local, Send, LocalTypeOK
<1>2. f \in Answer /\ f.of = n[c] /\ f.type = "CONNECTED"
  BY <1>0 DEF Answer, LocalTypeOK
<1>3. pc[c] \in Unanswered \ {"error"} /\ "receipt" \notin Unanswered
  BY <1>1 DEF Unanswered, Inside, LoggingOut
<1> HIDE DEF f
<1>4. CASE c \notin clients
  <2>1. NoAnswer
    BY <1>1, <1>4, SameOutNoAnswer DEF Send
  <2> QED
    BY <1>0, <1>1, <1>3, <2>1, PlainOn, PlainStep
<1>5. CASE c \in clients
  <2>1. ~HasError(c)
    BY <1>1, <1>5, NoErrorYet DEF LoggingOut
  <2>2. \A k \in Answers(c) : out[c][k].of < n[c]
    BY <1>3 DEF AnswersInv, AnswersAt, NoneYet
  <2> QED
    BY <1>0, <1>1, <1>2, <1>3, <1>5, <2>1, <2>2, AnswerStep
<1> QED
  BY <1>4, <1>5

LEMMA ErrorAnswers ==
  ASSUME AnswersInv, Typed, NEW c \in Conn, SendError(c)
  PROVE  AnswersInv'
<1> DEFINE f == [type |-> "ERROR", of |-> n[c]]
<1>0. TypeOK /\ LocalTypeOK /\ OnlyLocal(c)
  BY EndCalm DEF Calm, Typed, TypeOK
<1>1. /\ pc[c] = "error" /\ pc'[c] = "logout" /\ Send(c, f)
      /\ UNCHANGED <<n, frame, clients>>
  BY <1>0 DEF SendError, At, Goto, local, Send, LocalTypeOK
<1>2. f \in Answer /\ f.of = n[c] /\ f.type = "ERROR"
  BY <1>0 DEF Answer, LocalTypeOK
<1>3. pc[c] \in Unanswered /\ "logout" \notin Unanswered
  BY <1>1 DEF Unanswered, Inside, LoggingOut
<1> HIDE DEF f
<1>4. CASE c \notin clients
  <2>1. out' = out
    BY <1>1, <1>4 DEF Send
  <2>2. Move(c)
    BY <1>1 DEF Move, LogsOut, Stays, LoggingOut
  <2> QED
    BY <1>0, <1>1, <2>1, <2>2, PlainSame, PlainStep
<1>5. CASE c \in clients
  <2>1. ~HasError(c)
    BY <1>1, <1>5, NoErrorYet DEF LoggingOut
  <2>2. \A k \in Answers(c) : out[c][k].of < n[c]
    BY <1>3 DEF AnswersInv, AnswersAt, NoneYet
  <2>3. pc'[c] \in LoggingOut /\ Failing(c)'
    BY <1>1, <1>3 DEF AnswersInv, AnswersAt, OneForDisconnect, Failing, LoggingOut
  <2> QED
    BY <1>0, <1>1, <1>2, <1>3, <1>5, <2>1, <2>2, <2>3, AnswerStep
<1> QED
  BY <1>4, <1>5

LEMMA ReceiptAnswers ==
  ASSUME AnswersInv, Typed, NEW c \in Conn, handleReceipt(c)
  PROVE  AnswersInv'
<1> DEFINE f == [type |-> "RECEIPT", of |-> n[c]]
<1>0. TypeOK /\ LocalTypeOK /\ OnlyLocal(c)
  BY EndCalm DEF Calm, Typed, TypeOK
<1>1. /\ pc[c] = "receipt" /\ pc'[c] \in {"logout", "idle"} /\ n' = n
      /\ Send(c, f) \/ UNCHANGED registry
  BY <1>0 DEF handleReceipt, At, Goto, Leave, local, LocalTypeOK
<1>2. f \in Answer /\ f.of = n[c] /\ f.type = "RECEIPT"
  BY <1>0 DEF Answer, LocalTypeOK
<1>3. pc'[c] \notin Unanswered \cup {"new", "receipt"}
  BY <1>1 DEF Unanswered, Inside, LoggingOut
<1> HIDE DEF f
<1>4. CASE UNCHANGED <<out, clients>>
  <2>1. Move(c)
    BY <1>1, <1>4 DEF Move, LogsOut, IsDone, Stays, LoggingOut
  <2> QED
    BY <1>0, <1>4, <2>1, PlainSame, PlainStep
<1>5. CASE Send(c, f) /\ c \in clients
  <2>1. ~HasError(c)
    BY <1>1, <1>5, NoErrorYet DEF LoggingOut
  <2>2. \A k \in Answers(c) : out[c][k].of \in Nat /\ out[c][k].of <= n[c]
    BY <1>0, AnswerType DEF AnswersInv, AnswersAt, ForThePast, TypeOK
  <2>3. \A k \in Answers(c) : out[c][k].of < n[c] \/ out[c][k].type = "CONNECTED"
    <3>1. n[c] \in Nat
      BY <1>0 DEF LocalTypeOK
    <3>2. \A k \in Answers(c) : out[c][k].of = n[c] => out[c][k].type = "CONNECTED"
      BY <1>1 DEF AnswersInv, AnswersAt, NoneYet
    <3> QED
      BY <2>2, <3>1, <3>2
  <2> QED
    BY <1>0, <1>1, <1>2, <1>3, <1>5, <2>1, <2>3, AnswerStep
<1> QED
  BY <1>1, <1>4, <1>5 DEF Send, registry, wireVars

-----------------------------------------------------------------------------
LEMMA AnswersInit == Init => AnswersInv
<1> SUFFICES ASSUME Init PROVE AnswersInv
  OBVIOUS
<1>1. \A c \in Conn : Answers(c) = {} /\ pc[c] = "new"
  <2>1. \A c \in Conn : out[c] = <<>> /\ pc[c] = "new"
    BY DEF Init, RegistryInit
  <2>2. DOMAIN <<>> = {}
    OBVIOUS
  <2> QED
    BY <2>1, <2>2 DEF Answers
<1> QED
  BY <1>1 DEF AnswersInv, AnswersInOrder, AnswersAt, ForThePast, NoneYet,
     OneForDisconnect, ErrorCloses, HasError, Unanswered, Inside

LEMMA AnswersNext == AnswersInv /\ Typed /\ [Next]_vars => AnswersInv'
<1> SUFFICES ASSUME AnswersInv, Typed, [Next]_vars PROVE AnswersInv'
  OBVIOUS
<1>0. TypeOK
  BY DEF Typed
<1>1. CASE UNCHANGED vars
  <2>1. UNCHANGED <<out, clients, pc, n, frame>>
    BY <1>1 DEF vars, registry, wireVars, local
  <2> QED
    BY <2>1 DEF AnswersInv, AnswersInOrder, AnswersAt, ForThePast, NoneYet,
       OneForDisconnect, ErrorCloses, HasError, Failing, Answers, Messages
<1>2. ASSUME NEW c \in Conn, Client(c) PROVE AnswersInv'
  BY <1>0, <1>2, ClientPlain, PlainStep
<1>3. ASSUME NEW c \in Conn, Process(c) PROVE AnswersInv'
  <2>1. CASE Connected(c) \/ SendError(c) \/ handleReceipt(c)
    BY <2>1, ConnectedAnswers, ErrorAnswers, ReceiptAnswers
  <2>2. CASE ~(Connected(c) \/ SendError(c) \/ handleReceipt(c))
    <3>1. Plain(c)
      BY <1>0, <1>3, <2>2, ConnectPlain, SubscribePlain, SendPlain, EndPlain
      DEF Process
    <3> QED
      BY <1>0, <3>1, PlainStep
  <2> QED
    BY <2>1, <2>2
<1> QED
  BY <1>1, <1>2, <1>3 DEF Next, Quiet

\* The answers to a connection of the thread-per-client server come in the
\* order of its frames, one for each frame, and nothing but messages follows
\* an ERROR, whatever the other connections do, with updates of a HashSet
\* lost, and wherever an exception ends a handler.
THEOREM AnswersOrdered == Spec => []AnswersInOrder
<1>1. Init => Typed /\ AnswersInv
  BY TypedInit, AnswersInit
<1>2. Typed /\ AnswersInv /\ [Next]_vars => Typed' /\ AnswersInv'
  BY TypedNext, AnswersNext
<1>3. AnswersInv => AnswersInOrder
  BY DEF AnswersInv
<1> QED
  BY <1>1, <1>2, <1>3, PTL DEF Spec
=============================================================================
