---------------------------- MODULE HandlerProofs ----------------------------
(***************************************************************************)
(* Theorems about HandlerUsers, for any lines, any number of them and any  *)
(* way the bytes are cut up: type correctness, that sendLine and getLine   *)
(* implement the safety part of FrameChannel, and that the echo client's   *)
(* answers stay in step with its lines.                                    *)
(***************************************************************************)
EXTENDS HandlerUsers, SequenceTheorems, TLAPS

AnyByte == Char \cup {Nul}

\* One step of the handler, the peer or the network.
Step == Handler \/ Network

-----------------------------------------------------------------------------
(* Where the steps of the two programs come from *)

\* Whoever calls it, a step is one of the handler, the network or nothing.
LEMMA UsersStep ==
  ASSUME [UsersNext]_users
  PROVE  Step \/ UNCHANGED vars
BY DEF UsersNext, users, Threads, Start, Type, SendLine, Sending, GetLine, Relay, Ended,
       Step, Handler

-----------------------------------------------------------------------------
(* Facts about sequences, in the form the steps need *)

\* The first n elements of a sequence and the others.
LEMMA TakeDrop ==
  ASSUME NEW S, NEW s \in Seq(S), NEW n \in 0..Len(s)
  PROVE  /\ SubSeq(s, 1, n) \in Seq(S) /\ Len(SubSeq(s, 1, n)) = n
         /\ \A i \in 1..n : SubSeq(s, 1, n)[i] = s[i]
         /\ SubSeq(s, n + 1, Len(s)) \in Seq(S)
         /\ Len(SubSeq(s, n + 1, Len(s))) = Len(s) - n
         /\ \A i \in 1..Len(s) - n : SubSeq(s, n + 1, Len(s))[i] = s[n + i]
<1>1. Len(s) \in Nat /\ n \in Int /\ n + 1 \in Int /\ Len(s) \in Int
  BY LenProperties
<1>2. /\ \A i \in 1..n : s[i] \in S
      /\ \A i \in n + 1..Len(s) : s[i] \in S
  BY <1>1, LenProperties
<1>3. /\ SubSeq(s, 1, n) \in Seq(S)
      /\ Len(SubSeq(s, 1, n)) = IF 1 <= n THEN n - 1 + 1 ELSE 0
      /\ \A i \in 1..n - 1 + 1 : SubSeq(s, 1, n)[i] = s[1 + i - 1]
  BY <1>1, <1>2, SubSeqProperties, 1 \in Int
<1>4. /\ SubSeq(s, n + 1, Len(s)) \in Seq(S)
      /\ Len(SubSeq(s, n + 1, Len(s))) =
           IF n + 1 <= Len(s) THEN Len(s) - (n + 1) + 1 ELSE 0
      /\ \A i \in 1..Len(s) - (n + 1) + 1 :
           SubSeq(s, n + 1, Len(s))[i] = s[n + 1 + i - 1]
  BY <1>1, <1>2, SubSeqProperties
<1>5. Len(SubSeq(s, 1, n)) = n /\ \A i \in 1..n : SubSeq(s, 1, n)[i] = s[i]
  BY <1>1, <1>3
<1>6. /\ Len(SubSeq(s, n + 1, Len(s))) = Len(s) - n
      /\ \A i \in 1..Len(s) - n : SubSeq(s, n + 1, Len(s))[i] = s[n + i]
  BY <1>1, <1>4
<1> QED BY <1>3, <1>4, <1>5, <1>6

-----------------------------------------------------------------------------
(* Type correctness *)

(***************************************************************************)
(* What sendFrameAscii has left to write: it is in the middle of a line of *)
(* Line, and of a text or of its delimiter.                                *)
(***************************************************************************)
Sender ==
  /\ sending # "no" => current \in Line
  /\ sending = "no" => left = <<>>
  /\ sending = "delimiter" => left = <<Nul>>

Typed == TypeOK /\ Sender

LEMMA TypedInit == ASSUME HandlerAssumption, Init PROVE Typed
BY DEF Init, Typed, TypeOK, Sender, HandlerAssumption

LEMMA TypedStutter == ASSUME Typed, UNCHANGED vars PROVE Typed'
BY DEF Typed, TypeOK, Sender, vars, writer

\* Each part of each operation keeps the types.
LEMMA TypedStep ==
  ASSUME HandlerAssumption, Typed, Step
  PROVE  Typed'
<1> USE DEF Typed, TypeOK, Sender, writer
<1>a. Line \subseteq Seq(Char) /\ MaxLines \in Nat BY DEF HandlerAssumption
<1>1. CASE connect BY <1>1 DEF connect
<1>2. ASSUME NEW l \in Line, sendFrameAscii(l) PROVE Typed'
  <2>1. l \in Seq(Char) /\ l \in Seq(Char \cup {Nul}) BY <1>a
  <2> QED BY <1>2, <1>a, <2>1 DEF sendFrameAscii
<1>3. CASE write_some
  <2>1. PICK n \in 1..Len(left) :
          /\ left' = SubSeq(left, n + 1, Len(left))
          /\ out' = IF socket = "connected" THEN out \o SubSeq(left, 1, n) ELSE out
    BY <1>3 DEF write_some
  <2>2. n \in 0..Len(left) BY LenProperties
  <2>3. /\ SubSeq(left, 1, n) \in Seq(Char \cup {Nul})
        /\ left' \in Seq(Char \cup {Nul}) /\ Len(left') = Len(left) - n
    <3>1. left \in Seq(Char \cup {Nul}) OBVIOUS
    <3> QED BY ONLY <2>1, <2>2, <3>1, TakeDrop
  <2>4. out' \in Seq(Char \cup {Nul}) BY <2>1, <2>3, ConcatProperties
  <2>5. sending = "delimiter" => sending' = "no" /\ left' = <<>> /\ sent' \in Seq(Line)
    <3> SUFFICES ASSUME sending = "delimiter"
                 PROVE  sending' = "no" /\ left' = <<>> /\ sent' \in Seq(Line)
      OBVIOUS
    <3>1. Len(left) = 1 OBVIOUS
    <3>2. Len(left') = 0 BY <2>1, <2>3, <3>1
    <3>3. left' = <<>> BY <2>3, <3>2, EmptySeq
    <3>4. sent' = Append(sent, current) /\ current \in Line BY <1>3 DEF write_some
    <3> QED BY <1>3, <3>3, <3>4, AppendProperties DEF write_some
  <2> QED BY <1>3, <2>3, <2>4, <2>5 DEF write_some
<1>4. CASE sendDelimiter
  <2>1. <<Nul>> \in Seq(Char \cup {Nul}) OBVIOUS
  <2> QED BY <1>4, <2>1 DEF sendDelimiter
<1>5. CASE sendFails
  <2>1. <<>> \in Seq(Char \cup {Nul}) OBVIOUS
  <2> QED BY <1>5, <2>1 DEF sendFails
<1>6. CASE getBytes
  <2>1. Head(in) \in Char \cup {Nul} /\ in' \in Seq(Char \cup {Nul})
    BY <1>6, HeadTailProperties DEF getBytes
  <2>2. line' \in Seq(Char) /\ got' \in Seq(Seq(Char))
    <3>1. CASE Head(in) = Nul
      <4>1. line' = <<>> /\ got' = Append(got, line)
        BY <1>6, <3>1 DEF getBytes, Received
      <4>2. got \in Seq(Seq(Char)) /\ line \in Seq(Char) /\ <<>> \in Seq(Char) OBVIOUS
      <4> QED BY <4>1, <4>2, AppendProperties
    <3>2. CASE Head(in) # Nul
      <4>1. Head(in) \in Char BY <2>1, <3>2
      <4>2. line' = Append(line, Head(in)) /\ got' = got
        BY <1>6, <3>2 DEF getBytes, Received
      <4> QED BY <4>1, <4>2, AppendProperties
    <3> QED BY <3>1, <3>2
  <2> QED BY <1>6, <2>1, <2>2 DEF getBytes
<1>7. CASE getFails
  <2>1. <<>> \in Seq(Char) OBVIOUS
  <2> QED BY <1>7, <2>1 DEF getFails
<1>8. CASE Echo
  <2>1. PICK n \in 1..Len(out) : /\ in' = in \o SubSeq(out, 1, n)
                                 /\ out' = SubSeq(out, n + 1, Len(out))
    BY <1>8 DEF Echo
  <2>2. n \in 0..Len(out) BY LenProperties
  <2>3. SubSeq(out, 1, n) \in Seq(Char \cup {Nul}) /\ out' \in Seq(Char \cup {Nul})
    BY <2>1, <2>2, TakeDrop
  <2>4. in' \in Seq(Char \cup {Nul}) BY <2>1, <2>3, ConcatProperties
  <2> QED BY <1>8, <2>3, <2>4 DEF Echo
<1>9. CASE Break
  <2>1. PICK n \in 0..Len(in) : in' = SubSeq(in, 1, n) BY <1>9 DEF Break
  <2>2. in' \in Seq(Char \cup {Nul}) BY <2>1, TakeDrop
  <2>3. out' = <<>> /\ <<>> \in Seq(Char \cup {Nul}) BY <1>9 DEF Break
  <2> QED BY <1>9, <2>2, <2>3 DEF Break
<1> QED BY <1>1, <1>2, <1>3, <1>4, <1>5, <1>6, <1>7, <1>8, <1>9
        DEF Step, Handler, Network, Send

\* The handler's state keeps its types, on the two threads of StompClient and in
\* the loop of the echo client: a line that is read is text without a delimiter.
THEOREM TypeCorrect == UsersSpec => []TypeOK
<1>1. UsersInit => Typed BY HandlerAssumption, TypedInit DEF UsersInit
<1>2. Typed /\ [UsersNext]_users => Typed' BY HandlerAssumption, UsersStep, TypedStep, TypedStutter
<1>3. Typed => TypeOK BY DEF Typed
<1> QED BY <1>1, <1>2, <1>3, PTL DEF UsersSpec

-----------------------------------------------------------------------------
(* The bytes on their way *)

(***************************************************************************)
(* The bytes F are the lines g+1 to m of s, each with its delimiter, the   *)
(* last byte of line k at cut[k], and then text without one.               *)
(***************************************************************************)
Stream(F, g, m, cut, s) ==
  /\ g <= m /\ m <= Len(s)
  /\ cut[g] = 0
  /\ \A k \in g..m : cut[k] <= Len(F)
  /\ \A j, k \in g..m : j <= k => cut[j] <= cut[k]
  /\ \A k \in g + 1..m : /\ cut[k] = cut[k - 1] + Len(s[k]) + 1
                         /\ F[cut[k]] = Nul
                         /\ \A i \in 1..Len(s[k]) : F[cut[k - 1] + i] = s[k][i]
  /\ \A i \in cut[m] + 1..Len(F) : F[i] \in Char

\* F begins with what the reader has of its line, then comes what is on its way.
Carried(F) ==
  /\ Len(line) + Len(in) + Len(out) <= Len(F)
  /\ \A i \in 1..Len(line) : F[i] = line[i]
  /\ \A i \in 1..Len(in)   : F[Len(line) + i] = in[i]
  /\ \A i \in 1..Len(out)  : F[Len(line) + Len(in) + i] = out[i]

\* How much of the line it is at the sender has written.
Written == IF sending = "no" THEN 0
           ELSE IF sending = "text" THEN Len(current) - Len(left) ELSE Len(current)

\* Nothing is lost yet: F is no longer than that, all lines that were sent are
\* in it, and what the sender has written of the next one.
Whole(F, m, cut) ==
  /\ Len(F) = Len(line) + Len(in) + Len(out) /\ m = Len(sent)
  /\ Len(F) = cut[m] + Written
  /\ \A i \in 1..Written : F[cut[m] + i] = current[i]

TextLeft ==
  sending = "text" =>
    /\ Len(left) <= Len(current)
    /\ \A i \in 1..Len(left) : left[i] = current[Len(current) - Len(left) + i]

Flow ==
  \E F \in Seq(AnyByte), m \in Nat, cut \in [Nat -> Nat] :
    /\ Stream(F, Len(got), m, cut, sent) /\ Carried(F)
    /\ socket # "broken" => Whole(F, m, cut)

\* Lines come out as they went in.
GotPrefix == \A k \in 1..Len(got) : got[k] = sent[k]

FlowInv ==
  /\ TextLeft /\ Flow /\ GotPrefix
  /\ socket = "closed" => sending = "no"
  /\ socket = "broken" => out = <<>>

\* Nothing is on its way at first.
LEMMA FlowInit == ASSUME HandlerAssumption, Init PROVE FlowInv
<1> DEFINE cut == [k \in Nat |-> 0]
<1>1. <<>> \in Seq(AnyByte) /\ Len(<<>>) = 0 BY EmptySeq
<1>2. Stream(<<>>, 0, 0, cut, <<>>) BY <1>1 DEF Stream
<1>3. Carried(<<>>) BY <1>1 DEF Carried, Init
<1>4. Whole(<<>>, 0, cut) BY <1>1 DEF Whole, Written, Init
<1>5. Flow
  <2>1. cut \in [Nat -> Nat] OBVIOUS
  <2>2. got = <<>> /\ sent = <<>> BY DEF Init
  <2> QED BY <1>1, <1>2, <1>3, <1>4, <2>1, <2>2 DEF Flow
<1> QED BY <1>1, <1>5 DEF FlowInv, TextLeft, GotPrefix, Init

\* The invariant speaks of these variables alone.
LEMMA FlowStutter == ASSUME FlowInv, UNCHANGED vars PROVE FlowInv'
<1>1. /\ socket' = socket /\ sending' = sending /\ left' = left /\ current' = current
      /\ out' = out /\ in' = in /\ line' = line /\ sent' = sent /\ got' = got
  BY DEF vars, writer
<1>2. TextLeft' /\ GotPrefix' BY <1>1 DEF FlowInv, TextLeft, GotPrefix
<1>3. \A F, m, cut : /\ Stream(F, Len(got), m, cut, sent) => Stream(F, Len(got'), m, cut, sent')
                     /\ Carried(F) => Carried(F)'
                     /\ Whole(F, m, cut) => Whole(F, m, cut)'
  BY <1>1 DEF Stream, Carried, Whole, Written
<1>4. Flow' BY <1>1, <1>3 DEF FlowInv, Flow
<1> QED BY <1>1, <1>2, <1>4 DEF FlowInv

\* Steps of the sender that write nothing.
LEMMA FlowStart ==
  ASSUME HandlerAssumption, Typed, FlowInv, NEW l \in Line, sendFrameAscii(l)
  PROVE  FlowInv'
<1>a. l \in Seq(Char) BY DEF HandlerAssumption
<1>1. /\ socket' = socket /\ sending = "no" /\ sending' = "text" /\ left' = l /\ current' = l
      /\ out' = out /\ in' = in /\ line' = line /\ sent' = sent /\ got' = got
      /\ socket # "closed"
  BY DEF sendFrameAscii
<1>2. Len(l) \in Nat BY <1>a, LenProperties
<1>3. TextLeft' BY <1>1, <1>2 DEF TextLeft
<1>4. Written = 0 /\ Written' = 0 BY <1>1, <1>2 DEF Written
<1>5. \A F, m, cut : /\ Stream(F, Len(got), m, cut, sent) => Stream(F, Len(got'), m, cut, sent')
                     /\ Carried(F) => Carried(F)'
                     /\ Whole(F, m, cut) => Whole(F, m, cut)'
  BY <1>1, <1>4 DEF Stream, Carried, Whole
<1>6. Flow' BY <1>1, <1>5 DEF FlowInv, Flow
<1>7. GotPrefix' BY <1>1 DEF FlowInv, GotPrefix
<1> QED BY <1>1, <1>3, <1>6, <1>7 DEF FlowInv

LEMMA FlowDelimiter == ASSUME Typed, FlowInv, sendDelimiter PROVE FlowInv'
<1>1. /\ socket' = socket /\ sending = "text" /\ sending' = "delimiter" /\ left = <<>>
      /\ current' = current
      /\ out' = out /\ in' = in /\ line' = line /\ sent' = sent /\ got' = got
  BY DEF sendDelimiter
<1>2. Len(current) \in Nat /\ Len(left) = 0
  BY <1>1, LenProperties DEF Typed, TypeOK
<1>3. Written = Len(current) /\ Written' = Len(current) BY <1>1, <1>2 DEF Written
<1>5. \A F, m, cut : /\ Stream(F, Len(got), m, cut, sent) => Stream(F, Len(got'), m, cut, sent')
                     /\ Carried(F) => Carried(F)'
                     /\ Whole(F, m, cut) => Whole(F, m, cut)'
  BY <1>1, <1>3 DEF Stream, Carried, Whole
<1>6. Flow' BY <1>1, <1>5 DEF FlowInv, Flow
<1>7. GotPrefix' /\ TextLeft' BY <1>1 DEF FlowInv, GotPrefix, TextLeft
<1> QED BY <1>1, <1>6, <1>7 DEF FlowInv

LEMMA FlowFails == ASSUME Typed, FlowInv, sendFails PROVE FlowInv'
<1>1. /\ socket' = socket /\ socket = "broken" /\ sending' = "no"
      /\ out' = out /\ in' = in /\ line' = line /\ sent' = sent /\ got' = got
  BY DEF sendFails
<1>5. \A F, m, cut : /\ Stream(F, Len(got), m, cut, sent) => Stream(F, Len(got'), m, cut, sent')
                     /\ Carried(F) => Carried(F)'
  BY <1>1 DEF Stream, Carried
<1>6. Flow' BY <1>1, <1>5 DEF FlowInv, Flow
<1>7. GotPrefix' /\ TextLeft' BY <1>1 DEF FlowInv, GotPrefix, TextLeft
<1> QED BY <1>1, <1>6, <1>7 DEF FlowInv

LEMMA FlowConnect == ASSUME Typed, FlowInv, connect PROVE FlowInv'
<1>1. /\ socket = "closed" /\ socket' = "connected" /\ sending' = sending /\ left' = left
      /\ current' = current
      /\ out' = out /\ in' = in /\ line' = line /\ sent' = sent /\ got' = got
  BY DEF connect, writer
<1>2. TextLeft' /\ GotPrefix' BY <1>1 DEF FlowInv, TextLeft, GotPrefix
<1>3. \A F, m, cut : /\ Stream(F, Len(got), m, cut, sent) => Stream(F, Len(got'), m, cut, sent')
                     /\ Carried(F) => Carried(F)'
                     /\ Whole(F, m, cut) => Whole(F, m, cut)'
  BY <1>1 DEF Stream, Carried, Whole, Written
<1>4. Flow' BY <1>1, <1>3 DEF FlowInv, Flow
<1> QED BY <1>1, <1>2, <1>4 DEF FlowInv

\* The network moves bytes or loses them.
LEMMA FlowEcho == ASSUME Typed, FlowInv, Echo PROVE FlowInv'
<1>1. PICK n \in 1..Len(out) : /\ in' = in \o SubSeq(out, 1, n)
                               /\ out' = SubSeq(out, n + 1, Len(out))
  BY DEF Echo
<1>2. /\ socket' = socket /\ sending' = sending /\ left' = left /\ current' = current
      /\ line' = line /\ sent' = sent /\ got' = got /\ out # <<>>
  BY DEF Echo, writer
<1>t. in \in Seq(AnyByte) /\ out \in Seq(AnyByte) /\ line \in Seq(Char)
  BY DEF Typed, TypeOK, AnyByte
<1>l. Len(in) \in Nat /\ Len(out) \in Nat /\ Len(line) \in Nat BY <1>t, LenProperties
<1>3. n \in 0..Len(out) BY <1>l
<1>4. /\ SubSeq(out, 1, n) \in Seq(AnyByte) /\ Len(SubSeq(out, 1, n)) = n
      /\ \A i \in 1..n : SubSeq(out, 1, n)[i] = out[i]
      /\ Len(out') = Len(out) - n
      /\ \A i \in 1..Len(out) - n : out'[i] = out[n + i]
  BY <1>t, <1>1, <1>3, TakeDrop
<1>5. /\ Len(in') = Len(in) + n
      /\ \A i \in 1..Len(in) + n : in'[i] = IF i <= Len(in) THEN in[i] ELSE out[i - Len(in)]
  <2>1. /\ Len(in \o SubSeq(out, 1, n)) = Len(in) + Len(SubSeq(out, 1, n))
        /\ \A i \in 1..Len(in) + Len(SubSeq(out, 1, n)) : (in \o SubSeq(out, 1, n))[i] =
             IF i <= Len(in) THEN in[i] ELSE SubSeq(out, 1, n)[i - Len(in)]
    BY <1>t, <1>4, ConcatProperties
  <2>2. ASSUME NEW i \in 1..Len(in) + n
        PROVE  in'[i] = IF i <= Len(in) THEN in[i] ELSE out[i - Len(in)]
    <3>1. CASE i <= Len(in) BY <2>1, <1>1, <1>4, <1>l, <3>1
    <3>2. CASE ~(i <= Len(in))
      <4>1. i - Len(in) \in 1..n BY <3>2, <1>l
      <4> QED BY <2>1, <1>1, <1>4, <1>l, <3>2, <4>1
    <3> QED BY <3>1, <3>2
  <2> QED BY <2>1, <2>2, <1>1, <1>4
<1>6. ASSUME NEW F, Carried(F) PROVE Carried(F)'
  <2>1. Len(line') + Len(in') + Len(out') = Len(line) + Len(in) + Len(out)
    BY <1>2, <1>4, <1>5, <1>l
  <2>2. ASSUME NEW i \in 1..Len(in') PROVE F[Len(line) + i] = in'[i]
    <3>1. CASE i <= Len(in) BY <1>5, <1>6, <1>l, <3>1 DEF Carried
    <3>2. CASE ~(i <= Len(in))
      <4>1. i - Len(in) \in 1..Len(out) /\ in'[i] = out[i - Len(in)]
        BY <1>5, <1>l, <3>2
      <4>2. F[Len(line) + Len(in) + (i - Len(in))] = out[i - Len(in)]
        BY <1>6, <4>1 DEF Carried
      <4> QED BY <4>1, <4>2, <1>l
    <3> QED BY <3>1, <3>2
  <2>3. ASSUME NEW i \in 1..Len(out') PROVE F[Len(line) + Len(in') + i] = out'[i]
    <3>1. n + i \in 1..Len(out) /\ out'[i] = out[n + i] BY <1>4, <1>l
    <3>2. F[Len(line) + Len(in) + (n + i)] = out[n + i] BY <1>6, <3>1 DEF Carried
    <3> QED BY <3>1, <3>2, <1>5, <1>l
  <2> QED BY <1>2, <1>6, <2>1, <2>2, <2>3 DEF Carried
<1>7. \A F, m, cut : /\ Stream(F, Len(got), m, cut, sent) => Stream(F, Len(got'), m, cut, sent')
                     /\ Whole(F, m, cut) => Whole(F, m, cut)'
  <2>1. Len(line') + Len(in') + Len(out') = Len(line) + Len(in) + Len(out)
    BY <1>2, <1>4, <1>5, <1>l
  <2> QED BY <1>2, <2>1 DEF Stream, Whole, Written
<1>8. Flow' BY <1>2, <1>6, <1>7 DEF FlowInv, Flow
<1>9. TextLeft' /\ GotPrefix' BY <1>2 DEF FlowInv, TextLeft, GotPrefix
<1>10. socket # "broken" BY DEF FlowInv, Echo
<1> QED BY <1>2, <1>8, <1>9, <1>10 DEF FlowInv

LEMMA FlowBreak == ASSUME Typed, FlowInv, Break PROVE FlowInv'
<1>1. PICK n \in 0..Len(in) : in' = SubSeq(in, 1, n) BY DEF Break
<1>2. /\ socket' = "broken" /\ sending' = sending /\ left' = left /\ current' = current
      /\ out' = <<>> /\ line' = line /\ sent' = sent /\ got' = got
  BY DEF Break, writer
<1>t. in \in Seq(AnyByte) /\ out \in Seq(AnyByte) /\ line \in Seq(Char)
  BY DEF Typed, TypeOK, AnyByte
<1>l. Len(in) \in Nat /\ Len(out) \in Nat /\ Len(line) \in Nat BY <1>t, LenProperties
<1>3. Len(in') = n /\ \A i \in 1..n : in'[i] = in[i] BY <1>1, <1>t, TakeDrop
<1>4. ASSUME NEW F, Len(F) \in Nat, Carried(F) PROVE Carried(F)'
  <2>1. Len(F) \in Nat /\ Len(out') = 0 BY <1>2, <1>4, EmptySeq
  <2>2. Len(line') + Len(in') + Len(out') <= Len(F)
    <3>1. Len(line) + Len(in) + Len(out) <= Len(F) BY <1>4 DEF Carried
    <3>2. Len(line') = Len(line) /\ Len(in') = n BY <1>2, <1>3
    <3> QED BY <1>l, <2>1, <3>1, <3>2
  <2>3. \A i \in 1..Len(in') : F[Len(line) + i] = in'[i]
    <3> SUFFICES ASSUME NEW i \in 1..n PROVE F[Len(line) + i] = in'[i] BY <1>3
    <3>1. i \in 1..Len(in) BY <1>l
    <3>2. F[Len(line) + i] = in[i] BY <1>4, <3>1 DEF Carried
    <3> QED BY <1>3, <3>2
  <2>4. \A i \in 1..Len(line') : F[i] = line'[i] BY <1>2, <1>4 DEF Carried
  <2>5. \A i \in 1..Len(out') : F[Len(line') + Len(in') + i] = out'[i] BY <2>1
  <2>6. \A i \in 1..Len(in') : F[Len(line') + i] = in'[i] BY <1>2, <2>3
  <2> QED BY <2>2, <2>4, <2>5, <2>6 DEF Carried
<1>5. \A F, m, cut : Stream(F, Len(got), m, cut, sent) => Stream(F, Len(got'), m, cut, sent')
  BY <1>2 DEF Stream
<1>6. Flow'
  <2>1. \A F \in Seq(AnyByte) : Len(F) \in Nat BY LenProperties
  <2> QED BY <1>2, <1>4, <1>5, <2>1 DEF FlowInv, Flow
<1>7. TextLeft' /\ GotPrefix' BY <1>2 DEF FlowInv, TextLeft, GotPrefix
<1> QED BY <1>2, <1>6, <1>7 DEF FlowInv

\* Steps of the reader.
LEMMA FlowEnds == ASSUME Typed, FlowInv, getFails PROVE FlowInv'
<1>1. /\ socket = "broken" /\ socket' = socket /\ sending' = sending /\ left' = left
      /\ current' = current /\ in = <<>> /\ in' = in /\ out = <<>> /\ out' = out
      /\ line' = <<>> /\ sent' = sent /\ got' = got
  BY DEF getFails, writer, FlowInv
<1> DEFINE zero == [k \in Nat |-> 0]
<1>2. Len(got) \in Nat /\ Len(sent) \in Nat BY LenProperties DEF Typed, TypeOK
<1>3. Len(got) <= Len(sent) BY <1>2 DEF FlowInv, Flow, Stream
<1>4. <<>> \in Seq(AnyByte) /\ Len(<<>>) = 0 BY EmptySeq
<1>5. Stream(<<>>, Len(got), Len(got), zero, sent) BY <1>2, <1>3, <1>4 DEF Stream
<1>6. Carried(<<>>)' BY <1>1, <1>4 DEF Carried
<1>7. Flow'
  <2>1. zero \in [Nat -> Nat] OBVIOUS
  <2> QED BY <1>1, <1>2, <1>4, <1>5, <1>6, <2>1 DEF Flow
<1>8. TextLeft' /\ GotPrefix' BY <1>1 DEF FlowInv, TextLeft, GotPrefix
<1> QED BY <1>1, <1>7, <1>8 DEF FlowInv

\* A byte of the text goes from the socket to the line being read.
LEMMA FlowByte ==
  ASSUME Typed, FlowInv, getBytes, Head(in) # Nul
  PROVE  FlowInv'
<1>1. /\ socket' = socket /\ sending' = sending /\ left' = left /\ current' = current
      /\ in # <<>> /\ in' = Tail(in) /\ out' = out
      /\ line' = Append(line, Head(in)) /\ sent' = sent /\ got' = got
  BY DEF getBytes, Received, writer
<1>u. /\ socket' = socket /\ sending' = sending /\ left' = left /\ current' = current
      /\ out' = out /\ sent' = sent /\ got' = got
  BY <1>1
<1>t. in \in Seq(AnyByte) /\ line \in Seq(AnyByte) /\ out \in Seq(AnyByte)
  BY DEF Typed, TypeOK, AnyByte
<1>l. Len(in) \in Nat /\ Len(line) \in Nat /\ Len(out) \in Nat BY <1>t, LenProperties
<1>2. /\ Head(in) \in AnyByte /\ Head(in) = in[1] /\ Len(in) >= 1
      /\ Len(in') = Len(in) - 1 /\ \A i \in 1..Len(in') : in'[i] = in[i + 1]
  BY <1>1, <1>t, HeadTailProperties, EmptySeq
<1>3. /\ Len(line') = Len(line) + 1 /\ line'[Len(line) + 1] = in[1]
      /\ \A i \in 1..Len(line) : line'[i] = line[i]
  BY <1>1, <1>2, <1>t, AppendProperties
<1>4. ASSUME NEW F, Carried(F) PROVE Carried(F)'
  <2>1. Len(line') + Len(in') + Len(out') = Len(line) + Len(in) + Len(out)
    BY <1>1, <1>2, <1>3, <1>l
  <2>2. \A i \in 1..Len(line') : F[i] = line'[i]
    <3> SUFFICES ASSUME NEW i \in 1..Len(line') PROVE F[i] = line'[i] OBVIOUS
    <3>1. CASE i <= Len(line) BY <1>3, <1>4, <1>l, <3>1 DEF Carried
    <3>2. CASE i = Len(line) + 1
      <4>1. F[Len(line) + 1] = in[1] BY <1>2, <1>4, <1>l DEF Carried
      <4> QED BY <1>3, <3>2, <4>1
    <3> QED BY <1>3, <1>l, <3>1, <3>2
  <2>3. \A i \in 1..Len(in') : F[Len(line') + i] = in'[i]
    <3> SUFFICES ASSUME NEW i \in 1..Len(in') PROVE F[Len(line') + i] = in'[i] OBVIOUS
    <3>1. F[Len(line) + (i + 1)] = in[i + 1] BY <1>2, <1>4, <1>l DEF Carried
    <3> QED BY <1>2, <1>3, <1>l, <3>1
  <2>4. \A i \in 1..Len(out') : F[Len(line') + Len(in') + i] = out'[i]
    <3>1. Len(line') + Len(in') = Len(line) + Len(in) BY <1>2, <1>3, <1>l
    <3> QED BY <1>1, <1>4, <3>1 DEF Carried
  <2>5. Len(line') + Len(in') + Len(out') <= Len(F)
    <3>1. Len(line) + Len(in) + Len(out) <= Len(F) BY <1>4 DEF Carried
    <3> QED BY <2>1, <3>1
  <2> QED BY <2>2, <2>3, <2>4, <2>5 DEF Carried
<1>5. \A F, m, cut : /\ Stream(F, Len(got), m, cut, sent) => Stream(F, Len(got'), m, cut, sent')
                     /\ Whole(F, m, cut) => Whole(F, m, cut)'
  <2>1. Len(line') + Len(in') + Len(out') = Len(line) + Len(in) + Len(out)
    BY <1>1, <1>2, <1>3, <1>l
  <2> QED BY <1>u, <2>1 DEF Stream, Whole, Written
<1>6. Flow' BY <1>u, <1>4, <1>5 DEF FlowInv, Flow
<1>7. TextLeft' /\ GotPrefix' BY <1>u DEF FlowInv, TextLeft, GotPrefix
<1> QED BY <1>u, <1>6, <1>7 DEF FlowInv

\* The first delimiter of F comes after l bytes.
Delimited(F, l) ==
  /\ l \in Nat /\ l + 1 <= Len(F) /\ F[l + 1] = Nul /\ \A i \in 1..l : F[i] \in Char

\* The l bytes before it are line g+1, and that line ends with it.
EndsLine(F, g, m, cut, lines, l) ==
  /\ g + 1 \in g + 1..m /\ g + 1 \in 1..Len(lines)
  /\ cut[g + 1] = l + 1 /\ lines[g + 1] \in Seq(Char) /\ Len(lines[g + 1]) = l
  /\ \A i \in 1..l : F[i] = lines[g + 1][i]

\* The first delimiter of a stream ends its first line.
LEMMA FirstDelimiter ==
  ASSUME HandlerAssumption, NEW lines \in Seq(Line),
         NEW F \in Seq(AnyByte), NEW g \in Nat, NEW m \in Nat, NEW cut \in [Nat -> Nat],
         Stream(F, g, m, cut, lines),
         NEW l \in Nat, Delimited(F, l)
  PROVE  EndsLine(F, g, m, cut, lines, l)
<1> USE DEF Delimited, EndsLine
<1>n. Nul \notin Char /\ Line \subseteq Seq(Char) BY DEF HandlerAssumption
<1>l. Len(F) \in Nat /\ Len(lines) \in Nat BY LenProperties
<1>1. /\ g <= m /\ m <= Len(lines) /\ cut[g] = 0
      /\ \A i \in cut[m] + 1..Len(F) : F[i] \in Char
  BY DEF Stream
<1>2. g # m
  <2> SUFFICES ASSUME g = m PROVE FALSE OBVIOUS
  <2>1. l + 1 \in cut[m] + 1..Len(F) BY <1>1, <1>l
  <2>2. F[l + 1] \in Char BY <1>1, <2>1
  <2> QED BY <2>2, <1>n
<1>3. g + 1 \in g + 1..m /\ g + 1 \in 1..Len(lines) BY <1>1, <1>2, <1>l
<1>4. lines[g + 1] \in Seq(Char) BY <1>3, <1>n, ElementOfSeq
<1>5. PICK s \in Seq(Char) : s = lines[g + 1] BY <1>4
<1>6. PICK c \in Nat : c = cut[g + 1] OBVIOUS
<1>7. PICK n \in Nat : n = Len(s) BY <1>5, LenProperties
<1>8. \A k \in g + 1..m :
        /\ cut[k] = cut[k - 1] + Len(lines[k]) + 1 /\ F[cut[k]] = Nul
        /\ \A i \in 1..Len(lines[k]) : F[cut[k - 1] + i] = lines[k][i]
  BY DEF Stream
<1>9. cut[g + 1 - 1] = 0
  <2>1. g + 1 - 1 = g OBVIOUS
  <2> QED BY <2>1, <1>1
<1>10. /\ c = 0 + n + 1 /\ F[c] = Nul
       /\ \A i \in 1..n : F[0 + i] = s[i]
  <2>1. /\ cut[g + 1] = cut[g + 1 - 1] + Len(lines[g + 1]) + 1 /\ F[cut[g + 1]] = Nul
        /\ \A i \in 1..Len(lines[g + 1]) : F[cut[g + 1 - 1] + i] = lines[g + 1][i]
    <3> DEFINE P(k) == /\ cut[k] = cut[k - 1] + Len(lines[k]) + 1 /\ F[cut[k]] = Nul
                       /\ \A i \in 1..Len(lines[k]) : F[cut[k - 1] + i] = lines[k][i]
    <3>1. \A k \in g + 1..m : P(k) BY <1>8
    <3>2. g + 1 \in g + 1..m BY <1>3
    <3> HIDE DEF P
    <3>3. P(g + 1) BY <3>1, <3>2
    <3> QED BY <3>3 DEF P
  <2> QED BY <2>1, <1>9, <1>5, <1>6, <1>7
<1>10a. \A i \in 1..n : F[i] = s[i]
  <2> SUFFICES ASSUME NEW i \in 1..n PROVE F[i] = s[i] OBVIOUS
  <2>1. 0 + i = i OBVIOUS
  <2> QED BY <2>1, <1>10
<1>11. ~(c <= l)
  <2> SUFFICES ASSUME c <= l PROVE FALSE OBVIOUS
  <2>1. c \in 1..l BY <1>10
  <2>2. F[c] \in Char BY <2>1
  <2> QED BY <2>2, <1>10, <1>n
<1>12. ~(l < n)
  <2>1. l < n => F[l + 1] = s[l + 1] /\ s[l + 1] \in Char
    <3> SUFFICES ASSUME l < n PROVE F[l + 1] = s[l + 1] /\ s[l + 1] \in Char OBVIOUS
    <3>1. l + 1 \in 1..n OBVIOUS
    <3> QED BY <1>7, <1>10a, <3>1, ElementOfSeq
  <2> QED BY <2>1, <1>n
<1>13. n = l /\ c = l + 1 BY <1>10, <1>11, <1>12
<1> QED BY <1>3, <1>5, <1>6, <1>7, <1>10a, <1>13

\* The first delimiter that is read ends the line that is due.
LEMMA FirstLine ==
  ASSUME HandlerAssumption, Typed, in # <<>>, Head(in) = Nul,
         NEW F \in Seq(AnyByte), NEW m \in Nat, NEW cut \in [Nat -> Nat],
         Stream(F, Len(got), m, cut, sent), Carried(F)
  PROVE  /\ Len(got) + 1 \in Len(got) + 1..m /\ Len(got) < Len(sent)
         /\ line = sent[Len(got) + 1] /\ line \in Line
         /\ cut[Len(got) + 1] = Len(line) + 1
         /\ Len(line) + 1 <= Len(F)
<1>t. /\ in \in Seq(AnyByte) /\ line \in Seq(Char) /\ out \in Seq(AnyByte)
      /\ sent \in Seq(Line) /\ got \in Seq(Seq(Char))
  BY DEF Typed, TypeOK, AnyByte
<1>l. /\ Len(in) \in Nat /\ Len(line) \in Nat /\ Len(out) \in Nat /\ Len(got) \in Nat
      /\ Len(F) \in Nat /\ Len(sent) \in Nat
  BY <1>t, LenProperties
<1>1. in[1] = Nul /\ 1 \in 1..Len(in) BY <1>t, HeadTailProperties, EmptySeq
<1>2. /\ Len(line) + Len(in) + Len(out) <= Len(F) /\ F[Len(line) + 1] = in[1]
      /\ \A i \in 1..Len(line) : F[i] = line[i]
  BY <1>1 DEF Carried
<1>3. Len(line) + 1 <= Len(F) BY <1>1, <1>2, <1>l
<1>4. \A i \in 1..Len(line) : F[i] \in Char BY <1>2, <1>t, ElementOfSeq
<1>5. /\ Len(got) + 1 \in Len(got) + 1..m /\ Len(got) + 1 \in 1..Len(sent)
      /\ cut[Len(got) + 1] = Len(line) + 1 /\ sent[Len(got) + 1] \in Seq(Char)
      /\ Len(sent[Len(got) + 1]) = Len(line)
      /\ \A i \in 1..Len(line) : F[i] = sent[Len(got) + 1][i]
  <2>1. F[Len(line) + 1] = Nul BY <1>1, <1>2
  <2> DEFINE l == Len(line)
             g == Len(got)
             lines == sent
  <2>2. /\ l \in Nat /\ Delimited(F, l) /\ g \in Nat /\ lines \in Seq(Line)
        /\ Stream(F, g, m, cut, lines)
    BY <1>3, <1>4, <1>l, <1>t, <2>1 DEF Delimited
  <2> HIDE DEF l, g, lines
  <2>3. EndsLine(F, g, m, cut, lines, l) BY <2>2, FirstDelimiter
  <2> QED BY <2>3 DEF l, g, lines, EndsLine
<1>6. line = sent[Len(got) + 1]
  <2>1. \A i \in 1..Len(line) : line[i] = sent[Len(got) + 1][i] BY <1>2, <1>5
  <2> QED BY <1>t, <1>5, <2>1, SeqEqual
<1>7. sent[Len(got) + 1] \in Line BY <1>5, <1>t, ElementOfSeq
<1>8. Len(got) < Len(sent) BY <1>5, <1>l
<1> QED BY <1>3, <1>5, <1>6, <1>7, <1>8

\* G is F without its first c bytes, those of line g+1, and rest is cut moved by
\* as many.
CutOff(F, c, G, g, m, cut, rest, lines) ==
  /\ Len(F) \in Nat /\ Len(G) \in Nat /\ Len(lines) \in Nat
  /\ \A k \in 1..Len(lines) : Len(lines[k]) \in Nat
  /\ Stream(F, g, m, cut, lines) /\ c = cut[g + 1]
  /\ Len(G) = Len(F) - c /\ \A i \in 1..Len(G) : G[i] = F[c + i]
  /\ \A k \in g + 1..m : rest[k] = cut[k] - c

\* What is left of a stream when its first line is taken off.
LEMMA StreamTail ==
  ASSUME NEW lines, NEW F, NEW G, NEW c \in Nat,
         NEW g \in Nat, NEW m \in Nat, g + 1 <= m,
         NEW cut \in [Nat -> Nat], NEW rest \in [Nat -> Nat],
         CutOff(F, c, G, g, m, cut, rest, lines)
  PROVE  Stream(G, g + 1, m, rest, lines)
<1>1. PICK f \in Nat : f = Len(F) BY DEF CutOff
<1>2. PICK n \in Nat : n = Len(G) BY DEF CutOff
<1>3. m <= Len(lines) /\ Len(lines) \in Nat BY DEF CutOff, Stream
<1>4. n = f - c BY <1>1, <1>2 DEF CutOff
<1>5. ASSUME NEW k \in g + 1..m
      PROVE  /\ cut[k] \in Nat /\ rest[k] \in Nat /\ rest[k] = cut[k] - c
             /\ cut[k] <= f /\ rest[k] <= n
  <2>1. cut[k] \in Nat /\ rest[k] \in Nat OBVIOUS
  <2>2. rest[k] = cut[k] - c BY DEF CutOff
  <2>3. k \in g..m OBVIOUS
  <2>4. cut[k] <= f BY <1>1, <2>3 DEF CutOff, Stream
  <2> QED BY <1>4, <2>1, <2>2, <2>4
<1>6. rest[g + 1] = 0
  <2>1. g + 1 \in g + 1..m OBVIOUS
  <2>2. rest[g + 1] = cut[g + 1] - c /\ cut[g + 1] = c BY <2>1 DEF CutOff
  <2> QED BY <2>2
<1>7. ASSUME NEW j \in g + 1..m, NEW k \in g + 1..m, j <= k PROVE rest[j] <= rest[k]
  <2>1. j \in g..m /\ k \in g..m OBVIOUS
  <2>2. cut[j] <= cut[k] BY <1>7, <2>1 DEF CutOff, Stream
  <2>3. rest[j] = cut[j] - c /\ cut[j] \in Nat BY <1>5
  <2>4. rest[k] = cut[k] - c /\ cut[k] \in Nat BY <1>5
  <2> QED BY <2>2, <2>3, <2>4
<1>8. ASSUME NEW k \in g + 1 + 1..m
      PROVE  /\ rest[k] = rest[k - 1] + Len(lines[k]) + 1
             /\ G[rest[k]] = Nul
             /\ \A i \in 1..Len(lines[k]) : G[rest[k - 1] + i] = lines[k][i]
  <2>1. k \in g + 1..m /\ k - 1 \in g + 1..m /\ k \in 1..Len(lines) BY <1>3
  <2>2. PICK l \in Nat : l = Len(lines[k]) BY <2>1 DEF CutOff
  <2>3. /\ cut[k] = cut[k - 1] + l + 1 /\ F[cut[k]] = Nul
        /\ \A i \in 1..l : F[cut[k - 1] + i] = lines[k][i]
    BY <2>1, <2>2 DEF CutOff, Stream
  <2>4. PICK a \in Nat, x \in Nat : a = cut[k] /\ x = rest[k] /\ x = a - c /\ x <= n
    BY <1>5, <2>1
  <2>5. PICK b \in Nat, y \in Nat : b = cut[k - 1] /\ y = rest[k - 1] /\ y = b - c
    BY <1>5, <2>1
  <2>6. a = b + l + 1 BY <2>3, <2>4, <2>5
  <2>7. x = y + l + 1 BY <2>4, <2>5, <2>6
  <2>8. \A i \in 1..n : G[i] = F[c + i] BY <1>2 DEF CutOff
  <2>9. G[x] = Nul
    <3>1. x \in 1..n BY <2>4, <2>7
    <3>2. c + x = a BY <2>4
    <3>3. G[x] = F[a] BY <2>8, <3>1, <3>2
    <3> QED BY <3>3, <2>3, <2>4
  <2>10. ASSUME NEW i \in 1..l PROVE G[y + i] = lines[k][i]
    <3>1. y + i \in 1..n BY <2>4, <2>7
    <3>2. c + (y + i) = b + i BY <2>5
    <3>3. G[y + i] = F[b + i] BY <2>8, <3>1, <3>2
    <3>4. F[b + i] = lines[k][i] BY <2>3, <2>5
    <3> QED BY <3>3, <3>4
  <2> QED BY <2>2, <2>4, <2>5, <2>7, <2>9, <2>10
<1>9. ASSUME NEW i \in rest[m] + 1..n PROVE G[i] \in Char
  <2>1. m \in g + 1..m OBVIOUS
  <2>2. PICK a \in Nat, x \in Nat : a = cut[m] /\ x = rest[m] /\ x = a - c
    BY <1>5, <2>1
  <2>3. i \in x + 1..n BY <2>2
  <2>4. i \in 1..n /\ c + i \in a + 1..f BY <2>2, <2>3, <1>4
  <2>5. G[i] = F[c + i] BY <2>4, <1>2 DEF CutOff
  <2>6. F[c + i] \in Char BY <2>2, <2>4, <1>1 DEF CutOff, Stream
  <2> QED BY <2>5, <2>6
<1>10. g + 1 <= m /\ m <= Len(lines) BY <1>3
<1>11. \A k \in g + 1..m : rest[k] <= n BY <1>5
<1> QED BY <1>2, <1>6, <1>7, <1>8, <1>9, <1>10, <1>11 DEF Stream

\* How much is written is a number within the line.
LEMMA WrittenSize ==
  ASSUME HandlerAssumption, Typed, TextLeft
  PROVE  /\ Len(current) \in Nat /\ Len(left) \in Nat
         /\ Written \in 0..Len(current)
<1>1. Len(current) \in Nat /\ Len(left) \in Nat BY LenProperties DEF Typed, TypeOK
<1> QED BY <1>1 DEF TextLeft, Written

\* The reader comes to a delimiter and returns the line before it.
LEMMA FlowLine ==
  ASSUME HandlerAssumption, Typed, FlowInv, getBytes, Head(in) = Nul
  PROVE  /\ FlowInv'
         /\ Len(got) < Len(sent) /\ got' = Append(got, sent[Len(got) + 1])
<1>1. /\ socket' = socket /\ sending' = sending /\ left' = left /\ current' = current
      /\ in # <<>> /\ in' = Tail(in) /\ out' = out
      /\ line' = <<>> /\ got' = Append(got, line) /\ sent' = sent
  BY DEF getBytes, Received, writer
<1>t. /\ in \in Seq(AnyByte) /\ line \in Seq(Char) /\ out \in Seq(AnyByte)
      /\ sent \in Seq(Line) /\ got \in Seq(Seq(Char))
  BY DEF Typed, TypeOK, AnyByte
<1>l. /\ Len(in) \in Nat /\ Len(line) \in Nat /\ Len(out) \in Nat /\ Len(got) \in Nat
      /\ Len(sent) \in Nat
  BY <1>t, LenProperties
<1>2. /\ Len(in) >= 1 /\ Len(in') = Len(in) - 1
      /\ \A i \in 1..Len(in') : in'[i] = in[i + 1]
  BY <1>1, <1>t, HeadTailProperties, EmptySeq
<1>3. PICK F, m, cut :
        /\ F \in Seq(AnyByte) /\ m \in Nat /\ cut \in [Nat -> Nat]
        /\ Stream(F, Len(got), m, cut, sent) /\ Carried(F)
        /\ socket # "broken" => Whole(F, m, cut)
  BY DEF FlowInv, Flow
<1>4. /\ Len(got) + 1 \in Len(got) + 1..m /\ Len(got) < Len(sent)
      /\ line = sent[Len(got) + 1] /\ line \in Line
      /\ cut[Len(got) + 1] = Len(line) + 1
      /\ Len(line) + 1 <= Len(F)
  BY <1>1, <1>3, FirstLine
<1>5. PICK f \in Nat, c \in Nat, g \in Nat, n \in Nat, o \in Nat :
        /\ f = Len(F) /\ c = Len(line) + 1 /\ g = Len(got) /\ n = Len(in) /\ o = Len(out)
  <2>1. Len(F) \in Nat BY <1>3, LenProperties
  <2>2. Len(line) + 1 \in Nat BY <1>l
  <2> QED BY <1>l, <2>1, <2>2
<1>6. /\ c <= f /\ c = cut[g + 1] /\ g + 1 <= m /\ m \in Nat
      /\ Len(line) = c - 1 /\ Len(line) \in Nat
  <2>1. m \in Nat BY <1>3
  <2>2. c <= f /\ c = cut[g + 1] /\ g + 1 \in g + 1..m BY <1>4, <1>5
  <2>3. Len(line) = c - 1 /\ Len(line) \in Nat BY <1>5, <1>l
  <2> QED BY <2>1, <2>2, <2>3
<1> DEFINE G == SubSeq(F, c + 1, Len(F))
           rest == [k \in Nat |-> IF k \in g + 1..m THEN cut[k] - c ELSE 0]
<1>7. /\ G \in Seq(AnyByte) /\ Len(G) = f - c
      /\ \A i \in 1..f - c : G[i] = F[c + i]
  <2>1. c \in 0..Len(F) /\ F \in Seq(AnyByte) BY <1>3, <1>5, <1>6
  <2>2. /\ G \in Seq(AnyByte) /\ Len(G) = Len(F) - c
        /\ \A i \in 1..Len(F) - c : G[i] = F[c + i]
    BY <2>1, TakeDrop
  <2> QED BY <1>5, <2>2
<1>8. ASSUME NEW k \in g + 1..m PROVE cut[k] - c \in Nat
  <2>1. k \in g..m /\ g + 1 \in g..m /\ g + 1 <= k /\ k \in Nat BY <1>6
  <2>2. cut[g + 1] <= cut[k] BY <1>3, <1>5, <2>1 DEF Stream
  <2>3. cut[k] \in Nat BY <1>3, <2>1
  <2> QED BY <1>6, <2>2, <2>3
<1>9. rest \in [Nat -> Nat] BY <1>8
<1>10. \A k \in g + 1..m : rest[k] = cut[k] - c
  <2>1. \A k \in g + 1..m : k \in Nat BY <1>6
  <2> QED BY <2>1
<1> HIDE DEF G, rest
<1>s. Stream(G, g + 1, m, rest, sent)
  <2> DEFINE lines == sent
  <2>1. \A k \in 1..Len(sent) : Len(sent[k]) \in Nat
    <3> SUFFICES ASSUME NEW k \in 1..Len(sent) PROVE Len(sent[k]) \in Nat OBVIOUS
    <3>1. sent[k] \in Seq(Char) BY <1>t, ElementOfSeq DEF HandlerAssumption
    <3> QED BY <3>1, LenProperties
  <2>2. /\ Len(F) \in Nat /\ Len(G) \in Nat /\ Len(G) = Len(F) - c
    BY <1>5, <1>6, <1>7
  <2>3. \A i \in 1..Len(G) : G[i] = F[c + i] BY <1>7
  <2>4. Stream(F, g, m, cut, lines) BY <1>3, <1>5
  <2>5. CutOff(F, c, G, g, m, cut, rest, lines)
    BY <1>l, <1>6, <1>10, <2>1, <2>2, <2>3, <2>4 DEF CutOff
  <2> HIDE DEF lines
  <2>6. Stream(G, g + 1, m, rest, lines) BY <1>3, <1>6, <1>9, <2>5, StreamTail
  <2> QED BY <2>6 DEF lines
<1>11. Len(got') = Len(got) + 1 BY <1>1, <1>t, AppendProperties
<1>12. /\ Len(line') = 0 /\ Len(in') = n - 1 /\ Len(out') = o /\ n >= 1
       /\ c + n - 1 + o <= f
  <2>1. Len(line) + Len(in) + Len(out) <= Len(F) BY <1>3 DEF Carried
  <2>2. c - 1 + n + o <= f
    <3>1. Len(line) = c - 1 /\ Len(in) = n /\ Len(out) = o /\ Len(F) = f BY <1>5, <1>6
    <3> QED BY <2>1, <3>1
  <2>3. Len(line') = 0 BY <1>1, EmptySeq
  <2>4. Len(in') = n - 1 /\ n >= 1 BY <1>2, <1>5
  <2>5. Len(out') = o BY <1>1, <1>5
  <2> QED BY <2>2, <2>3, <2>4, <2>5
<1>c. Carried(G)'
  <2>1. Len(line') + Len(in') + Len(out') <= Len(G)
    <3>1. Len(G) = f - c BY <1>7
    <3>2. 0 + (n - 1) + o <= f - c BY <1>6, <1>12
    <3> QED BY <1>12, <3>1, <3>2
  <2>2. \A i \in 1..Len(line') : G[i] = line'[i] BY <1>12
  <2>3. ASSUME NEW i \in 1..Len(in') PROVE G[Len(line') + i] = in'[i]
    <3>1. i + 1 \in 1..n /\ i \in 1..f - c /\ c - 1 + (i + 1) = c + i /\ 0 + i = i BY <1>12
    <3>2. F[c - 1 + (i + 1)] = in[i + 1] BY <1>3, <1>5, <1>6, <3>1 DEF Carried
    <3>3. G[i] = F[c + i] BY <1>7, <3>1
    <3>4. in'[i] = in[i + 1] BY <1>2
    <3> QED BY <1>12, <3>1, <3>2, <3>3, <3>4
  <2>4. ASSUME NEW i \in 1..Len(out') PROVE G[Len(line') + Len(in') + i] = out'[i]
    <3>1. /\ i \in 1..o /\ n - 1 + i \in 1..f - c
          /\ c - 1 + n + i = c + (n - 1 + i) /\ 0 + (n - 1) + i = n - 1 + i
      BY <1>12
    <3>2. F[c - 1 + n + i] = out[i] BY <1>3, <1>5, <1>6, <3>1 DEF Carried
    <3>3. G[n - 1 + i] = F[c + (n - 1 + i)] BY <1>7, <3>1
    <3> QED BY <1>1, <1>12, <3>1, <3>2, <3>3
  <2> QED BY <2>1, <2>2, <2>3, <2>4 DEF Carried
<1>13. socket' # "broken" => Whole(G, m, rest)'
  <2> SUFFICES ASSUME socket # "broken" PROVE Whole(G, m, rest)' BY <1>1
  <2>1. Whole(F, m, cut) BY <1>3
  <2>2. PICK w \in Nat : w = Written /\ Written' = w
    <3>1. Written \in Nat /\ Len(current) \in Nat BY WrittenSize DEF FlowInv
    <3>2. Written' = Written BY <1>1 DEF Written
    <3> QED BY <3>1, <3>2
  <2>3. PICK a \in Nat, x \in Nat : a = cut[m] /\ x = rest[m] /\ x = a - c
    <3>1. m \in g + 1..m /\ m \in Nat BY <1>6
    <3>2. rest[m] = cut[m] - c /\ rest[m] \in Nat /\ cut[m] \in Nat
      BY <1>3, <1>9, <1>10, <3>1
    <3> QED BY <3>2
  <2>4. /\ f = c - 1 + n + o /\ m = Len(sent) /\ f = a + w
        /\ \A i \in 1..w : F[a + i] = current[i]
    <3>1. /\ Len(F) = Len(line) + Len(in) + Len(out) /\ m = Len(sent)
          /\ Len(F) = cut[m] + Written
          /\ \A i \in 1..Written : F[cut[m] + i] = current[i]
      BY <2>1 DEF Whole
    <3>2. f = c - 1 + n + o BY <1>5, <1>6, <3>1
    <3>3. f = a + w /\ \A i \in 1..w : F[a + i] = current[i] BY <1>5, <2>2, <2>3, <3>1
    <3> QED BY <3>1, <3>2, <3>3
  <2>5. Len(G) = Len(line') + Len(in') + Len(out')
    <3>1. f - c = 0 + (n - 1) + o BY <2>4
    <3> QED BY <1>7, <1>12, <3>1
  <2>a. f = a + w /\ x = a - c BY <2>3, <2>4
  <2>6. Len(G) = x + w
    <3>1. f - c = x + w BY <2>a
    <3> QED BY <1>7, <3>1
  <2>7. ASSUME NEW i \in 1..w PROVE G[x + i] = current[i]
    <3>1. x + i \in 1..f - c /\ c + (x + i) = a + i BY <2>a
    <3>2. G[x + i] = F[c + (x + i)] BY <1>7, <3>1
    <3> QED BY <2>4, <3>1, <3>2
  <2> QED BY <1>1, <2>2, <2>3, <2>4, <2>5, <2>6, <2>7 DEF Whole
<1>14. Flow'
  <2>1. Stream(G, Len(got'), m, rest, sent') BY <1>1, <1>5, <1>11, <1>s
  <2> QED BY <1>6, <1>7, <1>9, <1>c, <1>13, <2>1 DEF Flow
<1>15. GotPrefix'
  <2>1. ASSUME NEW k \in 1..Len(got') PROVE got'[k] = sent'[k]
    <3>1. CASE k <= Len(got)
      <4>1. got[k] = sent[k] BY <1>l, <3>1 DEF FlowInv, GotPrefix
      <4> QED BY <1>1, <1>t, <1>l, <3>1, <4>1, AppendProperties
    <3>2. CASE k = Len(got) + 1
      BY <1>1, <1>4, <1>t, <3>2, AppendProperties
    <3> QED BY <1>11, <1>l, <3>1, <3>2
  <2> QED BY <2>1 DEF GotPrefix
<1>16. TextLeft' BY <1>1 DEF FlowInv, TextLeft
<1> QED BY <1>1, <1>4, <1>14, <1>15, <1>16 DEF FlowInv

\* G is F with n more bytes behind it; more has the lines of lines.
Longer(F, G, n) ==
  /\ Len(F) \in Nat /\ n \in Nat /\ Len(G) = Len(F) + n
  /\ \A i \in 1..Len(F) : G[i] = F[i]
Extended(lines, more) ==
  /\ Len(lines) \in Nat /\ Len(more) \in Nat /\ Len(lines) <= Len(more)
  /\ \A k \in 1..Len(lines) : Len(lines[k]) \in Nat /\ more[k] = lines[k]

\* Line k of s is in F, up to cut[k].
Block(F, cut, s, k) ==
  /\ cut[k] = cut[k - 1] + Len(s[k]) + 1
  /\ F[cut[k]] = Nul
  /\ \A i \in 1..Len(s[k]) : F[cut[k - 1] + i] = s[k][i]

\* What is written behind a stream leaves its lines alone.
LEMMA StreamKept ==
  ASSUME NEW lines, NEW more, NEW F, NEW G, NEW n, NEW cut \in [Nat -> Nat],
         NEW g \in Nat, NEW m \in Nat,
         Stream(F, g, m, cut, lines), Longer(F, G, n), Extended(lines, more)
  PROVE  /\ g <= m /\ m <= Len(lines) /\ m <= Len(more) /\ cut[g] = 0
         /\ \A k \in g..m : cut[k] <= Len(F) /\ cut[k] <= Len(G)
         /\ \A j, k \in g..m : j <= k => cut[j] <= cut[k]
         /\ \A k \in g + 1..m : Block(G, cut, more, k)
<1>1. g <= m /\ m <= Len(lines) /\ cut[g] = 0 BY DEF Stream
<1>2. m <= Len(more)
  <2>1. Len(lines) \in Nat /\ Len(more) \in Nat /\ Len(lines) <= Len(more) BY DEF Extended
  <2> QED BY <1>1, <2>1
<1>3. PICK f \in Nat, e \in Nat : f = Len(F) /\ e = Len(G) /\ f <= e
  <2>1. Len(F) \in Nat /\ n \in Nat /\ Len(G) = Len(F) + n BY DEF Longer
  <2> QED BY <2>1
<1>4. ASSUME NEW k \in g..m PROVE cut[k] <= f /\ cut[k] <= e
  <2>1. cut[k] <= f BY <1>3 DEF Stream
  <2>2. cut[k] \in Nat OBVIOUS
  <2> QED BY <1>3, <2>1, <2>2
<1>5. \A j, k \in g..m : j <= k => cut[j] <= cut[k] BY DEF Stream
<1>6. ASSUME NEW k \in g + 1..m PROVE Block(G, cut, more, k)
  <2>1. Block(F, cut, lines, k) BY DEF Stream, Block
  <2>2. k \in 1..Len(lines) /\ k \in g..m /\ k - 1 \in g..m
    <3>1. Len(lines) \in Nat BY DEF Extended
    <3> QED BY <1>1, <3>1
  <2>3. Len(lines[k]) \in Nat /\ more[k] = lines[k] BY <2>2 DEF Extended
  <2>4. PICK l \in Nat : l = Len(lines[k]) BY <2>3
  <2>5. PICK a \in Nat, b \in Nat : a = cut[k] /\ b = cut[k - 1] /\ a <= f
    <3>1. k \in Nat /\ k - 1 \in Nat BY <2>2
    <3>2. cut[k] \in Nat /\ cut[k - 1] \in Nat BY <3>1
    <3> QED BY <3>2, <1>4, <2>2
  <2>6. a = b + l + 1 /\ F[a] = Nul /\ \A i \in 1..l : F[b + i] = lines[k][i]
    <3>1. /\ cut[k] = cut[k - 1] + Len(lines[k]) + 1 /\ F[cut[k]] = Nul
          /\ \A i \in 1..Len(lines[k]) : F[cut[k - 1] + i] = lines[k][i]
      BY <2>1 DEF Block
    <3> QED BY <2>4, <2>5, <3>1
  <2>7. \A i \in 1..f : G[i] = F[i] BY <1>3 DEF Longer
  <2>8. G[a] = Nul
    <3>1. a \in 1..f BY <2>5, <2>6
    <3> QED BY <2>6, <2>7, <3>1
  <2>9. ASSUME NEW i \in 1..l PROVE G[b + i] = lines[k][i]
    <3>1. a = b + l + 1 BY <2>6
    <3>2. b + i \in 1..f BY <2>5, <3>1
    <3> QED BY <2>6, <2>7, <3>2
  <2> QED BY <2>3, <2>4, <2>5, <2>6, <2>8, <2>9 DEF Block
<1>7. \A k \in g..m : cut[k] <= Len(F) /\ cut[k] <= Len(G) BY <1>3, <1>4
<1> QED BY <1>1, <1>2, <1>5, <1>6, <1>7

\* More text behind a stream makes a longer stream.
LEMMA StreamText ==
  ASSUME NEW lines, NEW more, NEW F, NEW G, NEW n, NEW cut \in [Nat -> Nat],
         NEW g \in Nat, NEW m \in Nat,
         Stream(F, g, m, cut, lines), Longer(F, G, n), Extended(lines, more),
         \A i \in 1..n : G[Len(F) + i] \in Char
  PROVE  Stream(G, g, m, cut, more)
<1>1. /\ g <= m /\ m <= Len(more) /\ cut[g] = 0
      /\ \A k \in g..m : cut[k] <= Len(G)
      /\ \A j, k \in g..m : j <= k => cut[j] <= cut[k]
      /\ \A k \in g + 1..m : Block(G, cut, more, k)
  BY StreamKept
<1>2. PICK f \in Nat, e \in Nat, d \in Nat : f = Len(F) /\ e = Len(G) /\ d = n /\ e = f + d
  <2>1. Len(F) \in Nat /\ n \in Nat /\ Len(G) = Len(F) + n BY DEF Longer
  <2> QED BY <2>1
<1>3. \A i \in 1..d : G[f + i] \in Char BY <1>2
<1>4. ASSUME NEW i \in cut[m] + 1..e PROVE G[i] \in Char
  <2>1. PICK a \in Nat : a = cut[m] OBVIOUS
  <2>2. i \in a + 1..e BY <2>1
  <2>3. CASE i <= f
    <3>1. i \in a + 1..f /\ i \in 1..f BY <1>2, <2>2, <2>3
    <3>2. F[i] \in Char BY <1>2, <2>1, <3>1 DEF Stream
    <3>3. G[i] = F[i] BY <1>2, <3>1 DEF Longer
    <3> QED BY <3>2, <3>3
  <2>4. CASE ~(i <= f)
    <3>1. i - f \in 1..d /\ f + (i - f) = i BY <1>2, <2>2, <2>4
    <3> QED BY <1>3, <3>1
  <2> QED BY <2>3, <2>4
<1>5. \A i \in cut[m] + 1..Len(G) : G[i] \in Char BY <1>2, <1>4
<1> QED BY <1>1, <1>5 DEF Stream, Block

\* F ends with the text of the last line of more, and G has its delimiter too.
Completed(F, G, m, cut, c, more) ==
  /\ Longer(F, G, 1) /\ Len(more) = m + 1 /\ Len(more[m + 1]) \in Nat
  /\ Len(F) = cut[m] + Len(more[m + 1])
  /\ \A i \in 1..Len(more[m + 1]) : F[cut[m] + i] = more[m + 1][i]
  /\ G[Len(F) + 1] = Nul
  /\ c[m + 1] = Len(F) + 1 /\ \A k \in 0..m : c[k] = cut[k]

\* Then that line is the next one of the stream.
LEMMA StreamLine ==
  ASSUME NEW lines, NEW more, NEW F, NEW G, NEW cut \in [Nat -> Nat],
         NEW g \in Nat, NEW m \in Nat, NEW c \in [Nat -> Nat],
         Stream(F, g, m, cut, lines), Extended(lines, more),
         Completed(F, G, m, cut, c, more)
  PROVE  Stream(G, g, m + 1, c, more)
<1>1. /\ g <= m /\ cut[g] = 0
      /\ \A k \in g..m : cut[k] <= Len(F)
      /\ \A j, k \in g..m : j <= k => cut[j] <= cut[k]
      /\ \A k \in g + 1..m : Block(G, cut, more, k)
  <2>1. Longer(F, G, 1) BY DEF Completed
  <2> QED BY <2>1, StreamKept
<1>2. PICK f \in Nat, l \in Nat, a \in Nat : f = Len(F) /\ l = Len(more[m + 1]) /\ a = cut[m]
  BY DEF Completed, Longer
<1>3. /\ Len(G) = f + 1 /\ \A i \in 1..f : G[i] = F[i]
      /\ Len(more) = m + 1 /\ f = a + l
      /\ \A i \in 1..l : F[a + i] = more[m + 1][i]
      /\ G[f + 1] = Nul
      /\ c[m + 1] = f + 1
  BY <1>2 DEF Completed, Longer
<1>4. \A k \in g..m : c[k] = cut[k] /\ c[k] \in Nat /\ c[k] <= f
  <2>1. \A k \in g..m : k \in 0..m /\ k \in Nat OBVIOUS
  <2>2. \A k \in 0..m : c[k] = cut[k] BY DEF Completed
  <2>3. \A k \in g..m : cut[k] <= f BY <1>1, <1>2
  <2> QED BY <2>1, <2>2, <2>3
<1>5. c[g] = 0
  <2>1. g \in g..m BY <1>1
  <2> QED BY <1>1, <1>4, <2>1
<1>6. ASSUME NEW k \in g..m + 1 PROVE c[k] <= f + 1
  <2>1. CASE k = m + 1 BY <1>3, <2>1
  <2>2. CASE k # m + 1
    <3>1. k \in g..m BY <2>2
    <3>2. c[k] \in Nat /\ c[k] <= f BY <1>4, <3>1
    <3> QED BY <3>2
  <2> QED BY <2>1, <2>2
<1>7. ASSUME NEW j \in g..m + 1, NEW k \in g..m + 1, j <= k PROVE c[j] <= c[k]
  <2>1. CASE k = m + 1
    <3>1. c[j] <= f + 1 /\ c[k] = f + 1 BY <1>3, <1>6, <2>1
    <3> QED BY <3>1
  <2>2. CASE k # m + 1
    <3>1. k \in g..m /\ j \in g..m BY <1>7, <2>2
    <3>2. cut[j] <= cut[k] BY <1>1, <1>7, <3>1
    <3> QED BY <1>4, <3>1, <3>2
  <2> QED BY <2>1, <2>2
<1>8. ASSUME NEW k \in g + 1..m + 1 PROVE Block(G, c, more, k)
  <2>1. CASE k = m + 1
    <3>1. m \in g..m /\ k - 1 = m BY <1>1, <2>1
    <3>2. c[k - 1] = a BY <1>2, <1>4, <3>1
    <3>3. c[k] = f + 1 /\ f + 1 = a + l + 1 /\ Len(more[k]) = l BY <1>2, <1>3, <2>1
    <3>4. ASSUME NEW i \in 1..l PROVE G[a + i] = more[m + 1][i]
      <4>1. f = a + l BY <1>3
      <4>2. a + i \in 1..f BY <4>1
      <4>3. G[a + i] = F[a + i] BY <1>3, <4>2
      <4> QED BY <1>3, <4>3
    <3>5. G[f + 1] = Nul BY <1>3
    <3> QED BY <2>1, <3>2, <3>3, <3>4, <3>5 DEF Block
  <2>2. CASE k # m + 1
    <3>1. k \in g + 1..m /\ k \in g..m /\ k - 1 \in g..m BY <2>2
    <3>2. Block(G, cut, more, k) BY <1>1, <3>1
    <3>3. c[k] = cut[k] /\ c[k - 1] = cut[k - 1] BY <1>4, <3>1
    <3> QED BY <3>2, <3>3 DEF Block
  <2> QED BY <2>1, <2>2
<1>9. \A i \in c[m + 1] + 1..Len(G) : G[i] \in Char BY <1>3
<1>10. g <= m + 1 /\ m + 1 <= Len(more) BY <1>1, <1>3
<1>11. \A k \in g..m + 1 : c[k] <= Len(G) BY <1>3, <1>6
<1> QED BY <1>5, <1>7, <1>8, <1>9, <1>10, <1>11 DEF Stream, Block

\* What a sequence holds when another is put behind it.
LEMMA Behind ==
  ASSUME NEW S, NEW s \in Seq(S), NEW t \in Seq(S)
  PROVE  /\ s \o t \in Seq(S) /\ Len(s \o t) = Len(s) + Len(t)
         /\ \A i \in 1..Len(s) : (s \o t)[i] = s[i]
         /\ \A i \in 1..Len(t) : (s \o t)[Len(s) + i] = t[i]
<1>1. Len(s) \in Nat /\ Len(t) \in Nat BY LenProperties
<1>2. /\ s \o t \in Seq(S) /\ Len(s \o t) = Len(s) + Len(t)
      /\ \A i \in 1..Len(s) + Len(t) :
           (s \o t)[i] = IF i <= Len(s) THEN s[i] ELSE t[i - Len(s)]
  BY ConcatProperties
<1>3. ASSUME NEW i \in 1..Len(s) PROVE (s \o t)[i] = s[i]
  <2>1. i \in 1..Len(s) + Len(t) /\ i <= Len(s) BY <1>1
  <2> QED BY <1>2, <2>1
<1>4. ASSUME NEW i \in 1..Len(t) PROVE (s \o t)[Len(s) + i] = t[i]
  <2>1. Len(s) + i \in 1..Len(s) + Len(t) /\ ~(Len(s) + i <= Len(s)) /\ Len(s) + i - Len(s) = i
    BY <1>1
  <2> QED BY <1>2, <2>1
<1> QED BY <1>2, <1>3, <1>4

\* write_some moves bytes of the line to the network, or drops them.
LEMMA FlowWrite ==
  ASSUME HandlerAssumption, Typed, FlowInv, write_some
  PROVE  FlowInv'
<1>1. /\ socket' = socket /\ current' = current /\ in' = in /\ line' = line /\ got' = got
      /\ sending # "no" /\ left # <<>>
      /\ IF sending = "delimiter" THEN sending' = "no" /\ sent' = Append(sent, current)
                                  ELSE sending' = sending /\ sent' = sent
  BY DEF write_some
<1>2. PICK n \in 1..Len(left) :
        /\ left' = SubSeq(left, n + 1, Len(left))
        /\ out' = IF socket = "connected" THEN out \o SubSeq(left, 1, n) ELSE out
  BY DEF write_some
<1>t. /\ in \in Seq(AnyByte) /\ line \in Seq(Char) /\ out \in Seq(AnyByte)
      /\ left \in Seq(AnyByte) /\ sent \in Seq(Line) /\ current \in Line
      /\ current \in Seq(Char) /\ socket \in {"closed", "connected", "broken"}
      /\ sending \in {"text", "delimiter"}
      /\ sending = "delimiter" => left = <<Nul>>
  BY <1>1 DEF Typed, TypeOK, AnyByte, Sender
<1>l. /\ Len(in) \in Nat /\ Len(line) \in Nat /\ Len(out) \in Nat /\ Len(left) \in Nat
      /\ Len(sent) \in Nat /\ Len(current) \in Nat
  BY <1>t, LenProperties
<1>p. PICK part : part = SubSeq(left, 1, n) OBVIOUS
<1>3. /\ part \in Seq(AnyByte) /\ Len(part) = n
      /\ \A i \in 1..n : part[i] = left[i]
      /\ Len(left') = Len(left) - n
      /\ \A i \in 1..Len(left) - n : left'[i] = left[n + i]
  <2>1. n \in 0..Len(left) /\ left \in Seq(AnyByte) BY <1>l, <1>t
  <2>2. /\ SubSeq(left, 1, n) \in Seq(AnyByte) /\ Len(SubSeq(left, 1, n)) = n
        /\ \A i \in 1..n : SubSeq(left, 1, n)[i] = left[i]
        /\ Len(SubSeq(left, n + 1, Len(left))) = Len(left) - n
        /\ \A i \in 1..Len(left) - n : SubSeq(left, n + 1, Len(left))[i] = left[n + i]
    BY <2>1, TakeDrop
  <2> QED BY <1>2, <1>p, <2>2
<1>4. TextLeft'
  <2> SUFFICES ASSUME sending' = "text"
               PROVE  /\ Len(left') <= Len(current)
                      /\ \A i \in 1..Len(left') :
                           left'[i] = current[Len(current) - Len(left') + i]
    BY <1>1 DEF TextLeft
  <2>1. /\ Len(left) <= Len(current)
        /\ \A i \in 1..Len(left) : left[i] = current[Len(current) - Len(left) + i]
    BY <1>1 DEF FlowInv, TextLeft
  <2>2. Len(left') <= Len(current) BY <1>3, <1>l, <2>1
  <2>3. ASSUME NEW i \in 1..Len(left')
        PROVE  left'[i] = current[Len(current) - Len(left') + i]
    <3>1. /\ n + i \in 1..Len(left) /\ i \in 1..Len(left) - n
          /\ Len(current) - Len(left) + (n + i) = Len(current) - Len(left') + i
      BY <1>3, <1>l
    <3> QED BY <1>3, <2>1, <3>1
  <2> QED BY <2>2, <2>3
<1>5. PICK F, m, cut :
        /\ F \in Seq(AnyByte) /\ m \in Nat /\ cut \in [Nat -> Nat]
        /\ Stream(F, Len(got), m, cut, sent) /\ Carried(F)
        /\ socket # "broken" => Whole(F, m, cut)
  BY DEF FlowInv, Flow
<1>g. Len(got) \in Nat /\ Len(F) \in Nat
  BY <1>5, LenProperties DEF Typed, TypeOK
<1>e. Extended(sent, sent')
  <2>1. ASSUME NEW k \in 1..Len(sent) PROVE Len(sent[k]) \in Nat
    <3>1. sent[k] \in Seq(Char) BY <1>t, ElementOfSeq DEF HandlerAssumption
    <3> QED BY <3>1, LenProperties
  <2>2. /\ Len(sent') \in Nat /\ Len(sent) <= Len(sent')
        /\ \A k \in 1..Len(sent) : sent'[k] = sent[k]
    <3>1. CASE sending = "delimiter"
      <4>1. /\ sent' = Append(sent, current) /\ sent \in Seq(Line) /\ current \in Line
            /\ Len(sent) \in Nat
        BY <1>1, <1>t, <1>l, <3>1
      <4>2. /\ Len(sent') = Len(sent) + 1
            /\ \A k \in 1..Len(sent) : sent'[k] = sent[k]
        BY <4>1, AppendProperties
      <4> QED BY <4>1, <4>2
    <3>2. CASE sending # "delimiter" BY <1>1, <1>l, <3>2
    <3> QED BY <3>1, <3>2
  <2> QED BY <1>l, <2>1, <2>2 DEF Extended
<1>6. GotPrefix'
  <2>1. Len(got) <= Len(sent) BY <1>5, <1>g, <1>l DEF Stream
  <2>2. ASSUME NEW k \in 1..Len(got) PROVE got[k] = sent'[k]
    <3>1. got[k] = sent[k] BY DEF FlowInv, GotPrefix
    <3>2. k \in 1..Len(sent) BY <1>g, <1>l, <2>1
    <3> QED BY <1>e, <3>1, <3>2 DEF Extended
  <2> QED BY <1>1, <2>2 DEF GotPrefix
<1>7. CASE socket = "broken"
  <2>1. out' = out BY <1>2, <1>7
  <2>2. Carried(F)' BY <1>1, <1>5, <2>1 DEF Carried
  <2>3. Stream(F, Len(got), m, cut, sent')
    <3>1. Longer(F, F, 0) BY <1>g DEF Longer
    <3>2. \A i \in 1..0 : F[Len(F) + i] \in Char OBVIOUS
    <3> QED BY <1>5, <1>e, <1>g, <3>1, <3>2, StreamText
  <2>4. Flow' BY <1>1, <1>5, <1>7, <2>2, <2>3 DEF Flow
  <2>5. out' = <<>> BY <1>7, <2>1 DEF FlowInv
  <2> QED BY <1>1, <1>4, <1>6, <1>7, <2>4, <2>5 DEF FlowInv
<1>8. CASE socket = "connected"
  <2>g. PICK G : G = F \o part OBVIOUS
  <2>1. /\ Len(out') = Len(out) + n
        /\ \A i \in 1..Len(out) : out'[i] = out[i]
        /\ \A i \in 1..n : out'[Len(out) + i] = left[i]
    <3>1. out' = out \o part BY <1>2, <1>p, <1>8
    <3>2. /\ Len(out \o part) = Len(out) + Len(part)
          /\ \A i \in 1..Len(out) : (out \o part)[i] = out[i]
          /\ \A i \in 1..Len(part) : (out \o part)[Len(out) + i] = part[i]
      <4>1. out \in Seq(AnyByte) /\ part \in Seq(AnyByte) BY <1>t, <1>3
      <4> QED BY <4>1, Behind
    <3> QED BY <1>3, <3>1, <3>2
  <2>2. /\ G \in Seq(AnyByte) /\ Len(G) = Len(F) + n
        /\ \A i \in 1..Len(F) : G[i] = F[i]
        /\ \A i \in 1..n : G[Len(F) + i] = left[i]
    <3>1. /\ F \o part \in Seq(AnyByte) /\ Len(F \o part) = Len(F) + Len(part)
          /\ \A i \in 1..Len(F) : (F \o part)[i] = F[i]
          /\ \A i \in 1..Len(part) : (F \o part)[Len(F) + i] = part[i]
      <4>1. F \in Seq(AnyByte) /\ part \in Seq(AnyByte) BY <1>5, <1>3
      <4> QED BY <4>1, Behind
    <3> QED BY <1>3, <2>g, <3>1
  <2>3. Whole(F, m, cut) BY <1>5, <1>8
  <2>4. Longer(F, G, n) BY <1>g, <2>2 DEF Longer
  <2>f. PICK f \in Nat, a \in Nat, b \in Nat, o \in Nat :
          /\ f = Len(F) /\ a = Len(line) /\ b = Len(in) /\ o = Len(out)
    BY <1>g, <1>l
  <2>w. f = a + b + o BY <2>3, <2>f DEF Whole
  <2>p. /\ Len(G) = f + n /\ \A i \in 1..f : G[i] = F[i]
        /\ \A i \in 1..n : G[f + i] = left[i]
    BY <2>2, <2>f
  <2>q. /\ Len(out') = o + n
        /\ \A i \in 1..o : out'[i] = out[i]
        /\ \A i \in 1..n : out'[o + i] = left[i]
    BY <2>1, <2>f
  <2>5. Carried(G)'
    <3>1. Len(line') + Len(in') + Len(out') <= Len(G)
      <4>1. a + b + (o + n) <= f + n BY <2>w
      <4> QED BY <1>1, <2>f, <2>p, <2>q, <4>1
    <3>2. ASSUME NEW i \in 1..Len(line') PROVE G[i] = line'[i]
      <4>1. i \in 1..a /\ i \in 1..f BY <1>1, <2>f, <2>w
      <4>2. F[i] = line[i] BY <1>5, <2>f, <4>1 DEF Carried
      <4> QED BY <1>1, <2>p, <4>1, <4>2
    <3>3. ASSUME NEW i \in 1..Len(in') PROVE G[Len(line') + i] = in'[i]
      <4>1. i \in 1..b /\ a + i \in 1..f BY <1>1, <2>f, <2>w
      <4>2. F[a + i] = in[i] BY <1>5, <2>f, <4>1 DEF Carried
      <4>3. G[a + i] = F[a + i] BY <2>p, <4>1
      <4> QED BY <1>1, <2>f, <4>2, <4>3
    <3>4. ASSUME NEW i \in 1..Len(out') PROVE G[Len(line') + Len(in') + i] = out'[i]
      <4>1. i \in 1..o + n BY <2>q
      <4>2. CASE i <= o
        <5>1. i \in 1..o /\ a + b + i \in 1..f BY <2>w, <4>1, <4>2
        <5>2. F[a + b + i] = out[i] BY <1>5, <2>f, <5>1 DEF Carried
        <5>3. G[a + b + i] = F[a + b + i] BY <2>p, <5>1
        <5> QED BY <1>1, <2>f, <2>q, <5>1, <5>2, <5>3
      <4>3. CASE ~(i <= o)
        <5>1. PICK j \in 1..n : o + j = i /\ f + j = a + b + i
          <6>1. i - o \in 1..n /\ o + (i - o) = i /\ f + (i - o) = a + b + i
            BY <2>w, <4>1, <4>3
          <6> QED BY <6>1
        <5>2. G[f + j] = left[j] BY <2>p
        <5>3. out'[o + j] = left[j] BY <2>q
        <5>4. G[a + b + i] = out'[i] BY <5>1, <5>2, <5>3
        <5> QED BY <1>1, <2>f, <5>4
      <4> QED BY <4>2, <4>3
    <3> QED BY <3>1, <3>2, <3>3, <3>4 DEF Carried
  <2>s. Len(G) = Len(line') + Len(in') + Len(out')
    <3>1. f + n = a + b + (o + n) BY <2>w
    <3> QED BY <1>1, <2>f, <2>p, <2>q, <3>1
  <2>6. ASSUME sending = "text" PROVE Flow'
    <3>1. /\ sending' = "text" /\ sent' = sent BY <1>1, <2>6
    <3>2. PICK l \in Nat, r \in Nat : l = Len(current) /\ r = Len(left) /\ r <= l
      BY <1>l, <2>6 DEF FlowInv, TextLeft
    <3>3. \A i \in 1..r : left[i] = current[l - r + i]
      BY <2>6, <3>2 DEF FlowInv, TextLeft
    <3>4. PICK k \in Nat : k = cut[m] BY <1>5
    <3>5. /\ f = k + (l - r) /\ m = Len(sent)
          /\ \A i \in 1..l - r : F[k + i] = current[i]
      BY <2>3, <2>6, <2>f, <3>2, <3>4 DEF Whole, Written
    <3>6. Written' = l - r + n
      <4>1. Len(current') - Len(left') = l - r + n BY <1>1, <1>3, <3>2
      <4> QED BY <3>1, <4>1 DEF Written
    <3>7. Stream(G, Len(got), m, cut, sent')
      <4>1. ASSUME NEW i \in 1..n PROVE G[Len(F) + i] \in Char
        <5>1. i \in 1..r /\ l - r + i \in 1..l BY <3>2
        <5>2. current[l - r + i] \in Char BY <1>t, <3>2, <5>1, ElementOfSeq
        <5>3. G[Len(F) + i] = left[i] BY <2>2
        <5> QED BY <3>3, <5>1, <5>2, <5>3
      <4> QED BY <1>5, <1>e, <1>g, <2>4, <4>1, StreamText
    <3>8. ASSUME NEW i \in 1..l - r + n PROVE G[k + i] = current[i]
      <4>1. CASE i <= l - r
        <5>1. i \in 1..l - r /\ k + i \in 1..f BY <3>2, <3>5, <4>1
        <5>2. F[k + i] = current[i] BY <3>5, <5>1
        <5> QED BY <2>p, <5>1, <5>2
      <4>2. CASE ~(i <= l - r)
        <5>1. f = k + (l - r) BY <3>5
        <5>2. /\ i - (l - r) \in 1..n /\ i - (l - r) \in 1..r
              /\ f + (i - (l - r)) = k + i /\ l - r + (i - (l - r)) = i
          BY <3>2, <4>2, <5>1
        <5>3. G[f + (i - (l - r))] = left[i - (l - r)] BY <2>p, <5>2
        <5>4. left[i - (l - r)] = current[l - r + (i - (l - r))] BY <3>3, <5>2
        <5> QED BY <5>2, <5>3, <5>4
      <4> QED BY <4>1, <4>2
    <3>9. Len(G) = k + (l - r + n)
      <4>1. f = k + (l - r) BY <3>5
      <4>2. f + n = k + (l - r + n) BY <3>2, <4>1
      <4> QED BY <2>p, <4>2
    <3>10. Whole(G, m, cut)'
      <4>1. m = Len(sent') BY <3>1, <3>5
      <4>2. \A i \in 1..Written' : G[cut[m] + i] = current'[i]
        BY <1>1, <3>4, <3>6, <3>8
      <4>3. Len(G) = cut[m] + Written' BY <3>4, <3>6, <3>9
      <4> QED BY <2>s, <4>1, <4>2, <4>3 DEF Whole
    <3>11. Stream(G, Len(got'), m, cut, sent') BY <1>1, <3>7
    <3>12. G \in Seq(AnyByte) /\ m \in Nat /\ cut \in [Nat -> Nat] BY <1>5, <2>2
    <3> QED BY <2>5, <3>10, <3>11, <3>12 DEF Flow
  <2>7. ASSUME sending = "delimiter" PROVE Flow'
    <3>1. /\ sending' = "no" /\ sent' = Append(sent, current) BY <1>1, <2>7
    <3>2. left[1] = Nul /\ n = 1
      <4>1. left = <<Nul>> BY <1>t, <2>7
      <4>2. Len(left) = 1 /\ left[1] = Nul BY <4>1
      <4> QED BY <4>2
    <3>3. /\ Len(sent') = Len(sent) + 1 /\ sent'[Len(sent) + 1] = current
      BY <1>t, <3>1, AppendProperties
    <3>4. /\ m = Len(sent) /\ Len(F) = cut[m] + Len(current)
          /\ \A i \in 1..Len(current) : F[cut[m] + i] = current[i]
      BY <2>3, <2>7 DEF Whole, Written
    <3> DEFINE c == [cut EXCEPT ![m + 1] = Len(F) + 1]
    <3>5. c \in [Nat -> Nat] /\ c[m + 1] = Len(F) + 1 /\ \A k \in 0..m : c[k] = cut[k]
      <4>1. m + 1 \in Nat /\ Len(F) + 1 \in Nat /\ m \in Nat BY <1>5, <1>g
      <4>2. \A k \in 0..m : k \in Nat /\ k # m + 1 BY <4>1
      <4>3. cut \in [Nat -> Nat] BY <1>5
      <4> QED BY <4>1, <4>2, <4>3
    <3> HIDE DEF c
    <3>6. G[Len(F) + 1] = Nul BY <2>2, <3>2
    <3>7. Completed(F, G, m, cut, c, sent')
      BY <1>l, <2>4, <3>2, <3>3, <3>4, <3>5, <3>6 DEF Completed
    <3>8. Stream(G, Len(got), m + 1, c, sent')
      BY <1>5, <1>e, <1>g, <3>5, <3>7, StreamLine
    <3>9. Written' = 0 BY <3>1 DEF Written
    <3>10. Len(G) = c[m + 1] + 0
      <4>1. Len(G) = Len(F) + 1 /\ Len(F) \in Nat BY <1>g, <2>2, <3>2
      <4> QED BY <3>5, <4>1
    <3>11. Whole(G, m + 1, c)'
      <4>1. m + 1 = Len(sent') BY <3>3, <3>4
      <4>2. \A i \in 1..Written' : G[c[m + 1] + i] = current'[i] BY <3>9
      <4>3. Len(G) = c[m + 1] + Written' BY <3>9, <3>10
      <4> QED BY <2>s, <4>1, <4>2, <4>3 DEF Whole
    <3>12. m + 1 \in Nat BY <1>5
    <3>13. Stream(G, Len(got'), m + 1, c, sent') BY <1>1, <3>8
    <3>14. G \in Seq(AnyByte) /\ c \in [Nat -> Nat] BY <2>2, <3>5
    <3> QED BY <2>5, <3>11, <3>12, <3>13, <3>14 DEF Flow
  <2>8. Flow' BY <1>t, <2>6, <2>7
  <2>9. socket' = "connected" BY <1>1, <1>8
  <2> QED BY <1>4, <1>6, <2>8, <2>9 DEF FlowInv
<1> QED BY <1>1, <1>t, <1>7, <1>8 DEF FlowInv

\* Every step keeps the invariant of the bytes.
LEMMA FlowStep ==
  ASSUME HandlerAssumption, Typed, FlowInv, Step
  PROVE  FlowInv'
<1>1. CASE connect BY <1>1, FlowConnect
<1>2. CASE \E l \in Line : sendFrameAscii(l) BY <1>2, FlowStart
<1>3. CASE write_some BY <1>3, FlowWrite
<1>4. CASE sendDelimiter BY <1>4, FlowDelimiter
<1>5. CASE sendFails BY <1>5, FlowFails
<1>6. CASE getBytes /\ Head(in) = Nul BY <1>6, FlowLine
<1>7. CASE getBytes /\ Head(in) # Nul BY <1>7, FlowByte
<1>8. CASE getFails BY <1>8, FlowEnds
<1>9. CASE Echo BY <1>9, FlowEcho
<1>10. CASE Break BY <1>10, FlowBreak
<1> QED BY <1>1, <1>2, <1>3, <1>4, <1>5, <1>6, <1>7, <1>8, <1>9, <1>10
        DEF Step, Handler, Network, Send

\* What a step of the handler is on the channel of lines.
LEMMA ChannelStep ==
  ASSUME HandlerAssumption, Typed, FlowInv, Step
  PROVE  Channel!ChannelNext \/ UNCHANGED Channel!ChannelVars
<1> USE DEF Channel!ChannelNext, Channel!ChannelVars
<1>1. CASE connect BY <1>1 DEF connect, writer
<1>2. CASE \E l \in Line : sendFrameAscii(l) BY <1>2 DEF sendFrameAscii
<1>3. CASE write_some
  <2>1. CASE sending = "delimiter"
    <3>1. /\ sent' = Append(sent, current) /\ current \in Line
          /\ socket' = socket /\ got' = got
      BY <1>3, <2>1 DEF write_some, Typed, Sender
    <3> QED BY <3>1 DEF Channel!SendLine
  <2>2. CASE sending # "delimiter" BY <1>3, <2>2 DEF write_some
  <2> QED BY <2>1, <2>2
<1>4. CASE sendDelimiter BY <1>4 DEF sendDelimiter
<1>5. CASE sendFails BY <1>5 DEF sendFails
<1>6. CASE getBytes /\ Head(in) = Nul
  <2>1. Len(got) < Len(sent) /\ got' = Append(got, sent[Len(got) + 1]) BY <1>6, FlowLine
  <2>2. socket' = socket /\ sent' = sent BY <1>6 DEF getBytes, writer
  <2> QED BY <2>1, <2>2 DEF Channel!GetLine
<1>7. CASE getBytes /\ Head(in) # Nul BY <1>7 DEF getBytes, Received, writer
<1>8. CASE getFails BY <1>8 DEF getFails, writer
<1>9. CASE Echo BY <1>9 DEF Echo, writer
<1>10. CASE Break
  <2>1. socket' = "broken" /\ sent' = sent /\ got' = got BY <1>10 DEF Break, writer
  <2> QED BY <2>1 DEF Channel!Break
<1> QED BY <1>1, <1>2, <1>3, <1>4, <1>5, <1>6, <1>7, <1>8, <1>9, <1>10
        DEF Step, Handler, Network, Send

\* sendLine and getLine, over bytes and through the peer, implement the safety
\* part of the channel of whole lines: no line is torn, two never run together,
\* and none comes twice or out of order, however the bytes are cut up.
THEOREM LinesAreWhole == UsersSpec => Channel!ChannelSafety
<1>1. UsersInit => Typed /\ FlowInv /\ Channel!ChannelInit
  BY HandlerAssumption, TypedInit, FlowInit DEF UsersInit, Init, Channel!ChannelInit
<1>2. Typed /\ FlowInv /\ [UsersNext]_users => (Typed /\ FlowInv)'
  BY HandlerAssumption, UsersStep, TypedStep, TypedStutter, FlowStep, FlowStutter
<1>3. Typed /\ FlowInv /\ [UsersNext]_users => [Channel!ChannelNext]_Channel!ChannelVars
  <2>1. UNCHANGED vars => UNCHANGED Channel!ChannelVars
    BY DEF vars, writer, Channel!ChannelVars
  <2> QED BY HandlerAssumption, <2>1, UsersStep, ChannelStep
<1> QED BY <1>1, <1>2, <1>3, PTL DEF UsersSpec, Channel!ChannelSafety

-----------------------------------------------------------------------------
(* The loop of the echo client *)

(***************************************************************************)
(* Where the loop is says how many lines it has begun, sent and had        *)
(* answered: at most one is on its way, and none while it waits for a key. *)
(***************************************************************************)
LoopInv ==
  /\ main = "connect" => sends = 0 /\ sent = <<>> /\ got = <<>> /\ sending = "no"
  /\ main = "getline" => sending = "no" /\ Len(got) = Len(sent) /\ Len(sent) = sends
  /\ main = "sendLine" => sending # "no" /\ Len(got) = Len(sent) /\ sends = Len(sent) + 1
  /\ main = "getLine" => sending = "no" /\ sends = Len(sent) /\ Len(sent) = Len(got) + 1

\* Every step of the echo client keeps the count.
LEMMA LoopStep ==
  ASSUME Typed, LoopInv, [UsersNext]_users
  PROVE  LoopInv'
<1>t. /\ Len(got) \in Nat /\ Len(sent) \in Nat /\ sends \in Int
      /\ sent \in Seq(Line) /\ got \in Seq(Seq(Char)) /\ line \in Seq(Char)
  BY LenProperties DEF Typed, TypeOK
<1>1. CASE Threads BY <1>1 DEF Threads, LoopInv
<1>2. CASE Start
  <2>1. CASE connect /\ main' = "getline"
    <3>1. sending' = "no" /\ sent' = <<>> /\ got' = <<>> /\ sends' = 0
      BY <1>2, <2>1 DEF Start, connect, writer, LoopInv
    <3> QED BY <2>1, <3>1, EmptySeq DEF LoopInv
  <2>2. CASE main' = "exited" BY <2>2 DEF LoopInv
  <2> QED BY <1>2, <2>1, <2>2 DEF Start
<1>3. CASE Type
  <2>1. /\ main = "getline" /\ main' = "sendLine" /\ sending' = "text" /\ sends' = sends + 1
        /\ sent' = sent /\ got' = got
    BY <1>3 DEF Type, sendFrameAscii
  <2> QED BY <1>t, <2>1 DEF LoopInv
<1>4. CASE SendLine
  <2>1. /\ main = "sendLine" /\ Send
        /\ main' = IF sending' # "no" THEN main
                   ELSE IF sent' # sent THEN "getLine" ELSE "exited"
    BY <1>4 DEF SendLine, Sending
  <2>2. got' = got /\ sends' = sends
    BY <2>1 DEF Send, write_some, sendDelimiter, sendFails
  <2>3. CASE sent' = Append(sent, current) /\ sending' = "no"
    <3>1. current \in Line BY <2>1 DEF Typed, Sender, LoopInv
    <3>2. Len(sent') = Len(sent) + 1 BY <1>t, <2>3, <3>1, AppendProperties
    <3>3. sent' # sent BY <1>t, <3>2
    <3>4. main' = "getLine" BY <2>1, <2>3, <3>3
    <3> QED BY <1>t, <2>1, <2>2, <2>3, <3>2, <3>4 DEF LoopInv
  <2>4. CASE sent' = sent /\ sending' # "no"
    <3>1. main' = "sendLine" BY <2>1, <2>4
    <3> QED BY <2>1, <2>2, <2>4, <3>1 DEF LoopInv
  <2>5. CASE sent' = sent /\ sending' = "no"
    <3>1. main' = "exited" BY <2>1, <2>5
    <3> QED BY <3>1 DEF LoopInv
  <2> QED BY <2>1, <2>3, <2>4, <2>5 DEF Send, write_some, sendDelimiter, sendFails
<1>5. CASE GetLine
  <2>1. CASE getFails /\ main' = "exited" BY <2>1 DEF LoopInv
  <2>2. CASE getBytes /\ main' = IF got' = got THEN main ELSE AfterAnswer(Last(got'))
    <3>1. /\ main = "getLine" /\ sending' = sending /\ sent' = sent /\ sends' = sends
          /\ got' = got \/ got' = Append(got, line)
      BY <1>5, <2>2 DEF GetLine, getBytes, Received, writer
    <3>2. CASE got' = got BY <2>2, <3>1, <3>2 DEF LoopInv
    <3>3. CASE got' = Append(got, line) /\ got' # got
      <4>1. Len(got') = Len(got) + 1 BY <1>t, <3>3, AppendProperties
      <4>2. main' \in {"aborted", "exited", "getline"} BY <2>2, <3>3 DEF AfterAnswer
      <4> QED BY <1>t, <3>1, <4>1, <4>2 DEF LoopInv
    <3> QED BY <3>1, <3>2, <3>3
  <2> QED BY <1>5, <2>1, <2>2 DEF GetLine
<1>6. CASE Relay
  <2>1. /\ main' = main /\ sending' = sending /\ sent' = sent /\ got' = got /\ sends' = sends
    BY <1>6 DEF Relay, Network, Echo, Break, writer
  <2> QED BY <2>1 DEF LoopInv
<1>7. CASE UNCHANGED users
  BY <1>7 DEF users, vars, writer, LoopInv
<1> QED BY <1>1, <1>2, <1>3, <1>4, <1>5, <1>6, <1>7 DEF UsersNext, Ended

\* With nothing sent that is not answered, the bytes on their way are none.
LEMMA Answered ==
  ASSUME HandlerAssumption, Typed, FlowInv, LoopInv
  PROVE  InStep
<1> SUFFICES ASSUME main = "getline", socket = "connected"
             PROVE  got = sent /\ Len(sent) = sends /\ out = <<>> /\ in = <<>>
  BY DEF InStep
<1>1. sending = "no" /\ Len(got) = Len(sent) /\ Len(sent) = sends BY DEF LoopInv
<1>t. /\ in \in Seq(AnyByte) /\ out \in Seq(AnyByte) /\ line \in Seq(Char)
      /\ sent \in Seq(Line) /\ got \in Seq(Seq(Char))
  BY DEF Typed, TypeOK, AnyByte
<1>2. got = sent
  <2>1. \A k \in 1..Len(sent) : sent[k] \in Seq(Char)
    BY <1>t, ElementOfSeq DEF HandlerAssumption
  <2>2. sent \in Seq(Seq(Char)) BY <1>t DEF HandlerAssumption
  <2>3. \A k \in 1..Len(got) : got[k] = sent[k] BY DEF FlowInv, GotPrefix
  <2> QED BY <1>1, <1>t, <2>2, <2>3, SeqEqual
<1>3. PICK F, m, cut : Stream(F, Len(got), m, cut, sent) /\ Whole(F, m, cut)
  BY DEF FlowInv, Flow
<1>4. Len(line) + Len(in) + Len(out) = 0
  <2>1. m = Len(got) /\ cut[Len(got)] = 0 BY <1>1, <1>3 DEF Stream, Whole
  <2>2. Len(F) = 0 + 0 BY <1>1, <1>3, <2>1 DEF Whole, Written
  <2> QED BY <1>3, <2>2 DEF Whole
<1>5. Len(in) = 0 /\ Len(out) = 0
  <2>1. Len(in) \in Nat /\ Len(out) \in Nat /\ Len(line) \in Nat BY <1>t, LenProperties
  <2> QED BY <1>4, <2>1
<1> QED BY <1>1, <1>2, <1>5, <1>t, EmptySeq

\* The echo client and its server stay in step, whatever is typed and however
\* the bytes are cut up: the next line is typed when every one before it has its
\* own answer and nothing is on its way.
THEOREM StaysInStep == UsersSpec => []InStep
<1>1. UsersInit => Typed /\ FlowInv /\ LoopInv
  BY HandlerAssumption, TypedInit, FlowInit DEF UsersInit, Init, LoopInv
<1>2. Typed /\ FlowInv /\ LoopInv /\ [UsersNext]_users => (Typed /\ FlowInv /\ LoopInv)'
  BY HandlerAssumption, UsersStep, TypedStep, TypedStutter, FlowStep, FlowStutter, LoopStep
<1>3. Typed /\ FlowInv /\ LoopInv => InStep BY HandlerAssumption, Answered
<1> QED BY <1>1, <1>2, <1>3, PTL DEF UsersSpec
=============================================================================
