-------------------------- MODULE ConnectionHandler --------------------------
(***************************************************************************)
(* A ConnectionHandler of the client: sendLine and getLine down to the     *)
(* bytes that write_some and read_some move, as many or as few at a time as*)
(* they like.  Who calls them, and from which thread, is HandlerUsers.  The*)
(* peer sends back the bytes it gets, in pieces of any size.  The          *)
(* connection may break at any time and take bytes in flight with it.      *)
(*                                                                         *)
(* sent and got are history: the lines for which sendLine reached the end, *)
(* and those getLine returned.                                             *)
(***************************************************************************)
EXTENDS Integers, Sequences, SequencesExt

CONSTANTS
  Char, Nul,   \* the bytes; Nul is the delimiter
  Line,        \* the lines that are sent
  MaxLines,    \* bound on their number
  MayBreak     \* whether the connection may break

ASSUME HandlerAssumption ==
  /\ Nul \notin Char /\ Line \subseteq Seq(Char)
  /\ MaxLines \in Nat /\ MayBreak \in BOOLEAN

VARIABLES
  socket,         \* not connected, connected, broken
  sending, left,  \* sendFrameAscii: where it is, the bytes sendBytes has left
  current,        \* its argument
  out, in,        \* bytes on their way to the peer and back
  line,           \* getFrameAscii: the bytes read so far
  sent, got, sends

writer == <<sending, left, current, sent, sends>>
vars   == <<socket, writer, out, in, line, got>>

TypeOK ==
  /\ socket \in {"closed", "connected", "broken"}
  /\ sending \in {"no", "text", "delimiter"}
  /\ left \in Seq(Char \cup {Nul}) /\ current \in Seq(Char)
  /\ out \in Seq(Char \cup {Nul}) /\ in \in Seq(Char \cup {Nul})
  /\ line \in Seq(Char)
  /\ sent \in Seq(Line) /\ got \in Seq(Seq(Char)) /\ sends \in 0..MaxLines

Init ==
  /\ socket = "closed"
  /\ sending = "no" /\ left = <<>> /\ current = <<>>
  /\ out = <<>> /\ in = <<>> /\ line = <<>>
  /\ sent = <<>> /\ got = <<>> /\ sends = 0

connect ==
  /\ socket = "closed" /\ socket' = "connected"
  /\ UNCHANGED <<writer, out, in, line, got>>

-----------------------------------------------------------------------------
(* sendLine *)

sendFrameAscii(l) ==
  /\ sending = "no" /\ socket # "closed" /\ sends < MaxLines
  /\ sending' = "text" /\ left' = l /\ current' = l /\ sends' = sends + 1
  /\ UNCHANGED <<socket, out, in, line, sent, got>>

\* Some of the bytes go out; on a broken connection the kernel may take them
\* and drop them.
write_some ==
  /\ sending # "no" /\ left # <<>>
  /\ \E n \in 1..Len(left) :
       /\ left' = SubSeq(left, n + 1, Len(left))
       /\ out' = IF socket = "connected" THEN out \o SubSeq(left, 1, n) ELSE out
  /\ IF sending = "delimiter"
     THEN sending' = "no" /\ sent' = Append(sent, current)
     ELSE UNCHANGED <<sending, sent>>
  /\ UNCHANGED <<socket, current, sends, in, line, got>>

\* Mutant: sendLine sends the text alone.
sendNoDelimiter ==
  /\ sending = "text" /\ left = <<>>
  /\ sending' = "no" /\ sent' = Append(sent, current)
  /\ UNCHANGED <<socket, left, current, sends, out, in, line, got>>

sendDelimiter ==
  /\ sending = "text" /\ left = <<>>
  /\ sending' = "delimiter" /\ left' = <<Nul>>
  /\ UNCHANGED <<socket, current, sent, sends, out, in, line, got>>

\* The error of write_some ends sendBytes and sendFrameAscii.
sendFails ==
  /\ sending # "no" /\ left # <<>> /\ socket = "broken"
  /\ sending' = "no" /\ left' = <<>>
  /\ UNCHANGED <<socket, current, sent, sends, out, in, line, got>>

Send == write_some \/ sendDelimiter \/ sendFails

-----------------------------------------------------------------------------
(* getLine *)

\* Mutant: the delimiter is kept.
ReceivedRaw(b) ==
  IF b = Nul THEN line' = <<>> /\ got' = Append(got, Append(line, b))
             ELSE line' = Append(line, b) /\ got' = got

Received(b) ==
  IF b = Nul THEN line' = <<>> /\ got' = Append(got, line)
             ELSE line' = Append(line, b) /\ got' = got

\* Mutant: a line that the end of the connection cuts is returned.
getBytesOrEnd ==
  /\ socket # "closed"
  /\ \/ in # <<>> /\ in' = Tail(in) /\ Received(Head(in))
     \/ in = <<>> /\ socket = "broken" /\ in' = in /\ Received(Nul)
  /\ UNCHANGED <<socket, writer, out>>

getBytes ==
  /\ in # <<>> /\ in' = Tail(in) /\ Received(Head(in))
  /\ UNCHANGED <<socket, writer, out>>

\* End of stream or an error: the part of a line is dropped with the string.
getFails ==
  /\ in = <<>> /\ socket = "broken"
  /\ line' = <<>>
  /\ UNCHANGED <<socket, writer, out, in, got>>

-----------------------------------------------------------------------------
(* The peer and the network *)

Echo ==
  /\ out # <<>>
  /\ \E n \in 1..Len(out) : /\ in' = in \o SubSeq(out, 1, n)
                            /\ out' = SubSeq(out, n + 1, Len(out))
  /\ UNCHANGED <<socket, writer, line, got>>

Break ==
  /\ MayBreak /\ socket = "connected" /\ socket' = "broken"
  /\ out' = <<>> /\ \E n \in 0..Len(in) : in' = SubSeq(in, 1, n)
  /\ UNCHANGED <<writer, line, got>>

Handler == \/ connect \/ \E l \in Line : sendFrameAscii(l)
           \/ Send \/ getBytes \/ getFails
Network == Echo \/ Break

-----------------------------------------------------------------------------
(* Properties *)

\* sendLine and getLine, over bytes and through the peer, are a channel of
\* whole lines: however the bytes are cut up, two lines never run together and
\* none is torn, and what is sent is read as long as the connection lasts.
Channel == INSTANCE FrameChannel WITH broken <- (socket = "broken")
IsFrameChannel == Channel!ChannelSpec
=============================================================================
