------------------------------ MODULE StompCodec ------------------------------
(***************************************************************************)
(* STOMPEncoderDecoder: a frame out of a stream of bytes, one byte at a    *)
(* time, with a buffer, a state and the current header kept between calls  *)
(* and between frames.  The frames are those that StompProtocol writes.    *)
(*                                                                         *)
(* Bytes are NL, Colon, Nul and Word, which stands for any run of others.  *)
(***************************************************************************)
EXTENDS Naturals, Sequences, SequencesExt

CONSTANTS
  Word, NL, Colon, Nul, Null,
  Frames,       \* the frames that are written
  MaxFrames     \* how many there may be in a stream

Byte  == Word \cup {NL, Colon, Nul}
Frame == [command : Seq(Byte), headers : Seq(Seq(Byte) \X Seq(Byte)), body : Seq(Byte)]

ASSUME CodecAssumption ==
  /\ {NL, Colon, Nul} \cap Word = {} /\ NL # Colon /\ Nul \notin {NL, Colon}
  /\ Frames \subseteq Frame /\ MaxFrames \in Nat /\ Null \notin Seq(Byte)

VARIABLES
  written,       \* history: the frames of the stream
  stream,        \* its bytes that are still to come
  state, bytes,  \* the decoder's state and buffer
  currentHeader, currentFrame,
  decoded,       \* history: the frames decodeNextByte returned
  threw

vars == <<written, stream, state, bytes, currentHeader, currentFrame, decoded, threw>>

-----------------------------------------------------------------------------
(* Writing *)

HeaderLines(f) ==
  FlattenSeq([i \in DOMAIN f.headers |->
                f.headers[i][1] \o <<Colon>> \o f.headers[i][2] \o <<NL>>])

\* The frames of processKeyboardInput: an empty line ends the headers.
ClientFrame(f) == f.command \o <<NL>> \o HeaderLines(f) \o <<NL>> \o f.body \o <<Nul>>

-----------------------------------------------------------------------------
(* decodeNextByte *)

\* A header map as a function; put replaces.
Put(map, key, value) ==
  [k \in DOMAIN map \cup {key} |-> IF k = key THEN value ELSE map[k]]
Empty(command) == [command |-> command, headers |-> <<>>, body |-> <<>>]

Init ==
  /\ \E n \in 1..MaxFrames : written \in [1..n -> Frames]
  /\ stream = FlattenSeq([i \in DOMAIN written |-> ClientFrame(written[i])])
  /\ state = "READING_COMMAND" /\ bytes = <<>>
  /\ currentHeader = Null /\ currentFrame = Null
  /\ decoded = <<>> /\ threw = FALSE

Take(set)   == /\ ~threw /\ stream # <<>> /\ Head(stream) \in set
               /\ stream' = Tail(stream) /\ written' = written
pushByte    == bytes' = Append(bytes, Head(stream))
popString   == bytes' = <<>>

EndCommand ==
  /\ state = "READING_COMMAND" /\ Take({NL})
  /\ currentFrame' = Empty(bytes) /\ popString /\ state' = "READING_HEADERS"
  /\ UNCHANGED <<currentHeader, decoded, threw>>

\* addHeader(null, ...) throws: no ':' was ever seen.
EndHeader ==
  /\ state = "READING_HEADERS" /\ Take({NL}) /\ bytes # <<>>
  /\ IF currentHeader = Null
     THEN threw' = TRUE /\ UNCHANGED currentFrame
     ELSE /\ currentFrame' = [currentFrame EXCEPT
                                !.headers = Put(@, currentHeader, bytes)]
          /\ threw' = threw
  /\ popString /\ UNCHANGED <<state, currentHeader, decoded>>

EndHeaders ==
  /\ state = "READING_HEADERS" /\ Take({NL}) /\ bytes = <<>>
  /\ state' = "READING_BODY"
  /\ UNCHANGED <<bytes, currentHeader, currentFrame, decoded, threw>>

EndName ==
  /\ state = "READING_HEADERS" /\ Take({Colon})
  /\ currentHeader' = bytes /\ popString
  /\ UNCHANGED <<state, currentFrame, decoded, threw>>

\* Mutant: the buffer is not emptied.
EndBodyDirty ==
  /\ state = "READING_BODY" /\ Take({Nul})
  /\ decoded' = Append(decoded, [currentFrame EXCEPT !.body = bytes])
  /\ state' = "READING_COMMAND"
  /\ UNCHANGED <<bytes, currentHeader, currentFrame, threw>>

EndBody ==
  /\ state = "READING_BODY" /\ Take({Nul})
  /\ decoded' = Append(decoded, [currentFrame EXCEPT !.body = bytes])
  /\ popString /\ state' = "READING_COMMAND"
  /\ UNCHANGED <<currentHeader, currentFrame, threw>>

Special == CASE state = "READING_COMMAND" -> {NL}
             [] state = "READING_HEADERS" -> {NL, Colon}
             [] state = "READING_BODY"    -> {Nul}

OtherByte ==
  /\ Take(Byte \ Special) /\ pushByte
  /\ UNCHANGED <<state, currentHeader, currentFrame, decoded, threw>>

decodeNextByte == \/ EndCommand \/ EndHeader \/ EndHeaders \/ EndName
                  \/ EndBody \/ OtherByte

Spec == Init /\ [][decodeNextByte]_vars

-----------------------------------------------------------------------------
(* Properties *)

AsDecoded(f) ==
  [command |-> f.command, body |-> f.body,
   headers |-> [k \in {f.headers[i][1] : i \in DOMAIN f.headers} |->
                  f.headers[CHOOSE i \in DOMAIN f.headers : f.headers[i][1] = k][2]]]

\* A frame the decoder can read: no delimiter inside what it delimits, no empty
\* value, and no header twice.
WellFormed(f) ==
  /\ f.command \in Seq(Byte \ {NL})
  /\ f.headers \in Seq(Seq(Byte \ {NL, Colon}) \X Seq(Byte \ {NL, Colon}))
  /\ \A i \in DOMAIN f.headers : f.headers[i][2] # <<>>
  /\ \A i, j \in DOMAIN f.headers : f.headers[i][1] = f.headers[j][1] => i = j
  /\ f.body \in Seq(Byte \ {Nul})

ReadableFrames == \A f \in Frames : WellFormed(f)

\* The frames that come out are those that went in, whatever frame came before:
\* neither the buffer nor the header's name is carried from one to the next,
\* and no byte is left over.
RoundTrip ==
  /\ ~threw
  /\ \A i \in DOMAIN decoded : decoded[i] = AsDecoded(written[i])
  /\ stream = <<>> => /\ Len(decoded) = Len(written)
                      /\ state = "READING_COMMAND" /\ bytes = <<>>
=============================================================================
