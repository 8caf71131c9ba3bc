----------------------------- MODULE MCStompCodec -----------------------------
(* Instances of StompCodec for TLC: the frames that are written. *)
EXTENDS StompCodec

CONSTANTS connect, send, disconnect, name, value, text

F(command, headers, body) == [command |-> command, headers |-> headers, body |-> body]

Login   == F(<<connect>>, << <<<<name>>, <<value>>>>, <<<<text>>, <<value, text>>>> >>, <<>>)
Report  == F(<<send>>, << <<<<name>>, <<value>>>> >>, <<text, Colon, text, NL, NL, text, NL>>)
Logout  == F(<<disconnect>>, << <<<<value>>, <<name>>>> >>, <<>>)
NoTitle == F(<<send>>, <<>>, <<text>>)

ClientFrames == {Login, Report, Logout, NoTitle}

\* These frames are of the kind the decoder is meant to read.
ASSUME ClientFramesReadable == ReadableFrames
=============================================================================
