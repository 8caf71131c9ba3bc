---------------------------- MODULE FrameChannel ----------------------------
(***************************************************************************)
(* What a pair of sendLine and getLine promises: lines come out whole, in  *)
(* the order they went in, none twice and none made up.  A broken          *)
(* connection ends the sequence and tears no line in two.                  *)
(***************************************************************************)
EXTENDS Naturals, Sequences

CONSTANT Line

VARIABLES sent, got, broken

ChannelVars == <<sent, got, broken>>

ChannelInit == sent = <<>> /\ got = <<>> /\ broken = FALSE

SendLine == /\ \E l \in Line : sent' = Append(sent, l)
            /\ UNCHANGED <<got, broken>>

GetLine == /\ Len(got) < Len(sent)
           /\ got' = Append(got, sent[Len(got) + 1])
           /\ UNCHANGED <<sent, broken>>

Break == broken' = TRUE /\ UNCHANGED <<sent, got>>

ChannelNext == SendLine \/ GetLine \/ Break

ChannelSafety == ChannelInit /\ [][ChannelNext]_ChannelVars

\* As long as the connection lasts the lines that were sent are read.
ChannelSpec == ChannelSafety /\ WF_ChannelVars(~broken /\ GetLine)
=============================================================================
