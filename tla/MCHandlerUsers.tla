---------------------------- MODULE MCHandlerUsers ----------------------------
(* Instances of HandlerUsers for TLC: lines of up to three characters. *)
EXTENDS HandlerUsers

CONSTANTS a, b

Lines   == {<<>>, <<a>>, <<b, a>>, <<b, a, b>>}
ByeWord == <<b, a>>
=============================================================================
