-------------------------- MODULE MCActorThreadPool --------------------------
(***************************************************************************)
(* Two connections on a pool of two threads, and the selector thread.      *)
(***************************************************************************)
EXTENDS ActorThreadPool

CONSTANTS a1, a2, w1, w2
=============================================================================
