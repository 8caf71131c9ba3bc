------------------------------ MODULE MCReactor ------------------------------
(***************************************************************************)
(* Two connections on the reactor.                                         *)
(***************************************************************************)
EXTENDS Reactor, TLC

CONSTANTS h1, h2

\* Both clients publish; one of them also makes a mistake.
OneBad == (h1 :> {"publish", "bad"}) @@ (h2 :> {"publish"})

\* One client publishes or makes a mistake, the other one only listens.
Listener == (h1 :> {"publish", "bad"}) @@ (h2 :> {})
=============================================================================
