---------------------------- MODULE MCStompServer ----------------------------
(***************************************************************************)
(* Small instances of StompServer.  An instance is given by the frames each*)
(* client may send; a client sends any of them, in any order and repeatedly*)
(* up to MaxFrames.                                                        *)
(***************************************************************************)
EXTENDS StompServerProperties, TLC

CONSTANTS c1, c2, ann, bob, pw, pw2, news, s1, s2

Blank == [NoFrame EXCEPT !.receipt = TRUE]

Connect(u, p)   == [Blank EXCEPT !.cmd = "CONNECT", !.name = u, !.pass = p]
Subscribe(i)    == [Blank EXCEPT !.cmd = "SUBSCRIBE", !.dest = news, !.id = i]
Unsubscribe(i)  == [Blank EXCEPT !.cmd = "UNSUBSCRIBE", !.id = i]
Publish         == [Blank EXCEPT !.cmd = "SEND", !.dest = news]
Disconnect      == [Blank EXCEPT !.cmd = "DISCONNECT"]
NoReceipt(f)    == [f EXCEPT !.receipt = FALSE]

\* Frames that fail a check, or a conversion, of each handler.
Broken == {Connect(None, None), NoReceipt(Disconnect), Blank,
           Subscribe(None), Subscribe(NaN), [Subscribe(s1) EXCEPT !.dest = None],
           Unsubscribe(None), Unsubscribe(NaN), [Publish EXCEPT !.dest = None]}

Session(u) == {Connect(u, pw), Subscribe(s1), Unsubscribe(s1), Publish}

\* Two clients under names of their own; one may ask for a channel twice.
PersonalSends ==
  (c1 :> {Connect(ann, pw), Subscribe(s1), Publish, Disconnect}) @@
  (c2 :> {Connect(bob, pw), Subscribe(s1), Subscribe(s2), Publish,
          Unsubscribe(s1)})
\* One name for both, with a wrong password, and every frame that is refused.
SharedSends ==
  (c1 :> Session(ann) \cup {Disconnect}) @@
  (c2 :> Session(ann) \cup {Subscribe(s2), Connect(ann, pw2)} \cup Broken)

\* Bounds on the frames each client sends.
Frames32 == (c1 :> 3) @@ (c2 :> 2)
Frames34 == (c1 :> 3) @@ (c2 :> 4)
=============================================================================
