---------------------------- MODULE MCStompClient ----------------------------
(* Instances of StompClient for TLC: what may be typed. *)
EXTENDS StompClient

CONSTANTS ann, bob, news, s1

Typed(o, u, ch, n, t) == [op |-> o, user |-> u, chan |-> ch, events |-> n, text |-> t]

Logins    == {Typed("login", u, None, 0, "plain") : u \in User}
Join(ch)  == Typed("join", None, ch, 0, "plain")
Exit(ch)  == Typed("exit", None, ch, 0, "plain")
Logout    == Typed("logout", None, None, 0, "plain")
Summary   == Typed("summary", ann, news, 0, "plain")
Report(n) == Typed("report", None, news, n, "plain")

UserCommands ==
  Logins \cup {Logout, Report(2)} \cup {Join(ch) : ch \in Channel}
    \cup {Exit(ch) : ch \in Channel}
HastyCommands ==
  Logins \cup {Logout, Report(1), Exit(news), Summary, Join(None)}
    \cup {Join(ch) : ch \in Channel}
=============================================================================
