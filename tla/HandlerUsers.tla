---------------------------- MODULE HandlerUsers ----------------------------
(***************************************************************************)
(* The two programs that use a ConnectionHandler.  StompClient sends on one*)
(* thread and reads on another: every step of the handler may come at any  *)
(* time.  The echo client types a line, sends it, waits for the answer and *)
(* drops its last character, all on one thread.                            *)
(***************************************************************************)
EXTENDS ConnectionHandler

CONSTANT Bye    \* the answer that ends the echo client

VARIABLE main   \* "threads", or where the loop of the echo client is

users == <<vars, main>>

UsersInit == Init /\ main \in {"threads", "connect"}

Threads == main = "threads" /\ Handler /\ main' = main

Start == /\ main = "connect"
         /\ \/ connect /\ main' = "getline"
            \/ main' = "exited" /\ UNCHANGED vars

Type == /\ main = "getline" /\ main' = "sendLine"
        /\ \E l \in Line : sendFrameAscii(l)

Sending == main = "sendLine" /\ Send

\* Mutant: the answer is not waited for.
SendLineAhead ==
  /\ Sending
  /\ main' = IF sending' # "no" THEN main
             ELSE IF sent' # sent THEN "getline" ELSE "exited"

SendLine ==
  /\ Sending
  /\ main' = IF sending' # "no" THEN main
             ELSE IF sent' # sent THEN "getLine" ELSE "exited"

\* answer.resize(len - 1) throws for an empty answer, and nothing catches it.
AfterAnswer(answer) ==
  IF answer = <<>> THEN "aborted"
  ELSE IF Front(answer) = Bye THEN "exited" ELSE "getline"

GetLine ==
  /\ main = "getLine"
  /\ \/ getBytes /\ main' = IF got' = got THEN main ELSE AfterAnswer(Last(got'))
     \/ getFails /\ main' = "exited"

Relay == Network /\ main' = main

\* The program is over, or nobody types.
Ended == /\ \/ main \in {"exited", "aborted", "getline"}
            \/ main = "threads" /\ sending = "no" /\ sends = MaxLines
         /\ UNCHANGED users

UsersNext == Threads \/ Start \/ Type \/ SendLine \/ GetLine \/ Relay \/ Ended

\* Every thread runs and the peer answers; nobody has to type.
Writing == SendLine \/ (main = "threads" /\ Send /\ main' = main)
Reading == GetLine \/ (main = "threads" /\ getBytes /\ main' = main)
UsersSpec == /\ UsersInit /\ [][UsersNext]_users
             /\ WF_users(Writing) /\ WF_users(Reading)
             /\ WF_users(Echo /\ main' = main)

-----------------------------------------------------------------------------
(* Properties *)

\* When the next line is typed, every line before it has its own answer: none
\* is late, and nothing of one is left in the socket.
InStep == (main = "getline" /\ socket = "connected") =>
             got = sent /\ Len(sent) = sends /\ out = <<>> /\ in = <<>>

\* A line that the echo client sends gets its answer, or the client sees the
\* connection end.
AnswersCome == (main = "sendLine") ~> (main \in {"getline", "exited", "aborted"})
=============================================================================
