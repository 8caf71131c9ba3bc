---------------------------- MODULE EventPipeline ----------------------------
(***************************************************************************)
(* Users report the events of their files on one channel; the server puts  *)
(* the reports in one order and a client reads them, keeps those of every  *)
(* user apart and summarises them when it is asked to.  Each reporter goes *)
(* through the steps of the report command in its own time, and may lose   *)
(* its connection at any of them.  The summary is made by the keyboard     *)
(* thread of the client, without a lock against the thread that reads.     *)
(***************************************************************************)
EXTENDS EmergencyEvents

CONSTANTS
  User, Channel,  \* the reporters, the channel of their files
  MayBreak,       \* the reporters whose connection may break
  Files,          \* the files they may report: sequences of JSON events
  Remarks         \* lines with a ':' that a description may have

JsonEvents == UNION {Range(f) : f \in Files}

\* Dates are small numbers, and the two keys of general information have values
\* without blanks around them.
ASSUME FilesAssumption ==
  /\ Files \subseteq Seq(JsonEvents)
  /\ \A j \in JsonEvents :
       /\ Convertible(j) => j.date_time.value \in Dates
       /\ j.description \in Seq([key : STRING, val : STRING, len : Nat])
       /\ DOMAIN j.general_information \subseteq InfoKeys
       /\ \A k \in DOMAIN j.general_information :
            LET v == InfoOf(j.general_information[k]) IN trim(v) = v /\ trim(Spaced(v)) = v

\* What the concatenations and the digits come to, which only TLC can compute.
ASSUME StringsAssumption ==
  /\ \A d, e \in Dates : Decimal[d] = Decimal[e] => d = e
  /\ Unslashed(Slashed(Channel)) = Channel
  /\ \A k \in InfoKeys : /\ Tabbed(k) \notin FieldKeys \cup {NoKey}
                         /\ trim(k) = k /\ trim(Tabbed(k)) = k
  /\ \A d \in Dates : ~HasColon(Decimal[d])

VARIABLES
  file,        \* what each user reports
  pc,          \* the step of its report command
  events,      \* names_and_events.events of its run of the command
  next,        \* the event the loop over them is at
  up,          \* its connection stands
  sent,        \* how many of its reports the server has relayed
  socket,      \* MESSAGE frames the reading client has not read
  process,     \* its process of a MESSAGE: the lines left and what they gave
  events_map,  \* its map: user and channel to events
  asking,      \* its summary command: where it stands, for whom, and whether
               \* the reader has changed under it what it looks at
  crashed,     \* it is dead of such a race
  summary      \* what its last summary command wrote, if anything

vars == <<file, pc, events, next, up, sent, socket, process, events_map, asking,
          crashed, summary>>

Waiting   == [busy |-> FALSE, lines |-> <<>>, parser |-> Parser]
AtPrompt  == [at |-> "prompt", of |-> "", raced |-> FALSE]
NoSummary == [of |-> "", torn |-> FALSE, text |-> Summary(<<>>)]

Init ==
  /\ file \in [User -> Files]
  /\ pc = [u \in User |-> "parse"]
  /\ events = [u \in User |-> <<>>]
  /\ next = [u \in User |-> 1]
  /\ up = [u \in User |-> TRUE]
  /\ sent = [u \in User |-> 0]
  /\ socket = <<>> /\ process = Waiting
  /\ events_map = <<>>
  /\ asking = AtPrompt /\ crashed = FALSE /\ summary = NoSummary

Step(u, from, to) == pc[u] = from /\ pc' = [pc EXCEPT ![u] = to]
Keyboard == <<asking, crashed, summary>>
Reader == <<process, events_map, Keyboard>>

\* parseEventsFile: one bad event and the file is given up, with what was read.
ParseEvents(u) ==
  /\ LET bad == \E i \in DOMAIN file[u] : ~Convertible(file[u][i]) IN
     /\ Step(u, "parse", IF bad \/ file[u] = <<>> THEN "done" ELSE "sort")
     /\ events' = [events EXCEPT ![u] =
          IF bad THEN <<>> ELSE [i \in DOMAIN file[u] |-> EventFromJson(file[u][i])]]
  /\ UNCHANGED <<file, next, up, sent, socket, Reader>>

SortEvents(u) ==
  /\ Step(u, "sort", "send")
  /\ \E s \in SortsOf(events[u], Earlier(events[u])) : events' = [events EXCEPT ![u] = s]
  /\ UNCHANGED <<file, next, up, sent, socket, Reader>>

\* The frame of the event the loop is at, relayed; or the connection is gone.
Relay(u) ==
  \/ /\ up[u] /\ sent' = [sent EXCEPT ![u] = @ + 1]
     /\ socket' = Append(socket,
                    MessageFrame(Channel, "7", "0", Body(u, events[u][next[u]])))
  \/ ~up[u] /\ UNCHANGED <<sent, socket>>

\* Mutant: the loop ends one event early.
SendEventShort(u) ==
  /\ pc[u] = "send"
  /\ pc' = [pc EXCEPT ![u] = IF next[u] >= Len(events[u]) - 1 THEN "done" ELSE "send"]
  /\ next' = [next EXCEPT ![u] = @ + 1]
  /\ Relay(u)
  /\ UNCHANGED <<file, events, up, Reader>>

\* One turn of the loop, and the server's relay to the client that reads.  When
\* sendLine fails the loop goes on with the next event.
SendEvent(u) ==
  /\ pc[u] = "send"
  /\ pc' = [pc EXCEPT ![u] = IF next[u] = Len(events[u]) THEN "done" ELSE "send"]
  /\ next' = [next EXCEPT ![u] = @ + 1]
  /\ Relay(u)
  /\ UNCHANGED <<file, events, up, Reader>>

\* The connection of a reporter breaks: what it has sent by then is relayed.
Break(u) ==
  /\ u \in MayBreak /\ up[u] /\ up' = [up EXCEPT ![u] = FALSE]
  /\ UNCHANGED <<file, pc, events, next, sent, socket, Reader>>

\* events_map[user][channel].push_back(event)
PushBack(map, e) ==
  LET k   == <<e.user, e.channel>>
      old == IF k \in DOMAIN map THEN map[k] ELSE <<>> IN
  With(map, k, Append(old, e))

Reporters == <<file, pc, events, next, up, sent>>

TakeFrame ==
  /\ ~crashed /\ ~process.busy /\ socket # <<>>
  /\ process' = [busy |-> TRUE, lines |-> Head(socket), parser |-> Parser]
  /\ socket' = Tail(socket)
  /\ UNCHANGED <<Reporters, events_map, Keyboard>>

\* One turn of the loop; an exception stops the reader for good.
ReadLine ==
  /\ ~crashed /\ process.busy /\ process.lines # <<>> /\ ~process.parser.threw
  /\ process' = [process EXCEPT !.lines = Tail(@),
                               !.parser = ParseLine(@, Head(process.lines))]
  /\ UNCHANGED <<Reporters, socket, events_map, Keyboard>>

\* The lookup walks the map while it grows; the vector is copied while
\* push_back adds to it.
Races(k) ==
  \/ asking.at = "find" /\ k \notin DOMAIN events_map
  \/ asking.at = "copy" /\ k = <<asking.of, Channel>>

KeepEvent ==
  /\ ~crashed /\ process.busy /\ process.lines = <<>> /\ ~process.parser.threw
  /\ LET e == process.parser.fields IN
     /\ events_map' = PushBack(events_map, e)
     /\ asking' = [asking EXCEPT !.raced = @ \/ Races(<<e.user, e.channel>>)]
  /\ process' = Waiting
  /\ UNCHANGED <<Reporters, socket, crashed, summary>>

\* The summary command, in three steps of the keyboard thread.
Ask(u) ==
  /\ ~crashed /\ asking.at = "prompt"
  /\ asking' = [at |-> "find", of |-> u, raced |-> FALSE]
  /\ summary' = NoSummary
  /\ UNCHANGED <<Reporters, socket, process, events_map, crashed>>

\* A data race: the program may die of it.
Crash ==
  /\ asking.raced /\ crashed' = TRUE /\ asking' = AtPrompt

\* The user is in the map or not; a lookup in a map that grows may miss him.
FindEvents ==
  /\ ~crashed /\ asking.at = "find"
  /\ \/ /\ <<asking.of, Channel>> \in DOMAIN events_map /\ crashed' = FALSE
        /\ asking' = [at |-> "copy", of |-> asking.of, raced |-> FALSE]
     \/ /\ <<asking.of, Channel>> \notin DOMAIN events_map \/ asking.raced
        /\ asking' = AtPrompt /\ crashed' = FALSE
     \/ Crash
  /\ UNCHANGED <<Reporters, socket, process, events_map, summary>>

\* The events are copied and sorted and the summary is written, torn when
\* the vector changed during the copy.
Summarise ==
  /\ ~crashed /\ asking.at = "copy"
  /\ \/ /\ LET kept == events_map[<<asking.of, Channel>>] IN
             \E s \in SortsOf(kept, SummaryBefore(kept)) :
               summary' = [of |-> asking.of, torn |-> asking.raced, text |-> Summary(s)]
        /\ asking' = AtPrompt /\ crashed' = FALSE
     \/ Crash /\ summary' = summary
  /\ UNCHANGED <<Reporters, socket, process, events_map>>

Next == \/ \E u \in User : \/ ParseEvents(u) \/ SortEvents(u) \/ SendEvent(u)
                           \/ Break(u) \/ Ask(u)
        \/ TakeFrame \/ ReadLine \/ KeepEvent
        \/ FindEvents \/ Summarise

Spec == Init /\ [][Next]_vars
FairSpec == Spec /\ WF_vars(TakeFrame \/ ReadLine \/ KeepEvent)
                 /\ \A u \in User : WF_vars(ParseEvents(u) \/ SortEvents(u) \/ SendEvent(u))

-----------------------------------------------------------------------------
(* Properties *)

Kept(u) == IF <<u, Channel>> \in DOMAIN events_map
           THEN events_map[<<u, Channel>>] ELSE <<>>

\* Without a ':' in a description each of its lines is read for what it is.
PlainDescriptions ==
  \A j \in JsonEvents : j.description \in Seq([key : {NoKey}, val : {""}, len : Nat])

Trimmed(info) == {<<trim(k), trim(info[k])>> : k \in DOMAIN info}
Same(kept, e) ==
  /\ kept.city = e.city /\ kept.name = e.name /\ kept.date_time = e.date_time
  /\ Trimmed(kept.general_information) = Trimmed(e.general_information)
  /\ kept.description = Append(e.description, Prose(0))

\* Reports of every user come out as they were sent, in the order they were
\* sent, kept apart from those of others, with nothing lost or made up on the
\* way through the frame's lines: only the server's extra newline is added.
ReportsArrive ==
  /\ DOMAIN events_map \subseteq User \X {Channel}
  /\ \A u \in User : \A i \in DOMAIN Kept(u) :
       i <= sent[u] /\ Same(Kept(u)[i], events[u][i])

Shows(r, e) ==
  /\ r.city = e.city /\ r.date_time = e.date_time /\ r.name = e.name
  /\ r.summary = Append(e.description, Prose(0))
Having(s, key) ==
  {i \in DOMAIN s : /\ key \in DOMAIN s[i].general_information
                    /\ s[i].general_information[key] = "true"}

Summarises(t, s) ==
  /\ t.total = Len(s) /\ Len(t.reports) = t.total
  /\ t.active = Cardinality(Having(s, "active"))
  /\ t.arrivals = Cardinality(Having(s, "forces_arrival_at_scene"))
  /\ \A i \in 1..t.total :
       Cardinality({j \in DOMAIN s : Shows(t.reports[i], s[j])})
         = Cardinality({j \in 1..t.total : t.reports[j] = t.reports[i]})
  /\ \A i, j \in 1..t.total :
       i < j => LET a == t.reports[i] b == t.reports[j] IN
                \/ a.date_time < b.date_time
                \/ a.date_time = b.date_time /\ ~NameBefore(b.name, a.name)
  /\ \A i \in 1..t.total :
       t.reports[i].cut <=> SizeOf(Front(t.reports[i].summary)) - 1 > 25

\* A summary that no report has overtaken counts and shows exactly the first
\* reports of the user, by time and then by name, whatever order the two sorts
\* left equal events in; reports of others may arrive while it is made.  It
\* cuts exactly the descriptions that had more than 25 characters when they
\* were sent: two newlines are added on their way.
SummaryFaithful ==
  summary.of # "" /\ ~summary.torn =>
    LET t == summary.text IN
    /\ t.total <= sent[summary.of]
    /\ Summarises(t, SubSeq(events[summary.of], 1, t.total))

\* The reports that were sent before the connection broke all get to the client
\* in the end, and if it did not break that is every report of the file, unless
\* an event of it could not be read.
AllReported == \A u \in User :
  <>[](/\ pc[u] = "done" /\ (~crashed => Len(Kept(u)) = sent[u])
       /\ up[u] /\ events[u] # <<>> => sent[u] = Len(file[u]))

\* Event(frame_body), which nothing calls yet, would read back every report on
\* its way, also one whose description has a line that looks like a field, or
\* like general information: the date, every line of the description, and the
\* user, the city and the name, as long as they have no ':'.
SentBy(u) == {events[u][i] : i \in 1..sent[u]}
Remarked(e, r) == [e EXCEPT !.description = <<r>> \o @]
ReadBack(got, value) == ~HasColon(value) => got = value
ConstructorReads ==
  \A u \in User : \A e \in SentBy(u) : \A r \in Remarks :
    LET f == EventOfBody(Body(u, Remarked(e, r)) \o <<Prose(0)>>).fields IN
    /\ ReadBack(f.user, u) /\ ReadBack(f.city, e.city) /\ ReadBack(f.name, e.name)
    /\ f.date_time = e.date_time
    /\ f.description = <<r>> \o e.description \o <<Prose(0)>>
=============================================================================
