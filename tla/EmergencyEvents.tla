--------------------------- MODULE EmergencyEvents ---------------------------
(***************************************************************************)
(* Emergency events on their way through a client: read from a JSON file   *)
(* (parseEventsFile), written as the body of a SEND frame (report), relayed*)
(* by the server as a MESSAGE, read back line by line                      *)
(* (processMessageFrame), and summarised (processSummaryCommand).  Pure    *)
(* definitions; EventPipeline puts them in motion.                         *)
(*                                                                         *)
(* A text is a sequence of lines.  A line is what the readers make of it:  *)
(* the key and the value around its first ':', or NoKey, and its length.   *)
(* No line starts with ':'.                                                *)
(***************************************************************************)
EXTENDS Integers, Sequences, FiniteSets, SequencesExt

CONSTANT Names   \* the names of events, in lexicographic order

NoKey == ""

Line(key, val) == [key |-> key, val |-> val, len |-> 0]
Prose(n)       == [key |-> NoKey, val |-> "", len |-> n]  \* n chars, no ':'
Remark(key, val, n) == [key |-> key, val |-> val, len |-> n]

\* std::stoi and operator<< between an int and its digits; dates are small.
Dates   == 0..9
Decimal == [d \in Dates |-> ToString(d)]
IsDate(v) == \E d \in Dates : Decimal[d] = v
stoi(v)   == CHOOSE d \in Dates : Decimal[d] = v

-----------------------------------------------------------------------------
(* The file.  A JSON value is [json |-> its type, value |-> ...]; the value of *)
(* general information is written as it is in the file, without quotes.      *)

\* A member of another type than the variable it is assigned to throws.
Convertible(j) == j.date_time.json = "number"

\* dump() would put the quotes back, so a string is taken as it is.
dump(j)   == IF j.json = "string" THEN "\"" \o j.value \o "\"" ELSE j.value
InfoOf(j) == IF j.json = "string" THEN j.value ELSE dump(j)

EventFromJson(j) ==
  [city |-> j.city, name |-> j.event_name, date_time |-> j.date_time.value,
   description |-> j.description,
   general_information |-> [k \in DOMAIN j.general_information |->
                              InfoOf(j.general_information[k])]]

\* What std::sort may make of s, for a lambda given as the pairs of positions it
\* holds for: equal elements end up in any order.
Orders(n) == {p \in [1..n -> 1..n] : \A i, j \in 1..n : p[i] = p[j] => i = j}
SortsOf(s, before) ==
  {[i \in DOMAIN s |-> s[p[i]]] : p \in
     {q \in Orders(Len(s)) : \A i, j \in DOMAIN s : i < j => <<q[j], q[i]>> \notin before}}

Positions(s) == (DOMAIN s) \X (DOMAIN s)

\* The lambda of report.
Earlier(s) == {p \in Positions(s) : s[p[1]].date_time < s[p[2]].date_time}

-----------------------------------------------------------------------------
(* The frames *)

\* std::map iterates over its keys in order; "\t" << first << ": " << second.
InfoKeys  == {"active", "forces_arrival_at_scene"}
Tabbed(k) == "\t" \o k
Spaced(v) == " " \o v
InfoLine(e, k) ==
  IF k \in DOMAIN e.general_information
  THEN <<Line(Tabbed(k), Spaced(e.general_information[k]))>> ELSE <<>>
InfoLines(e) == InfoLine(e, "active") \o InfoLine(e, "forces_arrival_at_scene")

Body(user, e) ==
  <<Line("user", user), Line("city", e.city), Line("event name", e.name),
    Line("date time", Decimal[e.date_time]), Line("general information", "")>>
  \o InfoLines(e) \o <<Line("description", "")>> \o e.description

Slashed(channel) == "/" \o channel

\* The body ends in a newline and StompFrame::toString writes one more.
MessageFrame(channel, id, sub, body) ==
  <<Prose(7), Line("message-id", id), Line("subscription", sub),
    Line("destination", Slashed(channel))>> \o body \o <<Prose(0)>>

-----------------------------------------------------------------------------
(* processMessageFrame *)

Fields == [channel |-> "", user |-> "", city |-> "", name |-> "", date_time |-> 0,
           description |-> <<>>, general_information |-> <<>>]
Parser == [fields |-> Fields, in_general_info |-> FALSE,
           in_description |-> FALSE, threw |-> FALSE]

Unslashed(v) == IF Len(v) > 1 /\ SubSeq(v, 1, 1) = "/" THEN SubSeq(v, 2, Len(v)) ELSE v

\* map[key] = value
With(map, key, value) ==
  [k \in DOMAIN map \cup {key} |-> IF k = key THEN value ELSE map[k]]

\* The keys that a reader knows; every other one may be general information.
FieldKeys == {"destination", "channel name", "user", "city", "event name", "date time",
              "general information", "description"}

Set(p, field, value) == [p EXCEPT !.fields[field] = value]

\* Mutant: only the last line of a description is kept.
ParseLineLast(p, l) ==
  CASE l.key = NoKey ->
         IF p.in_description THEN Set(p, "description", <<l>>) ELSE p
    [] l.key = "destination" -> Set(p, "channel", Unslashed(l.val))
    [] l.key \in {"user", "city"} -> Set(p, l.key, l.val)
    [] l.key = "event name" -> Set(p, "name", l.val)
    [] l.key = "date time" -> Set(p, "date_time", stoi(l.val))
    [] l.key = "general information" -> [p EXCEPT !.in_general_info = TRUE]
    [] l.key = "description" -> [p EXCEPT !.in_description = TRUE]
    [] OTHER -> Set(p, "general_information",
                    With(p.fields.general_information, l.key, l.val))

\* The flags only ever go up: a line of the description with a ':' is taken for
\* a field, or for general information when its key is no field.
ParseLine(p, l) ==
  CASE l.key = NoKey ->
         IF p.in_description
         THEN Set(p, "description", Append(p.fields.description, l)) ELSE p
    [] l.key = "destination" -> Set(p, "channel", Unslashed(l.val))
    [] l.key \in {"user", "city"} -> Set(p, l.key, l.val)
    [] l.key = "event name" -> Set(p, "name", l.val)
    [] l.key = "date time" ->
         IF IsDate(l.val) THEN Set(p, "date_time", stoi(l.val))
                          ELSE [p EXCEPT !.threw = TRUE]
    [] l.key = "general information" -> [p EXCEPT !.in_general_info = TRUE]
    [] l.key = "description" -> [p EXCEPT !.in_description = TRUE]
    [] OTHER ->
         IF p.in_general_info
         THEN Set(p, "general_information",
                  With(p.fields.general_information, l.key, l.val))
         ELSE p

-----------------------------------------------------------------------------
(* processSummaryCommand *)

\* trim, for the strings that occur: one blank in front.
trim(s) == IF SubSeq(s, 1, 1) \in {" ", "\t"} THEN SubSeq(s, 2, Len(s)) ELSE s

\* operator< of the names.
NameBefore(a, b) == \E i, j \in DOMAIN Names : i < j /\ Names[i] = a /\ Names[j] = b

\* Mutant: names do not matter.
SummaryBeforeTime(s) == Earlier(s)

\* The second lambda: by time, then by name.
SummaryBefore(s) ==
  Earlier(s) \cup {p \in Positions(s) : /\ s[p[1]].date_time = s[p[2]].date_time
                                        /\ NameBefore(s[p[1]].name, s[p[2]].name)}

SumOf(s) ==
  LET sum[n \in 0..Len(s)] == IF n = 0 THEN 0 ELSE sum[n - 1] + s[n] IN sum[Len(s)]
CountTrue(e, key) ==
  LET info == e.general_information IN
  Cardinality({k \in DOMAIN info : trim(k) = key /\ trim(info[k]) = "true"})

\* size() of a received description: every line and its newline.
SizeOf(description) == SumOf([i \in DOMAIN description |-> description[i].len + 1])

Report(e) ==
  [city |-> e.city, date_time |-> e.date_time, name |-> e.name,
   summary |-> e.description, cut |-> SizeOf(e.description) > 27]

Summary(sorted) ==
  [total |-> Len(sorted),
   active |-> SumOf([i \in DOMAIN sorted |-> CountTrue(sorted[i], "active")]),
   arrivals |-> SumOf([i \in DOMAIN sorted |->
                         CountTrue(sorted[i], "forces_arrival_at_scene")]),
   reports |-> [i \in DOMAIN sorted |-> Report(sorted[i])]]

-----------------------------------------------------------------------------
(* Event(frame_body): the other reader of the same body, in event.cpp *)

\* What split_str on ':' leaves of a value: it is dropped when it has a ':' in
\* it, unless that is its last character.
HasColon(v) == \E i \in 1..Len(v) : SubSeq(v, i, i) = ":"
Chopped(v)  == SubSeq(v, 1, Len(v) - 1)
BodyValue(v) == IF ~HasColon(v) THEN v
                ELSE IF HasColon(Chopped(v)) THEN "" ELSE Chopped(v)

BodyEntry(p, l) ==
  LET v == BodyValue(l.val)
      q == CASE l.key = "description" -> [p EXCEPT !.in_description = TRUE]
             [] l.key = "channel name" -> Set(p, "channel", v)
             [] l.key \in {"user", "city"} -> Set(p, l.key, v)
             [] l.key = "event name" -> Set(p, "name", v)
             [] l.key = "date time" ->
                  IF IsDate(v) THEN Set(p, "date_time", stoi(v))
                               ELSE [p EXCEPT !.threw = TRUE]
             [] OTHER -> p IN
  IF q.in_general_info /\ ~q.threw
  THEN Set(q, "general_information",
           With(q.fields.general_information, SubSeq(l.key, 2, Len(l.key)), v))
  ELSE q

\* Mutant: the lines after "description:" are looked at like those before it.
BodyLineOn(p, l) ==
  IF p.threw THEN p
  ELSE CASE l.key = NoKey ->
              IF p.in_description
              THEN Set(p, "description", Append(p.fields.description, l)) ELSE p
         [] l.key = "general information" -> [p EXCEPT !.in_general_info = TRUE]
         [] OTHER -> BodyEntry(p, l)

\* Once a line is the description, all that follow are.
BodyLine(p, l) ==
  IF p.threw THEN p
  ELSE IF p.in_description
  THEN Set(p, "description", Append(p.fields.description, l))
  ELSE CASE l.key = NoKey -> p
         [] l.key = "general information" -> [p EXCEPT !.in_general_info = TRUE]
         [] OTHER -> BodyEntry(p, l)

EventOfBody(body) ==
  LET read[n \in 0..Len(body)] ==
        IF n = 0 THEN Parser ELSE BodyLine(read[n - 1], body[n]) IN
  read[Len(body)]
=============================================================================
