------------------------- MODULE EventPipelineProofs -------------------------
(***************************************************************************)
(* Reports arrive as they were sent, a summary is that of the reports, and *)
(* the constructor of Event reads what report writes: for any files.       *)
(***************************************************************************)
EXTENDS EventPipeline, SequenceTheorems, FiniteSetTheorems, WellFoundedInduction, TLAPS

-----------------------------------------------------------------------------
(* What a reader makes of one line *)

\* A reader, and one that has not thrown.
Reads(f, info, desc, threw) ==
  [fields |-> f, in_general_info |-> info, in_description |-> desc, threw |-> threw]
At(f, info, desc) == Reads(f, info, desc, FALSE)

LEMMA SetField ==
  ASSUME NEW f, NEW info, NEW desc, NEW threw, NEW field, NEW v
  PROVE  Set(Reads(f, info, desc, threw), field, v) = Reads([f EXCEPT ![field] = v], info, desc, threw)
BY DEF Reads, Set

LEMMA SetInfo ==
  ASSUME NEW f, NEW info, NEW desc, NEW threw, NEW t
  PROVE  [Reads(f, info, desc, threw) EXCEPT !.in_general_info = t] = Reads(f, t, desc, threw)
BY DEF Reads

LEMMA SetDescription ==
  ASSUME NEW f, NEW info, NEW desc, NEW threw, NEW t
  PROVE  [Reads(f, info, desc, threw) EXCEPT !.in_description = t] = Reads(f, info, t, threw)
BY DEF Reads

LEMMA PartsOfReader ==
  ASSUME NEW f, NEW info, NEW desc, NEW threw, NEW p, p = Reads(f, info, desc, threw)
  PROVE  /\ p.fields = f /\ p.in_general_info = info /\ p.in_description = desc
         /\ p.threw = threw
BY DEF Reads

Settable(f, info, desc) ==
  /\ \A field, v : Set(At(f, info, desc), field, v) = At([f EXCEPT ![field] = v], info, desc)
  /\ [At(f, info, desc) EXCEPT !.in_general_info = TRUE] = At(f, TRUE, desc)
  /\ [At(f, info, desc) EXCEPT !.in_description = TRUE] = At(f, info, TRUE)
  /\ At(f, info, desc).fields = f
  /\ At(f, info, desc).in_general_info = info
  /\ At(f, info, desc).in_description = desc
  /\ At(f, info, desc).threw = FALSE

LEMMA SetAt == ASSUME NEW f, NEW info, NEW desc PROVE Settable(f, info, desc)
<1>1. \A field, v : Set(At(f, info, desc), field, v) = At([f EXCEPT ![field] = v], info, desc)
  <2>1. \A field, v, threw : Set(Reads(f, info, desc, threw), field, v)
                              = Reads([f EXCEPT ![field] = v], info, desc, threw)
    BY SetField
  <2> QED
    BY <2>1, Zenon DEF At
<1>2. [At(f, info, desc) EXCEPT !.in_general_info = TRUE] = At(f, TRUE, desc)
  <2>1. \A t, threw : [Reads(f, info, desc, threw) EXCEPT !.in_general_info = t]
                       = Reads(f, t, desc, threw)
    BY SetInfo
  <2>2. \A t : [At(f, info, desc) EXCEPT !.in_general_info = t] = At(f, t, desc)
    BY <2>1, Zenon DEF At
  <2> QED
    BY <2>2, Zenon
<1>3. [At(f, info, desc) EXCEPT !.in_description = TRUE] = At(f, info, TRUE)
  <2>1. \A t, threw : [Reads(f, info, desc, threw) EXCEPT !.in_description = t]
                       = Reads(f, info, t, threw)
    BY SetDescription
  <2>2. \A t : [At(f, info, desc) EXCEPT !.in_description = t] = At(f, info, t)
    BY <2>1, Zenon DEF At
  <2> QED
    BY <2>2, Zenon
<1>4. /\ At(f, info, desc).fields = f
      /\ At(f, info, desc).in_general_info = info /\ At(f, info, desc).in_description = desc
  <2>1. \A threw, p : p = Reads(f, info, desc, threw) =>
          p.fields = f /\ p.in_general_info = info /\ p.in_description = desc
    BY PartsOfReader
  <2> QED
    BY <2>1, Zenon DEF At
<1>5. At(f, info, desc).threw = FALSE
  <2>1. \A threw : Reads(f, info, desc, threw).threw = threw
    BY PartsOfReader
  <2> QED
    BY <2>1, Zenon DEF At
<1> QED
  BY <1>1, <1>2, <1>3, <1>4, <1>5, Zenon DEF Settable

LEMMA LineParts == ASSUME NEW k, NEW v PROVE Line(k, v).key = k /\ Line(k, v).val = v
BY DEF Line

LEMMA DateRead == ASSUME NEW d \in Dates PROVE IsDate(Decimal[d]) /\ stoi(Decimal[d]) = d
BY StringsAssumption DEF IsDate, stoi

\* Which field a line with a known key sets.
LEMMA ParseByKey ==
  ASSUME NEW p, NEW l, p.threw = FALSE
  PROVE  /\ l.key = "user" => ParseLine(p, l) = Set(p, "user", l.val)
         /\ l.key = "city" => ParseLine(p, l) = Set(p, "city", l.val)
         /\ l.key = "event name" => ParseLine(p, l) = Set(p, "name", l.val)
         /\ l.key = "date time" /\ IsDate(l.val) =>
              ParseLine(p, l) = Set(p, "date_time", stoi(l.val))
         /\ l.key = "destination" => ParseLine(p, l) = Set(p, "channel", Unslashed(l.val))
         /\ l.key = "general information" => ParseLine(p, l) = [p EXCEPT !.in_general_info = TRUE]
         /\ l.key = "description" => ParseLine(p, l) = [p EXCEPT !.in_description = TRUE]
<1>1. l.key = "user" => ParseLine(p, l) = Set(p, "user", l.val)
  BY Zenon DEF ParseLine, NoKey
<1>2. l.key = "city" => ParseLine(p, l) = Set(p, "city", l.val)
  BY Zenon DEF ParseLine, NoKey
<1>3. l.key = "event name" => ParseLine(p, l) = Set(p, "name", l.val)
  BY Zenon DEF ParseLine, NoKey
<1>4. l.key = "date time" /\ IsDate(l.val) => ParseLine(p, l) = Set(p, "date_time", stoi(l.val))
  BY Zenon DEF ParseLine, NoKey
<1>5. l.key = "destination" => ParseLine(p, l) = Set(p, "channel", Unslashed(l.val))
  BY Zenon DEF ParseLine, NoKey
<1>6. l.key = "general information" => ParseLine(p, l) = [p EXCEPT !.in_general_info = TRUE]
  BY Zenon DEF ParseLine, NoKey
<1>7. l.key = "description" => ParseLine(p, l) = [p EXCEPT !.in_description = TRUE]
  BY Zenon DEF ParseLine, NoKey
<1> QED
  BY <1>1, <1>2, <1>3, <1>4, <1>5, <1>6, <1>7, Zenon

\* And with any other key, or none.
LEMMA ParseOther ==
  ASSUME NEW p, NEW l, p.threw = FALSE
  PROVE  /\ l.key = NoKey => ParseLine(p, l) =
              IF p.in_description THEN Set(p, "description", Append(p.fields.description, l)) ELSE p
         /\ l.key \notin FieldKeys \cup {NoKey} => ParseLine(p, l) =
              IF p.in_general_info
              THEN Set(p, "general_information",
                       With(p.fields.general_information, l.key, l.val)) ELSE p
<1>1. l.key = NoKey => ParseLine(p, l) =
        IF p.in_description THEN Set(p, "description", Append(p.fields.description, l)) ELSE p
  BY Zenon DEF ParseLine, NoKey
<1>2. l.key \notin FieldKeys \cup {NoKey} => ParseLine(p, l) =
        IF p.in_general_info
        THEN Set(p, "general_information",
                 With(p.fields.general_information, l.key, l.val)) ELSE p
  BY Zenon DEF ParseLine, NoKey, FieldKeys
<1> QED
  BY <1>1, <1>2

ParsesKnown(f, info, desc, v, d) ==
  /\ ParseLine(At(f, info, desc), Line("user", v)) = At([f EXCEPT !["user"] = v], info, desc)
  /\ ParseLine(At(f, info, desc), Line("city", v)) = At([f EXCEPT !["city"] = v], info, desc)
  /\ ParseLine(At(f, info, desc), Line("event name", v)) = At([f EXCEPT !["name"] = v], info, desc)
  /\ ParseLine(At(f, info, desc), Line("date time", Decimal[d])) = At([f EXCEPT !["date_time"] = d], info, desc)
  /\ ParseLine(At(f, info, desc), Line("destination", Slashed(Channel))) = At([f EXCEPT !["channel"] = Channel], info, desc)
  /\ ParseLine(At(f, info, desc), Line("general information", v)) = At(f, TRUE, desc)
  /\ ParseLine(At(f, info, desc), Line("description", v)) = At(f, info, TRUE)

LEMMA ParseKnown ==
  ASSUME NEW f, NEW info, NEW desc, NEW v, NEW d \in Dates
  PROVE  ParsesKnown(f, info, desc, v, d)
<1> DEFINE p == At(f, info, desc)
<1>0. Settable(f, info, desc)
  BY SetAt, Zenon
<1>1. p.threw = FALSE
  BY <1>0, Zenon DEF Settable
<1>2. IsDate(Decimal[d]) /\ stoi(Decimal[d]) = d
  BY DateRead
<1>3. Unslashed(Slashed(Channel)) = Channel
  BY StringsAssumption
<1> HIDE DEF p
<1>4. ParseLine(p, Line("user", v)) = Set(p, "user", v)
  <2>1. PICK l : l = Line("user", v)
    OBVIOUS
  <2>2. l.key = "user" /\ l.val = v
    BY <2>1, LineParts, Zenon
  <2>3. ParseLine(p, l) = Set(p, "user", v)
    BY <1>1, <2>2, ParseByKey, Zenon
  <2> QED
    BY <2>1, <2>3, Zenon
<1>5. ParseLine(p, Line("city", v)) = Set(p, "city", v)
  <2>1. PICK l : l = Line("city", v)
    OBVIOUS
  <2>2. l.key = "city" /\ l.val = v
    BY <2>1, LineParts, Zenon
  <2>3. ParseLine(p, l) = Set(p, "city", v)
    BY <1>1, <2>2, ParseByKey, Zenon
  <2> QED
    BY <2>1, <2>3, Zenon
<1>6. ParseLine(p, Line("event name", v)) = Set(p, "name", v)
  <2>1. PICK l : l = Line("event name", v)
    OBVIOUS
  <2>2. l.key = "event name" /\ l.val = v
    BY <2>1, LineParts, Zenon
  <2>3. ParseLine(p, l) = Set(p, "name", v)
    BY <1>1, <2>2, ParseByKey, ZenonT(60)
  <2> QED
    BY <2>1, <2>3, Zenon
<1>7. ParseLine(p, Line("date time", Decimal[d])) = Set(p, "date_time", d)
  <2>1. PICK l : l = Line("date time", Decimal[d])
    OBVIOUS
  <2>2. l.key = "date time" /\ l.val = Decimal[d]
    BY <2>1, LineParts, Zenon
  <2>3. ParseLine(p, l) = Set(p, "date_time", stoi(l.val))
    BY <1>1, <1>2, <2>2, ParseByKey, ZenonT(60)
  <2> QED
    BY <1>2, <2>1, <2>2, <2>3, Zenon
<1>8. ParseLine(p, Line("destination", Slashed(Channel))) = Set(p, "channel", Channel)
  <2>1. PICK l : l = Line("destination", Slashed(Channel))
    OBVIOUS
  <2>2. l.key = "destination" /\ l.val = Slashed(Channel)
    BY <2>1, LineParts, Zenon
  <2>3. ParseLine(p, l) = Set(p, "channel", Unslashed(l.val))
    BY <1>1, <2>2, ParseByKey, Zenon
  <2> QED
    BY <1>3, <2>1, <2>2, <2>3, Zenon
<1>9. ParseLine(p, Line("general information", v)) = [p EXCEPT !.in_general_info = TRUE]
  <2>1. PICK l : l = Line("general information", v)
    OBVIOUS
  <2>2. l.key = "general information" /\ l.val = v
    BY <2>1, LineParts, Zenon
  <2>3. ParseLine(p, l) = [p EXCEPT !.in_general_info = TRUE]
    BY <1>1, <2>2, ParseByKey, Zenon
  <2> QED
    BY <2>1, <2>3, Zenon
<1>10. ParseLine(p, Line("description", v)) = [p EXCEPT !.in_description = TRUE]
  <2>1. PICK l : l = Line("description", v)
    OBVIOUS
  <2>2. l.key = "description" /\ l.val = v
    BY <2>1, LineParts, Zenon
  <2>3. ParseLine(p, l) = [p EXCEPT !.in_description = TRUE]
    BY <1>1, <2>2, ParseByKey, Zenon
  <2> QED
    BY <2>1, <2>3, Zenon
<1> QED
  BY <1>0, <1>4, <1>5, <1>6, <1>7, <1>8, <1>9, <1>10, ZenonT(60) DEF ParsesKnown, Settable, p

-----------------------------------------------------------------------------
(* The lines of a report *)

\* What FilesAssumption says of an event that was read.
Reportable(e) ==
  /\ e.date_time \in Dates
  /\ e.description \in Seq([key : STRING, val : STRING, len : Nat])
  /\ DOMAIN e.general_information \subseteq InfoKeys
  /\ \A k \in DOMAIN e.general_information :
       LET v == e.general_information[k] IN trim(v) = v /\ trim(Spaced(v)) = v
Plain(e) == e.description \in Seq([key : {NoKey}, val : {""}, len : Nat])

LEMMA EventReportable ==
  ASSUME NEW j \in JsonEvents, Convertible(j)
  PROVE  /\ Reportable(EventFromJson(j))
         /\ PlainDescriptions => Plain(EventFromJson(j))
<1> DEFINE e == EventFromJson(j)
           keys == DOMAIN j.general_information
<1>1. /\ e.date_time = j.date_time.value /\ e.description = j.description
      /\ e.general_information = [k \in keys |-> InfoOf(j.general_information[k])]
  BY DEF EventFromJson
<1> HIDE DEF e
<1>2. DOMAIN e.general_information = keys
  BY <1>1
<1>3. \A k \in keys : e.general_information[k] = InfoOf(j.general_information[k])
  BY <1>1
<1>4. Reportable(e)
  BY <1>1, <1>2, <1>3, FilesAssumption DEF Reportable
<1>5. PlainDescriptions => Plain(e)
  BY <1>1 DEF PlainDescriptions, Plain
<1> QED
  BY <1>4, <1>5 DEF e

\* A key of general information: each has its line, once.
InfoAt(e, k, l) == l = Line(Tabbed(k), Spaced(e.general_information[k]))

InfoLayout(e) ==
  /\ \A i \in 1..Len(InfoLines(e)) : \E k \in DOMAIN e.general_information : InfoAt(e, k, InfoLines(e)[i])
  /\ \A k \in DOMAIN e.general_information : \E i \in 1..Len(InfoLines(e)) : InfoAt(e, k, InfoLines(e)[i])
  /\ \A i, j \in 1..Len(InfoLines(e)) : InfoLines(e)[i].key = InfoLines(e)[j].key => i = j

\* Two sequences of one line or none.
LEMMA TwoLines ==
  ASSUME NEW S, NEW x \in S, NEW y \in S
  PROVE  /\ LET s == <<x>> \o <<y>> IN s \in Seq(S) /\ Len(s) = 2 /\ s[1] = x /\ s[2] = y
         /\ <<x>> \o <<>> = <<x>> /\ <<>> \o <<y>> = <<y>> /\ <<>> \o <<>> = <<>>
<1>1. /\ <<x>> \in Seq(S) /\ <<y>> \in Seq(S) /\ Len(<<x>>) = 1 /\ Len(<<y>>) = 1
      /\ <<x>>[1] = x /\ <<y>>[1] = y
  OBVIOUS
<1>2. LET s == <<x>> \o <<y>> IN s \in Seq(S) /\ Len(s) = 2 /\ s[1] = x /\ s[2] = y
  BY <1>1, ConcatProperties
<1>3. <<>> \o <<>> = <<>>
  OBVIOUS
<1>4. <<x>> \o <<>> = <<x>> /\ <<>> \o <<y>> = <<y>>
  BY <1>1, ConcatEmptySeq
<1> QED
  BY <1>2, <1>3, <1>4

LEMMA TabbedDistinct == ASSUME NEW k \in InfoKeys, NEW m \in InfoKeys, Tabbed(k) = Tabbed(m) PROVE k = m
BY StringsAssumption

LEMMA InfoLaidOut ==
  ASSUME NEW e, DOMAIN e.general_information \subseteq InfoKeys
  PROVE  InfoLayout(e) /\ \E S : InfoLines(e) \in Seq(S)
<1> DEFINE a == "active" f == "forces_arrival_at_scene" keys == DOMAIN e.general_information
           la == Line(Tabbed(a), Spaced(e.general_information[a]))
           lf == Line(Tabbed(f), Spaced(e.general_information[f]))
<1>1. a \in InfoKeys /\ f \in InfoKeys /\ a # f /\ keys \subseteq {a, f}
  BY DEF InfoKeys
<1>2. la.key # lf.key
  BY <1>1, TabbedDistinct, LineParts
<1>3. InfoAt(e, a, la) /\ InfoAt(e, f, lf)
  BY DEF InfoAt
<1>4. InfoLines(e) = (IF a \in keys THEN <<la>> ELSE <<>>) \o (IF f \in keys THEN <<lf>> ELSE <<>>)
  BY DEF InfoLines, InfoLine
<1> HIDE DEF la, lf, a, f, keys
<1>5. la \in {la, lf} /\ lf \in {la, lf}
  OBVIOUS
<1>6. CASE a \in keys /\ f \in keys
  <2>1. InfoLines(e) = <<la>> \o <<lf>>
    BY <1>4, <1>6
  <2>2. Len(InfoLines(e)) = 2 /\ InfoLines(e)[1] = la /\ InfoLines(e)[2] = lf
    BY <1>5, <2>1, TwoLines
  <2>3. \A i \in 1..2 : i = 1 \/ i = 2
    OBVIOUS
  <2>4. \A i \in 1..2 : \E k \in keys : InfoAt(e, k, InfoLines(e)[i])
    BY <1>3, <1>6, <2>2, <2>3
  <2>5. \A k \in keys : \E i \in 1..2 : InfoAt(e, k, InfoLines(e)[i])
    BY <1>1, <1>3, <2>2
  <2>6. \A i, j \in 1..2 : InfoLines(e)[i].key = InfoLines(e)[j].key => i = j
    BY <1>2, <2>2, <2>3
  <2>7. InfoLines(e) \in Seq({la, lf})
    BY <1>5, <2>1, TwoLines
  <2> QED
    BY <2>2, <2>4, <2>5, <2>6, <2>7 DEF InfoLayout, keys
<1>7. CASE a \in keys /\ f \notin keys
  <2>1. InfoLines(e) = <<la>>
    BY <1>4, <1>7, <1>5, TwoLines
  <2>2. Len(InfoLines(e)) = 1 /\ InfoLines(e)[1] = la /\ InfoLines(e) \in Seq({la})
    BY <2>1
  <2>3. keys = {a}
    BY <1>1, <1>7
  <2> QED
    BY <1>3, <2>2, <2>3 DEF InfoLayout, keys
<1>8. CASE a \notin keys /\ f \in keys
  <2>1. InfoLines(e) = <<lf>>
    BY <1>4, <1>8, <1>5, TwoLines
  <2>2. Len(InfoLines(e)) = 1 /\ InfoLines(e)[1] = lf /\ InfoLines(e) \in Seq({lf})
    BY <2>1
  <2>3. keys = {f}
    BY <1>1, <1>8
  <2> QED
    BY <1>3, <2>2, <2>3 DEF InfoLayout, keys
<1>9. CASE a \notin keys /\ f \notin keys
  <2>1. InfoLines(e) = <<>>
    BY <1>4, <1>9, <1>5, TwoLines
  <2> QED
    BY <1>1, <1>9, <2>1 DEF InfoLayout, keys
<1> QED
  BY <1>6, <1>7, <1>8, <1>9

LEMMA FiveLines ==
  ASSUME NEW a, NEW b, NEW c, NEW d, NEW e, NEW s, s = <<a, b, c, d, e>>
  PROVE  /\ s \in Seq({a, b, c, d, e}) /\ Len(s) = 5
         /\ s[1] = a /\ s[2] = b /\ s[3] = c /\ s[4] = d /\ s[5] = e
OBVIOUS

LEMMA FiveTyped ==
  ASSUME NEW a, NEW b, NEW c, NEW d, NEW e
  PROVE  \E A : <<a, b, c, d, e>> \in Seq(A) /\ Len(<<a, b, c, d, e>>) = 5
<1>1. PICK s : s = <<a, b, c, d, e>>
  OBVIOUS
<1>2. s \in Seq({a, b, c, d, e}) /\ Len(s) = 5
  BY <1>1, FiveLines
<1> QED
  BY <1>1, <1>2, Zenon

LEMMA FourLines ==
  ASSUME NEW a, NEW b, NEW c, NEW d, NEW s, s = <<a, b, c, d>>
  PROVE  /\ s \in Seq({a, b, c, d}) /\ Len(s) = 4
         /\ s[1] = a /\ s[2] = b /\ s[3] = c /\ s[4] = d
OBVIOUS

LEMMA OneLine ==
  ASSUME NEW a, NEW s, s = <<a>>
  PROVE  s \in Seq({a}) /\ Len(s) = 1 /\ s[1] = a
OBVIOUS

\* One sequence behind another.
Behind(a, b, s) ==
  /\ Len(s) = Len(a) + Len(b)
  /\ \A i \in 1..Len(a) : s[i] = a[i]
  /\ \A i \in 1..Len(b) : s[Len(a) + i] = b[i]

LEMMA Joined ==
  ASSUME NEW S, NEW T, NEW a \in Seq(S), NEW b \in Seq(T), NEW s, s = a \o b
  PROVE  s \in Seq(S \cup T) /\ Behind(a, b, s)
<1>1. a \in Seq(S \cup T) /\ b \in Seq(S \cup T)
  BY SeqMonotonic
<1>2. Len(a) \in Nat /\ Len(b) \in Nat
  BY LenProperties
<1> QED
  BY <1>1, <1>2, ConcatProperties DEF Behind

\* A sequence has another one after its first k elements.
Part(s, k, a) == \A i \in 1..Len(a) : s[k + i] = a[i]

LEMMA PartKept ==
  ASSUME NEW k \in Nat, NEW a, NEW b, NEW s, NEW t, Len(a) \in Nat, Len(s) \in Nat,
         k + Len(a) <= Len(s), Part(s, k, a), Behind(s, b, t)
  PROVE  Part(t, k, a)
<1> SUFFICES ASSUME NEW i \in 1..Len(a) PROVE t[k + i] = a[i]
  BY DEF Part
<1>1. PICK j \in 1..Len(s) : j = k + i
  OBVIOUS
<1>2. s[j] = a[i] /\ t[j] = s[j]
  BY <1>1 DEF Part, Behind
<1> QED
  BY <1>1, <1>2

LEMMA NewParts ==
  ASSUME NEW a, NEW b, NEW s, Len(a) \in Nat, Behind(a, b, s)
  PROVE  Part(s, 0, a) /\ Part(s, Len(a), b)
BY DEF Part, Behind

Text(e) == Append(e.description, Prose(0))

\* The body of a report with the newline the server adds.
Laid(u, e, r) ==
  LET n == Len(InfoLines(e)) IN
  /\ n \in Nat /\ Len(Text(e)) \in Nat /\ Len(r) = 6 + n + Len(Text(e))
  /\ r[1] = Line("user", u) /\ r[2] = Line("city", e.city) /\ r[3] = Line("event name", e.name)
  /\ r[4] = Line("date time", Decimal[e.date_time]) /\ r[5] = Line("general information", "")
  /\ \A i \in 1..n : r[5 + i] = InfoLines(e)[i]
  /\ r[6 + n] = Line("description", "")
  /\ \A i \in 1..Len(Text(e)) : r[6 + n + i] = Text(e)[i]

LEMMA BodyLaidOut ==
  ASSUME NEW u, NEW e, NEW S, e.description \in Seq(S), DOMAIN e.general_information \subseteq InfoKeys,
         NEW r, r = Body(u, e) \o <<Prose(0)>>
  PROVE  Laid(u, e, r) /\ \E T : r \in Seq(T)
<1> DEFINE o == <<Line("user", u), Line("city", e.city), Line("event name", e.name),
                  Line("date time", Decimal[e.date_time]), Line("general information", "")>>
           z == <<Line("description", "")>>
           w == <<Prose(0)>>
<1>1. PICK L, M : L = InfoLines(e) /\ L \in Seq(M)
  BY InfoLaidOut, Zenon
<1>2. PICK d : d = e.description /\ d \in Seq(S)
  OBVIOUS
<1>3. r = o \o InfoLines(e) \o z \o e.description \o w
  BY Zenon DEF Body
<1>4. /\ o[1] = Line("user", u) /\ o[2] = Line("city", e.city) /\ o[3] = Line("event name", e.name)
      /\ o[4] = Line("date time", Decimal[e.date_time]) /\ o[5] = Line("general information", "")
  BY FiveLines, Zenon
<1>5. z[1] = Line("description", "") /\ w[1] = Prose(0)
  <2>1. \A x, s : s = <<x>> => s[1] = x
    BY OneLine
  <2> QED
    BY <2>1, Zenon
<1>6. \E A : o \in Seq(A) /\ Len(o) = 5
  BY FiveTyped, Zenon
<1>7. \E A : z \in Seq(A) /\ Len(z) = 1
  BY OneLine, Zenon
<1>8. w \in Seq({Prose(0)}) /\ Len(w) = 1
  BY OneLine, Zenon
<1> HIDE DEF o, z, w
<1>9. r = o \o L \o z \o d \o w
  BY <1>3, <1>1, <1>2, Zenon
<1>10. PICK A, B : o \in Seq(A) /\ z \in Seq(B) /\ Len(o) = 5 /\ Len(z) = 1
  BY <1>6, <1>7
<1>11. PICK s1 : s1 = o \o L
  OBVIOUS
<1>12. s1 \in Seq(A \cup M) /\ Behind(o, L, s1)
  BY <1>1, <1>10, <1>11, Joined
<1>13. PICK s2 : s2 = s1 \o z
  OBVIOUS
<1>14. s2 \in Seq(A \cup M \cup B) /\ Behind(s1, z, s2)
  BY <1>10, <1>12, <1>13, Joined
<1>15. PICK s3 : s3 = s2 \o d
  OBVIOUS
<1>16. s3 \in Seq(A \cup M \cup B \cup S) /\ Behind(s2, d, s3)
  BY <1>2, <1>14, <1>15, Joined
<1>17. r = s3 \o w
  BY <1>9, <1>11, <1>13, <1>15, Zenon
<1>18. r \in Seq(A \cup M \cup B \cup S \cup {Prose(0)}) /\ Behind(s3, w, r)
  BY <1>8, <1>16, <1>17, Joined
<1>19. PICK n \in Nat, m \in Nat, a \in Nat, b \in Nat, c \in Nat :
         /\ n = Len(L) /\ m = Len(d) /\ a = 5 + n /\ b = 6 + n /\ c = 6 + n + m
  <2>1. Len(L) \in Nat /\ Len(d) \in Nat
    BY <1>1, <1>2, LenProperties
  <2> QED
    BY <2>1
<1>20. Len(o) = 5 /\ Len(z) = 1 /\ Len(w) = 1 /\ Len(s1) = a /\ Len(s2) = b /\ Len(s3) = c /\ Len(r) = c + 1
  <2>1. Len(o) = 5 /\ Len(z) = 1 /\ Len(w) = 1
    BY <1>8, <1>10
  <2>2. Len(s1) = a
    BY <1>12, <1>19, <2>1 DEF Behind
  <2>3. Len(s2) = b
    BY <1>14, <1>19, <2>1, <2>2 DEF Behind
  <2>4. Len(s3) = c
    BY <1>16, <1>19, <2>3 DEF Behind
  <2> QED
    BY <1>18, <2>1, <2>2, <2>3, <2>4 DEF Behind
<1>21. /\ Len(o) \in Nat /\ Len(L) \in Nat /\ Len(z) \in Nat /\ Len(d) \in Nat
       /\ Len(s1) \in Nat /\ Len(s2) \in Nat /\ Len(s3) \in Nat /\ 0 \in Nat /\ 5 \in Nat
       /\ 0 + Len(o) <= Len(s1) /\ 5 + Len(L) <= Len(s1)
       /\ 0 + Len(o) <= Len(s2) /\ 5 + Len(L) <= Len(s2) /\ a + Len(z) <= Len(s2)
       /\ 0 + Len(o) <= Len(s3) /\ 5 + Len(L) <= Len(s3) /\ a + Len(z) <= Len(s3) /\ b + Len(d) <= Len(s3)
  BY <1>19, <1>20
<1>22. Part(s1, 0, o) /\ Part(s1, 5, L) /\ Part(s2, a, z) /\ Part(s3, b, d) /\ Part(r, c, w)
  <2>1. Part(s1, 0, o) /\ Part(s1, Len(o), L) /\ Part(s2, Len(s1), z) /\ Part(s3, Len(s2), d)
        /\ Part(r, Len(s3), w)
    BY <1>12, <1>14, <1>16, <1>18, <1>21, NewParts, Zenon
  <2> QED
    BY <1>20, <2>1
<1>23. Part(s2, 0, o) /\ Part(s2, 5, L)
  BY <1>14, <1>21, <1>22, PartKept, Zenon
<1>24. Part(s3, 0, o) /\ Part(s3, 5, L) /\ Part(s3, a, z)
  BY <1>16, <1>21, <1>22, <1>23, PartKept, Zenon
<1>25. Part(r, 0, o) /\ Part(r, 5, L) /\ Part(r, a, z) /\ Part(r, b, d) /\ Part(r, c, w)
  BY <1>18, <1>21, <1>22, <1>24, PartKept, Zenon
<1>26. PICK t : t = Append(d, Prose(0))
  OBVIOUS
<1>27. /\ Len(t) = Len(d) + 1 /\ t[Len(d) + 1] = Prose(0)
       /\ \A i \in 1..Len(d) : t[i] = d[i]
  <2>1. d \in Seq(S \cup {Prose(0)}) /\ Prose(0) \in S \cup {Prose(0)}
    BY <1>2, SeqMonotonic
  <2> QED
    BY <1>26, <2>1, AppendProperties
<1>28. \A i \in 1..Len(t) : r[6 + n + i] = t[i]
  <2> TAKE i \in 1..Len(t)
  <2>0. i \in 1..(m + 1)
    BY <1>19, <1>27
  <2>1. CASE i \in 1..m
    BY <1>19, <1>25, <1>27, <2>1 DEF Part
  <2>2. CASE i = m + 1
    <3>1. r[c + 1] = w[1]
      BY <1>20, <1>25 DEF Part
    <3>2. c + 1 = 6 + n + i
      BY <1>19, <2>2
    <3>3. t[i] = w[1]
      BY <1>5, <1>19, <1>27, <2>2
    <3> QED
      BY <3>1, <3>2, <3>3
  <2>3. m \in Nat
    BY <1>19
  <2>4. i \in 1..m \/ i = m + 1
    BY <2>0, <2>3
  <2> QED
    BY <2>1, <2>2, <2>4
<1>29. t = Text(e)
  BY <1>2, <1>26, Zenon DEF Text
<1>30. /\ r[1] = o[1] /\ r[2] = o[2] /\ r[3] = o[3] /\ r[4] = o[4] /\ r[5] = o[5]
  <2>1. \A i \in 1..5 : r[0 + i] = o[i]
    BY <1>20, <1>25, Zenon DEF Part
  <2>2. \A i \in 1..5 : 0 + i = i
    OBVIOUS
  <2>3. \A i \in 1..5 : r[i] = o[i]
    BY <2>1, <2>2, Zenon
  <2>4. 1 \in 1..5 /\ 2 \in 1..5 /\ 3 \in 1..5 /\ 4 \in 1..5 /\ 5 \in 1..5
    OBVIOUS
  <2> QED
    BY <2>3, <2>4, Zenon
<1>31. /\ r[1] = Line("user", u) /\ r[2] = Line("city", e.city) /\ r[3] = Line("event name", e.name)
       /\ r[4] = Line("date time", Decimal[e.date_time]) /\ r[5] = Line("general information", "")
  BY <1>4, <1>30, Zenon
<1>32. r[6 + n] = Line("description", "")
  <2>1. r[a + 1] = z[1] /\ a + 1 = 6 + n
    BY <1>19, <1>20, <1>25 DEF Part
  <2> QED
    BY <1>5, <2>1, Zenon
<1>33. n \in Nat /\ Len(t) \in Nat /\ Len(r) = 6 + n + Len(t)
  BY <1>19, <1>20, <1>27
<1>34. \A i \in 1..n : r[5 + i] = L[i]
  BY <1>19, <1>25 DEF Part
<1> QED
  BY <1>1, <1>18, <1>19, <1>28, <1>29, <1>31, <1>32, <1>33, <1>34, Zenon DEF Laid

\* The lines of a MESSAGE frame that reports e.
Frame(u, e) == MessageFrame(Channel, "7", "0", Body(u, e))

Framed(u, e, F) ==
  LET n == Len(InfoLines(e)) IN
  /\ n \in Nat /\ Len(Text(e)) \in Nat /\ Len(F) = 10 + n + Len(Text(e))
  /\ F[1] = Prose(7) /\ F[2] = Line("message-id", "7") /\ F[3] = Line("subscription", "0")
  /\ F[4] = Line("destination", Slashed(Channel))
  /\ F[5] = Line("user", u) /\ F[6] = Line("city", e.city) /\ F[7] = Line("event name", e.name)
  /\ F[8] = Line("date time", Decimal[e.date_time]) /\ F[9] = Line("general information", "")
  /\ \A i \in 1..n : F[9 + i] = InfoLines(e)[i]
  /\ F[10 + n] = Line("description", "")
  /\ \A i \in 1..Len(Text(e)) : F[10 + n + i] = Text(e)[i]

LEMMA FourTyped ==
  ASSUME NEW a, NEW b, NEW c, NEW d
  PROVE  \E A : <<a, b, c, d>> \in Seq(A) /\ Len(<<a, b, c, d>>) = 4
<1>1. PICK s : s = <<a, b, c, d>>
  OBVIOUS
<1>2. s \in Seq({a, b, c, d}) /\ Len(s) = 4
  BY <1>1, FourLines
<1> QED
  BY <1>1, <1>2, Zenon

\* The body as a sequence of its own.
LEMMA BodyTyped ==
  ASSUME NEW u, NEW e, NEW S, e.description \in Seq(S), DOMAIN e.general_information \subseteq InfoKeys
  PROVE  \E T : Body(u, e) \in Seq(T)
<1> DEFINE o == <<Line("user", u), Line("city", e.city), Line("event name", e.name),
                  Line("date time", Decimal[e.date_time]), Line("general information", "")>>
           z == <<Line("description", "")>>
<1>1. Body(u, e) = o \o InfoLines(e) \o z \o e.description
  BY Zenon DEF Body
<1>2. PICK L, M : L = InfoLines(e) /\ L \in Seq(M)
  BY InfoLaidOut, Zenon
<1>3. \E A : o \in Seq(A)
  BY FiveTyped, Zenon
<1>4. \E A : z \in Seq(A)
  BY OneLine, Zenon
<1> HIDE DEF o, z
<1>5. PICK A, B : o \in Seq(A) /\ z \in Seq(B)
  BY <1>3, <1>4
<1>6. PICK s1 : s1 = o \o L /\ s1 \in Seq(A \cup M)
  BY <1>2, <1>5, Joined
<1>7. PICK s2 : s2 = s1 \o z /\ s2 \in Seq(A \cup M \cup B)
  BY <1>5, <1>6, Joined
<1>8. PICK s3 : s3 = s2 \o e.description /\ s3 \in Seq(A \cup M \cup B \cup S)
  BY <1>7, Joined
<1> QED
  BY <1>1, <1>2, <1>6, <1>7, <1>8, Zenon

LEMMA FrameLaidOut ==
  ASSUME NEW u, NEW e, NEW S, e.description \in Seq(S), DOMAIN e.general_information \subseteq InfoKeys
  PROVE  Framed(u, e, Frame(u, e)) /\ \E T : Frame(u, e) \in Seq(T)
<1> DEFINE h == <<Prose(7), Line("message-id", "7"), Line("subscription", "0"),
                  Line("destination", Slashed(Channel))>>
           w == <<Prose(0)>>
<1>1. PICK b, T : b = Body(u, e) /\ b \in Seq(T)
  BY BodyTyped, Zenon
<1>2. Frame(u, e) = h \o b \o w
  BY <1>1, Zenon DEF Frame, MessageFrame
<1>3. h[1] = Prose(7) /\ h[2] = Line("message-id", "7") /\ h[3] = Line("subscription", "0")
      /\ h[4] = Line("destination", Slashed(Channel))
  BY FourLines, Zenon
<1>4. \E A : h \in Seq(A) /\ Len(h) = 4
  BY FourTyped, Zenon
<1>5. \E A : w \in Seq(A)
  BY OneLine, Zenon
<1>6. PICK r : r = b \o w
  OBVIOUS
<1>7. Laid(u, e, r)
  <2>1. r = Body(u, e) \o <<Prose(0)>>
    BY <1>1, <1>6, Zenon
  <2> QED
    BY <2>1, BodyLaidOut, Zenon
<1> HIDE DEF h, w
<1>8. PICK A, B : h \in Seq(A) /\ Len(h) = 4 /\ w \in Seq(B)
  BY <1>4, <1>5
<1>9. r \in Seq(T \cup B)
  BY <1>1, <1>6, <1>8, Joined
<1>10. PICK F : F = h \o r
  OBVIOUS
<1>11. F \in Seq(A \cup (T \cup B)) /\ Behind(h, r, F)
  BY <1>8, <1>9, <1>10, Joined
<1>12. F = Frame(u, e)
  <2>1. h \in Seq(A \cup T \cup B) /\ b \in Seq(A \cup T \cup B) /\ w \in Seq(A \cup T \cup B)
    BY <1>1, <1>8, SeqMonotonic
  <2>2. (h \o b) \o w = h \o (b \o w)
    BY <2>1, ConcatAssociative
  <2> QED
    BY <1>2, <1>6, <1>10, <2>2, Zenon
<1>13. PICK n \in Nat, k \in Nat : n = Len(InfoLines(e)) /\ k = Len(Text(e))
  BY <1>7 DEF Laid
<1>14. Len(r) = 6 + n + k /\ Len(F) = 10 + n + k
  <2>1. Len(r) = 6 + n + k
    BY <1>7, <1>13, Zenon DEF Laid
  <2>2. Len(F) = Len(h) + Len(r)
    BY <1>11 DEF Behind
  <2> QED
    BY <1>8, <1>13, <2>1, <2>2
<1>15. \A i \in 1..(6 + n + k) : F[4 + i] = r[i]
  BY <1>8, <1>11, <1>14, Zenon DEF Behind
<1>16. \A i \in 1..4 : F[i] = h[i]
  BY <1>8, <1>11, Zenon DEF Behind
<1>17. F[1] = h[1] /\ F[2] = h[2] /\ F[3] = h[3] /\ F[4] = h[4]
  <2>1. 1 \in 1..4 /\ 2 \in 1..4 /\ 3 \in 1..4 /\ 4 \in 1..4
    OBVIOUS
  <2> QED
    BY <1>16, <2>1, Zenon
<1>18. F[5] = r[1] /\ F[6] = r[2] /\ F[7] = r[3] /\ F[8] = r[4] /\ F[9] = r[5] /\ F[10 + n] = r[6 + n]
  <2> DEFINE N == 6 + n + k
  <2>1. 1 \in 1..N /\ 2 \in 1..N /\ 3 \in 1..N /\ 4 \in 1..N /\ 5 \in 1..N /\ 6 + n \in 1..N
    BY <1>13
  <2>2. 4 + 1 = 5 /\ 4 + 2 = 6 /\ 4 + 3 = 7 /\ 4 + 4 = 8 /\ 4 + 5 = 9 /\ 4 + (6 + n) = 10 + n
    BY <1>13
  <2> HIDE DEF N
  <2>3. \A i \in 1..N : F[4 + i] = r[i]
    BY <1>15 DEF N
  <2>4. F[4 + 1] = r[1] /\ F[4 + 2] = r[2] /\ F[4 + 3] = r[3] /\ F[4 + 4] = r[4] /\ F[4 + 5] = r[5]
        /\ F[4 + (6 + n)] = r[6 + n]
    BY <2>1, <2>3, Zenon
  <2> QED
    BY <2>2, <2>4, Zenon
<1>19. \A i \in 1..n : F[9 + i] = InfoLines(e)[i]
  <2> TAKE i \in 1..n
  <2>1. 5 + i \in 1..(6 + n + k) /\ 4 + (5 + i) = 9 + i
    BY <1>13
  <2>2. F[4 + (5 + i)] = r[5 + i]
    BY <1>15, <2>1, Zenon
  <2>3. r[5 + i] = InfoLines(e)[i]
    BY <1>7, <1>13 DEF Laid
  <2> QED
    BY <2>1, <2>2, <2>3, Zenon
<1>20. \A i \in 1..k : F[10 + n + i] = Text(e)[i]
  <2> TAKE i \in 1..k
  <2>1. 6 + n + i \in 1..(6 + n + k) /\ 4 + (6 + n + i) = 10 + n + i
    BY <1>13
  <2>2. F[4 + (6 + n + i)] = r[6 + n + i]
    BY <1>15, <2>1, Zenon
  <2>3. r[6 + n + i] = Text(e)[i]
    BY <1>7, <1>13 DEF Laid
  <2> QED
    BY <2>1, <2>2, <2>3, Zenon
<1>21. /\ F[5] = Line("user", u) /\ F[6] = Line("city", e.city) /\ F[7] = Line("event name", e.name)
       /\ F[8] = Line("date time", Decimal[e.date_time]) /\ F[9] = Line("general information", "")
       /\ F[10 + n] = Line("description", "")
  BY <1>7, <1>13, <1>18, Zenon DEF Laid
<1>22. Framed(u, e, F)
  BY <1>3, <1>13, <1>14, <1>17, <1>19, <1>20, <1>21, Zenon DEF Framed
<1> QED
  BY <1>11, <1>12, <1>22, Zenon

-----------------------------------------------------------------------------
(* Reading a report line by line *)

\* The fields of a reader.
Filled(c, u, ci, na, da, d, gi) ==
  [channel |-> c, user |-> u, city |-> ci, name |-> na, date_time |-> da,
   description |-> d, general_information |-> gi]

Fills(f, c, u, ci, na, da, d, gi) ==
  /\ \A v : [f EXCEPT !["channel"] = v] = Filled(v, u, ci, na, da, d, gi)
  /\ \A v : [f EXCEPT !["user"] = v] = Filled(c, v, ci, na, da, d, gi)
  /\ \A v : [f EXCEPT !["city"] = v] = Filled(c, u, v, na, da, d, gi)
  /\ \A v : [f EXCEPT !["name"] = v] = Filled(c, u, ci, v, da, d, gi)
  /\ \A v : [f EXCEPT !["date_time"] = v] = Filled(c, u, ci, na, v, d, gi)
  /\ \A v : [f EXCEPT !["description"] = v] = Filled(c, u, ci, na, da, v, gi)
  /\ \A v : [f EXCEPT !["general_information"] = v] = Filled(c, u, ci, na, da, d, v)
  /\ f.description = d /\ f.general_information = gi

LEMMA FilledSet ==
  ASSUME NEW c, NEW u, NEW ci, NEW na, NEW da, NEW d, NEW gi
  PROVE  Fills(Filled(c, u, ci, na, da, d, gi), c, u, ci, na, da, d, gi)
<1>1. \A v : [Filled(c, u, ci, na, da, d, gi) EXCEPT !["channel"] = v] = Filled(v, u, ci, na, da, d, gi)
  BY DEF Filled
<1>2. \A v : [Filled(c, u, ci, na, da, d, gi) EXCEPT !["user"] = v] = Filled(c, v, ci, na, da, d, gi)
  BY DEF Filled
<1>3. \A v : [Filled(c, u, ci, na, da, d, gi) EXCEPT !["city"] = v] = Filled(c, u, v, na, da, d, gi)
  BY DEF Filled
<1>4. \A v : [Filled(c, u, ci, na, da, d, gi) EXCEPT !["name"] = v] = Filled(c, u, ci, v, da, d, gi)
  BY DEF Filled
<1>5. \A v : [Filled(c, u, ci, na, da, d, gi) EXCEPT !["date_time"] = v] = Filled(c, u, ci, na, v, d, gi)
  BY DEF Filled
<1>6. \A v : [Filled(c, u, ci, na, da, d, gi) EXCEPT !["description"] = v] = Filled(c, u, ci, na, da, v, gi)
  BY DEF Filled
<1>7. \A v : [Filled(c, u, ci, na, da, d, gi) EXCEPT !["general_information"] = v] = Filled(c, u, ci, na, da, d, v)
  BY DEF Filled
<1>8. Filled(c, u, ci, na, da, d, gi).description = d /\ Filled(c, u, ci, na, da, d, gi).general_information = gi
  BY DEF Filled
<1> QED
  BY <1>1, <1>2, <1>3, <1>4, <1>5, <1>6, <1>7, <1>8, Zenon DEF Fills

\* The general information after k of the lines L.
InfoRead(L, k, gi) ==
  /\ DOMAIN gi = {L[i].key : i \in 1..k}
  /\ \A i \in 1..k : gi[L[i].key] = L[i].val

LEMMA InfoGrows ==
  ASSUME NEW L, NEW n \in Nat, NEW k \in Nat, k < n, NEW gi, InfoRead(L, k, gi),
         \A i, j \in 1..n : L[i].key = L[j].key => i = j
  PROVE  InfoRead(L, k + 1, With(gi, L[k + 1].key, L[k + 1].val))
<1> DEFINE x == L[k + 1].key
           g == With(gi, x, L[k + 1].val)
<1>1. DOMAIN g = DOMAIN gi \cup {x} /\ g[x] = L[k + 1].val
      /\ \A y \in DOMAIN gi : y # x => g[y] = gi[y]
  BY DEF With
<1> HIDE DEF g
<1>2. \A i \in 1..(k + 1) : i \in 1..k \/ i = k + 1
  OBVIOUS
<1>3. DOMAIN g = {L[i].key : i \in 1..(k + 1)}
  BY <1>1, <1>2 DEF InfoRead
<1>4. \A i \in 1..(k + 1) : g[L[i].key] = L[i].val
  <2> TAKE i \in 1..(k + 1)
  <2>1. CASE i = k + 1
    BY <1>1, <2>1
  <2>2. CASE i \in 1..k
    <3>1. L[i].key # x /\ L[i].key \in DOMAIN gi /\ gi[L[i].key] = L[i].val
      BY <2>2 DEF InfoRead
    <3> QED
      BY <1>1, <3>1
  <2> QED
    BY <1>2, <2>1, <2>2
<1> QED
  BY <1>3, <1>4 DEF InfoRead, g

\* A reader before the general information, in it, and in the description.
Before(f) == At(f, FALSE, FALSE)
Inside(f) == At(f, TRUE, FALSE)
Below(f)  == At(f, TRUE, TRUE)

ParsesFields(f, v, d) ==
  /\ ParseLine(Before(f), Line("user", v)) = Before([f EXCEPT !["user"] = v])
  /\ ParseLine(Before(f), Line("city", v)) = Before([f EXCEPT !["city"] = v])
  /\ ParseLine(Before(f), Line("event name", v)) = Before([f EXCEPT !["name"] = v])
  /\ ParseLine(Before(f), Line("date time", Decimal[d])) = Before([f EXCEPT !["date_time"] = d])
  /\ ParseLine(Before(f), Line("destination", Slashed(Channel)))
       = Before([f EXCEPT !["channel"] = Channel])
  /\ ParseLine(Before(f), Line("general information", v)) = Inside(f)
  /\ ParseLine(Inside(f), Line("description", v)) = Below(f)

LEMMA ParseFields == ASSUME NEW f, NEW v, NEW d \in Dates PROVE ParsesFields(f, v, d)
<1>1. ParsesKnown(f, FALSE, FALSE, v, d) /\ ParsesKnown(f, TRUE, FALSE, v, d)
  BY ParseKnown, Zenon
<1> QED
  BY <1>1, Zenon DEF ParsesKnown, ParsesFields, Before, Inside, Below

Threw(p) == p.threw # FALSE

LEMMA NotThrown == ASSUME NEW f PROVE ~Threw(Before(f)) /\ ~Threw(Inside(f)) /\ ~Threw(Below(f))
<1>1. Settable(f, FALSE, FALSE) /\ Settable(f, TRUE, FALSE) /\ Settable(f, TRUE, TRUE)
  BY SetAt, Zenon
<1> QED
  BY <1>1, Zenon DEF Settable, Before, Inside, Below, Threw

\* Lines that are no field.
ParsesRest(f, l) ==
  /\ l.key = NoKey => ParseLine(Before(f), l) = Before(f)
  /\ l.key \notin FieldKeys \cup {NoKey} => ParseLine(Before(f), l) = Before(f)
  /\ l.key \notin FieldKeys \cup {NoKey} => ParseLine(Inside(f), l) =
       Inside([f EXCEPT !["general_information"] = With(f.general_information, l.key, l.val)])
  /\ l.key = NoKey => ParseLine(Below(f), l) =
       Below([f EXCEPT !["description"] = Append(f.description, l)])

LEMMA ParseRest == ASSUME NEW f, NEW l PROVE ParsesRest(f, l)
<1>1. Settable(f, FALSE, FALSE) /\ Settable(f, TRUE, FALSE) /\ Settable(f, TRUE, TRUE)
  BY SetAt, Zenon
<1>2. Before(f).threw = FALSE /\ Inside(f).threw = FALSE /\ Below(f).threw = FALSE
  BY <1>1, Zenon DEF Settable, Before, Inside, Below
<1>3. l.key = NoKey => ParseLine(Before(f), l) = Before(f)
  <2>1. ~Before(f).in_description
    BY <1>1, Zenon DEF Settable, Before
  <2> QED
    BY <1>2, <2>1, ParseOther, Zenon
<1>4. l.key \notin FieldKeys \cup {NoKey} => ParseLine(Before(f), l) = Before(f)
  <2>1. ~Before(f).in_general_info
    BY <1>1, Zenon DEF Settable, Before
  <2> QED
    BY <1>2, <2>1, ParseOther, Zenon
<1>5. l.key \notin FieldKeys \cup {NoKey} => ParseLine(Inside(f), l) =
        Inside([f EXCEPT !["general_information"] = With(f.general_information, l.key, l.val)])
  <2>1. Inside(f).in_general_info /\ Inside(f).fields = f
    BY <1>1, Zenon DEF Settable, Inside
  <2>2. \A v : Set(Inside(f), "general_information", v)
                = Inside([f EXCEPT !["general_information"] = v])
    BY <1>1, Zenon DEF Settable, Inside
  <2> QED
    BY <1>2, <2>1, <2>2, ParseOther, ZenonT(60)
<1>6. l.key = NoKey => ParseLine(Below(f), l) =
        Below([f EXCEPT !["description"] = Append(f.description, l)])
  <2>1. Below(f).in_description /\ Below(f).fields = f
    BY <1>1, Zenon DEF Settable, Below
  <2>2. \A v : Set(Below(f), "description", v) = Below([f EXCEPT !["description"] = v])
    BY <1>1, Zenon DEF Settable, Below
  <2>3. PICK v : v = Append(f.description, l)
    OBVIOUS
  <2>4. v = Append(Below(f).fields.description, l)
    BY <2>1, <2>3
  <2>5. l.key = NoKey => ParseLine(Below(f), l) = Set(Below(f), "description", v)
    BY <1>2, <2>1, <2>4, ParseOther, Zenon
  <2> QED
    BY <2>2, <2>3, <2>5, Zenon
<1> QED
  BY <1>3, <1>4, <1>5, <1>6, Zenon DEF ParsesRest

\* A reader after m lines of the frame that u sent for e.
Read(u, ci, na, da, d, gi) == Filled(Channel, u, ci, na, da, d, gi)
Nothing == Filled("", "", "", "", 0, <<>>, <<>>)

ParsingInfo(u, e, k, p) ==
  \E gi : InfoRead(InfoLines(e), k, gi)
            /\ p = Inside(Read(u, e.city, e.name, e.date_time, <<>>, gi))
ParsingText(u, e, k, p) ==
  \E gi, d : InfoRead(InfoLines(e), Len(InfoLines(e)), gi) /\ d = SubSeq(Text(e), 1, k)
               /\ p = Below(Read(u, e.city, e.name, e.date_time, d, gi))

Parsed(u, e, m, p) ==
  LET n == Len(InfoLines(e)) IN
  /\ m <= 3 => p = Before(Nothing)
  /\ m = 4 => p = Before(Read("", "", "", 0, <<>>, <<>>))
  /\ m = 5 => p = Before(Read(u, "", "", 0, <<>>, <<>>))
  /\ m = 6 => p = Before(Read(u, e.city, "", 0, <<>>, <<>>))
  /\ m = 7 => p = Before(Read(u, e.city, e.name, 0, <<>>, <<>>))
  /\ m = 8 => p = Before(Read(u, e.city, e.name, e.date_time, <<>>, <<>>))
  /\ 9 <= m /\ m <= 9 + n => ParsingInfo(u, e, m - 9, p)
  /\ 10 + n <= m => ParsingText(u, e, m - 10 - n, p)

LEMMA ParsedFirst == ASSUME NEW u, NEW e, Len(InfoLines(e)) \in Nat PROVE Parsed(u, e, 0, Parser)
<1>1. Fields = Nothing
  BY DEF Fields, Filled, Nothing
<1>2. Parser = Before(Fields)
  BY Zenon DEF Parser, Before, At, Reads
<1>3. Parser = Before(Nothing)
  BY <1>1, <1>2
<1> HIDE DEF Nothing
<1> QED
  BY <1>3 DEF Parsed

\* One part of the frame at a time.
Phases(u, e, n, m, p) ==
  /\ m <= 3 => (Parsed(u, e, m, p) <=> p = Before(Nothing))
  /\ m = 4 => (Parsed(u, e, m, p) <=> p = Before(Read("", "", "", 0, <<>>, <<>>)))
  /\ m = 5 => (Parsed(u, e, m, p) <=> p = Before(Read(u, "", "", 0, <<>>, <<>>)))
  /\ m = 6 => (Parsed(u, e, m, p) <=> p = Before(Read(u, e.city, "", 0, <<>>, <<>>)))
  /\ m = 7 => (Parsed(u, e, m, p) <=> p = Before(Read(u, e.city, e.name, 0, <<>>, <<>>)))
  /\ m = 8 => (Parsed(u, e, m, p) <=> p = Before(Read(u, e.city, e.name, e.date_time, <<>>, <<>>)))
  /\ 9 <= m /\ m <= 9 + n => (Parsed(u, e, m, p) <=> ParsingInfo(u, e, m - 9, p))
  /\ 10 + n <= m => (Parsed(u, e, m, p) <=> ParsingText(u, e, m - 10 - n, p))

LEMMA ParsedAt ==
  ASSUME NEW u, NEW e, NEW m \in Nat, NEW p, NEW n \in Nat, n = Len(InfoLines(e))
  PROVE  /\ m <= 3 => (Parsed(u, e, m, p) <=> p = Before(Nothing))
         /\ m = 4 => (Parsed(u, e, m, p) <=> p = Before(Read("", "", "", 0, <<>>, <<>>)))
         /\ m = 5 => (Parsed(u, e, m, p) <=> p = Before(Read(u, "", "", 0, <<>>, <<>>)))
         /\ m = 6 => (Parsed(u, e, m, p) <=> p = Before(Read(u, e.city, "", 0, <<>>, <<>>)))
         /\ m = 7 => (Parsed(u, e, m, p) <=> p = Before(Read(u, e.city, e.name, 0, <<>>, <<>>)))
         /\ m = 8 => (Parsed(u, e, m, p) <=> p = Before(Read(u, e.city, e.name, e.date_time, <<>>, <<>>)))
         /\ 9 <= m /\ m <= 9 + n => (Parsed(u, e, m, p) <=> ParsingInfo(u, e, m - 9, p))
         /\ 10 + n <= m => (Parsed(u, e, m, p) <=> ParsingText(u, e, m - 10 - n, p))
<1>1. ASSUME m <= 3 PROVE Parsed(u, e, m, p) <=> p = Before(Nothing)
  <2>1. ~(m = 4) /\ ~(m = 5) /\ ~(m = 6) /\ ~(m = 7) /\ ~(m = 8)
        /\ ~(9 <= m /\ m <= 9 + n) /\ ~(10 + n <= m)
    BY <1>1
  <2> QED
    BY <1>1, <2>1, Zenon DEF Parsed
<1>2. ASSUME m = 4 PROVE Parsed(u, e, m, p) <=> p = Before(Read("", "", "", 0, <<>>, <<>>))
  <2>1. ~(m <= 3) /\ ~(m = 5) /\ ~(m = 6) /\ ~(m = 7) /\ ~(m = 8)
        /\ ~(9 <= m /\ m <= 9 + n) /\ ~(10 + n <= m)
    BY <1>2
  <2> QED
    BY <1>2, <2>1, Zenon DEF Parsed
<1>3. ASSUME m = 5 PROVE Parsed(u, e, m, p) <=> p = Before(Read(u, "", "", 0, <<>>, <<>>))
  <2>1. ~(m <= 3) /\ ~(m = 4) /\ ~(m = 6) /\ ~(m = 7) /\ ~(m = 8)
        /\ ~(9 <= m /\ m <= 9 + n) /\ ~(10 + n <= m)
    BY <1>3
  <2> QED
    BY <1>3, <2>1, Zenon DEF Parsed
<1>4. ASSUME m = 6 PROVE Parsed(u, e, m, p) <=> p = Before(Read(u, e.city, "", 0, <<>>, <<>>))
  <2>1. ~(m <= 3) /\ ~(m = 4) /\ ~(m = 5) /\ ~(m = 7) /\ ~(m = 8)
        /\ ~(9 <= m /\ m <= 9 + n) /\ ~(10 + n <= m)
    BY <1>4
  <2> QED
    BY <1>4, <2>1, Zenon DEF Parsed
<1>5. ASSUME m = 7 PROVE Parsed(u, e, m, p) <=> p = Before(Read(u, e.city, e.name, 0, <<>>, <<>>))
  <2>1. ~(m <= 3) /\ ~(m = 4) /\ ~(m = 5) /\ ~(m = 6) /\ ~(m = 8)
        /\ ~(9 <= m /\ m <= 9 + n) /\ ~(10 + n <= m)
    BY <1>5
  <2> QED
    BY <1>5, <2>1, Zenon DEF Parsed
<1>6. ASSUME m = 8 PROVE Parsed(u, e, m, p) <=> p = Before(Read(u, e.city, e.name, e.date_time, <<>>, <<>>))
  <2>1. ~(m <= 3) /\ ~(m = 4) /\ ~(m = 5) /\ ~(m = 6) /\ ~(m = 7)
        /\ ~(9 <= m /\ m <= 9 + n) /\ ~(10 + n <= m)
    BY <1>6
  <2> QED
    BY <1>6, <2>1, Zenon DEF Parsed
<1>7. ASSUME 9 <= m /\ m <= 9 + n PROVE Parsed(u, e, m, p) <=> ParsingInfo(u, e, m - 9, p)
  <2>1. ~(m <= 3) /\ ~(m = 4) /\ ~(m = 5) /\ ~(m = 6) /\ ~(m = 7)
        /\ ~(m = 8) /\ ~(10 + n <= m)
    BY <1>7
  <2> QED
    BY <1>7, <2>1, Zenon DEF Parsed
<1>8. ASSUME 10 + n <= m PROVE Parsed(u, e, m, p) <=> ParsingText(u, e, m - 10 - n, p)
  <2>1. ~(m <= 3) /\ ~(m = 4) /\ ~(m = 5) /\ ~(m = 6) /\ ~(m = 7)
        /\ ~(m = 8) /\ ~(9 <= m /\ m <= 9 + n)
    BY <1>8
  <2> QED
    BY <1>8, <2>1, Zenon DEF Parsed
<1> QED
  BY <1>1, <1>2, <1>3, <1>4, <1>5, <1>6, <1>7, <1>8, Zenon

LEMMA ParsedPhases ==
  ASSUME NEW u, NEW e, NEW m \in Nat, NEW p, NEW n \in Nat, n = Len(InfoLines(e))
  PROVE  Phases(u, e, n, m, p)
BY ParsedAt, ZenonT(60) DEF Phases

LEMMA ParseHead ==
  ASSUME NEW u, NEW e, NEW F, NEW m \in 0..2, Framed(u, e, F), NEW p, Parsed(u, e, m, p)
  PROVE  ~Threw(p) /\ Parsed(u, e, m + 1, ParseLine(p, F[m + 1]))
<1> DEFINE f == Nothing
<1>1. Len(InfoLines(e)) \in Nat
  BY DEF Framed
<1>2. p = Before(f)
  <2>1. m \in Nat /\ m <= 3
    OBVIOUS
  <2> QED
    BY <1>1, <2>1, ParsedAt, Zenon
<1>3. F[m + 1].key \notin FieldKeys
  <2>1. m + 1 = 1 \/ m + 1 = 2 \/ m + 1 = 3
    OBVIOUS
  <2>2. Prose(7).key = NoKey
    BY DEF Prose
  <2>3. Line("message-id", "7").key = "message-id" /\ Line("subscription", "0").key = "subscription"
    BY LineParts, Zenon
  <2>4. NoKey \notin FieldKeys /\ "message-id" \notin FieldKeys /\ "subscription" \notin FieldKeys
    BY Zenon DEF NoKey, FieldKeys
  <2>5. F[1] = Prose(7) /\ F[2] = Line("message-id", "7") /\ F[3] = Line("subscription", "0")
    BY Zenon DEF Framed
  <2> QED
    BY <2>1, <2>2, <2>3, <2>4, <2>5, Zenon
<1>4. \A l : ParsesRest(f, l)
  BY ParseRest, Zenon
<1> HIDE DEF f
<1>5. ParseLine(p, F[m + 1]) = Before(f)
  <2>1. F[m + 1].key = NoKey \/ F[m + 1].key \notin FieldKeys \cup {NoKey}
    BY <1>3
  <2>2. ParsesRest(f, F[m + 1])
    BY <1>4, Zenon
  <2> QED
    BY <1>2, <2>1, <2>2, Zenon DEF ParsesRest
<1>6. Parsed(u, e, m + 1, Before(f))
  <2>1. m + 1 \in Nat /\ m + 1 <= 3
    OBVIOUS
  <2> QED
    BY <1>1, <2>1, ParsedAt, Zenon DEF f
<1> QED
  BY <1>2, <1>5, <1>6, NotThrown, Zenon

LEMMA ParseMiddle ==
  ASSUME NEW u, NEW e, e.date_time \in Dates, NEW F, NEW m \in 3..7, Framed(u, e, F),
         NEW p, Parsed(u, e, m, p)
  PROVE  ~Threw(p) /\ Parsed(u, e, m + 1, ParseLine(p, F[m + 1]))
<1>1. PICK n \in Nat : n = Len(InfoLines(e))
  BY DEF Framed
<1>2. \A f, v : ParsesFields(f, v, e.date_time)
  BY ParseFields, Zenon
<1>3. m \in Nat /\ m + 1 \in Nat
  OBVIOUS
<1>4. CASE m = 3
  <2>1. m <= 3 /\ 3 + 1 = 4 /\ m + 1 = 4
    BY <1>4
  <2>2. p = Before(Nothing)
    BY <1>1, <1>3, <1>4, <2>1, ParsedAt, Zenon
  <2>3. [Nothing EXCEPT !["channel"] = Channel]
          = Read("", "", "", 0, <<>>, <<>>)
    <3>1. Fills(Nothing, "", "", "", "", 0, <<>>, <<>>)
      BY FilledSet, Zenon DEF Nothing, Read
    <3> QED
      BY <3>1, Zenon DEF Fills, Read
  <2>4. ParseLine(p, Line("destination", Slashed(Channel))) = Before(Read("", "", "", 0, <<>>, <<>>))
    <3>1. ParsesFields(Nothing, Channel, e.date_time)
      BY <1>2, Zenon
    <3> QED
      BY <2>2, <2>3, <3>1, Zenon DEF ParsesFields
  <2>5. F[3 + 1] = Line("destination", Slashed(Channel))
    BY <2>1, Zenon DEF Framed
  <2>6. ParseLine(p, F[m + 1]) = Before(Read("", "", "", 0, <<>>, <<>>))
    BY <1>4, <2>4, <2>5, Zenon
  <2>7. Parsed(u, e, m + 1, Before(Read("", "", "", 0, <<>>, <<>>)))
    <3>1. Phases(u, e, n, m + 1, Before(Read("", "", "", 0, <<>>, <<>>)))
      BY <1>1, <1>3, ParsedPhases, Zenon
    <3> QED
      BY <2>1, <3>1, Zenon DEF Phases
  <2> QED
    BY <2>2, <2>6, <2>7, NotThrown, Zenon
<1>5. CASE m = 4
  <2>1. 4 + 1 = 5 /\ m + 1 = 5
    BY <1>5
  <2>2. p = Before(Read("", "", "", 0, <<>>, <<>>))
    BY <1>1, <1>3, <1>5, <2>1, ParsedAt, Zenon
  <2>3. [Read("", "", "", 0, <<>>, <<>>) EXCEPT !["user"] = u]
          = Read(u, "", "", 0, <<>>, <<>>)
    <3>1. Fills(Read("", "", "", 0, <<>>, <<>>), Channel, "", "", "", 0, <<>>, <<>>)
      BY FilledSet, Zenon DEF Read
    <3> QED
      BY <3>1, Zenon DEF Fills, Read
  <2>4. ParseLine(p, Line("user", u)) = Before(Read(u, "", "", 0, <<>>, <<>>))
    <3>1. ParsesFields(Read("", "", "", 0, <<>>, <<>>), u, e.date_time)
      BY <1>2, Zenon
    <3> QED
      BY <2>2, <2>3, <3>1, Zenon DEF ParsesFields
  <2>5. F[4 + 1] = Line("user", u)
    BY <2>1, Zenon DEF Framed
  <2>6. ParseLine(p, F[m + 1]) = Before(Read(u, "", "", 0, <<>>, <<>>))
    BY <1>5, <2>4, <2>5, Zenon
  <2>7. Parsed(u, e, m + 1, Before(Read(u, "", "", 0, <<>>, <<>>)))
    <3>1. Phases(u, e, n, m + 1, Before(Read(u, "", "", 0, <<>>, <<>>)))
      BY <1>1, <1>3, ParsedPhases, Zenon
    <3> QED
      BY <2>1, <3>1, Zenon DEF Phases
  <2> QED
    BY <2>2, <2>6, <2>7, NotThrown, Zenon
<1>6. CASE m = 5
  <2>1. 5 + 1 = 6 /\ m + 1 = 6
    BY <1>6
  <2>2. p = Before(Read(u, "", "", 0, <<>>, <<>>))
    BY <1>1, <1>3, <1>6, <2>1, ParsedAt, ZenonT(60)
  <2>3. [Read(u, "", "", 0, <<>>, <<>>) EXCEPT !["city"] = e.city]
          = Read(u, e.city, "", 0, <<>>, <<>>)
    <3>1. Fills(Read(u, "", "", 0, <<>>, <<>>), Channel, u, "", "", 0, <<>>, <<>>)
      BY FilledSet, Zenon DEF Read
    <3> QED
      BY <3>1, Zenon DEF Fills, Read
  <2>4. ParseLine(p, Line("city", e.city)) = Before(Read(u, e.city, "", 0, <<>>, <<>>))
    <3>1. ParsesFields(Read(u, "", "", 0, <<>>, <<>>), e.city, e.date_time)
      BY <1>2, Zenon
    <3> QED
      BY <2>2, <2>3, <3>1, Zenon DEF ParsesFields
  <2>5. F[5 + 1] = Line("city", e.city)
    BY <2>1, Zenon DEF Framed
  <2>6. ParseLine(p, F[m + 1]) = Before(Read(u, e.city, "", 0, <<>>, <<>>))
    BY <1>6, <2>4, <2>5, Zenon
  <2>7. Parsed(u, e, m + 1, Before(Read(u, e.city, "", 0, <<>>, <<>>)))
    <3>1. Phases(u, e, n, m + 1, Before(Read(u, e.city, "", 0, <<>>, <<>>)))
      BY <1>1, <1>3, ParsedPhases, Zenon
    <3> QED
      BY <2>1, <3>1, Zenon DEF Phases
  <2> QED
    BY <2>2, <2>6, <2>7, NotThrown, Zenon
<1>7. CASE m = 6
  <2>1. 6 + 1 = 7 /\ m + 1 = 7
    BY <1>7
  <2>2. p = Before(Read(u, e.city, "", 0, <<>>, <<>>))
    BY <1>1, <1>3, <1>7, <2>1, ParsedAt, Zenon
  <2>3. [Read(u, e.city, "", 0, <<>>, <<>>) EXCEPT !["name"] = e.name]
          = Read(u, e.city, e.name, 0, <<>>, <<>>)
    <3>1. Fills(Read(u, e.city, "", 0, <<>>, <<>>), Channel, u, e.city, "", 0, <<>>, <<>>)
      BY FilledSet, Zenon DEF Read
    <3> QED
      BY <3>1, Zenon DEF Fills, Read
  <2>4. ParseLine(p, Line("event name", e.name)) = Before(Read(u, e.city, e.name, 0, <<>>, <<>>))
    <3>1. ParsesFields(Read(u, e.city, "", 0, <<>>, <<>>), e.name, e.date_time)
      BY <1>2, Zenon
    <3> QED
      BY <2>2, <2>3, <3>1, Zenon DEF ParsesFields
  <2>5. F[6 + 1] = Line("event name", e.name)
    BY <2>1, Zenon DEF Framed
  <2>6. ParseLine(p, F[m + 1]) = Before(Read(u, e.city, e.name, 0, <<>>, <<>>))
    BY <1>7, <2>4, <2>5, Zenon
  <2>7. Parsed(u, e, m + 1, Before(Read(u, e.city, e.name, 0, <<>>, <<>>)))
    <3>1. Phases(u, e, n, m + 1, Before(Read(u, e.city, e.name, 0, <<>>, <<>>)))
      BY <1>1, <1>3, ParsedPhases, Zenon
    <3> QED
      BY <2>1, <3>1, Zenon DEF Phases
  <2> QED
    BY <2>2, <2>6, <2>7, NotThrown, Zenon
<1>8. CASE m = 7
  <2>1. 7 + 1 = 8 /\ m + 1 = 8
    BY <1>8
  <2>2. p = Before(Read(u, e.city, e.name, 0, <<>>, <<>>))
    BY <1>1, <1>3, <1>8, <2>1, ParsedAt, Zenon
  <2>3. [Read(u, e.city, e.name, 0, <<>>, <<>>) EXCEPT !["date_time"] = e.date_time]
          = Read(u, e.city, e.name, e.date_time, <<>>, <<>>)
    <3>1. Fills(Read(u, e.city, e.name, 0, <<>>, <<>>), Channel, u, e.city, e.name, 0, <<>>, <<>>)
      BY FilledSet, Zenon DEF Read
    <3> QED
      BY <3>1, Zenon DEF Fills, Read
  <2>4. ParseLine(p, Line("date time", Decimal[e.date_time])) = Before(Read(u, e.city, e.name, e.date_time, <<>>, <<>>))
    <3>1. ParsesFields(Read(u, e.city, e.name, 0, <<>>, <<>>), e.name, e.date_time)
      BY <1>2, Zenon
    <3> QED
      BY <2>2, <2>3, <3>1, Zenon DEF ParsesFields
  <2>5. F[7 + 1] = Line("date time", Decimal[e.date_time])
    BY <2>1, Zenon DEF Framed
  <2>6. ParseLine(p, F[m + 1]) = Before(Read(u, e.city, e.name, e.date_time, <<>>, <<>>))
    BY <1>8, <2>4, <2>5, Zenon
  <2>7. Parsed(u, e, m + 1, Before(Read(u, e.city, e.name, e.date_time, <<>>, <<>>)))
    <3>1. Phases(u, e, n, m + 1, Before(Read(u, e.city, e.name, e.date_time, <<>>, <<>>)))
      BY <1>1, <1>3, ParsedPhases, Zenon
    <3> QED
      BY <2>1, <3>1, Zenon DEF Phases
  <2> QED
    BY <2>2, <2>6, <2>7, NotThrown, Zenon
<1>9. m = 3 \/ m = 4 \/ m = 5 \/ m = 6 \/ m = 7
  OBVIOUS
<1> QED
  BY <1>4, <1>5, <1>6, <1>7, <1>8, <1>9, Zenon

LEMMA ParseInfo ==
  ASSUME NEW u, NEW e, Reportable(e), NEW F, NEW m \in Nat, m >= 8, m <= 8 + Len(InfoLines(e)),
         Framed(u, e, F), NEW p, Parsed(u, e, m, p)
  PROVE  ~Threw(p) /\ Parsed(u, e, m + 1, ParseLine(p, F[m + 1]))
<1> DEFINE f(gi) == Read(u, e.city, e.name, e.date_time, <<>>, gi)
           L == InfoLines(e)
<1>1. PICK n \in Nat : n = Len(L)
  BY DEF Framed
<1>2. e.date_time \in Dates /\ DOMAIN e.general_information \subseteq InfoKeys
  BY Zenon DEF Reportable
<1>3. InfoLayout(e)
  BY <1>2, InfoLaidOut, Zenon
<1>4. CASE m = 8
  <2>1. m + 1 \in Nat /\ 9 <= m + 1 /\ m + 1 <= 9 + n /\ (m + 1) - 9 = 0 /\ 8 + 1 = 9
    BY <1>1, <1>4
  <2>2. p = Before(f(<<>>))
    BY <1>1, <1>4, ParsedAt, Zenon
  <2>3. F[m + 1] = Line("general information", "")
    BY <1>4, <2>1, Zenon DEF Framed
  <2>4. ParseLine(p, F[m + 1]) = Inside(f(<<>>))
    <3>1. ParsesFields(f(<<>>), "", e.date_time)
      BY <1>2, ParseFields, Zenon
    <3> QED
      BY <2>2, <2>3, <3>1, Zenon DEF ParsesFields
  <2>5. InfoRead(L, 0, <<>>)
    BY DEF InfoRead
  <2>6. Parsed(u, e, m + 1, Inside(f(<<>>)))
    <3>1. ParsingInfo(u, e, (m + 1) - 9, Inside(f(<<>>)))
      BY <2>1, <2>5, Zenon DEF ParsingInfo
    <3> QED
      BY <1>1, <2>1, <3>1, ParsedAt, Zenon
  <2> QED
    BY <2>2, <2>4, <2>6, NotThrown, Zenon
<1>5. CASE m >= 9
  <2>1. PICK k \in Nat : k = m - 9 /\ k < n /\ k + 1 = (m + 1) - 9 /\ k + 1 \in 1..n /\ 9 + (k + 1) = m + 1
    <3>1. m - 9 \in Nat /\ m - 9 < n
      BY <1>1, <1>5
    <3> QED
      BY <3>1
  <2>2. PICK gi : InfoRead(L, k, gi) /\ p = Inside(f(gi))
    <3>1. 9 <= m /\ m <= 9 + n
      BY <1>1, <1>5
    <3>2. ParsingInfo(u, e, m - 9, p)
      BY <1>1, <3>1, ParsedAt, Zenon
    <3> QED
      BY <2>1, <3>2, Zenon DEF ParsingInfo
  <2>3. F[m + 1] = L[k + 1]
    BY <1>1, <2>1, Zenon DEF Framed
  <2>4. PICK l : l = L[k + 1] /\ l.key \notin FieldKeys \cup {NoKey}
    <3>1. PICK x \in DOMAIN e.general_information : InfoAt(e, x, L[k + 1])
      BY <1>1, <1>3, <2>1, Zenon DEF InfoLayout
    <3>2. L[k + 1].key = Tabbed(x)
      <4>1. L[k + 1] = Line(Tabbed(x), Spaced(e.general_information[x]))
        BY <3>1, Zenon DEF InfoAt
      <4>2. Line(Tabbed(x), Spaced(e.general_information[x])).key = Tabbed(x)
        BY LineParts, Zenon
      <4> QED
        BY <4>1, <4>2, Zenon
    <3>3. Tabbed(x) \notin FieldKeys \cup {NoKey}
      BY <1>2, <3>1, StringsAssumption
    <3> QED
      BY <3>2, <3>3
  <2>5. PICK g : g = With(gi, l.key, l.val)
    OBVIOUS
  <2>6. InfoRead(L, k + 1, g)
    <3>1. \A i, j \in 1..n : L[i].key = L[j].key => i = j
      BY <1>1, <1>3, Zenon DEF InfoLayout
    <3> QED
      BY <2>1, <2>2, <2>4, <2>5, <3>1, InfoGrows, Zenon
  <2>7. ParseLine(p, l) = Inside(f(g))
    <3>1. ParsesRest(f(gi), l)
      BY ParseRest, Zenon
    <3>2. Fills(f(gi), Channel, u, e.city, e.name, e.date_time, <<>>, gi)
      BY FilledSet, Zenon DEF Read
    <3>3. f(gi).general_information = gi
      BY <3>2, Zenon DEF Fills
    <3>4. [f(gi) EXCEPT !["general_information"] = g] = f(g)
      BY <3>2, Zenon DEF Fills, Read
    <3> HIDE DEF f
    <3>5. ParseLine(p, l) = Inside([f(gi) EXCEPT !["general_information"] = g])
      BY <2>2, <2>4, <2>5, <3>1, <3>3, Zenon DEF ParsesRest
    <3> QED
      BY <3>4, <3>5, Zenon
  <2>8. Parsed(u, e, m + 1, Inside(f(g)))
    <3>1. m + 1 \in Nat /\ 9 <= m + 1 /\ m + 1 <= 9 + n
      BY <2>1
    <3>2. ParsingInfo(u, e, (m + 1) - 9, Inside(f(g)))
      BY <2>1, <2>6, Zenon DEF ParsingInfo
    <3> QED
      BY <1>1, <3>1, <3>2, ParsedAt, Zenon
  <2> QED
    BY <2>2, <2>3, <2>4, <2>7, <2>8, NotThrown, Zenon
<1> QED
  BY <1>4, <1>5

LEMMA ParseDescription ==
  ASSUME NEW u, NEW e, e.date_time \in Dates, NEW F, NEW m \in Nat, m = 9 + Len(InfoLines(e)),
         Framed(u, e, F), NEW p, Parsed(u, e, m, p)
  PROVE  ~Threw(p) /\ Parsed(u, e, m + 1, ParseLine(p, F[m + 1]))
<1> DEFINE f(gi) == Read(u, e.city, e.name, e.date_time, <<>>, gi)
<1>1. PICK n \in Nat : n = Len(InfoLines(e))
  BY DEF Framed
<1>2. /\ 9 <= m /\ m <= 9 + n /\ m - 9 = n
      /\ m + 1 \in Nat /\ 10 + n = m + 1 /\ 10 + n <= m + 1
  BY <1>1
<1>3. PICK gi : InfoRead(InfoLines(e), n, gi) /\ p = Inside(f(gi))
  <2>1. ParsingInfo(u, e, m - 9, p)
    BY <1>1, <1>2, ParsedAt, Zenon
  <2> QED
    BY <1>2, <2>1, Zenon DEF ParsingInfo
<1>4. F[m + 1] = Line("description", "")
  BY <1>1, <1>2, Zenon DEF Framed
<1>5. ParseLine(p, F[m + 1]) = Below(f(gi))
  <2>1. ParsesFields(f(gi), "", e.date_time)
    BY ParseFields, Zenon
  <2> QED
    BY <1>3, <1>4, <2>1, Zenon DEF ParsesFields
<1>6. <<>> = SubSeq(Text(e), 1, (m + 1) - 10 - n)
  <2>1. (m + 1) - 10 - n = 0
    BY <1>2
  <2> QED
    BY <2>1, SubSeqEmpty
<1>7. Parsed(u, e, m + 1, Below(f(gi)))
  <2>1. ParsingText(u, e, (m + 1) - 10 - n, Below(f(gi)))
    BY <1>1, <1>3, <1>6, Zenon DEF ParsingText
  <2> QED
    BY <1>1, <1>2, <2>1, ParsedAt, Zenon
<1> QED
  BY <1>3, <1>5, <1>7, NotThrown, Zenon

LEMMA PrefixGrows ==
  ASSUME NEW S, NEW t \in Seq(S), NEW k \in Nat, k < Len(t)
  PROVE  SubSeq(t, 1, k + 1) = Append(SubSeq(t, 1, k), t[k + 1])
<1>1. Len(t) \in Nat
  BY LenProperties
<1>2. \A i \in 1..(k + 1) : t[i] \in S
  BY <1>1, ElementOfSeq
<1>3. PICK a : a = SubSeq(t, 1, k) /\ a \in Seq(S) /\ Len(a) = k /\ \A i \in 1..k : a[i] = t[i]
  <2>1. \A i \in 1..k : t[i] \in S
    BY <1>2
  <2>2. PICK a : a = SubSeq(t, 1, k)
    OBVIOUS
  <2>3. /\ a \in Seq(S) /\ Len(a) = IF 1 <= k THEN k - 1 + 1 ELSE 0
        /\ \A i \in 1..(k - 1 + 1) : a[i] = t[1 + i - 1]
    BY <2>1, <2>2, SubSeqProperties
  <2> QED
    BY <2>2, <2>3
<1>4. PICK b : b = SubSeq(t, 1, k + 1) /\ b \in Seq(S) /\ Len(b) = k + 1
               /\ \A i \in 1..(k + 1) : b[i] = t[i]
  <2>1. PICK n \in Nat : n = k + 1
    OBVIOUS
  <2>2. PICK b : b = SubSeq(t, 1, n)
    OBVIOUS
  <2>3. /\ b \in Seq(S) /\ Len(b) = IF 1 <= n THEN n - 1 + 1 ELSE 0
        /\ \A i \in 1..(n - 1 + 1) : b[i] = t[1 + i - 1]
    BY <1>2, <2>1, <2>2, SubSeqProperties
  <2>4. Len(b) = n /\ \A i \in 1..n : b[i] = t[i]
    BY <2>1, <2>3
  <2> QED
    BY <2>1, <2>2, <2>3, <2>4
<1>5. PICK c : c = Append(a, t[k + 1])
  OBVIOUS
<1>6. c \in Seq(S) /\ Len(c) = k + 1 /\ c[k + 1] = t[k + 1] /\ \A i \in 1..k : c[i] = a[i]
  <2>1. t[k + 1] \in S
    BY <1>2
  <2> QED
    BY <1>3, <1>5, <2>1, AppendProperties
<1>7. \A i \in 1..(k + 1) : b[i] = c[i]
  BY <1>3, <1>4, <1>6
<1>8. b = c
  BY <1>4, <1>6, <1>7, SeqEqual
<1> QED
  BY <1>3, <1>4, <1>5, <1>8

\* Without a ':' in the description.
LEMMA PlainText ==
  ASSUME NEW e, Plain(e)
  PROVE  /\ \E S : Text(e) \in Seq(S)
         /\ \A i \in 1..Len(Text(e)) : Text(e)[i].key = NoKey
<1> DEFINE S == [key : {NoKey}, val : {""}, len : Nat]
<1>1. Prose(0) \in S
  BY DEF Prose
<1>2. PICK d \in Seq(S) : d = e.description
  BY DEF Plain
<1>3. PICK t : t = Append(d, Prose(0)) /\ t \in Seq(S)
  BY <1>1, <1>2, AppendProperties
<1>4. t = Text(e)
  BY <1>2, <1>3, Zenon DEF Text
<1>5. \A i \in 1..Len(t) : t[i] \in S
  BY <1>3, ElementOfSeq
<1>6. \A x \in S : x.key = NoKey
  OBVIOUS
<1> QED
  BY <1>3, <1>4, <1>5, <1>6, Zenon

LEMMA ParseText ==
  ASSUME NEW u, NEW e, Plain(e), NEW F, NEW m \in Nat, m >= 10 + Len(InfoLines(e)), m < Len(F),
         Framed(u, e, F), NEW p, Parsed(u, e, m, p)
  PROVE  ~Threw(p) /\ Parsed(u, e, m + 1, ParseLine(p, F[m + 1]))
<1> DEFINE f(d, gi) == Read(u, e.city, e.name, e.date_time, d, gi)
<1>1. PICK n \in Nat : n = Len(InfoLines(e))
  BY DEF Framed
<1>2. PICK S, t : t \in Seq(S) /\ t = Text(e)
  BY PlainText, Zenon
<1>3. PICK k \in Nat : /\ k = m - 10 - n /\ k < Len(t) /\ k + 1 \in 1..Len(t)
                       /\ 10 + n + (k + 1) = m + 1 /\ (m + 1) - 10 - n = k + 1
  <2>1. Len(t) \in Nat /\ Len(F) = 10 + n + Len(t)
    BY <1>1, <1>2, Zenon DEF Framed
  <2>2. m - 10 - n \in Nat /\ m - 10 - n < Len(t)
    BY <1>1, <2>1
  <2> QED
    BY <2>1, <2>2
<1>4. m + 1 \in Nat /\ 10 + n <= m /\ 10 + n <= m + 1
  BY <1>1
<1>5. PICK gi, d : /\ InfoRead(InfoLines(e), n, gi) /\ d = SubSeq(t, 1, k) /\ p = Below(f(d, gi))
  <2>1. ParsingText(u, e, m - 10 - n, p)
    BY <1>1, <1>4, ParsedAt, Zenon
  <2>2. ParsingText(u, e, k, p)
    BY <1>3, <2>1
  <2> QED
    BY <1>1, <1>2, <2>2, Zenon DEF ParsingText
<1>6. PICK l : l = t[k + 1] /\ l = F[m + 1] /\ l.key = NoKey
  <2>1. t[k + 1].key = NoKey
    BY <1>2, <1>3, PlainText, Zenon
  <2>2. F[10 + n + (k + 1)] = t[k + 1]
    BY <1>1, <1>2, <1>3, Zenon DEF Framed
  <2> QED
    BY <1>3, <2>1, <2>2
<1>7. PICK c : c = Append(d, l)
  OBVIOUS
<1>8. c = SubSeq(t, 1, k + 1)
  BY <1>2, <1>3, <1>5, <1>6, <1>7, PrefixGrows
<1>9. ParseLine(p, l) = Below(f(c, gi))
  <2>1. ParsesRest(f(d, gi), l)
    BY ParseRest, Zenon
  <2>2. Fills(f(d, gi), Channel, u, e.city, e.name, e.date_time, d, gi)
    BY FilledSet, Zenon DEF Read
  <2>3. f(d, gi).description = d
    BY <2>2, Zenon DEF Fills
  <2>4. [f(d, gi) EXCEPT !["description"] = c] = f(c, gi)
    BY <2>2, Zenon DEF Fills, Read
  <2> HIDE DEF f
  <2>5. c = Append(f(d, gi).description, l)
    BY <1>7, <2>3
  <2>6. ParseLine(p, l) = Below([f(d, gi) EXCEPT !["description"] = c])
    BY <1>5, <1>6, <2>1, <2>5, Zenon DEF ParsesRest
  <2> QED
    BY <2>4, <2>6, Zenon
<1>10. Parsed(u, e, m + 1, Below(f(c, gi)))
  <2>1. ParsingText(u, e, k + 1, Below(f(c, gi)))
    BY <1>1, <1>2, <1>5, <1>8, Zenon DEF ParsingText
  <2>2. ParsingText(u, e, (m + 1) - 10 - n, Below(f(c, gi)))
    BY <1>3, <2>1
  <2> QED
    BY <1>1, <1>4, <2>2, ParsedAt, Zenon
<1> QED
  BY <1>5, <1>6, <1>9, <1>10, NotThrown, Zenon

LEMMA ParseStep ==
  ASSUME NEW u, NEW e, Reportable(e), Plain(e), NEW F, Framed(u, e, F), NEW m \in Nat,
         m < Len(F), NEW p, Parsed(u, e, m, p)
  PROVE  ~Threw(p) /\ Parsed(u, e, m + 1, ParseLine(p, F[m + 1]))
<1>1. e.date_time \in Dates
  BY Zenon DEF Reportable
<1>2. PICK n \in Nat : n = Len(InfoLines(e))
  BY DEF Framed
<1>3. CASE m \in 0..2
  BY <1>3, ParseHead, Zenon
<1>4. CASE m \in 3..7
  BY <1>1, <1>4, ParseMiddle, Zenon
<1>5. CASE m >= 8 /\ m <= 8 + n
  BY <1>2, <1>5, ParseInfo, Zenon
<1>6. CASE m = 9 + n
  BY <1>1, <1>2, <1>6, ParseDescription, Zenon
<1>7. CASE m >= 10 + n
  BY <1>2, <1>7, ParseText, Zenon
<1>8. m \in 0..2 \/ m \in 3..7 \/ (m >= 8 /\ m <= 8 + n) \/ m = 9 + n \/ m >= 10 + n
  BY <1>2
<1> QED
  BY <1>3, <1>4, <1>5, <1>6, <1>7, <1>8, Zenon

\* What is kept of a report that was read to its end.
ReadAs(u, e, f) ==
  \E gi : InfoRead(InfoLines(e), Len(InfoLines(e)), gi)
            /\ f = Read(u, e.city, e.name, e.date_time, Text(e), gi)

LEMMA ParsedLast ==
  ASSUME NEW u, NEW e, Plain(e), NEW F, Framed(u, e, F), NEW p, Parsed(u, e, Len(F), p)
  PROVE  ~Threw(p) /\ ReadAs(u, e, p.fields)
<1>1. PICK n, k, m : /\ n \in Nat /\ k \in Nat /\ m \in Nat /\ n = Len(InfoLines(e)) /\ k = Len(Text(e))
                     /\ m = Len(F) /\ 10 + n <= m /\ m - 10 - n = k
  <2>1. /\ Len(InfoLines(e)) \in Nat /\ Len(Text(e)) \in Nat
        /\ Len(F) = 10 + Len(InfoLines(e)) + Len(Text(e))
    BY Zenon DEF Framed
  <2>2. PICK n \in Nat, k \in Nat : n = Len(InfoLines(e)) /\ k = Len(Text(e))
    BY <2>1
  <2>3. PICK m : m = 10 + n + k
    OBVIOUS
  <2>4. m = Len(F)
    BY <2>1, <2>2, <2>3
  <2>5. m \in Nat /\ 10 + n <= m /\ m - 10 - n = k
    BY <2>3
  <2> QED
    BY <2>2, <2>4, <2>5, Zenon
<1>2. ParsingText(u, e, k, p)
  <2>1. ParsingText(u, e, m - 10 - n, p)
    BY <1>1, ParsedAt, Zenon
  <2> QED
    BY <1>1, <2>1
<1>3. PICK gi, d : /\ InfoRead(InfoLines(e), n, gi) /\ d = SubSeq(Text(e), 1, k)
                   /\ p = Below(Read(u, e.city, e.name, e.date_time, d, gi))
  BY <1>1, <1>2, Zenon DEF ParsingText
<1>4. d = Text(e)
  <2>1. PICK S, t : t \in Seq(S) /\ t = Text(e)
    BY PlainText, Zenon
  <2>2. SubSeq(t, 1, Len(t)) = t
    BY <2>1, SubSeqFull
  <2> QED
    BY <1>1, <1>3, <2>1, <2>2, Zenon
<1>5. p.fields = Read(u, e.city, e.name, e.date_time, d, gi)
  <2>1. ASSUME NEW f PROVE Below(f).fields = f
    <3>1. Settable(f, TRUE, TRUE)
      BY SetAt, Zenon
    <3> QED
      BY <3>1, Zenon DEF Settable, Below
  <2> QED
    BY <1>3, <2>1, Zenon
<1>6. ReadAs(u, e, p.fields)
  BY <1>1, <1>3, <1>4, <1>5, Zenon DEF ReadAs
<1> QED
  BY <1>3, <1>6, NotThrown, Zenon

LEMMA InfoSame ==
  ASSUME NEW e, Reportable(e), NEW gi, InfoRead(InfoLines(e), Len(InfoLines(e)), gi)
  PROVE  /\ Trimmed(gi) = Trimmed(e.general_information)
         /\ DOMAIN gi = {Tabbed(k) : k \in DOMAIN e.general_information}
         /\ \A k \in DOMAIN e.general_information :
              gi[Tabbed(k)] = Spaced(e.general_information[k])
<1> DEFINE info == e.general_information
           L == InfoLines(e)
           n == Len(L)
<1>1. DOMAIN info \subseteq InfoKeys
      /\ \A k \in DOMAIN info : trim(info[k]) = info[k] /\ trim(Spaced(info[k])) = info[k]
  BY Zenon DEF Reportable
<1>2. InfoLayout(e)
  BY <1>1, InfoLaidOut, Zenon
<1>3. \A i \in 1..n : \E k \in DOMAIN info : L[i].key = Tabbed(k) /\ L[i].val = Spaced(info[k])
  <2> TAKE i \in 1..n
  <2>1. PICK k \in DOMAIN info : InfoAt(e, k, L[i])
    BY <1>2, Zenon DEF InfoLayout
  <2>2. L[i] = Line(Tabbed(k), Spaced(info[k]))
    BY <2>1, Zenon DEF InfoAt
  <2>3. L[i].key = Tabbed(k) /\ L[i].val = Spaced(info[k])
    BY <2>2 DEF Line
  <2> QED
    BY <2>3, Zenon
<1>4. \A k \in DOMAIN info : \E i \in 1..n : L[i].key = Tabbed(k) /\ L[i].val = Spaced(info[k])
  <2> TAKE k \in DOMAIN info
  <2>1. PICK i \in 1..n : InfoAt(e, k, L[i])
    BY <1>2, Zenon DEF InfoLayout
  <2>2. L[i] = Line(Tabbed(k), Spaced(info[k]))
    BY <2>1, Zenon DEF InfoAt
  <2>3. L[i].key = Tabbed(k) /\ L[i].val = Spaced(info[k])
    BY <2>2 DEF Line
  <2> QED
    BY <2>3, Zenon
<1>5. DOMAIN gi = {L[i].key : i \in 1..n} /\ \A i \in 1..n : gi[L[i].key] = L[i].val
  BY Zenon DEF InfoRead
<1> HIDE DEF L, n, info
<1>6. DOMAIN gi = {Tabbed(k) : k \in DOMAIN info}
  BY <1>3, <1>4, <1>5
<1>7. \A k \in DOMAIN info : gi[Tabbed(k)] = Spaced(info[k])
  BY <1>4, <1>5
<1>8. \A k \in DOMAIN info : trim(k) = k /\ trim(Tabbed(k)) = k
  BY <1>1, StringsAssumption
<1>9. Trimmed(gi) = Trimmed(info)
  BY <1>1, <1>6, <1>7, <1>8 DEF Trimmed
<1> QED
  BY <1>6, <1>7, <1>9 DEF info

LEMMA ReadSame ==
  ASSUME NEW u, NEW e, Reportable(e), NEW f, ReadAs(u, e, f)
  PROVE  Same(f, e) /\ f.user = u /\ f.channel = Channel
<1>1. PICK gi : /\ InfoRead(InfoLines(e), Len(InfoLines(e)), gi)
                /\ f = Read(u, e.city, e.name, e.date_time, Text(e), gi)
  BY Zenon DEF ReadAs
<1>2. /\ f.user = u /\ f.channel = Channel /\ f.city = e.city /\ f.name = e.name
      /\ f.date_time = e.date_time /\ f.description = Text(e) /\ f.general_information = gi
  <2>1. PICK d : d = Text(e)
    OBVIOUS
  <2> QED
    BY <1>1, <2>1 DEF Read, Filled
<1>3. Trimmed(gi) = Trimmed(e.general_information)
  BY <1>1, InfoSame, Zenon
<1> QED
  BY <1>2, <1>3, Zenon DEF Same, Text

-----------------------------------------------------------------------------
(* The reports of all users on one connection *)

\* The frames on the socket are, user by user, the reports after the got[u] that
\* the client took and before the next one: own and idx say whose each one is,
\* and which.
Queued(n, own, idx, got, nx) ==
  /\ own \in Seq(User) /\ idx \in Seq(Nat) /\ n \in Nat /\ Len(own) = n /\ Len(idx) = n
  /\ \A j \in 1..n : got[own[j]] < idx[j] /\ idx[j] < nx[own[j]]
  /\ \A j, k \in 1..n : j < k /\ own[j] = own[k] => idx[j] < idx[k]
  /\ \A u \in User : \A i \in Nat :
       got[u] < i /\ i < nx[u] => \E j \in 1..n : own[j] = u /\ idx[j] = i

LEMMA QueueEmpty ==
  ASSUME NEW got \in [User -> Nat], NEW nx \in [User -> Nat], \A u \in User : nx[u] = got[u] + 1
  PROVE  Queued(0, <<>>, <<>>, got, nx)
BY DEF Queued

Extends(n, a, b, v) == b[n + 1] = v /\ \A j \in 1..n : b[j] = a[j]

LEMMA QueueAppend ==
  ASSUME NEW n \in Nat, NEW own, NEW idx, NEW got \in [User -> Nat], NEW nx \in [User -> Nat],
         Queued(n, own, idx, got, nx), NEW u \in User, got[u] < nx[u],
         NEW o, o = Append(own, u), NEW x, x = Append(idx, nx[u]),
         NEW ny, ny = [nx EXCEPT ![u] = @ + 1]
  PROVE  Queued(n + 1, o, x, got, ny) /\ Extends(n, own, o, u) /\ Extends(n, idx, x, nx[u])
<1>1. n \in Nat /\ n = Len(own) /\ n = Len(idx)
  BY DEF Queued
<1>2. /\ o \in Seq(User) /\ Len(o) = n + 1 /\ o[n + 1] = u /\ \A j \in 1..n : o[j] = own[j]
  BY <1>1, AppendProperties DEF Queued
<1>3. /\ x \in Seq(Nat) /\ Len(x) = n + 1 /\ x[n + 1] = nx[u] /\ \A j \in 1..n : x[j] = idx[j]
  <2>1. nx[u] \in Nat /\ idx \in Seq(Nat)
    BY DEF Queued
  <2> QED
    BY <1>1, <2>1, AppendProperties
<1>4. ny \in [User -> Nat] /\ ny[u] = nx[u] + 1 /\ \A w \in User : w # u => ny[w] = nx[w]
  OBVIOUS
<1>5. \A j \in 1..(n + 1) : j \in 1..n \/ j = n + 1
  OBVIOUS
<1>6. \A j \in 1..n : own[j] \in User /\ idx[j] \in Nat /\ got[own[j]] < idx[j] /\ idx[j] < nx[own[j]]
  BY <1>1, ElementOfSeq DEF Queued
<1>7. \A j \in 1..(n + 1) : got[o[j]] < x[j] /\ x[j] < ny[o[j]]
  <2> TAKE j \in 1..(n + 1)
  <2>1. CASE j \in 1..n
    <3>1. PICK w \in User : w = own[j]
      BY <1>6, <2>1
    <3>2. nx[w] \in Nat /\ nx[w] <= ny[w] /\ ny[w] \in Nat
      BY <1>4
    <3>3. idx[j] \in Nat /\ got[w] < idx[j] /\ idx[j] < nx[w]
      BY <1>6, <2>1, <3>1
    <3>4. o[j] = w /\ x[j] = idx[j]
      BY <1>2, <1>3, <2>1, <3>1
    <3>5. idx[j] < ny[w]
      BY <3>2, <3>3
    <3> QED
      BY <3>3, <3>4, <3>5
  <2>2. CASE j = n + 1
    BY <1>2, <1>3, <1>4, <2>2
  <2> QED
    BY <1>5, <2>1, <2>2
<1>8. \A j, k \in 1..(n + 1) : j < k /\ o[j] = o[k] => x[j] < x[k]
  <2> SUFFICES ASSUME NEW j \in 1..(n + 1), NEW k \in 1..(n + 1), j < k, o[j] = o[k]
               PROVE  x[j] < x[k]
    OBVIOUS
  <2>0. j \in 1..n
    BY <1>1
  <2>1. j \in 1..n /\ x[j] = idx[j] /\ o[j] = own[j]
    BY <1>2, <1>3, <2>0
  <2>2. CASE k \in 1..n
    BY <1>1, <1>2, <1>3, <2>1, <2>2 DEF Queued
  <2>3. CASE k = n + 1
    BY <1>2, <1>3, <1>6, <2>1, <2>3
  <2> QED
    BY <1>5, <2>2, <2>3
<1>9. \A w \in User : \A i \in Nat :
        got[w] < i /\ i < ny[w] => \E j \in 1..(n + 1) : o[j] = w /\ x[j] = i
  <2> SUFFICES ASSUME NEW w \in User, NEW i \in Nat, got[w] < i, i < ny[w]
               PROVE  \E j \in 1..(n + 1) : o[j] = w /\ x[j] = i
    OBVIOUS
  <2>1. CASE i < nx[w]
    <3>1. PICK j \in 1..n : own[j] = w /\ idx[j] = i
      BY <1>1, <2>1 DEF Queued
    <3>2. o[j] = w /\ x[j] = i
      BY <1>2, <1>3, <3>1
    <3>3. j \in 1..(n + 1)
      OBVIOUS
    <3> QED
      BY <3>2, <3>3
  <2>2. CASE ~(i < nx[w])
    <3>1. w = u /\ i = nx[u]
      BY <1>4, <2>2
    <3>2. n + 1 \in 1..(n + 1)
      OBVIOUS
    <3> QED
      BY <1>2, <1>3, <3>1, <3>2
  <2> QED
    BY <2>1, <2>2
<1>10. Queued(n + 1, o, x, got, ny)
  <2>1. n + 1 \in Nat
    OBVIOUS
  <2> QED
    BY <1>2, <1>3, <1>7, <1>8, <1>9, <2>1, Zenon DEF Queued
<1> QED
  BY <1>2, <1>3, <1>10, Zenon DEF Extends

Drops(n, a, b) == \A j \in 1..(n - 1) : b[j] = a[j + 1]

Shorter(n, own, idx, got, nx, u, o, x, gt) ==
  /\ u \in User /\ idx[1] = got[u] + 1 /\ idx[1] < nx[u]
  /\ Queued(n - 1, o, x, gt, nx) /\ Drops(n, own, o) /\ Drops(n, idx, x)

LEMMA QueueTail ==
  ASSUME NEW n \in Nat, NEW own, NEW idx, NEW got \in [User -> Nat], NEW nx \in [User -> Nat],
         Queued(n, own, idx, got, nx), n # 0, NEW o, o = Tail(own), NEW x, x = Tail(idx),
         NEW u, u = own[1], NEW gt, gt = [got EXCEPT ![u] = @ + 1]
  PROVE  Shorter(n, own, idx, got, nx, u, o, x, gt)
<1>1. n \in Nat /\ n = Len(own) /\ n = Len(idx) /\ n # 0
  BY DEF Queued
<1>2. \A j \in 1..n : own[j] \in User /\ idx[j] \in Nat /\ got[own[j]] < idx[j] /\ idx[j] < nx[own[j]]
  BY <1>1, ElementOfSeq DEF Queued
<1>3. o \in Seq(User) /\ Len(o) = n - 1 /\ \A j \in 1..(n - 1) : o[j] = own[j + 1]
  <2>1. own \in Seq(User) /\ own # <<>>
    BY <1>1, EmptySeq DEF Queued
  <2> QED
    BY <1>1, <2>1, HeadTailProperties
<1>4. x \in Seq(Nat) /\ Len(x) = n - 1 /\ \A j \in 1..(n - 1) : x[j] = idx[j + 1]
  <2>1. idx \in Seq(Nat) /\ idx # <<>>
    BY <1>1, EmptySeq DEF Queued
  <2> QED
    BY <1>1, <2>1, HeadTailProperties
<1>5. u \in User
  BY <1>1, <1>2
<1>6. idx[1] \in Nat /\ got[u] < idx[1] /\ idx[1] < nx[u]
  BY <1>1, <1>2, <1>5
<1>7. idx[1] = got[u] + 1
  <2> SUFFICES ASSUME got[u] + 1 < idx[1] PROVE FALSE
    BY <1>5, <1>6
  <2>0. got[u] + 1 \in Nat /\ got[u] < got[u] + 1 /\ got[u] + 1 < nx[u]
    BY <1>5, <1>6
  <2>1. PICK j \in 1..n : own[j] = u /\ idx[j] = got[u] + 1
    BY <2>0 DEF Queued
  <2>2. 1 < j
    BY <1>5, <2>1
  <2>3. idx[1] < idx[j]
    BY <1>1, <2>1, <2>2 DEF Queued
  <2> QED
    BY <1>5, <1>6, <2>1, <2>3
<1>8. gt \in [User -> Nat] /\ gt[u] = got[u] + 1 /\ \A w \in User : w # u => gt[w] = got[w]
  BY <1>5
<1>9. \A j \in 1..(n - 1) : gt[o[j]] < x[j] /\ x[j] < nx[o[j]]
  <2> TAKE j \in 1..(n - 1)
  <2>0. PICK k \in 1..n : k = j + 1 /\ 1 < k /\ 1 \in 1..n
    BY <1>1
  <2>1. o[j] = own[k] /\ x[j] = idx[k]
    BY <1>3, <1>4, <2>0
  <2>2. own[k] = u => idx[1] < idx[k]
    BY <1>5, <2>0 DEF Queued
  <2> QED
    BY <1>2, <1>6, <1>7, <1>8, <2>0, <2>1, <2>2
<1>10. \A j, k \in 1..(n - 1) : j < k /\ o[j] = o[k] => x[j] < x[k]
  <2> SUFFICES ASSUME NEW j \in 1..(n - 1), NEW k \in 1..(n - 1), j < k, o[j] = o[k]
               PROVE  x[j] < x[k]
    OBVIOUS
  <2>1. PICK a \in 1..n, b \in 1..n : a = j + 1 /\ b = k + 1 /\ a < b
    OBVIOUS
  <2>2. idx[a] < idx[b]
    BY <1>1, <1>3, <2>1 DEF Queued
  <2> QED
    BY <1>4, <2>1, <2>2
<1>11. \A w \in User : \A i \in Nat :
         gt[w] < i /\ i < nx[w] => \E j \in 1..(n - 1) : o[j] = w /\ x[j] = i
  <2> SUFFICES ASSUME NEW w \in User, NEW i \in Nat, gt[w] < i, i < nx[w]
               PROVE  \E j \in 1..(n - 1) : o[j] = w /\ x[j] = i
    OBVIOUS
  <2>1. got[w] < i
    BY <1>8
  <2>2. PICK k \in 1..n : own[k] = w /\ idx[k] = i
    BY <1>1, <2>1 DEF Queued
  <2>3. k # 1
    BY <1>5, <1>7, <1>8, <2>2
  <2>4. PICK j \in 1..(n - 1) : k = j + 1
    BY <2>3
  <2> QED
    BY <1>3, <1>4, <2>2, <2>4
<1>12. Queued(n - 1, o, x, gt, nx)
  <2>1. n - 1 \in Nat
    BY <1>1
  <2> QED
    BY <1>3, <1>4, <1>9, <1>10, <1>11, <2>1, Zenon DEF Queued
<1> QED
  BY <1>3, <1>4, <1>5, <1>6, <1>7, <1>12, Zenon DEF Drops, Shorter

\* The process of a MESSAGE.
Work(b, l, p) == [busy |-> b, lines |-> l, parser |-> p]

LEMMA WorkParts ==
  ASSUME NEW b, NEW l, NEW p
  PROVE  /\ Work(b, l, p).busy = b /\ Work(b, l, p).lines = l /\ Work(b, l, p).parser = p
         /\ \A x, y : [Work(b, l, p) EXCEPT !.lines = x, !.parser = y] = Work(b, x, y)
<1>1. Work(b, l, p).busy = b /\ Work(b, l, p).lines = l /\ Work(b, l, p).parser = p
  BY DEF Work
<1>2. ASSUME NEW x, NEW y
      PROVE  [Work(b, l, p) EXCEPT !.lines = x, !.parser = y] = Work(b, x, y)
  <2>1. PICK v : v = Work(b, l, p)
    OBVIOUS
  <2>2. PICK z : z = [v EXCEPT !.lines = x, !.parser = y]
    OBVIOUS
  <2>3. DOMAIN v = {"busy", "lines", "parser"} /\ v["busy"] = b
    BY <2>1 DEF Work
  <2>4. /\ z = [k \in DOMAIN v |-> z[k]]
        /\ z["busy"] = b /\ z["lines"] = x /\ z["parser"] = y
    BY <2>2, <2>3
  <2>5. z = Work(b, x, y)
    BY <2>3, <2>4 DEF Work
  <2> QED
    BY <2>1, <2>2, <2>5, Zenon
<1> QED
  BY <1>1, <1>2

LEMMA WorkStep ==
  ASSUME NEW b, NEW l, NEW p, NEW v, v = Work(b, l, p), NEW z,
         z = [v EXCEPT !.lines = Tail(@), !.parser = ParseLine(@, Head(v.lines))]
  PROVE  z = Work(b, Tail(l), ParseLine(p, Head(l)))
<1>1. DOMAIN v = {"busy", "lines", "parser"} /\ v["busy"] = b /\ v["lines"] = l /\ v["parser"] = p
  BY DEF Work
<1>2. PICK x, y : x = Tail(l) /\ y = ParseLine(p, Head(l))
  OBVIOUS
<1>3. /\ z = [k \in DOMAIN v |-> z[k]]
      /\ z["busy"] = b /\ z["lines"] = x /\ z["parser"] = y
  BY <1>1, <1>2
<1>4. z = Work(b, x, y)
  BY <1>1, <1>3 DEF Work
<1> QED
  BY <1>2, <1>4

LEMMA WorkLines ==
  ASSUME NEW b, NEW l, NEW p
  PROVE  Work(b, l, p).lines = l /\ Work(b, l, p).parser = p
BY DEF Work

\* The client waits with what it got kept, or is at the last report it got.
Processing(ev, pr, ke, got) ==
  \/ /\ pr = Waiting
     /\ \A u \in User : got[u] = Len(ke[u])
  \/ \E r \in User, m \in Nat : \E p, F :
       /\ F = Frame(r, ev[r][got[r]]) /\ m <= Len(F)
       /\ pr = Work(TRUE, SubSeq(F, m + 1, Len(F)), p)
       /\ Parsed(r, ev[r][got[r]], m, p)
       /\ got[r] = Len(ke[r]) + 1 /\ \A u \in User : u # r => got[u] = Len(ke[u])

\* Events, next, socket, process, and what was kept of each user: every frame is
\* that of its report, and what was kept is what was read of the first reports.
KeptOf(ev, ke) ==
  \A u \in User : /\ \E K : ke[u] \in Seq(K)
                  /\ \A i \in 1..Len(ke[u]) : ReadAs(u, ev[u][i], ke[u][i])

Flowing(ev, nx, so, pr, ke, own, idx, got) ==
  /\ got \in [User -> Nat] /\ nx \in [User -> Nat] /\ \A u \in User : got[u] < nx[u]
  /\ Queued(Len(so), own, idx, got, nx)
  /\ \E Z : so \in Seq(Z)
  /\ \A j \in 1..Len(so) : so[j] = Frame(own[j], ev[own[j]][idx[j]])
  /\ KeptOf(ev, ke)
  /\ Processing(ev, pr, ke, got)

\* What the files promise of the events that were sent.
Told(ev, nx) ==
  \A u \in User : \A i \in Nat :
    1 <= i /\ i < nx[u] => Reportable(ev[u][i]) /\ Plain(ev[u][i])

LEMMA FlowSend ==
  ASSUME NEW ev, NEW nx, NEW so, NEW pr, NEW ke, NEW own, NEW idx, NEW got,
         Flowing(ev, nx, so, pr, ke, own, idx, got),
         NEW u \in User, NEW s, s = Append(so, Frame(u, ev[u][nx[u]]))
  PROVE  \E o, x : Flowing(ev, [nx EXCEPT ![u] = @ + 1], s, pr, ke, o, x, got)
<1>1. PICK n \in Nat : n = Len(so)
  BY LenProperties DEF Flowing
<1>2. /\ got \in [User -> Nat] /\ nx \in [User -> Nat] /\ \A w \in User : got[w] < nx[w]
      /\ Queued(n, own, idx, got, nx)
  BY <1>1, Zenon DEF Flowing
<1>3. PICK o, x : o = Append(own, u) /\ x = Append(idx, nx[u])
  OBVIOUS
<1>4. PICK ny : ny = [nx EXCEPT ![u] = @ + 1]
  OBVIOUS
<1>5. Queued(n + 1, o, x, got, ny) /\ Extends(n, own, o, u) /\ Extends(n, idx, x, nx[u])
  BY <1>2, <1>3, <1>4, QueueAppend, Zenon
<1>6. ny \in [User -> Nat] /\ \A w \in User : got[w] < ny[w]
  <2>1. ny \in [User -> Nat] /\ ny[u] = nx[u] + 1 /\ \A w \in User : w # u => ny[w] = nx[w]
    BY <1>2, <1>4
  <2>2. ASSUME NEW w \in User PROVE got[w] < ny[w]
    <3>1. got[w] \in Nat /\ nx[w] \in Nat /\ got[w] < nx[w]
      BY <1>2
    <3>2. ny[w] = nx[w] \/ ny[w] = nx[w] + 1
      BY <2>1
    <3> QED
      BY <3>1, <3>2
  <2> QED
    BY <2>1, <2>2
<1>7. PICK f : f = Frame(u, ev[u][nx[u]])
  OBVIOUS
<1>8. PICK Z : so \in Seq(Z)
  BY Zenon DEF Flowing
<1>9. /\ s \in Seq(Z \cup {f}) /\ Len(s) = n + 1 /\ s[n + 1] = f
      /\ \A j \in 1..n : s[j] = so[j]
  <2>1. so \in Seq(Z \cup {f}) /\ f \in Z \cup {f} /\ s = Append(so, f)
    BY <1>7, <1>8, SeqMonotonic
  <2> QED
    BY <1>1, <2>1, AppendProperties
<1>10. \A j \in 1..(n + 1) : s[j] = Frame(o[j], ev[o[j]][x[j]])
  <2> TAKE j \in 1..(n + 1)
  <2>1. CASE j \in 1..n
    <3>1. so[j] = Frame(own[j], ev[own[j]][idx[j]])
      BY <1>1, <2>1, Zenon DEF Flowing
    <3>2. s[j] = so[j] /\ o[j] = own[j] /\ x[j] = idx[j]
      BY <1>5, <1>9, <2>1, Zenon DEF Extends
    <3> QED
      BY <3>1, <3>2, Zenon
  <2>2. CASE j = n + 1
    BY <1>5, <1>7, <1>9, <2>2, Zenon DEF Extends
  <2>3. j \in 1..n \/ j = n + 1
    OBVIOUS
  <2> QED
    BY <2>1, <2>2, <2>3, Zenon
<1>11. KeptOf(ev, ke) /\ Processing(ev, pr, ke, got)
  BY Zenon DEF Flowing
<1>12. Flowing(ev, ny, s, pr, ke, o, x, got)
  BY <1>2, <1>5, <1>9, <1>10, <1>11, <1>6, Zenon DEF Flowing
<1> QED
  BY <1>4, <1>12, Zenon

\* Before the first report of w was sent its events may be anything.
LEMMA FlowPrepare ==
  ASSUME NEW ev, NEW nx, NEW so, NEW pr, NEW ke, NEW own, NEW idx, NEW got,
         Flowing(ev, nx, so, pr, ke, own, idx, got),
         NEW w \in User, nx[w] = 1, NEW ew, \A u \in User : u # w => ew[u] = ev[u]
  PROVE  Flowing(ew, nx, so, pr, ke, own, idx, got)
<1>1. PICK n \in Nat : n = Len(so)
  BY LenProperties DEF Flowing
<1>2. /\ got \in [User -> Nat] /\ nx \in [User -> Nat] /\ \A u \in User : got[u] < nx[u]
      /\ Queued(n, own, idx, got, nx)
  BY <1>1, Zenon DEF Flowing
<1>3. got[w] = 0
  BY <1>2
<1>4. \A j \in 1..n : own[j] \in User /\ own[j] # w
  <2> TAKE j \in 1..n
  <2>1. own[j] \in User /\ idx[j] \in Nat /\ got[own[j]] < idx[j] /\ idx[j] < nx[own[j]]
    BY <1>2, ElementOfSeq DEF Queued
  <2> QED
    BY <1>3, <2>1
<1>5. \A j \in 1..n : so[j] = Frame(own[j], ew[own[j]][idx[j]])
  <2>1. \A j \in 1..n : so[j] = Frame(own[j], ev[own[j]][idx[j]])
    BY <1>1, Zenon DEF Flowing
  <2> QED
    BY <1>4, <2>1, Zenon
<1>6. Len(ke[w]) = 0
  <2>1. PICK K : ke[w] \in Seq(K)
    BY Zenon DEF Flowing, KeptOf
  <2>2. Len(ke[w]) \in Nat
    BY <2>1, LenProperties
  <2>3. got[w] = Len(ke[w]) \/ got[w] = Len(ke[w]) + 1
    BY Zenon DEF Flowing, Processing
  <2> QED
    BY <1>3, <2>2, <2>3
<1>7. KeptOf(ew, ke)
  <2>1. KeptOf(ev, ke)
    BY Zenon DEF Flowing
  <2>2. \A i \in 1..Len(ke[w]) : FALSE
    BY <1>6
  <2> QED
    BY <2>1, <2>2, Zenon DEF KeptOf
<1>8. Processing(ew, pr, ke, got)
  <2>1. CASE /\ pr = Waiting
             /\ \A u \in User : got[u] = Len(ke[u])
    BY <2>1, Zenon DEF Processing
  <2>2. ASSUME NEW r \in User, NEW m \in Nat, NEW p, NEW F, F = Frame(r, ev[r][got[r]]), m <= Len(F),
               pr = Work(TRUE, SubSeq(F, m + 1, Len(F)), p), Parsed(r, ev[r][got[r]], m, p),
               got[r] = Len(ke[r]) + 1, \A u \in User : u # r => got[u] = Len(ke[u])
        PROVE  Processing(ew, pr, ke, got)
    <3>1. r # w
      BY <1>3, <1>6, <2>2
    <3>2. ew[r] = ev[r]
      BY <3>1
    <3> QED
      BY <2>2, <3>2, Zenon DEF Processing
  <2>3. Processing(ev, pr, ke, got)
    BY Zenon DEF Flowing
  <2> QED
    BY <2>1, <2>2, <2>3, Zenon DEF Processing
<1>9. \E Z : so \in Seq(Z)
  BY Zenon DEF Flowing
<1> QED
  BY <1>1, <1>2, <1>5, <1>7, <1>8, <1>9, Zenon DEF Flowing

LEMMA FrameOf ==
  ASSUME NEW u, NEW e, Reportable(e), NEW F, F = Frame(u, e)
  PROVE  Framed(u, e, F) /\ (\E T : F \in Seq(T)) /\ Len(F) \in Nat /\ F # <<>>
         /\ Len(InfoLines(e)) \in Nat
<1>1. e.description \in Seq([key : STRING, val : STRING, len : Nat])
      /\ DOMAIN e.general_information \subseteq InfoKeys
  BY Zenon DEF Reportable
<1>2. Framed(u, e, F) /\ \E T : F \in Seq(T)
  BY <1>1, FrameLaidOut, Zenon
<1>3. /\ Len(InfoLines(e)) \in Nat /\ Len(Text(e)) \in Nat
      /\ Len(F) = 10 + Len(InfoLines(e)) + Len(Text(e))
  BY <1>2, Zenon DEF Framed
<1>4. Len(F) \in Nat /\ Len(F) # 0
  BY <1>3
<1> QED
  BY <1>2, <1>3, <1>4, EmptySeq

LEMMA FlowTake ==
  ASSUME NEW ev, NEW nx, NEW so, NEW ke, NEW own, NEW idx, NEW got, Told(ev, nx),
         Flowing(ev, nx, so, Waiting, ke, own, idx, got), so # <<>>,
         NEW pr, pr = Work(TRUE, Head(so), Parser), NEW s, s = Tail(so)
  PROVE  \E o, x, gt : Flowing(ev, nx, s, pr, ke, o, x, gt)
<1>1. PICK Z : so \in Seq(Z)
  BY Zenon DEF Flowing
<1>2. PICK n \in Nat : n = Len(so) /\ n # 0
  BY <1>1, LenProperties, EmptySeq
<1>3. /\ got \in [User -> Nat] /\ nx \in [User -> Nat] /\ \A w \in User : got[w] < nx[w]
      /\ Queued(n, own, idx, got, nx)
  BY <1>2, Zenon DEF Flowing
<1>4. PICK o, x : o = Tail(own) /\ x = Tail(idx)
  OBVIOUS
<1>5. PICK r : r = own[1]
  OBVIOUS
<1>6. PICK gt : gt = [got EXCEPT ![r] = @ + 1]
  OBVIOUS
<1>7. /\ r \in User /\ idx[1] = got[r] + 1 /\ idx[1] < nx[r] /\ Queued(n - 1, o, x, gt, nx)
      /\ Drops(n, own, o) /\ Drops(n, idx, x)
  <2>1. Shorter(n, own, idx, got, nx, r, o, x, gt)
    BY <1>2, <1>3, <1>4, <1>5, <1>6, QueueTail, Zenon
  <2> QED
    BY <2>1, Zenon DEF Shorter
<1>8. gt \in [User -> Nat] /\ gt[r] = got[r] + 1 /\ \A w \in User : w # r => gt[w] = got[w]
  BY <1>3, <1>6, <1>7
<1>9. \A w \in User : gt[w] < nx[w]
  BY <1>3, <1>7, <1>8
<1>10. s \in Seq(Z) /\ Len(s) = n - 1 /\ \A j \in 1..(n - 1) : s[j] = so[j + 1]
  BY <1>1, <1>2, HeadTailProperties
<1>11. \A j \in 1..n : so[j] = Frame(own[j], ev[own[j]][idx[j]])
  BY <1>2, Zenon DEF Flowing
<1>12. \A j \in 1..(n - 1) : s[j] = Frame(o[j], ev[o[j]][x[j]])
  <2> TAKE j \in 1..(n - 1)
  <2>1. PICK k \in 1..n : k = j + 1
    OBVIOUS
  <2>2. s[j] = so[k] /\ o[j] = own[k] /\ x[j] = idx[k]
    BY <1>7, <1>10, <2>1 DEF Drops
  <2> QED
    BY <1>11, <2>2, Zenon
<1>13. KeptOf(ev, ke)
  BY Zenon DEF Flowing
<1>14. \A w \in User : got[w] = Len(ke[w])
  <2>1. Processing(ev, Waiting, ke, got)
    BY Zenon DEF Flowing
  <2>2. \A l, p : Waiting # Work(TRUE, l, p)
    <3>1. \A l, p : Work(TRUE, l, p).busy = TRUE
      BY WorkParts, Zenon
    <3>2. Waiting.busy = FALSE
      BY Zenon DEF Waiting
    <3> QED
      BY <3>1, <3>2
  <2> QED
    BY <2>1, <2>2, Zenon DEF Processing
<1>15. PICK F : F = Frame(r, ev[r][gt[r]]) /\ F = Head(so)
  <2>1. 1 \in 1..n /\ so[1] = Head(so)
    BY <1>1, <1>2
  <2>2. so[1] = Frame(r, ev[r][gt[r]])
    BY <1>5, <1>7, <1>8, <1>11, <2>1
  <2> QED
    BY <2>1, <2>2
<1>16. PICK e : e = ev[r][gt[r]] /\ Reportable(e)
  <2>1. gt[r] \in Nat /\ 1 <= gt[r] /\ gt[r] < nx[r]
    BY <1>3, <1>7, <1>8
  <2> QED
    BY <1>7, <2>1, Zenon DEF Told
<1>17. (\E T : F \in Seq(T)) /\ Len(F) \in Nat /\ Len(InfoLines(e)) \in Nat
  BY <1>15, <1>16, FrameOf, Zenon
<1>18. pr = Work(TRUE, SubSeq(F, 0 + 1, Len(F)), Parser)
  <2>1. SubSeq(F, 1, Len(F)) = F /\ 0 + 1 = 1
    BY <1>17, SubSeqFull
  <2> QED
    BY <1>15, <2>1, Zenon
<1>19. Parsed(r, e, 0, Parser)
  BY <1>17, ParsedFirst, Zenon
<1>20. Processing(ev, pr, ke, gt)
  <2>1. 0 \in Nat /\ 0 <= Len(F)
    BY <1>17
  <2>2. gt[r] = Len(ke[r]) + 1 /\ \A w \in User : w # r => gt[w] = Len(ke[w])
    BY <1>7, <1>8, <1>14
  <2> QED
    BY <1>7, <1>15, <1>16, <1>18, <1>19, <2>1, <2>2, Zenon DEF Processing
<1>21. Queued(Len(s), o, x, gt, nx) /\ \E Y : s \in Seq(Y)
  BY <1>7, <1>10, Zenon
<1>22. \A j \in 1..Len(s) : s[j] = Frame(o[j], ev[o[j]][x[j]])
  BY <1>10, <1>12, Zenon
<1>23. Flowing(ev, nx, s, pr, ke, o, x, gt)
  BY <1>3, <1>8, <1>9, <1>13, <1>20, <1>21, <1>22, Zenon DEF Flowing
<1> QED
  BY <1>23

\* The report that the process is at.
AtReport(ev, pr, ke, got, r, m, p, F, e) ==
  /\ r \in User /\ m \in Nat /\ e = ev[r][got[r]] /\ Reportable(e) /\ Plain(e)
  /\ F = Frame(r, e) /\ m <= Len(F) /\ Parsed(r, e, m, p)
  /\ pr.lines = SubSeq(F, m + 1, Len(F)) /\ pr.parser = p
  /\ got[r] = Len(ke[r]) + 1 /\ \A u \in User : u # r => got[u] = Len(ke[u])

LEMMA FlowAt ==
  ASSUME NEW ev, NEW nx, NEW so, NEW pr, NEW ke, NEW own, NEW idx, NEW got, Told(ev, nx),
         Flowing(ev, nx, so, pr, ke, own, idx, got), pr.busy
  PROVE  \E r, m, p, F, e : AtReport(ev, pr, ke, got, r, m, p, F, e)
<1>1. pr # Waiting
  <2>1. Waiting.busy = FALSE
    BY Zenon DEF Waiting
  <2> QED
    BY <2>1, Zenon
<1>2. PICK r, m, p, F :
        /\ r \in User /\ m \in Nat
        /\ F = Frame(r, ev[r][got[r]]) /\ m <= Len(F)
        /\ pr = Work(TRUE, SubSeq(F, m + 1, Len(F)), p)
        /\ Parsed(r, ev[r][got[r]], m, p)
        /\ got[r] = Len(ke[r]) + 1 /\ \A u \in User : u # r => got[u] = Len(ke[u])
  <2>1. Processing(ev, pr, ke, got)
    BY Zenon DEF Flowing
  <2> QED
    BY <1>1, <2>1, Zenon DEF Processing
<1>3. got[r] \in Nat /\ 1 <= got[r] /\ got[r] < nx[r]
  <2>1. got \in [User -> Nat] /\ \A u \in User : got[u] < nx[u]
    BY Zenon DEF Flowing
  <2>2. PICK K : ke[r] \in Seq(K)
    BY <1>2, Zenon DEF Flowing, KeptOf
  <2>3. Len(ke[r]) \in Nat
    BY <2>2, LenProperties
  <2> QED
    BY <1>2, <2>1, <2>3
<1>4. Reportable(ev[r][got[r]]) /\ Plain(ev[r][got[r]])
  BY <1>2, <1>3, Zenon DEF Told
<1>5. pr.lines = SubSeq(F, m + 1, Len(F)) /\ pr.parser = p
  <2>1. PICK l : l = SubSeq(F, m + 1, Len(F))
    OBVIOUS
  <2>2. PICK b : b = TRUE
    OBVIOUS
  <2>3. pr = Work(b, l, p)
    BY <1>2, <2>1, <2>2, Zenon
  <2>4. Work(b, l, p).lines = l /\ Work(b, l, p).parser = p
    BY WorkLines
  <2> QED
    BY <2>1, <2>3, <2>4, Zenon
<1>6. AtReport(ev, pr, ke, got, r, m, p, F, ev[r][got[r]])
  BY <1>2, <1>4, <1>5, Zenon DEF AtReport
<1> QED
  BY <1>6, Zenon

LEMMA FlowRead ==
  ASSUME NEW ev, NEW nx, NEW so, NEW pr, NEW ke, NEW own, NEW idx, NEW got, Told(ev, nx),
         Flowing(ev, nx, so, pr, ke, own, idx, got), pr.busy, pr.lines # <<>>,
         NEW qr, qr = Work(TRUE, Tail(pr.lines), ParseLine(pr.parser, Head(pr.lines)))
  PROVE  Flowing(ev, nx, so, qr, ke, own, idx, got) /\ ~Threw(pr.parser)
<1>0. PICK r, m, p, F, e : AtReport(ev, pr, ke, got, r, m, p, F, e)
  BY FlowAt, Zenon
<1>1. /\ r \in User /\ m \in Nat /\ e = ev[r][got[r]] /\ Reportable(e) /\ Plain(e)
      /\ F = Frame(r, e) /\ m <= Len(F) /\ Parsed(r, e, m, p)
      /\ got[r] = Len(ke[r]) + 1 /\ \A u \in User : u # r => got[u] = Len(ke[u])
  BY <1>0, Zenon DEF AtReport
<1>2. Framed(r, e, F) /\ (\E T : F \in Seq(T)) /\ Len(F) \in Nat
  BY <1>1, FrameOf, Zenon
<1>3. PICK T : F \in Seq(T)
  BY <1>2
<1>4. pr.lines = SubSeq(F, m + 1, Len(F)) /\ pr.parser = p
  BY <1>0, Zenon DEF AtReport
<1>5. m < Len(F) /\ m + 1 <= Len(F)
  <2> SUFFICES ASSUME ~(m < Len(F)) PROVE FALSE
    BY <1>1, <1>2
  <2>1. Len(F) \in Int /\ m + 1 \in Int /\ Len(F) < m + 1
    BY <1>1, <1>2
  <2>2. SubSeq(F, m + 1, Len(F)) = <<>>
    BY <2>1, SubSeqEmpty
  <2> QED
    BY <1>4, <2>2
<1>6. Head(pr.lines) = F[m + 1] /\ Tail(pr.lines) = SubSeq(F, (m + 1) + 1, Len(F))
  <2>1. m + 1 \in 1..Len(F) /\ Len(F) \in (m + 1)..Len(F)
    BY <1>1, <1>2, <1>5
  <2>2. PICK k \in 1..Len(F) : k = m + 1 /\ Len(F) \in k..Len(F)
    BY <2>1
  <2>3. /\ Head(SubSeq(F, k, Len(F))) = F[k]
        /\ Tail(SubSeq(F, k, Len(F))) = SubSeq(F, k + 1, Len(F))
    BY <1>3, <2>2, HeadTailOfSubSeq
  <2> QED
    BY <1>4, <2>2, <2>3
<1>7. ~Threw(p) /\ Parsed(r, e, m + 1, ParseLine(p, F[m + 1]))
  BY <1>1, <1>2, <1>5, ParseStep, Zenon
<1>8. Processing(ev, qr, ke, got)
  <2>1. qr = Work(TRUE, SubSeq(F, (m + 1) + 1, Len(F)), ParseLine(p, F[m + 1]))
    BY <1>4, <1>6, Zenon
  <2>2. m + 1 \in Nat
    BY <1>1
  <2> QED
    BY <1>1, <1>5, <1>7, <2>1, <2>2, Zenon DEF Processing
<1> QED
  BY <1>4, <1>7, <1>8, Zenon DEF Flowing

Keeping(ev, nx, so, ke, own, idx, got, r, f) ==
  /\ r \in User /\ f.user = r /\ f.channel = Channel
  /\ \A kn : /\ DOMAIN kn = User /\ kn[r] = Append(ke[r], f)
             /\ \A u \in User : u # r => kn[u] = ke[u]
          => Flowing(ev, nx, so, Waiting, kn, own, idx, got)

LEMMA FlowKeep ==
  ASSUME NEW ev, NEW nx, NEW so, NEW pr, NEW ke, NEW own, NEW idx, NEW got, Told(ev, nx),
         Flowing(ev, nx, so, pr, ke, own, idx, got), pr.busy, pr.lines = <<>>
  PROVE  \E r, f : Keeping(ev, nx, so, ke, own, idx, got, r, f) /\ f = pr.parser.fields
<1>0. PICK r, m, p, F, e : AtReport(ev, pr, ke, got, r, m, p, F, e)
  BY FlowAt, Zenon
<1>1. /\ r \in User /\ m \in Nat /\ e = ev[r][got[r]] /\ Reportable(e) /\ Plain(e)
      /\ F = Frame(r, e) /\ m <= Len(F) /\ Parsed(r, e, m, p)
      /\ got[r] = Len(ke[r]) + 1 /\ \A u \in User : u # r => got[u] = Len(ke[u])
  BY <1>0, Zenon DEF AtReport
<1>2. Framed(r, e, F) /\ (\E T : F \in Seq(T)) /\ Len(F) \in Nat
  BY <1>1, FrameOf, Zenon
<1>3. PICK T : F \in Seq(T)
  BY <1>2
<1>4. pr.lines = SubSeq(F, m + 1, Len(F)) /\ pr.parser = p
  BY <1>0, Zenon DEF AtReport
<1>5. m = Len(F)
  <2> SUFFICES ASSUME m < Len(F) PROVE FALSE
    BY <1>1, <1>2
  <2>1. PICK k \in Int, l \in Int : k = m + 1 /\ l = Len(F) /\ k <= l /\ \A i \in k..l : i \in 1..Len(F)
    BY <1>1, <1>2
  <2>2. \A i \in k..l : F[i] \in T
    BY <1>3, <2>1, ElementOfSeq
  <2>3. Len(SubSeq(F, k, l)) = l - k + 1
    BY <2>1, <2>2, SubSeqProperties
  <2>4. Len(SubSeq(F, k, l)) # 0
    BY <2>1, <2>3
  <2> QED
    BY <1>4, <2>1, <2>4
<1>6. PICK f : f = p.fields /\ ReadAs(r, e, f)
  <2>1. Parsed(r, e, Len(F), p)
    BY <1>1, <1>5
  <2> QED
    BY <1>1, <1>2, <2>1, ParsedLast, Zenon
<1>7. f.user = r /\ f.channel = Channel
  <2>1. Reportable(e) /\ ReadAs(r, e, f)
    BY <1>1, <1>6
  <2> QED
    BY <2>1, ReadSame, Zenon
<1>8. KeptOf(ev, ke)
  BY Zenon DEF Flowing
<1>9. ASSUME NEW kn, DOMAIN kn = User, kn[r] = Append(ke[r], f),
             \A u \in User : u # r => kn[u] = ke[u]
      PROVE  Flowing(ev, nx, so, Waiting, kn, own, idx, got)
  <2>1. PICK K : ke[r] \in Seq(K)
    BY <1>1, <1>8, Zenon DEF KeptOf
  <2>2. ke[r] \in Seq(K \cup {f})
    BY <2>1, SeqMonotonic
  <2>3. PICK c, n : c = ke[r] /\ n = Len(c) /\ n \in Nat /\ c \in Seq(K \cup {f})
    BY <2>2, LenProperties
  <2>4. /\ kn[r] \in Seq(K \cup {f}) /\ Len(kn[r]) = n + 1 /\ kn[r][n + 1] = f
        /\ \A i \in 1..n : kn[r][i] = c[i]
    BY <1>9, <2>3, AppendProperties
  <2>5. got[r] = n + 1
    BY <1>1, <2>3
  <2>6. \A i \in 1..(n + 1) : ReadAs(r, ev[r][i], kn[r][i])
    <3> TAKE i \in 1..(n + 1)
    <3>1. CASE i \in 1..n
      <4>1. \A x \in 1..Len(ke[r]) : ReadAs(r, ev[r][x], ke[r][x])
        BY <1>1, <1>8, Zenon DEF KeptOf
      <4>2. ReadAs(r, ev[r][i], c[i])
        BY <2>3, <3>1, <4>1
      <4> QED
        BY <2>4, <3>1, <4>2, Zenon
    <3>2. CASE i = n + 1
      BY <1>1, <1>6, <2>4, <2>5, <3>2, Zenon
    <3>3. i \in 1..n \/ i = n + 1
      BY <2>3
    <3> QED
      BY <3>1, <3>2, <3>3
  <2>7. KeptOf(ev, kn)
    <3>1. \A u \in User : u # r => /\ \E X : kn[u] \in Seq(X)
                                   /\ \A i \in 1..Len(kn[u]) : ReadAs(u, ev[u][i], kn[u][i])
      BY <1>8, <1>9, Zenon DEF KeptOf
    <3>2. /\ \E X : kn[r] \in Seq(X)
          /\ \A i \in 1..Len(kn[r]) : ReadAs(r, ev[r][i], kn[r][i])
      BY <2>4, <2>6, Zenon
    <3> QED
      BY <3>1, <3>2, Zenon DEF KeptOf
  <2>8. Processing(ev, Waiting, kn, got)
    <3>1. \A u \in User : got[u] = Len(kn[u])
      BY <1>1, <1>9, <2>4, <2>5
    <3> QED
      BY <3>1, Zenon DEF Processing
  <2> QED
    BY <2>7, <2>8, Zenon DEF Flowing
<1>10. f = pr.parser.fields
  BY <1>4, <1>6
<1>11. Keeping(ev, nx, so, ke, own, idx, got, r, f)
  BY <1>1, <1>7, <1>9 DEF Keeping
<1> QED
  BY <1>10, <1>11, Zenon

-----------------------------------------------------------------------------
(* The inductive invariant of the pipeline *)

EventSet == {EventFromJson(j) : j \in {i \in JsonEvents : Convertible(i)}}

\* The reporters: what a step of the command leaves for the next one.
Reporting ==
  /\ file \in [User -> Files] /\ next \in [User -> Nat] /\ DOMAIN pc = User
  /\ events \in [User -> Seq(EventSet)]
  /\ \A u \in User :
       /\ 1 <= next[u] /\ next[u] <= Len(events[u]) + 1
       /\ pc[u] \in {"parse", "sort"} => next[u] = 1
       /\ pc[u] = "send" => next[u] <= Len(events[u])
       /\ pc[u] = "sort" => events[u] # <<>>

\* What s may be sorted to has the elements of s.
LEMMA SortTyped ==
  ASSUME NEW S, NEW s \in Seq(S), NEW before, NEW t \in SortsOf(s, before)
  PROVE  t \in Seq(S) /\ Len(t) = Len(s)
<1>1. PICK q \in Orders(Len(s)) : t = [i \in DOMAIN s |-> s[q[i]]]
  BY DEF SortsOf
<1>2. PICK n \in Nat : n = Len(s) /\ DOMAIN s = 1..n
  BY LenProperties
<1>3. q \in [1..n -> 1..n]
  BY <1>1, <1>2 DEF Orders
<1>4. \A i \in 1..n : s[i] \in S
  BY <1>2, ElementOfSeq
<1>5. t \in [1..n -> S]
  BY <1>1, <1>2, <1>3, <1>4
<1> QED
  BY <1>2, <1>5

LEMMA EventSent ==
  ASSUME Reporting, NEW u \in User, NEW i \in Nat, 1 <= i, i < next[u]
  PROVE  \E j \in JsonEvents : Convertible(j) /\ events[u][i] = EventFromJson(j)
<1>1. PICK s \in Seq(EventSet) : s = events[u]
  BY DEF Reporting
<1>2. i \in 1..Len(s)
  <2>1. Len(s) \in Nat
    BY LenProperties
  <2>2. next[u] \in Nat /\ next[u] <= Len(s) + 1
    BY <1>1 DEF Reporting
  <2> QED
    BY <2>1, <2>2
<1>3. s[i] \in EventSet
  BY <1>2, ElementOfSeq
<1> QED
  BY <1>1, <1>3 DEF EventSet

LEMMA EventsReportable ==
  ASSUME Reporting, NEW u \in User, NEW i \in Nat, 1 <= i, i < next[u]
  PROVE  Reportable(events[u][i]) /\ (PlainDescriptions => Plain(events[u][i]))
<1>1. PICK j \in JsonEvents : Convertible(j) /\ events[u][i] = EventFromJson(j)
  BY EventSent
<1>2. Reportable(EventFromJson(j)) /\ (PlainDescriptions => Plain(EventFromJson(j)))
  BY <1>1, EventReportable, Zenon
<1> QED
  BY <1>1, <1>2, Zenon

\* The server has relayed what was sent while the connection stood.
Relaying ==
  /\ sent \in [User -> Nat] /\ DOMAIN up = User
  /\ \A u \in User : sent[u] < next[u] /\ (up[u] => next[u] = sent[u] + 1)

\* The report that is relayed next, as long as the connection stands.
Ahead == [u \in User |-> sent[u] + 1]

LEMMA AheadIs ==
  Reporting /\ Relaying => /\ Ahead \in [User -> Nat]
                          /\ \A u \in User : Ahead[u] = sent[u] + 1 /\ Ahead[u] <= next[u]
BY DEF Ahead, Relaying, Reporting

LEMMA RelayingInit == Init => Relaying
BY DEF Init, Relaying

LEMMA RelayingNext == Reporting /\ Relaying /\ [Next]_vars => Relaying'
<1> SUFFICES ASSUME Reporting, Relaying, [Next]_vars PROVE Relaying'
  OBVIOUS
<1>1. next \in [User -> Nat]
  BY DEF Reporting
<1>2. CASE UNCHANGED <<next, up, sent>>
  BY <1>2 DEF Relaying
<1>3. ASSUME NEW u \in User, SendEvent(u) PROVE Relaying'
  <2>1. next' = [next EXCEPT ![u] = @ + 1] /\ up' = up
    BY <1>3 DEF SendEvent
  <2>2. CASE up[u] /\ sent' = [sent EXCEPT ![u] = @ + 1]
    BY <1>1, <2>1, <2>2 DEF Relaying
  <2>3. CASE ~up[u] /\ sent' = sent
    BY <1>1, <2>1, <2>3 DEF Relaying
  <2> QED
    BY <1>3, <2>2, <2>3 DEF SendEvent, Relay
<1>4. ASSUME NEW u \in User, Break(u) PROVE Relaying'
  BY <1>4 DEF Break, Relaying
<1>5. ASSUME NEW u \in User, ParseEvents(u) \/ SortEvents(u) \/ Ask(u) PROVE Relaying'
  BY <1>2, <1>5 DEF ParseEvents, SortEvents, Ask, Reporters
<1>6. CASE TakeFrame \/ ReadLine \/ KeepEvent \/ FindEvents \/ Summarise
  BY <1>2, <1>6 DEF TakeFrame, ReadLine, KeepEvent, FindEvents, Summarise, Reporters
<1>7. CASE UNCHANGED vars
  BY <1>2, <1>7 DEF vars
<1> QED
  BY <1>3, <1>4, <1>5, <1>6, <1>7, Zenon DEF Next

LEMMA EventsToldOf ==
  ASSUME PlainDescriptions, Reporting, Relaying
  PROVE  Told(events, Ahead)
<1> SUFFICES ASSUME NEW u \in User, NEW i \in Nat, 1 <= i, i < Ahead[u]
             PROVE  Reportable(events[u][i]) /\ Plain(events[u][i])
  BY DEF Told
<1>1. i < next[u]
  BY AheadIs DEF Reporting
<1> QED
  BY <1>1, EventsReportable

LEMMA ReportingInit == Init => Reporting
BY EmptySeq DEF Init, Reporting

LEMMA ReportingNext == Reporting /\ [Next]_vars => Reporting'
<1> SUFFICES ASSUME Reporting, [Next]_vars PROVE Reporting'
  OBVIOUS
<1> USE DEF Reporting
<1>1. ASSUME NEW u \in User, ParseEvents(u) PROVE Reporting'
  <2> DEFINE bad == \E i \in DOMAIN file[u] : ~Convertible(file[u][i])
             evs == IF bad THEN <<>> ELSE [i \in DOMAIN file[u] |-> EventFromJson(file[u][i])]
  <2>1. /\ pc[u] = "parse" /\ pc' = [pc EXCEPT ![u] = IF bad \/ file[u] = <<>> THEN "done" ELSE "sort"]
        /\ events' = [events EXCEPT ![u] = evs] /\ file' = file /\ next' = next
    BY <1>1 DEF ParseEvents, Step
  <2>2. PICK f \in Seq(JsonEvents) : f = file[u]
    BY FilesAssumption
  <2>3. PICK n \in Nat : n = Len(f) /\ DOMAIN f = 1..n
    BY <2>2, LenProperties
  <2>4. \A i \in 1..n : f[i] \in JsonEvents
    BY <2>2, <2>3, ElementOfSeq
  <2>5. evs \in Seq(EventSet)
    <3>1. CASE bad
      BY <3>1
    <3>2. CASE ~bad
      <4>1. \A i \in 1..n : EventFromJson(f[i]) \in EventSet
        BY <2>2, <2>3, <2>4, <3>2 DEF EventSet
      <4>2. PICK t : t = [i \in 1..n |-> EventFromJson(f[i])]
        OBVIOUS
      <4>3. t \in [1..n -> EventSet]
        BY <4>1, <4>2
      <4>4. evs = t
        BY <2>2, <2>3, <3>2, <4>2
      <4>5. t \in Seq(EventSet)
        BY <2>3, <4>3
      <4> QED
        BY <4>4, <4>5
    <3> QED
      BY <3>1, <3>2
  <2>6. evs = <<>> => bad \/ f = <<>>
    <3> SUFFICES ASSUME ~bad, evs = <<>> PROVE f = <<>>
      OBVIOUS
    <3>1. PICK t : t = [i \in 1..n |-> EventFromJson(f[i])]
      OBVIOUS
    <3>2. t = <<>>
      BY <2>2, <2>3, <3>1
    <3>3. n = 0
      <4>1. DOMAIN t = 1..n
        BY <3>1
      <4>2. DOMAIN t = {}
        BY <3>2
      <4>3. 1 \notin 1..n
        BY <4>1, <4>2
      <4> QED
        BY <4>3
    <3> QED
      BY <2>2, <2>3, <3>3, EmptySeq
  <2> HIDE DEF bad, evs
  <2>7. /\ file' \in [User -> Files] /\ next' \in [User -> Nat] /\ DOMAIN pc' = User
        /\ events' \in [User -> Seq(EventSet)]
    BY <2>1, <2>5
  <2>8. Len(evs) \in Nat
    BY <2>5, LenProperties
  <2>9. pc'[u] \in {"sort", "done"} /\ (pc'[u] = "sort" => ~bad /\ f # <<>>) /\ events'[u] = evs
    BY <2>1, <2>2
  <2>10. \A w \in User : w # u => pc'[w] = pc[w] /\ events'[w] = events[w]
    BY <2>1
  <2>11. next[u] = 1
    BY <2>1
  <2>12. ASSUME NEW w \in User
         PROVE  /\ 1 <= next'[w] /\ next'[w] <= Len(events'[w]) + 1
                /\ pc'[w] \in {"parse", "sort"} => next'[w] = 1
                /\ pc'[w] = "send" => next'[w] <= Len(events'[w])
                /\ pc'[w] = "sort" => events'[w] # <<>>
    <3>1. CASE w = u
      BY <2>1, <2>6, <2>8, <2>9, <2>11, <3>1
    <3>2. CASE w # u
      BY <2>1, <2>10, <3>2
    <3> QED
      BY <3>1, <3>2
  <2> QED
    BY <2>7, <2>12
<1>2. ASSUME NEW u \in User, SortEvents(u) PROVE Reporting'
  <2>1. PICK s \in SortsOf(events[u], Earlier(events[u])) :
          /\ pc[u] = "sort" /\ pc' = [pc EXCEPT ![u] = "send"]
          /\ events' = [events EXCEPT ![u] = s] /\ file' = file /\ next' = next
    BY <1>2 DEF SortEvents, Step
  <2>2. PICK e \in Seq(EventSet) : e = events[u] /\ e # <<>>
    BY <2>1
  <2>3. s \in Seq(EventSet) /\ Len(s) = Len(e)
    BY <2>1, <2>2, SortTyped
  <2>4. Len(e) \in Nat /\ Len(e) # 0
    BY <2>2, LenProperties, EmptySeq
  <2>5. /\ file' \in [User -> Files] /\ next' \in [User -> Nat] /\ DOMAIN pc' = User
        /\ events' \in [User -> Seq(EventSet)]
    BY <2>1, <2>3
  <2>6. pc'[u] = "send" /\ events'[u] = s /\ next[u] = 1
    BY <2>1
  <2>7. \A w \in User : w # u => pc'[w] = pc[w] /\ events'[w] = events[w]
    BY <2>1
  <2>8. ASSUME NEW w \in User
        PROVE  /\ 1 <= next'[w] /\ next'[w] <= Len(events'[w]) + 1
               /\ pc'[w] \in {"parse", "sort"} => next'[w] = 1
               /\ pc'[w] = "send" => next'[w] <= Len(events'[w])
               /\ pc'[w] = "sort" => events'[w] # <<>>
    <3>1. CASE w = u
      BY <2>1, <2>3, <2>4, <2>6, <3>1
    <3>2. CASE w # u
      BY <2>1, <2>7, <3>2
    <3> QED
      BY <3>1, <3>2
  <2> QED
    BY <2>5, <2>8
<1>3. ASSUME NEW u \in User, SendEvent(u) PROVE Reporting'
  <2>1. /\ pc[u] = "send" /\ next' = [next EXCEPT ![u] = @ + 1] /\ events' = events /\ file' = file
        /\ pc' = [pc EXCEPT ![u] = IF next[u] = Len(events[u]) THEN "done" ELSE "send"]
    BY <1>3 DEF SendEvent
  <2>2. /\ file' \in [User -> Files] /\ next' \in [User -> Nat] /\ DOMAIN pc' = User
        /\ events' \in [User -> Seq(EventSet)]
    BY <2>1
  <2>3. next'[u] = next[u] + 1 /\ pc'[u] = IF next[u] = Len(events[u]) THEN "done" ELSE "send"
    BY <2>1
  <2>4. \A w \in User : w # u => pc'[w] = pc[w] /\ next'[w] = next[w]
    BY <2>1
  <2>5. ASSUME NEW w \in User
        PROVE  /\ 1 <= next'[w] /\ next'[w] <= Len(events'[w]) + 1
               /\ pc'[w] \in {"parse", "sort"} => next'[w] = 1
               /\ pc'[w] = "send" => next'[w] <= Len(events'[w])
               /\ pc'[w] = "sort" => events'[w] # <<>>
    <3>0. Len(events[w]) \in Nat /\ next[w] \in Nat
      BY LenProperties
    <3>1. CASE w = u
      BY <2>1, <2>3, <3>0, <3>1
    <3>2. CASE w # u
      BY <2>1, <2>4, <3>2
    <3> QED
      BY <3>1, <3>2
  <2> QED
    BY <2>2, <2>5
<1>4. CASE UNCHANGED <<file, pc, events, next>>
  BY <1>4
<1>5. CASE UNCHANGED vars
  BY <1>5, <1>4 DEF vars
<1>6. ASSUME NEW u \in User, Break(u) \/ Ask(u) PROVE Reporting'
  BY <1>4, <1>6 DEF Break, Ask, Reporters
<1>7. CASE TakeFrame \/ ReadLine \/ KeepEvent \/ FindEvents \/ Summarise
  BY <1>4, <1>7 DEF TakeFrame, ReadLine, KeepEvent, FindEvents, Summarise, Reporters
<1> QED
  BY <1>1, <1>2, <1>3, <1>5, <1>6, <1>7, Zenon DEF Next

KeptBy == [u \in User |-> Kept(u)]

\* What is on its way, and what came out.
Arriving ==
  /\ DOMAIN events_map \subseteq User \X {Channel}
  /\ \E own, idx, got : Flowing(events, Ahead, socket, process, KeptBy, own, idx, got)

IInv == Reporting /\ Relaying /\ Arriving

LEMMA ArrivingInit == Init => Arriving
<1> SUFFICES ASSUME Init PROVE Arriving
  OBVIOUS
<1>1. /\ events = [u \in User |-> <<>>] /\ Ahead = [u \in User |-> 1] /\ socket = <<>>
      /\ process = Waiting /\ events_map = <<>>
  BY DEF Init, Ahead
<1>2. DOMAIN events_map = {}
  BY <1>1
<1>3. DOMAIN KeptBy = User /\ \A u \in User : KeptBy[u] = <<>>
  BY <1>2 DEF KeptBy, Kept
<1>4. PICK got : got = [u \in User |-> 0]
  OBVIOUS
<1>5. /\ got \in [User -> Nat] /\ Ahead \in [User -> Nat]
      /\ \A u \in User : got[u] = 0 /\ Ahead[u] = got[u] + 1 /\ got[u] < Ahead[u]
  BY <1>1, <1>4
<1>6. Queued(0, <<>>, <<>>, got, Ahead)
  BY <1>5, QueueEmpty
<1>7. Len(socket) = 0 /\ socket \in Seq({}) /\ \A j \in 1..Len(socket) : FALSE
  BY <1>1
<1>8. KeptOf(events, KeptBy)
  <2>1. <<>> \in Seq({}) /\ \A i \in 1..Len(<<>>) : FALSE
    OBVIOUS
  <2>2. \A u \in User : KeptBy[u] \in Seq({}) /\ \A i \in 1..Len(KeptBy[u]) : FALSE
    BY <1>3, <2>1, Zenon
  <2> QED
    BY <2>2, Zenon DEF KeptOf
<1>9. Processing(events, process, KeptBy, got)
  <2>1. \A u \in User : got[u] = Len(KeptBy[u])
    BY <1>3, <1>5
  <2> QED
    BY <1>1, <2>1, Zenon DEF Processing
<1>10. Queued(Len(socket), <<>>, <<>>, got, Ahead)
  BY <1>6, <1>7
<1>11. Flowing(events, Ahead, socket, process, KeptBy, <<>>, <<>>, got)
  BY <1>5, <1>7, <1>8, <1>9, <1>10, Zenon DEF Flowing
<1> QED
  BY <1>2, <1>11, Zenon DEF Arriving

\* What a step does to what is kept.
LEMMA KeptSame == events_map' = events_map => KeptBy' = KeptBy
BY DEF KeptBy, Kept

LEMMA KeptMore ==
  ASSUME NEW r \in User, NEW f, f.user = r, f.channel = Channel,
         DOMAIN events_map \subseteq User \X {Channel}, events_map' = PushBack(events_map, f)
  PROVE  /\ DOMAIN events_map' \subseteq User \X {Channel}
         /\ DOMAIN KeptBy' = User /\ KeptBy'[r] = Append(KeptBy[r], f)
         /\ \A u \in User : u # r => KeptBy'[u] = KeptBy[u]
<1>1. PICK k : k = <<r, Channel>>
  OBVIOUS
<1>2. PICK old : old = IF k \in DOMAIN events_map THEN events_map[k] ELSE <<>>
  OBVIOUS
<1>3. PICK v : v = Append(old, f)
  OBVIOUS
<1>4. events_map' = With(events_map, k, v)
  BY <1>1, <1>2, <1>3, Zenon DEF PushBack
<1>5. /\ DOMAIN events_map' = DOMAIN events_map \cup {k} /\ events_map'[k] = v
      /\ \A x \in DOMAIN events_map : x # k => events_map'[x] = events_map[x]
  BY <1>4 DEF With
<1>6. old = Kept(r)
  BY <1>1, <1>2, Zenon DEF Kept
<1>7. Kept(r)' = v
  BY <1>1, <1>5 DEF Kept
<1>8. \A u \in User : u # r => Kept(u)' = Kept(u)
  <2> SUFFICES ASSUME NEW u \in User, u # r PROVE Kept(u)' = Kept(u)
    OBVIOUS
  <2>1. <<u, Channel>> # k
    BY <1>1
  <2> QED
    BY <1>5, <2>1 DEF Kept
<1>9. KeptBy[r] = Kept(r) /\ KeptBy'[r] = Kept(r)' /\ DOMAIN KeptBy' = User
  BY DEF KeptBy
<1>10. \A u \in User : KeptBy[u] = Kept(u) /\ KeptBy'[u] = Kept(u)'
  BY DEF KeptBy
<1>11. DOMAIN events_map' \subseteq User \X {Channel}
  BY <1>1, <1>5
<1> QED
  BY <1>3, <1>6, <1>7, <1>8, <1>9, <1>10, <1>11

LEMMA ArrivingNext == PlainDescriptions /\ IInv /\ [Next]_vars => Arriving'
<1> SUFFICES ASSUME PlainDescriptions, Reporting, Relaying, Arriving, [Next]_vars
             PROVE  Arriving'
  BY DEF IInv
<1>1. PICK own, idx, got : Flowing(events, Ahead, socket, process, KeptBy, own, idx, got)
  BY Zenon DEF Arriving
<1>2. DOMAIN events_map \subseteq User \X {Channel}
  BY Zenon DEF Arriving
<1>3. PICK ev, nx, so, pr, ke :
        /\ ev = events /\ nx = Ahead /\ so = socket /\ pr = process /\ ke = KeptBy
  OBVIOUS
<1>4. Flowing(ev, nx, so, pr, ke, own, idx, got)
  BY <1>1, <1>3
<1>5. Told(ev, nx)
  BY <1>3, EventsToldOf
<1>6. ASSUME NEW w \in User, nx[w] = 1, \A u \in User : u # w => events'[u] = ev[u],
             sent' = sent, socket' = so, process' = pr, events_map' = events_map
      PROVE  Arriving'
  <2>1. PICK ew : ew = events'
    OBVIOUS
  <2>2. \A u \in User : u # w => ew[u] = ev[u]
    BY <1>6, <2>1
  <2>3. Flowing(ew, nx, so, pr, ke, own, idx, got)
    BY <1>4, <1>6, <2>2, FlowPrepare, Zenon
  <2>4. KeptBy' = ke /\ Ahead' = nx
    BY <1>3, <1>6, KeptSame DEF Ahead
  <2> QED
    BY <1>2, <1>6, <2>1, <2>3, <2>4 DEF Arriving
<1>7. ASSUME NEW u \in User, ParseEvents(u) PROVE Arriving'
  <2>1. /\ pc[u] = "parse" /\ \E v : events' = [events EXCEPT ![u] = v]
        /\ sent' = sent /\ socket' = socket /\ process' = process /\ events_map' = events_map
    BY <1>7 DEF ParseEvents, Step, Reader
  <2>2. Ahead[u] = 1 /\ events \in [User -> Seq(EventSet)]
    BY <2>1 DEF Reporting, Relaying, Ahead
  <2>3. \A w \in User : w # u => events'[w] = events[w]
    BY <2>1, <2>2
  <2> QED
    BY <1>3, <1>6, <2>1, <2>2, <2>3
<1>8. ASSUME NEW u \in User, SortEvents(u) PROVE Arriving'
  <2>1. /\ pc[u] = "sort" /\ \E v : events' = [events EXCEPT ![u] = v]
        /\ sent' = sent /\ socket' = socket /\ process' = process /\ events_map' = events_map
    BY <1>8 DEF SortEvents, Step, Reader
  <2>2. Ahead[u] = 1 /\ events \in [User -> Seq(EventSet)]
    BY <2>1 DEF Reporting, Relaying, Ahead
  <2>3. \A w \in User : w # u => events'[w] = events[w]
    BY <2>1, <2>2
  <2> QED
    BY <1>3, <1>6, <2>1, <2>2, <2>3
<1>9. ASSUME NEW u \in User, SendEvent(u) PROVE Arriving'
  <2>1. events' = events /\ process' = process /\ events_map' = events_map
    BY <1>9, Zenon DEF SendEvent, Reader
  <2>2. KeptBy' = ke
    BY <1>3, <2>1, KeptSame
  <2>3. CASE ~up[u] /\ sent' = sent /\ socket' = socket
    <3>1. Ahead' = Ahead
      BY <2>3 DEF Ahead
    <3> QED
      BY <1>1, <1>2, <1>3, <2>1, <2>2, <2>3, <3>1 DEF Arriving
  <2>4. CASE /\ up[u] /\ sent' = [sent EXCEPT ![u] = @ + 1]
             /\ socket' = Append(socket, MessageFrame(Channel, "7", "0",
                                                     Body(u, events[u][next[u]])))
    <3>1. nx[u] = next[u]
      BY <1>3, <2>4, AheadIs DEF Relaying
    <3>2. PICK s : s = Append(so, Frame(u, ev[u][nx[u]])) /\ s = socket'
      BY <1>3, <2>4, <3>1, Zenon DEF Frame
    <3>3. Ahead' = [nx EXCEPT ![u] = @ + 1]
      BY <1>3, <2>4 DEF Ahead, Relaying
    <3>4. PICK o, x : Flowing(ev, [nx EXCEPT ![u] = @ + 1], s, pr, ke, o, x, got)
      BY <1>4, <3>2, FlowSend, Zenon
    <3>5. Flowing(events', Ahead', socket', process', KeptBy', o, x, got)
      BY <1>3, <2>1, <2>2, <3>2, <3>3, <3>4, Zenon
    <3> QED
      BY <1>2, <2>1, <3>5 DEF Arriving
  <2> QED
    BY <1>9, <2>3, <2>4, Zenon DEF SendEvent, Relay
<1>10. CASE TakeFrame
  <2>1. /\ ~process.busy /\ socket # <<>>
        /\ process' = [busy |-> TRUE, lines |-> Head(socket), parser |-> Parser]
        /\ socket' = Tail(socket) /\ Ahead' = Ahead /\ events' = events /\ events_map' = events_map
    BY <1>10, Zenon DEF TakeFrame, Reporters, Ahead
  <2>2. pr = Waiting
    <3>1. \A l, p : Work(TRUE, l, p).busy = TRUE
      BY WorkParts, Zenon
    <3>2. \A l, p : pr # Work(TRUE, l, p)
      BY <1>3, <2>1, <3>1
    <3>3. Processing(ev, pr, ke, got)
      BY <1>4, Zenon DEF Flowing
    <3> QED
      BY <3>2, <3>3, Zenon DEF Processing
  <2>3. PICK qr : qr = Work(TRUE, Head(so), Parser) /\ qr = process'
    BY <1>3, <2>1, Zenon DEF Work
  <2>4. PICK s : s = Tail(so) /\ s = socket'
    BY <1>3, <2>1
  <2>5. Flowing(ev, nx, so, Waiting, ke, own, idx, got) /\ so # <<>>
    BY <1>3, <1>4, <2>1, <2>2
  <2>6. PICK o, x, gt : Flowing(ev, nx, s, qr, ke, o, x, gt)
    BY <1>5, <2>3, <2>4, <2>5, FlowTake, Zenon
  <2>7. KeptBy' = ke
    BY <1>3, <2>1, KeptSame
  <2>8. Flowing(events', Ahead', socket', process', KeptBy', o, x, gt)
    BY <1>3, <2>1, <2>3, <2>4, <2>6, <2>7
  <2> QED
    BY <1>2, <2>1, <2>8 DEF Arriving
<1>11. CASE ReadLine
  <2>1. /\ process.busy /\ process.lines # <<>>
        /\ process' = [process EXCEPT !.lines = Tail(@), !.parser = ParseLine(@, Head(process.lines))]
        /\ socket' = socket /\ Ahead' = Ahead /\ events' = events /\ events_map' = events_map
    BY <1>11, Zenon DEF ReadLine, Reporters, Ahead
  <2>2. PICK l, p : pr = Work(TRUE, l, p)
    <3>1. Processing(ev, pr, ke, got)
      BY <1>4, Zenon DEF Flowing
    <3>2. pr # Waiting
      <4>1. Waiting.busy = FALSE
        BY Zenon DEF Waiting
      <4> QED
        BY <1>3, <2>1, <4>1, Zenon
    <3> QED
      BY <3>1, <3>2, Zenon DEF Processing
  <2>3. pr.lines = l /\ pr.parser = p
    <3>1. PICK b : b = TRUE
      OBVIOUS
    <3>2. pr = Work(b, l, p)
      BY <2>2, <3>1, Zenon
    <3>3. Work(b, l, p).lines = l /\ Work(b, l, p).parser = p
      BY WorkLines
    <3> QED
      BY <3>2, <3>3, Zenon
  <2>4. PICK b : b = TRUE /\ process = Work(b, l, p)
    BY <1>3, <2>2, Zenon
  <2>5. process' = Work(b, Tail(l), ParseLine(p, Head(l)))
    BY <2>1, <2>4, WorkStep, Zenon
  <2>6. PICK qr : qr = process' /\ qr = Work(TRUE, Tail(pr.lines), ParseLine(pr.parser, Head(pr.lines)))
    BY <2>3, <2>4, <2>5, Zenon
  <2>7. pr.busy /\ pr.lines # <<>>
    BY <1>3, <2>1
  <2>8. Flowing(ev, nx, so, qr, ke, own, idx, got)
    BY <1>4, <1>5, <2>6, <2>7, FlowRead, Zenon
  <2>9. KeptBy' = ke
    BY <1>3, <2>1, KeptSame
  <2>10. Flowing(events', Ahead', socket', process', KeptBy', own, idx, got)
    BY <1>3, <2>1, <2>6, <2>8, <2>9
  <2> QED
    BY <1>2, <2>1, <2>10 DEF Arriving
<1>12. CASE KeepEvent
  <2>1. /\ process.busy /\ process.lines = <<>> /\ process' = Waiting
        /\ events_map' = PushBack(events_map, process.parser.fields)
        /\ socket' = socket /\ Ahead' = Ahead /\ events' = events
    BY <1>12, Zenon DEF KeepEvent, Reporters, Ahead
  <2>2. pr.busy /\ pr.lines = <<>>
    BY <1>3, <2>1
  <2>3. PICK r, f : Keeping(ev, nx, so, ke, own, idx, got, r, f) /\ f = pr.parser.fields
    BY <1>4, <1>5, <2>2, FlowKeep, Zenon
  <2>4. /\ r \in User /\ f.user = r /\ f.channel = Channel
        /\ \A kn : /\ DOMAIN kn = User /\ kn[r] = Append(ke[r], f)
                   /\ \A u \in User : u # r => kn[u] = ke[u]
                => Flowing(ev, nx, so, Waiting, kn, own, idx, got)
    BY <2>3, Zenon DEF Keeping
  <2>5. events_map' = PushBack(events_map, f)
    BY <1>3, <2>1, <2>3
  <2>6. /\ DOMAIN events_map' \subseteq User \X {Channel}
        /\ DOMAIN KeptBy' = User /\ KeptBy'[r] = Append(KeptBy[r], f)
        /\ \A u \in User : u # r => KeptBy'[u] = KeptBy[u]
    BY <1>2, <2>4, <2>5, KeptMore
  <2>7. PICK kn : kn = KeptBy'
    OBVIOUS
  <2>8. DOMAIN kn = User /\ kn[r] = Append(ke[r], f) /\ \A u \in User : u # r => kn[u] = ke[u]
    BY <1>3, <2>6, <2>7
  <2>9. Flowing(ev, nx, so, Waiting, kn, own, idx, got)
    BY <2>4, <2>8, Zenon
  <2>10. Flowing(events', Ahead', socket', process', KeptBy', own, idx, got)
    BY <1>3, <2>1, <2>7, <2>9
  <2> QED
    BY <2>6, <2>10 DEF Arriving
<1>13. CASE UNCHANGED <<events, sent, socket, process, events_map>>
  <2>1. KeptBy' = KeptBy /\ Ahead' = Ahead
    BY <1>13, KeptSame DEF Ahead
  <2> QED
    BY <1>1, <1>2, <1>13, <2>1 DEF Arriving
<1>14. CASE FindEvents \/ Summarise
  BY <1>13, <1>14 DEF FindEvents, Summarise, Reporters
<1>15. CASE UNCHANGED vars
  BY <1>13, <1>15 DEF vars
<1>16. ASSUME NEW u \in User, Break(u) \/ Ask(u) PROVE Arriving'
  BY <1>13, <1>16 DEF Break, Ask, Reader, Reporters
<1> QED
  BY <1>7, <1>8, <1>9, <1>10, <1>11, <1>12, <1>14, <1>15, <1>16, Zenon DEF Next

-----------------------------------------------------------------------------
(* The theorems *)

LEMMA IInvHolds == ASSUME PlainDescriptions PROVE Spec => []IInv
<1>1. Init => IInv
  BY ReportingInit, RelayingInit, ArrivingInit, Zenon DEF IInv
<1>2. IInv /\ [Next]_vars => IInv'
  BY ReportingNext, RelayingNext, ArrivingNext, Zenon DEF IInv
<1> QED
  BY <1>1, <1>2, PTL DEF Spec

\* The first reports of every user were kept, as they were sent.
LEMMA KeptFirst ==
  ASSUME PlainDescriptions, IInv, NEW u \in User
  PROVE  /\ \E K : Kept(u) \in Seq(K)
         /\ Len(Kept(u)) <= sent[u]
         /\ \A i \in 1..Len(Kept(u)) :
              /\ Same(Kept(u)[i], events[u][i])
              /\ Reportable(events[u][i]) /\ ReadAs(u, events[u][i], Kept(u)[i])
<1>1. PICK own, idx, got : Flowing(events, Ahead, socket, process, KeptBy, own, idx, got)
  BY Zenon DEF IInv, Arriving
<1>2. KeptBy[u] = Kept(u)
  BY DEF KeptBy
<1>3. /\ \E K : Kept(u) \in Seq(K)
      /\ \A i \in 1..Len(Kept(u)) : ReadAs(u, events[u][i], Kept(u)[i])
  <2>1. KeptOf(events, KeptBy)
    BY <1>1, Zenon DEF Flowing
  <2> QED
    BY <1>2, <2>1 DEF KeptOf
<1>4. Len(Kept(u)) \in Nat
  BY <1>3, LenProperties
<1>5. got[u] \in Nat /\ sent[u] \in Nat /\ got[u] <= sent[u] /\ Ahead[u] = sent[u] + 1
  <2>1. got[u] \in Nat /\ got[u] < Ahead[u]
    BY <1>1 DEF Flowing
  <2>2. sent[u] \in Nat /\ Ahead[u] = sent[u] + 1
    BY AheadIs DEF IInv, Relaying
  <2> QED
    BY <2>1, <2>2
<1>6. Len(Kept(u)) <= got[u]
  <2>1. Processing(events, process, KeptBy, got)
    BY <1>1, Zenon DEF Flowing
  <2>2. got[u] = Len(KeptBy[u]) \/ got[u] = Len(KeptBy[u]) + 1
    BY <2>1, Zenon DEF Processing
  <2> QED
    BY <1>2, <1>4, <1>5, <2>2
<1>7. Told(events, Ahead)
  BY EventsToldOf DEF IInv
<1>8. \A i \in 1..Len(Kept(u)) :
        /\ Same(Kept(u)[i], events[u][i])
        /\ Reportable(events[u][i]) /\ ReadAs(u, events[u][i], Kept(u)[i])
  <2> TAKE i \in 1..Len(Kept(u))
  <2>1. i \in Nat /\ 1 <= i /\ i < Ahead[u]
    BY <1>4, <1>5, <1>6
  <2>2. PICK e, f : /\ e = events[u][i] /\ f = Kept(u)[i] /\ Reportable(e) /\ ReadAs(u, e, f)
    BY <1>3, <1>7, <2>1 DEF Told
  <2>3. Same(f, e)
    BY <2>2, ReadSame, Zenon
  <2> QED
    BY <2>2, <2>3
<1> QED
  BY <1>3, <1>4, <1>5, <1>6, <1>8

\* Reports come out of the frames as they were sent, in order, nothing lost in
\* between and nothing made up, for every set of files whose descriptions have no
\* ':': what processMessageFrame reads of the lines that report wrote.
THEOREM ReportsArriveHolds == ASSUME PlainDescriptions PROVE Spec => []ReportsArrive
<1>1. IInv => ReportsArrive
  <2> SUFFICES ASSUME IInv PROVE ReportsArrive
    OBVIOUS
  <2>1. DOMAIN events_map \subseteq User \X {Channel}
    BY DEF IInv, Arriving
  <2>2. ASSUME NEW u \in User, NEW i \in DOMAIN Kept(u)
        PROVE  i <= sent[u] /\ Same(Kept(u)[i], events[u][i])
    <3>1. PICK K : Kept(u) \in Seq(K)
      BY KeptFirst
    <3>2. DOMAIN Kept(u) = 1..Len(Kept(u)) /\ Len(Kept(u)) \in Nat
      BY <3>1, LenProperties
    <3>3. i \in 1..Len(Kept(u))
      BY <2>2, <3>2
    <3>4. sent[u] \in Nat
      BY DEF IInv, Relaying
    <3> QED
      BY <3>2, <3>3, <3>4, KeptFirst
  <2> QED
    BY <2>1, <2>2, Zenon DEF ReportsArrive
<1> QED
  BY <1>1, IInvHolds, PTL

-----------------------------------------------------------------------------
(* The constructor of Event *)

\* BodyEntry, for every key that a line of a report can have.
LEMMA EntryField ==
  ASSUME NEW p, NEW l, NEW s, ~s.in_general_info
  PROVE  /\ l.key = "user" /\ s = Set(p, "user", BodyValue(l.val)) => BodyEntry(p, l) = s
         /\ l.key = "city" /\ s = Set(p, "city", BodyValue(l.val)) => BodyEntry(p, l) = s
         /\ l.key = "event name" /\ s = Set(p, "name", BodyValue(l.val)) => BodyEntry(p, l) = s
         /\ /\ l.key = "date time" /\ IsDate(BodyValue(l.val))
            /\ s = Set(p, "date_time", stoi(BodyValue(l.val)))
            => BodyEntry(p, l) = s
<1>1. l.key = "user" /\ s = Set(p, "user", BodyValue(l.val)) => BodyEntry(p, l) = s
  BY Zenon DEF BodyEntry
<1>2. l.key = "city" /\ s = Set(p, "city", BodyValue(l.val)) => BodyEntry(p, l) = s
  BY Zenon DEF BodyEntry
<1>3. l.key = "event name" /\ s = Set(p, "name", BodyValue(l.val)) => BodyEntry(p, l) = s
  BY Zenon DEF BodyEntry
<1>4. /\ l.key = "date time" /\ IsDate(BodyValue(l.val))
      /\ s = Set(p, "date_time", stoi(BodyValue(l.val)))
      => BodyEntry(p, l) = s
  BY Zenon DEF BodyEntry
<1> QED
  BY <1>1, <1>2, <1>3, <1>4, Zenon

LEMMA EntryInfo ==
  ASSUME NEW p, NEW l, NEW s, s.in_general_info, s.threw = FALSE
  PROVE  /\ l.key = "description" /\ s = [p EXCEPT !.in_description = TRUE]
              => \E g : BodyEntry(p, l) = Set(s, "general_information", g)
         /\ l.key \notin FieldKeys /\ s = p
              => \E g : BodyEntry(p, l) = Set(s, "general_information", g)
<1>1. PICK g : g = With(s.fields.general_information, SubSeq(l.key, 2, Len(l.key)), BodyValue(l.val))
  OBVIOUS
<1>2. l.key = "description" /\ s = [p EXCEPT !.in_description = TRUE]
        => BodyEntry(p, l) = Set(s, "general_information", g)
  BY <1>1, Zenon DEF BodyEntry
<1>3. l.key \notin FieldKeys /\ s = p => BodyEntry(p, l) = Set(s, "general_information", g)
  BY <1>1, Zenon DEF BodyEntry, FieldKeys
<1> QED
  BY <1>2, <1>3, Zenon

\* BodyLine, before the description and in it.
LEMMA BodyByKey ==
  ASSUME NEW p, NEW l, p.threw = FALSE
  PROVE  /\ p.in_description => BodyLine(p, l) = Set(p, "description", Append(p.fields.description, l))
         /\ ~p.in_description /\ l.key = "general information"
              => BodyLine(p, l) = [p EXCEPT !.in_general_info = TRUE]
         /\ ~p.in_description /\ l.key # NoKey /\ l.key # "general information"
              => BodyLine(p, l) = BodyEntry(p, l)
<1>1. p.in_description => BodyLine(p, l) = Set(p, "description", Append(p.fields.description, l))
  BY Zenon DEF BodyLine
<1>2. ~p.in_description /\ l.key = "general information"
        => BodyLine(p, l) = [p EXCEPT !.in_general_info = TRUE]
  BY Zenon DEF BodyLine, NoKey
<1>3. ~p.in_description /\ l.key # NoKey /\ l.key # "general information"
        => BodyLine(p, l) = BodyEntry(p, l)
  BY Zenon DEF BodyLine
<1> QED
  BY <1>1, <1>2, <1>3, Zenon

BuildsFields(f, v, d) ==
  /\ BodyLine(Before(f), Line("user", v)) = Before([f EXCEPT !["user"] = BodyValue(v)])
  /\ BodyLine(Before(f), Line("city", v)) = Before([f EXCEPT !["city"] = BodyValue(v)])
  /\ BodyLine(Before(f), Line("event name", v)) = Before([f EXCEPT !["name"] = BodyValue(v)])
  /\ BodyLine(Before(f), Line("date time", Decimal[d])) = Before([f EXCEPT !["date_time"] = d])
  /\ BodyLine(Before(f), Line("general information", v)) = Inside(f)

LEMMA BuildFields == ASSUME NEW f, NEW v, NEW d \in Dates PROVE BuildsFields(f, v, d)
<1>1. Settable(f, FALSE, FALSE)
  BY SetAt, Zenon
<1>2. \A g : Settable(g, FALSE, FALSE)
  BY SetAt, Zenon
<1>3. /\ Before(f).threw = FALSE /\ ~Before(f).in_description
      /\ [Before(f) EXCEPT !.in_general_info = TRUE] = Inside(f)
      /\ \A field, x : Set(Before(f), field, x) = Before([f EXCEPT ![field] = x])
  BY <1>1, Zenon DEF Settable, Before, Inside
<1>4. \A g : ~Before(g).in_general_info
  BY <1>2, Zenon DEF Settable, Before
<1>5. PICK p : p = Before(f)
  OBVIOUS
<1>6. p.threw = FALSE /\ ~p.in_description
  BY <1>3, <1>5
<1>7. \A field, x : ~Set(p, field, x).in_general_info
  <2> TAKE field, x
  <2>1. PICK g : g = [f EXCEPT ![field] = x]
    OBVIOUS
  <2>2. Set(p, field, x) = Before(g)
    BY <1>3, <1>5, <2>1, Zenon
  <2> QED
    BY <1>4, <2>2, Zenon
<1>8. BodyLine(p, Line("user", v)) = Set(p, "user", BodyValue(v))
  <2>1. PICK l : l = Line("user", v)
    OBVIOUS
  <2>2. l.key = "user" /\ l.val = v
    BY <2>1, LineParts, Zenon
  <2>3. BodyLine(p, l) = BodyEntry(p, l)
    BY <1>6, <2>2, BodyByKey, Zenon DEF NoKey
  <2>4. BodyEntry(p, l) = Set(p, "user", BodyValue(l.val))
    BY <1>7, <2>2, EntryField, Zenon
  <2> QED
    BY <2>1, <2>2, <2>3, <2>4, Zenon
<1>9. BodyLine(p, Line("city", v)) = Set(p, "city", BodyValue(v))
  <2>1. PICK l : l = Line("city", v)
    OBVIOUS
  <2>2. l.key = "city" /\ l.val = v
    BY <2>1, LineParts, Zenon
  <2>3. BodyLine(p, l) = BodyEntry(p, l)
    BY <1>6, <2>2, BodyByKey, Zenon DEF NoKey
  <2>4. BodyEntry(p, l) = Set(p, "city", BodyValue(l.val))
    BY <1>7, <2>2, EntryField, Zenon
  <2> QED
    BY <2>1, <2>2, <2>3, <2>4, Zenon
<1>10. BodyLine(p, Line("event name", v)) = Set(p, "name", BodyValue(v))
  <2>1. PICK l : l = Line("event name", v)
    BY Zenon
  <2>2. l.key = "event name" /\ l.val = v
    BY <2>1, LineParts, Zenon
  <2>3. BodyLine(p, l) = BodyEntry(p, l)
    BY <1>6, <2>2, BodyByKey, Zenon DEF NoKey
  <2>4. BodyEntry(p, l) = Set(p, "name", BodyValue(l.val))
    BY <1>7, <2>2, EntryField, Zenon
  <2> QED
    BY <2>1, <2>2, <2>3, <2>4, Zenon
<1>11. BodyLine(p, Line("date time", Decimal[d])) = Set(p, "date_time", d)
  <2>0. PICK x : x = Decimal[d] /\ BodyValue(x) = x /\ IsDate(x) /\ stoi(x) = d
    <3>1. ~HasColon(Decimal[d])
      BY StringsAssumption
    <3> QED
      BY <3>1, DateRead, Zenon DEF BodyValue
  <2>1. PICK l : l = Line("date time", Decimal[d])
    BY Zenon
  <2>2. l.key = "date time" /\ l.val = x
    BY <2>0, <2>1, LineParts, Zenon
  <2>3. BodyLine(p, l) = BodyEntry(p, l)
    BY <1>6, <2>2, BodyByKey, Zenon DEF NoKey
  <2>4. BodyEntry(p, l) = Set(p, "date_time", stoi(BodyValue(l.val)))
    BY <1>7, <2>0, <2>2, EntryField, Zenon
  <2> QED
    BY <2>0, <2>1, <2>2, <2>3, <2>4, Zenon
<1>12. BodyLine(p, Line("general information", v)) = [p EXCEPT !.in_general_info = TRUE]
  <2>1. PICK l : l = Line("general information", v)
    BY Zenon
  <2>2. l.key = "general information" /\ l.val = v
    BY <2>1, LineParts, Zenon
  <2>3. BodyLine(p, l) = [p EXCEPT !.in_general_info = TRUE]
    BY <1>6, <2>2, BodyByKey, Zenon
  <2> QED
    BY <2>1, <2>3, Zenon
<1> QED
  BY <1>3, <1>5, <1>8, <1>9, <1>10, <1>11, <1>12, ZenonT(60) DEF BuildsFields

BuildsRest(f, l) ==
  /\ l.key = "description" =>
       \E g : BodyLine(Inside(f), l) = Below([f EXCEPT !["general_information"] = g])
  /\ l.key \notin FieldKeys \cup {NoKey} =>
       \E g : BodyLine(Inside(f), l) = Inside([f EXCEPT !["general_information"] = g])
  /\ BodyLine(Below(f), l) = Below([f EXCEPT !["description"] = Append(f.description, l)])

LEMMA BuildRest == ASSUME NEW f, NEW l PROVE BuildsRest(f, l)
<1>1. Settable(f, TRUE, FALSE) /\ Settable(f, TRUE, TRUE)
  BY SetAt, Zenon
<1>2. /\ Inside(f).threw = FALSE /\ ~Inside(f).in_description /\ Inside(f).in_general_info
      /\ [Inside(f) EXCEPT !.in_description = TRUE] = Below(f)
      /\ \A field, x : Set(Inside(f), field, x) = Inside([f EXCEPT ![field] = x])
  BY <1>1, Zenon DEF Settable, Inside, Below
<1>3. /\ Below(f).threw = FALSE /\ Below(f).in_description /\ Below(f).in_general_info
      /\ Below(f).fields = f
      /\ \A field, x : Set(Below(f), field, x) = Below([f EXCEPT ![field] = x])
  BY <1>1, Zenon DEF Settable, Below
<1>4. PICK p, q : p = Inside(f) /\ q = Below(f)
  OBVIOUS
<1>5. ASSUME l.key = "description"
      PROVE  \E g : BodyLine(Inside(f), l) = Below([f EXCEPT !["general_information"] = g])
  <2>1. BodyLine(p, l) = BodyEntry(p, l)
    BY <1>2, <1>4, <1>5, BodyByKey, Zenon DEF NoKey
  <2>2. q = [p EXCEPT !.in_description = TRUE]
    BY <1>2, <1>4, Zenon
  <2>3. q.in_general_info /\ q.threw = FALSE
    BY <1>3, <1>4, Zenon
  <2>4. PICK g : BodyEntry(p, l) = Set(q, "general_information", g)
    BY <1>5, <2>2, <2>3, EntryInfo, Zenon
  <2>5. Set(q, "general_information", g) = Below([f EXCEPT !["general_information"] = g])
    BY <1>3, <1>4, Zenon
  <2>6. BodyLine(Inside(f), l) = Below([f EXCEPT !["general_information"] = g])
    BY <1>4, <2>1, <2>4, <2>5, Zenon
  <2> QED
    BY <2>6, Zenon
<1>6. ASSUME l.key \notin FieldKeys \cup {NoKey}
      PROVE  \E g : BodyLine(Inside(f), l) = Inside([f EXCEPT !["general_information"] = g])
  <2>0. l.key # NoKey /\ l.key \notin FieldKeys /\ l.key # "general information"
    BY <1>6, Zenon DEF FieldKeys
  <2>1. BodyLine(p, l) = BodyEntry(p, l)
    BY <1>2, <1>4, <2>0, BodyByKey, Zenon
  <2>2. p.in_general_info /\ p.threw = FALSE
    BY <1>2, <1>4, Zenon
  <2>3. PICK g : BodyEntry(p, l) = Set(p, "general_information", g)
    BY <2>0, <2>2, EntryInfo, Zenon
  <2>4. Set(p, "general_information", g) = Inside([f EXCEPT !["general_information"] = g])
    BY <1>2, <1>4, Zenon
  <2>5. BodyLine(Inside(f), l) = Inside([f EXCEPT !["general_information"] = g])
    BY <1>4, <2>1, <2>3, <2>4, Zenon
  <2> QED
    BY <2>5, Zenon
<1>7. BodyLine(Below(f), l) = Below([f EXCEPT !["description"] = Append(f.description, l)])
  <2>1. PICK v : v = Append(f.description, l)
    OBVIOUS
  <2>2. v = Append(q.fields.description, l)
    BY <1>3, <1>4, <2>1
  <2>3. BodyLine(q, l) = Set(q, "description", v)
    BY <1>3, <1>4, <2>2, BodyByKey, ZenonT(60)
  <2> QED
    BY <1>3, <1>4, <2>1, <2>3, Zenon
<1> QED
  BY <1>5, <1>6, <1>7, Zenon DEF BuildsRest

\* The reader after m of the lines of the body that u sent for e.
Built(u, ci, na, da, d, gi) == Filled("", u, ci, na, da, d, gi)

Building(u, e, n, m, p) ==
  \/ m = 0 /\ p = Before(Built("", "", "", 0, <<>>, <<>>))
  \/ m = 1 /\ p = Before(Built(BodyValue(u), "", "", 0, <<>>, <<>>))
  \/ m = 2 /\ p = Before(Built(BodyValue(u), BodyValue(e.city), "", 0, <<>>, <<>>))
  \/ m = 3 /\ p = Before(Built(BodyValue(u), BodyValue(e.city), BodyValue(e.name), 0, <<>>, <<>>))
  \/ m = 4 /\ p = Before(Built(BodyValue(u), BodyValue(e.city), BodyValue(e.name), e.date_time, <<>>, <<>>))
  \/ /\ 5 <= m /\ m <= 5 + n
     /\ \E gi : p = Inside(Built(BodyValue(u), BodyValue(e.city), BodyValue(e.name), e.date_time, <<>>, gi))
  \/ /\ 6 + n <= m
     /\ \E gi, d : /\ d = SubSeq(Text(e), 1, m - 6 - n)
                   /\ p = Below(Built(BodyValue(u), BodyValue(e.city), BodyValue(e.name), e.date_time, d, gi))

LEMMA BuildStep ==
  ASSUME NEW u, NEW e, e.date_time \in Dates, DOMAIN e.general_information \subseteq InfoKeys,
         NEW S, Text(e) \in Seq(S),
         NEW r, Laid(u, e, r), NEW n \in Nat, n = Len(InfoLines(e)), NEW m \in Nat, m < Len(r),
         NEW p, Building(u, e, n, m, p)
  PROVE  Building(u, e, n, m + 1, BodyLine(p, r[m + 1]))
<1>1. \A f, v : BuildsFields(f, v, e.date_time)
  BY BuildFields, Zenon
<1>2. \A f, l : BuildsRest(f, l)
  BY BuildRest, Zenon
<1>3. \A v, ci, na, da, d, gi : Fills(Built(v, ci, na, da, d, gi), "", v, ci, na, da, d, gi)
  BY FilledSet, Zenon DEF Built
<1>4. CASE m = 0 /\ p = Before(Built("", "", "", 0, <<>>, <<>>))
  <2>1. m + 1 = 1
    <3>1. m = 0
      BY <1>4, Zenon
    <3> QED
      BY <3>1
  <2>2. r[1] = Line("user", u)
    BY Zenon DEF Laid
  <2>3. [Built("", "", "", 0, <<>>, <<>>) EXCEPT !["user"] = BodyValue(u)]
          = Built(BodyValue(u), "", "", 0, <<>>, <<>>)
    <3>1. Fills(Built("", "", "", 0, <<>>, <<>>), "", "", "", "", 0, <<>>, <<>>)
      BY <1>3, Zenon
    <3> QED
      BY <3>1, Zenon DEF Fills, Built
  <2>4. BodyLine(p, r[1]) = Before(Built(BodyValue(u), "", "", 0, <<>>, <<>>))
    <3>1. BuildsFields(Built("", "", "", 0, <<>>, <<>>), u, e.date_time)
      BY <1>1, Zenon
    <3> QED
      BY <1>4, <2>2, <2>3, <3>1, Zenon DEF BuildsFields
  <2> QED
    BY <2>1, <2>4, Zenon DEF Building
<1>5. CASE m = 1 /\ p = Before(Built(BodyValue(u), "", "", 0, <<>>, <<>>))
  <2>1. m + 1 = 2
    <3>1. m = 1
      BY <1>5, Zenon
    <3> QED
      BY <3>1
  <2>2. r[2] = Line("city", e.city)
    BY Zenon DEF Laid
  <2>3. [Built(BodyValue(u), "", "", 0, <<>>, <<>>) EXCEPT !["city"] = BodyValue(e.city)]
          = Built(BodyValue(u), BodyValue(e.city), "", 0, <<>>, <<>>)
    <3>1. Fills(Built(BodyValue(u), "", "", 0, <<>>, <<>>), "", BodyValue(u), "", "", 0, <<>>, <<>>)
      BY <1>3, Zenon
    <3> QED
      BY <3>1, Zenon DEF Fills, Built
  <2>4. BodyLine(p, r[2]) = Before(Built(BodyValue(u), BodyValue(e.city), "", 0, <<>>, <<>>))
    <3>1. BuildsFields(Built(BodyValue(u), "", "", 0, <<>>, <<>>), e.city, e.date_time)
      BY <1>1, Zenon
    <3> QED
      BY <1>5, <2>2, <2>3, <3>1, Zenon DEF BuildsFields
  <2> QED
    BY <2>1, <2>4, Zenon DEF Building
<1>6. CASE m = 2 /\ p = Before(Built(BodyValue(u), BodyValue(e.city), "", 0, <<>>, <<>>))
  <2>1. m + 1 = 3
    <3>1. m = 2
      BY <1>6, Zenon
    <3> QED
      BY <3>1
  <2>2. r[3] = Line("event name", e.name)
    BY Zenon DEF Laid
  <2>3. [Built(BodyValue(u), BodyValue(e.city), "", 0, <<>>, <<>>) EXCEPT !["name"] = BodyValue(e.name)]
          = Built(BodyValue(u), BodyValue(e.city), BodyValue(e.name), 0, <<>>, <<>>)
    <3>1. Fills(Built(BodyValue(u), BodyValue(e.city), "", 0, <<>>, <<>>),
          "", BodyValue(u), BodyValue(e.city), "", 0, <<>>, <<>>)
      BY <1>3, Zenon
    <3> QED
      BY <3>1, Zenon DEF Fills, Built
  <2>4. BodyLine(p, r[3]) = Before(Built(BodyValue(u), BodyValue(e.city), BodyValue(e.name), 0, <<>>, <<>>))
    <3>1. BuildsFields(Built(BodyValue(u), BodyValue(e.city), "", 0, <<>>, <<>>), e.name, e.date_time)
      BY <1>1, Zenon
    <3> QED
      BY <1>6, <2>2, <2>3, <3>1, Zenon DEF BuildsFields
  <2> QED
    BY <2>1, <2>4, Zenon DEF Building
<1>7. CASE m = 3 /\ p = Before(Built(BodyValue(u), BodyValue(e.city), BodyValue(e.name), 0, <<>>, <<>>))
  <2>1. m + 1 = 4
    <3>1. m = 3
      BY <1>7, Zenon
    <3> QED
      BY <3>1
  <2>2. r[4] = Line("date time", Decimal[e.date_time])
    BY Zenon DEF Laid
  <2>3. [Built(BodyValue(u), BodyValue(e.city), BodyValue(e.name), 0, <<>>, <<>>)
        EXCEPT !["date_time"] = e.date_time]
          = Built(BodyValue(u), BodyValue(e.city), BodyValue(e.name), e.date_time, <<>>, <<>>)
    <3>1. Fills(Built(BodyValue(u), BodyValue(e.city), BodyValue(e.name), 0, <<>>, <<>>),
          "", BodyValue(u), BodyValue(e.city), BodyValue(e.name), 0, <<>>, <<>>)
      BY <1>3, Zenon
    <3> QED
      BY <3>1, Zenon DEF Fills, Built
  <2>4. BodyLine(p, r[4]) = Before(Built(BodyValue(u), BodyValue(e.city), BodyValue(e.name), e.date_time, <<>>, <<>>))
    <3>1. BuildsFields(Built(BodyValue(u), BodyValue(e.city), BodyValue(e.name), 0, <<>>, <<>>), e.name, e.date_time)
      BY <1>1, Zenon
    <3> QED
      BY <1>7, <2>2, <2>3, <3>1, Zenon DEF BuildsFields
  <2> QED
    BY <2>1, <2>4, Zenon DEF Building
<1>8. CASE m = 4 /\ p = Before(Built(BodyValue(u), BodyValue(e.city), BodyValue(e.name), e.date_time, <<>>, <<>>))
  <2>1. m + 1 = 5 /\ 5 <= m + 1 /\ m + 1 <= 5 + n
    BY <1>8
  <2>2. r[5] = Line("general information", "")
    BY Zenon DEF Laid
  <2>3. BodyLine(p, r[5])
        = Inside(Built(BodyValue(u), BodyValue(e.city), BodyValue(e.name), e.date_time, <<>>, <<>>))
    BY <1>1, <1>8, <2>2, Zenon DEF BuildsFields
  <2>4. BodyLine(p, r[m + 1])
        = Inside(Built(BodyValue(u), BodyValue(e.city), BodyValue(e.name), e.date_time, <<>>, <<>>))
    BY <2>1, <2>3, Zenon
  <2> QED
    BY <2>1, <2>4, Zenon DEF Building
<1>9. ASSUME NEW gi, 5 <= m, m < 5 + n,
      p = Inside(Built(BodyValue(u), BodyValue(e.city), BodyValue(e.name), e.date_time, <<>>, gi))
      PROVE  Building(u, e, n, m + 1, BodyLine(p, r[m + 1]))
  <2>1. PICK i \in 1..n : 5 + i = m + 1
    <3>1. m - 4 \in 1..n /\ 5 + (m - 4) = m + 1
      BY <1>9
    <3> QED
      BY <3>1
  <2>2. PICK l : l = r[m + 1] /\ l = InfoLines(e)[i]
    BY <2>1, Zenon DEF Laid
  <2>3. l.key \notin FieldKeys \cup {NoKey}
    <3>1. InfoLayout(e)
      BY InfoLaidOut, Zenon
    <3>2. PICK x \in DOMAIN e.general_information : InfoAt(e, x, l)
      <4>1. \E x \in DOMAIN e.general_information : InfoAt(e, x, InfoLines(e)[i])
        BY <2>1, <3>1, Zenon DEF InfoLayout
      <4> QED
        BY <2>2, <4>1, Zenon
    <3>3. l.key = Tabbed(x)
      <4>1. l = Line(Tabbed(x), Spaced(e.general_information[x]))
        BY <3>2, Zenon DEF InfoAt
      <4> QED
        BY <4>1 DEF Line
    <3> QED
      BY <3>2, <3>3, StringsAssumption
  <2>4. PICK g : BodyLine(p, l)
        = Inside([Built(BodyValue(u), BodyValue(e.city), BodyValue(e.name), e.date_time, <<>>, gi)
                                            EXCEPT !["general_information"] = g])
    BY <1>2, <1>9, <2>3, Zenon DEF BuildsRest
  <2>5. [Built(BodyValue(u), BodyValue(e.city), BodyValue(e.name), e.date_time, <<>>, gi)
        EXCEPT !["general_information"] = g]
          = Built(BodyValue(u), BodyValue(e.city), BodyValue(e.name), e.date_time, <<>>, g)
    <3>1. Fills(Built(BodyValue(u), BodyValue(e.city), BodyValue(e.name), e.date_time, <<>>, gi),
          "", BodyValue(u), BodyValue(e.city), BodyValue(e.name), e.date_time, <<>>, gi)
      BY <1>3, Zenon
    <3> QED
      BY <3>1, Zenon DEF Fills, Built
  <2>6. BodyLine(p, r[m + 1])
        = Inside(Built(BodyValue(u), BodyValue(e.city), BodyValue(e.name), e.date_time, <<>>, g))
    BY <2>2, <2>4, <2>5, Zenon
  <2>7. 5 <= m + 1 /\ m + 1 <= 5 + n
    BY <1>9
  <2> QED
    BY <2>6, <2>7, Zenon DEF Building
<1>10. ASSUME NEW gi, m = 5 + n,
      p = Inside(Built(BodyValue(u), BodyValue(e.city), BodyValue(e.name), e.date_time, <<>>, gi))
       PROVE  Building(u, e, n, m + 1, BodyLine(p, r[m + 1]))
  <2>1. 6 + n = m + 1 /\ 6 + n <= m + 1 /\ (m + 1) - 6 - n = 0
    BY <1>10
  <2>2. r[6 + n] = Line("description", "")
    BY Zenon DEF Laid
  <2>3. PICK l : l = r[m + 1] /\ l = Line("description", "")
    BY <2>1, <2>2, Zenon
  <2>4. l.key = "description"
    <3>1. Line("description", "").key = "description"
      BY LineParts, Zenon
    <3> QED
      BY <2>3, <3>1, Zenon
  <2>5. PICK g : BodyLine(p, l)
        = Below([Built(BodyValue(u), BodyValue(e.city), BodyValue(e.name), e.date_time, <<>>, gi)
                                           EXCEPT !["general_information"] = g])
    BY <1>2, <1>10, <2>4, Zenon DEF BuildsRest
  <2>6. [Built(BodyValue(u), BodyValue(e.city), BodyValue(e.name), e.date_time, <<>>, gi)
        EXCEPT !["general_information"] = g]
          = Built(BodyValue(u), BodyValue(e.city), BodyValue(e.name), e.date_time, <<>>, g)
    <3>1. Fills(Built(BodyValue(u), BodyValue(e.city), BodyValue(e.name), e.date_time, <<>>, gi),
          "", BodyValue(u), BodyValue(e.city), BodyValue(e.name), e.date_time, <<>>, gi)
      BY <1>3, Zenon
    <3> QED
      BY <3>1, Zenon DEF Fills, Built
  <2>7. BodyLine(p, r[m + 1])
        = Below(Built(BodyValue(u), BodyValue(e.city), BodyValue(e.name), e.date_time, <<>>, g))
    BY <2>3, <2>5, <2>6, Zenon
  <2>8. <<>> = SubSeq(Text(e), 1, (m + 1) - 6 - n)
    BY <2>1, SubSeqEmpty
  <2> QED
    BY <2>1, <2>7, <2>8, Zenon DEF Building
<1>11. ASSUME NEW gi, NEW d, 6 + n <= m, d = SubSeq(Text(e), 1, m - 6 - n),
              p = Below(Built(BodyValue(u), BodyValue(e.city), BodyValue(e.name), e.date_time, d, gi))
       PROVE  Building(u, e, n, m + 1, BodyLine(p, r[m + 1]))
  <2>1. PICK k \in Nat : /\ k = m - 6 - n /\ k < Len(Text(e)) /\ k + 1 \in 1..Len(Text(e))
                         /\ 6 + n + (k + 1) = m + 1 /\ (m + 1) - 6 - n = k + 1
    <3>1. Len(Text(e)) \in Nat /\ Len(r) = 6 + n + Len(Text(e))
      BY Zenon DEF Laid
    <3>2. m - 6 - n \in Nat /\ m - 6 - n < Len(Text(e))
      BY <1>11, <3>1
    <3> QED
      BY <3>1, <3>2
  <2>2. PICK l : l = r[m + 1] /\ l = Text(e)[k + 1]
    BY <2>1, Zenon DEF Laid
  <2>3. PICK c : c = Append(d, l)
    OBVIOUS
  <2>4. c = SubSeq(Text(e), 1, k + 1)
    BY <1>11, <2>1, <2>2, <2>3, PrefixGrows
  <2>5. BodyLine(p, l) = Below([Built(BodyValue(u), BodyValue(e.city), BodyValue(e.name), e.date_time, d, gi)
        EXCEPT !["description"] = c])
    <3>1. Built(BodyValue(u), BodyValue(e.city), BodyValue(e.name), e.date_time, d, gi).description = d
      <4>1. Fills(Built(BodyValue(u), BodyValue(e.city), BodyValue(e.name), e.date_time, d, gi),
            "", BodyValue(u), BodyValue(e.city), BodyValue(e.name), e.date_time, d, gi)
        BY <1>3, Zenon
      <4> QED
        BY <4>1, Zenon DEF Fills
    <3>2. BuildsRest(Built(BodyValue(u), BodyValue(e.city), BodyValue(e.name), e.date_time, d, gi), l)
      BY <1>2, Zenon
    <3> QED
      BY <1>11, <2>3, <3>1, <3>2, Zenon DEF BuildsRest
  <2>6. [Built(BodyValue(u), BodyValue(e.city), BodyValue(e.name), e.date_time, d, gi)
        EXCEPT !["description"] = c]
          = Built(BodyValue(u), BodyValue(e.city), BodyValue(e.name), e.date_time, c, gi)
    <3>1. Fills(Built(BodyValue(u), BodyValue(e.city), BodyValue(e.name), e.date_time, d, gi),
          "", BodyValue(u), BodyValue(e.city), BodyValue(e.name), e.date_time, d, gi)
      BY <1>3, Zenon
    <3> QED
      BY <3>1, Zenon DEF Fills, Built
  <2>7. BodyLine(p, r[m + 1])
        = Below(Built(BodyValue(u), BodyValue(e.city), BodyValue(e.name), e.date_time, c, gi))
    BY <2>2, <2>5, <2>6, Zenon
  <2>8. c = SubSeq(Text(e), 1, (m + 1) - 6 - n)
    BY <2>1, <2>4
  <2>9. 6 + n <= m + 1
    BY <1>11
  <2> QED
    BY <2>7, <2>8, <2>9, Zenon DEF Building
<1>12. m <= 5 + n => m < 5 + n \/ m = 5 + n
  OBVIOUS
<1> QED
  BY <1>4, <1>5, <1>6, <1>7, <1>8, <1>9, <1>10, <1>11, <1>12, Zenon DEF Building

-----------------------------------------------------------------------------
(* Induction over sets of numbers *)

LEMMA LeastMember ==
  ASSUME NEW T, T \subseteq Nat, T # {}
  PROVE  \E m \in T : \A n \in T : m <= n
<1>1. PICK m \in T : \A n \in T : <<n, m>> \notin OpToRel(<, Nat)
  BY WFMin, NatLessThanWellFounded, Zenon
<1>2. \A n \in T : ~(n < m)
  BY <1>1, Zenon DEF OpToRel
<1>3. \A n \in T : n \in Nat
  OBVIOUS
<1> QED
  BY <1>2, <1>3

LEMMA SetInduction ==
  ASSUME NEW S, 0 \in S, \A n \in Nat : n \in S => n + 1 \in S
  PROVE  Nat \subseteq S
<1> SUFFICES ASSUME Nat \ S # {} PROVE FALSE
  OBVIOUS
<1>1. PICK m \in Nat \ S : \A n \in Nat \ S : m <= n
  BY LeastMember
<1>2. m - 1 \in Nat /\ m - 1 \notin Nat \ S
  BY <1>1
<1> QED
  BY <1>1, <1>2

\* The function that EventOfBody is defined by, up to a length.
Reading(r, k, g) ==
  g = [n \in 0..k |-> IF n = 0 THEN Parser ELSE BodyLine(g[n - 1], r[n])]

ReadsOn(r, k, g) ==
  /\ DOMAIN g = 0..k /\ g[0] = Parser
  /\ \A n \in 0..k : n < k => g[n + 1] = BodyLine(g[n], r[n + 1])

LEMMA ReadingIs ==
  ASSUME NEW r, NEW k \in Nat, NEW g
  PROVE  /\ Reading(r, k, g) => ReadsOn(r, k, g)
         /\ g = [n \in 0..k |-> g[n]] /\ ReadsOn(r, k, g) => Reading(r, k, g)
<1>1. ASSUME Reading(r, k, g) PROVE ReadsOn(r, k, g)
  <2>1. PICK h : h = [n \in 0..k |-> IF n = 0 THEN Parser ELSE BodyLine(g[n - 1], r[n])] /\ g = h
    BY <1>1 DEF Reading
  <2>2. DOMAIN g = 0..k /\ g[0] = Parser
    BY <2>1
  <2>3. ASSUME NEW n \in 0..k, n < k PROVE g[n + 1] = BodyLine(g[n], r[n + 1])
    <3>1. PICK m \in 0..k : m = n + 1 /\ m # 0 /\ m - 1 = n
      BY <2>3
    <3>2. h[m] = BodyLine(g[m - 1], r[m])
      BY <2>1, <3>1
    <3> QED
      BY <2>1, <3>1, <3>2
  <2> QED
    BY <2>2, <2>3 DEF ReadsOn
<1>2. ASSUME g = [n \in 0..k |-> g[n]], ReadsOn(r, k, g) PROVE Reading(r, k, g)
  <2>1. PICK h : h = [n \in 0..k |-> IF n = 0 THEN Parser ELSE BodyLine(g[n - 1], r[n])]
    OBVIOUS
  <2>2. ASSUME NEW n \in 0..k PROVE h[n] = g[n]
    <3>1. CASE n = 0
      BY <1>2, <2>1, <3>1 DEF ReadsOn
    <3>2. CASE n # 0
      <4>1. PICK m \in 0..k : m = n - 1 /\ m < k /\ m + 1 = n
        BY <3>2
      <4>2. g[m + 1] = BodyLine(g[m], r[m + 1])
        BY <1>2, <4>1 DEF ReadsOn
      <4>3. h[n] = BodyLine(g[n - 1], r[n])
        BY <2>1, <3>2
      <4> QED
        BY <4>1, <4>2, <4>3
    <3> QED
      BY <3>1, <3>2
  <2>3. h = g
    BY <1>2, <2>1, <2>2
  <2> QED
    BY <2>1, <2>3, Zenon DEF Reading
<1> QED
  BY <1>1, <1>2

LEMMA ReadingExists ==
  ASSUME NEW r
  PROVE  \A k \in Nat : \E g : Reading(r, k, g)
<1> DEFINE S == {k \in Nat : \E g : g = [n \in 0..k |-> g[n]] /\ ReadsOn(r, k, g)}
<1>1. 0 \in S
  <2>1. PICK g : g = [n \in 0..0 |-> Parser]
    OBVIOUS
  <2>2. /\ DOMAIN g = 0..0 /\ g[0] = Parser /\ g = [n \in 0..0 |-> g[n]]
        /\ \A n \in 0..0 : ~(n < 0)
    BY <2>1
  <2>3. ReadsOn(r, 0, g)
    BY <2>2, Zenon DEF ReadsOn
  <2> QED
    BY <2>2, <2>3
<1>2. ASSUME NEW k \in Nat, k \in S PROVE k + 1 \in S
  <2>1. PICK g : ReadsOn(r, k, g)
    BY <1>2
  <2>2. PICK x : x = BodyLine(g[k], r[k + 1])
    OBVIOUS
  <2>3. PICK h : h = [n \in 0..(k + 1) |-> IF n = k + 1 THEN x ELSE g[n]]
    OBVIOUS
  <2>4. /\ DOMAIN h = 0..(k + 1) /\ h[k + 1] = x /\ \A n \in 0..k : h[n] = g[n]
        /\ h = [n \in 0..(k + 1) |-> h[n]]
    BY <2>3
  <2>5. h[0] = Parser
    <3>1. g[0] = Parser
      BY <2>1, Zenon DEF ReadsOn
    <3>2. h[0] = g[0]
      BY <2>4
    <3> QED
      BY <3>1, <3>2, Zenon
  <2>6. ASSUME NEW n \in 0..(k + 1), n < k + 1 PROVE h[n + 1] = BodyLine(h[n], r[n + 1])
    <3>1. n \in 0..k /\ h[n] = g[n]
      BY <2>4, <2>6
    <3>2. CASE n < k
      <4>1. n + 1 \in 0..k /\ g[n + 1] = BodyLine(g[n], r[n + 1])
        BY <2>1, <3>1, <3>2 DEF ReadsOn
      <4> QED
        BY <2>4, <3>1, <4>1
    <3>3. CASE n = k
      BY <2>2, <2>4, <3>1, <3>3
    <3> QED
      BY <3>1, <3>2, <3>3
  <2>7. ReadsOn(r, k + 1, h)
    BY <2>4, <2>5, <2>6 DEF ReadsOn
  <2> QED
    BY <2>4, <2>7
<1>3. Nat \subseteq S
  <2> HIDE DEF S
  <2> QED
    BY <1>1, <1>2, SetInduction
<1>4. ASSUME NEW k \in Nat PROVE \E g : Reading(r, k, g)
  <2>1. PICK g : g = [n \in 0..k |-> g[n]] /\ ReadsOn(r, k, g)
    BY <1>3
  <2> QED
    BY <2>1, ReadingIs, Zenon
<1> QED
  BY <1>4

\* What the constructor makes of a whole body.
LEMMA BuildAll ==
  ASSUME NEW u, NEW e, e.date_time \in Dates, DOMAIN e.general_information \subseteq InfoKeys,
         NEW S, Text(e) \in Seq(S), NEW r, Laid(u, e, r)
  PROVE  \E gi : EventOfBody(r)
        = Below(Built(BodyValue(u), BodyValue(e.city), BodyValue(e.name), e.date_time, Text(e), gi))
<1>1. PICK n \in Nat, k \in Nat : n = Len(InfoLines(e)) /\ k = Len(r) /\ k = 6 + n + Len(Text(e))
  <2>1. /\ Len(InfoLines(e)) \in Nat /\ Len(Text(e)) \in Nat
        /\ Len(r) = 6 + Len(InfoLines(e)) + Len(Text(e))
    BY Zenon DEF Laid
  <2> QED
    BY <2>1
<1>2. PICK g : g = CHOOSE x : Reading(r, k, x)
  OBVIOUS
<1>3. Reading(r, k, g)
  BY <1>2, ReadingExists, Zenon
<1>4. EventOfBody(r) = g[k]
  BY <1>1, <1>2, Zenon DEF EventOfBody, Reading
<1>5. ReadsOn(r, k, g)
  BY <1>3, ReadingIs, Zenon
<1> DEFINE T == {m \in Nat : m <= k => Building(u, e, n, m, g[m])}
<1>6. 0 \in T
  <2>1. Fields = Built("", "", "", 0, <<>>, <<>>)
    BY DEF Fields, Filled, Built
  <2>2. Parser = Before(Fields)
    BY Zenon DEF Parser, Before, At, Reads
  <2>3. g[0] = Before(Built("", "", "", 0, <<>>, <<>>))
    BY <1>5, <2>1, <2>2, Zenon DEF ReadsOn
  <2>4. Building(u, e, n, 0, g[0])
    BY <2>3, Zenon DEF Building
  <2> QED
    BY <2>4
<1>7. ASSUME NEW m \in Nat, m \in T PROVE m + 1 \in T
  <2> SUFFICES ASSUME m + 1 <= k PROVE Building(u, e, n, m + 1, g[m + 1])
    OBVIOUS
  <2>1. m < Len(r) /\ m \in 0..k /\ m < k /\ m <= k
    BY <1>1
  <2>2. Building(u, e, n, m, g[m])
    BY <1>7, <2>1
  <2>3. g[m + 1] = BodyLine(g[m], r[m + 1])
    BY <1>5, <2>1, Zenon DEF ReadsOn
  <2>4. Building(u, e, n, m + 1, BodyLine(g[m], r[m + 1]))
    BY <1>1, <2>1, <2>2, BuildStep, Zenon
  <2> QED
    BY <2>3, <2>4, Zenon
<1>8. Building(u, e, n, k, g[k])
  <2> HIDE DEF T
  <2>1. Nat \subseteq T
    BY <1>6, <1>7, SetInduction
  <2> QED
    BY <2>1 DEF T
<1>9. k # 0 /\ k # 1 /\ k # 2 /\ k # 3 /\ k # 4 /\ ~(k <= 5 + n) /\ k - 6 - n = Len(Text(e))
  <2>1. Len(Text(e)) \in Nat
    BY LenProperties
  <2> QED
    BY <1>1, <2>1
<1>10. PICK gi, d : /\ d = SubSeq(Text(e), 1, k - 6 - n)
                    /\ g[k] = Below(Built(BodyValue(u), BodyValue(e.city), BodyValue(e.name), e.date_time, d, gi))
  BY <1>8, <1>9, Zenon DEF Building
<1>11. d = Text(e)
  BY <1>9, <1>10, SubSeqFull
<1> QED
  BY <1>4, <1>10, <1>11, Zenon

LEMMA RemarkedParts ==
  ASSUME NEW j, NEW e, e = EventFromJson(j), NEW rm, NEW x, x = Remarked(e, rm)
  PROVE  /\ x.city = e.city /\ x.name = e.name /\ x.date_time = e.date_time
         /\ x.description = <<rm>> \o e.description
         /\ x.general_information = e.general_information
BY DEF Remarked, EventFromJson

ReadsBack(f, u, e, rm) ==
  /\ ReadBack(f.user, u) /\ ReadBack(f.city, e.city) /\ ReadBack(f.name, e.name)
  /\ f.date_time = e.date_time
  /\ f.description = <<rm>> \o e.description \o <<Prose(0)>>

LEMMA BodyReads == \A v : ReadBack(BodyValue(v), v)
BY Zenon DEF ReadBack, BodyValue

\* Event(frame_body) reads every report back with the lines that its description
\* has, also one that looks like a field: after "description:" it takes no line
\* for anything else.  Its date is read back, and its user, its city and its
\* name are when they have no ':'; split_str drops one that has.
THEOREM ConstructorReadsHolds == Spec => []ConstructorReads
<1>1. Reporting /\ Relaying => ConstructorReads
  <2> SUFFICES ASSUME Reporting, Relaying, NEW u \in User, NEW e \in SentBy(u), NEW rm \in Remarks
               PROVE  ReadsBack(EventOfBody(Body(u, Remarked(e, rm)) \o <<Prose(0)>>).fields, u, e, rm)
    BY Zenon DEF ConstructorReads, ReadsBack
  <2>1. PICK f : f = EventOfBody(Body(u, Remarked(e, rm)) \o <<Prose(0)>>).fields
    OBVIOUS
  <2>2. PICK i \in 1..sent[u] : e = events[u][i]
    BY DEF SentBy
  <2>3. i \in Nat /\ 1 <= i /\ i < next[u]
    <3>1. next[u] \in Nat /\ sent[u] \in Nat /\ sent[u] < next[u]
      BY DEF Reporting, Relaying
    <3> QED
      BY <2>2, <3>1
  <2>4. Reportable(e)
    BY <2>3, <2>2, EventsReportable
  <2>5. PICK S : e.description \in Seq(S)
    BY <2>4 DEF Reportable
  <2>6. PICK d : d = <<rm>> \o e.description /\ d \in Seq({rm} \cup S)
    <3>1. <<rm>> \in Seq({rm})
      OBVIOUS
    <3> QED
      BY <2>5, <3>1, Joined
  <2>7. PICK x : x = Remarked(e, rm)
    OBVIOUS
  <2>8. /\ x.city = e.city /\ x.name = e.name /\ x.date_time = e.date_time /\ x.description = d
        /\ x.general_information = e.general_information
    <3>1. PICK j : e = EventFromJson(j)
      BY <2>3, <2>2, EventSent, Zenon
    <3>2. /\ x.city = e.city /\ x.name = e.name /\ x.date_time = e.date_time
          /\ x.description = <<rm>> \o e.description
          /\ x.general_information = e.general_information
      BY <2>7, <3>1, RemarkedParts, ZenonT(60)
    <3> QED
      BY <2>6, <3>2, Zenon
  <2>9. x.date_time \in Dates /\ DOMAIN x.general_information \subseteq InfoKeys
    BY <2>4, <2>8 DEF Reportable
  <2>10. PICK r : r = Body(u, x) \o <<Prose(0)>>
    OBVIOUS
  <2>11. Laid(u, x, r)
    BY <2>6, <2>8, <2>9, <2>10, BodyLaidOut
  <2>12. Text(x) = d \o <<Prose(0)>> /\ \E Z : Text(x) \in Seq(Z)
    <3>1. PICK Z : Z = {rm} \cup S \cup {Prose(0)}
      OBVIOUS
    <3>2. d \in Seq(Z) /\ Prose(0) \in Z
      BY <2>6, <3>1, SeqMonotonic
    <3>3. Append(d, Prose(0)) \in Seq(Z) /\ Append(d, Prose(0)) = d \o <<Prose(0)>>
      BY <3>2, AppendProperties, AppendIsConcat
    <3> QED
      BY <2>8, <3>3 DEF Text
  <2>13. PICK gi : EventOfBody(r) = 
        Below(Built(BodyValue(u), BodyValue(x.city), BodyValue(x.name), x.date_time, Text(x), gi))
    BY <2>9, <2>11, <2>12, BuildAll, Zenon
  <2>14. f = Built(BodyValue(u), BodyValue(x.city), BodyValue(x.name), x.date_time, Text(x), gi)
    <3>1. ASSUME NEW h PROVE Below(h).fields = h
      <4>1. Settable(h, TRUE, TRUE)
        BY SetAt, Zenon
      <4> QED
        BY <4>1, Zenon DEF Settable, Below
    <3>2. f = EventOfBody(r).fields
      BY <2>7, <2>10, <2>1, Zenon
    <3> QED
      BY <2>13, <3>1, <3>2, Zenon
  <2>15. PICK t : t = Text(x)
    OBVIOUS
  <2>16. /\ f.user = BodyValue(u) /\ f.city = BodyValue(x.city) /\ f.name = BodyValue(x.name)
         /\ f.date_time = x.date_time /\ f.description = t
    <3>1. f = Filled("", BodyValue(u), BodyValue(x.city), BodyValue(x.name), x.date_time, t, gi)
      BY <2>14, <2>15, Zenon DEF Built
    <3>2. PICK w, a, b, c, z : w = BodyValue(u) /\ a = BodyValue(x.city) /\ b = BodyValue(x.name) /\ c = x.date_time /\ z = ""
      BY Zenon
    <3>3. f = Filled(z, w, a, b, c, t, gi)
      BY <3>1, <3>2, Zenon
    <3>4. f.user = w /\ f.city = a /\ f.name = b /\ f.date_time = c /\ f.description = t
      BY <3>3 DEF Filled
    <3> QED
      BY <3>2, <3>4, Zenon
  <2>17. t = <<rm>> \o e.description \o <<Prose(0)>>
    BY <2>6, <2>12, <2>15, Zenon
  <2> QED
    BY <2>8, <2>16, <2>17, <2>1, BodyReads, Zenon DEF ReadsBack
<1>2. Reporting /\ Relaying /\ [Next]_vars => Reporting' /\ Relaying'
  BY ReportingNext, RelayingNext
<1> QED
  BY <1>1, <1>2, ReportingInit, RelayingInit, PTL DEF Spec

-----------------------------------------------------------------------------
(* Sums *)

\* The function that SumOf is defined by, up to a length.
Summing(s, k, g) == g = [n \in 0..k |-> IF n = 0 THEN 0 ELSE g[n - 1] + s[n]]

SumsTo(s, k, g) ==
  /\ DOMAIN g = 0..k /\ g[0] = 0
  /\ \A n \in 0..k : n < k => g[n + 1] = g[n] + s[n + 1]

LEMMA SummingIs ==
  ASSUME NEW s, NEW k \in Nat, NEW g
  PROVE  /\ Summing(s, k, g) => SumsTo(s, k, g)
         /\ g = [n \in 0..k |-> g[n]] /\ SumsTo(s, k, g) => Summing(s, k, g)
<1>1. ASSUME Summing(s, k, g) PROVE SumsTo(s, k, g)
  <2>1. PICK h : h = [n \in 0..k |-> IF n = 0 THEN 0 ELSE g[n - 1] + s[n]] /\ g = h
    BY <1>1 DEF Summing
  <2>2. DOMAIN g = 0..k /\ g[0] = 0
    BY <2>1
  <2>3. ASSUME NEW n \in 0..k, n < k PROVE g[n + 1] = g[n] + s[n + 1]
    <3>1. PICK m \in 0..k : m = n + 1 /\ m # 0 /\ m - 1 = n
      BY <2>3
    <3>2. h[m] = g[m - 1] + s[m]
      BY <2>1, <3>1
    <3> QED
      BY <2>1, <3>1, <3>2
  <2> QED
    BY <2>2, <2>3 DEF SumsTo
<1>2. ASSUME g = [n \in 0..k |-> g[n]], SumsTo(s, k, g) PROVE Summing(s, k, g)
  <2>1. PICK h : h = [n \in 0..k |-> IF n = 0 THEN 0 ELSE g[n - 1] + s[n]]
    OBVIOUS
  <2>2. ASSUME NEW n \in 0..k PROVE h[n] = g[n]
    <3>1. CASE n = 0
      BY <1>2, <2>1, <3>1 DEF SumsTo
    <3>2. CASE n # 0
      <4>1. PICK m \in 0..k : m = n - 1 /\ m < k /\ m + 1 = n
        BY <3>2
      <4>2. g[m + 1] = g[m] + s[m + 1]
        BY <1>2, <4>1 DEF SumsTo
      <4>3. h[n] = g[n - 1] + s[n]
        BY <2>1, <3>2
      <4> QED
        BY <4>1, <4>2, <4>3
    <3> QED
      BY <3>1, <3>2
  <2>3. h = g
    BY <1>2, <2>1, <2>2
  <2> QED
    BY <2>1, <2>3, Zenon DEF Summing
<1> QED
  BY <1>1, <1>2

LEMMA SummingExists ==
  ASSUME NEW s
  PROVE  \A k \in Nat : \E g : Summing(s, k, g)
<1> DEFINE S == {k \in Nat : \E g : g = [n \in 0..k |-> g[n]] /\ SumsTo(s, k, g)}
<1>1. 0 \in S
  <2>1. PICK g : g = [n \in 0..0 |-> 0]
    OBVIOUS
  <2>2. /\ DOMAIN g = 0..0 /\ g[0] = 0 /\ g = [n \in 0..0 |-> g[n]]
        /\ \A n \in 0..0 : ~(n < 0)
    BY <2>1
  <2>3. SumsTo(s, 0, g)
    BY <2>2, Zenon DEF SumsTo
  <2> QED
    BY <2>2, <2>3
<1>2. ASSUME NEW k \in Nat, k \in S PROVE k + 1 \in S
  <2>1. PICK g : SumsTo(s, k, g)
    BY <1>2
  <2>2. PICK x : x = g[k] + s[k + 1]
    OBVIOUS
  <2>3. PICK h : h = [n \in 0..(k + 1) |-> IF n = k + 1 THEN x ELSE g[n]]
    OBVIOUS
  <2>4. /\ DOMAIN h = 0..(k + 1) /\ h[k + 1] = x /\ \A n \in 0..k : h[n] = g[n]
        /\ h = [n \in 0..(k + 1) |-> h[n]]
    BY <2>3
  <2>5. h[0] = 0
    <3>1. g[0] = 0
      BY <2>1, Zenon DEF SumsTo
    <3>2. 0 \in 0..k
      OBVIOUS
    <3> QED
      BY <2>4, <3>1, <3>2
  <2>6. ASSUME NEW n \in 0..(k + 1), n < k + 1 PROVE h[n + 1] = h[n] + s[n + 1]
    <3>1. n \in 0..k /\ h[n] = g[n]
      BY <2>4, <2>6
    <3>2. CASE n < k
      <4>1. n + 1 \in 0..k /\ g[n + 1] = g[n] + s[n + 1]
        BY <2>1, <3>1, <3>2 DEF SumsTo
      <4> QED
        BY <2>4, <3>1, <4>1
    <3>3. CASE n = k
      BY <2>2, <2>4, <3>1, <3>3
    <3> QED
      BY <3>1, <3>2, <3>3
  <2>7. SumsTo(s, k + 1, h)
    BY <2>4, <2>5, <2>6 DEF SumsTo
  <2> QED
    BY <2>4, <2>7
<1>3. Nat \subseteq S
  <2> HIDE DEF S
  <2> QED
    BY <1>1, <1>2, SetInduction
<1>4. ASSUME NEW k \in Nat PROVE \E g : Summing(s, k, g)
  <2>1. PICK g : g = [n \in 0..k |-> g[n]] /\ SumsTo(s, k, g)
    BY <1>3
  <2> QED
    BY <2>1, SummingIs, Zenon
<1> QED
  BY <1>4

LEMMA SumIs ==
  ASSUME NEW s, NEW k \in Nat, k = Len(s)
  PROVE  \E g : SumsTo(s, k, g) /\ SumOf(s) = g[k]
<1>1. PICK g : g = CHOOSE x : Summing(s, k, x)
  OBVIOUS
<1>2. Summing(s, k, g)
  BY <1>1, SummingExists, Zenon
<1>3. SumOf(s) = g[k]
  BY <1>1, Zenon DEF SumOf, Summing
<1>4. SumsTo(s, k, g)
  BY <1>2, SummingIs, Zenon
<1> QED
  BY <1>3, <1>4, Zenon

\* A sum of zeros and ones counts the ones.
LEMMA SumCounts ==
  ASSUME NEW s, NEW k \in Nat, k = Len(s), \A i \in 1..k : s[i] = 0 \/ s[i] = 1
  PROVE  SumOf(s) = Cardinality({i \in 1..k : s[i] = 1})
<1> DEFINE Ones(m) == {i \in 1..m : s[i] = 1}
<1>1. PICK g : SumsTo(s, k, g) /\ SumOf(s) = g[k]
  BY SumIs
<1>2. \A m \in Nat : IsFiniteSet(Ones(m)) /\ Cardinality(Ones(m)) \in Nat
  <2> TAKE m \in Nat
  <2>1. IsFiniteSet(1..m)
    BY FS_Interval
  <2>2. IsFiniteSet(Ones(m))
    BY <2>1, FS_Subset
  <2> QED
    BY <2>2, FS_CardinalityType
<1> DEFINE S == {m \in Nat : m <= k => g[m] = Cardinality(Ones(m))}
<1>3. 0 \in S
  <2>1. Ones(0) = {}
    OBVIOUS
  <2>2. g[0] = 0
    BY <1>1 DEF SumsTo
  <2>3. g[0] = Cardinality(Ones(0))
    BY <2>1, <2>2, FS_EmptySet
  <2> QED
    BY <2>3
<1>4. ASSUME NEW m \in Nat, m \in S PROVE m + 1 \in S
  <2> SUFFICES ASSUME m + 1 <= k PROVE g[m + 1] = Cardinality(Ones(m + 1))
    OBVIOUS
  <2>1. m \in 0..k /\ m < k /\ m + 1 \in 1..k /\ g[m] = Cardinality(Ones(m))
    BY <1>4
  <2>2. g[m + 1] = g[m] + s[m + 1]
    BY <1>1, <2>1 DEF SumsTo
  <2>3. CASE s[m + 1] = 0
    <3>1. Ones(m + 1) = Ones(m)
      <4>1. \A i \in 1..(m + 1) : i \in 1..m \/ i = m + 1
        OBVIOUS
      <4> QED
        BY <2>3, <4>1
    <3> HIDE DEF Ones
    <3> QED
      BY <1>2, <2>1, <2>2, <2>3, <3>1
  <2>4. CASE s[m + 1] = 1
    <3>1. Ones(m + 1) = Ones(m) \cup {m + 1} /\ m + 1 \notin Ones(m)
      <4>1. \A i \in 1..(m + 1) : i \in 1..m \/ i = m + 1
        OBVIOUS
      <4> QED
        BY <2>4, <4>1
    <3> HIDE DEF Ones
    <3>2. Cardinality(Ones(m + 1)) = Cardinality(Ones(m)) + 1
      BY <1>2, <3>1, FS_AddElement
    <3> QED
      BY <2>1, <2>2, <2>4, <3>2
  <2> QED
    BY <2>1, <2>3, <2>4
<1>5. k \in S
  <2> HIDE DEF S
  <2> QED
    BY <1>3, <1>4, SetInduction
<1> QED
  BY <1>1, <1>5

LEMMA SumAppends ==
  ASSUME NEW s \in Seq(Nat), NEW x \in Nat
  PROVE  SumOf(s) \in Nat /\ SumOf(Append(s, x)) = SumOf(s) + x
<1>1. PICK k \in Nat : k = Len(s) /\ \A i \in 1..k : s[i] \in Nat
  BY LenProperties, ElementOfSeq
<1>2. PICK t : t = Append(s, x)
  OBVIOUS
<1>3. Len(t) = k + 1 /\ t[k + 1] = x /\ \A i \in 1..k : t[i] = s[i]
  BY <1>1, <1>2, AppendProperties
<1>4. PICK g : SumsTo(s, k, g) /\ SumOf(s) = g[k]
  BY <1>1, SumIs
<1>5. PICK h : SumsTo(t, k + 1, h) /\ SumOf(t) = h[k + 1]
  BY <1>3, SumIs
<1> DEFINE S == {m \in Nat : m <= k => g[m] \in Nat /\ h[m] = g[m]}
<1>6. 0 \in S
  BY <1>4, <1>5 DEF SumsTo
<1>7. ASSUME NEW m \in Nat, m \in S PROVE m + 1 \in S
  <2> SUFFICES ASSUME m + 1 <= k PROVE g[m + 1] \in Nat /\ h[m + 1] = g[m + 1]
    OBVIOUS
  <2>1. m \in 0..k /\ m < k /\ m \in 0..(k + 1) /\ m < k + 1 /\ m + 1 \in 1..k
    OBVIOUS
  <2>2. g[m] \in Nat /\ h[m] = g[m]
    BY <1>7, <2>1
  <2>3. g[m + 1] = g[m] + s[m + 1]
    BY <1>4, <2>1 DEF SumsTo
  <2>4. h[m + 1] = h[m] + t[m + 1]
    BY <1>5, <2>1 DEF SumsTo
  <2> QED
    BY <1>1, <1>3, <2>1, <2>2, <2>3, <2>4
<1>8. k \in S
  <2> HIDE DEF S
  <2> QED
    BY <1>6, <1>7, SetInduction
<1>9. h[k + 1] = h[k] + t[k + 1]
  <2>1. k \in 0..(k + 1) /\ k < k + 1
    OBVIOUS
  <2> QED
    BY <1>5, <2>1 DEF SumsTo
<1> QED
  BY <1>2, <1>3, <1>4, <1>5, <1>8, <1>9

\* The newline of the server.
LEMMA SizeGrows ==
  ASSUME NEW K, NEW V, NEW d \in Seq([key : K, val : V, len : Nat]), NEW t, t = Append(d, Prose(0))
  PROVE  SizeOf(d) \in Nat /\ SizeOf(t) = SizeOf(d) + 1
<1> DEFINE R == [key : K, val : V, len : Nat]
<1>1. PICK k \in Nat : k = Len(d) /\ DOMAIN d = 1..k
  BY LenProperties
<1>2. \A i \in 1..k : d[i].len \in Nat
  <2>1. \A i \in 1..k : d[i] \in R
    BY <1>1, ElementOfSeq
  <2>2. \A r \in R : r.len \in Nat
    OBVIOUS
  <2> HIDE DEF R
  <2> QED
    BY <2>1, <2>2
<1>3. PICK s : s = [i \in DOMAIN d |-> d[i].len + 1]
  OBVIOUS
<1>4. s \in Seq(Nat) /\ Len(s) = k
  <2>1. s \in [1..k -> Nat]
    BY <1>1, <1>2, <1>3
  <2> QED
    BY <2>1
<1>5. Prose(0).len = 0
  <2>1. PICK x : x = ""
    BY Zenon
  <2>2. Prose(0) = [key |-> NoKey, val |-> x, len |-> 0]
    BY <2>1, Zenon DEF Prose
  <2> QED
    BY <2>2
<1>6. PICK Z : d \in Seq(Z) /\ Prose(0) \in Z
  <2>1. d \in Seq(R \cup {Prose(0)})
    BY SeqMonotonic
  <2> QED
    BY <2>1
<1>7. /\ Len(t) = k + 1 /\ DOMAIN t = 1..(k + 1) /\ t[k + 1] = Prose(0)
      /\ \A i \in 1..k : t[i] = d[i]
  <2>1. t \in Seq(Z) /\ Len(t) = k + 1 /\ t[k + 1] = Prose(0) /\ \A i \in 1..k : t[i] = d[i]
    BY <1>1, <1>6, AppendProperties
  <2> QED
    BY <2>1, LenProperties
<1>8. PICK a : a = [i \in DOMAIN t |-> t[i].len + 1]
  OBVIOUS
<1>9. PICK b : b = Append(s, 1)
  OBVIOUS
<1>10. b \in Seq(Nat) /\ Len(b) = k + 1 /\ b[k + 1] = 1 /\ \A i \in 1..k : b[i] = s[i]
  BY <1>4, <1>9, AppendProperties
<1>11. a = b
  <2>1. a \in Seq(Nat) /\ Len(a) = k + 1
    <3>1. \A i \in 1..(k + 1) : i \in 1..k \/ i = k + 1
      OBVIOUS
    <3>2. \A i \in 1..(k + 1) : t[i].len \in Nat
      BY <1>2, <1>5, <1>7, <3>1
    <3>3. a \in [1..(k + 1) -> Nat]
      BY <1>7, <1>8, <3>2
    <3> QED
      BY <3>3
  <2>2. \A i \in 1..(k + 1) : a[i] = b[i]
    <3> TAKE i \in 1..(k + 1)
    <3>1. i \in 1..k \/ i = k + 1
      OBVIOUS
    <3>2. CASE i \in 1..k
      BY <1>1, <1>3, <1>7, <1>8, <1>10, <3>2
    <3>3. CASE i = k + 1
      BY <1>5, <1>7, <1>8, <1>10, <3>3
    <3> QED
      BY <3>1, <3>2, <3>3
  <2> QED
    BY <1>10, <2>1, <2>2, SeqEqual
<1>12. SumOf(s) \in Nat /\ SumOf(b) = SumOf(s) + 1
  BY <1>4, <1>9, SumAppends
<1>13. SizeOf(d) = SumOf(s) /\ SizeOf(t) = SumOf(a)
  BY <1>3, <1>8, Zenon DEF SizeOf
<1> QED
  BY <1>11, <1>12, <1>13

-----------------------------------------------------------------------------
(* A summary *)

\* Sorting leaves as many elements of a kind as there were.
LEMMA Permuted ==
  ASSUME NEW n \in Nat, NEW p \in Orders(n), NEW A, A \subseteq 1..n
  PROVE  Cardinality({i \in 1..n : p[i] \in A}) = Cardinality(A)
<1> DEFINE B == {i \in 1..n : p[i] \in A}
<1>1. p \in Injection(1..n, 1..n)
  BY DEF Orders, Injection, IsInjective
<1>2. IsFiniteSet(1..n)
  BY FS_Interval
<1>3. p \in Surjection(1..n, 1..n)
  BY <1>1, <1>2, FS_Injection
<1>4. IsFiniteSet(B)
  BY <1>2, FS_Subset
<1>5. PICK q : q = [i \in B |-> p[i]]
  OBVIOUS
<1>6. q \in Bijection(B, A)
  <2>1. q \in [B -> A]
    BY <1>5
  <2>2. \A a, b \in B : q[a] = q[b] => a = b
    BY <1>5 DEF Orders
  <2>3. \A a \in A : \E b \in B : q[b] = a
    <3> TAKE a \in A
    <3>1. PICK i \in 1..n : p[i] = a
      BY <1>3 DEF Surjection
    <3> QED
      BY <1>5, <3>1
  <2> HIDE DEF B
  <2> QED
    BY <2>1, <2>2, <2>3 DEF Injection, IsInjective, Surjection, Bijection
<1> HIDE DEF B
<1>7. ExistsBijection(B, A)
  BY <1>6 DEF ExistsBijection
<1> QED
  BY <1>4, <1>7, FS_Bijection DEF B

\* What is counted of one report.
LEMMA CountOne ==
  ASSUME NEW u, NEW e, Reportable(e), NEW f, ReadAs(u, e, f), NEW key \in InfoKeys
  PROVE  CountTrue(f, key) = IF key \in DOMAIN e.general_information
                                /\ e.general_information[key] = "true" THEN 1 ELSE 0
<1>1. PICK gi : /\ InfoRead(InfoLines(e), Len(InfoLines(e)), gi)
                /\ f = Read(u, e.city, e.name, e.date_time, Text(e), gi)
  BY Zenon DEF ReadAs
<1>2. f.general_information = gi
  <2>1. PICK d : d = Text(e)
    OBVIOUS
  <2> QED
    BY <1>1, <2>1 DEF Read, Filled
<1>3. PICK info : info = e.general_information
  OBVIOUS
<1>4. /\ DOMAIN gi = {Tabbed(k) : k \in DOMAIN info}
      /\ \A k \in DOMAIN info : gi[Tabbed(k)] = Spaced(info[k])
  BY <1>1, <1>3, InfoSame, Zenon
<1>5. \A k \in DOMAIN info : k \in InfoKeys /\ trim(Spaced(info[k])) = info[k]
  BY <1>3 DEF Reportable
<1>6. \A k \in InfoKeys : trim(Tabbed(k)) = k
  BY StringsAssumption
<1>7. PICK T : T = {k \in DOMAIN gi : trim(k) = key /\ trim(gi[k]) = "true"}
  OBVIOUS
<1>8. CountTrue(f, key) = Cardinality(T)
  BY <1>2, <1>7, Zenon DEF CountTrue
<1>9. \A k \in T : k = Tabbed(key) /\ key \in DOMAIN info /\ info[key] = "true"
  <2> TAKE k \in T
  <2>1. PICK m \in DOMAIN info : k = Tabbed(m)
    BY <1>4, <1>7
  <2>2. m = key
    BY <1>5, <1>6, <1>7, <2>1
  <2> QED
    BY <1>4, <1>5, <1>7, <2>1, <2>2
<1>10. key \in DOMAIN info /\ info[key] = "true" => Tabbed(key) \in T
  BY <1>4, <1>5, <1>6, <1>7
<1>11. CASE key \in DOMAIN info /\ info[key] = "true"
  <2>1. T = {Tabbed(key)}
    BY <1>9, <1>10, <1>11
  <2> QED
    BY <1>3, <1>8, <1>11, <2>1, FS_Singleton
<1>12. CASE ~(key \in DOMAIN info /\ info[key] = "true")
  <2>1. T = {}
    BY <1>9, <1>12
  <2> QED
    BY <1>3, <1>8, <1>12, <2>1, FS_EmptySet
<1> QED
  BY <1>11, <1>12

LEMMA ReadParts ==
  ASSUME NEW u, NEW e, NEW f, ReadAs(u, e, f)
  PROVE  /\ f.city = e.city /\ f.name = e.name /\ f.date_time = e.date_time
         /\ f.description = Text(e)
<1>1. PICK gi : f = Read(u, e.city, e.name, e.date_time, Text(e), gi)
  BY Zenon DEF ReadAs
<1>2. PICK d : d = Text(e)
  OBVIOUS
<1> QED
  BY <1>1, <1>2 DEF Read, Filled

LEMMA ReportParts ==
  ASSUME NEW k, NEW r, r = Report(k)
  PROVE  /\ r.city = k.city /\ r.date_time = k.date_time /\ r.name = k.name
         /\ r.summary = k.description /\ (r.cut <=> SizeOf(k.description) > 27)
<1>1. PICK c : c = (SizeOf(k.description) > 27)
  BY Zenon
<1>2. r = [city |-> k.city, date_time |-> k.date_time, name |-> k.name,
           summary |-> k.description, cut |-> c]
  BY <1>1, Zenon DEF Report
<1>3. c <=> SizeOf(k.description) > 27
  BY <1>1, Zenon
<1>4. /\ r.city = k.city /\ r.date_time = k.date_time /\ r.name = k.name
      /\ r.summary = k.description /\ r.cut = c
  BY <1>2
<1> QED
  BY <1>4, <1>3, Zenon

LEMMA ReportSame ==
  ASSUME NEW a, NEW b
  PROVE  Report(a) = Report(b) <=> /\ a.city = b.city /\ a.date_time = b.date_time
                                   /\ a.name = b.name /\ a.description = b.description
<1>1. Report(a) = Report(b) => /\ a.city = b.city /\ a.date_time = b.date_time
                               /\ a.name = b.name /\ a.description = b.description
  BY ReportParts
<1>2. /\ a.city = b.city /\ a.date_time = b.date_time
      /\ a.name = b.name /\ a.description = b.description
      => Report(a) = Report(b)
  BY Zenon DEF Report
<1> QED
  BY <1>1, <1>2

LEMMA SummaryParts ==
  ASSUME NEW s, NEW t, t = Summary(s)
  PROVE  /\ t.total = Len(s)
         /\ t.active = SumOf([i \in DOMAIN s |-> CountTrue(s[i], "active")])
         /\ t.arrivals = SumOf([i \in DOMAIN s |-> CountTrue(s[i], "forces_arrival_at_scene")])
         /\ t.reports = [i \in DOMAIN s |-> Report(s[i])]
<1>1. PICK n, a, f, r :
        /\ n = Len(s) /\ a = SumOf([i \in DOMAIN s |-> CountTrue(s[i], "active")])
        /\ f = SumOf([i \in DOMAIN s |-> CountTrue(s[i], "forces_arrival_at_scene")])
        /\ r = [i \in DOMAIN s |-> Report(s[i])]
  BY Zenon
<1>2. t = [total |-> n, active |-> a, arrivals |-> f, reports |-> r]
  BY <1>1, Zenon DEF Summary
<1>3. t.total = n /\ t.active = a /\ t.arrivals = f /\ t.reports = r
  BY <1>2
<1> QED
  BY <1>1, <1>3, Zenon

\* A summary of what was read of the reports sent summarises what was sent.
LEMMA Summarised ==
  ASSUME NEW u, NEW n \in Nat, NEW E, NEW first \in Seq(E), Len(first) = n,
         NEW K, NEW kept \in Seq(K), Len(kept) = n,
         \A i \in 1..n : Reportable(first[i]) /\ ReadAs(u, first[i], kept[i]),
         NEW s \in SortsOf(kept, SummaryBefore(kept)), NEW t, t = Summary(s)
  PROVE  Summarises(t, first)
<1>1. DOMAIN first = 1..n /\ DOMAIN kept = 1..n
  BY LenProperties
<1>2. PICK p \in Orders(n) :
        /\ s = [i \in 1..n |-> kept[p[i]]]
        /\ \A i, j \in 1..n : i < j => <<p[j], p[i]>> \notin SummaryBefore(kept)
  BY <1>1, Zenon DEF SortsOf
<1>3. DOMAIN s = 1..n /\ \A i \in 1..n : p[i] \in 1..n /\ s[i] = kept[p[i]]
  BY <1>2 DEF Orders
<1>4. s \in Seq(K) /\ Len(s) = n
  BY SortTyped
<1>5. /\ t.total = n
      /\ t.active = SumOf([i \in DOMAIN s |-> CountTrue(s[i], "active")])
      /\ t.arrivals = SumOf([i \in DOMAIN s |-> CountTrue(s[i], "forces_arrival_at_scene")])
      /\ t.reports = [i \in DOMAIN s |-> Report(s[i])]
  BY <1>4, SummaryParts
<1>6. PICK rs : rs = [i \in DOMAIN s |-> Report(s[i])]
  OBVIOUS
<1>7. t.reports = rs
  BY <1>5, <1>6, Zenon
<1>8. Len(rs) = n /\ \A i \in 1..n : rs[i] = Report(kept[p[i]])
  <2>1. DOMAIN rs = 1..n /\ \A i \in 1..n : rs[i] = Report(kept[p[i]])
    BY <1>3, <1>6
  <2>2. rs \in [1..n -> {Report(kept[p[i]]) : i \in 1..n}]
    BY <1>3, <1>6
  <2>3. Len(rs) = n
    BY <2>2
  <2> QED
    BY <2>1, <2>3
<1>9. \A j \in 1..n : /\ kept[j].city = first[j].city /\ kept[j].name = first[j].name
                      /\ kept[j].date_time = first[j].date_time
                      /\ kept[j].description = Text(first[j])
  BY ReadParts
<1>10. \A i \in 1..n : Reportable(first[i]) /\ ReadAs(u, first[i], kept[i])
  OBVIOUS
<1>11. s = [i \in 1..n |-> kept[p[i]]]
  BY <1>2
<1>12. ASSUME NEW key \in InfoKeys, NEW c, c = [i \in DOMAIN s |-> CountTrue(s[i], key)]
       PROVE  SumOf(c) = Cardinality(Having(first, key))
  <2> DEFINE A == Having(first, key)
  <2>1. DOMAIN first = 1..n /\ DOMAIN s = 1..n
    BY <1>1, <1>11
  <2>2. A \subseteq 1..n
    BY <2>1 DEF Having
  <2>3. \A i \in 1..n : p[i] \in 1..n /\ s[i] = kept[p[i]]
    BY <1>3
  <2>4. \A j \in 1..n : CountTrue(kept[j], key) = IF j \in A THEN 1 ELSE 0
    <3> TAKE j \in 1..n
    <3>1. PICK e, f : e = first[j] /\ f = kept[j]
      OBVIOUS
    <3>2. Reportable(e) /\ ReadAs(u, e, f)
      BY <3>1
    <3>3. CountTrue(f, key) = IF key \in DOMAIN e.general_information
                                  /\ e.general_information[key] = "true" THEN 1 ELSE 0
      BY <3>2, CountOne, Zenon
    <3>4. j \in A <=> key \in DOMAIN e.general_information /\ e.general_information[key] = "true"
      BY <2>1, <3>1 DEF Having
    <3> QED
      BY <3>1, <3>3, <3>4
  <2>5. c = [i \in DOMAIN s |-> CountTrue(s[i], key)]
    BY <1>12
  <2> HIDE DEF A
  <2>6. \A i \in 1..n : c[i] = IF p[i] \in A THEN 1 ELSE 0
    BY <2>1, <2>3, <2>4, <2>5
  <2>7. Len(c) = n
    <3>1. c \in [1..n -> {0, 1}]
      BY <2>1, <2>5, <2>6
    <3> QED
      BY <3>1
  <2>8. \A i \in 1..n : c[i] = 0 \/ c[i] = 1
    BY <2>6
  <2>9. SumOf(c) = Cardinality({i \in 1..n : c[i] = 1})
    BY <2>7, <2>8, SumCounts
  <2>10. {i \in 1..n : c[i] = 1} = {i \in 1..n : p[i] \in A}
    BY <2>6
  <2>11. Cardinality({i \in 1..n : p[i] \in A}) = Cardinality(A)
    BY <2>2, Permuted
  <2> QED
    BY <2>9, <2>10, <2>11 DEF A
<1>13. t.active = Cardinality(Having(first, "active"))
  <2>1. PICK key : key = "active" /\ key \in InfoKeys
    BY Zenon DEF InfoKeys
  <2>2. PICK c : c = [i \in DOMAIN s |-> CountTrue(s[i], key)]
    OBVIOUS
  <2>3. SumOf(c) = Cardinality(Having(first, key))
    BY <1>12, <2>1, <2>2, Zenon
  <2> QED
    BY <1>5, <2>1, <2>2, <2>3, Zenon
<1>14. t.arrivals = Cardinality(Having(first, "forces_arrival_at_scene"))
  <2>1. PICK key : key = "forces_arrival_at_scene" /\ key \in InfoKeys
    BY Zenon DEF InfoKeys
  <2>2. PICK c : c = [i \in DOMAIN s |-> CountTrue(s[i], key)]
    OBVIOUS
  <2>3. SumOf(c) = Cardinality(Having(first, key))
    BY <1>12, <2>1, <2>2, Zenon
  <2> QED
    BY <1>5, <2>1, <2>2, <2>3, Zenon
<1>15. ASSUME NEW i \in 1..n, NEW j \in 1..n
       PROVE  rs[j] = rs[i] <=> Shows(rs[i], first[p[j]])
  <2>1. PICK a, b, e : a = kept[p[i]] /\ b = kept[p[j]] /\ e = first[p[j]]
    OBVIOUS
  <2>2. rs[i] = Report(a) /\ rs[j] = Report(b)
    BY <1>8, <2>1
  <2>3. /\ b.city = e.city /\ b.name = e.name /\ b.date_time = e.date_time /\ b.description = Text(e)
    BY <1>3, <1>9, <2>1
  <2>4. rs[j] = rs[i] <=> /\ b.city = a.city /\ b.date_time = a.date_time
                          /\ b.name = a.name /\ b.description = a.description
    BY <2>2, ReportSame, Zenon
  <2>5. /\ rs[i].city = a.city /\ rs[i].date_time = a.date_time /\ rs[i].name = a.name
        /\ rs[i].summary = a.description
    BY <2>2, ReportParts, Zenon
  <2>6. Shows(rs[i], e) <=> /\ rs[i].city = e.city /\ rs[i].date_time = e.date_time
                            /\ rs[i].name = e.name /\ rs[i].summary = Text(e)
    BY Zenon DEF Shows, Text
  <2> QED
    BY <2>1, <2>3, <2>4, <2>5, <2>6
<1>16. ASSUME NEW i \in 1..n
       PROVE  Cardinality({j \in DOMAIN first : Shows(rs[i], first[j])})
                = Cardinality({j \in 1..n : rs[j] = rs[i]})
  <2>1. PICK A : A = {j \in 1..n : Shows(rs[i], first[j])}
    OBVIOUS
  <2>2. {j \in 1..n : rs[j] = rs[i]} = {j \in 1..n : p[j] \in A}
    BY <1>3, <1>15, <2>1
  <2>3. Cardinality({j \in 1..n : p[j] \in A}) = Cardinality(A)
    BY <2>1, Permuted
  <2> QED
    BY <1>1, <2>1, <2>2, <2>3
<1>17. ASSUME NEW i \in 1..n, NEW j \in 1..n, i < j
       PROVE  \/ rs[i].date_time < rs[j].date_time
              \/ rs[i].date_time = rs[j].date_time /\ ~NameBefore(rs[j].name, rs[i].name)
  <2>1. PICK x \in 1..n, y \in 1..n : x = p[i] /\ y = p[j] /\ <<y, x>> \notin SummaryBefore(kept)
    BY <1>2, <1>3, <1>17
  <2>2. <<y, x>> \in Positions(kept)
    BY <1>1, <2>1 DEF Positions
  <2>3. ~(kept[y].date_time < kept[x].date_time)
        /\ ~(kept[y].date_time = kept[x].date_time /\ NameBefore(kept[y].name, kept[x].name))
    BY <2>1, <2>2 DEF SummaryBefore, Earlier
  <2>4. kept[x].date_time \in Int /\ kept[y].date_time \in Int
    <3>1. \A k \in 1..n : first[k].date_time \in Dates
      BY DEF Reportable
    <3>2. kept[x].date_time = first[x].date_time /\ kept[y].date_time = first[y].date_time
      BY <1>9
    <3>3. first[x].date_time \in Dates /\ first[y].date_time \in Dates
      BY <3>1
    <3>4. Dates \subseteq Int
      BY DEF Dates
    <3> QED
      BY <3>2, <3>3, <3>4
  <2>5. /\ rs[i].date_time = kept[x].date_time /\ rs[i].name = kept[x].name
        /\ rs[j].date_time = kept[y].date_time /\ rs[j].name = kept[y].name
    <3>1. rs[i] = Report(kept[x]) /\ rs[j] = Report(kept[y])
      BY <1>8, <2>1
    <3> QED
      BY <3>1, ReportParts, Zenon
  <2> QED
    BY <2>3, <2>4, <2>5
<1>18. ASSUME NEW i \in 1..n
       PROVE  rs[i].cut <=> SizeOf(Front(rs[i].summary)) - 1 > 25
  <2>1. PICK k, e : k = kept[p[i]] /\ e = first[p[i]]
    OBVIOUS
  <2>2. k.description = Text(e) /\ Reportable(e)
    BY <1>3, <1>9, <2>1
  <2>3. PICK d, x : d = e.description /\ x = Text(e) /\ x = Append(d, Prose(0))
    BY Zenon DEF Text
  <2>4. d \in Seq([key : STRING, val : STRING, len : Nat])
    BY <2>2, <2>3 DEF Reportable
  <2>5. SizeOf(d) \in Nat /\ SizeOf(x) = SizeOf(d) + 1
    BY <2>3, <2>4, SizeGrows
  <2>6. Front(x) = d
    <3>1. PICK Z : d \in Seq(Z) /\ Prose(0) \in Z
      <4>1. d \in Seq([key : STRING, val : STRING, len : Nat] \cup {Prose(0)})
        BY <2>4, SeqMonotonic
      <4> QED
        BY <4>1
    <3>2. PICK m \in Nat : m = Len(d)
      BY <3>1, LenProperties
    <3>3. x \in Seq(Z) /\ Len(x) = m + 1 /\ \A a \in 1..m : x[a] = d[a]
      BY <2>3, <3>1, <3>2, AppendProperties
    <3>4. PICK y : y = SubSeq(x, 1, m)
      OBVIOUS
    <3>5. y \in Seq(Z) /\ Len(y) = m /\ \A a \in 1..m : y[a] = x[a]
      <4>1. \A a \in 1..m : x[a] \in Z
        BY <3>3, ElementOfSeq
      <4>2. /\ y \in Seq(Z) /\ Len(y) = IF 1 <= m THEN m - 1 + 1 ELSE 0
            /\ \A a \in 1..(m - 1 + 1) : y[a] = x[1 + a - 1]
        BY <3>4, <4>1, SubSeqProperties
      <4>3. m - 1 + 1 = m /\ (~(1 <= m) => m = 0) /\ \A a \in 1..m : 1 + a - 1 = a
        OBVIOUS
      <4>4. Len(y) = m
        BY <4>2, <4>3
      <4>5. \A a \in 1..m : y[a] = x[1 + a - 1]
        BY <4>2, <4>3
      <4> QED
        BY <4>2, <4>3, <4>4, <4>5
    <3>6. y = d
      BY <3>1, <3>2, <3>3, <3>5, SeqEqual
    <3>7. Front(x) = SubSeq(x, 1, Len(x) - 1)
      BY Zenon DEF Front
    <3>8. Len(x) - 1 = m
      BY <3>3
    <3> QED
      BY <3>4, <3>6, <3>7, <3>8
  <2>7. rs[i].summary = x /\ (rs[i].cut <=> SizeOf(x) > 27)
    <3>1. rs[i] = Report(k)
      BY <1>8, <2>1
    <3>2. k.description = x
      BY <2>2, <2>3
    <3>3. rs[i].summary = k.description /\ (rs[i].cut <=> SizeOf(k.description) > 27)
      BY <3>1, ReportParts, Zenon
    <3> QED
      BY <3>2, <3>3
  <2> QED
    BY <2>5, <2>6, <2>7
<1>19. Len(first) = n /\ t.total = n /\ Len(t.reports) = t.total
  BY <1>5, <1>7, <1>8
<1>20. t.total = n /\ t.reports = rs
  BY <1>7, <1>19
<1>21. /\ t.total = Len(first) /\ Len(t.reports) = t.total
  BY <1>19
<1>22. \A i \in 1..t.total :
         Cardinality({j \in DOMAIN first : Shows(t.reports[i], first[j])})
           = Cardinality({j \in 1..t.total : t.reports[j] = t.reports[i]})
  <2>1. \A i \in 1..n : Cardinality({j \in DOMAIN first : Shows(rs[i], first[j])})
                           = Cardinality({j \in 1..n : rs[j] = rs[i]})
    BY <1>16
  <2>2. PICK N, R : N = t.total /\ R = t.reports /\ N = n /\ R = rs
    BY <1>20, Zenon
  <2>3. \A i \in 1..N : Cardinality({j \in DOMAIN first : Shows(R[i], first[j])})
                           = Cardinality({j \in 1..N : R[j] = R[i]})
    BY <2>1, <2>2
  <2> QED
    BY <2>2, <2>3
<1>23. \A i, j \in 1..t.total :
         i < j => LET a == t.reports[i] b == t.reports[j] IN
                  \/ a.date_time < b.date_time
                  \/ a.date_time = b.date_time /\ ~NameBefore(b.name, a.name)
  BY <1>17, <1>20, ZenonT(60)
<1>24. \A i \in 1..t.total :
         t.reports[i].cut <=> SizeOf(Front(t.reports[i].summary)) - 1 > 25
  BY <1>18, <1>20, Zenon
<1> QED
  BY <1>13, <1>14, <1>21, <1>22, <1>23, <1>24, Zenon DEF Summarises

-----------------------------------------------------------------------------
(* The summary *)

\* t summarises the first reports in s, of which n were sent.
Summed(t, n, s) ==
  t.total \in Nat /\ t.total <= n /\ Summarises(t, SubSeq(s, 1, t.total))

\* What was sent is not touched again; before that, nothing was.
LEMMA SummedOn ==
  ASSUME NEW S, NEW s \in Seq(S), NEW s2 \in Seq(S), NEW n \in Nat, NEW n2 \in Nat,
         NEW t, Summed(t, n, s), (s2 = s /\ n <= n2) \/ (n = 0 /\ n2 = 0)
  PROVE  Summed(t, n2, s2)
<1>1. PICK k \in Nat : k = t.total /\ k <= n /\ Summarises(t, SubSeq(s, 1, k))
  BY Zenon DEF Summed
<1>2. k <= n2
  BY <1>1
<1>3. SubSeq(s2, 1, k) = SubSeq(s, 1, k)
  <2>1. CASE s2 = s
    BY <2>1
  <2>2. CASE n = 0
    <3>1. k = 0
      BY <1>1, <2>2
    <3>2. SubSeq(s, 1, 0) = <<>> /\ SubSeq(s2, 1, 0) = <<>>
      BY SubSeqEmpty
    <3> QED
      BY <3>1, <3>2
  <2> QED
    BY <2>1, <2>2
<1> QED
  BY <1>1, <1>2, <1>3, Zenon DEF Summed

LEMMA SummaryOfKept ==
  ASSUME PlainDescriptions, IInv, NEW u \in User,
         NEW s \in SortsOf(Kept(u), SummaryBefore(Kept(u))), NEW t, t = Summary(s)
  PROVE  Summed(t, sent[u], events[u])
<1>1. PICK K : Kept(u) \in Seq(K)
  BY KeptFirst
<1>2. PICK kept \in Seq(K) : kept = Kept(u)
  BY <1>1
<1>3. PICK n \in Nat : n = Len(kept)
  BY LenProperties
<1>4. /\ n <= sent[u]
      /\ \A i \in 1..n : Reportable(events[u][i]) /\ ReadAs(u, events[u][i], kept[i])
  BY <1>2, <1>3, KeptFirst
<1>5. PICK ev \in Seq(EventSet) : ev = events[u] /\ sent[u] \in Nat /\ sent[u] <= Len(ev)
  <2>1. /\ next[u] \in Nat /\ next[u] <= Len(events[u]) + 1
        /\ sent[u] \in Nat /\ sent[u] < next[u] /\ events[u] \in Seq(EventSet)
    BY DEF IInv, Reporting, Relaying
  <2>2. Len(events[u]) \in Nat
    BY <2>1, LenProperties
  <2> QED
    BY <2>1, <2>2
<1>6. \A i \in 1..n : ev[i] \in EventSet
  <2>1. Len(ev) \in Nat
    BY LenProperties
  <2>2. \A i \in 1..n : i \in 1..Len(ev)
    BY <1>4, <1>5, <2>1
  <2> QED
    BY <2>2, ElementOfSeq
<1>7. PICK first : first = SubSeq(ev, 1, n)
  OBVIOUS
<1>8. first \in Seq(EventSet) /\ Len(first) = n /\ \A i \in 1..n : first[i] = ev[i]
  <2>1. /\ first \in Seq(EventSet) /\ Len(first) = IF 1 <= n THEN n - 1 + 1 ELSE 0
        /\ \A i \in 1..(n - 1 + 1) : first[i] = ev[1 + i - 1]
    BY <1>6, <1>7, SubSeqProperties
  <2>2. n - 1 + 1 = n /\ (~(1 <= n) => n = 0) /\ \A i \in 1..n : 1 + i - 1 = i
    OBVIOUS
  <2>3. Len(first) = n
    BY <2>1, <2>2
  <2>4. \A i \in 1..n : first[i] = ev[1 + i - 1]
    BY <2>1, <2>2
  <2> QED
    BY <2>1, <2>2, <2>3, <2>4
<1>9. \A i \in 1..n : Reportable(first[i]) /\ ReadAs(u, first[i], kept[i])
  BY <1>4, <1>5, <1>8
<1>10. s \in SortsOf(kept, SummaryBefore(kept)) /\ Len(kept) = n
  BY <1>2, <1>3
<1>11. Summarises(t, first)
  BY <1>8, <1>9, <1>10, Summarised
<1>12. t.total = n
  <2>1. Len(s) = n
    BY <1>10, SortTyped
  <2> QED
    BY <2>1, SummaryParts
<1> QED
  BY <1>4, <1>5, <1>7, <1>11, <1>12, Zenon DEF Summed

Asked == summary.of # ""

\* The command that is running asks for a user, whose events are there once it has
\* found them.
Asking ==
  /\ DOMAIN asking = {"at", "of", "raced"}
  /\ asking.at # "prompt" => asking.of \in User
  /\ asking.at = "copy" => <<asking.of, Channel>> \in DOMAIN events_map

\* The last summary is that of the first reports that were sent.
SummaryRight ==
  Asked => /\ summary.of \in User
           /\ Summed(summary.text, sent[summary.of], events[summary.of])

AskingParts(a) == DOMAIN a = {"at", "of", "raced"}

LEMMA AskingSet ==
  ASSUME NEW a, AskingParts(a), NEW x
  PROVE  /\ AskingParts([a EXCEPT !.raced = x]) /\ [a EXCEPT !.raced = x].at = a.at
         /\ [a EXCEPT !.raced = x].of = a.of
BY DEF AskingParts

LEMMA AskingMade ==
  ASSUME NEW a, NEW x, NEW y, NEW z, a = [at |-> x, of |-> y, raced |-> z]
  PROVE  AskingParts(a) /\ a.at = x /\ a.of = y
BY DEF AskingParts

LEMMA PromptIs == AskingParts(AtPrompt) /\ AtPrompt.at = "prompt"
<1>1. PICK x, y, z : x = "prompt" /\ y = "" /\ z = FALSE
  BY Zenon
<1>2. AtPrompt = [at |-> x, of |-> y, raced |-> z]
  BY <1>1, Zenon DEF AtPrompt
<1> QED
  BY <1>1, <1>2, AskingMade, Zenon

LEMMA AskingInit == Init => Asking
<1>1. "prompt" # "copy"
  OBVIOUS
<1> QED
  BY <1>1, PromptIs, Zenon DEF Init, Asking, AskingParts

LEMMA AskingNext ==
  ASSUME Asking, [Next]_vars PROVE Asking'
<1>1. AskingParts(asking) /\ (asking.at # "prompt" => asking.of \in User)
      /\ (asking.at = "copy" => <<asking.of, Channel>> \in DOMAIN events_map)
  BY Zenon DEF Asking, AskingParts
<1>2. "prompt" # "copy" /\ "find" # "copy" /\ "find" # "prompt"
  OBVIOUS
<1>3. ASSUME asking' = asking, events_map' = events_map PROVE Asking'
  BY <1>3, Zenon DEF Asking
<1>4. ASSUME asking' = AtPrompt PROVE Asking'
  BY <1>2, <1>4, PromptIs, Zenon DEF Asking, AskingParts
<1>5. CASE KeepEvent
  <2>1. PICK x, f : /\ asking' = [asking EXCEPT !.raced = x]
                    /\ events_map' = PushBack(events_map, f)
    BY <1>5, Zenon DEF KeepEvent
  <2>2. AskingParts(asking') /\ asking'.at = asking.at /\ asking'.of = asking.of
    BY <1>1, <2>1, AskingSet, Zenon
  <2>3. DOMAIN events_map \subseteq DOMAIN events_map'
    BY <2>1 DEF PushBack, With
  <2> QED
    BY <1>1, <2>2, <2>3, Zenon DEF Asking, AskingParts
<1>6. ASSUME NEW u \in User, Ask(u) PROVE Asking'
  <2>1. PICK x, z : x = "find" /\ asking' = [at |-> x, of |-> u, raced |-> z]
    BY <1>6, Zenon DEF Ask
  <2>2. AskingParts(asking') /\ asking'.at = x /\ asking'.of = u
    BY <2>1, AskingMade, Zenon
  <2> QED
    BY <1>2, <1>6, <2>1, <2>2, Zenon DEF Asking, AskingParts
<1>7. CASE FindEvents
  <2>1. CASE asking' = AtPrompt
    BY <1>4, <2>1
  <2>2. ASSUME <<asking.of, Channel>> \in DOMAIN events_map,
               asking' = [at |-> "copy", of |-> asking.of, raced |-> FALSE]
        PROVE  Asking'
    <3>1. PICK x, z : x = "copy" /\ asking' = [at |-> x, of |-> asking.of, raced |-> z]
      BY <2>2, Zenon
    <3>2. AskingParts(asking') /\ asking'.at = x /\ asking'.of = asking.of
      BY <3>1, AskingMade, Zenon
    <3>3. events_map' = events_map /\ asking.of \in User
      BY <1>1, <1>2, <1>7, Zenon DEF FindEvents
    <3> QED
      BY <1>2, <2>2, <3>1, <3>2, <3>3, Zenon DEF Asking, AskingParts
  <2> QED
    BY <1>7, <2>1, <2>2, Zenon DEF FindEvents, Crash
<1>8. CASE Summarise
  BY <1>4, <1>8, Zenon DEF Summarise, Crash
<1>9. CASE TakeFrame \/ ReadLine \/ UNCHANGED vars
  BY <1>3, <1>9, Zenon DEF TakeFrame, ReadLine, Keyboard, vars
<1>10. ASSUME NEW u \in User, ParseEvents(u) \/ SortEvents(u) \/ SendEvent(u) \/ Break(u)
       PROVE  Asking'
  BY <1>3, <1>10, Zenon DEF ParseEvents, SortEvents, SendEvent, Break, Reader, Keyboard
<1> QED
  BY <1>5, <1>6, <1>7, <1>8, <1>9, <1>10, Zenon DEF Next

LEMMA NotAsked == NoSummary.of = ""
<1>1. PICK z, f, t : z = "" /\ f = FALSE /\ t = Summary(<<>>)
  BY Zenon
<1>2. NoSummary = [of |-> z, torn |-> f, text |-> t]
  BY <1>1, Zenon DEF NoSummary
<1>3. NoSummary.of = z
  BY <1>2
<1> QED
  BY <1>1, <1>3, Zenon

LEMMA SummaryRightNext ==
  ASSUME PlainDescriptions, IInv, Asking, SummaryRight, [Next]_vars PROVE SummaryRight'
<1>1. /\ next \in [User -> Nat] /\ sent \in [User -> Nat] /\ events \in [User -> Seq(EventSet)]
      /\ \A u \in User : next[u] = 1 => sent[u] = 0
  <2>1. /\ next \in [User -> Nat] /\ sent \in [User -> Nat]
        /\ events \in [User -> Seq(EventSet)] /\ \A u \in User : sent[u] < next[u]
    BY DEF IInv, Reporting, Relaying
  <2> QED
    BY <2>1
<1>2. sent' \in [User -> Nat] /\ events' \in [User -> Seq(EventSet)]
  <2>1. Reporting' /\ Relaying'
    BY ReportingNext, RelayingNext DEF IInv
  <2> QED
    BY <2>1 DEF Reporting, Relaying
<1>3. ASSUME summary' = summary,
             \A u \in User : \/ events'[u] = events[u] /\ sent[u] <= sent'[u]
                             \/ sent[u] = 0 /\ sent'[u] = 0
      PROVE  SummaryRight'
  <2> SUFFICES ASSUME Asked
               PROVE  /\ summary.of \in User
                      /\ Summed(summary.text, sent'[summary.of], events'[summary.of])
    <3>1. Asked' => Asked
      BY <1>3, Zenon DEF Asked
    <3> QED
      BY <1>3, <3>1 DEF SummaryRight
  <2>1. PICK u, t : u = summary.of /\ t = summary.text
    OBVIOUS
  <2>2. u \in User /\ Summed(t, sent[u], events[u])
    BY <2>1 DEF SummaryRight
  <2>3. Summed(t, sent'[u], events'[u])
    <3>1. /\ events[u] \in Seq(EventSet) /\ events'[u] \in Seq(EventSet)
          /\ sent[u] \in Nat /\ sent'[u] \in Nat
      BY <1>1, <1>2, <2>2
    <3>2. \/ events'[u] = events[u] /\ sent[u] <= sent'[u]
          \/ sent[u] = 0 /\ sent'[u] = 0
      BY <1>3, <2>2
    <3> QED
      BY <2>2, <3>1, <3>2, SummedOn
  <2> QED
    BY <2>1, <2>2, <2>3
<1>4. ASSUME NEW u \in User, ParseEvents(u) \/ SortEvents(u) PROVE SummaryRight'
  <2>1. /\ pc[u] \in {"parse", "sort"} /\ sent' = sent /\ summary' = summary
        /\ \E v : events' = [events EXCEPT ![u] = v]
    BY <1>4 DEF ParseEvents, SortEvents, Step, Reader, Keyboard
  <2>2. sent[u] = 0
    BY <1>1, <2>1 DEF IInv, Reporting
  <2>3. \A w \in User : w # u => events'[w] = events[w]
    BY <1>1, <2>1
  <2>4. \A w \in User : sent[w] \in Nat
    BY <1>1
  <2> QED
    BY <1>3, <2>1, <2>2, <2>3, <2>4
<1>5. ASSUME NEW u \in User, SendEvent(u) PROVE SummaryRight'
  <2>1. events' = events /\ summary' = summary
    BY <1>5, Zenon DEF SendEvent, Reader, Keyboard
  <2>2. sent' = [sent EXCEPT ![u] = @ + 1] \/ sent' = sent
    BY <1>5, Zenon DEF SendEvent, Relay
  <2>3. \A w \in User : sent[w] <= sent'[w]
    BY <1>1, <2>2
  <2> QED
    BY <1>3, <2>1, <2>3
<1>6. ASSUME summary' = summary, events' = events, sent' = sent PROVE SummaryRight'
  <2>1. \A u \in User : events'[u] = events[u] /\ sent[u] <= sent'[u]
    BY <1>1, <1>6
  <2> QED
    BY <1>3, <1>6, <2>1
<1>7. CASE Summarise
  <2>1. PICK u \in User : u = asking.of /\ <<u, Channel>> \in DOMAIN events_map
    <3>1. asking.at = "copy" /\ "copy" # "prompt"
      BY <1>7 DEF Summarise
    <3> QED
      BY <3>1, Zenon DEF Asking
  <2>2. sent' = sent /\ events' = events
    BY <1>7, Zenon DEF Summarise, Reporters
  <2>3. events_map[<<asking.of, Channel>>] = Kept(u)
    BY <2>1, Zenon DEF Kept
  <2>4. CASE Crash /\ summary' = summary
    BY <1>6, <2>2, <2>4
  <2>5. ASSUME NEW s \in SortsOf(Kept(u), SummaryBefore(Kept(u))), NEW b,
               summary' = [of |-> u, torn |-> b, text |-> Summary(s)]
        PROVE  SummaryRight'
    <3>1. PICK t : t = Summary(s)
      OBVIOUS
    <3>2. Summed(t, sent[u], events[u])
      BY <3>1, SummaryOfKept
    <3>3. summary' = [of |-> u, torn |-> b, text |-> t]
      BY <2>5, <3>1, Zenon
    <3>4. summary'.of = u /\ summary'.text = t
      BY <3>3
    <3> QED
      BY <2>2, <3>2, <3>4 DEF SummaryRight
  <2>6. \/ \E s \in SortsOf(Kept(u), SummaryBefore(Kept(u))) :
             summary' = [of |-> asking.of, torn |-> asking.raced, text |-> Summary(s)]
        \/ Crash /\ summary' = summary
    BY <1>7, <2>3, Zenon DEF Summarise
  <2> QED
    BY <2>1, <2>4, <2>5, <2>6, Zenon
<1>8. ASSUME NEW u \in User, Ask(u) PROVE SummaryRight'
  <2>1. summary' = NoSummary
    BY <1>8, Zenon DEF Ask
  <2>2. ~Asked'
    BY <2>1, NotAsked, Zenon DEF Asked
  <2> QED
    BY <2>2, Zenon DEF SummaryRight
<1>9. CASE TakeFrame \/ ReadLine \/ KeepEvent \/ FindEvents
  BY <1>6, <1>9, Zenon DEF TakeFrame, ReadLine, KeepEvent, FindEvents, Reporters, Keyboard
<1>10. ASSUME NEW u \in User, Break(u) PROVE SummaryRight'
  BY <1>6, <1>10, Zenon DEF Break, Reader, Keyboard
<1>11. CASE UNCHANGED vars
  BY <1>6, <1>11, Zenon DEF vars
<1> QED
  BY <1>4, <1>5, <1>7, <1>8, <1>9, <1>10, <1>11, Zenon DEF Next

\* A summary that was not overtaken is that of the first reports of its user that
\* the server relayed: their number, how many of them are active and how many have
\* forces at the scene, each of them as often as it was sent, by time and then by
\* name, cut exactly when it had more than 25 characters; whatever order the two
\* sorts leave equal events in, and whatever is sent meanwhile.
THEOREM SummaryFaithfulHolds == ASSUME PlainDescriptions PROVE Spec => []SummaryFaithful
<1>1. Init => Asking /\ SummaryRight
  <2>1. Init => ~Asked
    BY NotAsked, Zenon DEF Init, Asked
  <2> QED
    BY <2>1, AskingInit DEF SummaryRight
<1>2. IInv /\ Asking /\ SummaryRight /\ [Next]_vars => Asking' /\ SummaryRight'
  BY AskingNext, SummaryRightNext
<1>3. SummaryRight => SummaryFaithful
  BY Zenon DEF Asked, SummaryRight, SummaryFaithful, Summed
<1> QED
  BY <1>1, <1>2, <1>3, IInvHolds, PTL DEF Spec
=============================================================================
