--------------------------- MODULE StompCodecProofs ---------------------------
(***************************************************************************)
(* Whatever frames a client writes, and however many, they are the frames  *)
(* that the decoder returns.                                               *)
(*                                                                         *)
(* The argument: what is still to come of the stream is, at any time, the  *)
(* rest of the piece that is being read (a command, a name, a value, a     *)
(* body), the delimiter that ends it, and the pieces that follow; and the  *)
(* buffer with that rest is the piece.  The stream is flattened from the   *)
(* left and read from the left, so the one fact about FlattenSeq needed is *)
(* that its first piece can be taken off, for which we prove by induction  *)
(* that the function it is defined by exists.                              *)
(***************************************************************************)
EXTENDS StompCodec, SequenceTheorems, WellFoundedInduction, TLAPS

-----------------------------------------------------------------------------
(* Induction over sets of numbers *)

LEMMA LeastMember ==
  ASSUME NEW T, T \subseteq Nat, T # {}
  PROVE  \E m \in T : \A n \in T : m <= n
<1>1. PICK m \in T : \A n \in T : <<n, m>> \notin OpToRel(<, Nat)
  BY WFMin, NatLessThanWellFounded, Zenon
<1>2. \A n \in T : ~(n < m)
  BY <1>1, Zenon DEF OpToRel
<1>3. \A n \in T : n \in Nat
  OBVIOUS
<1> QED
  BY <1>2, <1>3

LEMMA SetInduction ==
  ASSUME NEW S, 0 \in S, \A n \in Nat : n \in S => n + 1 \in S
  PROVE  Nat \subseteq S
<1> SUFFICES ASSUME Nat \ S # {} PROVE FALSE
  OBVIOUS
<1>1. PICK m \in Nat \ S : \A n \in Nat \ S : m <= n
  BY LeastMember
<1>2. m - 1 \in Nat /\ m - 1 \notin Nat \ S
  BY <1>1
<1> QED
  BY <1>1, <1>2

-----------------------------------------------------------------------------
(* FlattenSeq *)

\* The function that FlattenSeq is defined by, up to a length.
FlattensTo(seqs, k, f) ==
  f = [i \in 1..k |-> IF i = 1 THEN seqs[i] ELSE f[i - 1] \o seqs[i]]
Flatten(seqs) == CHOOSE f : FlattensTo(seqs, Len(seqs), f)

LEMMA FlattenExists ==
  ASSUME NEW X, NEW seqs \in Seq(Seq(X))
  PROVE  \A k \in Nat : k <= Len(seqs) => \E f \in [1..k -> Seq(X)] : FlattensTo(seqs, k, f)
<1> DEFINE S == {k \in Nat : k <= Len(seqs) => \E f \in [1..k -> Seq(X)] : FlattensTo(seqs, k, f)}
<1>0. Len(seqs) \in Nat /\ \A i \in 1..Len(seqs) : seqs[i] \in Seq(X)
  BY LenProperties, ElementOfSeq
<1>1. 0 \in S
  <2>1. [i \in 1..0 |-> <<>>] \in [1..0 -> Seq(X)]
    OBVIOUS
  <2>2. FlattensTo(seqs, 0, [i \in 1..0 |-> <<>>])
    BY DEF FlattensTo
  <2> QED
    BY <2>1, <2>2
<1>2. ASSUME NEW k \in Nat, k \in S PROVE k + 1 \in S
  <2> SUFFICES ASSUME k + 1 <= Len(seqs)
               PROVE  \E f \in [1..(k + 1) -> Seq(X)] : FlattensTo(seqs, k + 1, f)
    OBVIOUS
  <2>1. PICK f \in [1..k -> Seq(X)] : FlattensTo(seqs, k, f)
    BY <1>0, <1>2
  <2>2. \A i \in 1..k : f[i] = IF i = 1 THEN seqs[i] ELSE f[i - 1] \o seqs[i]
    BY <2>1 DEF FlattensTo
  <2> DEFINE last == IF k = 0 THEN seqs[1] ELSE f[k] \o seqs[k + 1]
             g    == [i \in 1..(k + 1) |-> IF i <= k THEN f[i] ELSE last]
  <2>3. last \in Seq(X)
    BY <1>0, <2>1, ConcatProperties
  <2> HIDE DEF last
  <2>4. g \in [1..(k + 1) -> Seq(X)]
    BY <2>1, <2>3
  <2>5. ASSUME NEW i \in 1..(k + 1)
        PROVE  g[i] = IF i = 1 THEN seqs[i] ELSE g[i - 1] \o seqs[i]
    <3>1. CASE i <= k
      <4>1. i \in 1..k /\ g[i] = f[i]
        BY <3>1
      <4>2. i # 1 => i - 1 \in 1..k /\ g[i - 1] = f[i - 1]
        BY <4>1
      <4> HIDE DEF g
      <4> QED
        BY <2>2, <4>1, <4>2
    <3>2. CASE i = k + 1
      <4>1. g[i] = last /\ (i # 1 => g[i - 1] = f[k])
        BY <3>2
      <4> HIDE DEF g
      <4> QED
        BY <3>2, <4>1 DEF last
    <3> QED
      BY <3>1, <3>2
  <2> HIDE DEF g
  <2>6. FlattensTo(seqs, k + 1, g)
    <3>1. g = [i \in 1..(k + 1) |-> g[i]]
      BY <2>4
    <3> QED
      BY <2>5, <3>1 DEF FlattensTo
  <2> QED
    BY <2>4, <2>6
<1> HIDE DEF S
<1>3. Nat \subseteq S
  BY <1>1, <1>2, SetInduction
<1> QED
  BY <1>3 DEF S

\* One step of that function.
Continues(f, seqs, i) == f[i] = IF i = 1 THEN seqs[i] ELSE f[i - 1] \o seqs[i]

LEMMA FlattenIs ==
  ASSUME NEW X, NEW seqs \in Seq(Seq(X))
  PROVE  /\ seqs = <<>> => FlattenSeq(seqs) = <<>>
         /\ seqs # <<>> => FlattenSeq(seqs) = Flatten(seqs)[Len(seqs)]
         /\ \A i \in 1..Len(seqs) : Continues(Flatten(seqs), seqs, i)
<1>1. FlattensTo(seqs, Len(seqs), Flatten(seqs))
  BY FlattenExists, LenProperties DEF Flatten
<1>2. \A i \in 1..Len(seqs) : Continues(Flatten(seqs), seqs, i)
  BY <1>1 DEF FlattensTo, Continues
<1>3. seqs = <<>> => FlattenSeq(seqs) = <<>>
  BY DEF FlattenSeq
<1>4. seqs # <<>> => FlattenSeq(seqs) = Flatten(seqs)[Len(seqs)]
  <2>1. seqs # <<>> => Len(seqs) # 0
    BY EmptySeq
  <2> QED
    BY <2>1 DEF FlattenSeq, Flatten, FlattensTo
<1> QED
  BY <1>2, <1>3, <1>4

\* Taking the first sequence off before or after flattening.
Shifts(X, n, u, t, g, h) ==
  /\ n \in Nat
  /\ \A i \in 1..n : u[i] \in Seq(X)
  /\ \A i \in 1..(n - 1) : t[i] = u[i + 1]
  /\ \A i \in 1..n : Continues(g, u, i)
  /\ \A i \in 1..(n - 1) : Continues(h, t, i)

Shifted(X, n, u, g, h) ==
  \A i \in 1..(n - 1) : h[i] \in Seq(X) /\ g[i + 1] = u[1] \o h[i]

LEMMA FlattenShift ==
  ASSUME NEW X, NEW n, NEW u, NEW t, NEW g, NEW h, Shifts(X, n, u, t, g, h)
  PROVE  Shifted(X, n, u, g, h)
<1> DEFINE P(i) == i \in 1..(n - 1) => h[i] \in Seq(X) /\ g[i + 1] = u[1] \o h[i]
           S == {i \in Nat : P(i)}
<1> USE DEF Shifts
<1>1. P(0)
  OBVIOUS
<1>2. ASSUME NEW i \in Nat, P(i) PROVE P(i + 1)
  <2> SUFFICES ASSUME i + 1 \in 1..(n - 1)
               PROVE  h[i + 1] \in Seq(X) /\ g[i + 1 + 1] = u[1] \o h[i + 1]
    OBVIOUS
  <2>a. i \in 1..(n - 1) => h[i] \in Seq(X) /\ g[i + 1] = u[1] \o h[i]
    BY <1>2
  <2> HIDE DEF P, S
  <2>1. PICK k \in 1..n : k = i + 2
    OBVIOUS
  <2>2. g[k] = g[i + 1] \o u[k]
    <3>1. Continues(g, u, k) /\ k # 1 /\ k - 1 = i + 1
      BY <2>1
    <3> QED
      BY <3>1, Zenon DEF Continues
  <2>3. t[i + 1] = u[k] /\ u[k] \in Seq(X) /\ u[1] \in Seq(X)
    BY <2>1
  <2>4. CASE i = 0
    <3>1. Continues(h, t, 1) /\ Continues(g, u, 1)
      BY <2>1, <2>4
    <3>2. h[1] = t[1] /\ g[1] = u[1]
      BY <3>1, Zenon DEF Continues
    <3>3. k = i + 1 + 1 /\ i + 1 = 1
      BY <2>1, <2>4
    <3>4. h[i + 1] = u[k] /\ g[i + 1] = u[1]
      BY <2>3, <3>2, <3>3, Zenon
    <3>5. g[i + 1 + 1] = g[k]
      BY <3>3, Zenon
    <3> QED
      BY <2>2, <2>3, <3>4, <3>5, Zenon
  <2>5. CASE i # 0
    <3>1. i \in 1..(n - 1) /\ i + 1 # 1 /\ i + 1 - 1 = i
      BY <2>5
    <3>2. PICK m \in 1..(n - 1) : m = i + 1
      OBVIOUS
    <3>a. h[m] = h[i] \o t[m]
      <4>1. Continues(h, t, m) /\ m # 1 /\ m - 1 = i
        BY <3>1, <3>2
      <4> QED
        BY <4>1, Zenon DEF Continues
    <3>3. h[i] \in Seq(X) /\ g[i + 1] = u[1] \o h[i]
      BY <2>a, <3>1
    <3>4. (u[1] \o h[i]) \o u[k] = u[1] \o (h[i] \o u[k])
      <4>1. \A x, y, z \in Seq(X) : (x \o y) \o z = x \o (y \o z)
        BY ConcatAssociative
      <4> QED
        BY <2>3, <3>3, <4>1, Zenon
    <3>5. h[i] \o u[k] \in Seq(X)
      BY <2>3, <3>3, ConcatProperties, Zenon
    <3>6. k = i + 1 + 1
      BY <2>1
    <3> QED
      BY <2>2, <2>3, <3>2, <3>a, <3>3, <3>4, <3>5, <3>6, Zenon
  <2> QED
    BY <2>4, <2>5
<1> HIDE DEF P
<1>3. Nat \subseteq S
  <2>1. 0 \in S
    BY <1>1
  <2>2. \A i \in Nat : i \in S => i + 1 \in S
    BY <1>2
  <2> HIDE DEF S
  <2> QED
    BY <2>1, <2>2, SetInduction, Zenon
<1>4. \A i \in 1..(n - 1) : P(i)
  BY <1>3
<1> QED
  BY <1>4, Zenon DEF P, Shifted

LEMMA FlattenCons ==
  ASSUME NEW X, NEW seqs \in Seq(Seq(X)), seqs # <<>>
  PROVE  /\ FlattenSeq(Tail(seqs)) \in Seq(X)
         /\ FlattenSeq(seqs) = seqs[1] \o FlattenSeq(Tail(seqs))
<1>1. PICK n \in Nat \ {0} : n = Len(seqs)
  BY LenProperties, EmptySeq
<1>2. PICK t \in Seq(Seq(X)) :
         t = Tail(seqs) /\ Len(t) = n - 1 /\ \A i \in 1..(n - 1) : t[i] = seqs[i + 1]
  <2>1. PICK t : t = Tail(seqs)
    OBVIOUS
  <2>2. t \in Seq(Seq(X)) /\ Len(t) = Len(seqs) - 1
           /\ \A i \in 1..Len(t) : t[i] = seqs[i + 1]
    BY <2>1, HeadTailProperties, Zenon
  <2> QED
    BY <1>1, <2>1, <2>2
<1>3. \A i \in 1..n : seqs[i] \in Seq(X)
  BY <1>1, ElementOfSeq
<1>4. PICK g : /\ FlattenSeq(seqs) = g[n]
               /\ \A i \in 1..n : Continues(g, seqs, i)
  BY <1>1, FlattenIs, Zenon
<1>5. PICK h : /\ t = <<>> => FlattenSeq(t) = <<>>
               /\ t # <<>> => FlattenSeq(t) = h[n - 1]
               /\ \A i \in 1..(n - 1) : Continues(h, t, i)
  BY <1>2, FlattenIs, Zenon
<1>6. \A i \in 1..(n - 1) : h[i] \in Seq(X) /\ g[i + 1] = seqs[1] \o h[i]
  <2>1. Shifts(X, n, seqs, t, g, h)
    <3>1. n \in Nat /\ \A i \in 1..(n - 1) : t[i] = seqs[i + 1]
      BY <1>1, <1>2
    <3> QED
      BY <1>3, <1>4, <1>5, <3>1, Zenon DEF Shifts
  <2>2. Shifted(X, n, seqs, g, h)
    BY <2>1, FlattenShift, Zenon
  <2>3. \A i \in 1..(n - 1) : h[i] \in Seq(X) /\ g[i + 1] = seqs[1] \o h[i]
    BY <2>2, Zenon DEF Shifted
  <2> QED
    BY <2>3
<1>a. t = <<>> <=> n = 1
  <2>1. t # <<>> => Len(t) # 0
    BY EmptySeq, Zenon
  <2>2. t = <<>> => Len(t) = 0
    BY EmptySeq, Zenon
  <2> QED
    BY <1>1, <1>2, <2>1, <2>2
<1>7. CASE n = 1
  <2>1. Continues(g, seqs, 1) /\ seqs[1] \in Seq(X)
    BY <1>3, <1>4, <1>7
  <2>2. g[1] = seqs[1]
    BY <2>1, Zenon DEF Continues
  <2>3. FlattenSeq(t) = <<>>
    BY <1>5, <1>7, <1>a
  <2>4. seqs[1] \o <<>> = seqs[1] /\ <<>> \in Seq(X)
    BY <2>1, ConcatEmptySeq, EmptySeq, Zenon
  <2> QED
    BY <1>2, <1>4, <1>7, <2>2, <2>3, <2>4, Zenon
<1>8. CASE n # 1
  <2>1. n - 1 \in 1..(n - 1) /\ n - 1 + 1 = n
    BY <1>1, <1>8
  <2> QED
    BY <1>2, <1>4, <1>5, <1>6, <1>8, <1>a, <2>1, Zenon
<1> QED
  BY <1>7, <1>8

-----------------------------------------------------------------------------
(* The stream as it is read *)

\* What follows when the first k - 1 of some pieces have been read.
From(seqs, k) == FlattenSeq(SubSeq(seqs, k, Len(seqs)))

LEMMA FromCons ==
  ASSUME NEW X, NEW seqs \in Seq(Seq(X)), NEW k \in 1..Len(seqs)
  PROVE  /\ From(seqs, k) = seqs[k] \o From(seqs, k + 1)
         /\ seqs[k] \in Seq(X) /\ From(seqs, k + 1) \in Seq(X)
<1>1. PICK n \in Nat : n = Len(seqs) /\ k \in 1..n
  BY LenProperties
<1>2. PICK s : s = SubSeq(seqs, k, n)
  OBVIOUS
<1>3. s \in Seq(Seq(X)) /\ Len(s) = n - k + 1
  <2>1. \A i \in k..n : seqs[i] \in Seq(X)
    BY <1>1, ElementOfSeq
  <2>2. k \in Int /\ n \in Int /\ k <= n
    BY <1>1
  <2> QED
    BY <1>2, <2>1, <2>2, SubSeqProperties
<1>4. s # <<>>
  <2>1. s = <<>> => Len(s) = 0
    BY EmptySeq, Zenon
  <2> QED
    BY <1>1, <1>3, <2>1
<1>5. Head(s) = seqs[k] /\ Tail(s) = SubSeq(seqs, k + 1, n)
  <2>1. k \in 1..Len(seqs) /\ n \in k..Len(seqs)
    BY <1>1
  <2> QED
    BY <1>2, <2>1, HeadTailOfSubSeq
<1>6. Head(s) = s[1]
  OBVIOUS
<1>7. FlattenSeq(s) = s[1] \o FlattenSeq(Tail(s)) /\ FlattenSeq(Tail(s)) \in Seq(X)
  BY <1>3, <1>4, FlattenCons, Zenon
<1>8. From(seqs, k) = FlattenSeq(s) /\ From(seqs, k + 1) = FlattenSeq(Tail(s))
  BY <1>1, <1>2, <1>5, Zenon DEF From
<1>9. seqs[k] \in Seq(X)
  BY ElementOfSeq
<1> QED
  BY <1>5, <1>6, <1>7, <1>8, <1>9, Zenon

LEMMA FromEnds ==
  ASSUME NEW X, NEW seqs \in Seq(Seq(X))
  PROVE  /\ From(seqs, 1) = FlattenSeq(seqs)
         /\ From(seqs, Len(seqs) + 1) = <<>>
<1>1. SubSeq(seqs, 1, Len(seqs)) = seqs
  BY SubSeqFull
<1>2. SubSeq(seqs, Len(seqs) + 1, Len(seqs)) = <<>>
  <2>1. Len(seqs) + 1 \in Int /\ Len(seqs) \in Int /\ Len(seqs) < Len(seqs) + 1
    BY LenProperties
  <2> QED
    BY <2>1, SubSeqEmpty
<1>3. FlattenSeq(<<>>) = <<>>
  BY EmptySeq, FlattenIs
<1> QED
  BY <1>1, <1>2, <1>3 DEF From

\* Concatenation under a name the provers know nothing of but these two facts.
Cat(a, b) == a \o b

LEMMA CatTypes ==
  ASSUME NEW X
  PROVE  \A a, b \in Seq(X) : Cat(a, b) \in Seq(X)
  BY ConcatProperties DEF Cat

LEMMA CatAssociative ==
  ASSUME NEW X
  PROVE  \A a, b, c \in Seq(X) : Cat(Cat(a, b), c) = Cat(a, Cat(b, c))
  BY ConcatAssociative DEF Cat

Regrouped(X, a, b, c, d, r) ==
  /\ (((a \o b) \o c) \o d) \o r = a \o (b \o (c \o (d \o r)))
  /\ b \o (c \o (d \o r)) \in Seq(X) /\ ((a \o b) \o c) \o d \in Seq(X)

LEMMA Regroup ==
  ASSUME NEW X, NEW a \in Seq(X), NEW b \in Seq(X), NEW c \in Seq(X), NEW d \in Seq(X),
         NEW r \in Seq(X)
  PROVE  Regrouped(X, a, b, c, d, r)
<1>1. \A x, y \in Seq(X) : Cat(x, y) \in Seq(X)
  BY CatTypes
<1>2. \A x, y, z \in Seq(X) : Cat(Cat(x, y), z) = Cat(x, Cat(y, z))
  BY CatAssociative
<1>3. /\ Cat(Cat(Cat(Cat(a, b), c), d), r) = Cat(a, Cat(b, Cat(c, Cat(d, r))))
      /\ Cat(b, Cat(c, Cat(d, r))) \in Seq(X) /\ Cat(Cat(Cat(a, b), c), d) \in Seq(X)
  <2>1. Cat(a, b) \in Seq(X) /\ Cat(d, r) \in Seq(X)
    BY <1>1, Zenon
  <2>2. Cat(Cat(a, b), c) \in Seq(X) /\ Cat(c, Cat(d, r)) \in Seq(X)
    BY <1>1, <2>1, Zenon
  <2>3. Cat(Cat(Cat(a, b), c), d) \in Seq(X) /\ Cat(b, Cat(c, Cat(d, r))) \in Seq(X)
    BY <1>1, <2>2, Zenon
  <2>4. Cat(Cat(Cat(Cat(a, b), c), d), r) = Cat(Cat(Cat(a, b), c), Cat(d, r))
    BY <1>2, <2>2
  <2>5. Cat(Cat(Cat(a, b), c), Cat(d, r)) = Cat(Cat(a, b), Cat(c, Cat(d, r)))
    BY <1>2, <2>1
  <2>6. Cat(Cat(a, b), Cat(c, Cat(d, r))) = Cat(a, Cat(b, Cat(c, Cat(d, r))))
    BY <1>2, <2>2
  <2> QED
    BY <2>3, <2>4, <2>5, <2>6, Zenon
<1> QED
  BY <1>3, Zenon DEF Cat, Regrouped

\* The frame k of those written, and the parts of the stream behind what is read.
Texts(w) == [i \in DOMAIN w |-> ClientFrame(w[i])]
Lines(f) == [i \in DOMAIN f.headers |->
               f.headers[i][1] \o <<Colon>> \o f.headers[i][2] \o <<NL>>]

AfterFrame(w, k)       == From(Texts(w), k + 1)
AfterHeaders(w, k)     == w[k].body \o (<<Nul>> \o AfterFrame(w, k))
HeadersFrom(w, k, j)   == From(Lines(w[k]), j) \o (<<NL>> \o AfterHeaders(w, k))
AfterName(w, k, j)     == w[k].headers[j][2] \o (<<NL>> \o HeadersFrom(w, k, j + 1))

LEMMA DelimiterTypes ==
  /\ <<NL>> \in Seq(Byte) /\ <<Colon>> \in Seq(Byte) /\ <<Nul>> \in Seq(Byte)
  /\ NL \in Byte /\ Colon \in Byte /\ Nul \in Byte
<1>1. NL \in Byte /\ Colon \in Byte /\ Nul \in Byte
  BY DEF Byte
<1> QED
  BY <1>1

LEMMA FrameTypes ==
  ASSUME NEW f \in Frame
  PROVE  /\ f.command \in Seq(Byte) /\ f.body \in Seq(Byte)
         /\ Len(f.headers) \in Nat /\ DOMAIN f.headers = 1..Len(f.headers)
         /\ \A j \in 1..Len(f.headers) :
              f.headers[j][1] \in Seq(Byte) /\ f.headers[j][2] \in Seq(Byte)
<1>1. f.headers \in Seq(Seq(Byte) \X Seq(Byte)) /\ f.command \in Seq(Byte) /\ f.body \in Seq(Byte)
  BY DEF Frame
<1>2. Len(f.headers) \in Nat /\ DOMAIN f.headers = 1..Len(f.headers)
  BY <1>1, LenProperties
<1>3. ASSUME NEW j \in 1..Len(f.headers)
      PROVE  f.headers[j][1] \in Seq(Byte) /\ f.headers[j][2] \in Seq(Byte)
  <2>1. f.headers[j] \in Seq(Byte) \X Seq(Byte)
    BY <1>1, ElementOfSeq
  <2> QED
    BY <2>1
<1> QED
  BY <1>1, <1>2, <1>3

LEMMA LinesTypes ==
  ASSUME NEW f \in Frame
  PROVE  /\ Lines(f) \in Seq(Seq(Byte)) /\ Len(Lines(f)) = Len(f.headers)
         /\ HeaderLines(f) = FlattenSeq(Lines(f)) /\ HeaderLines(f) \in Seq(Byte)
<1>1. ASSUME NEW j \in 1..Len(f.headers)
      PROVE  f.headers[j][1] \o <<Colon>> \o f.headers[j][2] \o <<NL>> \in Seq(Byte)
  <2>1. f.headers[j][1] \in Seq(Byte) /\ f.headers[j][2] \in Seq(Byte)
    BY FrameTypes
  <2> QED
    BY <2>1, DelimiterTypes, ConcatProperties
<1>2. Lines(f) \in [1..Len(f.headers) -> Seq(Byte)]
  BY <1>1, FrameTypes DEF Lines
<1>3. Lines(f) \in Seq(Seq(Byte)) /\ Len(Lines(f)) = Len(f.headers)
  <2>1. PICK n \in Nat : n = Len(f.headers)
    BY FrameTypes
  <2>2. Lines(f) \in [1..n -> Seq(Byte)]
    BY <1>2, <2>1
  <2> QED
    BY <2>1, <2>2
<1>4. HeaderLines(f) = FlattenSeq(Lines(f))
  BY DEF HeaderLines, Lines
<1>5. FlattenSeq(Lines(f)) \in Seq(Byte)
  <2>1. CASE Lines(f) = <<>>
    BY <2>1, <1>3, FlattenIs, EmptySeq
  <2>2. CASE Lines(f) # <<>>
    <3>1. Lines(f)[1] \in Seq(Byte)
      BY <1>3, <2>2, EmptySeq, ElementOfSeq
    <3> QED
      BY <1>3, <2>2, <3>1, FlattenCons, ConcatProperties
  <2> QED
    BY <2>1, <2>2
<1> QED
  BY <1>3, <1>4, <1>5

LEMMA FrameText ==
  ASSUME NEW f \in Frame, NEW r \in Seq(Byte)
  PROVE  /\ ClientFrame(f) \o r
              = f.command \o (<<NL>> \o (HeaderLines(f) \o (<<NL>> \o (f.body \o (<<Nul>> \o r)))))
         /\ ClientFrame(f) \in Seq(Byte)
<1>1. PICK A, b, z : /\ A = ((f.command \o <<NL>>) \o HeaderLines(f)) \o <<NL>>
                     /\ b = f.body /\ z = <<Nul>>
  OBVIOUS
<1>2. ClientFrame(f) = (A \o b) \o z
  BY <1>1, Zenon DEF ClientFrame
<1>3. b \in Seq(Byte) /\ z \in Seq(Byte)
  BY <1>1, FrameTypes, DelimiterTypes, Zenon
<1>4. A \in Seq(Byte)
  BY <1>1, FrameTypes, LinesTypes, DelimiterTypes, ConcatProperties, Zenon
<1>5. \A x, y \in Seq(Byte) : Cat(x, y) \in Seq(Byte)
  BY CatTypes
<1>6. \A x, y, v \in Seq(Byte) : Cat(Cat(x, y), v) = Cat(x, Cat(y, v))
  BY CatAssociative
<1>7. Cat(Cat(Cat(A, b), z), r) = Cat(A, Cat(b, Cat(z, r)))
  <2>1. Cat(A, b) \in Seq(Byte) /\ Cat(z, r) \in Seq(Byte)
    BY <1>3, <1>4, <1>5, Zenon
  <2>2. Cat(Cat(Cat(A, b), z), r) = Cat(Cat(A, b), Cat(z, r))
    BY <1>3, <1>6, <2>1
  <2>3. Cat(Cat(A, b), Cat(z, r)) = Cat(A, Cat(b, Cat(z, r)))
    BY <1>3, <1>4, <1>6, <2>1
  <2> QED
    BY <2>2, <2>3, Zenon
<1>8. PICK R : R = b \o (z \o r)
  OBVIOUS
<1>9. R \in Seq(Byte)
  BY <1>3, <1>8, ConcatProperties, Zenon
<1>10. A \o R = f.command \o (<<NL>> \o (HeaderLines(f) \o (<<NL>> \o R)))
  <2>1. f.command \in Seq(Byte) /\ <<NL>> \in Seq(Byte) /\ HeaderLines(f) \in Seq(Byte)
    BY FrameTypes, LinesTypes, DelimiterTypes, Zenon
  <2>2. (((f.command \o <<NL>>) \o HeaderLines(f)) \o <<NL>>) \o R
          = f.command \o (<<NL>> \o (HeaderLines(f) \o (<<NL>> \o R)))
    <3>1. PICK c, nl, h \in Seq(Byte) : c = f.command /\ nl = <<NL>> /\ h = HeaderLines(f)
      BY <2>1, Zenon
    <3>2. (((c \o nl) \o h) \o nl) \o R = c \o (nl \o (h \o (nl \o R)))
      <4>1. Regrouped(Byte, c, nl, h, nl, R)
        BY <1>9, Regroup, Zenon
      <4> QED
        BY <4>1, Zenon DEF Regrouped
    <3> QED
      BY <3>1, <3>2, Zenon
  <2> QED
    BY <1>1, <2>2, Zenon
<1>11. ClientFrame(f) \o r = A \o R
  <2>1. ((A \o b) \o z) \o r = A \o (b \o (z \o r))
    BY <1>7, Zenon DEF Cat
  <2> QED
    BY <1>2, <1>8, <2>1, Zenon
<1>12. ClientFrame(f) \in Seq(Byte)
  <2>1. A \o b \in Seq(Byte)
    BY <1>3, <1>4, ConcatProperties, Zenon
  <2> QED
    BY <1>2, <1>3, <2>1, ConcatProperties, Zenon
<1> QED
  BY <1>1, <1>8, <1>10, <1>11, <1>12, Zenon

LEMMA TextsTypes ==
  ASSUME NEW w \in Seq(Frame)
  PROVE  Texts(w) \in Seq(Seq(Byte)) /\ Len(Texts(w)) = Len(w)
<1>1. \A i \in DOMAIN w : ClientFrame(w[i]) \in Seq(Byte)
  <2>1. \A i \in DOMAIN w : w[i] \in Frame
    BY LenProperties, ElementOfSeq
  <2> QED
    BY <2>1, FrameText, EmptySeq
<1>2. PICK n \in Nat : n = Len(w) /\ DOMAIN w = 1..n
  BY LenProperties
<1>3. Texts(w) \in [1..n -> Seq(Byte)]
  BY <1>1, <1>2 DEF Texts
<1> QED
  BY <1>2, <1>3

\* The text of a frame and of one of its lines, with what follows.
LEMMA Layout ==
  ASSUME NEW w \in Seq(Frame), NEW k \in 1..Len(w)
  PROVE  /\ From(Texts(w), k) = w[k].command \o (<<NL>> \o HeadersFrom(w, k, 1))
         /\ AfterFrame(w, k) \in Seq(Byte) /\ AfterHeaders(w, k) \in Seq(Byte)
         /\ HeadersFrom(w, k, Len(w[k].headers) + 1) = <<NL>> \o AfterHeaders(w, k)
         /\ HeadersFrom(w, k, 1) \in Seq(Byte)
         /\ \A j \in 1..Len(w[k].headers) :
              /\ HeadersFrom(w, k, j) = w[k].headers[j][1] \o (<<Colon>> \o AfterName(w, k, j))
              /\ AfterName(w, k, j) \in Seq(Byte)
              /\ HeadersFrom(w, k, j + 1) \in Seq(Byte)
<1>1. PICK f \in Frame : f = w[k]
  BY ElementOfSeq
<1>2. Texts(w) \in Seq(Seq(Byte)) /\ k \in 1..Len(Texts(w))
  BY TextsTypes
<1>3. From(Texts(w), k) = Texts(w)[k] \o AfterFrame(w, k) /\ AfterFrame(w, k) \in Seq(Byte)
  BY <1>2, FromCons, Zenon DEF AfterFrame
<1>4. Texts(w)[k] = ClientFrame(f)
  BY <1>1, LenProperties DEF Texts
<1>5. PICK R \in Seq(Byte) : R = AfterHeaders(w, k) /\ R = f.body \o (<<Nul>> \o AfterFrame(w, k))
  BY <1>1, <1>3, FrameTypes, DelimiterTypes, ConcatProperties, Zenon DEF AfterHeaders
<1>6. PICK L : /\ L = Lines(f) /\ L \in Seq(Seq(Byte)) /\ Len(L) = Len(f.headers)
               /\ HeaderLines(f) = FlattenSeq(L) /\ HeaderLines(f) \in Seq(Byte)
  BY LinesTypes, Zenon
<1>7. From(L, 1) = HeaderLines(f) /\ From(L, Len(f.headers) + 1) = <<>>
  BY <1>6, FromEnds, Zenon
<1>8. \A j : HeadersFrom(w, k, j) = From(L, j) \o (<<NL>> \o R)
  BY <1>1, <1>5, <1>6, Zenon DEF HeadersFrom
<1>9. <<NL>> \o R \in Seq(Byte)
  BY <1>5, DelimiterTypes, ConcatProperties, Zenon
<1>10. From(Texts(w), k) = w[k].command \o (<<NL>> \o HeadersFrom(w, k, 1))
  <2>1. ClientFrame(f) \o AfterFrame(w, k)
          = f.command \o (<<NL>> \o (HeaderLines(f) \o (<<NL>> \o R)))
    BY <1>3, <1>5, FrameText, Zenon
  <2> QED
    BY <1>1, <1>3, <1>4, <1>7, <1>8, <2>1, Zenon
<1>11. HeadersFrom(w, k, Len(w[k].headers) + 1) = <<NL>> \o AfterHeaders(w, k)
  <2>1. <<>> \o (<<NL>> \o R) = <<NL>> \o R
    BY <1>9, ConcatEmptySeq, Zenon
  <2> QED
    BY <1>1, <1>5, <1>7, <1>8, <2>1, Zenon
<1>12. HeadersFrom(w, k, 1) \in Seq(Byte)
  BY <1>6, <1>7, <1>8, <1>9, ConcatProperties, Zenon
<1>13. ASSUME NEW j \in 1..Len(f.headers)
       PROVE  /\ HeadersFrom(w, k, j) = f.headers[j][1] \o (<<Colon>> \o AfterName(w, k, j))
              /\ AfterName(w, k, j) \in Seq(Byte)
              /\ HeadersFrom(w, k, j + 1) \in Seq(Byte)
  <2>1. From(L, j) = L[j] \o From(L, j + 1) /\ L[j] \in Seq(Byte) /\ From(L, j + 1) \in Seq(Byte)
    <3>1. j \in 1..Len(L)
      BY <1>6, Zenon
    <3> QED
      BY <1>6, <3>1, FromCons, Zenon
  <2>2. PICK x, v \in Seq(Byte) : x = f.headers[j][1] /\ v = f.headers[j][2]
    BY FrameTypes, Zenon
  <2>3. L[j] = ((x \o <<Colon>>) \o v) \o <<NL>>
    <3>1. j \in DOMAIN f.headers
      BY FrameTypes, Zenon
    <3>2. Lines(f)[j] = ((f.headers[j][1] \o <<Colon>>) \o f.headers[j][2]) \o <<NL>>
      BY <3>1 DEF Lines
    <3> QED
      BY <1>6, <2>2, <3>2, Zenon
  <2>4. PICK S \in Seq(Byte) : S = From(L, j + 1) \o (<<NL>> \o R)
    BY <2>1, <1>9, ConcatProperties, Zenon
  <2>5. S = HeadersFrom(w, k, j + 1)
    BY <1>8, <2>4, Zenon
  <2>6. AfterName(w, k, j) = v \o (<<NL>> \o S)
    BY <1>1, <2>2, <2>5, Zenon DEF AfterName
  <2>7. AfterName(w, k, j) \in Seq(Byte)
    <3>1. <<NL>> \o S \in Seq(Byte)
      BY <2>4, DelimiterTypes, ConcatProperties, Zenon
    <3>2. v \o (<<NL>> \o S) \in Seq(Byte)
      BY <2>2, <3>1, ConcatProperties, Zenon
    <3> QED
      BY <2>6, <3>2, Zenon
  <2>8. (L[j] \o From(L, j + 1)) \o (<<NL>> \o R) = L[j] \o S
    <3>1. PICK l, m, t \in Seq(Byte) : l = L[j] /\ m = From(L, j + 1) /\ t = <<NL>> \o R
      BY <2>1, <1>9, Zenon
    <3>2. \A x1, y1, z1 \in Seq(Byte) : Cat(Cat(x1, y1), z1) = Cat(x1, Cat(y1, z1))
      BY CatAssociative
    <3>3. Cat(Cat(l, m), t) = Cat(l, Cat(m, t))
      BY <3>2
    <3>4. (l \o m) \o t = l \o (m \o t)
      BY <3>3, Zenon DEF Cat
    <3> QED
      BY <2>4, <3>1, <3>4, Zenon
  <2>9. L[j] \o S = x \o (<<Colon>> \o (v \o (<<NL>> \o S)))
    <3>1. <<Colon>> \in Seq(Byte) /\ <<NL>> \in Seq(Byte)
      BY DelimiterTypes, Zenon
    <3>2. PICK c, nl \in Seq(Byte) : c = <<Colon>> /\ nl = <<NL>>
      BY <3>1, Zenon
    <3>3. (((x \o c) \o v) \o nl) \o S = x \o (c \o (v \o (nl \o S)))
      <4>1. Regrouped(Byte, x, c, v, nl, S)
        BY Regroup, Zenon
      <4> QED
        BY <4>1, Zenon DEF Regrouped
    <3> QED
      BY <2>3, <3>2, <3>3, Zenon
  <2> QED
    BY <1>8, <2>1, <2>2, <2>5, <2>6, <2>7, <2>8, <2>9, Zenon
<1> QED
  BY <1>1, <1>3, <1>5, <1>10, <1>11, <1>12, <1>13, Zenon

-----------------------------------------------------------------------------
(* Reading a piece *)

LEMMA HeadOfCons ==
  ASSUME NEW X, NEW e \in X, NEW s \in Seq(X)
  PROVE  /\ <<e>> \o s # <<>> /\ Head(<<e>> \o s) = e /\ Tail(<<e>> \o s) = s
<1>1. PICK t : t = <<e>> \o s
  OBVIOUS
<1>2. PICK n \in Nat : n = Len(s)
  BY LenProperties
<1>3. <<e>> \in Seq(X) /\ Len(<<e>>) = 1
  OBVIOUS
<1>4. t \in Seq(X) /\ Len(t) = n + 1
         /\ \A i \in 1..(n + 1) : t[i] = IF i <= 1 THEN <<e>>[i] ELSE s[i - 1]
  BY <1>1, <1>2, <1>3, ConcatProperties
<1>5. t # <<>> /\ t[1] = e
  <2>1. t = <<>> => Len(t) = 0
    BY EmptySeq, Zenon
  <2>2. 1 \in 1..(n + 1)
    BY <1>2
  <2> QED
    BY <1>2, <1>4, <2>1, <2>2
<1>6. PICK u : u = Tail(t)
  OBVIOUS
<1>7. u \in Seq(X) /\ Len(u) = n /\ \A i \in 1..n : u[i] = t[i + 1]
  <2>1. u \in Seq(X) /\ Len(u) = Len(t) - 1 /\ \A i \in 1..Len(u) : u[i] = t[i + 1]
    BY <1>4, <1>5, <1>6, HeadTailProperties, Zenon
  <2> QED
    BY <1>2, <1>4, <2>1
<1>8. \A i \in 1..n : u[i] = s[i]
  <2> TAKE i \in 1..n
  <2>1. PICK j \in 1..(n + 1) : j = i + 1 /\ ~(j <= 1) /\ j - 1 = i
    BY <1>2
  <2>2. t[j] = s[j - 1]
    BY <1>4, <2>1
  <2> QED
    BY <1>7, <2>1, <2>2
<1>9. u = s
  BY <1>2, <1>7, <1>8, SeqEqual
<1>10. Head(t) = t[1]
  OBVIOUS
<1> QED
  BY <1>1, <1>5, <1>6, <1>9, <1>10, Zenon

LEMMA ConsOfHead ==
  ASSUME NEW X, NEW s \in Seq(X), s # <<>>
  PROVE  \E e \in X : \E t \in Seq(X) : s = <<e>> \o t
<1>1. PICK e \in X : e = s[1]
  BY HeadTailProperties
<1>2. PICK t \in Seq(X) : t = Tail(s)
  BY HeadTailProperties
<1>3. PICK n \in Nat \ {0} : n = Len(s)
  BY LenProperties, EmptySeq
<1>4. Len(t) = n - 1 /\ \A i \in 1..(n - 1) : t[i] = s[i + 1]
  <2>1. Len(t) = Len(s) - 1 /\ \A i \in 1..Len(t) : t[i] = s[i + 1]
    BY <1>2, HeadTailProperties, Zenon
  <2> QED
    BY <1>3, <2>1
<1>5. PICK u : u = <<e>> \o t
  OBVIOUS
<1>6. <<e>> \in Seq(X) /\ Len(<<e>>) = 1
  OBVIOUS
<1>7. u \in Seq(X) /\ Len(u) = n
        /\ \A i \in 1..n : u[i] = IF i <= 1 THEN <<e>>[i] ELSE t[i - 1]
  <2>1. /\ u \in Seq(X) /\ Len(u) = Len(<<e>>) + Len(t)
        /\ \A i \in 1..(Len(<<e>>) + Len(t)) :
             u[i] = IF i <= Len(<<e>>) THEN <<e>>[i] ELSE t[i - Len(<<e>>)]
    BY <1>5, <1>6, ConcatProperties, Zenon
  <2>2. Len(<<e>>) + Len(t) = n
    BY <1>3, <1>4, <1>6
  <2> QED
    BY <1>6, <2>1, <2>2
<1>8. \A i \in 1..n : u[i] = s[i]
  <2> TAKE i \in 1..n
  <2>1. CASE i = 1
    BY <1>1, <1>7, <2>1
  <2>2. CASE i # 1
    <3>1. PICK j \in 1..(n - 1) : j = i - 1 /\ j + 1 = i
      BY <1>3, <2>2
    <3>2. u[i] = t[j]
      BY <1>7, <2>2, <3>1
    <3> QED
      BY <1>4, <3>1, <3>2
  <2> QED
    BY <2>1, <2>2
<1>9. u = s
  BY <1>3, <1>7, <1>8, SeqEqual
<1> QED
  BY <1>5, <1>9

\* A piece p of the stream, its delimiter d and the rest r: b of the piece is in
\* the buffer, and st is what the stream still holds of the three.
Splits(p, d, r, b, st) ==
  /\ b \in Seq(Byte) /\ r \in Seq(Byte)
  /\ \E s \in Seq(Byte) : p = b \o s /\ st = s \o (<<d>> \o r)

LEMMA SplitsStart ==
  ASSUME NEW p \in Seq(Byte), NEW d \in Byte, NEW r \in Seq(Byte)
  PROVE  Splits(p, d, r, <<>>, p \o (<<d>> \o r))
<1>1. p = <<>> \o p /\ <<>> \in Seq(Byte)
  BY ConcatEmptySeq, EmptySeq, Zenon
<1> QED
  BY <1>1, Zenon DEF Splits

\* A byte taken off the stream is one of the piece and goes to the buffer, or it
\* is the delimiter, and the buffer is the piece.
LEMMA SplitsStep ==
  ASSUME NEW D, NEW p \in Seq(Byte \ D), NEW d \in Byte, NEW r, NEW b, NEW st,
         Splits(p, d, r, b, st)
  PROVE  /\ st # <<>>
         /\ \/ Head(st) \in Byte \ D /\ Splits(p, d, r, Append(b, Head(st)), Tail(st))
            \/ Head(st) = d /\ Tail(st) = r /\ b = p
<1>1. PICK s \in Seq(Byte) : p = b \o s /\ st = s \o (<<d>> \o r)
  BY Zenon DEF Splits
<1>2. b \in Seq(Byte) /\ r \in Seq(Byte)
  BY Zenon DEF Splits
<1>3. CASE s = <<>>
  <2>1. b \o <<>> = b
    BY <1>2, ConcatEmptySeq, Zenon
  <2>2. <<>> \o (<<d>> \o r) = <<d>> \o r
    <3>1. <<d>> \in Seq(Byte)
      OBVIOUS
    <3>2. <<d>> \o r \in Seq(Byte)
      BY <1>2, <3>1, ConcatProperties, Zenon
    <3> QED
      BY <3>2, ConcatEmptySeq, Zenon
  <2>3. st = <<d>> \o r /\ p = b
    BY <1>1, <1>3, <2>1, <2>2, Zenon
  <2> QED
    BY <1>2, <2>3, HeadOfCons, Zenon
<1>4. CASE s # <<>>
  <2>1. PICK e \in Byte : \E t \in Seq(Byte) : s = <<e>> \o t
    BY <1>4, ConsOfHead, Zenon
  <2>2. PICK t \in Seq(Byte) : s = <<e>> \o t
    BY <2>1
  <2>3. PICK x, y \in Seq(Byte) : x = <<e>> /\ y = <<d>> \o r
    <3>1. <<d>> \in Seq(Byte) /\ <<e>> \in Seq(Byte)
      OBVIOUS
    <3>2. <<d>> \o r \in Seq(Byte)
      BY <1>2, <3>1, ConcatProperties, Zenon
    <3> QED
      BY <3>1, <3>2, Zenon
  <2>4. PICK v \in Seq(Byte) : v = t \o y
    BY ConcatProperties, Zenon
  <2>5. st = <<e>> \o v
    <3>1. Cat(Cat(x, t), y) = Cat(x, Cat(t, y))
      BY CatAssociative
    <3>2. (x \o t) \o y = x \o (t \o y)
      BY <3>1, Zenon DEF Cat
    <3> QED
      BY <1>1, <2>2, <2>3, <2>4, <3>2, Zenon
  <2>6. st # <<>> /\ Head(st) = e /\ Tail(st) = v
    BY <2>5, HeadOfCons, Zenon
  <2>7. Append(b, e) = b \o x /\ Append(b, e) \in Seq(Byte)
    BY <1>2, <2>3, AppendIsConcat, AppendProperties, Zenon
  <2>8. p = Append(b, e) \o t
    <3>1. PICK bb \in Seq(Byte) : bb = b
      BY <1>2, Zenon
    <3>2. Cat(Cat(bb, x), t) = Cat(bb, Cat(x, t))
      BY CatAssociative
    <3>3. (b \o x) \o t = b \o (x \o t)
      BY <3>1, <3>2, Zenon DEF Cat
    <3> QED
      BY <1>1, <2>2, <2>3, <2>7, <3>3, Zenon
  <2>9. Splits(p, d, r, Append(b, e), v)
    BY <1>2, <2>3, <2>4, <2>7, <2>8, Zenon DEF Splits
  <2>10. e \in Byte \ D
    <3>1. PICK n \in Nat : n = Len(b)
      BY <1>2, LenProperties
    <3>2. PICK m \in Nat \ {0} : m = Len(s)
      BY <1>4, LenProperties, EmptySeq
    <3>3. /\ Len(p) = n + m
          /\ \A i \in 1..(n + m) : p[i] = IF i <= n THEN b[i] ELSE s[i - n]
      BY <1>1, <1>2, <3>1, <3>2, ConcatProperties, Zenon
    <3>4. PICK i \in 1..(n + m) : i = n + 1
      BY <3>1, <3>2
    <3>5. p[i] = s[1]
      BY <3>1, <3>3, <3>4
    <3>6. p[i] \in Byte \ D
      BY <3>3, ElementOfSeq, Zenon
    <3>7. s[1] = e
      BY <2>2, HeadOfCons
    <3> QED
      BY <3>5, <3>6, <3>7, Zenon
  <2> QED
    BY <2>6, <2>9, <2>10, Zenon
<1> QED
  BY <1>3, <1>4

-----------------------------------------------------------------------------
(* The frame that is being put together *)

\* The first j of its headers.
KeysTo(f, j)    == {f.headers[i][1] : i \in 1..j}
ValueOf(f, key) == f.headers[CHOOSE i \in DOMAIN f.headers : f.headers[i][1] = key][2]
HeadersTo(f, j) == [key \in KeysTo(f, j) |-> ValueOf(f, key)]
Partial(f, j) == [command |-> f.command, headers |-> HeadersTo(f, j), body |-> <<>>]

LEMMA PartialFrames ==
  ASSUME NEW f \in Frame, WellFormed(f)
  PROVE  /\ Partial(f, 0) = Empty(f.command)
         /\ \A j \in 1..Len(f.headers) :
              [Partial(f, j - 1) EXCEPT
                 !.headers = Put(@, f.headers[j][1], f.headers[j][2])] = Partial(f, j)
         /\ [Partial(f, Len(f.headers)) EXCEPT !.body = f.body] = AsDecoded(f)
<1>1. PICK n \in Nat : n = Len(f.headers) /\ DOMAIN f.headers = 1..n
  BY FrameTypes
<1>2. Partial(f, 0) = Empty(f.command)
  <2>1. HeadersTo(f, 0) = <<>>
    <3>1. KeysTo(f, 0) = {}
      BY DEF KeysTo
    <3> QED
      BY <3>1 DEF HeadersTo
  <2> QED
    BY <2>1 DEF Partial, Empty
<1>3. ASSUME NEW j \in 1..n
      PROVE  [Partial(f, j - 1) EXCEPT
                !.headers = Put(@, f.headers[j][1], f.headers[j][2])] = Partial(f, j)
  <2>1. Put(HeadersTo(f, j - 1), f.headers[j][1], f.headers[j][2]) = HeadersTo(f, j)
    <3>1. PICK kj, vj : kj = f.headers[j][1] /\ vj = f.headers[j][2]
      OBVIOUS
    <3>2. KeysTo(f, j) = KeysTo(f, j - 1) \cup {kj}
      BY <1>1, <3>1 DEF KeysTo
    <3>3. (CHOOSE i \in DOMAIN f.headers : f.headers[i][1] = kj) = j
      <4>1. \A i \in 1..n : f.headers[i][1] = kj => i = j
        BY <1>1, <3>1 DEF WellFormed
      <4> QED
        BY <1>1, <3>1, <4>1
    <3>4. ValueOf(f, kj) = vj
      BY <3>1, <3>3 DEF ValueOf
    <3>5. DOMAIN HeadersTo(f, j - 1) = KeysTo(f, j - 1)
      BY DEF HeadersTo
    <3> QED
      BY <3>1, <3>2, <3>4, <3>5 DEF Put, HeadersTo
  <2> QED
    BY <2>1 DEF Partial
<1>4. [Partial(f, n) EXCEPT !.body = f.body] = AsDecoded(f)
  <2>1. [key \in {f.headers[i][1] : i \in DOMAIN f.headers} |->
           f.headers[CHOOSE i \in DOMAIN f.headers : f.headers[i][1] = key][2]] = HeadersTo(f, n)
    <3>1. {f.headers[i][1] : i \in DOMAIN f.headers} = KeysTo(f, n)
      BY <1>1 DEF KeysTo
    <3> QED
      BY <3>1, Zenon DEF HeadersTo, ValueOf
  <2>2. AsDecoded(f)
          = [command |-> f.command, body |-> f.body, headers |-> HeadersTo(f, n)]
    BY <2>1, Zenon DEF AsDecoded
  <2> QED
    BY <2>2 DEF Partial
<1> QED
  BY <1>1, <1>2, <1>3, <1>4

-----------------------------------------------------------------------------
(* The invariant *)

\* Where the decoder stands in frame k of w: in its command, in the name or the
\* value of header j, behind its headers, or in its body.
InCommand(w, k, q, b, st) ==
  q = "READING_COMMAND" /\ Splits(w[k].command, NL, HeadersFrom(w, k, 1), b, st)
InName(w, k, j, q, b, st, cf) ==
  /\ q = "READING_HEADERS" /\ cf = Partial(w[k], j - 1)
  /\ Splits(w[k].headers[j][1], Colon, AfterName(w, k, j), b, st)
InValue(w, k, j, q, b, st, h, cf) ==
  /\ q = "READING_HEADERS" /\ cf = Partial(w[k], j - 1) /\ h = w[k].headers[j][1]
  /\ Splits(w[k].headers[j][2], NL, HeadersFrom(w, k, j + 1), b, st)
BehindHeaders(w, k, q, b, st, cf) ==
  /\ q = "READING_HEADERS" /\ cf = Partial(w[k], Len(w[k].headers))
  /\ b = <<>> /\ st = <<NL>> \o AfterHeaders(w, k)
InBody(w, k, q, b, st, cf) ==
  /\ q = "READING_BODY" /\ cf = Partial(w[k], Len(w[k].headers))
  /\ Splits(w[k].body, Nul, AfterFrame(w, k), b, st)

Reading(w, k, q, b, st, h, cf) ==
  \/ InCommand(w, k, q, b, st)
  \/ \E j \in 1..Len(w[k].headers) : \/ InName(w, k, j, q, b, st, cf)
                                     \/ InValue(w, k, j, q, b, st, h, cf)
  \/ BehindHeaders(w, k, q, b, st, cf)
  \/ InBody(w, k, q, b, st, cf)
AllRead(w, k, q, b, st) ==
  k = Len(w) + 1 /\ q = "READING_COMMAND" /\ b = <<>> /\ st = <<>>

Stands(w, k, q, b, st, h, cf) ==
  \/ k \in 1..Len(w) /\ Reading(w, k, q, b, st, h, cf)
  \/ AllRead(w, k, q, b, st)

Returned(w, k, ds) ==
  /\ ds \in Seq({AsDecoded(f) : f \in Frame}) /\ k = Len(ds) + 1
  /\ \A i \in 1..Len(ds) : ds[i] = AsDecoded(w[i])

CodecInv ==
  /\ ~threw
  /\ written \in Seq(Frame) /\ \A i \in 1..Len(written) : WellFormed(written[i])
  /\ \E k \in 1..(Len(written) + 1) :
       /\ Returned(written, k, decoded)
       /\ Stands(written, k, state, bytes, stream, currentHeader, currentFrame)

\* Between two frames, and between two headers.
LEMMA NextFrame ==
  ASSUME NEW w \in Seq(Frame), NEW k \in 1..(Len(w) + 1), NEW h, NEW cf
  PROVE  Stands(w, k, "READING_COMMAND", <<>>, From(Texts(w), k), h, cf)
<1>1. CASE k \in 1..Len(w)
  <2>1. PICK p, r \in Seq(Byte) : p = w[k].command /\ r = HeadersFrom(w, k, 1)
    <3>1. w[k] \in Frame
      BY <1>1, ElementOfSeq, Zenon
    <3> QED
      BY <1>1, <3>1, FrameTypes, Layout, Zenon
  <2>2. From(Texts(w), k) = p \o (<<NL>> \o r)
    BY <1>1, <2>1, Layout, Zenon
  <2>3. Splits(p, NL, r, <<>>, p \o (<<NL>> \o r))
    BY SplitsStart, DelimiterTypes, Zenon
  <2> QED
    BY <1>1, <2>1, <2>2, <2>3, Zenon DEF Stands, Reading, InCommand
<1>2. CASE k = Len(w) + 1
  <2>1. From(Texts(w), k) = <<>>
    BY <1>2, TextsTypes, FromEnds, Zenon
  <2> QED
    BY <1>2, <2>1, Zenon DEF Stands, AllRead
<1>3. k \in 1..Len(w) \/ k = Len(w) + 1
  BY LenProperties
<1> QED
  BY <1>1, <1>2, <1>3

LEMMA NextHeader ==
  ASSUME NEW w \in Seq(Frame), NEW k \in 1..Len(w),
         NEW j \in 1..(Len(w[k].headers) + 1), NEW h
  PROVE  Reading(w, k, "READING_HEADERS", <<>>, HeadersFrom(w, k, j), h, Partial(w[k], j - 1))
<1>0. PICK f \in Frame : f = w[k]
  BY ElementOfSeq
<1>1. PICK n \in Nat : n = Len(f.headers) /\ j \in 1..(n + 1)
  BY <1>0, FrameTypes
<1>2. CASE j \in 1..n
  <2>1. PICK p, r \in Seq(Byte) : p = w[k].headers[j][1] /\ r = AfterName(w, k, j)
    BY <1>0, <1>1, <1>2, FrameTypes, Layout, Zenon
  <2>2. HeadersFrom(w, k, j) = p \o (<<Colon>> \o r)
    BY <1>0, <1>1, <1>2, <2>1, Layout, Zenon
  <2>3. Splits(p, Colon, r, <<>>, p \o (<<Colon>> \o r))
    BY SplitsStart, DelimiterTypes, Zenon
  <2> QED
    BY <1>0, <1>1, <1>2, <2>1, <2>2, <2>3, Zenon DEF Reading, InName
<1>3. CASE j = n + 1
  <2>1. j - 1 = n
    BY <1>1, <1>3
  <2>2. HeadersFrom(w, k, j) = <<NL>> \o AfterHeaders(w, k)
    BY <1>0, <1>1, <1>3, Layout, Zenon
  <2> QED
    BY <1>0, <1>1, <2>1, <2>2, Zenon DEF Reading, BehindHeaders
<1> QED
  BY <1>1, <1>2, <1>3

-----------------------------------------------------------------------------
LEMMA InitCodec == ReadableFrames /\ Init => CodecInv
<1> SUFFICES ASSUME ReadableFrames, Init PROVE CodecInv
  OBVIOUS
<1>1. PICK n \in Nat : n \in 1..MaxFrames /\ written \in [1..n -> Frames]
  BY CodecAssumption DEF Init
<1>2. written \in Seq(Frame) /\ Len(written) = n
  BY <1>1, CodecAssumption
<1>3. \A i \in 1..Len(written) : WellFormed(written[i])
  BY <1>1, <1>2 DEF ReadableFrames
<1>4. stream = From(Texts(written), 1)
  <2>1. stream = FlattenSeq(Texts(written))
    BY Zenon DEF Init, Texts
  <2> QED
    BY <1>2, <2>1, TextsTypes, FromEnds, Zenon
<1>5. Returned(written, 1, decoded)
  BY EmptySeq DEF Init, Returned
<1>6. Stands(written, 1, state, bytes, stream, currentHeader, currentFrame)
  <2>1. 1 \in 1..(Len(written) + 1)
    BY <1>1, <1>2
  <2>2. Stands(written, 1, "READING_COMMAND", <<>>, From(Texts(written), 1), currentHeader, currentFrame)
    BY <1>2, <2>1, NextFrame, Zenon
  <2> QED
    BY <1>4, <2>2, Zenon DEF Init
<1>7. 1 \in 1..(Len(written) + 1) /\ ~threw
  BY <1>1, <1>2 DEF Init
<1> QED
  BY <1>2, <1>3, <1>5, <1>6, <1>7, Zenon DEF CodecInv

\* The end of a frame: it is among those that were returned, and the next begins.
LEMMA FrameReturned ==
  ASSUME NEW w \in Seq(Frame), NEW k \in 1..Len(w), NEW ds,
         WellFormed(w[k]), Returned(w, k, ds)
  PROVE  Returned(w, k + 1, Append(ds, [Partial(w[k], Len(w[k].headers)) EXCEPT !.body = w[k].body]))
<1>1. PICK f \in Frame : f = w[k]
  BY ElementOfSeq
<1>2. PICK e : /\ e = AsDecoded(f)
               /\ e = [Partial(w[k], Len(w[k].headers)) EXCEPT !.body = w[k].body]
  BY <1>1, PartialFrames, Zenon
<1>3. PICK T : T = {AsDecoded(g) : g \in Frame} /\ e \in T
  <2>1. \E g \in Frame : e = AsDecoded(g)
    BY <1>2, Zenon
  <2>2. e \in {AsDecoded(g) : g \in Frame}
    BY <2>1, Zenon
  <2> QED
    BY <2>2, Zenon
<1>4. ds \in Seq(T) /\ k = Len(ds) + 1 /\ \A i \in 1..Len(ds) : ds[i] = AsDecoded(w[i])
  BY <1>3, Zenon DEF Returned
<1>5. PICK n \in Nat : n = Len(ds) /\ k = n + 1
  BY <1>4, LenProperties
<1>6. PICK es \in Seq(T) : es = Append(ds, e)
  BY <1>3, <1>4, AppendProperties, Zenon
<1>7. Len(es) = n + 1 /\ \A i \in 1..(n + 1) : es[i] = IF i <= n THEN ds[i] ELSE e
  BY <1>3, <1>4, <1>5, <1>6
<1>8. \A i \in 1..(n + 1) : es[i] = AsDecoded(w[i])
  <2> TAKE i \in 1..(n + 1)
  <2>1. CASE i <= n
    <3>1. i \in 1..n
      BY <2>1
    <3>2. es[i] = ds[i] /\ ds[i] = AsDecoded(w[i])
      BY <1>4, <1>5, <1>7, <2>1, <3>1, Zenon
    <3> QED
      BY <3>2, Zenon
  <2>2. CASE i = n + 1
    <3>1. es[i] = e /\ w[i] = f
      BY <1>1, <1>5, <1>7, <2>2
    <3> QED
      BY <1>2, <3>1, Zenon
  <2> QED
    BY <2>1, <2>2
<1>9. Returned(w, k + 1, es)
  BY <1>3, <1>5, <1>7, <1>8 DEF Returned
<1> QED
  BY <1>2, <1>6, <1>9, Zenon

\* What decodeNextByte does with a byte depends on the state, and on whether the
\* buffer is empty.
LEMMA ByteRead ==
  ASSUME decodeNextByte
  PROVE  /\ stream # <<>> /\ stream' = Tail(stream) /\ written' = written
         /\ state = "READING_COMMAND" =>
              IF Head(stream) = NL THEN EndCommand ELSE OtherByte
         /\ state = "READING_HEADERS" =>
              /\ Head(stream) = NL => IF bytes = <<>> THEN EndHeaders ELSE EndHeader
              /\ Head(stream) = Colon => EndName
              /\ Head(stream) \notin {NL, Colon} => OtherByte
         /\ state = "READING_BODY" =>
              IF Head(stream) = Nul THEN EndBody ELSE OtherByte
<1>1. stream # <<>> /\ stream' = Tail(stream) /\ written' = written
  BY DEF decodeNextByte, EndCommand, EndHeader, EndHeaders, EndName, EndBody, OtherByte, Take
<1>2. NL # Colon
  BY CodecAssumption
<1>3. EndCommand => state = "READING_COMMAND" /\ Head(stream) = NL
  BY DEF EndCommand, Take
<1>4. EndHeader => state = "READING_HEADERS" /\ Head(stream) = NL /\ bytes # <<>>
  BY DEF EndHeader, Take
<1>5. EndHeaders => state = "READING_HEADERS" /\ Head(stream) = NL /\ bytes = <<>>
  BY DEF EndHeaders, Take
<1>6. EndName => state = "READING_HEADERS" /\ Head(stream) = Colon
  BY DEF EndName, Take
<1>7. EndBody => state = "READING_BODY" /\ Head(stream) = Nul
  BY DEF EndBody, Take
<1>8. OtherByte => /\ state = "READING_COMMAND" => Head(stream) # NL
                   /\ state = "READING_HEADERS" => Head(stream) \notin {NL, Colon}
                   /\ state = "READING_BODY" => Head(stream) # Nul
  BY DEF OtherByte, Take, Special
<1>9. EndCommand \/ EndHeader \/ EndHeaders \/ EndName \/ EndBody \/ OtherByte
  BY DEF decodeNextByte
<1> QED
  BY <1>1, <1>2, <1>3, <1>4, <1>5, <1>6, <1>7, <1>8, <1>9

\* A step inside frame k keeps the invariant if it stands in frame k afterwards.
LEMMA StepInFrame ==
  ASSUME NEW w, NEW k, written = w, written' = w, CodecInv, k \in 1..Len(w),
         Returned(w, k, decoded), decoded' = decoded, ~threw',
         Reading(w, k, state', bytes', stream', currentHeader', currentFrame')
  PROVE  CodecInv'
<1>1. w \in Seq(Frame) /\ \A i \in 1..Len(w) : WellFormed(w[i])
  BY DEF CodecInv
<1>2. k \in 1..(Len(w) + 1)
  BY <1>1, LenProperties
<1>3. Stands(w, k, state', bytes', stream', currentHeader', currentFrame')
  BY DEF Stands
<1> QED
  BY <1>1, <1>2, <1>3 DEF CodecInv

LEMMA CommandRead ==
  ASSUME NEW w, NEW k, CodecInv, decodeNextByte, written = w, k \in 1..Len(w),
         Returned(w, k, decoded), InCommand(w, k, state, bytes, stream)
  PROVE  CodecInv'
<1>1. PICK f \in Frame : f = w[k] /\ WellFormed(f)
  BY ElementOfSeq, Zenon DEF CodecInv
<1>2. /\ stream' = Tail(stream) /\ written' = w /\ w \in Seq(Frame) /\ ~threw
      /\ IF Head(stream) = NL THEN EndCommand ELSE OtherByte
  BY ByteRead DEF InCommand, CodecInv
<1>3. PICK st, b, p, r : /\ st = stream /\ b = bytes /\ p = f.command
                         /\ r = HeadersFrom(w, k, 1)
  OBVIOUS
<1>4. \/ Head(st) \in Byte \ {NL} /\ Splits(p, NL, r, Append(b, Head(st)), Tail(st))
      \/ Head(st) = NL /\ Tail(st) = r /\ b = p
  <2>1. Splits(p, NL, r, b, st)
    BY <1>1, <1>3, Zenon DEF InCommand
  <2>2. p \in Seq(Byte \ {NL}) /\ NL \in Byte
    BY <1>1, <1>3, DelimiterTypes DEF WellFormed
  <2> QED
    BY <2>1, <2>2, SplitsStep
<1>5. CASE Head(st) \in Byte \ {NL} /\ Splits(p, NL, r, Append(b, Head(st)), Tail(st))
  <2>1. /\ bytes' = Append(b, Head(st)) /\ state' = "READING_COMMAND"
        /\ decoded' = decoded /\ ~threw'
    BY <1>2, <1>3, <1>5 DEF OtherByte, pushByte, InCommand
  <2>2. Reading(w, k, state', bytes', stream', currentHeader', currentFrame')
    BY <1>1, <1>2, <1>3, <1>5, <2>1 DEF Reading, InCommand
  <2> QED
    BY <1>2, <2>1, <2>2, StepInFrame
<1>6. CASE Head(st) = NL /\ Tail(st) = r /\ b = p
  <2>1. /\ bytes' = <<>> /\ state' = "READING_HEADERS" /\ decoded' = decoded /\ ~threw'
        /\ currentFrame' = Empty(p)
    BY <1>2, <1>3, <1>6 DEF EndCommand, popString
  <2>2. Partial(w[k], 0) = currentFrame' /\ stream' = HeadersFrom(w, k, 1)
    BY <1>1, <1>2, <1>3, <1>6, <2>1, PartialFrames
  <2>3. \A h : Reading(w, k, "READING_HEADERS", <<>>, HeadersFrom(w, k, 1), h, Partial(w[k], 0))
    <3>1. PICK n \in Nat : n = Len(w[k].headers)
      BY <1>1, FrameTypes
    <3>2. 1 \in 1..(Len(w[k].headers) + 1) /\ 1 - 1 = 0
      BY <3>1
    <3>3. \A h : Reading(w, k, "READING_HEADERS", <<>>, HeadersFrom(w, k, 1), h, Partial(w[k], 1 - 1))
      BY <1>2, <3>2, NextHeader, Zenon
    <3> QED
      BY <3>2, <3>3
  <2>4. Reading(w, k, state', bytes', stream', currentHeader', currentFrame')
    BY <2>1, <2>2, <2>3, Zenon
  <2> QED
    BY <1>2, <2>1, <2>4, StepInFrame
<1> QED
  BY <1>4, <1>5, <1>6

LEMMA NameRead ==
  ASSUME NEW w, NEW k, CodecInv, decodeNextByte, written = w, k \in 1..Len(w),
         Returned(w, k, decoded), NEW j \in 1..Len(w[k].headers),
         InName(w, k, j, state, bytes, stream, currentFrame)
  PROVE  CodecInv'
<1>1. PICK f \in Frame : f = w[k] /\ WellFormed(f)
  BY ElementOfSeq, Zenon DEF CodecInv
<1>2. /\ stream' = Tail(stream) /\ written' = w /\ w \in Seq(Frame) /\ ~threw
      /\ Head(stream) = Colon => EndName
      /\ Head(stream) \notin {NL, Colon} => OtherByte
  BY ByteRead DEF InName, CodecInv
<1>3. PICK st, b, p, r : /\ st = stream /\ b = bytes /\ p = f.headers[j][1]
                         /\ r = AfterName(w, k, j)
  OBVIOUS
<1>4. \/ Head(st) \in Byte \ {NL, Colon} /\ Splits(p, Colon, r, Append(b, Head(st)), Tail(st))
      \/ Head(st) = Colon /\ Tail(st) = r /\ b = p
  <2>1. Splits(p, Colon, r, b, st)
    BY <1>1, <1>3, Zenon DEF InName
  <2>2. p \in Seq(Byte \ {NL, Colon}) /\ Colon \in Byte
    <3>1. f.headers \in Seq(Seq(Byte \ {NL, Colon}) \X Seq(Byte \ {NL, Colon}))
      BY <1>1 DEF WellFormed
    <3>2. f.headers[j] \in Seq(Byte \ {NL, Colon}) \X Seq(Byte \ {NL, Colon})
      BY <1>1, <3>1, ElementOfSeq
    <3> QED
      BY <1>3, <3>2, DelimiterTypes
  <2>3. PICK D : D = {NL, Colon}
    OBVIOUS
  <2>4. p \in Seq(Byte \ D)
    BY <2>2, <2>3, Zenon
  <2>5. \/ Head(st) \in Byte \ D /\ Splits(p, Colon, r, Append(b, Head(st)), Tail(st))
        \/ Head(st) = Colon /\ Tail(st) = r /\ b = p
    BY <2>1, <2>2, <2>4, SplitsStep, Zenon
  <2> QED
    BY <2>3, <2>5, Zenon
<1>5. CASE Head(st) \in Byte \ {NL, Colon} /\ Splits(p, Colon, r, Append(b, Head(st)), Tail(st))
  <2>1. /\ bytes' = Append(b, Head(st)) /\ state' = "READING_HEADERS"
        /\ decoded' = decoded /\ ~threw' /\ currentFrame' = currentFrame
    BY <1>2, <1>3, <1>5 DEF OtherByte, pushByte, InName
  <2>2. InName(w, k, j, state', bytes', stream', currentFrame')
    BY <1>1, <1>2, <1>3, <1>5, <2>1 DEF InName
  <2>3. Reading(w, k, state', bytes', stream', currentHeader', currentFrame')
    BY <2>2, Zenon DEF Reading
  <2> QED
    BY <1>2, <2>1, <2>3, StepInFrame
<1>6. CASE Head(st) = Colon /\ Tail(st) = r /\ b = p
  <2>1. /\ bytes' = <<>> /\ state' = "READING_HEADERS" /\ decoded' = decoded /\ ~threw'
        /\ currentFrame' = currentFrame /\ currentHeader' = p
    BY <1>2, <1>3, <1>6 DEF EndName, popString, InName
  <2>2. InValue(w, k, j, state', bytes', stream', currentHeader', currentFrame')
    <3>1. PICK v, z \in Seq(Byte) : v = f.headers[j][2] /\ z = HeadersFrom(w, k, j + 1)
      BY <1>1, <1>2, FrameTypes, Layout
    <3>2. stream' = v \o (<<NL>> \o z)
      BY <1>1, <1>2, <1>3, <1>6, <3>1 DEF AfterName
    <3>3. Splits(v, NL, z, <<>>, v \o (<<NL>> \o z))
      BY SplitsStart, DelimiterTypes, Zenon
    <3> QED
      BY <1>1, <1>3, <2>1, <3>1, <3>2, <3>3 DEF InName, InValue
  <2>3. Reading(w, k, state', bytes', stream', currentHeader', currentFrame')
    BY <2>2, Zenon DEF Reading
  <2> QED
    BY <1>2, <2>1, <2>3, StepInFrame
<1> QED
  BY <1>4, <1>5, <1>6

LEMMA ValueRead ==
  ASSUME NEW w, NEW k, CodecInv, decodeNextByte, written = w, k \in 1..Len(w),
         Returned(w, k, decoded), NEW j \in 1..Len(w[k].headers),
         InValue(w, k, j, state, bytes, stream, currentHeader, currentFrame)
  PROVE  CodecInv'
<1>1. PICK f \in Frame : f = w[k] /\ WellFormed(f)
  BY ElementOfSeq, Zenon DEF CodecInv
<1>2. /\ stream' = Tail(stream) /\ written' = w /\ w \in Seq(Frame) /\ ~threw
      /\ Head(stream) = NL => IF bytes = <<>> THEN EndHeaders ELSE EndHeader
      /\ Head(stream) \notin {NL, Colon} => OtherByte
  BY ByteRead DEF InValue, CodecInv
<1>3. PICK st, b, p, r : /\ st = stream /\ b = bytes /\ p = f.headers[j][2]
                         /\ r = HeadersFrom(w, k, j + 1)
  OBVIOUS
<1>a. PICK n \in Nat : n = Len(f.headers) /\ j \in 1..n /\ DOMAIN f.headers = 1..n
  BY <1>1, FrameTypes
<1>4. \/ Head(st) \in Byte \ {NL, Colon} /\ Splits(p, NL, r, Append(b, Head(st)), Tail(st))
      \/ Head(st) = NL /\ Tail(st) = r /\ b = p
  <2>1. Splits(p, NL, r, b, st)
    BY <1>1, <1>3, Zenon DEF InValue
  <2>2. p \in Seq(Byte \ {NL, Colon}) /\ NL \in Byte
    <3>1. f.headers \in Seq(Seq(Byte \ {NL, Colon}) \X Seq(Byte \ {NL, Colon}))
      BY <1>1 DEF WellFormed
    <3>2. f.headers[j] \in Seq(Byte \ {NL, Colon}) \X Seq(Byte \ {NL, Colon})
      BY <1>1, <3>1, ElementOfSeq
    <3> QED
      BY <1>3, <3>2, DelimiterTypes
  <2>3. PICK D : D = {NL, Colon}
    OBVIOUS
  <2>4. p \in Seq(Byte \ D)
    BY <2>2, <2>3, Zenon
  <2>5. \/ Head(st) \in Byte \ D /\ Splits(p, NL, r, Append(b, Head(st)), Tail(st))
        \/ Head(st) = NL /\ Tail(st) = r /\ b = p
    BY <2>1, <2>2, <2>4, SplitsStep, Zenon
  <2> QED
    BY <2>3, <2>5, Zenon
<1>5. CASE Head(st) \in Byte \ {NL, Colon} /\ Splits(p, NL, r, Append(b, Head(st)), Tail(st))
  <2>1. /\ bytes' = Append(b, Head(st)) /\ state' = "READING_HEADERS"
        /\ decoded' = decoded /\ ~threw' /\ currentFrame' = currentFrame
        /\ currentHeader' = currentHeader
    BY <1>2, <1>3, <1>5 DEF OtherByte, pushByte, InValue
  <2>2. InValue(w, k, j, state', bytes', stream', currentHeader', currentFrame')
    BY <1>1, <1>2, <1>3, <1>5, <2>1 DEF InValue
  <2>3. Reading(w, k, state', bytes', stream', currentHeader', currentFrame')
    BY <2>2, Zenon DEF Reading
  <2> QED
    BY <1>2, <2>1, <2>3, StepInFrame
<1>6. CASE Head(st) = NL /\ Tail(st) = r /\ b = p
  <2>1. bytes # <<>> /\ currentHeader = f.headers[j][1] /\ currentHeader # Null
    <3>1. f.headers[j][2] # <<>>
      BY <1>1, <1>a DEF WellFormed
    <3>2. f.headers[j][1] \in Seq(Byte)
      BY <1>a, FrameTypes
    <3> QED
      BY <1>1, <1>3, <1>6, <3>1, <3>2, CodecAssumption DEF InValue
  <2>2. /\ bytes' = <<>> /\ state' = "READING_HEADERS" /\ decoded' = decoded /\ ~threw'
        /\ currentFrame' = [currentFrame EXCEPT !.headers = Put(@, currentHeader, bytes)]
    BY <1>2, <1>3, <1>6, <2>1 DEF EndHeader, popString, InValue
  <2>3. currentFrame' = Partial(w[k], j) /\ stream' = HeadersFrom(w, k, j + 1)
    <3>1. currentFrame = Partial(f, j - 1) /\ bytes = f.headers[j][2]
      BY <1>1, <1>3, <1>6 DEF InValue
    <3> QED
      BY <1>1, <1>2, <1>3, <1>6, <1>a, <2>1, <2>2, <3>1, PartialFrames
  <2>4. \A h : Reading(w, k, "READING_HEADERS", <<>>, HeadersFrom(w, k, j + 1), h, Partial(w[k], j))
    <3>1. PICK i : i = j + 1 /\ i \in 1..(Len(w[k].headers) + 1) /\ i - 1 = j
      BY <1>1, <1>a
    <3>2. \A h : Reading(w, k, "READING_HEADERS", <<>>, HeadersFrom(w, k, i), h, Partial(w[k], i - 1))
      BY <1>2, <3>1, NextHeader, Zenon
    <3> QED
      BY <3>1, <3>2
  <2>5. Reading(w, k, state', bytes', stream', currentHeader', currentFrame')
    BY <2>2, <2>3, <2>4, Zenon
  <2> QED
    BY <1>2, <2>2, <2>5, StepInFrame
<1> QED
  BY <1>4, <1>5, <1>6

LEMMA EmptyLineRead ==
  ASSUME NEW w, NEW k, CodecInv, decodeNextByte, written = w, k \in 1..Len(w),
         Returned(w, k, decoded), BehindHeaders(w, k, state, bytes, stream, currentFrame)
  PROVE  CodecInv'
<1>1. PICK f \in Frame : f = w[k]
  BY ElementOfSeq, Zenon DEF CodecInv
<1>2. /\ stream' = Tail(stream) /\ written' = w /\ w \in Seq(Frame) /\ ~threw
      /\ Head(stream) = NL => EndHeaders
  BY ByteRead DEF BehindHeaders, CodecInv
<1>3. PICK p, r, R \in Seq(Byte) : /\ p = f.body /\ r = AfterFrame(w, k)
                                   /\ R = AfterHeaders(w, k)
  BY <1>1, <1>2, FrameTypes, Layout
<1>4. Head(stream) = NL /\ Tail(stream) = R
  BY <1>3, HeadOfCons, DelimiterTypes DEF BehindHeaders
<1>5. /\ bytes' = <<>> /\ state' = "READING_BODY" /\ decoded' = decoded /\ ~threw'
      /\ currentFrame' = currentFrame
  BY <1>2, <1>4 DEF EndHeaders
<1>6. R = p \o (<<Nul>> \o r)
  BY <1>1, <1>3 DEF AfterHeaders
<1>7. Splits(p, Nul, r, <<>>, R)
  BY <1>6, SplitsStart, DelimiterTypes
<1>8. InBody(w, k, state', bytes', stream', currentFrame')
  BY <1>1, <1>2, <1>3, <1>4, <1>5, <1>7 DEF InBody, BehindHeaders
<1>9. Reading(w, k, state', bytes', stream', currentHeader', currentFrame')
  BY <1>8, Zenon DEF Reading
<1> QED
  BY <1>2, <1>5, <1>9, StepInFrame

LEMMA BodyRead ==
  ASSUME NEW w, NEW k, CodecInv, decodeNextByte, written = w, k \in 1..Len(w),
         Returned(w, k, decoded), InBody(w, k, state, bytes, stream, currentFrame)
  PROVE  CodecInv'
<1>1. PICK f \in Frame : f = w[k] /\ WellFormed(f)
  BY ElementOfSeq, Zenon DEF CodecInv
<1>2. /\ stream' = Tail(stream) /\ written' = w /\ w \in Seq(Frame) /\ ~threw
      /\ IF Head(stream) = Nul THEN EndBody ELSE OtherByte
  BY ByteRead DEF InBody, CodecInv
<1>3. PICK st, b, p, r : /\ st = stream /\ b = bytes /\ p = f.body /\ r = AfterFrame(w, k)
  OBVIOUS
<1>4. \/ Head(st) \in Byte \ {Nul} /\ Splits(p, Nul, r, Append(b, Head(st)), Tail(st))
      \/ Head(st) = Nul /\ Tail(st) = r /\ b = p
  <2>1. Splits(p, Nul, r, b, st)
    BY <1>1, <1>3, Zenon DEF InBody
  <2>2. p \in Seq(Byte \ {Nul}) /\ Nul \in Byte
    BY <1>1, <1>3, DelimiterTypes DEF WellFormed
  <2> QED
    BY <2>1, <2>2, SplitsStep
<1>5. CASE Head(st) \in Byte \ {Nul} /\ Splits(p, Nul, r, Append(b, Head(st)), Tail(st))
  <2>1. /\ bytes' = Append(b, Head(st)) /\ state' = "READING_BODY"
        /\ decoded' = decoded /\ ~threw' /\ currentFrame' = currentFrame
    BY <1>2, <1>3, <1>5 DEF OtherByte, pushByte, InBody
  <2>2. InBody(w, k, state', bytes', stream', currentFrame')
    BY <1>1, <1>2, <1>3, <1>5, <2>1 DEF InBody
  <2>3. Reading(w, k, state', bytes', stream', currentHeader', currentFrame')
    BY <2>2, Zenon DEF Reading
  <2> QED
    BY <1>2, <2>1, <2>3, StepInFrame
<1>6. CASE Head(st) = Nul /\ Tail(st) = r /\ b = p
  <2>1. PICK ds, e : /\ ds = decoded
                     /\ e = [Partial(w[k], Len(w[k].headers)) EXCEPT !.body = w[k].body]
    OBVIOUS
  <2>2. /\ bytes' = <<>> /\ state' = "READING_COMMAND" /\ ~threw'
        /\ decoded' = Append(ds, e)
    BY <1>1, <1>2, <1>3, <1>6, <2>1 DEF EndBody, popString, InBody
  <2>3. Returned(w, k + 1, decoded')
    BY <1>1, <1>2, <2>1, <2>2, FrameReturned
  <2>4. k + 1 \in 1..(Len(w) + 1)
    BY <1>2, LenProperties
  <2>5. stream' = From(Texts(w), k + 1)
    BY <1>2, <1>3, <1>6 DEF AfterFrame
  <2>6. Stands(w, k + 1, state', bytes', stream', currentHeader', currentFrame')
    BY <1>2, <2>2, <2>4, <2>5, NextFrame
  <2>7. \A i \in 1..Len(w) : WellFormed(w[i])
    BY DEF CodecInv
  <2> QED
    BY <1>2, <2>2, <2>3, <2>4, <2>6, <2>7 DEF CodecInv
<1> QED
  BY <1>4, <1>5, <1>6

LEMMA NextCodec == CodecInv /\ [decodeNextByte]_vars => CodecInv'
<1> SUFFICES ASSUME CodecInv, [decodeNextByte]_vars PROVE CodecInv'
  OBVIOUS
<1>1. CASE UNCHANGED vars
  <2>1. PICK w, k : /\ w = written /\ written \in Seq(Frame) /\ k \in 1..(Len(w) + 1)
                    /\ \A i \in 1..Len(w) : WellFormed(w[i])
                    /\ Returned(w, k, decoded)
                    /\ Stands(w, k, state, bytes, stream, currentHeader, currentFrame)
    BY Zenon DEF CodecInv
  <2>2. ~threw
    BY DEF CodecInv
  <2> QED
    BY <1>1, <2>1, <2>2 DEF vars, CodecInv
<1>2. CASE decodeNextByte
  <2>1. PICK w, k : /\ w = written /\ k \in 1..(Len(w) + 1) /\ Returned(w, k, decoded)
                    /\ Stands(w, k, state, bytes, stream, currentHeader, currentFrame)
    BY Zenon DEF CodecInv
  <2>2. stream # <<>>
    BY <1>2, ByteRead
  <2>3. k \in 1..Len(w) /\ Reading(w, k, state, bytes, stream, currentHeader, currentFrame)
    BY <2>1, <2>2 DEF Stands, AllRead
  <2>4. CASE InCommand(w, k, state, bytes, stream)
    BY <1>2, <2>1, <2>3, <2>4, CommandRead
  <2>5. ASSUME NEW j \in 1..Len(w[k].headers),
               InName(w, k, j, state, bytes, stream, currentFrame)
        PROVE  CodecInv'
    BY <1>2, <2>1, <2>3, <2>5, NameRead
  <2>6. ASSUME NEW j \in 1..Len(w[k].headers),
               InValue(w, k, j, state, bytes, stream, currentHeader, currentFrame)
        PROVE  CodecInv'
    BY <1>2, <2>1, <2>3, <2>6, ValueRead
  <2>7. CASE BehindHeaders(w, k, state, bytes, stream, currentFrame)
    BY <1>2, <2>1, <2>3, <2>7, EmptyLineRead
  <2>8. CASE InBody(w, k, state, bytes, stream, currentFrame)
    BY <1>2, <2>1, <2>3, <2>8, BodyRead
  <2> QED
    BY <2>3, <2>4, <2>5, <2>6, <2>7, <2>8 DEF Reading
<1> QED
  BY <1>1, <1>2

\* A decoder within a frame has something left to read: at least a delimiter.
LEMMA ReadingLeaves ==
  ASSUME NEW w \in Seq(Frame), NEW k \in 1..Len(w), NEW q, NEW b, NEW st, NEW h, NEW cf,
         Reading(w, k, q, b, st, h, cf)
  PROVE  st # <<>>
<1>1. ASSUME NEW p, NEW d \in Byte, NEW r, Splits(p, d, r, b, st) PROVE st # <<>>
  <2>1. PICK s \in Seq(Byte) : r \in Seq(Byte) /\ st = s \o (<<d>> \o r)
    BY <1>1, Zenon DEF Splits
  <2>2. PICK y \in Seq(Byte) : y = <<d>> \o r /\ y # <<>>
    <3>1. <<d>> \in Seq(Byte)
      OBVIOUS
    <3>2. <<d>> \o r \in Seq(Byte)
      BY <2>1, <3>1, ConcatProperties, Zenon
    <3>3. <<d>> \o r # <<>>
      BY <2>1, HeadOfCons, Zenon
    <3> QED
      BY <3>2, <3>3, Zenon
  <2> QED
    BY <2>1, <2>2, ConcatEqualIffEmpty
<1>2. <<NL>> \o AfterHeaders(w, k) # <<>>
  BY Layout, HeadOfCons, DelimiterTypes
<1> QED
  BY <1>1, <1>2, DelimiterTypes
  DEF Reading, InCommand, InName, InValue, BehindHeaders, InBody

\* Whatever well formed frames a client writes, and however many, the decoder
\* returns them, in order, and keeps nothing of one for the next.
THEOREM FramesComeOut ==
  ASSUME ReadableFrames
  PROVE  Spec => []RoundTrip
<1>1. CodecInv => RoundTrip
  <2> SUFFICES ASSUME CodecInv PROVE RoundTrip
    OBVIOUS
  <2>1. PICK w, k : /\ w = written /\ w \in Seq(Frame) /\ k \in 1..(Len(w) + 1)
                    /\ Returned(w, k, decoded)
                    /\ Stands(w, k, state, bytes, stream, currentHeader, currentFrame)
    BY Zenon DEF CodecInv
  <2>2. /\ \A i \in DOMAIN decoded : decoded[i] = AsDecoded(written[i])
        /\ k = Len(decoded) + 1 /\ Len(decoded) \in Nat
    BY <2>1, LenProperties DEF Returned
  <2>3. stream = <<>> => /\ Len(decoded) = Len(written)
                         /\ state = "READING_COMMAND" /\ bytes = <<>>
    <3> SUFFICES ASSUME stream = <<>>
                 PROVE  /\ Len(decoded) = Len(written)
                        /\ state = "READING_COMMAND" /\ bytes = <<>>
      OBVIOUS
    <3>1. AllRead(w, k, state, bytes, stream)
      BY <2>1, ReadingLeaves DEF Stands
    <3> QED
      BY <2>1, <2>2, <3>1, LenProperties DEF AllRead
  <2> QED
    BY <2>2, <2>3 DEF CodecInv, RoundTrip
<1> QED
  BY <1>1, InitCodec, NextCodec, PTL DEF Spec
=============================================================================
