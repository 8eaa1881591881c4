------------------------ MODULE MultipartParser_proofs ------------------------
(***************************************************************************)
(* Proofs about MultipartParser, for every boundary, every set of forms    *)
(* and every way to divide a body into reads.  The invariant has three     *)
(* parts: what the variables are, what the callback got so far of the part *)
(* being read and what is kept back for it, and, if no read has ended in   *)
(* an awkward place, how far into the form the parser is.                  *)
(***************************************************************************)
EXTENDS MultipartParser, SequenceTheorems, NaturalsInduction,
        WellFoundedInduction, TLAPS

Text == Seq(Bytes)

\* What the variables are.
Shape ==
    /\ form \in Forms /\ body \in Bodies(form)
    /\ base \in Nat /\ end \in 0..Len(body) /\ pos \in Int /\ pos <= end
    /\ pc # "assert rewind" => base <= pos
    /\ pc \in Lines \union Ended \union {"part"}
    /\ line \in Text
    /\ first \in BOOLEAN /\ ends_with_CR \in BOOLEAN
    /\ garbled \in BOOLEAN /\ clean \in BOOLEAN
    /\ delivered \in Seq(Text) /\ starts \in Seq(0..Len(body))
    /\ Len(delivered) = Len(starts)
    /\ carry \in Text

\* Each part's bytes are where they should be.  Of the part being read nothing is
\* delivered before its first read; after it a delimiter's length is kept back.
Delivery ==
    /\ \A m \in 1..Len(delivered) :
         /\ starts[m] + Len(delivered[m]) <= Len(body)
         /\ delivered[m] = SubSeq(body, starts[m] + 1, starts[m] + Len(delivered[m]))
    /\ pc = "part" =>
         LET got == starts[Len(starts)] + Len(delivered[Len(starts)])
         IN  /\ Len(starts) > 0
             /\ Len(carry) = D
             /\ IF first THEN got = pos
                ELSE got = pos - D /\ carry = SubSeq(body, got + 1, pos)

\* Where the delimiter behind the n-th part ends.
Sent(n) == Len(SentUpTo(form)[n])

\* Where the parser is when no read has ended in an awkward place, and has begun
\* to read n parts.
InPreamble(n) ==
    /\ pc = "preamble" /\ n = 0
    /\ pos \in 0..Len(Boundary) /\ line = SubSeq(body, 1, pos)
AtHeader(n) ==
    /\ pc = "header" /\ n < Len(form)
    /\ pos \in (Sent(n) + 2)..(Sent(n) + 3) /\ line = SubSeq(body, Sent(n) + 3, pos)
BehindHeader(n) ==
    /\ pc = "more headers" /\ n < Len(form)
    /\ pos = Sent(n) + 5 /\ line = <<>>
InPart(n) ==
    /\ pc = "part" /\ n > 0
    /\ starts[n] = Sent(n - 1) + 7 /\ pos <= starts[n] + Len(form[n]) /\ line = <<>>
BehindPart(n) ==
    /\ pc = "after delimiter" /\ n \in 1..(Len(form) - 1)
    /\ pos = Sent(n) /\ line = <<>>
BehindLastPart(n) ==
    /\ pc = "after delimiter" /\ n = Len(form)
    /\ pos \in Sent(n)..(Sent(n) + 2) /\ line = SubSeq(body, Sent(n) + 1, pos)
AtEnd(n) ==
    /\ pc = "header" /\ n = Len(form)
    /\ pos = Len(body) /\ line = <<>>
IsDone(n) == pc = "done" /\ n = Len(form)

At(n) ==
    /\ Len(delivered) = n
    /\ \A m \in 1..n : m < n \/ pc # "part" => delivered[m] = form[m]
    /\ \/ InPreamble(n)
       \/ AtHeader(n)
       \/ BehindHeader(n)
       \/ InPart(n)
       \/ BehindPart(n)
       \/ BehindLastPart(n)
       \/ AtEnd(n)
       \/ IsDone(n)

OnCourse ==
    clean =>
        /\ ~garbled /\ ~ends_with_CR
        /\ \E n \in 0..Len(form) : At(n)

IInv == Shape /\ Delivery /\ OnCourse

-----------------------------------------------------------------------------
(* Sequences of bytes.                                                     *)

\* What holds of 0, and of each number after one that it holds of.
LEMMA CountingUp ==
    ASSUME NEW N \in Nat, NEW T, 0 \in T, \A d \in 1..N : d - 1 \in T => d \in T
    PROVE  0..N \subseteq T
<1> DEFINE U == (0..N) \ T
<1>1. SUFFICES ASSUME U # {}  PROVE FALSE
  OBVIOUS
<1>2. U \subseteq Nat
  OBVIOUS
<1>3. PICK u \in U : \A v \in U : ~(<<v, u>> \in OpToRel(<, Nat))
  BY <1>1, <1>2, NatLessThanWellFounded, WFMin
<1>4. u \in 1..N /\ u - 1 \in Nat
  BY <1>2
<1>5. u - 1 \notin U
  <2>1. <<u - 1, u>> \in OpToRel(<, Nat)
    BY <1>4 DEF OpToRel
  <2> QED
    BY <1>3, <2>1
<1> QED
  BY <1>4, <1>5

\* A function over the numbers up to N that is given by its value at 0 and by each
\* value after the one before it.
FollowsFrom(g, v, step, N) == g[0] = v /\ \A d \in 1..N : g[d] = step[d][g[d - 1]]

LEMMA RecursionExists ==
    ASSUME NEW N \in Nat, NEW S, NEW v \in S, NEW step \in [1..N -> [S -> S]]
    PROVE  \E g \in [0..N -> S] : FollowsFrom(g, v, step, N)
<1> DEFINE T == {n \in 0..N : \E g \in [0..n -> S] : FollowsFrom(g, v, step, n)}
<1>1. 0 \in T
  <2>1. [d \in 0..0 |-> v] \in [0..0 -> S] /\ FollowsFrom([d \in 0..0 |-> v], v, step, 0)
    BY DEF FollowsFrom
  <2>2. 0 \in 0..N
    OBVIOUS
  <2> QED
    BY <2>1, <2>2, Zenon
<1>2. ASSUME NEW n \in 1..N, n - 1 \in T  PROVE n \in T
  <2>1. PICK g \in [0..(n - 1) -> S] : FollowsFrom(g, v, step, n - 1)
    BY <1>2
  <2> DEFINE h == [d \in 0..n |-> IF d = n THEN step[n][g[n - 1]] ELSE g[d]]
  <2>2. h \in [0..n -> S]
    OBVIOUS
  <2>3. FollowsFrom(h, v, step, n)
    BY <2>1 DEF FollowsFrom
  <2>4. n \in 0..N
    OBVIOUS
  <2> HIDE DEF h
  <2> QED
    BY <2>2, <2>3, <2>4, Zenon
<1>3. N \in T
  <2> HIDE DEF T
  <2>1. 0..N \subseteq T
    BY <1>1, <1>2, CountingUp
  <2> QED
    BY <2>1
<1> QED
  BY <1>3, Zenon

\* A piece of a text, by where it lies.
LEMMA PieceIs ==
    ASSUME NEW s \in Text, NEW a \in Nat, NEW b \in Int, b <= Len(s)
    PROVE  /\ SubSeq(s, a + 1, b) \in Text
           /\ Len(SubSeq(s, a + 1, b)) = IF a <= b THEN b - a ELSE 0
           /\ \A j \in 1..(b - a) : SubSeq(s, a + 1, b)[j] = s[a + j]
<1>1. \A j \in (a + 1)..b : s[j] \in Bytes
  BY ElementOfSeq DEF Text
<1>2. /\ SubSeq(s, a + 1, b) \in Seq(Bytes)
      /\ Len(SubSeq(s, a + 1, b)) = IF a + 1 <= b THEN b - (a + 1) + 1 ELSE 0
      /\ \A j \in 1..(b - (a + 1) + 1) : SubSeq(s, a + 1, b)[j] = s[(a + 1) + j - 1]
  <2> DEFINE c == a + 1
  <2>1. c \in Int
    OBVIOUS
  <2>2. \A j \in c..b : s[j] \in Bytes
    BY <1>1
  <2> HIDE DEF c
  <2>3. /\ SubSeq(s, c, b) \in Seq(Bytes)
        /\ Len(SubSeq(s, c, b)) = IF c <= b THEN b - c + 1 ELSE 0
        /\ \A j \in 1..(b - c + 1) : SubSeq(s, c, b)[j] = s[c + j - 1]
    BY <2>1, <2>2, SubSeqProperties
  <2> QED
    BY <2>3 DEF c
<1>3. Len(SubSeq(s, a + 1, b)) = IF a <= b THEN b - a ELSE 0
  BY <1>2
<1>4. \A j \in 1..(b - a) : SubSeq(s, a + 1, b)[j] = s[a + j]
  <2> TAKE j \in 1..(b - a)
  <2>1. j \in 1..(b - (a + 1) + 1) /\ (a + 1) + j - 1 = a + j
    OBVIOUS
  <2> QED
    BY <1>2, <2>1
<1> QED
  BY <1>2, <1>3, <1>4 DEF Text

\* A text is the piece if it is as long and has its bytes.
LEMMA IsPiece ==
    ASSUME NEW s \in Text, NEW a \in Nat, NEW b \in a..Len(s), NEW t \in Text,
           Len(t) = b - a, \A j \in 1..(b - a) : t[j] = s[a + j]
    PROVE  t = SubSeq(s, a + 1, b)
<1>1. Len(s) \in Nat
  BY DEF Text
<1> DEFINE u == SubSeq(s, a + 1, b)
<1>2. b \in Int /\ b <= Len(s) /\ a <= b
  BY <1>1
<1>3. u \in Text /\ Len(u) = b - a /\ \A j \in 1..(b - a) : u[j] = s[a + j]
  BY <1>2, PieceIs
<1> HIDE DEF u
<1>4. t = u
  <2>1. t \in Seq(Bytes) /\ u \in Seq(Bytes) /\ Len(t) = Len(u)
    BY <1>3 DEF Text
  <2>2. \A j \in 1..Len(t) : t[j] = u[j]
    BY <1>3
  <2> QED
    BY <2>1, <2>2, SeqEqual
<1> QED
  BY <1>4 DEF u

\* One text behind the other.
Joined(s, t, u) ==
    /\ u \in Text
    /\ Len(u) = Len(s) + Len(t)
    /\ Len(s) \in Nat /\ Len(t) \in Nat
    /\ \A j \in 1..Len(s) : u[j] = s[j]
    /\ \A j \in 1..Len(t) : u[Len(s) + j] = t[j]

LEMMA JoinIs ==
    ASSUME NEW s \in Text, NEW t \in Text
    PROVE  Joined(s, t, s \o t)
<1>1. Len(s) \in Nat /\ Len(t) \in Nat
  BY DEF Text
<1>2. /\ s \o t \in Text
      /\ Len(s \o t) = Len(s) + Len(t)
      /\ \A j \in 1..(Len(s) + Len(t)) :
            (s \o t)[j] = IF j <= Len(s) THEN s[j] ELSE t[j - Len(s)]
  BY ConcatProperties DEF Text
<1>3. \A j \in 1..Len(s) : (s \o t)[j] = s[j]
  <2> TAKE j \in 1..Len(s)
  <2>1. j \in 1..(Len(s) + Len(t)) /\ j <= Len(s)
    BY <1>1
  <2> QED
    BY <1>2, <2>1
<1>4. \A j \in 1..Len(t) : (s \o t)[Len(s) + j] = t[j]
  <2> TAKE j \in 1..Len(t)
  <2>1. /\ Len(s) + j \in 1..(Len(s) + Len(t)) /\ ~(Len(s) + j <= Len(s))
        /\ (Len(s) + j) - Len(s) = j
    BY <1>1
  <2> QED
    BY <1>2, <2>1
<1> QED
  BY <1>1, <1>2, <1>3, <1>4 DEF Joined

\* Where a pattern occurs, by its bytes.
LEMMA PlacesAre ==
    ASSUME NEW pattern \in Text, NEW data \in Text, NEW p
    PROVE  p \in Places(pattern, data) <=>
             /\ p \in 1..(Len(data) - Len(pattern) + 1)
             /\ \A j \in 1..Len(pattern) : data[p + j - 1] = pattern[j]
<1>1. Len(pattern) \in Nat /\ Len(data) \in Nat
  BY DEF Text
<1>2. SUFFICES ASSUME p \in 1..(Len(data) - Len(pattern) + 1)
               PROVE  SubSeq(data, p, p + Len(pattern) - 1) = pattern <=>
                        \A j \in 1..Len(pattern) : data[p + j - 1] = pattern[j]
  BY DEF Places
<1> DEFINE a == p - 1
           b == p + Len(pattern) - 1
<1>3. /\ a \in Nat /\ b \in Int /\ b <= Len(data) /\ a <= b /\ b - a = Len(pattern)
      /\ b \in a..Len(data) /\ a + 1 = p
  BY <1>1, <1>2
<1>4. /\ Len(SubSeq(data, a + 1, b)) = Len(pattern)
      /\ \A j \in 1..Len(pattern) : SubSeq(data, a + 1, b)[j] = data[a + j]
  <2> HIDE DEF a, b
  <2> QED
    BY <1>3, PieceIs
<1>5. \A j \in 1..Len(pattern) : a + j = p + j - 1
  BY <1>1, <1>2
<1>6. ASSUME \A j \in 1..Len(pattern) : data[p + j - 1] = pattern[j]
      PROVE  SubSeq(data, a + 1, b) = pattern
  <2>1. \A j \in 1..(b - a) : pattern[j] = data[a + j]
    BY <1>3, <1>5, <1>6
  <2> HIDE DEF a, b
  <2> QED
    BY <1>3, <2>1, IsPiece
<1>7. ASSUME SubSeq(data, a + 1, b) = pattern
      PROVE  \A j \in 1..Len(pattern) : data[p + j - 1] = pattern[j]
  BY <1>4, <1>5, <1>7
<1> QED
  BY <1>3, <1>6, <1>7

LEMMA FirstIs ==
    ASSUME NEW places \in SUBSET Nat, NEW p \in places, \A q \in places : p <= q
    PROVE  FirstOf(places) = p
<1>1. \A q \in places : (\A o \in places : q <= o) => q = p
  BY SMT
<1> QED
  BY <1>1 DEF FirstOf

-----------------------------------------------------------------------------
(* What a form looks like when it is sent.                                 *)

LEMMA Separators ==
    /\ CRLF \in Text /\ Len(CRLF) = 2 /\ CRLF[1] = "CR" /\ CRLF[2] = "LF"
    /\ Dashes \in Text /\ Len(Dashes) = 2 /\ Dashes[1] = "-" /\ Dashes[2] = "-"
    /\ <<"h">> \in Text /\ Len(<<"h">>) = 1 /\ <<"h">>[1] = "h"
    /\ <<>> \in Text
    /\ Boundary \in Text /\ Len(Boundary) \in Nat
<1>1. CRLF \in Text /\ Dashes \in Text /\ <<"h">> \in Text /\ <<>> \in Text
  <2>1. \A x, y \in Bytes : <<x, y>> \in Text
    BY DEF Text
  <2>2. /\ "CR" \in Bytes /\ "LF" \in Bytes /\ "-" \in Bytes /\ "h" \in Bytes
    BY FormAssumption
  <2>3. \A x \in Bytes : <<x>> \in Text
    BY DEF Text
  <2>4. <<>> \in Text
    BY DEF Text
  <2> QED
    BY <2>1, <2>2, <2>3, <2>4 DEF CRLF, Dashes
<1>2. Len(CRLF) = 2 /\ CRLF[1] = "CR" /\ CRLF[2] = "LF"
  BY DEF CRLF
<1>3. Len(Dashes) = 2 /\ Dashes[1] = "-" /\ Dashes[2] = "-"
  BY DEF Dashes
<1>4. Len(<<"h">>) = 1 /\ <<"h">>[1] = "h"
  OBVIOUS
<1>5. Boundary \in Text /\ Len(Boundary) \in Nat
  BY FormAssumption DEF Text
<1> QED
  BY <1>1, <1>2, <1>3, <1>4, <1>5

LEMMA DelimiterIs ==
    /\ Delimiter \in Text /\ D \in Nat /\ D = Len(Boundary) + 2 /\ Len(Delimiter) = D
    /\ Delimiter[1] = "CR" /\ Delimiter[2] = "LF"
    /\ \A j \in 2..D : Delimiter[j] # "CR"
<1>1. /\ Delimiter \in Text /\ Len(Delimiter) = 2 + Len(Boundary)
      /\ \A j \in 1..2 : Delimiter[j] = CRLF[j]
      /\ \A j \in 1..Len(Boundary) : Delimiter[2 + j] = Boundary[j]
  <2>1. Joined(CRLF, Boundary, Delimiter)
    BY Separators, JoinIs, Zenon DEF Delimiter
  <2> QED
    BY <2>1, Separators DEF Joined
<1>2. Delimiter[1] = "CR" /\ Delimiter[2] = "LF"
  BY <1>1, Separators
<1>3. \A j \in 2..D : Delimiter[j] # "CR"
  <2> TAKE j \in 2..D
  <2>1. CASE j = 2
    BY <2>1, <1>2
  <2>2. CASE j # 2
    <3>1. j - 2 \in 1..Len(Boundary) /\ 2 + (j - 2) = j
      BY <1>1, <2>2, Separators DEF D
    <3> QED
      BY <3>1, <1>1, FormAssumption
  <2> QED
    BY <2>1, <2>2
<1> QED
  BY <1>1, <1>2, <1>3, Separators DEF D

\* The bytes of a part: a header line, an empty line, the content, a delimiter.
LEMMA PartIs ==
    ASSUME NEW c \in Text
    PROVE  /\ PartSent(c) \in Text
           /\ Len(c) \in Nat /\ Len(PartSent(c)) = 7 + Len(c) + D
           /\ PartSent(c)[1] = "CR" /\ PartSent(c)[2] = "LF" /\ PartSent(c)[3] = "h"
           /\ PartSent(c)[4] = "CR" /\ PartSent(c)[5] = "LF"
           /\ PartSent(c)[6] = "CR" /\ PartSent(c)[7] = "LF"
           /\ \A j \in 1..Len(c) : PartSent(c)[7 + j] = c[j]
           /\ \A j \in 1..D : PartSent(c)[7 + Len(c) + j] = Delimiter[j]
<1> DEFINE s1 == CRLF \o <<"h">>
           s2 == s1 \o CRLF
           s3 == s2 \o CRLF
           s4 == s3 \o c
           s5 == s4 \o Delimiter
<1>1. s1 \in Text /\ Len(s1) = 3 /\ s1[1] = "CR" /\ s1[2] = "LF" /\ s1[3] = "h"
  <2>1. /\ s1 \in Text /\ Len(s1) = 2 + 1
        /\ \A j \in 1..2 : s1[j] = CRLF[j]
        /\ \A j \in 1..1 : s1[2 + j] = <<"h">>[j]
    <3>1. Joined(CRLF, <<"h">>, s1)
      BY Separators, JoinIs, Zenon
    <3> QED
      BY <3>1, Separators DEF Joined
  <2> HIDE DEF s1
  <2>2. s1[1] = CRLF[1] /\ s1[2] = CRLF[2] /\ s1[2 + 1] = <<"h">>[1]
    BY <2>1
  <2> QED
    BY <2>1, <2>2, Separators
<1>2. /\ s2 \in Text /\ Len(s2) = 5 /\ s2[1] = "CR" /\ s2[2] = "LF" /\ s2[3] = "h"
      /\ s2[4] = "CR" /\ s2[5] = "LF"
  <2> HIDE DEF s1
  <2>1. /\ s2 \in Text /\ Len(s2) = 3 + 2
        /\ \A j \in 1..3 : s2[j] = s1[j]
        /\ \A j \in 1..2 : s2[3 + j] = CRLF[j]
    <3>1. Joined(s1, CRLF, s2)
      BY <1>1, Separators, JoinIs, Zenon
    <3> QED
      BY <3>1, <1>1, Separators DEF Joined
  <2> HIDE DEF s2
  <2>2. /\ s2[1] = s1[1] /\ s2[2] = s1[2] /\ s2[3] = s1[3]
        /\ s2[3 + 1] = CRLF[1] /\ s2[3 + 2] = CRLF[2]
    BY <2>1
  <2> QED
    BY <2>1, <2>2, <1>1, Separators
<1>3. /\ s3 \in Text /\ Len(s3) = 7 /\ s3[1] = "CR" /\ s3[2] = "LF" /\ s3[3] = "h"
      /\ s3[4] = "CR" /\ s3[5] = "LF" /\ s3[6] = "CR" /\ s3[7] = "LF"
  <2> HIDE DEF s2
  <2>1. /\ s3 \in Text /\ Len(s3) = 5 + 2
        /\ \A j \in 1..5 : s3[j] = s2[j]
        /\ \A j \in 1..2 : s3[5 + j] = CRLF[j]
    <3>1. Joined(s2, CRLF, s3)
      BY <1>2, Separators, JoinIs, Zenon
    <3> QED
      BY <3>1, <1>2, Separators DEF Joined
  <2> HIDE DEF s3
  <2>2. /\ s3[1] = s2[1] /\ s3[2] = s2[2] /\ s3[3] = s2[3] /\ s3[4] = s2[4]
        /\ s3[5] = s2[5] /\ s3[5 + 1] = CRLF[1] /\ s3[5 + 2] = CRLF[2]
    BY <2>1
  <2> QED
    BY <2>1, <2>2, <1>2, Separators
<1> HIDE DEF s3
<1>4. /\ s4 \in Text /\ Len(s4) = 7 + Len(c) /\ Len(c) \in Nat
      /\ \A j \in 1..7 : s4[j] = s3[j]
      /\ \A j \in 1..Len(c) : s4[7 + j] = c[j]
  <2>1. Joined(s3, c, s4)
    BY <1>3, JoinIs, Zenon
  <2> QED
    BY <2>1, <1>3 DEF Joined
<1> HIDE DEF s4
<1>5. /\ s5 \in Text /\ Len(s5) = 7 + Len(c) + D
      /\ \A j \in 1..(7 + Len(c)) : s5[j] = s4[j]
      /\ \A j \in 1..D : s5[7 + Len(c) + j] = Delimiter[j]
  <2>1. Joined(s4, Delimiter, s5)
    BY <1>4, DelimiterIs, JoinIs, Zenon
  <2> QED
    BY <2>1, <1>4, DelimiterIs DEF Joined
<1>6. PartSent(c) = s5
  BY DEF PartSent, s3, s4
<1> HIDE DEF s5
<1>7. \A j \in 1..7 : j \in 1..(7 + Len(c)) /\ s5[j] = s3[j]
  BY <1>4, <1>5
<1>8. /\ s5[1] = s3[1] /\ s5[2] = s3[2] /\ s5[3] = s3[3] /\ s5[4] = s3[4]
      /\ s5[5] = s3[5] /\ s5[6] = s3[6] /\ s5[7] = s3[7]
  BY <1>7
<1>9. \A j \in 1..Len(c) : s5[7 + j] = c[j]
  <2> TAKE j \in 1..Len(c)
  <2>1. 7 + j \in 1..(7 + Len(c))
    BY <1>4
  <2> QED
    BY <1>4, <1>5, <2>1
<1> QED
  BY <1>3, <1>4, <1>5, <1>6, <1>8, <1>9

\* The recursion of SentUpTo.
LEMMA SentUpToIs ==
    ASSUME NEW f \in Forms
    PROVE  /\ SentUpTo(f) \in [0..Len(f) -> Text]
           /\ SentUpTo(f)[0] = Boundary
           /\ \A n \in 1..Len(f) :
                /\ f[n] \in Text
                /\ SentUpTo(f)[n] = SentUpTo(f)[n - 1] \o PartSent(f[n])
<1>1. /\ f \in Seq(Text) /\ Len(f) \in Nat
      /\ \A n \in 1..Len(f) : f[n] \in Text
  BY FormAssumption DEF Text
<1> DEFINE N == Len(f)
           step == [n \in 1..N |-> [s \in Text |-> s \o PartSent(f[n])]]
           Turn(g) == [n \in 0..N |->
                         IF n = 0 THEN Boundary ELSE g[n - 1] \o PartSent(f[n])]
           text == CHOOSE g : g = Turn(g)
<1>2. step \in [1..N -> [Text -> Text]]
  <2>1. \A n \in 1..N : \A s \in Text : s \o PartSent(f[n]) \in Text
    BY <1>1, PartIs, JoinIs DEF Joined
  <2> QED
    BY <2>1
<1>3. PICK h \in [0..N -> Text] : FollowsFrom(h, Boundary, step, N)
  <2> HIDE DEF step
  <2> QED
    BY <1>1, <1>2, Separators, RecursionExists
<1>4. \A n \in 1..N : n - 1 \in 0..N /\ h[n - 1] \in Text
  <2>1. \A n \in 1..N : n - 1 \in 0..N
    BY <1>1
  <2> QED
    BY <2>1
<1>5. h = Turn(h)
  <2>1. h[0] = Boundary /\ \A n \in 1..N : h[n] = step[n][h[n - 1]]
    BY <1>3 DEF FollowsFrom
  <2>2. \A n \in 1..N : step[n][h[n - 1]] = h[n - 1] \o PartSent(f[n])
    BY <1>4
  <2>3. \A n \in 0..N : h[n] = IF n = 0 THEN Boundary ELSE h[n - 1] \o PartSent(f[n])
    <3> HIDE DEF step
    <3> TAKE n \in 0..N
    <3>1. n = 0 \/ n \in 1..N
      BY <1>1
    <3> QED
      BY <2>1, <2>2, <3>1
  <2> HIDE DEF step, N
  <2> QED
    BY <1>3, <2>3
<1>6. text = Turn(text)
  <2> HIDE DEF Turn
  <2> QED
    BY <1>5, Zenon
<1>7. SentUpTo(f) = text
  BY Zenon DEF SentUpTo
<1> HIDE DEF text
<1>8. /\ DOMAIN text = 0..N
      /\ text[0] = Boundary
      /\ \A n \in 1..N : text[n] = text[n - 1] \o PartSent(f[n])
  <2>1. text = [n \in 0..N |->
                  IF n = 0 THEN Boundary ELSE text[n - 1] \o PartSent(f[n])]
    BY <1>6
  <2>2. 0 \in 0..N /\ \A n \in 1..N : n \in 0..N /\ n # 0
    BY <1>1
  <2> HIDE DEF N
  <2> QED
    BY <2>1, <2>2, Zenon
<1>9. \A n \in 0..N : text[n] \in Text
  <2> DEFINE T == {n \in 0..N : text[n] \in Text}
  <2>1. 0 \in T
    BY <1>1, <1>8, Separators
  <2>2. \A n \in 1..N : n - 1 \in T => n \in T
    <3> TAKE n \in 1..N
    <3>1. text[n - 1] \in Text => text[n - 1] \o PartSent(f[n]) \in Text
      BY <1>1, PartIs, JoinIs DEF Joined
    <3> QED
      BY <1>1, <1>8, <3>1
  <2> HIDE DEF T
  <2>3. 0..N \subseteq T
    BY <1>1, <2>1, <2>2, CountingUp
  <2> QED
    BY <2>3 DEF T
<1>10. text \in [0..N -> Text]
  <2>1. text = [n \in 0..N |-> text[n]]
    <3>1. text = [n \in 0..N |->
                  IF n = 0 THEN Boundary ELSE text[n - 1] \o PartSent(f[n])]
      BY <1>6
    <3> HIDE DEF N
    <3> QED
      BY <3>1
  <2> HIDE DEF N
  <2> QED
    BY <2>1, <1>9, Zenon
<1> QED
  BY <1>1, <1>7, <1>8, <1>10

\* The bytes of a body, by where they lie.
LaidOut ==
    LET N == Len(form) IN
    /\ body \in Text /\ N \in Nat \ {0}
    /\ \A n \in 0..N : Sent(n) \in Nat /\ Sent(n) + 2 <= Len(body)
    /\ Sent(0) = Len(Boundary)
    /\ \A j \in 1..Len(Boundary) : body[j] = Boundary[j]
    /\ \A n \in 1..N : form[n] \in Text
    /\ \A n \in 0..(N - 1) :
         /\ body[Sent(n) + 1] = "CR" /\ body[Sent(n) + 2] = "LF"
         /\ body[Sent(n) + 3] = "h"
         /\ body[Sent(n) + 4] = "CR" /\ body[Sent(n) + 5] = "LF"
         /\ body[Sent(n) + 6] = "CR" /\ body[Sent(n) + 7] = "LF"
         /\ Sent(n + 1) = Sent(n) + 7 + Len(form[n + 1]) + D
         /\ \A j \in 1..Len(form[n + 1]) : body[Sent(n) + 7 + j] = form[n + 1][j]
         /\ \A j \in 1..D : body[Sent(n) + 7 + Len(form[n + 1]) + j] = Delimiter[j]
    /\ body[Sent(N) + 1] = "-" /\ body[Sent(N) + 2] = "-"
    /\ \/ Len(body) = Sent(N) + 2
       \/ /\ Len(body) = Sent(N) + 4
          /\ body[Sent(N) + 3] = "CR" /\ body[Sent(N) + 4] = "LF"

Begins(s, t) == Len(s) <= Len(t) /\ \A j \in 1..Len(s) : t[j] = s[j]

LEMMA BeginsJoined ==
    ASSUME NEW r, NEW s \in Text, NEW t \in Text, Begins(r, s), Len(r) \in Nat
    PROVE  Begins(r, s \o t)
<1>1. Joined(s, t, s \o t)
  BY JoinIs
<1>2. Len(r) <= Len(s) + Len(t) /\ \A j \in 1..Len(r) : j \in 1..Len(s)
  BY <1>1 DEF Begins, Joined
<1> QED
  BY <1>1, <1>2 DEF Begins, Joined

LEMMA BodyIsLaidOut ==
    ASSUME form \in Forms, body \in Bodies(form)
    PROVE  LaidOut
<1> DEFINE N == Len(form)
           text == SentUpTo(form)
           S(n) == Len(text[n])
           Earlier(m) == \A n \in 0..m : Begins(text[n], text[m])
<1>1. N \in Nat \ {0}
  <2>1. form \in Seq(Seq(Bytes)) /\ Len(form) > 0
    BY FormAssumption
  <2> QED
    BY <2>1
<1>2. /\ text \in [0..N -> Text]
      /\ text[0] = Boundary
      /\ \A n \in 1..N : form[n] \in Text /\ text[n] = text[n - 1] \o PartSent(form[n])
  BY SentUpToIs
<1> HIDE DEF text
<1>3. \A n \in 0..N : text[n] \in Text /\ S(n) \in Nat
  <2>1. \A s \in Text : Len(s) \in Nat
    BY DEF Text
  <2> QED
    BY <1>2, <2>1
<1>4. \A n \in 1..N :
         /\ n - 1 \in 0..N /\ n \in 0..N
         /\ Joined(text[n - 1], PartSent(form[n]), text[n])
  <2> TAKE n \in 1..N
  <2>1. n - 1 \in 0..N /\ n \in 0..N
    BY <1>1
  <2>2. text[n - 1] \in Text /\ PartSent(form[n]) \in Text
    BY <1>2, <1>3, <2>1, PartIs
  <2> HIDE DEF N
  <2> QED
    BY <1>2, <2>1, <2>2, JoinIs
<1>5. \A m \in 0..N : Earlier(m)
  <2> DEFINE T == {m \in 0..N : Earlier(m)}
  <2>1. 0 \in T
    <3>1. 0 \in 0..N /\ \A n \in 0..0 : n = 0
      BY <1>1
    <3> QED
      BY <3>1, <1>3 DEF Begins
  <2>2. \A m \in 1..N : m - 1 \in T => m \in T
    <3> SUFFICES ASSUME NEW m \in 1..N, m - 1 \in T, NEW n \in 0..m
                 PROVE  Begins(text[n], text[m])
      BY <1>1
    <3>1. n = m \/ n \in 0..(m - 1)
      OBVIOUS
    <3>2. CASE n = m
      BY <1>3, <1>4, <3>2 DEF Begins
    <3>3. CASE n \in 0..(m - 1)
      <4>1. Begins(text[n], text[m - 1])
        BY <3>3
      <4>2. /\ text[m - 1] \in Text /\ PartSent(form[m]) \in Text /\ S(n) \in Nat
            /\ text[m] = text[m - 1] \o PartSent(form[m])
        <5>1. n \in 0..N
          BY <1>1, <3>3
        <5> QED
          BY <1>2, <1>3, <1>4, <5>1, PartIs
      <4> QED
        BY <4>1, <4>2, BeginsJoined
    <3> QED
      BY <3>1, <3>2, <3>3
  <2> HIDE DEF T
  <2>3. 0..N \subseteq T
    BY <1>1, <2>1, <2>2, CountingUp
  <2> QED
    BY <2>3 DEF T
<1>6. /\ Joined(text[N], Dashes, Body(form))
      /\ \/ body = Body(form)
         \/ body = Body(form) \o CRLF /\ Joined(Body(form), CRLF, Body(form) \o CRLF)
  <2>1. N \in 0..N
    BY <1>1
  <2>2. Joined(text[N], Dashes, Body(form))
    <3> HIDE DEF N
    <3>1. Joined(text[N], Dashes, text[N] \o Dashes)
      BY <1>3, <2>1, Separators, JoinIs, Zenon
    <3> QED
      BY <3>1 DEF Body, text, N
  <2>3. Joined(Body(form), CRLF, Body(form) \o CRLF)
    BY <2>2, Separators, JoinIs DEF Joined
  <2> QED
    BY <2>2, <2>3 DEF Bodies
<1>7. /\ body \in Text
      /\ Begins(text[N], body)
      /\ body[S(N) + 1] = "-" /\ body[S(N) + 2] = "-"
      /\ \/ Len(body) = S(N) + 2
         \/ /\ Len(body) = S(N) + 4
            /\ body[S(N) + 3] = "CR" /\ body[S(N) + 4] = "LF"
  <2> DEFINE B == Body(form)
             L == S(N)
  <2>1. /\ B \in Text /\ Len(B) = L + 2 /\ L \in Nat
        /\ \A j \in 1..L : B[j] = text[N][j]
        /\ B[L + 1] = "-" /\ B[L + 2] = "-"
    <3>1. /\ B \in Text /\ Len(B) = L + 2 /\ L \in Nat
          /\ \A j \in 1..L : B[j] = text[N][j]
          /\ \A j \in 1..2 : B[L + j] = Dashes[j]
      BY <1>6, Separators DEF Joined
    <3>2. B[L + 1] = Dashes[1] /\ B[L + 2] = Dashes[2]
      BY <3>1
    <3> QED
      BY <3>1, <3>2, Separators
  <2>2. CASE body = B
    BY <2>1, <2>2 DEF Begins
  <2>3. CASE body = B \o CRLF /\ Joined(B, CRLF, B \o CRLF)
    <3>1. /\ body \in Text /\ Len(body) = L + 4
          /\ \A j \in 1..(L + 2) : body[j] = B[j]
          /\ \A j \in 1..2 : body[L + 2 + j] = CRLF[j]
      BY <2>1, <2>3, Separators DEF Joined
    <3>2. body[L + 2 + 1] = CRLF[1] /\ body[L + 2 + 2] = CRLF[2]
      BY <3>1
    <3>3. L + 2 + 1 = L + 3 /\ L + 2 + 2 = L + 4
      BY <2>1
    <3>4. body[L + 3] = "CR" /\ body[L + 4] = "LF"
      BY <3>2, <3>3, Separators
    <3>5. body[L + 1] = "-" /\ body[L + 2] = "-"
      BY <2>1, <3>1
    <3>6. \A j \in 1..L : j \in 1..(L + 2)
      BY <2>1
    <3>7. Begins(text[N], body)
      BY <2>1, <3>1, <3>6 DEF Begins
    <3> QED
      BY <3>1, <3>4, <3>5, <3>7
  <2> QED
    BY <1>6, <2>2, <2>3
<1>8. \A n \in 0..N : Begins(text[n], body) /\ S(n) <= S(N)
  <2> TAKE n \in 0..N
  <2>1. N \in 0..N /\ Begins(text[n], text[N])
    BY <1>1, <1>5
  <2>2. S(n) \in Nat /\ S(N) \in Nat /\ Len(body) \in Nat
    BY <1>3, <1>7, <2>1 DEF Text
  <2>3. S(n) <= S(N) /\ \A j \in 1..S(n) : j \in 1..S(N) /\ text[N][j] = text[n][j]
    BY <2>1, <2>2 DEF Begins
  <2> QED
    BY <1>7, <2>2, <2>3 DEF Begins
<1>9. /\ S(0) = Len(Boundary)
      /\ \A j \in 1..Len(Boundary) : body[j] = Boundary[j]
  <2>1. 0 \in 0..N
    BY <1>1
  <2> QED
    BY <1>2, <1>8, <2>1 DEF Begins
<1>10. \A n \in 0..N : S(n) \in Nat /\ S(n) + 2 <= Len(body)
  <2> TAKE n \in 0..N
  <2>1. N \in 0..N /\ S(n) \in Nat /\ S(N) \in Nat /\ S(n) <= S(N)
    BY <1>1, <1>3, <1>8
  <2> QED
    BY <1>7, <2>1
<1>11. \A n \in 0..(N - 1) :
         /\ body[S(n) + 1] = "CR" /\ body[S(n) + 2] = "LF"
         /\ body[S(n) + 3] = "h"
         /\ body[S(n) + 4] = "CR" /\ body[S(n) + 5] = "LF"
         /\ body[S(n) + 6] = "CR" /\ body[S(n) + 7] = "LF"
         /\ S(n + 1) = S(n) + 7 + Len(form[n + 1]) + D
         /\ \A j \in 1..Len(form[n + 1]) : body[S(n) + 7 + j] = form[n + 1][j]
         /\ \A j \in 1..D : body[S(n) + 7 + Len(form[n + 1]) + j] = Delimiter[j]
  <2> TAKE n \in 0..(N - 1)
  <2> DEFINE c == form[n + 1]
             o == PartSent(c)
             a == S(n)
  <2>1. n + 1 \in 1..N /\ (n + 1) - 1 = n /\ n + 1 \in 0..N /\ n \in 0..N
    BY <1>1
  <2>2. /\ c \in Text /\ Joined(text[n], o, text[n + 1]) /\ Begins(text[n + 1], body)
        /\ a \in Nat
    BY <1>2, <1>3, <1>4, <1>8, <2>1
  <2>3. /\ Len(c) \in Nat /\ Len(o) = 7 + Len(c) + D
        /\ o[1] = "CR" /\ o[2] = "LF" /\ o[3] = "h"
        /\ o[4] = "CR" /\ o[5] = "LF" /\ o[6] = "CR" /\ o[7] = "LF"
        /\ \A j \in 1..Len(c) : o[7 + j] = c[j]
        /\ \A j \in 1..D : o[7 + Len(c) + j] = Delimiter[j]
    BY <2>2, PartIs
  <2> HIDE DEF o, a, c
  <2>4. /\ D \in Nat /\ a \in Nat /\ Len(c) \in Nat
        /\ Len(o) = 7 + Len(c) + D /\ Len(o) \in Nat
    BY <2>2, <2>3, DelimiterIs
  <2>5. S(n + 1) = a + Len(o) /\ \A j \in 1..Len(o) : body[a + j] = o[j]
    <3>1. S(n + 1) = a + Len(o) /\ \A j \in 1..Len(o) : text[n + 1][a + j] = o[j]
      BY <2>2 DEF Joined, a
    <3>2. \A j \in 1..Len(o) : a + j \in 1..S(n + 1)
      <4> DEFINE q == S(n + 1)
      <4>1. q = a + Len(o)
        BY <3>1
      <4> HIDE DEF q
      <4>2. \A j \in 1..Len(o) : a + j \in 1..q
        BY <2>4, <4>1
      <4> QED
        BY <4>2 DEF q
    <3> QED
      BY <2>2, <3>1, <3>2 DEF Begins
  <2>6. \A j \in 1..7 : j \in 1..Len(o)
    BY <2>3, <2>4
  <2>7. /\ body[a + 1] = o[1] /\ body[a + 2] = o[2] /\ body[a + 3] = o[3]
        /\ body[a + 4] = o[4] /\ body[a + 5] = o[5] /\ body[a + 6] = o[6]
        /\ body[a + 7] = o[7]
    BY <2>5, <2>6
  <2>8. \A j \in 1..Len(c) : body[a + 7 + j] = c[j]
    <3> TAKE j \in 1..Len(c)
    <3>1. 7 + j \in 1..Len(o) /\ a + 7 + j = a + (7 + j)
      BY <2>4
    <3> QED
      BY <2>3, <2>5, <3>1
  <2>9. \A j \in 1..D : body[a + 7 + Len(c) + j] = Delimiter[j]
    <3> TAKE j \in 1..D
    <3>1. 7 + Len(c) + j \in 1..Len(o) /\ a + 7 + Len(c) + j = a + (7 + Len(c) + j)
      BY <2>4
    <3> QED
      BY <2>3, <2>5, <3>1
  <2>10. S(n + 1) = a + 7 + Len(c) + D
    <3> DEFINE q == S(n + 1)
    <3>1. q = a + Len(o)
      BY <2>5
    <3> HIDE DEF q
    <3>2. q = a + 7 + Len(c) + D
      BY <2>4, <3>1
    <3> QED
      BY <3>2 DEF q
  <2> QED
    BY <2>3, <2>7, <2>8, <2>9, <2>10 DEF a, c
<1>12. \A n : Sent(n) = S(n)
  BY DEF Sent, text
<1> HIDE DEF S, N
<1>13. /\ \A n \in 0..N : Sent(n) \in Nat /\ Sent(n) + 2 <= Len(body)
       /\ Sent(0) = Len(Boundary)
  BY <1>9, <1>10, <1>12
<1>14. \A n \in 1..N : form[n] \in Text
  BY <1>2
<1> QED
  BY <1>1, <1>7, <1>9, <1>11, <1>12, <1>13, <1>14, Zenon DEF LaidOut, N

-----------------------------------------------------------------------------
(* What a read gives.                                                      *)

LEMMA FirstOfPlaces ==
    ASSUME NEW places \in SUBSET Nat, places # {}
    PROVE  FirstOf(places) \in places /\ \A q \in places : FirstOf(places) <= q
<1>1. PICK p \in places : \A q \in places : ~(<<q, p>> \in OpToRel(<, Nat))
  BY NatLessThanWellFounded, WFMin
<1>2. \A q \in places : p <= q
  <2> TAKE q \in places
  <2>1. ~(q < p)
    <3>1. q < p => <<q, p>> \in OpToRel(<, Nat)
      <4>1. q \in Nat /\ p \in Nat
        OBVIOUS
      <4> QED
        BY <4>1 DEF OpToRel
    <3> QED
      BY <1>1, <3>1
  <2> QED
    BY <2>1
<1> QED
  BY <1>2, FirstIs, Zenon

LEMMA BodyIsText ==
    ASSUME Shape
    PROVE  LaidOut /\ body \in Text /\ Len(body) \in Nat
<1>1. form \in Forms /\ body \in Bodies(form)
  BY DEF Shape
<1>2. LaidOut
  BY <1>1, BodyIsLaidOut
<1>3. body \in Text
  BY <1>2 DEF LaidOut
<1> QED
  BY <1>2, <1>3 DEF Text

Read(e) == SubSeq(body, pos + 1, e)

ReadsUpTo(e) ==
    /\ pos \in Nat /\ base \in Nat /\ base <= pos
    /\ e \in Nat /\ pos < e /\ e <= Len(body) /\ Len(body) \in Nat
    /\ Read(e) \in Text /\ Len(Read(e)) = e - pos
    /\ \A j \in 1..(e - pos) : Read(e)[j] = body[pos + j]

LEMMA ReadIs ==
    ASSUME Shape, pc \notin Ended, NEW e \in ReadEnds
    PROVE  /\ ReadsUpTo(e)
           /\ Refilled(e) => end' = e /\ base' \in Nat /\ base' <= pos
<1>1. body \in Text /\ Len(body) \in Nat
  BY BodyIsText
<1>2. pos \in Nat /\ base \in Nat /\ base <= pos /\ end \in 0..Len(body)
  <2>1. /\ base \in Nat /\ pos \in Int /\ end \in 0..Len(body)
        /\ pc # "assert rewind" => base <= pos
    BY DEF Shape
  <2>2. base \in Nat /\ pos \in Int /\ base <= pos
    BY <2>1 DEF Ended
  <2>3. pos \in Nat
    BY <2>2
  <2> QED
    BY <2>1, <2>2, <2>3
<1>3. e \in Nat /\ pos < e /\ e <= Len(body)
  BY <1>1, <1>2, BufferAssumption DEF ReadEnds
<1>4. Refilled(e) => end' = e /\ base' \in Nat /\ base' <= pos
  BY <1>2 DEF Refilled
<1>5. /\ Read(e) \in Text
      /\ Len(Read(e)) = IF pos <= e THEN e - pos ELSE 0
      /\ \A j \in 1..(e - pos) : Read(e)[j] = body[pos + j]
  BY <1>1, <1>2, <1>3, PieceIs DEF Read
<1> QED
  BY <1>1, <1>2, <1>3, <1>4, <1>5 DEF ReadsUpTo

-----------------------------------------------------------------------------
(* Reading a line keeps what the variables are, and does not touch a part  *)
(* but to begin one.                                                       *)

LEMMA DeliveryStays ==
    ASSUME Delivery, UNCHANGED <<body, starts, delivered>>, pc' # "part"
    PROVE  Delivery'
  BY DEF Delivery

\* What every read of a line leaves of the variables of the connection.
ReaderMoves ==
    /\ UNCHANGED message
    /\ base' \in Nat /\ end' \in 0..Len(body) /\ pos' \in Int /\ pos' <= end'
    /\ clean' \in BOOLEAN

LEMMA LineReadKeeps ==
    ASSUME Shape, Delivery, pc \in Lines, ReaderMoves, base' <= pos',
           NEW text, LineRead(text)
    PROVE  Shape' /\ Delivery'
<1>1. /\ form' \in Forms /\ body' \in Bodies(form') /\ Len(body') = Len(body)
      /\ Len(body) \in Nat
  BY BodyIsText DEF Shape, ReaderMoves, message
<1>2. line' \in Text /\ ends_with_CR' \in BOOLEAN
  BY Separators DEF LineRead, NewLine
<1>3. CASE UNCHANGED part /\ pc' \in Lines \union {"done", "assert line"}
  <2>1. garbled' \in BOOLEAN
    <3>1. garbled \in BOOLEAN
      BY DEF Shape
    <3> QED
      BY <3>1, Zenon DEF LineRead, Lines
  <2>2. Delivery'
    <3>1. pc' # "part" /\ UNCHANGED <<body, starts, delivered>>
      BY <1>3 DEF Lines, part, ReaderMoves, message
    <3> QED
      BY <3>1, DeliveryStays
  <2>3. /\ pc' \in Lines \union Ended \union {"part"}
    BY <1>3 DEF Ended
  <2>4. /\ first' \in BOOLEAN /\ carry' \in Text
        /\ delivered' \in Seq(Text) /\ starts' \in Seq(0..Len(body'))
        /\ Len(delivered') = Len(starts')
    BY <1>1, <1>3 DEF part, Shape
  <2> QED
    BY <1>1, <1>2, <2>1, <2>2, <2>3, <2>4 DEF Shape, ReaderMoves
<1>4. CASE pc = "more headers" /\ text = <<>>
  <2>1. /\ pc' = "part"
        /\ delivered' = Append(delivered, <<>>)
        /\ starts' = Append(starts, pos')
        /\ carry' = [j \in 1..D |-> "ff"]
        /\ first' = TRUE
        /\ garbled' = garbled
    BY <1>4 DEF LineRead
  <2>2. pos' \in 0..Len(body)
    BY <1>1 DEF ReaderMoves
  <2> DEFINE K == Len(delivered)
  <2>3. /\ K \in Nat /\ K = Len(starts)
        /\ delivered \in Seq(Text) /\ starts \in Seq(0..Len(body))
    <3>1. /\ delivered \in Seq(Text) /\ starts \in Seq(0..Len(body))
          /\ Len(delivered) = Len(starts)
      BY DEF Shape
    <3> QED
      BY <3>1
  <2>4. /\ delivered' \in Seq(Text) /\ Len(delivered') = K + 1
        /\ \A m \in 1..K : delivered'[m] = delivered[m]
        /\ delivered'[K + 1] = <<>>
    BY <2>1, <2>3, Separators, AppendProperties
  <2>5. /\ starts' \in Seq(0..Len(body)) /\ Len(starts') = K + 1
        /\ \A m \in 1..K : starts'[m] = starts[m]
        /\ starts'[K + 1] = pos'
    BY <2>1, <2>2, <2>3, AppendProperties
  <2>6. carry' \in Text /\ Len(carry') = D
    <3>1. D \in Nat /\ "ff" \in Bytes
      BY DelimiterIs, FormAssumption
    <3> DEFINE s == [j \in 1..D |-> "ff"]
    <3>2. s \in Seq(Bytes) /\ Len(s) = D
      <4> HIDE DEF D
      <4>1. s \in [1..D -> Bytes]
        BY <3>1
      <4> QED
        BY <3>1, <4>1
    <3> QED
      BY <2>1, <3>2 DEF Text
  <2>7. Shape'
    <3>1. garbled' \in BOOLEAN /\ first' \in BOOLEAN
      BY <2>1 DEF Shape
    <3>2. Len(delivered') = Len(starts')
      BY <2>4, <2>5
    <3> QED
      BY <1>1, <1>2, <2>1, <2>4, <2>5, <2>6, <3>1, <3>2 DEF Shape, ReaderMoves
  <2>8. body' = body
    BY DEF ReaderMoves, message
  <2>9. \A m \in 1..Len(delivered') :
           /\ starts'[m] + Len(delivered'[m]) <= Len(body')
           /\ delivered'[m]
                = SubSeq(body', starts'[m] + 1, starts'[m] + Len(delivered'[m]))
    <3> TAKE m \in 1..Len(delivered')
    <3>1. m \in 1..K \/ m = K + 1
      BY <2>3, <2>4
    <3>2. CASE m \in 1..K
      BY <2>4, <2>5, <2>8, <3>2 DEF Delivery
    <3>3. CASE m = K + 1
      <4>1. starts'[m] = pos' /\ delivered'[m] = <<>> /\ Len(delivered'[m]) = 0
        BY <2>4, <2>5, <3>3
      <4>2. PICK p \in 0..Len(body) : pos' = p
        BY <2>2
      <4>3. p \in Int /\ p + 0 = p /\ p <= Len(body) /\ p + 1 \in Int /\ p < p + 1
        BY <1>1
      <4>4. SubSeq(body, p + 1, p) = <<>>
        BY <4>3, SubSeqEmpty, Zenon
      <4> QED
        BY <2>8, <4>1, <4>2, <4>3, <4>4, Zenon
    <3> QED
      BY <3>1, <3>2, <3>3
  <2>10. LET got == starts'[Len(starts')] + Len(delivered'[Len(starts')])
         IN  Len(starts') > 0 /\ first' /\ got = pos'
    <3>1. starts'[K + 1] = pos' /\ Len(delivered'[K + 1]) = 0
      BY <2>4, <2>5
    <3>2. pos' \in Int /\ pos' + 0 = pos'
      <4>1. \A p \in 0..Len(body) : p \in Int /\ p + 0 = p
        BY <1>1
      <4> QED
        BY <2>2, <4>1
    <3>3. Len(starts') = K + 1 /\ K + 1 > 0
      BY <2>3, <2>5
    <3> QED
      BY <2>1, <3>1, <3>2, <3>3
  <2> QED
    BY <2>6, <2>7, <2>9, <2>10 DEF Delivery
<1>5. \/ UNCHANGED part /\ pc' \in Lines \union {"done", "assert line"}
      \/ pc = "more headers" /\ text = <<>>
  <2>1. CASE pc = "preamble"
    BY <2>1 DEF LineRead, Lines
  <2>2. CASE pc = "header"
    BY <2>2 DEF LineRead, Lines
  <2>3. CASE pc = "more headers"
    BY <2>3 DEF LineRead, Lines
  <2>4. CASE pc = "after delimiter"
    BY <2>4 DEF LineRead, Lines
  <2> QED
    BY <2>1, <2>2, <2>3, <2>4 DEF Lines
<1> QED
  BY <1>3, <1>4, <1>5

LEMMA ReadLineKeeps ==
    ASSUME Shape, Delivery, ReadLine
    PROVE  Shape' /\ Delivery'
<1> DEFINE Finishes(data) == ends_with_CR /\ data[1] = "LF"
           Cancels(data) == ends_with_CR /\ data[1] # "LF"
           Crlfs(data) == Places(CRLF, data)
           Appended(data) == line \o (IF Cancels(data) THEN <<"CR">> ELSE <<>>)
                              \o (IF Last(data) = "CR" THEN Front(data) ELSE <<>>)
           LineOf(data) == Appended(data)
                              \o (IF Crlfs(data) = {} THEN data
                                  ELSE SubSeq(data, 1, FirstOf(Crlfs(data)) - 1))
           Rewound(data) == (IF Finishes(data) THEN Len(data) - 1 ELSE 0)
                        + (IF Crlfs(data) = {} THEN 0
                           ELSE Len(data) - FirstOf(Crlfs(data)) - 1)
           GoesOn(data) ==
               /\ line' = LineOf(data)
               /\ ends_with_CR' = (Last(data) = "CR" \/ (ends_with_CR /\ ~Cancels(data)))
               /\ UNCHANGED <<pc, part, garbled>>
<1>1. pc \in Lines /\ UNCHANGED message
  BY DEF ReadLine
<1>2. PICK e \in ReadEnds :
         /\ Refilled(e)
         /\ pos' = e - Rewound(Read(e))
         /\ clean' = (clean /\ Last(Read(e)) # "CR")
         /\ IF pos' < base' THEN Aborts("assert rewind")
            ELSE IF Finishes(Read(e)) \/ Crlfs(Read(e)) # {} THEN LineRead(LineOf(Read(e)))
            ELSE GoesOn(Read(e))
  BY Zenon DEF ReadLine, Read
<1> DEFINE data == Read(e)
<1>3. pc \notin Ended
  BY <1>1 DEF Lines, Ended
<1>4. /\ ReadsUpTo(e)
      /\ end' = e /\ base' \in Nat /\ base' <= pos
  BY <1>2, <1>3, ReadIs
<1>5. /\ data \in Text /\ Len(data) \in Nat \ {0} /\ e \in Nat /\ e <= Len(body)
      /\ Len(body) \in Nat
  BY <1>4 DEF ReadsUpTo
<1>6. Crlfs(data) # {} =>
         /\ FirstOf(Crlfs(data)) \in 1..(Len(data) - 1)
         /\ SubSeq(data, 1, FirstOf(Crlfs(data)) - 1) \in Text
  <2> SUFFICES ASSUME Crlfs(data) # {}
               PROVE  /\ FirstOf(Crlfs(data)) \in 1..(Len(data) - 1)
                      /\ SubSeq(data, 1, FirstOf(Crlfs(data)) - 1) \in Text
    OBVIOUS
  <2> HIDE DEF data
  <2> DEFINE p == FirstOf(Crlfs(data))
  <2>1. Crlfs(data) \subseteq 1..(Len(data) - Len(CRLF) + 1)
    BY DEF Places
  <2>2. Len(data) - Len(CRLF) + 1 = Len(data) - 1
    BY <1>5, Separators
  <2>3. Crlfs(data) \in SUBSET Nat
    BY <2>1, <2>2
  <2>4. p \in Crlfs(data)
    BY <2>3, FirstOfPlaces
  <2>5. p \in 1..(Len(data) - 1)
    BY <2>1, <2>2, <2>4
  <2> HIDE DEF p
  <2>6. p - 1 \in Int /\ p - 1 <= Len(data) /\ 0 \in Nat /\ 0 + 1 = 1
    BY <1>5, <2>5
  <2>7. SubSeq(data, 0 + 1, p - 1) \in Text
    BY <1>5, <2>6, PieceIs
  <2> QED
    BY <2>5, <2>6, <2>7 DEF p
<1>7. Rewound(data) \in Nat
  BY <1>5, <1>6
<1>8. LineOf(data) \in Text
  <2> HIDE DEF data
  <2>1. Front(data) \in Text
    <3>1. Len(data) - 1 \in Int /\ Len(data) - 1 <= Len(data) /\ 0 \in Nat /\ 0 + 1 = 1
      BY <1>5
    <3>2. SubSeq(data, 0 + 1, Len(data) - 1) \in Text
      BY <1>5, <3>1, PieceIs
    <3> QED
      BY <3>1, <3>2 DEF Front
  <2>2. \A s, t \in Text : s \o t \in Text
    BY JoinIs DEF Joined
  <2>3. <<"CR">> \in Text /\ <<>> \in Text
    BY FormAssumption DEF Text
  <2>4. line \in Text
    BY DEF Shape
  <2>5. Appended(data) \in Text
    BY <2>1, <2>2, <2>3, <2>4
  <2> HIDE DEF Appended
  <2> QED
    BY <1>5, <1>6, <2>2, <2>5
<1> HIDE DEF Rewound, LineOf, data
<1>9. ReaderMoves
  <2>1. pos' \in Int /\ pos' <= end' /\ end' \in 0..Len(body)
    <3>1. PICK r \in Nat : pos' = e - r
      BY <1>2, <1>7 DEF data
    <3>2. e \in Nat /\ e <= Len(body) /\ Len(body) \in Nat /\ end' = e
      BY <1>4, <1>5
    <3> QED
      BY <3>1, <3>2
  <2>2. clean' \in BOOLEAN
    BY <1>2 DEF Shape
  <2> QED
    BY <1>1, <1>4, <2>1, <2>2 DEF ReaderMoves
<1>10. CASE pos' < base'
  <2>1. Aborts("assert rewind")
    BY <1>2, <1>10
  <2>2. /\ pc' = "assert rewind" /\ UNCHANGED <<part, garbled>>
        /\ line' = <<>> /\ ends_with_CR' = FALSE
    BY <2>1 DEF Aborts, NewLine
  <2>3. Delivery'
    BY <2>2, <1>1, DeliveryStays DEF part, message
  <2>4. Shape'
    BY <2>2, <1>9, Separators DEF Shape, ReaderMoves, part, Ended, message
  <2> QED
    BY <2>3, <2>4
<1>11. CASE ~(pos' < base')
  <2>1. base' <= pos'
    BY <1>4, <1>9, <1>11 DEF ReaderMoves
  <2>2. CASE Finishes(data) \/ Crlfs(data) # {}
    <3>1. LineRead(LineOf(data))
      BY <1>2, <1>11, <2>2 DEF data
    <3> QED
      BY <1>1, <1>9, <2>1, <3>1, LineReadKeeps
  <2>3. CASE ~(Finishes(data) \/ Crlfs(data) # {})
    <3>1. GoesOn(data)
      BY <1>2, <1>11, <2>3 DEF data
    <3>2. /\ line' \in Text /\ ends_with_CR' \in BOOLEAN
          /\ UNCHANGED <<pc, part, garbled>>
      BY <1>8, <3>1 DEF Shape
    <3>3. Delivery'
      BY <1>1, <3>2, DeliveryStays DEF part, message, Lines
    <3>4. Shape'
      BY <1>9, <2>1, <3>2 DEF Shape, ReaderMoves, part, message
    <3> QED
      BY <3>3, <3>4
  <2> QED
    BY <2>2, <2>3
<1> QED
  BY <1>10, <1>11

LEMMA ReadLineFailsKeeps ==
    ASSUME Shape, Delivery, ReadLineFails
    PROVE  Shape' /\ Delivery'
<1>1. /\ pc \in Lines /\ pos = end /\ UNCHANGED <<message, reader>>
      /\ clean' = (clean /\ pos = Len(body))
  BY DEF ReadLineFails
<1>2. /\ base \in Nat /\ end \in 0..Len(body) /\ pos \in Int /\ pos <= end /\ base <= pos
      /\ clean \in BOOLEAN /\ line \in Text
  BY <1>1 DEF Shape, Lines
<1>3. ReaderMoves /\ base' <= pos'
  BY <1>1, <1>2 DEF ReaderMoves, reader
<1>4. CASE pc = "after delimiter"
  <2>1. LineRead(line)
    BY <1>4 DEF ReadLineFails
  <2> QED
    BY <1>1, <1>3, <2>1, LineReadKeeps
<1>5. CASE pc # "after delimiter"
  <2>1. /\ pc' = "done" /\ line' = <<>> /\ ends_with_CR' = FALSE
        /\ UNCHANGED <<part, garbled>>
    BY <1>5 DEF ReadLineFails, NewLine
  <2>2. Delivery'
    BY <1>1, <2>1, DeliveryStays DEF part, message
  <2>3. Shape'
    BY <1>1, <1>3, <2>1, Separators DEF Shape, ReaderMoves, part, Ended, message
  <2> QED
    BY <2>2, <2>3
<1> QED
  BY <1>4, <1>5

LEMMA ProcessPartFailsKeeps ==
    ASSUME Shape, Delivery, ProcessPartFails
    PROVE  Shape' /\ Delivery'
<1>1. /\ pc = "part" /\ pc' = "done" /\ clean' = FALSE
      /\ UNCHANGED <<message, reader, line, ends_with_CR, part, garbled>>
  BY DEF ProcessPartFails
<1>2. Delivery'
  BY <1>1, DeliveryStays DEF part, message
<1>3. Shape'
  BY <1>1 DEF Shape, part, Ended, message, reader
<1> QED
  BY <1>2, <1>3

-----------------------------------------------------------------------------
(* Reading a part.                                                         *)

\* Where in the body the callback is to go on.
got == starts[Len(starts)] + Len(delivered[Len(starts)])

LEMMA ReadingPart ==
    ASSUME Shape, Delivery, pc = "part"
    PROVE  /\ Len(starts) = Len(delivered) /\ Len(starts) \in Nat \ {0}
           /\ starts[Len(starts)] \in Nat
           /\ delivered[Len(starts)] \in Text /\ Len(delivered[Len(starts)]) \in Nat
           /\ delivered[Len(starts)] = SubSeq(body, starts[Len(starts)] + 1, got)
           /\ carry \in Text /\ Len(carry) = D /\ D \in Nat \ {0}
           /\ got \in Nat /\ got <= pos /\ got = pos - D + buffer_to_process - 1
           /\ buffer_to_process \in {1, D + 1}
           /\ buffer_to_process = 1 => carry = SubSeq(body, got + 1, pos)
           /\ ~first <=> buffer_to_process = 1
<1>1. /\ delivered \in Seq(Text) /\ starts \in Seq(0..Len(body))
      /\ Len(delivered) = Len(starts) /\ carry \in Text /\ first \in BOOLEAN
      /\ pos \in Int
  BY DEF Shape
<1>2. /\ Len(starts) > 0 /\ Len(carry) = D
      /\ IF first THEN got = pos
         ELSE got = pos - D /\ carry = SubSeq(body, got + 1, pos)
  BY DEF Delivery, got
<1> DEFINE K == Len(starts)
<1>3. K \in Nat \ {0} /\ K \in 1..Len(delivered) /\ K \in 1..Len(starts)
  BY <1>1, <1>2
<1>4. delivered[K] \in Text /\ starts[K] \in 0..Len(body)
  BY <1>1, <1>3, ElementOfSeq
<1>5. starts[K] \in Nat /\ Len(delivered[K]) \in Nat
  BY <1>4, BodyIsText DEF Text
<1>6. delivered[K] = SubSeq(body, starts[K] + 1, got)
  BY <1>3 DEF Delivery, got
<1>7. got \in Nat
  BY <1>5 DEF got
<1>8. D \in Nat \ {0}
  BY DelimiterIs, Separators
<1>9. /\ got = pos - D + buffer_to_process - 1
      /\ buffer_to_process \in {1, D + 1} /\ got <= pos
      /\ buffer_to_process = 1 => carry = SubSeq(body, got + 1, pos)
      /\ ~first <=> buffer_to_process = 1
  <2>1. CASE first
    <3>1. buffer_to_process = D + 1 /\ got = pos
      BY <1>2, <2>1 DEF buffer_to_process
    <3> QED
      BY <1>1, <1>8, <2>1, <3>1
  <2>2. CASE ~first
    <3>1. buffer_to_process = 1 /\ got = pos - D /\ carry = SubSeq(body, got + 1, pos)
      BY <1>2, <2>2 DEF buffer_to_process
    <3> QED
      BY <1>1, <1>7, <1>8, <2>2, <3>1
  <2> QED
    BY <1>1, <2>1, <2>2
<1> QED
  BY <1>1, <1>2, <1>3, <1>4, <1>5, <1>6, <1>7, <1>8, <1>9

\* What lies in raw_buffer from buffer_to_process on lies so in the body.
LEMMA WindowOfBody ==
    ASSUME Shape, Delivery, pc = "part", NEW e \in ReadEnds,
           NEW a \in Nat, NEW b \in Nat,
           buffer_to_process <= a + 1, a <= b, b <= D + (e - pos)
    PROVE  /\ pos - D + a \in Nat
           /\ SubSeq(carry \o Read(e), a + 1, b) \in Text
           /\ SubSeq(carry \o Read(e), a + 1, b)
                = SubSeq(body, (pos - D + a) + 1, pos - D + b)
<1>1. ReadsUpTo(e)
  BY ReadIs DEF Ended
<1>2. /\ carry \in Text /\ Len(carry) = D /\ D \in Nat \ {0}
      /\ got \in Nat /\ got <= pos /\ got = pos - D + buffer_to_process - 1
      /\ buffer_to_process \in {1, D + 1}
      /\ buffer_to_process = 1 => carry = SubSeq(body, got + 1, pos)
  BY ReadingPart
<1>3. /\ pos \in Nat /\ e \in Nat /\ pos < e /\ e <= Len(body) /\ Len(body) \in Nat
      /\ Read(e) \in Text /\ Len(Read(e)) = e - pos
      /\ \A j \in 1..(e - pos) : Read(e)[j] = body[pos + j]
  BY <1>1 DEF ReadsUpTo
<1>4. body \in Text
  BY BodyIsText
<1> DEFINE raw == carry \o Read(e)
           lo == buffer_to_process
<1>5. /\ raw \in Text /\ Len(raw) = D + (e - pos)
      /\ \A j \in 1..D : raw[j] = carry[j]
      /\ \A j \in 1..(e - pos) : raw[D + j] = Read(e)[j]
  <2>1. Joined(carry, Read(e), raw)
    BY <1>2, <1>3, JoinIs
  <2> QED
    BY <1>2, <1>3, <2>1 DEF Joined
<1>6. /\ lo \in Nat /\ lo <= a + 1 /\ got = pos - D + lo - 1
      /\ pos - D + a \in Nat /\ pos - D + b \in Nat /\ pos - D + b <= Len(body)
      /\ pos - D + a <= pos - D + b /\ (pos - D + b) - (pos - D + a) = b - a
  <2>1. lo \in Nat
    BY <1>2
  <2> HIDE DEF lo
  <2>2. lo <= a + 1 /\ got = pos - D + lo - 1
    BY <1>2 DEF lo
  <2>3. pos - D + a \in Nat
    BY <1>2, <1>3, <2>1, <2>2
  <2> QED
    BY <1>2, <1>3, <2>1, <2>2, <2>3
<1>7. ASSUME NEW j \in 1..(b - a)  PROVE raw[a + j] = body[(pos - D + a) + j]
  <2>1. a + j \in Nat /\ lo <= a + j /\ a + j <= D + (e - pos)
    <3> HIDE DEF lo
    <3> QED
      BY <1>2, <1>3, <1>6
  <2>2. CASE a + j > D
    <3>1. /\ (a + j) - D \in 1..(e - pos) /\ D + ((a + j) - D) = a + j
          /\ pos + ((a + j) - D) = (pos - D + a) + j
      BY <1>2, <1>3, <2>1, <2>2
    <3> QED
      BY <1>3, <1>5, <3>1
  <2>3. CASE a + j <= D
    <3>1. lo = 1
      BY <1>2, <2>1, <2>3
    <3>2. /\ carry = SubSeq(body, got + 1, pos) /\ got = pos - D
      BY <1>2, <1>3, <3>1
    <3>3. a + j \in 1..D /\ a + j \in 1..(pos - got) /\ got + (a + j) = (pos - D + a) + j
      BY <1>2, <1>3, <2>1, <2>3, <3>2
    <3>4. carry[a + j] = body[got + (a + j)]
      <4>1. /\ got \in Nat /\ pos \in Int /\ pos <= Len(body)
        BY <1>2, <1>3
      <4>2. \A o \in 1..(pos - got) : SubSeq(body, got + 1, pos)[o] = body[got + o]
        BY <1>4, <4>1, PieceIs
      <4> QED
        BY <3>2, <3>3, <4>2
    <3> QED
      BY <1>5, <3>3, <3>4
  <2>4. a + j > D \/ a + j <= D
    BY <1>2, <2>1
  <2> QED
    BY <2>2, <2>3, <2>4, Zenon
<1>8. /\ SubSeq(raw, a + 1, b) \in Text
      /\ Len(SubSeq(raw, a + 1, b)) = b - a
      /\ \A j \in 1..(b - a) : SubSeq(raw, a + 1, b)[j] = raw[a + j]
  <2>1. b \in Int /\ b <= Len(raw)
    BY <1>3, <1>5
  <2> HIDE DEF raw
  <2> QED
    BY <1>5, <2>1, PieceIs
<1> HIDE DEF raw
<1> DEFINE c == pos - D + a
           d == pos - D + b
           u == SubSeq(raw, a + 1, b)
<1>9. c \in Nat /\ d \in c..Len(body) /\ d - c = b - a
  BY <1>3, <1>6
<1>10. u \in Text /\ Len(u) = d - c /\ \A j \in 1..(d - c) : u[j] = body[c + j]
  BY <1>7, <1>8, <1>9
<1>11. u = SubSeq(body, c + 1, d)
  <2> HIDE DEF c, d, u
  <2> QED
    BY <1>4, <1>9, <1>10, IsPiece
<1> QED
  BY <1>8, <1>9, <1>11 DEF raw

\* Delivering up to b in raw_buffer delivers the part up to pos - D + b.
DeliveredUpTo(b) ==
    /\ delivered' \in Seq(Text) /\ Len(delivered') = Len(delivered)
    /\ \A m \in 1..Len(delivered) : m < Len(delivered) => delivered'[m] = delivered[m]
    /\ delivered'[Len(delivered)] = SubSeq(body, starts[Len(delivered)] + 1, pos - D + b)
    /\ starts[Len(delivered)] + Len(delivered'[Len(delivered)]) = pos - D + b

LEMMA DeliverIs ==
    ASSUME Shape, Delivery, pc = "part", NEW e \in ReadEnds,
           NEW b \in Nat, buffer_to_process <= b + 1, b <= D + (e - pos),
           Deliver(SubSeq(carry \o Read(e), buffer_to_process, b))
    PROVE  DeliveredUpTo(b)
<1> DEFINE K == Len(starts)
           a == buffer_to_process - 1
           piece == SubSeq(carry \o Read(e), a + 1, b)
           s == starts[K]
           hi == pos - D + b
<1>1. /\ K = Len(delivered) /\ K \in Nat \ {0} /\ s \in Nat
      /\ delivered[K] \in Text /\ Len(delivered[K]) \in Nat
      /\ delivered[K] = SubSeq(body, s + 1, got) /\ got = s + Len(delivered[K])
      /\ D \in Nat \ {0} /\ got \in Nat /\ got = pos - D + buffer_to_process - 1
      /\ buffer_to_process \in {1, D + 1}
  BY ReadingPart DEF got
<1>2. /\ pos \in Nat /\ e \in Nat /\ pos < e /\ e <= Len(body) /\ Len(body) \in Nat
  BY ReadIs DEF Ended, ReadsUpTo
<1>3. /\ a \in Nat /\ a + 1 = buffer_to_process /\ a <= b /\ buffer_to_process <= a + 1
      /\ pos - D + a = got /\ got <= hi /\ hi \in Nat /\ hi <= Len(body)
  <2> DEFINE lo == buffer_to_process
  <2> HIDE DEF lo
  <2>1. /\ D \in Nat \ {0} /\ got \in Nat /\ pos \in Nat /\ e \in Nat
        /\ lo \in {1, D + 1} /\ lo <= b + 1 /\ got = pos - D + lo - 1
    BY <1>1, <1>2 DEF lo
  <2>2. lo \in Nat \ {0} /\ lo <= b + 1 /\ got = pos - D + lo - 1
    BY <2>1
  <2>3. /\ lo - 1 \in Nat /\ (lo - 1) + 1 = lo /\ lo - 1 <= b /\ lo <= (lo - 1) + 1
        /\ pos - D + (lo - 1) = got /\ got <= hi
    BY <2>2, <2>1
  <2>4. hi \in Nat /\ hi <= Len(body)
    BY <1>1, <1>2, <2>3
  <2> QED
    BY <2>3, <2>4 DEF lo
<1> HIDE DEF a
<1>4. piece \in Text /\ piece = SubSeq(body, got + 1, hi)
  BY <1>3, WindowOfBody
<1>5. delivered' = [delivered EXCEPT ![K] = @ \o piece]
  BY <1>1, <1>3 DEF Deliver
<1> HIDE DEF piece
<1>6. /\ delivered[K] \o piece \in Text
      /\ Len(delivered[K] \o piece) = hi - s
      /\ \A j \in 1..(hi - s) : (delivered[K] \o piece)[j] = body[s + j]
  <2> DEFINE u == delivered[K]
             w == u \o piece
  <2>1. Joined(u, piece, w)
    BY <1>1, <1>4, JoinIs
  <2>2. body \in Text
    BY BodyIsText
  <2>3. got \in Int /\ got <= Len(body) /\ hi \in Int /\ s <= got
    BY <1>1, <1>2, <1>3
  <2>4. Len(u) = got - s /\ \A j \in 1..(got - s) : u[j] = body[s + j]
    <3> HIDE DEF u, s
    <3>1. u = SubSeq(body, s + 1, got) /\ s \in Nat
      BY <1>1 DEF u, s
    <3> QED
      BY <2>2, <2>3, <3>1, PieceIs
  <2>5. /\ Len(piece) = hi - got
        /\ \A j \in 1..(hi - got) : piece[j] = body[got + j]
    <3> HIDE DEF hi
    <3> QED
      BY <1>1, <1>3, <1>4, <2>2, <2>3, PieceIs
  <2> HIDE DEF u, w, s, hi
  <2>6. /\ w \in Text /\ Len(w) = Len(u) + Len(piece)
        /\ \A j \in 1..Len(u) : w[j] = u[j]
        /\ \A j \in 1..Len(piece) : w[Len(u) + j] = piece[j]
    BY <2>1 DEF Joined
  <2>7. s \in Nat /\ got \in Nat /\ hi \in Nat /\ s <= got /\ got <= hi
    BY <1>1, <1>3, <2>3 DEF s, hi
  <2>8. Len(w) = hi - s
    BY <2>4, <2>5, <2>6, <2>7
  <2>9. ASSUME NEW j \in 1..(hi - s)  PROVE w[j] = body[s + j]
    <3>1. CASE j <= got - s
      <4>1. j \in 1..(got - s) /\ j \in 1..Len(u)
        BY <2>4, <2>7, <3>1
      <4> QED
        BY <2>4, <2>6, <4>1
    <3>2. CASE ~(j <= got - s)
      <4>1. /\ j - (got - s) \in 1..(hi - got) /\ j - (got - s) \in 1..Len(piece)
            /\ Len(u) + (j - (got - s)) = j /\ got + (j - (got - s)) = s + j
        BY <2>4, <2>5, <2>7, <3>2
      <4> QED
        BY <2>5, <2>6, <4>1
    <3> QED
      BY <3>1, <3>2
  <2> QED
    BY <2>6, <2>8, <2>9 DEF u, w, s, hi
<1>7. delivered[K] \o piece = SubSeq(body, s + 1, hi)
  <2> DEFINE w == delivered[K] \o piece
  <2>1. body \in Text /\ hi \in s..Len(body) /\ s \in Nat
    BY <1>1, <1>2, <1>3, BodyIsText
  <2>2. w \in Text /\ Len(w) = hi - s /\ \A j \in 1..(hi - s) : w[j] = body[s + j]
    BY <1>6
  <2> HIDE DEF w, s, hi
  <2>3. w = SubSeq(body, s + 1, hi)
    BY <2>1, <2>2, IsPiece
  <2> QED
    BY <2>3 DEF w
<1>8. /\ delivered' \in Seq(Text) /\ Len(delivered') = Len(delivered)
      /\ \A m \in 1..Len(delivered) :
            delivered'[m] = IF m = K THEN delivered[K] \o piece ELSE delivered[m]
  <2>1. delivered \in Seq(Text) /\ K \in 1..Len(delivered)
    BY <1>1 DEF Shape
  <2> DEFINE w == delivered[K] \o piece
  <2>2. delivered' = [delivered EXCEPT ![K] = w] /\ w \in Text
    BY <1>5, <1>6
  <2> HIDE DEF w
  <2>3. /\ delivered' \in Seq(Text) /\ Len(delivered') = Len(delivered)
        /\ \A m \in 1..Len(delivered) : delivered'[m] = IF m = K THEN w ELSE delivered[m]
    BY <2>1, <2>2, ExceptSeq
  <2> QED
    BY <2>3 DEF w
<1>9. s + (hi - s) = hi
  BY <1>1, <1>3
<1>10. K \in 1..Len(delivered) /\ \A m \in 1..Len(delivered) : m < Len(delivered) => m # K
  BY <1>1
<1> QED
  BY <1>1, <1>6, <1>7, <1>8, <1>9, <1>10 DEF DeliveredUpTo

\* What the parts of the invariant say of parts, when one has been delivered.
LEMMA DeliveredStays ==
    ASSUME Shape, Delivery, pc = "part", UNCHANGED <<body, starts>>,
           NEW b \in Nat, DeliveredUpTo(b), pos - D + b <= Len(body)
    PROVE  \A m \in 1..Len(delivered') :
             /\ starts'[m] + Len(delivered'[m]) <= Len(body')
             /\ delivered'[m]
                  = SubSeq(body', starts'[m] + 1, starts'[m] + Len(delivered'[m]))
<1> TAKE m \in 1..Len(delivered')
<1>1. m \in 1..Len(delivered) /\ Len(delivered) \in Nat
  BY ReadingPart DEF DeliveredUpTo
<1>2. CASE m < Len(delivered)
  <2>1. delivered'[m] = delivered[m]
    BY <1>1, <1>2 DEF DeliveredUpTo
  <2> QED
    BY <1>1, <2>1 DEF Delivery
<1>3. CASE m = Len(delivered)
  BY <1>3 DEF DeliveredUpTo
<1>4. m < Len(delivered) \/ m = Len(delivered)
  BY <1>1
<1> QED
  BY <1>2, <1>3, <1>4

LEMMA ProcessPartKeeps ==
    ASSUME Shape, Delivery, ProcessPart
    PROVE  Shape' /\ Delivery'
<1> DEFINE Found(e) == Places(Delimiter, Read(e))
           Raw(e) == carry \o Read(e)
           size(e) == Len(Read(e))
<1>1. /\ pc = "part"
      /\ UNCHANGED <<message, line, ends_with_CR, starts, garbled>>
  BY DEF ProcessPart
<1>2. PICK e \in ReadEnds :
         /\ Refilled(e)
         /\ \/ /\ Found(e) = {}
               /\ first /\ size(e) < D
               /\ pc' = "negative length"
               /\ pos' = e
               /\ clean' = FALSE
               /\ UNCHANGED <<delivered, carry, first>>
            \/ /\ Found(e) = {}
               /\ ~first \/ size(e) >= D
               /\ Deliver(SubSeq(Raw(e), buffer_to_process, size(e)))
               /\ carry' = last_buffer_bytes(Raw(e), size(e))
               /\ first' = FALSE
               /\ pos' = e
               /\ clean' \in BOOLEAN
               /\ UNCHANGED pc
            \/ /\ Found(e) # {}
               /\ Deliver(SubSeq(Raw(e), buffer_to_process, D + FirstOf(Found(e)) - 1))
               /\ pos' = pos + BehindDelimiter(FirstOf(Found(e)))
               /\ pc' = "after delimiter"
               /\ UNCHANGED <<carry, first, clean>>
  BY DEF ProcessPart, Read, Shape
<1>3. /\ ReadsUpTo(e)
      /\ end' = e /\ base' \in Nat /\ base' <= pos
  BY <1>1, <1>2, ReadIs DEF Ended
<1>4. /\ pos \in Nat /\ e \in Nat /\ pos < e /\ e <= Len(body) /\ Len(body) \in Nat
      /\ Read(e) \in Text /\ size(e) = e - pos
  BY <1>3 DEF ReadsUpTo
<1>5. /\ D \in Nat \ {0} /\ Len(starts) = Len(delivered) /\ Len(starts) \in Nat \ {0}
      /\ buffer_to_process \in {1, D + 1} /\ got \in Nat
      /\ got = pos - D + buffer_to_process - 1
      /\ ~first <=> buffer_to_process = 1
  BY <1>1, ReadingPart
<1>6. UNCHANGED <<body, starts, form, line, ends_with_CR, garbled>>
  BY <1>1 DEF message
<1>7. end' \in 0..Len(body)
  BY <1>3, <1>4
\* Nothing is found, and it is the first read and a short one.
<1>8. CASE /\ pc' = "negative length" /\ pos' = e /\ clean' = FALSE
           /\ UNCHANGED <<delivered, carry, first>>
  <2>1. Delivery'
    BY <1>6, <1>8, DeliveryStays
  <2>2. pos' \in Int /\ pos' <= end' /\ base' <= pos'
    <3>1. /\ pos' = e /\ end' = e /\ base' \in Nat /\ base' <= pos
          /\ pos \in Nat /\ e \in Nat /\ pos < e
      BY <1>3, <1>4, <1>8
    <3> QED
      BY <3>1
  <2>3. Shape'
    BY <1>3, <1>6, <1>7, <1>8, <2>2 DEF Shape, Ended
  <2> QED
    BY <2>1, <2>3
\* Nothing is found.
<1>9. CASE /\ ~first \/ size(e) >= D
           /\ Deliver(SubSeq(Raw(e), buffer_to_process, size(e)))
           /\ carry' = last_buffer_bytes(Raw(e), size(e))
           /\ first' = FALSE
           /\ pos' = e
           /\ clean' \in BOOLEAN
           /\ UNCHANGED pc
  <2> DEFINE b == e - pos
  <2>1. /\ b \in Nat /\ b <= D + (e - pos) /\ pos - D + b = e - D /\ e - D <= Len(body)
        /\ b <= b + D /\ b + D \in Nat /\ b + D <= D + (e - pos)
        /\ pos - D + (b + D) = e
    BY <1>4, <1>5
  <2>2. buffer_to_process <= b + 1
    <3>1. CASE ~first
      BY <1>4, <1>5, <3>1
    <3>2. CASE first
      <4>1. buffer_to_process = D + 1 /\ b >= D
        BY <1>4, <1>5, <1>9, <3>2
      <4> QED
        BY <1>5, <2>1, <4>1
    <3> QED
      BY <3>1, <3>2
  <2>3. Deliver(SubSeq(carry \o Read(e), buffer_to_process, b))
    BY <1>4, <1>9
  <2>4. carry' = SubSeq(carry \o Read(e), b + 1, b + D)
    BY <1>4, <1>9 DEF last_buffer_bytes
  <2> HIDE DEF b
  <2>5. DeliveredUpTo(b)
    BY <1>1, <1>2, <2>1, <2>2, <2>3, DeliverIs
  <2>6. /\ carry' \in Text /\ carry' = SubSeq(body, (e - D) + 1, e) /\ e - D \in Nat
    <3>1. /\ pos - D + b \in Nat
          /\ SubSeq(carry \o Read(e), b + 1, b + D) \in Text
          /\ SubSeq(carry \o Read(e), b + 1, b + D)
               = SubSeq(body, (pos - D + b) + 1, pos - D + (b + D))
      BY <1>1, <1>2, <2>1, <2>2, WindowOfBody
    <3> QED
      BY <2>1, <2>4, <3>1
  <2>7. Len(carry') = D
    <3>1. body \in Text /\ e \in Int /\ e <= Len(body)
      BY <1>4, BodyIsText
    <3>2. Len(carry') = IF e - D <= e THEN e - (e - D) ELSE 0
      BY <2>6, <3>1, PieceIs
    <3> QED
      BY <1>4, <1>5, <3>2
  <2>8. \A m \in 1..Len(delivered') :
           /\ starts'[m] + Len(delivered'[m]) <= Len(body')
           /\ delivered'[m]
                = SubSeq(body', starts'[m] + 1, starts'[m] + Len(delivered'[m]))
    BY <1>1, <1>6, <2>1, <2>5, DeliveredStays
  <2>9. /\ starts'[Len(starts')] + Len(delivered'[Len(starts')]) = pos' - D
        /\ Len(starts') > 0 /\ first' = FALSE /\ pos' = e
    <3> DEFINE K == Len(delivered)
    <3>1. starts[K] + Len(delivered'[K]) = e - D
      BY <2>1, <2>5 DEF DeliveredUpTo
    <3>2. starts' = starts /\ Len(starts) = K /\ K > 0 /\ pos' = e /\ first' = FALSE
      BY <1>5, <1>6, <1>9
    <3> QED
      BY <3>1, <3>2
  <2>10. Delivery'
    BY <1>6, <2>6, <2>7, <2>8, <2>9 DEF Delivery
  <2>11. pos' \in Int /\ pos' <= end' /\ base' <= pos'
    BY <1>3, <1>4, <1>9
  <2>12. Len(delivered') = Len(starts') /\ delivered' \in Seq(Text) /\ pc' = "part"
    BY <1>1, <1>5, <1>6, <1>9, <2>5 DEF DeliveredUpTo
  <2>13. Shape'
    BY <1>3, <1>6, <1>7, <1>9, <2>6, <2>9, <2>11, <2>12 DEF Shape
  <2> QED
    BY <2>10, <2>13
\* The delimiter is found.
<1>10. CASE /\ Found(e) # {}
            /\ Deliver(SubSeq(Raw(e), buffer_to_process, D + FirstOf(Found(e)) - 1))
            /\ pos' = pos + BehindDelimiter(FirstOf(Found(e)))
            /\ pc' = "after delimiter"
            /\ UNCHANGED <<carry, first, clean>>
  <2> DEFINE p == FirstOf(Found(e))
             b == D + p - 1
  <2>1. p \in 1..(e - pos - D + 1)
    <3>1. \A q \in Found(e) : q \in 1..(e - pos - D + 1)
      <4> TAKE q \in Found(e)
      <4>1. q \in 1..(size(e) - Len(Delimiter) + 1)
        BY <1>4, DelimiterIs, PlacesAre
      <4> QED
        BY <1>4, <4>1, DelimiterIs
    <3>2. Found(e) \in SUBSET Nat
      BY <3>1
    <3> QED
      BY <1>10, <3>1, <3>2, FirstOfPlaces
  <2>2. pos' = pos + (p - 1 + D)
    BY <1>10 DEF BehindDelimiter
  <2>3. Deliver(SubSeq(carry \o Read(e), buffer_to_process, b))
    BY <1>10
  <2> HIDE DEF p
  <2>4. /\ b \in Nat /\ b <= D + (e - pos) /\ pos - D + b <= Len(body)
        /\ pos' \in Int /\ pos' <= e /\ pos <= pos'
    BY <1>4, <1>5, <2>1, <2>2
  <2>5. buffer_to_process <= b + 1
    <3>1. 1 <= b + 1 /\ D + 1 <= b + 1
      BY <1>5, <2>1
    <3> QED
      BY <1>5, <3>1
  <2> HIDE DEF b
  <2>6. DeliveredUpTo(b)
    BY <1>1, <1>2, <2>3, <2>4, <2>5, DeliverIs
  <2>7. \A m \in 1..Len(delivered') :
           /\ starts'[m] + Len(delivered'[m]) <= Len(body')
           /\ delivered'[m]
                = SubSeq(body', starts'[m] + 1, starts'[m] + Len(delivered'[m]))
    BY <1>1, <1>6, <2>4, <2>6, DeliveredStays
  <2>8. Delivery'
    BY <1>10, <2>7 DEF Delivery
  <2>9. Len(delivered') = Len(starts') /\ delivered' \in Seq(Text)
    BY <1>5, <1>6, <2>6 DEF DeliveredUpTo
  <2>10. pos' <= end' /\ base' <= pos'
    BY <1>3, <1>4, <2>4
  <2>11. Shape'
    BY <1>3, <1>6, <1>7, <1>10, <2>4, <2>9, <2>10 DEF Shape, Lines
  <2> QED
    BY <2>8, <2>11
<1> QED
  BY <1>2, <1>8, <1>9, <1>10

LEMMA InitShape ==
    ASSUME Init
    PROVE  Shape /\ Delivery
<1>1. /\ form \in Forms /\ body \in Bodies(form)
      /\ pos = 0 /\ base = 0 /\ end = 0 /\ pc = "preamble"
      /\ line = <<>> /\ ends_with_CR = FALSE /\ carry = <<>> /\ first = TRUE
      /\ delivered = <<>> /\ starts = <<>> /\ garbled = FALSE /\ clean = TRUE
  BY DEF Init
<1>2. Len(body) \in Nat
  BY <1>1, BodyIsLaidOut DEF LaidOut, Text
<1>3. /\ delivered \in Seq(Text) /\ starts \in Seq(0..Len(body))
      /\ Len(delivered) = 0 /\ Len(starts) = 0
  BY <1>1
<1>4. line \in Text /\ carry \in Text
  BY <1>1, Separators
<1>5. /\ base \in Nat /\ end \in 0..Len(body) /\ pos \in Int /\ pos <= end /\ base <= pos
  BY <1>1, <1>2
<1>6. Shape
  BY <1>1, <1>3, <1>4, <1>5 DEF Shape, Lines
<1>7. Delivery
  BY <1>1, <1>3 DEF Delivery
<1> QED
  BY <1>6, <1>7

LEMMA StutterKeepsShape ==
    ASSUME Shape, Delivery, UNCHANGED vars
    PROVE  Shape' /\ Delivery'
<1>1. /\ UNCHANGED <<form, body, pos, base, end, pc, line, ends_with_CR>>
      /\ UNCHANGED <<carry, first, delivered, starts, garbled, clean>>
  BY DEF vars, message, reader, part
<1>2. Shape'
  BY <1>1 DEF Shape
<1>3. Delivery'
  BY <1>1 DEF Delivery
<1> QED
  BY <1>2, <1>3

LEMMA ShapeAndDelivery == Spec => [](Shape /\ Delivery)
<1>1. Init => Shape /\ Delivery
  BY InitShape
<1>2. Shape /\ Delivery /\ [Next]_vars => Shape' /\ Delivery'
  BY ReadLineKeeps, ReadLineFailsKeeps, ProcessPartKeeps, ProcessPartFailsKeeps,
     StutterKeepsShape DEF Next
<1> QED
  BY <1>1, <1>2, PTL DEF Spec

\* The variables keep their types: no read takes the parser beyond the body, and
\* what is kept back in raw_buffer is always a delimiter long (MultipartParser.cpp:
\* 196-262, 405-500).
THEOREM TypeCorrect == Spec => []TypeOK
<1>1. Shape /\ Delivery => TypeOK
  <2> SUFFICES ASSUME Shape, Delivery  PROVE TypeOK
    OBVIOUS
  <2>1. 0 <= base /\ pos <= end /\ end <= Len(body)
    <3>1. base \in Nat /\ pos <= end /\ end \in 0..Len(body) /\ Len(body) \in Nat
      BY BodyIsText DEF Shape
    <3> QED
      BY <3>1
  <2>2. pc = "part" => Len(carry) = D
    BY DEF Delivery
  <2> QED
    BY <2>1, <2>2 DEF TypeOK, Shape
<1> QED
  BY <1>1, ShapeAndDelivery, PTL

\* However the reads divide the body, what the callback gets of a part is one piece
\* of the body from where the part began (MultipartParser.cpp:223-236).
THEOREM PiecesInOrder == Spec => []DeliveredInOrder
<1>1. Delivery => DeliveredInOrder
  BY DEF Delivery, DeliveredInOrder
<1> QED
  BY <1>1, ShapeAndDelivery, PTL

-----------------------------------------------------------------------------
(* The parser on its course: reads of a line that end in no CR.            *)

\* From a to b lies a line: it has no CR in it, and is followed by a line break or
\* by nothing.
LineLies(a, b) ==
    /\ a \in Nat /\ b \in Nat /\ a <= b /\ b <= Len(body)
    /\ \A j \in (a + 1)..b : body[j] # "CR"
    /\ \/ b = Len(body)
       \/ b + 2 <= Len(body) /\ body[b + 1] = "CR" /\ body[b + 2] = "LF"

\* What a read of it does: the line goes on, or it was read.
LineGoesOn(a, b) ==
    /\ pos' \in Nat /\ pos < pos' /\ pos' <= b
    /\ line' = SubSeq(body, a + 1, pos') /\ ~ends_with_CR'
    /\ UNCHANGED <<pc, part, garbled>>
LineIsThere(a, b) ==
    /\ b + 2 <= Len(body) /\ pos' = b + 2
    /\ LineRead(SubSeq(body, a + 1, b))

\* A piece and the one behind it.
LEMMA PiecesJoin ==
    ASSUME NEW s \in Text, NEW a \in Nat, NEW b \in Nat, NEW c \in Nat,
           a <= b, b <= c, c <= Len(s)
    PROVE  SubSeq(s, a + 1, b) \o SubSeq(s, b + 1, c) = SubSeq(s, a + 1, c)
<1>1. Len(s) \in Nat /\ s \in Seq(Bytes)
  BY DEF Text
<1> DEFINE m == a + 1
<1>2. m \in 1..(Len(s) + 1) /\ b \in (m - 1)..Len(s) /\ c \in b..Len(s)
  BY <1>1
<1> HIDE DEF m
<1>3. SubSeq(s, m, b) \o SubSeq(s, b + 1, c) = SubSeq(s, m, c)
  BY <1>1, <1>2, ConcatAdjacentSubSeq
<1> QED
  BY <1>3 DEF m

LEMMA CleanRead ==
    ASSUME Shape, ReadLine, ~ends_with_CR, clean',
           NEW a, NEW b, LineLies(a, b), a <= pos, pos <= b,
           line = SubSeq(body, a + 1, pos)
    PROVE  LineGoesOn(a, b) \/ LineIsThere(a, b)
<1> DEFINE Crlfs(data) == Places(CRLF, data)
           Appended(data) == line \o (IF ends_with_CR /\ data[1] # "LF" THEN <<"CR">>
                                      ELSE <<>>)
                              \o (IF Last(data) = "CR" THEN Front(data) ELSE <<>>)
           LineOf(data) == Appended(data)
                              \o (IF Crlfs(data) = {} THEN data
                                  ELSE SubSeq(data, 1, FirstOf(Crlfs(data)) - 1))
           Rewound(data) == (IF ends_with_CR /\ data[1] = "LF" THEN Len(data) - 1 ELSE 0)
                        + (IF Crlfs(data) = {} THEN 0
                           ELSE Len(data) - FirstOf(Crlfs(data)) - 1)
           GoesOn(data) ==
               /\ line' = LineOf(data)
               /\ ends_with_CR' = (Last(data) = "CR" \/
                                     (ends_with_CR /\ ~(ends_with_CR /\ data[1] # "LF")))
               /\ UNCHANGED <<pc, part, garbled>>
<1>1. PICK e \in ReadEnds :
         /\ Refilled(e)
         /\ pos' = e - Rewound(Read(e))
         /\ clean' = (clean /\ Last(Read(e)) # "CR")
         /\ IF pos' < base' THEN Aborts("assert rewind")
            ELSE IF (ends_with_CR /\ Read(e)[1] = "LF") \/ Crlfs(Read(e)) # {}
                 THEN LineRead(LineOf(Read(e)))
            ELSE GoesOn(Read(e))
  BY Zenon DEF ReadLine, Read
<1> DEFINE data == Read(e)
<1>2. /\ ReadsUpTo(e) /\ base' \in Nat /\ base' <= pos
  BY <1>1, ReadIs DEF ReadLine, Lines, Ended
<1>3. /\ pos \in Nat /\ e \in Nat /\ pos < e /\ e <= Len(body) /\ Len(body) \in Nat
      /\ data \in Text /\ Len(data) = e - pos
      /\ \A j \in 1..(e - pos) : data[j] = body[pos + j]
  BY <1>2 DEF ReadsUpTo
<1>4. body \in Text /\ line \in Text
  BY BodyIsText DEF Shape
<1>5. /\ a \in Nat /\ b \in Nat /\ a <= b /\ b <= Len(body)
      /\ \A j \in (a + 1)..b : body[j] # "CR"
      /\ \/ b = Len(body)
         \/ b + 2 <= Len(body) /\ body[b + 1] = "CR" /\ body[b + 2] = "LF"
  BY DEF LineLies
<1>6. Last(data) # "CR" /\ body[e] # "CR"
  <2>1. Last(data) # "CR"
    BY <1>1
  <2>2. Last(data) = data[e - pos]
    BY <1>3 DEF Last
  <2>3. e - pos \in 1..(e - pos) /\ pos + (e - pos) = e
    BY <1>3
  <2> QED
    BY <1>3, <2>1, <2>2, <2>3
<1>7. Appended(data) = line
  <2>1. Appended(data) = (line \o <<>>) \o <<>>
    BY <1>6
  <2>2. line \o <<>> = line
    BY <1>4, ConcatEmptySeq DEF Text
  <2> QED
    BY <2>1, <2>2
<1> HIDE DEF Appended
<1>8. \A p : p \in Crlfs(data) <=>
         p \in 1..(e - pos - 1) /\ body[pos + p] = "CR" /\ body[pos + p + 1] = "LF"
  <2> TAKE p
  <2> HIDE DEF data
  <2>1. p \in Crlfs(data) <=>
          /\ p \in 1..(Len(data) - 2 + 1)
          /\ \A j \in 1..2 : data[p + j - 1] = CRLF[j]
    <3>1. p \in Crlfs(data) <=>
            /\ p \in 1..(Len(data) - Len(CRLF) + 1)
            /\ \A j \in 1..Len(CRLF) : data[p + j - 1] = CRLF[j]
      <4>1. CRLF \in Text /\ data \in Text
        BY <1>3, Separators
      <4> QED
        BY <4>1, PlacesAre
    <3> HIDE DEF Crlfs
    <3> QED
      BY <3>1, Separators
  <2>2. Len(data) - 2 + 1 = e - pos - 1
    BY <1>3
  <2>3. ASSUME p \in 1..(e - pos - 1)
        PROVE  /\ p + 1 - 1 = p /\ p + 2 - 1 = p + 1
               /\ data[p] = body[pos + p] /\ data[p + 1] = body[pos + p + 1]
    <3>1. /\ p \in 1..(e - pos) /\ p + 1 \in 1..(e - pos) /\ pos + (p + 1) = pos + p + 1
          /\ p + 1 - 1 = p /\ p + 2 - 1 = p + 1
      BY <1>3, <2>3
    <3> QED
      BY <1>3, <3>1
  <2>4. (\A j \in 1..2 : data[p + j - 1] = CRLF[j]) <=>
          data[p + 1 - 1] = CRLF[1] /\ data[p + 2 - 1] = CRLF[2]
    <3>1. \A j : j \in 1..2 <=> j = 1 \/ j = 2
      OBVIOUS
    <3> QED
      BY <3>1
  <2> QED
    BY <2>1, <2>2, <2>3, <2>4, Separators
<1>9. CASE e <= b
  <2>1. Crlfs(data) = {}
    <3>1. \A p \in 1..(e - pos - 1) : body[pos + p] # "CR"
      <4> TAKE p \in 1..(e - pos - 1)
      <4>1. pos + p \in (a + 1)..b
        BY <1>3, <1>5, <1>9
      <4> QED
        BY <1>5, <4>1
    <3> HIDE DEF Crlfs
    <3> QED
      BY <1>8, <3>1
  <2>2. pos' = e
    <3>1. Rewound(data) = 0
      BY <2>1
    <3>2. pos' = e - Rewound(data)
      BY <1>1
    <3> HIDE DEF Rewound
    <3> QED
      BY <1>3, <3>1, <3>2
  <2>3. GoesOn(data)
    <3>1. ~(pos' < base')
      BY <1>2, <1>3, <2>2
    <3> HIDE DEF LineOf
    <3> QED
      BY <1>1, <2>1, <3>1
  <2>4. line' = SubSeq(body, a + 1, e)
    <3>1. line' = line \o data
      BY <1>7, <2>1, <2>3
    <3> QED
      BY <1>3, <1>4, <1>5, <3>1, PiecesJoin DEF Read
  <2> QED
    BY <1>3, <1>6, <1>9, <2>2, <2>3, <2>4 DEF LineGoesOn
<1>10. CASE ~(e <= b)
  <2>1. b + 2 <= e /\ b + 2 <= Len(body) /\ body[b + 1] = "CR" /\ body[b + 2] = "LF"
    <3>1. e # b + 1
      BY <1>3, <1>5, <1>6, <1>10
    <3> QED
      BY <1>3, <1>5, <1>10, <3>1
  <2> DEFINE p == b + 1 - pos
  <2>2. /\ p \in 1..(e - pos - 1) /\ pos + p = b + 1 /\ pos + p + 1 = b + 2
        /\ p - 1 = b - pos /\ p \in Nat
    BY <1>3, <1>5, <2>1
  <2>3. p \in Crlfs(data)
    <3> HIDE DEF p, Crlfs
    <3> QED
      BY <1>8, <2>1, <2>2
  <2>4. \A q \in Crlfs(data) : q \in Nat /\ p <= q
    <3> TAKE q \in Crlfs(data)
    <3> HIDE DEF Crlfs
    <3>1. q \in 1..(e - pos - 1) /\ body[pos + q] = "CR"
      BY <1>8
    <3>2. ~(pos + q \in (a + 1)..b)
      BY <1>5, <3>1
    <3> QED
      BY <1>3, <1>5, <3>1, <3>2
  <2>5. FirstOf(Crlfs(data)) = p
    <3> HIDE DEF p, Crlfs
    <3>1. Crlfs(data) \in SUBSET Nat
      BY <2>4
    <3> QED
      BY <2>3, <2>4, <3>1, FirstIs
  <2>6. pos' = b + 2
    <3>1. Rewound(data) = 0 + (Len(data) - p - 1)
      BY <2>3, <2>5
    <3> HIDE DEF Rewound
    <3>2. Rewound(data) = (e - pos) - (b + 1 - pos) - 1
      BY <1>3, <1>5, <3>1
    <3>3. pos' = e - Rewound(data)
      BY <1>1
    <3> QED
      BY <1>3, <1>5, <3>2, <3>3
  <2>7. LineRead(LineOf(data))
    <3>1. ~(pos' < base')
      BY <1>2, <1>3, <1>5, <2>6
    <3> HIDE DEF LineOf
    <3> QED
      BY <1>1, <2>3, <3>1
  <2>8. LineOf(data) = SubSeq(body, a + 1, b)
    <3>1. LineOf(data) = line \o SubSeq(data, 1, p - 1)
      BY <1>7, <2>3, <2>5
    <3>2. SubSeq(data, 1, p - 1) = SubSeq(body, pos + 1, b)
      <4> HIDE DEF data
      <4> DEFINE q == b - pos
                 u == SubSeq(data, 0 + 1, q)
      <4>1. q \in Nat /\ q <= Len(data) /\ 0 \in Nat /\ 0 <= q /\ q - 0 = q /\ 0 + 1 = 1
        BY <1>3, <1>5, <2>1
      <4>2. q \in Int
        BY <4>1
      <4> HIDE DEF q
      <4>3. u \in Text /\ Len(u) = q /\ \A j \in 1..q : u[j] = data[0 + j]
        BY <1>3, <4>1, <4>2, PieceIs
      <4>4. \A j \in 1..q : 0 + j = j /\ j \in 1..(e - pos)
        BY <1>3, <4>1
      <4>5. \A j \in 1..(b - pos) : u[j] = body[pos + j]
        BY <1>3, <4>3, <4>4 DEF q
      <4>6. b \in pos..Len(body) /\ Len(u) = b - pos
        BY <1>3, <1>5, <4>3 DEF q
      <4> HIDE DEF u
      <4>7. u = SubSeq(body, pos + 1, b)
        BY <1>3, <1>4, <4>3, <4>5, <4>6, IsPiece
      <4>8. p - 1 = q
        BY <2>2 DEF q
      <4> QED
        BY <4>1, <4>7, <4>8 DEF u
    <3>3. SubSeq(body, a + 1, pos) \o SubSeq(body, pos + 1, b) = SubSeq(body, a + 1, b)
      BY <1>3, <1>4, <1>5, PiecesJoin
    <3> QED
      BY <3>1, <3>2, <3>3, Zenon
  <2> QED
    BY <2>1, <2>6, <2>7, <2>8 DEF LineIsThere
<1> QED
  BY <1>9, <1>10

\* The bytes of the part behind the n-th delimiter, one by one.
LEMMA PartLies ==
    ASSUME LaidOut, NEW n \in 0..(Len(form) - 1)
    PROVE  /\ Sent(n) \in Nat /\ Sent(n + 1) \in Nat /\ n + 1 \in 1..Len(form)
           /\ body[Sent(n) + 1] = "CR" /\ body[Sent(n) + 2] = "LF"
           /\ body[Sent(n) + 3] = "h"
           /\ body[Sent(n) + 4] = "CR" /\ body[Sent(n) + 5] = "LF"
           /\ body[Sent(n) + 6] = "CR" /\ body[Sent(n) + 7] = "LF"
           /\ form[n + 1] \in Text /\ Len(form[n + 1]) \in Nat /\ D \in Nat
           /\ Sent(n + 1) = Sent(n) + 7 + Len(form[n + 1]) + D
           /\ Sent(n + 1) + 2 <= Len(body)
<1>1. /\ Len(form) \in Nat
      /\ \A m \in 0..Len(form) : Sent(m) \in Nat /\ Sent(m) + 2 <= Len(body)
      /\ \A m \in 1..Len(form) : form[m] \in Text
  BY DEF LaidOut
<1>2. n \in 0..Len(form) /\ n + 1 \in 0..Len(form) /\ n + 1 \in 1..Len(form)
  BY <1>1
<1>3. /\ body[Sent(n) + 1] = "CR" /\ body[Sent(n) + 2] = "LF"
      /\ body[Sent(n) + 3] = "h"
      /\ body[Sent(n) + 4] = "CR" /\ body[Sent(n) + 5] = "LF"
      /\ body[Sent(n) + 6] = "CR" /\ body[Sent(n) + 7] = "LF"
      /\ Sent(n + 1) = Sent(n) + 7 + Len(form[n + 1]) + D
  BY Zenon DEF LaidOut
<1>4. form[n + 1] \in Text
  BY <1>1, <1>2
<1>5. Len(form[n + 1]) \in Nat
  BY <1>4 DEF Text
<1> QED
  BY <1>1, <1>2, <1>3, <1>4, <1>5, DelimiterIs, Zenon

\* The preamble is the boundary, with a line break behind it.
LEMMA PreambleLies ==
    ASSUME LaidOut
    PROVE  /\ LineLies(0, Len(Boundary))
           /\ SubSeq(body, 1, Len(Boundary)) = Boundary
           /\ Sent(0) = Len(Boundary) /\ Len(Boundary) + 2 < Len(body)
<1>1. /\ body \in Text /\ Len(form) \in Nat \ {0}
      /\ Sent(0) = Len(Boundary)
      /\ \A j \in 1..Len(Boundary) : body[j] = Boundary[j]
  BY DEF LaidOut
<1>2. Boundary \in Text /\ Len(Boundary) \in Nat
  BY Separators
<1>3. 0 \in 0..(Len(form) - 1)
  BY <1>1
<1>4. /\ body[Sent(0) + 1] = "CR" /\ body[Sent(0) + 2] = "LF"
      /\ Sent(0 + 1) = Sent(0) + 7 + Len(form[0 + 1]) + D
      /\ Len(form[0 + 1]) \in Nat /\ D \in Nat
      /\ Sent(0 + 1) + 2 <= Len(body)
  BY <1>3, PartLies
<1>5. Len(body) \in Nat
  BY <1>1 DEF Text
<1>6. Len(Boundary) + 2 < Len(body)
  BY <1>1, <1>2, <1>4, <1>5
<1>7. \A j \in (0 + 1)..Len(Boundary) : body[j] # "CR"
  BY <1>1, FormAssumption
<1>8. LineLies(0, Len(Boundary))
  BY <1>1, <1>2, <1>4, <1>5, <1>6, <1>7 DEF LineLies
<1>9. SubSeq(body, 0 + 1, Len(Boundary)) = Boundary
  <2>1. /\ 0 \in Nat /\ Len(Boundary) \in 0..Len(body) /\ Len(Boundary) = Len(Boundary) - 0
        /\ \A j \in 1..(Len(Boundary) - 0) : Boundary[j] = body[0 + j]
    BY <1>1, <1>2, <1>5, <1>6
  <2> DEFINE b == Len(Boundary)
  <2> HIDE DEF b
  <2>2. /\ 0 \in Nat /\ b \in 0..Len(body) /\ Len(Boundary) = b - 0
        /\ \A j \in 1..(b - 0) : Boundary[j] = body[0 + j]
    BY <2>1 DEF b
  <2>3. Boundary = SubSeq(body, 0 + 1, b)
    BY <1>1, <1>2, <2>2, IsPiece
  <2> QED
    BY <2>3 DEF b
<1> QED
  BY <1>1, <1>6, <1>8, <1>9

\* The lines of a part's head, and the empty lines behind a delimiter.
LEMMA HeadLies ==
    ASSUME LaidOut, NEW n \in 0..(Len(form) - 1)
    PROVE  /\ LineLies(Sent(n), Sent(n))
           /\ LineLies(Sent(n) + 2, Sent(n) + 3)
           /\ LineLies(Sent(n) + 5, Sent(n) + 5)
           /\ SubSeq(body, (Sent(n) + 2) + 1, Sent(n) + 3) = <<"h">>
<1> DEFINE s == Sent(n)
           len == Len(body)
<1>1. /\ s \in Nat
      /\ body[s + 1] = "CR" /\ body[s + 2] = "LF" /\ body[s + 3] = "h"
      /\ body[s + 4] = "CR" /\ body[s + 5] = "LF"
      /\ body[s + 6] = "CR" /\ body[s + 7] = "LF"
      /\ Len(form[n + 1]) \in Nat /\ D \in Nat
      /\ Sent(n + 1) = s + 7 + Len(form[n + 1]) + D
      /\ Sent(n + 1) + 2 <= len
  BY PartLies
<1>2. body \in Text /\ len \in Nat
  BY DEF LaidOut, Text
<1>3. s + 7 <= len
  BY <1>1, <1>2
<1> HIDE DEF s, len
<1>4. LineLies(s, s)
  <2>1. s + 2 <= len /\ s <= len /\ \A j \in (s + 1)..s : FALSE
    BY <1>1, <1>2, <1>3
  <2> QED
    BY <1>1, <2>1 DEF LineLies, len
<1>5. LineLies(s + 2, s + 3)
  <2>1. /\ s + 2 \in Nat /\ s + 3 \in Nat /\ s + 2 <= s + 3 /\ s + 3 <= len
        /\ (s + 3) + 2 <= len /\ (s + 3) + 1 = s + 4 /\ (s + 3) + 2 = s + 5
        /\ \A j \in ((s + 2) + 1)..(s + 3) : j = s + 3
    BY <1>1, <1>2, <1>3
  <2>2. "h" # "CR"
    OBVIOUS
  <2>3. \A j \in ((s + 2) + 1)..(s + 3) : body[j] # "CR"
    BY <1>1, <2>1, <2>2
  <2>4. body[(s + 3) + 1] = "CR" /\ body[(s + 3) + 2] = "LF"
    BY <1>1, <2>1
  <2> QED
    BY <2>1, <2>3, <2>4 DEF LineLies, len
<1>6. LineLies(s + 5, s + 5)
  <2>1. /\ s + 5 \in Nat /\ (s + 5) + 2 <= len /\ s + 5 <= len /\ s + 5 <= s + 5
        /\ (s + 5) + 1 = s + 6 /\ (s + 5) + 2 = s + 7
        /\ \A j \in ((s + 5) + 1)..(s + 5) : FALSE
    BY <1>1, <1>2, <1>3
  <2>2. body[(s + 5) + 1] = "CR" /\ body[(s + 5) + 2] = "LF"
    BY <1>1, <2>1
  <2> QED
    BY <2>1, <2>2 DEF LineLies, len
<1>7. SubSeq(body, (s + 2) + 1, s + 3) = <<"h">>
  <2> DEFINE a == s + 2
             b == s + 3
  <2>1. a \in Nat /\ b \in a..len /\ b - a = 1 /\ a + 1 = s + 3
    BY <1>1, <1>2, <1>3
  <2>2. \A j \in 1..(b - a) : <<"h">>[j] = body[a + j]
    <3>1. \A j \in 1..(b - a) : j = 1
      BY <2>1
    <3> QED
      BY <1>1, <2>1, <3>1, Separators
  <2> HIDE DEF a, b
  <2>3. b \in a..Len(body) /\ Len(<<"h">>) = b - a /\ <<"h">> \in Text
    BY <2>1, Separators DEF len
  <2>4. <<"h">> = SubSeq(body, a + 1, b)
    BY <1>2, <2>1, <2>2, <2>3, IsPiece
  <2> QED
    BY <2>4 DEF a, b
<1> QED
  BY <1>4, <1>5, <1>6, <1>7 DEF s

\* What is behind the last delimiter.
LEMMA TailLies ==
    ASSUME LaidOut
    PROVE  /\ LineLies(Sent(Len(form)), Sent(Len(form)) + 2)
           /\ SubSeq(body, Sent(Len(form)) + 1, Sent(Len(form)) + 2) = Dashes
           /\ Len(form) \in Nat \ {0} /\ Sent(Len(form)) \in Nat
           /\ Len(body) \in {Sent(Len(form)) + 2, Sent(Len(form)) + 4}
<1> DEFINE s == Sent(Len(form))
           len == Len(body)
<1>1. Len(form) \in Nat \ {0}
  BY DEF LaidOut
<1>2. /\ s \in Nat /\ body \in Text
      /\ body[s + 1] = "-" /\ body[s + 2] = "-"
      /\ \/ len = s + 2
         \/ len = s + 4 /\ body[s + 3] = "CR" /\ body[s + 4] = "LF"
  <2>1. Len(form) \in 0..Len(form)
    BY <1>1
  <2> QED
    BY <2>1 DEF LaidOut
<1> HIDE DEF s, len
<1>3. LineLies(s, s + 2)
  <2>1. /\ s + 2 \in Nat /\ s <= s + 2 /\ s + 2 <= len
        /\ \A j \in (s + 1)..(s + 2) : j = s + 1 \/ j = s + 2
        /\ (s + 2) + 1 = s + 3 /\ (s + 2) + 2 = s + 4
        /\ s + 4 <= s + 4
    BY <1>2
  <2>2. \A j \in (s + 1)..(s + 2) : body[j] # "CR"
    <3>1. "-" # "CR"
      OBVIOUS
    <3> QED
      BY <1>2, <2>1, <3>1
  <2>3. \/ s + 2 = len
        \/ (s + 2) + 2 <= len /\ body[(s + 2) + 1] = "CR" /\ body[(s + 2) + 2] = "LF"
    BY <1>2, <2>1
  <2> QED
    BY <1>2, <2>1, <2>2, <2>3 DEF LineLies, len
<1>4. SubSeq(body, s + 1, s + 2) = Dashes
  <2> DEFINE b == s + 2
  <2>1. b \in s..len /\ b - s = 2
    BY <1>2
  <2>2. \A j \in 1..(b - s) : Dashes[j] = body[s + j]
    <3>1. \A j \in 1..(b - s) : j = 1 \/ j = 2
      BY <2>1
    <3> QED
      BY <1>2, <3>1, Separators
  <2> HIDE DEF b
  <2>3. b \in s..Len(body) /\ Len(Dashes) = b - s /\ Dashes \in Text
    BY <2>1, Separators DEF len
  <2>4. Dashes = SubSeq(body, s + 1, b)
    BY <1>2, <2>2, <2>3, IsPiece
  <2> QED
    BY <2>4 DEF b
<1> QED
  BY <1>1, <1>2, <1>3, <1>4 DEF s, len

-----------------------------------------------------------------------------
(* The parser stays on its course.                                         *)

LEMMA EmptyPiece ==
    ASSUME NEW a \in Nat
    PROVE  SubSeq(body, a + 1, a) = <<>>
<1>1. a + 1 \in Int /\ a \in Int /\ a < a + 1
  OBVIOUS
<1> QED
  BY <1>1, SubSeqEmpty

LEMMA ReadLineOnCourse ==
    ASSUME Shape, OnCourse, ReadLine
    PROVE  OnCourse'
<1> SUFFICES ASSUME clean'
             PROVE  /\ ~garbled' /\ ~ends_with_CR'
                    /\ \E n \in 0..Len(form') : At(n)'
  BY DEF OnCourse
<1>1. clean /\ pc \in Lines /\ UNCHANGED message
  BY DEF ReadLine
<1>2. /\ LaidOut /\ body \in Text /\ Len(body) \in Nat
      /\ form' = form /\ body' = body
  BY <1>1, BodyIsText DEF message
<1>3. ~garbled /\ ~ends_with_CR
  BY <1>1 DEF OnCourse
<1>4. PICK n \in 0..Len(form) : At(n)
  BY <1>1 DEF OnCourse
<1>5. \A m : Sent(m)' = Sent(m)
  BY <1>2 DEF Sent
<1>6. Len(form) \in Nat \ {0} /\ n \in Nat /\ pos \in Int
  <2>1. Len(form) \in Nat \ {0}
    BY <1>2 DEF LaidOut
  <2>2. n \in Nat
    BY <1>4, <2>1
  <2> QED
    BY <2>1, <2>2 DEF Shape
<1>7. /\ Len(delivered) = n
      /\ \A m \in 1..n : delivered[m] = form[m]
  <2>1. pc # "part"
    BY <1>1 DEF Lines
  <2> QED
    BY <1>4, <2>1 DEF At
\* As long as no part begins, it is enough to know the new place.
<1>8. ASSUME /\ UNCHANGED <<part, garbled>> /\ ~ends_with_CR'
             /\ \/ InPreamble(n)' \/ AtHeader(n)' \/ BehindHeader(n)'
                \/ BehindPart(n)' \/ BehindLastPart(n)' \/ AtEnd(n)'
      PROVE  /\ ~garbled' /\ ~ends_with_CR'
             /\ \E m \in 0..Len(form') : At(m)'
  <2>1. delivered' = delivered /\ garbled' = garbled
    BY <1>8 DEF part
  <2>2. Len(delivered') = n /\ \A m \in 1..n : delivered'[m] = form'[m]
    BY <1>2, <1>7, <2>1
  <2>3. At(n)'
    BY <1>8, <2>2 DEF At
  <2> QED
    BY <1>2, <1>3, <1>8, <2>1, <2>3
<1>9. CASE InPreamble(n)
  <2> DEFINE b == Len(Boundary)
  <2>1. /\ pc = "preamble" /\ n = 0 /\ pos \in 0..b /\ line = SubSeq(body, 0 + 1, pos)
    BY <1>9 DEF InPreamble
  <2>2. /\ LineLies(0, b) /\ SubSeq(body, 1, b) = Boundary
        /\ Sent(0) = b /\ b + 2 < Len(body) /\ b \in Nat
    BY <1>2, PreambleLies, Separators
  <2>3. 0 <= pos /\ pos <= b
    BY <2>1, <2>2
  <2>4. LineGoesOn(0, b) \/ LineIsThere(0, b)
    <3> HIDE DEF b
    <3> QED
      BY <1>1, <1>3, <2>1, <2>2, <2>3, CleanRead
  <2>5. CASE LineGoesOn(0, b)
    <3>1. /\ pos' \in 0..b /\ line' = SubSeq(body, 1, pos') /\ pc' = "preamble"
          /\ ~ends_with_CR' /\ UNCHANGED <<part, garbled>>
      BY <2>1, <2>2, <2>5 DEF LineGoesOn
    <3>2. InPreamble(n)'
      BY <1>2, <2>1, <3>1 DEF InPreamble
    <3> QED
      BY <1>8, <3>1, <3>2
  <2>6. CASE LineIsThere(0, b)
    <3>1. pos' = Sent(n) + 2 /\ LineRead(Boundary)
      <4>1. SubSeq(body, 0 + 1, b) = SubSeq(body, 1, b)
        OBVIOUS
      <4>2. LineRead(SubSeq(body, 0 + 1, b)) /\ pos' = b + 2
        BY <2>6 DEF LineIsThere
      <4>3. LineRead(Boundary)
        BY <2>2, <4>1, <4>2, Zenon
      <4> QED
        BY <2>1, <2>2, <4>2, <4>3
    <3>2. IsPrefix(Boundary, Boundary)
      BY <2>2 DEF IsPrefix
    <3>3. /\ pc' = "header" /\ line' = <<>> /\ ~ends_with_CR'
          /\ UNCHANGED <<part, garbled>>
      BY <2>1, <3>1, <3>2 DEF LineRead, NewLine
    <3>4. AtHeader(n)'
      <4>1. Sent(n) \in Nat /\ (Sent(n) + 2) + 1 = Sent(n) + 3 /\ Sent(n) + 2 \in Nat
        BY <2>1, <2>2
      <4>2. SubSeq(body, (Sent(n) + 2) + 1, Sent(n) + 2) = <<>>
        BY <4>1, EmptyPiece
      <4>3. line' = SubSeq(body', Sent(n) + 3, pos')
        BY <1>2, <3>1, <3>3, <4>1, <4>2
      <4>4. pos' \in (Sent(n) + 2)..(Sent(n) + 3) /\ n < Len(form')
        BY <1>2, <1>6, <2>1, <3>1, <4>1
      <4> QED
        BY <1>5, <3>3, <4>3, <4>4 DEF AtHeader
    <3> QED
      BY <1>8, <3>3, <3>4
  <2> QED
    BY <2>4, <2>5, <2>6
<1>10. CASE AtHeader(n)
  <2> DEFINE s == Sent(n)
  <2>1. /\ pc = "header" /\ n < Len(form)
        /\ pos \in (s + 2)..(s + 3) /\ line = SubSeq(body, s + 3, pos)
    BY <1>10 DEF AtHeader
  <2>2. n \in 0..(Len(form) - 1)
    <3>1. n \in Nat /\ Len(form) \in Nat /\ n < Len(form)
      BY <1>6, <2>1
    <3> QED
      BY <3>1
  <2>3. /\ LineLies(s + 2, s + 3) /\ SubSeq(body, (s + 2) + 1, s + 3) = <<"h">>
        /\ s \in Nat
    BY <1>2, <2>2, HeadLies, PartLies
  <2>4. /\ s + 2 <= pos /\ pos <= s + 3 /\ (s + 2) + 1 = s + 3 /\ (s + 3) + 2 = s + 5
        /\ s + 2 \in Nat /\ s + 3 \in Nat
    <3> HIDE DEF s
    <3> QED
      BY <1>6, <2>1, <2>3
  <2>5. LineGoesOn(s + 2, s + 3) \/ LineIsThere(s + 2, s + 3)
    <3> DEFINE a == s + 2
               b == s + 3
    <3>1. LineLies(a, b) /\ a <= pos /\ pos <= b /\ line = SubSeq(body, a + 1, pos)
      BY <2>1, <2>3, <2>4
    <3> HIDE DEF a, b
    <3>2. LineGoesOn(a, b) \/ LineIsThere(a, b)
      BY <1>1, <1>3, <3>1, CleanRead
    <3> QED
      BY <3>2 DEF a, b
  <2>6. CASE LineGoesOn(s + 2, s + 3)
    <3>1. /\ pos' \in Nat /\ pos < pos' /\ pos' <= s + 3
          /\ line' = SubSeq(body, (s + 2) + 1, pos') /\ pc' = "header"
          /\ ~ends_with_CR' /\ UNCHANGED <<part, garbled>>
      BY <2>1, <2>6 DEF LineGoesOn
    <3>2. pos' \in (s + 2)..(s + 3) /\ line' = SubSeq(body, s + 3, pos')
      <4> HIDE DEF s
      <4> QED
        BY <1>6, <2>3, <2>4, <3>1
    <3>3. AtHeader(n)'
      BY <1>2, <1>5, <2>1, <3>1, <3>2 DEF AtHeader
    <3> QED
      BY <1>8, <3>1, <3>3
  <2>7. CASE LineIsThere(s + 2, s + 3)
    <3>1. pos' = s + 5 /\ LineRead(<<"h">>)
      BY <2>3, <2>4, <2>7 DEF LineIsThere
    <3>2. <<"h">> # <<>>
      BY Separators
    <3>3. /\ pc' = "more headers" /\ line' = <<>> /\ ~ends_with_CR'
          /\ UNCHANGED part /\ garbled' = garbled
      <4>1. /\ pc' = "more headers" /\ line' = <<>> /\ ends_with_CR' = FALSE
            /\ UNCHANGED part /\ garbled' = (garbled \/ <<"h">> # <<"h">>)
        BY <2>1, <3>1, <3>2 DEF LineRead, NewLine
      <4>2. garbled' = garbled
        BY <1>3, <4>1, Zenon DEF Shape
      <4> QED
        BY <4>1, <4>2
    <3>4. BehindHeader(n)'
      BY <1>2, <1>5, <2>1, <3>1, <3>3 DEF BehindHeader
    <3> QED
      BY <1>8, <3>3, <3>4
  <2> QED
    BY <2>5, <2>6, <2>7
<1>11. CASE BehindHeader(n)
  <2> DEFINE s == Sent(n)
  <2>1. pc = "more headers" /\ n < Len(form) /\ pos = s + 5 /\ line = <<>>
    BY <1>11 DEF BehindHeader
  <2>2. n \in 0..(Len(form) - 1)
    <3>1. n \in Nat /\ Len(form) \in Nat /\ n < Len(form)
      BY <1>6, <2>1
    <3> QED
      BY <3>1
  <2>3. LineLies(s + 5, s + 5) /\ s \in Nat
    BY <1>2, <2>2, HeadLies, PartLies
  <2>4. s + 5 \in Nat /\ s + 5 <= s + 5 /\ (s + 5) + 2 = s + 7
    <3> HIDE DEF s
    <3> QED
      BY <2>3
  <2>5. SubSeq(body, (s + 5) + 1, s + 5) = <<>>
    BY <2>4, EmptyPiece
  <2>6. LineGoesOn(s + 5, s + 5) \/ LineIsThere(s + 5, s + 5)
    <3> DEFINE a == s + 5
    <3>1. LineLies(a, a) /\ a <= pos /\ pos <= a /\ line = SubSeq(body, a + 1, pos)
      BY <2>1, <2>3, <2>4, <2>5
    <3> HIDE DEF a
    <3>2. LineGoesOn(a, a) \/ LineIsThere(a, a)
      BY <1>1, <1>3, <3>1, CleanRead
    <3> QED
      BY <3>2 DEF a
  <2>7. LineIsThere(s + 5, s + 5)
    <3>1. ~LineGoesOn(s + 5, s + 5)
      <4> SUFFICES ASSUME LineGoesOn(s + 5, s + 5)  PROVE FALSE
        OBVIOUS
      <4>1. pos' \in Nat /\ pos < pos' /\ pos' <= s + 5
        BY DEF LineGoesOn
      <4>2. pos = s + 5 /\ s + 5 \in Nat /\ ~(s + 5 < s + 5)
        <5>1. s + 5 \in Nat
          BY <2>4
        <5>2. pos = s + 5
          BY <2>1
        <5> HIDE DEF s
        <5> QED
          BY <5>1, <5>2
      <4> HIDE DEF s
      <4> QED
        BY <4>1, <4>2
    <3> QED
      BY <2>6, <3>1
  <2>8. pos' = s + 7 /\ LineRead(<<>>)
    BY <2>4, <2>5, <2>7 DEF LineIsThere
  <2>9. /\ pc' = "part" /\ line' = <<>> /\ ~ends_with_CR'
        /\ delivered' = Append(delivered, <<>>) /\ starts' = Append(starts, pos')
        /\ garbled' = garbled
    BY <2>1, <2>8 DEF LineRead, NewLine
  <2>10. /\ delivered \in Seq(Text) /\ starts \in Seq(0..Len(body)) /\ Len(starts) = n
    BY <1>7 DEF Shape
  <2>11. /\ Len(delivered') = n + 1
         /\ \A m \in 1..n : delivered'[m] = delivered[m]
    BY <1>7, <2>9, <2>10, Separators, AppendProperties
  <2>12. starts'[n + 1] = s + 7
    <3>1. pos' \in 0..Len(body)
      <4>1. Sent(n) + 7 <= Len(body)
        <5>1. /\ Sent(n) \in Nat /\ Len(form[n + 1]) \in Nat /\ D \in Nat
              /\ Sent(n + 1) = Sent(n) + 7 + Len(form[n + 1]) + D
              /\ Sent(n + 1) + 2 <= Len(body)
          BY <1>2, <2>2, PartLies
        <5> QED
          BY <1>2, <5>1
      <4> QED
        BY <1>2, <2>3, <2>8, <4>1
    <3>2. Append(starts, pos')[Len(starts) + 1] = pos'
      BY <2>10, <3>1, AppendProperties
    <3> QED
      BY <2>8, <2>9, <2>10, <3>2
  <2>13. n + 1 \in 0..Len(form) /\ n + 1 > 0 /\ (n + 1) - 1 = n
    <3>1. n \in Nat /\ Len(form) \in Nat /\ n < Len(form)
      BY <1>6, <2>1
    <3> QED
      BY <3>1
  <2>14. \A m \in 1..(n + 1) : m < n + 1 => delivered'[m] = form'[m]
    <3> TAKE m \in 1..(n + 1)
    <3>1. m < n + 1 => m \in 1..n
      BY <1>6
    <3> QED
      BY <1>2, <1>7, <2>11, <3>1
  <2>15. InPart(n + 1)'
    <3>1. pos' <= starts'[n + 1] + Len(form'[n + 1])
      <4>1. Len(form[n + 1]) \in Nat
        BY <1>2, <2>2, PartLies
      <4> DEFINE l == Len(form[n + 1])
      <4>2. s + 7 <= (s + 7) + l
        <5>1. s \in Nat /\ l \in Nat
          BY <2>3, <4>1
        <5> HIDE DEF l, s
        <5> QED
          BY <5>1
      <4> HIDE DEF l, s
      <4> QED
        BY <1>2, <2>8, <2>12, <4>2 DEF l
    <3> QED
      BY <1>5, <2>9, <2>12, <2>13, <3>1 DEF InPart
  <2>16. At(n + 1)'
    BY <2>9, <2>11, <2>14, <2>15 DEF At
  <2> QED
    BY <1>2, <1>3, <2>9, <2>13, <2>16
<1>12. CASE BehindPart(n)
  <2> DEFINE s == Sent(n)
  <2>1. /\ pc = "after delimiter" /\ n \in 1..(Len(form) - 1)
        /\ pos = s /\ line = <<>>
    BY <1>12 DEF BehindPart
  <2>2. n \in 0..(Len(form) - 1) /\ n < Len(form)
    <3>1. n \in 1..(Len(form) - 1) /\ Len(form) \in Nat
      BY <1>6, <2>1
    <3> QED
      BY <3>1
  <2>3. LineLies(s, s) /\ s \in Nat
    BY <1>2, <2>2, HeadLies, PartLies
  <2>4. SubSeq(body, s + 1, s) = <<>> /\ s <= s
    BY <2>3, EmptyPiece
  <2>5. LineGoesOn(s, s) \/ LineIsThere(s, s)
    <3> HIDE DEF s
    <3>1. LineLies(s, s) /\ s <= pos /\ pos <= s /\ line = SubSeq(body, s + 1, pos)
      BY <2>1, <2>3, <2>4
    <3> QED
      BY <1>1, <1>3, <3>1, CleanRead
  <2>6. LineIsThere(s, s)
    <3>1. ~LineGoesOn(s, s)
      <4> SUFFICES ASSUME LineGoesOn(s, s)  PROVE FALSE
        OBVIOUS
      <4>1. pos' \in Nat /\ pos < pos' /\ pos' <= s
        BY DEF LineGoesOn
      <4>2. pos = s /\ s \in Nat
        BY <2>1, <2>3
      <4> HIDE DEF s
      <4> QED
        BY <4>1, <4>2
    <3> QED
      BY <2>5, <3>1
  <2>7. pos' = s + 2 /\ LineRead(<<>>)
    BY <2>4, <2>6 DEF LineIsThere
  <2>8. /\ pc' = "header" /\ line' = <<>> /\ ~ends_with_CR'
        /\ UNCHANGED <<part, garbled>>
    BY <2>1, <2>7 DEF LineRead, NewLine
  <2>9. AtHeader(n)'
    <3> HIDE DEF s
    <3>1. s + 2 \in Nat /\ (s + 2) + 1 = s + 3 /\ s + 2 \in (s + 2)..(s + 3)
      BY <2>3
    <3>2. SubSeq(body, (s + 2) + 1, s + 2) = <<>>
      BY <3>1, EmptyPiece
    <3>3. line' = SubSeq(body', s + 3, pos') /\ pos' \in (s + 2)..(s + 3)
      BY <1>2, <2>7, <2>8, <3>1, <3>2
    <3> QED
      BY <1>2, <1>5, <2>2, <2>8, <3>3 DEF AtHeader, s
  <2> QED
    BY <1>8, <2>8, <2>9
<1>13. CASE BehindLastPart(n)
  <2> DEFINE s == Sent(n)
  <2>1. /\ pc = "after delimiter" /\ n = Len(form)
        /\ pos \in s..(s + 2) /\ line = SubSeq(body, s + 1, pos)
    BY <1>13 DEF BehindLastPart
  <2>2. /\ LineLies(s, s + 2) /\ SubSeq(body, s + 1, s + 2) = Dashes
        /\ s \in Nat /\ Len(body) \in {s + 2, s + 4}
    BY <1>2, <2>1, TailLies
  <2>3. /\ s <= pos /\ pos <= s + 2 /\ (s + 2) + 2 = s + 4 /\ s + 2 \in Nat
    <3>1. pos \in s..(s + 2) /\ s \in Nat
      BY <2>1, <2>2
    <3> HIDE DEF s
    <3> QED
      BY <3>1
  <2>4. LineGoesOn(s, s + 2) \/ LineIsThere(s, s + 2)
    <3> DEFINE b == s + 2
    <3>1. LineLies(s, b) /\ s <= pos /\ pos <= b /\ line = SubSeq(body, s + 1, pos)
      BY <2>1, <2>2, <2>3
    <3> HIDE DEF b, s
    <3>2. LineGoesOn(s, b) \/ LineIsThere(s, b)
      BY <1>1, <1>3, <3>1, CleanRead
    <3> QED
      BY <3>2 DEF b
  <2>5. CASE LineGoesOn(s, s + 2)
    <3>1. /\ pos' \in Nat /\ pos < pos' /\ pos' <= s + 2
          /\ line' = SubSeq(body, s + 1, pos') /\ pc' = "after delimiter"
          /\ ~ends_with_CR' /\ UNCHANGED <<part, garbled>>
      BY <2>1, <2>5 DEF LineGoesOn
    <3>2. pos' \in s..(s + 2)
      <4>1. /\ s \in Nat /\ s <= pos /\ pos \in Int
            /\ pos' \in Nat /\ pos < pos' /\ pos' <= s + 2
        BY <1>6, <2>2, <2>3, <3>1
      <4> HIDE DEF s
      <4> QED
        BY <4>1
    <3>3. BehindLastPart(n)'
      BY <1>2, <1>5, <2>1, <3>1, <3>2 DEF BehindLastPart
    <3> QED
      BY <1>8, <3>1, <3>3
  <2>6. CASE LineIsThere(s, s + 2)
    <3>1. pos' = s + 4 /\ s + 4 <= Len(body) /\ LineRead(Dashes)
      BY <2>2, <2>3, <2>6 DEF LineIsThere
    <3>2. pos' = Len(body)
      <4> HIDE DEF s
      <4> QED
        BY <2>2, <3>1
    <3>3. /\ pc' = "header" /\ line' = <<>> /\ ~ends_with_CR'
          /\ UNCHANGED <<part, garbled>>
      BY <2>1, <3>1 DEF LineRead, NewLine
    <3>4. AtEnd(n)'
      BY <1>2, <2>1, <3>2, <3>3 DEF AtEnd
    <3> QED
      BY <1>8, <3>3, <3>4
  <2> QED
    BY <2>4, <2>5, <2>6
<1>14. ~AtEnd(n)
  <2> SUFFICES ASSUME AtEnd(n)  PROVE FALSE
    OBVIOUS
  <2>1. PICK e : e \in ReadEnds
    BY DEF ReadLine
  <2>2. /\ pos \in Nat /\ e \in Nat /\ pos < e /\ e <= Len(body)
    BY <1>1, <2>1, ReadIs DEF Lines, Ended, ReadsUpTo
  <2>3. pos = Len(body)
    BY DEF AtEnd
  <2> QED
    BY <2>2, <2>3
<1>15. ~InPart(n) /\ ~IsDone(n)
  BY <1>1 DEF InPart, IsDone, Lines
<1> QED
  BY <1>4, <1>9, <1>10, <1>11, <1>12, <1>13, <1>14, <1>15 DEF At

\* The bytes of a part, and its delimiter behind them.
PartBytes(n, a, z) ==
    /\ a = Sent(n - 1) + 7 /\ z = a + Len(form[n]) /\ Sent(n) = z + D
    /\ a \in Nat /\ z \in Nat /\ a <= z /\ z + D <= Len(body)
    /\ form[n] \in Text /\ Len(form[n]) = z - a /\ D \in Nat \ {0}
    /\ \A j \in 1..(z - a) : body[a + j] = form[n][j]
    /\ \A j \in 1..D : body[z + j] = Delimiter[j]

LEMMA PartBytesLie ==
    ASSUME LaidOut, NEW n \in 1..Len(form)
    PROVE  PartBytes(n, Sent(n - 1) + 7, Sent(n - 1) + 7 + Len(form[n]))
<1> DEFINE m == n - 1
           s == Sent(m)
           l == Len(form[n])
<1>1. Len(form) \in Nat /\ body \in Text /\ Len(body) \in Nat
  BY DEF LaidOut, Text
<1>2. m \in 0..(Len(form) - 1) /\ m + 1 = n
  BY <1>1
<1>3. /\ s \in Nat /\ form[n] \in Text /\ l \in Nat /\ D \in Nat
      /\ Sent(n) = s + 7 + l + D /\ Sent(n) + 2 <= Len(body)
  <2> HIDE DEF m
  <2> QED
    BY <1>2, PartLies
<1>4. /\ \A j \in 1..l : body[s + 7 + j] = form[n][j]
      /\ \A j \in 1..D : body[s + 7 + l + j] = Delimiter[j]
  <2> HIDE DEF m
  <2> QED
    BY <1>2, Zenon DEF LaidOut
<1>5. D # 0
  BY DelimiterIs, Separators
<1> HIDE DEF s, l
<1>6. /\ s + 7 \in Nat /\ s + 7 + l \in Nat /\ s + 7 <= s + 7 + l
      /\ s + 7 + l + D <= Len(body) /\ l = (s + 7 + l) - (s + 7) /\ D \in Nat \ {0}
      /\ Sent(n) = (s + 7 + l) + D
  BY <1>1, <1>3, <1>5
<1>7. \A j \in 1..((s + 7 + l) - (s + 7)) : body[(s + 7) + j] = form[n][j]
  BY <1>4, <1>6
<1> QED
  BY <1>3, <1>4, <1>6, <1>7 DEF PartBytes, s, l

\* No delimiter begins in a part before the one behind it: it would lie in the
\* content, or the one behind the part would begin inside of it.
LEMMA NoneBefore ==
    ASSUME Shape, NEW n \in 1..Len(form), NEW a, NEW z, PartBytes(n, a, z),
           NEW x \in Nat, a <= x, \A j \in 1..D : body[x + j] = Delimiter[j]
    PROVE  z <= x
<1>1. SUFFICES ASSUME x < z  PROVE FALSE
  BY DEF PartBytes
<1>2. /\ a \in Nat /\ z \in Nat /\ a <= z /\ D \in Nat \ {0}
      /\ form[n] \in Text /\ Len(form[n]) = z - a
      /\ \A j \in 1..(z - a) : body[a + j] = form[n][j]
      /\ \A j \in 1..D : body[z + j] = Delimiter[j]
  BY DEF PartBytes
<1>3. CASE x + D <= z
  <2> DEFINE p == x - a + 1
  <2>1. p \in 1..((z - a) - D + 1)
    BY <1>1, <1>2, <1>3
  <2>2. \A j \in 1..D : form[n][p + j - 1] = Delimiter[j]
    <3> TAKE j \in 1..D
    <3>1. p + j - 1 \in 1..(z - a) /\ a + (p + j - 1) = x + j
      BY <1>1, <1>2, <1>3
    <3>2. body[a + (p + j - 1)] = form[n][p + j - 1]
      <4> DEFINE i == p + j - 1
      <4>1. i \in 1..(z - a)
        BY <3>1
      <4> HIDE DEF i
      <4>2. body[a + i] = form[n][i]
        BY <1>2, <4>1
      <4> QED
        BY <4>2 DEF i
    <3> QED
      BY <3>1, <3>2
  <2>3. p \in Places(Delimiter, form[n])
    <3> HIDE DEF p
    <3>1. p \in 1..(Len(form[n]) - Len(Delimiter) + 1)
      BY <1>2, <2>1, DelimiterIs
    <3>2. \A j \in 1..Len(Delimiter) : form[n][p + j - 1] = Delimiter[j]
      BY <2>2, DelimiterIs
    <3> QED
      BY <1>2, <3>1, <3>2, DelimiterIs, PlacesAre
  <2>4. Places(Delimiter, form[n]) = {}
    BY FormAssumption DEF Shape
  <2> QED
    BY <2>3, <2>4
<1>4. CASE z < x + D
  <2> DEFINE k == z - x + 1
  <2>1. k \in 2..D /\ k \in 1..D /\ x + k = z + 1 /\ 1 \in 1..D
    BY <1>1, <1>2, <1>4
  <2> HIDE DEF k
  <2>2. body[x + k] = Delimiter[k] /\ body[z + 1] = Delimiter[1]
    BY <1>2, <2>1
  <2> QED
    BY <2>1, <2>2, DelimiterIs
<1> QED
  BY <1>2, <1>3, <1>4

\* So a delimiter found in a read of a part is the one behind it.
LEMMA FoundBehindPart ==
    ASSUME Shape, pc = "part", NEW e \in ReadEnds,
           NEW n \in 1..Len(form), NEW a, NEW z, PartBytes(n, a, z),
           a <= pos, pos <= z, Places(Delimiter, Read(e)) # {}
    PROVE  FirstOf(Places(Delimiter, Read(e))) = z + 1 - pos
<1> DEFINE found == Places(Delimiter, Read(e))
           p == z + 1 - pos
<1>1. /\ pos \in Nat /\ e \in Nat /\ pos < e /\ e <= Len(body)
      /\ Read(e) \in Text /\ Len(Read(e)) = e - pos
      /\ \A j \in 1..(e - pos) : Read(e)[j] = body[pos + j]
  BY ReadIs DEF ReadsUpTo, Ended
<1>2. a \in Nat /\ z \in Nat /\ D \in Nat \ {0}
      /\ \A j \in 1..D : body[z + j] = Delimiter[j]
  BY DEF PartBytes
<1>3. \A q \in found : q \in 1..(e - pos - D + 1) /\ p <= q
  <2> TAKE q \in found
  <2>1. /\ q \in 1..(e - pos - D + 1)
        /\ \A j \in 1..D : Read(e)[q + j - 1] = Delimiter[j]
    <3>1. /\ q \in 1..(Len(Read(e)) - Len(Delimiter) + 1)
          /\ \A j \in 1..Len(Delimiter) : Read(e)[q + j - 1] = Delimiter[j]
      <4>1. Read(e) \in Text /\ Delimiter \in Text /\ q \in Places(Delimiter, Read(e))
        BY <1>1, DelimiterIs
      <4> QED
        BY <4>1, PlacesAre, Zenon
    <3> QED
      BY <1>1, <3>1, DelimiterIs
  <2> DEFINE x == pos + q - 1
  <2>2. x \in Nat /\ a <= x
    BY <1>1, <1>2, <2>1
  <2>3. \A j \in 1..D : body[x + j] = Delimiter[j]
    <3> TAKE j \in 1..D
    <3> DEFINE i == q + j - 1
    <3>1. i \in 1..(e - pos) /\ pos + i = x + j
      BY <1>1, <1>2, <2>1
    <3>2. Read(e)[i] = Delimiter[j]
      BY <2>1
    <3> HIDE DEF i, x
    <3>3. Read(e)[i] = body[pos + i]
      BY <1>1, <3>1
    <3> QED
      BY <3>1, <3>2, <3>3
  <2> HIDE DEF x
  <2>4. z <= x
    BY <2>2, <2>3, NoneBefore
  <2> QED
    BY <1>1, <1>2, <2>1, <2>4 DEF x
<1>4. p \in found
  <2>1. PICK q \in found : q \in 1..(e - pos - D + 1) /\ p <= q
    BY <1>3
  <2>2. p \in 1..(e - pos - D + 1)
    BY <1>1, <1>2, <2>1
  <2>3. \A j \in 1..D : Read(e)[p + j - 1] = Delimiter[j]
    <3> TAKE j \in 1..D
    <3> DEFINE i == p + j - 1
    <3>1. i \in 1..(e - pos) /\ pos + i = z + j
      BY <1>1, <1>2, <2>2
    <3> HIDE DEF i
    <3>2. Read(e)[i] = body[pos + i]
      BY <1>1, <3>1
    <3>3. Read(e)[i] = Delimiter[j]
      BY <1>2, <3>1, <3>2
    <3> QED
      BY <3>3 DEF i
  <2> HIDE DEF p
  <2>4. /\ p \in 1..(Len(Read(e)) - Len(Delimiter) + 1)
        /\ \A j \in 1..Len(Delimiter) : Read(e)[p + j - 1] = Delimiter[j]
    BY <1>1, <2>2, <2>3, DelimiterIs
  <2> QED
    BY <1>1, <2>4, DelimiterIs, PlacesAre
<1>5. found \in SUBSET Nat
  BY <1>3
<1> HIDE DEF found, p
<1>6. FirstOf(found) = p
  BY <1>3, <1>4, <1>5, FirstIs
<1> QED
  BY <1>6 DEF found, p

LEMMA ProcessPartOnCourse ==
    ASSUME Shape, Delivery, OnCourse, ProcessPart
    PROVE  OnCourse'
<1> SUFFICES ASSUME clean'
             PROVE  /\ ~garbled' /\ ~ends_with_CR'
                    /\ \E n \in 0..Len(form') : At(n)'
  BY DEF OnCourse
<1> DEFINE Found(e) == Places(Delimiter, Read(e))
           Raw(e) == carry \o Read(e)
           size(e) == Len(Read(e))
           partEnd == starts[Len(starts)] + Len(form[Len(starts)])
<1>1. /\ pc = "part"
      /\ UNCHANGED <<message, line, ends_with_CR, starts, garbled>>
  BY DEF ProcessPart
<1>2. PICK e \in ReadEnds :
         \/ /\ ~first \/ size(e) >= D
            /\ Deliver(SubSeq(Raw(e), buffer_to_process, size(e)))
            /\ pos' = e
            /\ clean' = (clean /\ e <= partEnd)
            /\ UNCHANGED pc
         \/ /\ Found(e) # {}
            /\ Deliver(SubSeq(Raw(e), buffer_to_process, D + FirstOf(Found(e)) - 1))
            /\ pos' = pos + BehindDelimiter(FirstOf(Found(e)))
            /\ pc' = "after delimiter"
            /\ UNCHANGED <<carry, first, clean>>
  BY DEF ProcessPart, Read
<1>3. clean
  BY <1>2, Zenon DEF Shape
<1>4. /\ LaidOut /\ body \in Text /\ Len(form) \in Nat
      /\ UNCHANGED <<form, body, line, starts>>
      /\ ~garbled' /\ ~ends_with_CR'
  BY <1>1, <1>3, BodyIsText DEF OnCourse, message, LaidOut
<1>5. PICK n \in 0..Len(form) : At(n)
  BY <1>3 DEF OnCourse
<1>6. InPart(n) /\ Len(delivered) = n /\ \A m \in 1..n : m < n => delivered[m] = form[m]
  BY <1>1, <1>5 DEF At, InPreamble, AtHeader, BehindHeader, BehindPart, BehindLastPart,
                    AtEnd, IsDone
<1> DEFINE a == starts[n]
           z == starts[n] + Len(form[n])
<1>7. n \in 1..Len(form) /\ a = Sent(n - 1) + 7 /\ pos <= z /\ line = <<>>
  BY <1>4, <1>6 DEF InPart
<1>8. PartBytes(n, a, z)
  BY <1>4, <1>7, PartBytesLie
<1>9. Len(starts) = n /\ a <= pos /\ partEnd = z
  <2>1. /\ Len(starts) = n /\ starts[n] \in Nat
        /\ got = starts[n] + Len(delivered[n]) /\ Len(delivered[n]) \in Nat /\ got <= pos
    BY <1>1, <1>6, ReadingPart DEF got
  <2>2. pos \in Int
    BY DEF Shape
  <2> QED
    BY <2>1, <2>2
<1>10. /\ pos \in Nat /\ e \in Nat /\ pos < e /\ e <= Len(body) /\ Len(body) \in Nat
       /\ size(e) = e - pos
  BY <1>1, ReadIs DEF ReadsUpTo, Ended
<1>11. /\ D \in Nat \ {0} /\ buffer_to_process \in {1, D + 1}
       /\ ~first <=> buffer_to_process = 1
  BY <1>1, ReadingPart
<1>12. \A m : Sent(m)' = Sent(m)
  BY <1>4 DEF Sent
<1>13. /\ a \in Nat /\ z \in Nat /\ a <= z /\ Sent(n) = z + D /\ form[n] \in Text
       /\ Len(form[n]) = z - a /\ \A j \in 1..(z - a) : body[a + j] = form[n][j]
       /\ z <= Len(body)
  <2>1. PartBytes(n, a, z)
    BY <1>8
  <2> HIDE DEF a, z
  <2> QED
    BY <1>10, <2>1 DEF PartBytes
\* The part goes on.
<1>14. CASE /\ ~first \/ size(e) >= D
            /\ Deliver(SubSeq(Raw(e), buffer_to_process, size(e)))
            /\ pos' = e
            /\ clean' = (clean /\ e <= partEnd)
            /\ UNCHANGED pc
  <2> DEFINE b == e - pos
  <2>1. b \in Nat /\ b <= D + (e - pos) /\ buffer_to_process <= b + 1
    <3>1. b \in Nat /\ b <= D + (e - pos)
      BY <1>10, <1>11
    <3>2. CASE ~first
      BY <1>11, <3>1, <3>2
    <3>3. CASE first
      <4>1. buffer_to_process = D + 1 /\ b >= D
        BY <1>10, <1>11, <1>14, <3>3
      <4> QED
        BY <1>11, <3>1, <4>1
    <3> QED
      BY <3>1, <3>2, <3>3
  <2>2. Deliver(SubSeq(carry \o Read(e), buffer_to_process, b))
    BY <1>10, <1>14
  <2> HIDE DEF b
  <2>3. DeliveredUpTo(b)
    BY <1>1, <1>2, <2>1, <2>2, DeliverIs
  <2>4. Len(delivered') = n /\ \A m \in 1..n : m < n => delivered'[m] = form'[m]
    BY <1>4, <1>6, <2>3 DEF DeliveredUpTo
  <2>5. pc' = "part" /\ pos' <= z
    BY <1>1, <1>9, <1>14
  <2>6. InPart(n)'
    BY <1>4, <1>6, <1>7, <1>12, <2>5 DEF InPart
  <2>7. At(n)'
    BY <2>4, <2>5, <2>6 DEF At
  <2> QED
    BY <1>4, <2>7
\* The part is read.
<1>15. CASE /\ Found(e) # {}
            /\ Deliver(SubSeq(Raw(e), buffer_to_process, D + FirstOf(Found(e)) - 1))
            /\ pos' = pos + BehindDelimiter(FirstOf(Found(e)))
            /\ pc' = "after delimiter"
            /\ UNCHANGED <<carry, first, clean>>
  <2> DEFINE p == z + 1 - pos
             b == D + p - 1
  <2>1. FirstOf(Found(e)) = p
    <3>1. PartBytes(n, a, z) /\ a <= pos /\ pos <= z
      BY <1>7, <1>8, <1>9
    <3> HIDE DEF a, z
    <3> QED
      BY <1>1, <1>2, <1>7, <1>15, <3>1, FoundBehindPart
  <2>2. p \in Found(e)
    <3>1. Found(e) \in SUBSET Nat
      BY DEF Places
    <3> QED
      BY <1>15, <2>1, <3>1, FirstOfPlaces
  <2>3. p \in 1..(e - pos - D + 1)
    <3>1. Read(e) \in Text /\ Delimiter \in Text /\ Len(Delimiter) = D
      BY <1>1, ReadIs, DelimiterIs DEF ReadsUpTo, Ended
    <3> HIDE DEF p
    <3>2. p \in 1..(Len(Read(e)) - Len(Delimiter) + 1)
      BY <2>2, <3>1, PlacesAre, Zenon
    <3> QED
      BY <1>10, <3>1, <3>2
  <2>4. /\ b \in Nat /\ b <= D + (e - pos) /\ buffer_to_process <= b + 1
        /\ pos - D + b = z
    <3>1. p \in Int /\ 1 <= p /\ p <= e - pos - D + 1
      BY <1>10, <1>11, <2>3
    <3>2. p = z + 1 - pos /\ z \in Nat
      BY <1>13
    <3> HIDE DEF p, z
    <3>3. 1 <= b + 1 /\ D + 1 <= b + 1
      BY <1>11, <3>1
    <3> QED
      BY <1>10, <1>11, <3>1, <3>2, <3>3
  <2>5. pos' = z + D
    <3>1. pos' = pos + (p - 1 + D)
      BY <1>15, <2>1 DEF BehindDelimiter
    <3>2. z \in Nat
      BY <1>13
    <3> HIDE DEF z
    <3> QED
      BY <1>10, <1>11, <3>1, <3>2
  <2>6. Deliver(SubSeq(carry \o Read(e), buffer_to_process, b))
    BY <1>15, <2>1
  <2> HIDE DEF b
  <2>7. DeliveredUpTo(b)
    BY <1>1, <1>2, <2>4, <2>6, DeliverIs
  <2>8. Len(delivered') = n /\ \A m \in 1..n : m < n => delivered'[m] = form[m]
    BY <1>6, <2>7 DEF DeliveredUpTo
  <2>9. delivered'[n] = form[n]
    <3>1. delivered'[n] = SubSeq(body, a + 1, z)
      BY <1>6, <2>4, <2>7 DEF DeliveredUpTo
    <3>2. /\ a \in Nat /\ z \in a..Len(body) /\ form[n] \in Text /\ Len(form[n]) = z - a
          /\ \A j \in 1..(z - a) : form[n][j] = body[a + j]
      <4>1. /\ a \in Nat /\ z \in Nat /\ a <= z /\ z <= Len(body) /\ form[n] \in Text
            /\ Len(form[n]) = z - a /\ \A j \in 1..(z - a) : body[a + j] = form[n][j]
        BY <1>13
      <4> HIDE DEF a, z
      <4> QED
        BY <1>10, <4>1
    <3> HIDE DEF a, z
    <3>3. form[n] = SubSeq(body, a + 1, z)
      BY <1>4, <3>2, IsPiece
    <3> QED
      BY <3>1, <3>3
  <2>10. \A m \in 1..n : delivered'[m] = form'[m]
    <3> TAKE m \in 1..n
    <3>1. m < n \/ m = n
      BY <1>7
    <3> QED
      BY <1>4, <2>8, <2>9, <3>1
  <2>11. pc' = "after delimiter" /\ pos' = Sent(n) /\ line' = <<>>
    BY <1>4, <1>7, <1>13, <1>15, <2>5
  <2>12. BehindPart(n)' \/ BehindLastPart(n)'
    <3>1. CASE n < Len(form)
      <4>1. n \in 1..(Len(form) - 1)
        BY <1>4, <1>7, <3>1
      <4> QED
        BY <1>4, <1>12, <2>11, <4>1 DEF BehindPart
    <3>2. CASE n = Len(form)
      <4>1. Sent(n) \in Nat
        BY <1>11, <1>13
      <4> DEFINE s == Sent(n)
      <4>2. s \in Nat
        BY <4>1
      <4> HIDE DEF s
      <4>3. SubSeq(body, s + 1, s) = <<>> /\ s \in s..(s + 2)
        BY <4>2, EmptyPiece
      <4>4. line' = SubSeq(body', Sent(n) + 1, pos') /\ pos' \in Sent(n)..(Sent(n) + 2)
        BY <1>4, <2>11, <4>3 DEF s
      <4> QED
        BY <1>4, <1>12, <2>11, <3>2, <4>4 DEF BehindLastPart
    <3> QED
      BY <1>4, <1>7, <3>1, <3>2
  <2>13. At(n)'
    BY <2>8, <2>10, <2>12 DEF At
  <2> QED
    BY <1>4, <2>13
<1> QED
  BY <1>2, <1>14, <1>15

LEMMA ReadLineFailsOnCourse ==
    ASSUME Shape, OnCourse, ReadLineFails
    PROVE  OnCourse'
<1> SUFFICES ASSUME clean'
             PROVE  /\ ~garbled' /\ ~ends_with_CR'
                    /\ \E n \in 0..Len(form') : At(n)'
  BY DEF OnCourse
<1>1. /\ pc \in Lines /\ UNCHANGED <<message, reader>>
      /\ clean' = (clean /\ pos = Len(body))
      /\ IF pc = "after delimiter" THEN LineRead(line)
         ELSE pc' = "done" /\ NewLine /\ UNCHANGED <<part, garbled>>
  BY DEF ReadLineFails
<1>2. clean /\ pos = Len(body)
  BY <1>1, Zenon DEF Shape
<1>3. /\ LaidOut /\ body \in Text /\ Len(body) \in Nat /\ Len(form) \in Nat
      /\ UNCHANGED <<form, body, pos>>
  BY <1>1, BodyIsText DEF message, reader, LaidOut
<1>4. ~garbled
  BY <1>2 DEF OnCourse
<1>5. PICK n \in 0..Len(form) : At(n)
  BY <1>2 DEF OnCourse
<1>6. \A m : Sent(m)' = Sent(m)
  BY <1>3 DEF Sent
<1>7. /\ Len(delivered) = n
      /\ \A m \in 1..n : delivered[m] = form[m]
  <2>1. pc # "part"
    BY <1>1 DEF Lines
  <2> QED
    BY <1>5, <2>1 DEF At
\* In front of the last delimiter there is more to read.
<1>8. n = Len(form)
  <2> SUFFICES ASSUME n # Len(form)  PROVE FALSE
    OBVIOUS
  <2>1. n \in 0..(Len(form) - 1)
    BY <1>3
  <2>2. /\ Sent(n) \in Nat /\ Len(form[n + 1]) \in Nat /\ D \in Nat
        /\ Sent(n + 1) = Sent(n) + 7 + Len(form[n + 1]) + D
        /\ Sent(n + 1) + 2 <= Len(body)
    BY <1>3, <2>1, PartLies
  <2>3. Sent(n) + 7 <= Len(body)
    BY <1>3, <2>2
  <2>4. ~InPreamble(n)
    <3> SUFFICES ASSUME InPreamble(n)  PROVE FALSE
      OBVIOUS
    <3>1. pos \in 0..Len(Boundary)
      BY DEF InPreamble
    <3>2. Len(Boundary) \in Nat /\ Len(Boundary) + 2 < Len(body)
      BY <1>3, PreambleLies, Separators
    <3> QED
      BY <1>2, <3>1, <3>2
  <2>5. ~AtHeader(n)
    <3> SUFFICES ASSUME AtHeader(n)  PROVE FALSE
      OBVIOUS
    <3>1. pos \in (Sent(n) + 2)..(Sent(n) + 3)
      BY DEF AtHeader
    <3> QED
      BY <1>2, <2>2, <2>3, <3>1
  <2>6. ~BehindHeader(n)
    <3> SUFFICES ASSUME BehindHeader(n)  PROVE FALSE
      OBVIOUS
    <3>1. pos = Sent(n) + 5
      BY DEF BehindHeader
    <3> QED
      BY <1>2, <2>2, <2>3, <3>1
  <2>7. ~BehindPart(n)
    <3> SUFFICES ASSUME BehindPart(n)  PROVE FALSE
      OBVIOUS
    <3>1. pos = Sent(n)
      BY DEF BehindPart
    <3> QED
      BY <1>2, <2>2, <2>3, <3>1
  <2>8. ~InPart(n) /\ ~BehindLastPart(n) /\ ~AtEnd(n) /\ ~IsDone(n)
    BY <1>1 DEF InPart, BehindLastPart, AtEnd, IsDone, Lines
  <2> QED
    BY <1>5, <2>4, <2>5, <2>6, <2>7, <2>8 DEF At
<1>9. CASE BehindLastPart(n)
  <2> DEFINE s == Sent(n)
  <2>1. /\ pc = "after delimiter" /\ pos \in s..(s + 2)
        /\ line = SubSeq(body, s + 1, pos)
    BY <1>9 DEF BehindLastPart
  <2>2. /\ SubSeq(body, s + 1, s + 2) = Dashes
        /\ s \in Nat /\ Len(body) \in {s + 2, s + 4}
    BY <1>3, <1>8, TailLies
  <2>3. pos = s + 2
    <3>1. pos \in s..(s + 2) /\ s \in Nat /\ pos \in {s + 2, s + 4}
      BY <1>2, <2>1, <2>2
    <3> HIDE DEF s
    <3> QED
      BY <3>1
  <2>4. line = Dashes
    BY <2>1, <2>2, <2>3
  <2>5. /\ pc' = "header" /\ line' = <<>> /\ ~ends_with_CR'
        /\ UNCHANGED <<part, garbled>>
    BY <1>1, <2>1, <2>4 DEF LineRead, NewLine
  <2>6. AtEnd(n)'
    BY <1>2, <1>3, <1>8, <2>5 DEF AtEnd
  <2>7. Len(delivered') = n /\ \A m \in 1..n : delivered'[m] = form'[m]
    BY <1>3, <1>7, <2>5 DEF part
  <2>8. At(n)'
    BY <2>6, <2>7 DEF At
  <2> QED
    BY <1>3, <1>4, <2>5, <2>8
<1>10. CASE AtEnd(n)
  <2>1. pc' = "done" /\ ~ends_with_CR' /\ UNCHANGED <<part, garbled>>
    BY <1>1, <1>10 DEF AtEnd, NewLine
  <2>2. IsDone(n)'
    BY <1>3, <1>8, <2>1 DEF IsDone
  <2>3. Len(delivered') = n /\ \A m \in 1..n : delivered'[m] = form'[m]
    BY <1>3, <1>7, <2>1 DEF part
  <2>4. At(n)'
    BY <2>2, <2>3 DEF At
  <2> QED
    BY <1>3, <1>4, <2>1, <2>4
\* In front of the boundary and in a header it is not at the end of the body either.
<1>11. BehindLastPart(n) \/ AtEnd(n)
  <2>1. ~InPreamble(n)
    BY <1>3, <1>8 DEF InPreamble, LaidOut
  <2>2. ~AtHeader(n) /\ ~BehindHeader(n) /\ ~BehindPart(n)
    <3>1. ~(n < Len(form)) /\ n \notin 1..(Len(form) - 1)
      BY <1>3, <1>8
    <3> QED
      BY <3>1, Zenon DEF AtHeader, BehindHeader, BehindPart
  <2>3. ~InPart(n) /\ ~IsDone(n)
    BY <1>1 DEF InPart, IsDone, Lines
  <2> QED
    BY <1>5, <2>1, <2>2, <2>3 DEF At
<1> QED
  BY <1>9, <1>10, <1>11

LEMMA OnCourseAtFirst ==
    ASSUME Init
    PROVE  OnCourse
<1>1. /\ pos = 0 /\ pc = "preamble" /\ line = <<>> /\ ends_with_CR = FALSE
      /\ delivered = <<>> /\ garbled = FALSE
  BY DEF Init
<1>2. LaidOut
  BY InitShape, BodyIsText
<1>3. 0 \in 0..Len(form) /\ 0 \in 0..Len(Boundary)
  BY <1>2, Separators DEF LaidOut
<1>4. SubSeq(body, 1, 0) = <<>>
  <2>1. SubSeq(body, 0 + 1, 0) = <<>>
    BY EmptyPiece
  <2> QED
    BY <2>1
<1>5. InPreamble(0)
  BY <1>1, <1>3, <1>4 DEF InPreamble
<1>6. At(0)
  BY <1>1, <1>5 DEF At
<1> QED
  BY <1>1, <1>3, <1>6 DEF OnCourse

LEMMA ProcessPartFailsOnCourse ==
    ASSUME ProcessPartFails
    PROVE  OnCourse'
BY DEF ProcessPartFails, OnCourse

LEMMA StutterOnCourse ==
    ASSUME OnCourse, UNCHANGED vars
    PROVE  OnCourse'
<1>1. /\ UNCHANGED <<form, body, pos, base, end, pc, line, ends_with_CR>>
      /\ UNCHANGED <<carry, first, delivered, starts, garbled, clean>>
  BY DEF vars, message, reader, part
<1>2. \A n : At(n)' <=> At(n)
  BY <1>1 DEF At, InPreamble, AtHeader, BehindHeader, InPart, BehindPart, BehindLastPart,
              AtEnd, IsDone, Sent
<1> QED
  BY <1>1, <1>2 DEF OnCourse

LEMMA IInvHolds == Spec => []IInv
<1>1. Init => IInv
  BY InitShape, OnCourseAtFirst DEF IInv
<1>2. IInv /\ [Next]_vars => IInv'
  <2> SUFFICES ASSUME Shape, Delivery, OnCourse, [Next]_vars
               PROVE  Shape' /\ Delivery' /\ OnCourse'
    BY DEF IInv
  <2>1. CASE ReadLine
    BY <2>1, ReadLineKeeps, ReadLineOnCourse
  <2>2. CASE ReadLineFails
    BY <2>2, ReadLineFailsKeeps, ReadLineFailsOnCourse
  <2>3. CASE ProcessPart
    BY <2>3, ProcessPartKeeps, ProcessPartOnCourse
  <2>4. CASE ProcessPartFails
    BY <2>4, ProcessPartFailsKeeps, ProcessPartFailsOnCourse
  <2>5. CASE UNCHANGED vars
    BY <2>5, StutterKeepsShape, StutterOnCourse
  <2> QED
    BY <2>1, <2>2, <2>3, <2>4, <2>5 DEF Next
<1> QED
  BY <1>1, <1>2, PTL DEF Spec

\* A form whose parts hold no delimiter is parsed as it was sent, wherever the reads
\* end, as long as none ends in a CR of a line, inside a delimiter or within a
\* delimiter's length of the start of a part (MultipartParser.cpp:196-262, 405-500):
\* every part arrives whole, in order and with nothing added, and no header is lost.
THEOREM CleanReads == Spec => []CleanReadsParse
<1>1. IInv => CleanReadsParse
  <2> SUFFICES ASSUME Shape, Delivery, OnCourse, clean
               PROVE  /\ pc \in Ended => pc = "done" /\ delivered = form
                      /\ \A k \in 1..Len(delivered) : IsPrefix(delivered[k], form[k])
                      /\ ~garbled
    BY DEF IInv, CleanReadsParse
  <2>1. /\ LaidOut /\ body \in Text /\ Len(body) \in Nat /\ Len(form) \in Nat
        /\ ~garbled
    BY BodyIsText DEF OnCourse, LaidOut
  <2>2. PICK n \in 0..Len(form) : At(n)
    BY DEF OnCourse
  <2>3. /\ Len(delivered) = n /\ n \in Nat
        /\ \A m \in 1..n : m < n \/ pc # "part" => delivered[m] = form[m]
    BY <2>1, <2>2 DEF At
  <2>4. delivered \in Seq(Text) /\ form \in Seq(Text)
    BY FormAssumption DEF Shape, Text
  <2>5. \A m \in 1..n : form[m] \in Text /\ delivered[m] \in Text
    <3>1. \A m \in 1..n : m \in 1..Len(form) /\ m \in 1..Len(delivered)
      BY <2>1, <2>3
    <3> QED
      BY <2>4, <3>1
  <2>6. ASSUME NEW m \in 1..n, m < n \/ pc # "part"
        PROVE  IsPrefix(delivered[m], form[m])
    <3>1. delivered[m] = form[m] /\ form[m] \in Text
      BY <2>3, <2>5, <2>6
    <3> QED
      BY <3>1 DEF IsPrefix, Text
  <2>7. ASSUME NEW m \in 1..n, m = n, pc = "part"
        PROVE  IsPrefix(delivered[m], form[m])
    <3> DEFINE a == starts[n]
               z == starts[n] + Len(form[n])
               d == Len(delivered[n])
    <3>1. a = Sent(n - 1) + 7 /\ pos <= z
      BY <2>2, <2>7 DEF At, InPreamble, AtHeader, BehindHeader, InPart, BehindPart,
                        BehindLastPart, AtEnd, IsDone
    <3>2. PartBytes(n, a, z)
      BY <2>1, <2>3, <2>7, <3>1, PartBytesLie
    <3>3. /\ a \in Nat /\ d \in Nat /\ delivered[n] = SubSeq(body, a + 1, a + d)
          /\ a + d <= pos
      BY <2>3, <2>7, ReadingPart DEF got
    <3>4. /\ form[n] \in Text /\ Len(form[n]) = z - a /\ z \in Nat /\ z <= Len(body)
          /\ \A j \in 1..(z - a) : body[a + j] = form[n][j]
      <4> HIDE DEF a, z
      <4>1. D \in Nat /\ z \in Nat /\ z + D <= Len(body)
        BY <3>2 DEF PartBytes
      <4> QED
        BY <2>1, <3>2, <4>1 DEF PartBytes
    <3>5. delivered[n] = SubSeq(form[n], 0 + 1, d) /\ d <= Len(form[n])
      <4>1. pos \in Int
        BY DEF Shape
      <4> DEFINE t == delivered[n]
                 f == form[n]
      <4>2. t \in Text /\ f \in Text
        BY <2>5, <2>7
      <4>3. d = Len(t) /\ d \in Nat
        BY <3>3
      <4>4. /\ a \in Nat /\ z \in Nat /\ a + d <= pos /\ pos <= z /\ Len(f) = z - a
            /\ t = SubSeq(body, a + 1, a + d) /\ z <= Len(body)
            /\ \A j \in 1..(z - a) : body[a + j] = f[j]
        BY <3>1, <3>3, <3>4
      <4> HIDE DEF t, f, a, z, d
      <4>5. d \in 0..Len(f) /\ d <= z - a /\ a + d <= Len(body) /\ a + d \in Int
        BY <2>1, <4>1, <4>3, <4>4
      <4>6. \A j \in 1..((a + d) - a) : t[j] = body[a + j]
        BY <2>1, <4>4, <4>5, PieceIs
      <4>7. \A j \in 1..(d - 0) : t[j] = f[0 + j]
        BY <4>3, <4>4, <4>5, <4>6
      <4>8. Len(t) = d - 0
        BY <4>3
      <4>9. t = SubSeq(f, 0 + 1, d)
        BY <4>2, <4>5, <4>7, <4>8, IsPiece
      <4>10. d <= Len(f)
        BY <4>4, <4>5
      <4> QED
        BY <4>9, <4>10 DEF t, f
    <3> QED
      BY <2>7, <3>5 DEF IsPrefix
  <2>8. \A k \in 1..Len(delivered) : IsPrefix(delivered[k], form[k])
    <3> TAKE k \in 1..Len(delivered)
    <3>1. k < n \/ k = n
      BY <2>3
    <3> QED
      BY <2>3, <2>6, <2>7, <3>1
  <2>9. ASSUME pc \in Ended
        PROVE  pc = "done" /\ delivered = form
    <3>1. IsDone(n)
      BY <2>2, <2>9 DEF At, InPreamble, AtHeader, BehindHeader, InPart, BehindPart,
                        BehindLastPart, AtEnd, IsDone, Ended
    <3>2. pc = "done" /\ n = Len(form)
      BY <3>1 DEF IsDone
    <3>3. Len(delivered) = Len(form) /\ \A m \in 1..Len(delivered) : delivered[m] = form[m]
      BY <2>3, <3>2
    <3>4. delivered = form
      BY <2>4, <3>3, SeqEqual
    <3> QED
      BY <3>2, <3>4
  <2> QED
    BY <2>1, <2>8, <2>9
<1> QED
  BY <1>1, IInvHolds, PTL
=============================================================================
