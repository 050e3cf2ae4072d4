----------------------------- MODULE LinesProofs -----------------------------
(***************************************************************************)
(* What linePrinterStream's loop makes of any text.  A property of every   *)
(* sequence is proved by induction over sequences, which is stated for a   *)
(* set of sequences and follows from there being no descending sequence of *)
(* natural numbers.                                                        *)
(***************************************************************************)
EXTENDS Lines, WellFoundedInduction, SequenceTheorems, TLAPS

(* A set of numbers that is not empty has a least element. *)
LEMMA LeastNumber ==
  ASSUME NEW T \in SUBSET Nat, T # {}
  PROVE  \E x \in T : \A y \in T : x <= y
  <1> DEFINE R == {ss \in Nat \X Nat : ss[1] < ss[2]}
  <1>1. IsWellFoundedOn(R, Nat)
    BY NatLessThanWellFounded, Zenon DEF OpToRel
  <1>2. \A x, y \in Nat : <<y, x>> \in R <=> y < x
    OBVIOUS
  <1> HIDE DEF R
  <1>3. PICK x \in T : \A y \in T : ~ (<<y, x>> \in R)
    BY <1>1, WFMin, Zenon
  <1>4. ASSUME NEW y \in T
        PROVE  x <= y
    <2>1. ~ (<<y, x>> \in R) /\ x \in Nat /\ y \in Nat
      BY <1>3
    <2>2. ~ (y < x)
      BY <1>2, <2>1
    <2> QED BY <2>1, <2>2
  <1> QED BY <1>4

(* A set with 0 and the successor of each of its numbers has them all. *)
LEMMA Induction ==
  ASSUME NEW S, 0 \in S, \A n \in Nat : n \in S => n + 1 \in S
  PROVE  Nat \subseteq S
  <1>1. SUFFICES ASSUME Nat \ S # {}
                 PROVE  FALSE
    OBVIOUS
  <1>2. PICK x \in Nat \ S : \A y \in Nat \ S : x <= y
    BY <1>1, LeastNumber
  <1>3. x # 0 /\ x - 1 \in Nat
    BY <1>2
  <1>4. x - 1 \in S
    BY <1>2, <1>3
  <1>5. (x - 1) + 1 \in S
    BY <1>3, <1>4
  <1> QED BY <1>2, <1>5

(* A sequence that is not empty is one with an element appended. *)
LEMMA LastOff ==
  ASSUME NEW B, NEW s \in Seq(B), NEW n \in Nat, Len(s) = n + 1
  PROVE  \E t \in Seq(B), x \in B : s = Append(t, x) /\ Len(t) = n
  <1> DEFINE t == [i \in 1..n |-> s[i]]
  <1>1. s[n + 1] \in B /\ \A i \in 1..n : s[i] \in B
    BY ElementOfSeq
  <1>2. t \in Seq(B) /\ Len(t) = n
    BY <1>1
  <1>3. Append(t, s[n + 1]) \in Seq(B) /\ Len(Append(t, s[n + 1])) = n + 1
    BY <1>1, <1>2
  <1>4. \A i \in 1..n + 1 : Append(t, s[n + 1])[i] = s[i]
    BY <1>1, <1>2
  <1>5. s = Append(t, s[n + 1])
    BY <1>3, <1>4, SeqEqual
  <1> QED BY <1>1, <1>2, <1>5

(* Induction over sequences: a set with the empty one and each of its own *)
(* with an element appended has them all.                                 *)
LEMMA SeqInduction ==
  ASSUME NEW B, NEW S, <<>> \in S,
         \A s \in Seq(B) : s \in S => \A x \in B : Append(s, x) \in S
  PROVE  Seq(B) \subseteq S
  <1> DEFINE T == {n \in Nat : \A s \in Seq(B) : Len(s) = n => s \in S}
  <1>1. 0 \in T
    <2>1. ASSUME NEW s \in Seq(B), Len(s) = 0
          PROVE  s \in S
      <3>1. s = <<>>
        BY <2>1, EmptySeq
      <3> QED BY <3>1
    <2> QED BY <2>1
  <1>2. ASSUME NEW n \in Nat, n \in T
        PROVE  n + 1 \in T
    <2>1. ASSUME NEW s \in Seq(B), Len(s) = n + 1
          PROVE  s \in S
      <3>1. PICK t \in Seq(B) : \E x \in B : s = Append(t, x) /\ Len(t) = n
        BY <2>1, LastOff
      <3>2. PICK x \in B : s = Append(t, x) /\ Len(t) = n
        BY <3>1
      <3>3. t \in S
        BY <1>2, <3>2
      <3> QED BY <3>2, <3>3
    <2> QED BY <2>1
  <1> HIDE DEF T
  <1>3. Nat \subseteq T
    BY <1>1, <1>2, Induction
  <1>4. ASSUME NEW s \in Seq(B)
        PROVE  s \in S
    <2>1. Len(s) \in T
      BY <1>3
    <2> QED BY <2>1 DEF T
  <1> QED BY <1>4
-----------------------------------------------------------------------------
(* Split, byte by byte *)

(* u holds, for each length, Split of the text's first bytes. *)
IsSplitRun(u, b) ==
  u = [n \in 0..Len(b) |-> IF n = 0 THEN NoText ELSE Feed(u[n - 1], b[n])]

(* A run on a text goes on to one on the text with a byte more. *)
LEMMA SplitRunGrows ==
  ASSUME NEW B, NEW b \in Seq(B), NEW x \in B, NEW u, IsSplitRun(u, b)
  PROVE  \E v : IsSplitRun(v, Append(b, x))
  <1> DEFINE n == Len(b)
             v == [k \in 0..(n + 1) |-> IF k <= n THEN u[k] ELSE Feed(u[n], x)]
  <1>1. /\ n \in Nat /\ Len(Append(b, x)) = n + 1 /\ Append(b, x)[n + 1] = x
        /\ \A k \in 1..n : Append(b, x)[k] = b[k]
    BY AppendProperties
  <1>2. u[0] = NoText /\ \A k \in 1..n : u[k] = Feed(u[k - 1], b[k])
    <2>1. \A k \in 0..n : u[k] = IF k = 0 THEN NoText ELSE Feed(u[k - 1], b[k])
      BY DEF IsSplitRun
    <2> QED BY <1>1, <2>1
  <1>3. ASSUME NEW k \in 0..(n + 1)
        PROVE  v[k] = IF k = 0 THEN NoText ELSE Feed(v[k - 1], Append(b, x)[k])
    <2>1. CASE k = 0
      BY <1>1, <1>2, <2>1
    <2>2. CASE k \in 1..n
      <3>1. v[k] = u[k] /\ v[k - 1] = u[k - 1] /\ k # 0
        BY <1>1, <2>2
      <3> QED BY <1>1, <1>2, <2>2, <3>1
    <2>3. CASE k = n + 1
      <3>1. v[k] = Feed(u[n], x) /\ v[k - 1] = u[n] /\ k # 0
        BY <1>1, <2>3
      <3> QED BY <1>1, <2>3, <3>1
    <2> QED BY <1>1, <2>1, <2>2, <2>3
  <1>4. v = [k \in 0..(n + 1) |-> IF k = 0 THEN NoText ELSE Feed(v[k - 1], Append(b, x)[k])]
    BY <1>3
  <1> HIDE DEF v
  <1>5. IsSplitRun(v, Append(b, x))
    BY <1>1, <1>4 DEF IsSplitRun
  <1> QED BY <1>5

(* Every text has a run, and Split is where it ends. *)
LEMMA SplitRun ==
  ASSUME NEW B, NEW b \in Seq(B)
  PROVE  \E u : IsSplitRun(u, b) /\ Split(b) = u[Len(b)]
  <1> DEFINE S == {s \in Seq(B) : \E u : IsSplitRun(u, s)}
  <1>1. <<>> \in S
    <2> DEFINE u == [n \in {0} |-> NoText]
    <2>1. <<>> \in Seq(B) /\ Len(<<>>) = 0 /\ 0..0 = {0}
      BY EmptySeq
    <2>2. IsSplitRun(u, <<>>)
      BY <2>1 DEF IsSplitRun
    <2> QED BY <2>1, <2>2
  <1>2. ASSUME NEW s \in Seq(B), s \in S, NEW x \in B
        PROVE  Append(s, x) \in S
    <2>1. PICK u : IsSplitRun(u, s)
      BY <1>2
    <2>2. \E v : IsSplitRun(v, Append(s, x))
      BY <2>1, SplitRunGrows
    <2> QED BY <2>2, AppendProperties
  <1> HIDE DEF S
  <1>3. Seq(B) \subseteq S
    BY <1>1, <1>2, SeqInduction
  <1>4. \E u : IsSplitRun(u, b)
    BY <1>3 DEF S
  <1> DEFINE U == CHOOSE u : IsSplitRun(u, b)
  <1>5. IsSplitRun(U, b)
    BY <1>4
  <1>6. Split(b) = U[Len(b)]
    BY DEF Split, IsSplitRun
  <1> QED BY <1>5, <1>6

(* Two runs agree as far as their texts do. *)
LEMMA SplitRunsAgree ==
  ASSUME NEW b, NEW c, NEW u, NEW v, NEW n \in Nat,
         IsSplitRun(u, b), IsSplitRun(v, c), Len(b) \in Nat, Len(c) \in Nat,
         n <= Len(b), n <= Len(c), \A k \in 1..n : b[k] = c[k]
  PROVE  u[n] = v[n]
  <1> DEFINE S == {k \in Nat : k <= n => u[k] = v[k]}
  <1>1. /\ \A k \in 0..Len(b) : u[k] = IF k = 0 THEN NoText ELSE Feed(u[k - 1], b[k])
        /\ \A k \in 0..Len(c) : v[k] = IF k = 0 THEN NoText ELSE Feed(v[k - 1], c[k])
    BY DEF IsSplitRun
  <1>2. 0 \in S
    BY <1>1
  <1>3. ASSUME NEW k \in Nat, k \in S
        PROVE  k + 1 \in S
    <2>1. CASE k + 1 <= n
      <3>1. u[k + 1] = Feed(u[k], b[k + 1]) /\ v[k + 1] = Feed(v[k], c[k + 1])
        BY <1>1, <2>1
      <3>2. u[k] = v[k] /\ b[k + 1] = c[k + 1]
        BY <1>3, <2>1
      <3> QED BY <3>1, <3>2
    <2>2. CASE ~ (k + 1 <= n)
      BY <2>2
    <2> QED BY <2>1, <2>2
  <1> HIDE DEF S
  <1>4. n \in S
    BY <1>2, <1>3, Induction
  <1> QED BY <1>4 DEF S

(* The two equations by which Split is used from here on. *)
LEMMA SplitEmpty == Split(<<>>) = NoText
  <1>1. <<>> \in Seq({}) /\ Len(<<>>) = 0
    BY EmptySeq
  <1>2. PICK u : IsSplitRun(u, <<>>) /\ Split(<<>>) = u[Len(<<>>)]
    BY <1>1, SplitRun
  <1>3. u[0] = NoText
    BY <1>1, <1>2 DEF IsSplitRun
  <1> QED BY <1>1, <1>2, <1>3

LEMMA SplitAppend ==
  ASSUME NEW B, NEW b \in Seq(B), NEW x \in B
  PROVE  Split(Append(b, x)) = Feed(Split(b), x)
  <1> DEFINE c == Append(b, x)
  <1>1. /\ c \in Seq(B) /\ Len(b) \in Nat /\ Len(c) = Len(b) + 1 /\ c[Len(b) + 1] = x
        /\ \A k \in 1..Len(b) : c[k] = b[k]
    BY AppendProperties
  <1> HIDE DEF c
  <1>2. PICK u : IsSplitRun(u, b) /\ Split(b) = u[Len(b)]
    BY SplitRun
  <1>3. PICK v : IsSplitRun(v, c) /\ Split(c) = v[Len(c)]
    BY <1>1, SplitRun
  <1>4. u[Len(b)] = v[Len(b)]
    BY <1>1, <1>2, <1>3, SplitRunsAgree
  <1>5. v[Len(b) + 1] = Feed(v[Len(b)], x)
    <2>1. \A k \in 0..Len(c) : v[k] = IF k = 0 THEN NoText ELSE Feed(v[k - 1], c[k])
      BY <1>3 DEF IsSplitRun
    <2>2. Len(b) + 1 \in 0..Len(c) /\ Len(b) + 1 # 0 /\ (Len(b) + 1) - 1 = Len(b)
      BY <1>1
    <2> QED BY <1>1, <2>1, <2>2
  <1>6. Split(c) = Feed(Split(b), x)
    BY <1>1, <1>2, <1>3, <1>4, <1>5
  <1> QED BY <1>6 DEF c
-----------------------------------------------------------------------------
(* What Split makes of a text *)

(* What a byte adds, field by field. *)
LEMMA FeedNewline ==
  ASSUME NEW t
  PROVE  Feed(t, NL).lines = Append(t.lines, t.rest) /\ Feed(t, NL).rest = <<>>
  BY DEF Feed

LEMMA FeedOther ==
  ASSUME NEW t, NEW x, x # NL
  PROVE  Feed(t, x).lines = t.lines /\ Feed(t, x).rest = Append(t.rest, x)
  BY DEF Feed

(* Its lines are made of the text's bytes other than the newline. *)
LEMMA SplitType ==
  ASSUME NEW B, NEW b \in Seq(B)
  PROVE  Split(b) \in [lines : Seq(Seq(B \ {NL})), rest : Seq(B \ {NL})]
  <1> DEFINE C == B \ {NL}
             S == {s \in Seq(B) : Split(s) \in [lines : Seq(Seq(C)), rest : Seq(C)]}
  <1>1. <<>> \in S
    <2>1. <<>> \in Seq(B) /\ <<>> \in Seq(C) /\ <<>> \in Seq(Seq(C))
      BY EmptySeq
    <2>2. Split(<<>>) = [lines |-> <<>>, rest |-> <<>>]
      BY SplitEmpty DEF NoText
    <2>3. [lines |-> <<>>, rest |-> <<>>] \in [lines : Seq(Seq(C)), rest : Seq(C)]
      BY <2>1
    <2> QED BY <2>1, <2>2, <2>3
  <1>2. ASSUME NEW s \in Seq(B), s \in S, NEW x \in B
        PROVE  Append(s, x) \in S
    <2>1. Split(s).lines \in Seq(Seq(C)) /\ Split(s).rest \in Seq(C)
      BY <1>2
    <2>2. Feed(Split(s), x) \in [lines : Seq(Seq(C)), rest : Seq(C)]
      <3>1. CASE x = NL
        <4>1. Append(Split(s).lines, Split(s).rest) \in Seq(Seq(C)) /\ <<>> \in Seq(C)
          BY <2>1, AppendProperties, EmptySeq
        <4> QED BY <3>1, <4>1 DEF Feed
      <3>2. CASE x # NL
        <4>1. x \in C
          BY <3>2
        <4>2. Append(Split(s).rest, x) \in Seq(C)
          BY <2>1, <4>1, AppendProperties
        <4> QED BY <2>1, <3>2, <4>2 DEF Feed
      <3> QED BY <3>1, <3>2
    <2>3. Append(s, x) \in Seq(B)
      BY AppendProperties
    <2> QED BY <2>2, <2>3, SplitAppend
  <1> HIDE DEF S
  <1>3. b \in S
    BY <1>1, <1>2, SeqInduction
  <1> QED BY <1>3 DEF S

(* To append to what was concatenated is to append before. *)
LEMMA ConcatAppend ==
  ASSUME NEW B, NEW a \in Seq(B), NEW s \in Seq(B), NEW x \in B
  PROVE  a \o Append(s, x) = Append(a \o s, x)
  <1> DEFINE l == a \o Append(s, x)
             r == Append(a \o s, x)
  <1>1. Append(s, x) \in Seq(B) /\ a \o s \in Seq(B)
    BY AppendProperties, ConcatProperties
  <1>2. l \in Seq(B) /\ r \in Seq(B) /\ Len(l) = Len(r)
    BY <1>1, AppendProperties, ConcatProperties
  <1>3. /\ Len(a) \in Nat /\ Len(s) \in Nat /\ Len(l) = Len(a) + Len(s) + 1
        /\ Len(a \o s) = Len(a) + Len(s)
    BY <1>1, AppendProperties, ConcatProperties
  <1>4. ASSUME NEW i \in 1..Len(l)
        PROVE  l[i] = r[i]
    <2>1. l[i] = IF i <= Len(a) THEN a[i] ELSE Append(s, x)[i - Len(a)]
      <3> DEFINE t == Append(s, x)
      <3>1. t \in Seq(B) /\ Len(t) = Len(s) + 1 /\ i \in 1..(Len(a) + Len(t))
        BY <1>1, <1>3, AppendProperties
      <3> HIDE DEF t
      <3>2. (a \o t)[i] = IF i <= Len(a) THEN a[i] ELSE t[i - Len(a)]
        BY <3>1, ConcatProperties
      <3> QED BY <3>2 DEF t
    <2>2. CASE i = Len(a) + Len(s) + 1
      <3>1. r[i] = x /\ i - Len(a) = Len(s) + 1 /\ ~ (i <= Len(a))
        BY <1>1, <1>3, <2>2, AppendProperties
      <3>2. Append(s, x)[Len(s) + 1] = x
        BY AppendProperties
      <3> QED BY <2>1, <3>1, <3>2
    <2>3. CASE i \in 1..(Len(a) + Len(s))
      <3>1. r[i] = (a \o s)[i]
        BY <1>1, <1>3, <2>3, AppendProperties
      <3>2. (a \o s)[i] = IF i <= Len(a) THEN a[i] ELSE s[i - Len(a)]
        BY <2>3, ConcatProperties
      <3>3. ~ (i <= Len(a)) => Append(s, x)[i - Len(a)] = s[i - Len(a)]
        BY <1>3, <2>3, AppendProperties
      <3> QED BY <2>1, <3>1, <3>2, <3>3
    <2> QED BY <1>3, <2>2, <2>3
  <1> HIDE DEF l, r
  <1>5. l = r
    BY <1>2, <1>4, SeqEqual
  <1> QED BY <1>5 DEF l, r

(* After a text that ends where a line ends, the lines of what follows are *)
(* those it has by itself.                                                 *)
LEMMA SplitConcat ==
  ASSUME NEW B, NEW a \in Seq(B), Split(a).rest = <<>>, NEW b \in Seq(B)
  PROVE  /\ Split(a \o b).lines = Split(a).lines \o Split(b).lines
         /\ Split(a \o b).rest = Split(b).rest
  <1> DEFINE C == B \ {NL}
             S == {s \in Seq(B) : /\ Split(a \o s).lines = Split(a).lines \o Split(s).lines
                                  /\ Split(a \o s).rest = Split(s).rest}
  <1>1. Split(a).lines \in Seq(Seq(C))
    BY SplitType
  <1>2. <<>> \in S
    <2>1. a \o <<>> = a /\ Split(a).lines \o <<>> = Split(a).lines /\ <<>> \in Seq(B)
      BY <1>1, ConcatEmptySeq, EmptySeq
    <2>2. Split(<<>>).lines = <<>> /\ Split(<<>>).rest = <<>>
      BY SplitEmpty DEF NoText
    <2> QED BY <2>1, <2>2
  <1>3. ASSUME NEW s \in Seq(B), s \in S, NEW x \in B
        PROVE  Append(s, x) \in S
    <2>1. /\ Split(a \o s).lines = Split(a).lines \o Split(s).lines
          /\ Split(a \o s).rest = Split(s).rest
      BY <1>3
    <2>2. Split(s).lines \in Seq(Seq(C)) /\ Split(s).rest \in Seq(C)
      BY SplitType
    <2>3. a \o s \in Seq(B) /\ a \o Append(s, x) = Append(a \o s, x)
      BY ConcatProperties, ConcatAppend
    <2>4. /\ Split(a \o Append(s, x)) = Feed(Split(a \o s), x)
          /\ Split(Append(s, x)) = Feed(Split(s), x)
      BY <2>3, SplitAppend
    <2>5. CASE x = NL
      <3>1. Append(Split(a \o s).lines, Split(s).rest)
              = Split(a).lines \o Append(Split(s).lines, Split(s).rest)
        <4> DEFINE D == Seq(C)
                   p == Split(a).lines
                   q == Split(s).lines
                   r == Split(s).rest
        <4>1. p \in Seq(D) /\ q \in Seq(D) /\ r \in D
          BY <1>1, <2>2
        <4>2. Split(a \o s).lines = p \o q
          BY <2>1
        <4> HIDE DEF D, p, q, r
        <4>3. p \o Append(q, r) = Append(p \o q, r)
          BY <4>1, ConcatAppend
        <4> QED BY <4>2, <4>3 DEF p, q, r
      <3>2. /\ Split(a \o Append(s, x)).lines = Append(Split(a \o s).lines, Split(s).rest)
            /\ Split(Append(s, x)).lines = Append(Split(s).lines, Split(s).rest)
            /\ Split(a \o Append(s, x)).rest = Split(Append(s, x)).rest
        BY <2>1, <2>4, <2>5, FeedNewline
      <3>3. Append(s, x) \in Seq(B)
        BY AppendProperties
      <3> QED BY <3>1, <3>2, <3>3
    <2>6. CASE x # NL
      <3>1. /\ Split(a \o Append(s, x)).lines = Split(a \o s).lines
            /\ Split(Append(s, x)).lines = Split(s).lines
            /\ Split(a \o Append(s, x)).rest = Split(Append(s, x)).rest
        BY <2>1, <2>4, <2>6, FeedOther
      <3>2. Append(s, x) \in Seq(B)
        BY AppendProperties
      <3> QED BY <2>1, <3>1, <3>2
    <2> QED BY <2>5, <2>6
  <1> HIDE DEF S
  <1>4. b \in S
    BY <1>2, <1>3, SeqInduction
  <1> QED BY <1>4 DEF S
-----------------------------------------------------------------------------
(* Consumed, line by line *)

(* u holds, for each number of lines, what the loop has counted. *)
IsCountRun(u, l) ==
  u = [n \in 0..Len(l) |-> IF n = 0 THEN 0 ELSE u[n - 1] + Len(l[n]) + 1]

(* A run on some lines goes on to one with a line more. *)
LEMMA CountRunGrows ==
  ASSUME NEW B, NEW l \in Seq(B), NEW x \in B, NEW u, IsCountRun(u, l)
  PROVE  \E v : IsCountRun(v, Append(l, x))
  <1> DEFINE n == Len(l)
             v == [k \in 0..(n + 1) |-> IF k <= n THEN u[k] ELSE u[n] + Len(x) + 1]
  <1>1. /\ n \in Nat /\ Len(Append(l, x)) = n + 1 /\ Append(l, x)[n + 1] = x
        /\ \A k \in 1..n : Append(l, x)[k] = l[k]
    BY AppendProperties
  <1>2. u[0] = 0 /\ \A k \in 1..n : u[k] = u[k - 1] + Len(l[k]) + 1
    <2>1. \A k \in 0..n : u[k] = IF k = 0 THEN 0 ELSE u[k - 1] + Len(l[k]) + 1
      BY DEF IsCountRun
    <2> QED BY <1>1, <2>1
  <1>3. ASSUME NEW k \in 0..(n + 1)
        PROVE  v[k] = IF k = 0 THEN 0 ELSE v[k - 1] + Len(Append(l, x)[k]) + 1
    <2>1. CASE k = 0
      BY <1>1, <1>2, <2>1
    <2>2. CASE k \in 1..n
      <3>1. v[k] = u[k] /\ v[k - 1] = u[k - 1] /\ k # 0
        BY <1>1, <2>2
      <3> QED BY <1>1, <1>2, <2>2, <3>1
    <2>3. CASE k = n + 1
      <3>1. v[k] = u[n] + Len(x) + 1 /\ v[k - 1] = u[n] /\ k # 0
        BY <1>1, <2>3
      <3> QED BY <1>1, <2>3, <3>1
    <2> QED BY <1>1, <2>1, <2>2, <2>3
  <1>4. v = [k \in 0..(n + 1) |-> IF k = 0 THEN 0 ELSE v[k - 1] + Len(Append(l, x)[k]) + 1]
    BY <1>3
  <1> HIDE DEF v
  <1>5. IsCountRun(v, Append(l, x))
    BY <1>1, <1>4 DEF IsCountRun
  <1> QED BY <1>5

(* Any lines have a run, and Consumed is where it ends. *)
LEMMA CountRun ==
  ASSUME NEW B, NEW l \in Seq(B)
  PROVE  \E u : IsCountRun(u, l) /\ Consumed(l) = u[Len(l)]
  <1> DEFINE S == {s \in Seq(B) : \E u : IsCountRun(u, s)}
  <1>1. <<>> \in S
    <2> DEFINE u == [n \in {0} |-> 0]
    <2>1. <<>> \in Seq(B) /\ Len(<<>>) = 0 /\ 0..0 = {0}
      BY EmptySeq
    <2>2. IsCountRun(u, <<>>)
      BY <2>1 DEF IsCountRun
    <2> QED BY <2>1, <2>2
  <1>2. ASSUME NEW s \in Seq(B), s \in S, NEW x \in B
        PROVE  Append(s, x) \in S
    <2>1. PICK u : IsCountRun(u, s)
      BY <1>2
    <2>2. \E v : IsCountRun(v, Append(s, x))
      BY <2>1, CountRunGrows
    <2> QED BY <2>2, AppendProperties
  <1> HIDE DEF S
  <1>3. Seq(B) \subseteq S
    BY <1>1, <1>2, SeqInduction
  <1>4. \E u : IsCountRun(u, l)
    BY <1>3 DEF S
  <1> DEFINE U == CHOOSE u : IsCountRun(u, l)
  <1>5. IsCountRun(U, l)
    BY <1>4
  <1>6. Consumed(l) = U[Len(l)]
    BY DEF Consumed, IsCountRun
  <1> QED BY <1>5, <1>6

(* The two equations by which Consumed is used from here on. *)
LEMMA ConsumedEmpty == Consumed(<<>>) = 0
  <1>1. <<>> \in Seq({}) /\ Len(<<>>) = 0
    BY EmptySeq
  <1>2. PICK u : IsCountRun(u, <<>>) /\ Consumed(<<>>) = u[Len(<<>>)]
    BY <1>1, CountRun
  <1>3. u[0] = 0
    BY <1>1, <1>2 DEF IsCountRun
  <1> QED BY <1>1, <1>2, <1>3

LEMMA ConsumedAppend ==
  ASSUME NEW B, NEW l \in Seq(B), NEW x \in B
  PROVE  Consumed(Append(l, x)) = Consumed(l) + Len(x) + 1
  <1> DEFINE c == Append(l, x)
  <1>1. /\ c \in Seq(B) /\ Len(l) \in Nat /\ Len(c) = Len(l) + 1 /\ c[Len(l) + 1] = x
        /\ \A k \in 1..Len(l) : c[k] = l[k]
    BY AppendProperties
  <1> HIDE DEF c
  <1>2. PICK u : IsCountRun(u, l) /\ Consumed(l) = u[Len(l)]
    BY CountRun
  <1>3. PICK v : IsCountRun(v, c) /\ Consumed(c) = v[Len(c)]
    BY <1>1, CountRun
  <1>4. /\ \A k \in 0..Len(l) : u[k] = IF k = 0 THEN 0 ELSE u[k - 1] + Len(l[k]) + 1
        /\ \A k \in 0..Len(c) : v[k] = IF k = 0 THEN 0 ELSE v[k - 1] + Len(c[k]) + 1
    BY <1>2, <1>3 DEF IsCountRun
  <1> DEFINE S == {k \in Nat : k <= Len(l) => u[k] = v[k]}
  <1>5. 0 \in S
    BY <1>1, <1>4
  <1>6. ASSUME NEW k \in Nat, k \in S
        PROVE  k + 1 \in S
    <2>1. CASE k + 1 <= Len(l)
      <3>1. u[k + 1] = u[k] + Len(l[k + 1]) + 1 /\ v[k + 1] = v[k] + Len(c[k + 1]) + 1
        BY <1>1, <1>4, <2>1
      <3>2. u[k] = v[k] /\ l[k + 1] = c[k + 1]
        BY <1>1, <1>6, <2>1
      <3> QED BY <3>1, <3>2
    <2>2. CASE ~ (k + 1 <= Len(l))
      BY <2>2
    <2> QED BY <2>1, <2>2
  <1> HIDE DEF S
  <1>7. Len(l) \in S
    BY <1>1, <1>5, <1>6, Induction
  <1>8. u[Len(l)] = v[Len(l)]
    BY <1>7 DEF S
  <1>9. v[Len(l) + 1] = v[Len(l)] + Len(x) + 1
    <2>1. Len(l) + 1 \in 0..Len(c) /\ Len(l) + 1 # 0 /\ (Len(l) + 1) - 1 = Len(l)
      BY <1>1
    <2> QED BY <1>1, <1>4, <2>1
  <1>10. Consumed(c) = Consumed(l) + Len(x) + 1
    BY <1>1, <1>2, <1>3, <1>8, <1>9
  <1> QED BY <1>10 DEF c
-----------------------------------------------------------------------------
(* What the loop of Write makes of a text without a carriage return *)

(* The lines of a text, each with its newline, and what follows the last   *)
(* of them are the text: nothing is counted twice or left out.             *)
LEMMA EveryByteCounted ==
  ASSUME NEW B, NEW b \in Seq(B)
  PROVE  Consumed(Split(b).lines) \in Nat /\ Consumed(Split(b).lines) + Len(Split(b).rest) = Len(b)
  <1> DEFINE D == Seq(B \ {NL})
             S == {s \in Seq(B) : /\ Consumed(Split(s).lines) \in Nat
                                  /\ Consumed(Split(s).lines) + Len(Split(s).rest) = Len(s)}
  <1>1. <<>> \in S
    <2>1. Split(<<>>).lines = <<>> /\ Split(<<>>).rest = <<>>
      BY SplitEmpty DEF NoText
    <2>2. <<>> \in Seq(B) /\ Len(<<>>) = 0
      BY EmptySeq
    <2> QED BY <2>1, <2>2, ConsumedEmpty
  <1>2. ASSUME NEW s \in Seq(B), s \in S, NEW x \in B
        PROVE  Append(s, x) \in S
    <2> DEFINE t == Split(s)
    <2>1. t.lines \in Seq(D) /\ t.rest \in D /\ Len(t.rest) \in Nat /\ Len(s) \in Nat
      <3>1. t \in [lines : Seq(D), rest : D]
        BY SplitType
      <3> HIDE DEF t
      <3>2. t.lines \in Seq(D) /\ t.rest \in D
        <4> HIDE DEF D
        <4> QED BY <3>1
      <3> QED BY <3>2, LenProperties
    <2>2. Consumed(t.lines) \in Nat /\ Consumed(t.lines) + Len(t.rest) = Len(s)
      BY <1>2
    <2>3. /\ Split(Append(s, x)) = Feed(t, x)
          /\ Append(s, x) \in Seq(B) /\ Len(Append(s, x)) = Len(s) + 1
      BY SplitAppend, AppendProperties
    <2> HIDE DEF t, S
    <2>4. CASE x = NL
      <3>1. Feed(t, x).lines = Append(t.lines, t.rest) /\ Feed(t, x).rest = <<>>
        BY <2>4, FeedNewline
      <3>2. Consumed(Append(t.lines, t.rest)) = Consumed(t.lines) + Len(t.rest) + 1
        <4> HIDE DEF D
        <4> QED BY <2>1, ConsumedAppend
      <3>3. /\ Consumed(Split(Append(s, x)).lines) = Len(s) + 1
            /\ Len(Split(Append(s, x)).rest) = 0
        <4>1. Split(Append(s, x)).lines = Append(t.lines, t.rest) /\ Split(Append(s, x)).rest = <<>>
          BY <2>3, <2>4, <3>1
        <4>2. Consumed(Split(Append(s, x)).lines) = Consumed(t.lines) + Len(t.rest) + 1
          BY <3>2, <4>1
        <4>3. Len(<<>>) = 0
          BY EmptySeq
        <4> QED BY <2>1, <2>2, <4>1, <4>2, <4>3
      <3> QED BY <2>1, <2>3, <3>3 DEF S
    <2>5. CASE x # NL
      <3>1. Feed(t, x).lines = t.lines /\ Feed(t, x).rest = Append(t.rest, x)
        BY <2>5, FeedOther
      <3>2. Len(Append(t.rest, x)) = Len(t.rest) + 1
        BY <2>1, <2>5, AppendProperties
      <3>3. /\ Consumed(Split(Append(s, x)).lines) = Consumed(t.lines)
            /\ Len(Split(Append(s, x)).rest) = Len(t.rest) + 1
        BY <2>3, <3>1, <3>2
      <3> QED BY <2>1, <2>2, <2>3, <3>3 DEF S
    <2> QED BY <2>4, <2>5
  <1> HIDE DEF S
  <1>3. b \in S
    BY <1>1, <1>2, SeqInduction
  <1> QED BY <1>3 DEF S

(* A line without one is kept as it is. *)
LEMMA KeepsPlainLine ==
  ASSUME NEW C, CR \notin C, NEW l \in Seq(C)
  PROVE  DropCR(l) = l
  <1>1. CASE l = <<>>
    BY <1>1 DEF DropCR
  <1>2. CASE l # <<>>
    <2>1. Len(l) \in 1..Len(l)
      BY <1>2, EmptySeq, LenProperties
    <2>2. l[Len(l)] \in C
      BY <2>1, ElementOfSeq
    <2> QED BY <2>2 DEF DropCR
  <1> QED BY <1>1, <1>2

(* The scanner's lines are the text's, and an unfinished last one. *)
LEMMA ScansPlainText ==
  ASSUME NEW B, CR \notin B, NEW b \in Seq(B)
  PROVE  Scan(b) = IF Split(b).rest = <<>> THEN Split(b).lines
                   ELSE Append(Split(b).lines, Split(b).rest)
  <1> DEFINE C == B \ {NL}
             all == IF Split(b).rest = <<>> THEN Split(b).lines
                    ELSE Append(Split(b).lines, Split(b).rest)
             kept == [i \in DOMAIN all |-> DropCR(all[i])]
  <1>1. all \in Seq(Seq(C))
    <2>1. Split(b).lines \in Seq(Seq(C)) /\ Split(b).rest \in Seq(C)
      BY SplitType
    <2> QED BY <2>1, AppendProperties
  <1>2. Scan(b) = kept
    BY DEF Scan
  <1>3. CR \notin C
    OBVIOUS
  <1> DEFINE D == Seq(C)
  <1>4. \A l \in D : DropCR(l) = l
    BY <1>3, KeepsPlainLine
  <1>5. all \in Seq(D)
    BY <1>1
  <1> HIDE DEF all, C, D
  <1>6. \A i \in DOMAIN all : all[i] \in D
    BY <1>5, LenProperties, ElementOfSeq
  <1>7. kept = [i \in DOMAIN all |-> all[i]]
    BY <1>4, <1>6
  <1>8. all = [i \in DOMAIN all |-> all[i]]
    BY <1>5, LenProperties
  <1> QED BY <1>2, <1>7, <1>8 DEF all

(* With no carriage return in what is buffered, the slice expression of    *)
(* container.go:52 is out of range exactly when the text does not end      *)
(* where a line ends; otherwise all of it was printed, line by line.       *)
THEOREM PlainTextWritten ==
  ASSUME NEW B, CR \notin B, NEW b \in Seq(B)
  PROVE  /\ Consumed(Scan(b)) > Len(b) <=> Split(b).rest # <<>>
         /\ Split(b).rest = <<>> => Scan(b) = Split(b).lines /\ Consumed(Scan(b)) = Len(b)
  <1> DEFINE D == Seq(B \ {NL})
             lines == Split(b).lines
             rest == Split(b).rest
  <1>1. lines \in Seq(D) /\ rest \in D /\ Len(rest) \in Nat /\ Len(b) \in Nat
    BY SplitType
  <1>2. Consumed(lines) \in Nat /\ Consumed(lines) + Len(rest) = Len(b)
    BY EveryByteCounted
  <1>3. Scan(b) = IF rest = <<>> THEN lines ELSE Append(lines, rest)
    BY ScansPlainText
  <1>4. CASE rest = <<>>
    <2>1. Len(rest) = 0
      BY <1>4
    <2> QED BY <1>1, <1>2, <1>3, <1>4, <2>1
  <1>5. CASE rest # <<>>
    <2> HIDE DEF D, lines, rest
    <2>1. Consumed(Append(lines, rest)) = Consumed(lines) + Len(rest) + 1
      BY <1>1, ConsumedAppend
    <2>2. Consumed(Scan(b)) = Len(b) + 1
      BY <1>1, <1>2, <1>3, <1>5, <2>1
    <2> QED BY <1>1, <1>5, <2>2 DEF rest
  <1> QED BY <1>4, <1>5

(* What Write makes of a chunk that comes where a line has ended, while no *)
(* carriage return was ever sent and it does not panic: its lines are      *)
(* printed and nothing is left over.                                       *)
LEMMA ChunkPrinted ==
  ASSUME NEW f \in Seq(Byte), NEW k \in Seq(Byte), Split(f).rest = <<>>,
         \A i \in DOMAIN (f \o k) : (f \o k)[i] # CR, ~ (Consumed(Scan(k)) > Len(k))
  PROVE  /\ Split(f \o k).lines = Split(f).lines \o Scan(k)
         /\ Split(f \o k).rest = <<>>
         /\ SubSeq(k, Consumed(Scan(k)) + 1, Len(k)) = <<>>
  <1> DEFINE B == Byte \ {CR}
  <1>1. /\ Len(f) \in Nat /\ Len(k) \in Nat /\ DOMAIN f = 1..Len(f) /\ DOMAIN k = 1..Len(k)
        /\ DOMAIN (f \o k) = 1..(Len(f) + Len(k))
        /\ \A i \in 1..(Len(f) + Len(k)) : (f \o k)[i] = IF i <= Len(f) THEN f[i] ELSE k[i - Len(f)]
    BY ConcatProperties, LenProperties
  <1>2. \A i \in 1..Len(f) : f[i] \in B
    <2>1. ASSUME NEW i \in 1..Len(f)
          PROVE  f[i] \in B
      <3>1. (f \o k)[i] = f[i] /\ (f \o k)[i] # CR
        BY <1>1
      <3>2. f[i] \in Byte
        BY ElementOfSeq
      <3> QED BY <3>1, <3>2
    <2> QED BY <2>1
  <1>3. \A i \in 1..Len(k) : k[i] \in B
    <2>1. ASSUME NEW i \in 1..Len(k)
          PROVE  k[i] \in B
      <3>1. Len(f) + i \in 1..(Len(f) + Len(k)) /\ ~ (Len(f) + i <= Len(f))
        BY <1>1
      <3>2. (f \o k)[Len(f) + i] = k[(Len(f) + i) - Len(f)] /\ (f \o k)[Len(f) + i] # CR
        BY <1>1, <3>1
      <3>3. k[i] # CR
        BY <1>1, <3>2
      <3>4. k[i] \in Byte
        BY ElementOfSeq
      <3> QED BY <3>3, <3>4
    <2> QED BY <2>1
  <1>4. CR \notin B
    OBVIOUS
  <1> HIDE DEF B
  <1>5. f \in Seq(B) /\ k \in Seq(B)
    <2>1. f = [i \in 1..Len(f) |-> f[i]] /\ k = [i \in 1..Len(k) |-> k[i]]
      BY <1>1, LenProperties
    <2>2. f \in [1..Len(f) -> B] /\ k \in [1..Len(k) -> B]
      BY <1>2, <1>3, <2>1
    <2> QED BY <1>1, <2>2, SeqDef
  <1>6. Split(k).rest = <<>> /\ Scan(k) = Split(k).lines /\ Consumed(Scan(k)) = Len(k)
    BY <1>4, <1>5, PlainTextWritten
  <1>7. /\ Split(f \o k).lines = Split(f).lines \o Split(k).lines
        /\ Split(f \o k).rest = Split(k).rest
    BY <1>5, SplitConcat
  <1>8. SubSeq(k, Len(k) + 1, Len(k)) = <<>>
    BY <1>1, SubSeqEmpty
  <1> QED BY <1>6, <1>7, <1>8
-----------------------------------------------------------------------------
(* With carriage returns *)

Dropped(l) == [i \in DOMAIN l |-> DropCR(l[i])]

(* A line that loses its carriage return is one shorter, and no other is. *)
LEMMA DropCRLen ==
  ASSUME NEW C, NEW l \in Seq(C)
  PROVE  /\ DropCR(l) \in Seq(C)
         /\ Len(DropCR(l)) = IF DropCR(l) = l THEN Len(l) ELSE Len(l) - 1
         /\ DropCR(l) = l <=> ~ (l # <<>> /\ l[Len(l)] = CR)
  <1>1. CASE l # <<>> /\ l[Len(l)] = CR
    <2>1. Len(l) \in Nat \ {0} /\ \A i \in 1..(Len(l) - 1) : l[i] \in C
      BY <1>1, EmptySeq, LenProperties, ElementOfSeq
    <2>2. /\ SubSeq(l, 1, Len(l) - 1) \in Seq(C)
          /\ Len(SubSeq(l, 1, Len(l) - 1)) = IF 1 <= Len(l) - 1 THEN (Len(l) - 1) - 1 + 1 ELSE 0
      BY <2>1, SubSeqProperties
    <2>3. Len(SubSeq(l, 1, Len(l) - 1)) = Len(l) - 1
      <3> DEFINE n == Len(l)
                 m == Len(SubSeq(l, 1, Len(l) - 1))
      <3>1. n \in Nat \ {0} /\ m = IF 1 <= n - 1 THEN (n - 1) - 1 + 1 ELSE 0
        BY <2>1, <2>2
      <3> HIDE DEF n, m
      <3>2. m = n - 1
        BY <3>1
      <3> QED BY <3>2 DEF n, m
    <2>4. DropCR(l) = SubSeq(l, 1, Len(l) - 1)
      BY <1>1 DEF DropCR
    <2>5. Len(DropCR(l)) = Len(l) - 1 /\ Len(l) - 1 # Len(l)
      BY <2>1, <2>3, <2>4
    <2>6. DropCR(l) # l
      BY <2>5
    <2> QED BY <1>1, <2>2, <2>4, <2>5, <2>6
  <1>2. CASE ~ (l # <<>> /\ l[Len(l)] = CR)
    <2>1. DropCR(l) = l
      BY <1>2 DEF DropCR
    <2> QED BY <1>2, <2>1
  <1> QED BY <1>1, <1>2

(* The loop counts what it scans, never more than what was there, and as   *)
(* much only if no carriage return was dropped.                            *)
LEMMA DroppedCounted ==
  ASSUME NEW C, NEW l \in Seq(Seq(C))
  PROVE  /\ Consumed(l) \in Nat /\ Consumed(Dropped(l)) \in Nat
         /\ Consumed(Dropped(l)) <= Consumed(l)
         /\ Consumed(Dropped(l)) = Consumed(l) <=> \A i \in DOMAIN l : DropCR(l[i]) = l[i]
  <1> DEFINE D == Seq(C)
             S == {m \in Seq(D) :
                     /\ Dropped(m) \in Seq(D)
                     /\ Consumed(m) \in Nat /\ Consumed(Dropped(m)) \in Nat
                     /\ Consumed(Dropped(m)) <= Consumed(m)
                     /\ (Consumed(Dropped(m)) = Consumed(m)
                          <=> \A i \in DOMAIN m : DropCR(m[i]) = m[i])}
  <1>1. <<>> \in S
    <2>1. <<>> \in Seq(D) /\ DOMAIN <<>> = {}
      BY EmptySeq, LenProperties
    <2>2. Dropped(<<>>) = <<>>
      <3> DEFINE f == [i \in {} |-> DropCR(<<>>[i])]
      <3>1. Dropped(<<>>) = f
        BY <2>1 DEF Dropped
      <3>2. DOMAIN f = {}
        OBVIOUS
      <3> HIDE DEF f
      <3>3. f \in [1..0 -> D]
        <4>1. 1..0 = {}
          OBVIOUS
        <4>2. f = [i \in {} |-> f[i]]
          BY <3>1, <3>2 DEF f
        <4> QED BY <4>1, <4>2
      <3>4. f \in Seq(D) /\ Len(f) = 0
        BY <3>3
      <3> QED BY <3>1, <3>4, EmptySeq
    <2>3. Consumed(<<>>) = 0
      BY ConsumedEmpty
    <2>4. \A i \in DOMAIN <<>> : DropCR(<<>>[i]) = <<>>[i]
      BY <2>1
    <2> DEFINE e == <<>>
    <2>5. /\ e \in Seq(D) /\ Dropped(e) = e /\ Consumed(e) = 0
          /\ \A i \in DOMAIN e : DropCR(e[i]) = e[i]
      BY <2>1, <2>2, <2>3, <2>4
    <2> HIDE DEF e
    <2>6. e \in S
      BY <2>5
    <2> QED BY <2>6 DEF e
  <1>2. ASSUME NEW m \in Seq(D), m \in S, NEW x \in D
        PROVE  Append(m, x) \in S
    <2> DEFINE n == Append(m, x)
    <2>1. /\ Dropped(m) \in Seq(D) /\ Consumed(m) \in Nat /\ Consumed(Dropped(m)) \in Nat
          /\ Consumed(Dropped(m)) <= Consumed(m)
          /\ (Consumed(Dropped(m)) = Consumed(m) <=> \A i \in DOMAIN m : DropCR(m[i]) = m[i])
      BY <1>2
    <2>2. /\ DropCR(x) \in D /\ Len(x) \in Nat /\ Len(DropCR(x)) \in Nat
          /\ Len(DropCR(x)) = IF DropCR(x) = x THEN Len(x) ELSE Len(x) - 1
      BY DropCRLen, LenProperties
    <2> HIDE DEF D, S
    <2>3. /\ n \in Seq(D) /\ Len(m) \in Nat /\ DOMAIN m = 1..Len(m)
          /\ DOMAIN n = 1..(Len(m) + 1) /\ n[Len(m) + 1] = x
          /\ \A i \in 1..Len(m) : n[i] = m[i]
      BY AppendProperties, LenProperties
    <2>4. Dropped(n) = Append(Dropped(m), DropCR(x))
      <3> DEFINE u == Dropped(m)
                 w == Append(u, DropCR(x))
      <3>1. u \in Seq(D) /\ DOMAIN u = 1..Len(m) /\ \A i \in 1..Len(m) : u[i] = DropCR(m[i])
        BY <2>1, <2>3 DEF Dropped
      <3>2. Len(u) = Len(m)
        BY <2>3, <3>1, LenProperties
      <3> HIDE DEF u
      <3>3. /\ w \in Seq(D) /\ DOMAIN w = 1..(Len(m) + 1) /\ w[Len(m) + 1] = DropCR(x)
            /\ \A i \in 1..Len(m) : w[i] = u[i]
        BY <2>2, <3>1, <3>2, AppendProperties, LenProperties
      <3> HIDE DEF w, n
      <3>4. \A i \in 1..(Len(m) + 1) : DropCR(n[i]) = w[i]
        BY <2>3, <3>1, <3>3
      <3>5. w = [i \in 1..(Len(m) + 1) |-> w[i]]
        BY <3>3, LenProperties
      <3>6. Dropped(n) = [i \in 1..(Len(m) + 1) |-> DropCR(n[i])]
        BY <2>3 DEF Dropped
      <3>7. Dropped(n) = w
        BY <3>4, <3>5, <3>6
      <3> QED BY <3>7 DEF w, u
    <2>5. /\ Consumed(n) = Consumed(m) + Len(x) + 1
          /\ Consumed(Dropped(n)) = Consumed(Dropped(m)) + Len(DropCR(x)) + 1
      BY <2>1, <2>2, <2>4, ConsumedAppend
    <2>6. (\A i \in DOMAIN n : DropCR(n[i]) = n[i])
            <=> (\A i \in DOMAIN m : DropCR(m[i]) = m[i]) /\ DropCR(x) = x
      <3> HIDE DEF n
      <3> QED BY <2>3
    <2>7. Dropped(n) \in Seq(D)
      BY <2>1, <2>2, <2>4, AppendProperties
    <2>8. /\ Consumed(n) \in Nat /\ Consumed(Dropped(n)) \in Nat
          /\ Consumed(Dropped(n)) <= Consumed(n)
          /\ (Consumed(Dropped(n)) = Consumed(n)
               <=> Consumed(Dropped(m)) = Consumed(m) /\ DropCR(x) = x)
      BY <2>1, <2>2, <2>5
    <2> HIDE DEF n
    <2>9. n \in S
      BY <2>1, <2>3, <2>6, <2>7, <2>8 DEF S
    <2> QED BY <2>9 DEF n
  <1> HIDE DEF S
  <1>3. l \in S
    BY <1>1, <1>2, SeqInduction
  <1> QED BY <1>3 DEF S

(* Whatever is buffered, the slice expression of container.go:52 is out of *)
(* range exactly when the last line is not terminated and the scanner      *)
(* dropped no carriage return, which makes up for the newline counted too  *)
(* many.                                                                   *)
THEOREM SliceOutOfRange ==
  ASSUME NEW B, NEW b \in Seq(B)
  PROVE  Consumed(Scan(b)) > Len(b)
           <=> /\ Split(b).rest # <<>>
               /\ \A l \in {Split(b).rest} \cup {Split(b).lines[i] : i \in DOMAIN Split(b).lines} :
                    ~ (l # <<>> /\ l[Len(l)] = CR)
  <1> DEFINE C == B \ {NL}
             D == Seq(C)
             lines == Split(b).lines
             rest == Split(b).rest
             all == IF rest = <<>> THEN lines ELSE Append(lines, rest)
             kept(l) == ~ (l # <<>> /\ l[Len(l)] = CR)
  <1>1. lines \in Seq(D) /\ rest \in D /\ Len(rest) \in Nat /\ Len(b) \in Nat
    BY SplitType
  <1>2. Consumed(lines) \in Nat /\ Consumed(lines) + Len(rest) = Len(b)
    BY EveryByteCounted
  <1>3. Scan(b) = Dropped(all)
    BY DEF Scan, Dropped
  <1>4. \A l \in D : DropCR(l) = l <=> kept(l)
    BY DropCRLen
  <1>5. CASE rest = <<>>
    <2>1. Len(rest) = 0 /\ all = lines
      BY <1>5, EmptySeq
    <2>2. Consumed(Dropped(lines)) \in Nat /\ Consumed(Dropped(lines)) <= Consumed(lines)
      BY <1>1, DroppedCounted
    <2> HIDE DEF lines, rest, D
    <2>3. ~ (Consumed(Scan(b)) > Len(b))
      BY <1>1, <1>2, <1>3, <2>1, <2>2
    <2> QED BY <1>5, <2>3 DEF rest
  <1>6. CASE rest # <<>>
    <2>1. all = Append(lines, rest)
      BY <1>6
    <2> HIDE DEF all, lines, rest, D, kept
    <2>2. /\ all \in Seq(D) /\ Consumed(all) = Consumed(lines) + Len(rest) + 1
          /\ DOMAIN lines = 1..Len(lines) /\ DOMAIN all = 1..(Len(lines) + 1)
          /\ all[Len(lines) + 1] = rest /\ \A i \in 1..Len(lines) : all[i] = lines[i]
          /\ Len(lines) \in Nat
      BY <1>1, <2>1, ConsumedAppend, AppendProperties, LenProperties
    <2>3. /\ Consumed(Dropped(all)) \in Nat /\ Consumed(Dropped(all)) <= Consumed(all)
          /\ Consumed(Dropped(all)) = Consumed(all) <=> \A i \in DOMAIN all : DropCR(all[i]) = all[i]
      <3>1. all \in Seq(Seq(C))
        BY <2>2 DEF D
      <3> QED BY <3>1, DroppedCounted
    <2>4. Consumed(Scan(b)) > Len(b) <=> \A i \in DOMAIN all : DropCR(all[i]) = all[i]
      BY <1>1, <1>2, <1>3, <2>2, <2>3
    <2>5. \A i \in DOMAIN all : all[i] \in D
      BY <2>2, ElementOfSeq
    <2>6. \A i \in DOMAIN all : DropCR(all[i]) = all[i] <=> kept(all[i])
      BY <1>4, <2>5
    <2>7. {all[i] : i \in DOMAIN all} = {rest} \cup {lines[i] : i \in DOMAIN lines}
      BY <2>2
    <2>8. Consumed(Scan(b)) > Len(b)
            <=> \A l \in {rest} \cup {lines[i] : i \in DOMAIN lines} : kept(l)
      BY <2>4, <2>6, <2>7
    <2>9. rest # <<>>
      BY <1>6
    <2> QED BY <2>8, <2>9 DEF kept, rest, lines
  <1> QED BY <1>5, <1>6

(* What the loop prints of a text is lines, whatever it counts. *)
LEMMA ScanType ==
  ASSUME NEW B, NEW b \in Seq(B)
  PROVE  Scan(b) \in Seq(Seq(B)) /\ Consumed(Scan(b)) \in Nat
  <1> DEFINE C == B \ {NL}
             all == IF Split(b).rest = <<>> THEN Split(b).lines
                    ELSE Append(Split(b).lines, Split(b).rest)
  <1>1. Split(b).lines \in Seq(Seq(C)) /\ Split(b).rest \in Seq(C)
    BY SplitType
  <1>2. all \in Seq(Seq(C))
    BY <1>1, AppendProperties
  <1>3. Scan(b) = Dropped(all)
    BY DEF Scan, Dropped
  <1> HIDE DEF all, C
  <1>4. Consumed(Scan(b)) \in Nat
    BY <1>2, <1>3, DroppedCounted
  <1>5. /\ Len(all) \in Nat /\ DOMAIN all = 1..Len(all)
        /\ \A i \in 1..Len(all) : DropCR(all[i]) \in Seq(C)
    BY <1>2, DropCRLen, LenProperties, ElementOfSeq
  <1>6. Dropped(all) \in Seq(Seq(C))
    BY <1>5 DEF Dropped
  <1>7. Seq(Seq(C)) \subseteq Seq(Seq(B))
    BY DEF C
  <1> QED BY <1>3, <1>4, <1>6, <1>7

(* A sequence is what its continuation begins with. *)
LEMMA Continued ==
  ASSUME NEW B, NEW a \in Seq(B), NEW b \in Seq(B)
  PROVE  /\ \E n \in 0..Len(a \o b) : a = SubSeq(a \o b, 1, n)
         /\ \A x \in B : \E n \in 0..Len(Append(a, x)) : a = SubSeq(Append(a, x), 1, n)
  <1>1. ASSUME NEW c \in Seq(B), Len(a) <= Len(c), \A i \in 1..Len(a) : c[i] = a[i]
        PROVE  \E n \in 0..Len(c) : a = SubSeq(c, 1, n)
    <2>1. Len(a) \in Nat /\ Len(c) \in Nat /\ Len(a) \in 0..Len(c)
      BY <1>1, LenProperties
    <2>2. /\ SubSeq(c, 1, Len(a)) \in Seq(B) /\ Len(SubSeq(c, 1, Len(a))) = Len(a)
          /\ \A i \in 1..Len(a) : SubSeq(c, 1, Len(a))[i] = c[i]
      BY <1>1, <2>1, SubSeqProperties
    <2>3. a = SubSeq(c, 1, Len(a))
      BY <1>1, <2>2, SeqEqual
    <2> QED BY <2>1, <2>3, Zenon
  <1>2. /\ a \o b \in Seq(B) /\ Len(a \o b) = Len(a) + Len(b) /\ Len(b) \in Nat /\ Len(a) \in Nat
        /\ \A i \in 1..Len(a) : (a \o b)[i] = a[i]
    BY ConcatProperties, LenProperties
  <1>3. ASSUME NEW x \in B
        PROVE  /\ Append(a, x) \in Seq(B) /\ Len(Append(a, x)) = Len(a) + 1
               /\ \A i \in 1..Len(a) : Append(a, x)[i] = a[i]
    BY AppendProperties, LenProperties
  <1> QED BY <1>1, <1>2, <1>3
=============================================================================
