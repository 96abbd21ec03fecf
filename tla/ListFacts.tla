----------------------------- MODULE ListFacts -----------------------------
(***************************************************************************)
(* What adding to and removing from the lists and rings of the drivers     *)
(* does to their entries and to the total of their descriptors, for        *)
(* sequences of any length.                                                *)
(***************************************************************************)
EXTENDS Totals, SequenceTheorems, WellFoundedInduction, TLAPS

Within(r, s) == \E i \in 1 .. Len(s) : s[i] = r
Distinct(s) == \A i, j \in 1 .. Len(s) : s[i] = s[j] => i = j

(* list_add_tail, or the next element of a ring *)
LEMMA AddTail ==
    ASSUME NEW S, NEW s \in Seq(S), NEW e \in S
    PROVE  /\ Append(s, e) \in Seq(S)
           /\ Len(Append(s, e)) = Len(s) + 1
           /\ \A i \in 1 .. Len(s) : Append(s, e)[i] = s[i]
           /\ Append(s, e)[Len(s) + 1] = e
           /\ \A r : Within(r, Append(s, e)) <=> Within(r, s) \/ r = e
           /\ Distinct(s) /\ ~Within(e, s) => Distinct(Append(s, e))
  <1>1. /\ Append(s, e) \in Seq(S)
        /\ Len(Append(s, e)) = Len(s) + 1
        /\ \A i \in 1 .. Len(s) : Append(s, e)[i] = s[i]
        /\ Append(s, e)[Len(s) + 1] = e
        /\ Len(s) \in Nat
    BY AppendProperties, LenProperties
  <1>2. \A r : Within(r, Append(s, e)) <=> Within(r, s) \/ r = e
    BY <1>1 DEF Within
  <1>3. Distinct(s) /\ ~Within(e, s) => Distinct(Append(s, e))
    BY <1>1 DEF Within, Distinct
  <1> QED BY <1>1, <1>2, <1>3

(* list_del of the first entry, or the oldest element of a ring *)
LEMMA DelHead ==
    ASSUME NEW S, NEW s \in Seq(S), s # <<>>
    PROVE  /\ Tail(s) \in Seq(S)
           /\ Len(s) \in Nat \ {0}
           /\ Len(Tail(s)) = Len(s) - 1
           /\ Head(s) = s[1] /\ Head(s) \in S
           /\ \A i \in 1 .. Len(Tail(s)) : Tail(s)[i] = s[i + 1]
           /\ \A r : Within(r, s) <=> Within(r, Tail(s)) \/ r = Head(s)
           /\ Distinct(s) => Distinct(Tail(s)) /\ ~Within(Head(s), Tail(s))
  <1>1. /\ Tail(s) \in Seq(S)
        /\ Len(s) \in Nat \ {0}
        /\ Len(Tail(s)) = Len(s) - 1
        /\ Head(s) = s[1] /\ Head(s) \in S
        /\ \A i \in 1 .. Len(Tail(s)) : Tail(s)[i] = s[i + 1]
    BY HeadTailProperties, LenProperties, EmptySeq
  <1>2. \A r : Within(r, Tail(s)) \/ r = Head(s) => Within(r, s)
    BY <1>1 DEF Within
  <1>3. ASSUME NEW r, Within(r, s)
        PROVE  Within(r, Tail(s)) \/ r = Head(s)
    <2>1. PICK i \in 1 .. Len(s) : s[i] = r
      BY <1>3 DEF Within
    <2>2. CASE i = 1
      BY <1>1, <2>1, <2>2
    <2>3. CASE i # 1
      <3>1. i - 1 \in 1 .. Len(Tail(s)) /\ Tail(s)[i - 1] = r
        BY <1>1, <2>1, <2>3
      <3> QED BY <3>1 DEF Within
    <2> QED BY <2>2, <2>3
  <1>4. Distinct(s) => Distinct(Tail(s)) /\ ~Within(Head(s), Tail(s))
    BY <1>1 DEF Within, Distinct
  <1> QED BY <1>1, <1>2, <1>3, <1>4

(* list_add: back to the front *)
LEMMA AddHead ==
    ASSUME NEW S, NEW s \in Seq(S), NEW e \in S
    PROVE  /\ <<e>> \o s \in Seq(S)
           /\ Len(<<e>> \o s) = Len(s) + 1
           /\ \A r : Within(r, <<e>> \o s) <=> Within(r, s) \/ r = e
           /\ Distinct(s) /\ ~Within(e, s) => Distinct(<<e>> \o s)
  <1> DEFINE c == <<e>> \o s
  <1>1. /\ c \in Seq(S)
        /\ Len(s) \in Nat
        /\ Len(c) = Len(s) + 1
        /\ c[1] = e
        /\ \A i \in 1 .. Len(s) : c[i + 1] = s[i]
        /\ \A i \in 2 .. Len(c) : c[i] = s[i - 1]
    <2>1. <<e>> \in Seq(S) /\ Len(<<e>>) = 1 /\ <<e>>[1] = e
      OBVIOUS
    <2>2. Len(s) \in Nat
      BY LenProperties
    <2> HIDE DEF c
    <2>3. /\ c \in Seq(S)
          /\ Len(c) = Len(<<e>>) + Len(s)
          /\ \A i \in 1 .. Len(<<e>>) + Len(s) :
                c[i] = IF i <= Len(<<e>>) THEN <<e>>[i] ELSE s[i - Len(<<e>>)]
      BY <2>1, ConcatProperties DEF c
    <2> QED BY <2>1, <2>2, <2>3
  <1> HIDE DEF c
  <1>2. \A r : Within(r, s) \/ r = e => Within(r, c)
    BY <1>1 DEF Within
  <1>3. ASSUME NEW r, Within(r, c)
        PROVE  Within(r, s) \/ r = e
    <2>1. PICK i \in 1 .. Len(c) : c[i] = r
      BY <1>3 DEF Within
    <2>2. CASE i = 1
      BY <1>1, <2>1, <2>2
    <2>3. CASE i # 1
      <3>1. i - 1 \in 1 .. Len(s) /\ s[i - 1] = r
        BY <1>1, <2>1, <2>3
      <3> QED BY <3>1 DEF Within
    <2> QED BY <2>2, <2>3
  <1>4. ASSUME Distinct(s), ~Within(e, s), NEW i \in 1 .. Len(c), NEW j \in 1 .. Len(c), c[i] = c[j]
        PROVE  i = j
    <2>1. \A k \in 2 .. Len(c) : c[k] # e
      BY <1>1, <1>4 DEF Within
    <2>2. CASE i = 1 \/ j = 1
      BY <1>1, <1>4, <2>1, <2>2
    <2>3. CASE i # 1 /\ j # 1
      <3>1. i - 1 \in 1 .. Len(s) /\ j - 1 \in 1 .. Len(s) /\ s[i - 1] = s[j - 1]
        BY <1>1, <1>4, <2>3
      <3>2. i - 1 = j - 1
        BY <1>4, <3>1 DEF Distinct
      <3> QED BY <3>2
    <2> QED BY <2>2, <2>3
  <1> QED BY <1>1, <1>2, <1>3, <1>4 DEF c, Distinct

(* A list is its first entry and the rest ... *)
LEMMA FirstAndRest ==
    ASSUME NEW S, NEW s \in Seq(S), s # <<>>
    PROVE  s = <<Head(s)>> \o Tail(s)
  <1>1. PICK t \in Seq(S), h \in S : t = Tail(s) /\ h = Head(s)
    BY DelHead
  <1>2. PICK n \in Nat : n = Len(t) /\ Len(s) = n + 1
    BY <1>1, DelHead, LenProperties
  <1>3. s[1] = h /\ \A i \in 1 .. n : t[i] = s[i + 1]
    BY <1>1, <1>2, DelHead
  <1>4. PICK c \in Seq(S) : /\ c = <<h>> \o t /\ Len(c) = n + 1 /\ c[1] = h
                            /\ \A i \in 1 .. n + 1 : i # 1 => c[i] = t[i - 1]
    <2>1. <<h>> \in Seq(S) /\ Len(<<h>>) = 1 /\ <<h>>[1] = h
      OBVIOUS
    <2>2. /\ <<h>> \o t \in Seq(S) /\ Len(<<h>> \o t) = 1 + n
          /\ \A i \in 1 .. 1 + n : (<<h>> \o t)[i] = IF i <= 1 THEN <<h>>[i] ELSE t[i - 1]
      BY <1>2, <2>1, ConcatProperties
    <2>3. PICK c \in Seq(S) : c = <<h>> \o t
      BY <2>2
    <2>4. Len(c) = n + 1 /\ \A i \in 1 .. n + 1 : c[i] = IF i <= 1 THEN <<h>>[i] ELSE t[i - 1]
      <3>1. 1 + n = n + 1
        OBVIOUS
      <3> QED BY <2>2, <2>3, <3>1, Zenon
    <2>5. c[1] = h /\ \A i \in 1 .. n + 1 : i # 1 => c[i] = t[i - 1]
      BY <2>1, <2>4
    <2> QED BY <2>3, <2>4, <2>5
  <1>5. \A i \in 1 .. n + 1 : c[i] = s[i]
    <2> TAKE i \in 1 .. n + 1
    <2>1. CASE i = 1
      BY <1>3, <1>4, <2>1
    <2>2. CASE i # 1
      <3>1. i - 1 \in 1 .. n /\ (i - 1) + 1 = i
        BY <2>2
      <3> QED BY <1>3, <1>4, <2>2, <3>1
    <2> QED BY <2>1, <2>2
  <1>6. c = s
    BY <1>2, <1>4, <1>5, SeqEqual
  <1> QED BY <1>1, <1>4, <1>6

(* ... also when another list follows. *)
LEMMA ConcatRest ==
    ASSUME NEW S, NEW s \in Seq(S), NEW t \in Seq(S), s # <<>>
    PROVE  s \o t # <<>> /\ Head(s \o t) = Head(s) /\ Tail(s \o t) = Tail(s) \o t
  <1>1. PICK h \in S, q \in Seq(S) : h = Head(s) /\ q = Tail(s)
    BY DelHead
  <1>2. s = <<h>> \o q /\ <<h>> \in Seq(S)
    BY <1>1, FirstAndRest
  <1>3. PICK r \in Seq(S) : r = q \o t
    BY ConcatProperties
  <1>4. s \o t = <<h>> \o r
    BY <1>2, <1>3, ConcatAssociative
  <1>5. PICK c \in Seq(S) : c = s \o t
    BY ConcatProperties
  <1>6. c # <<>>
    BY <1>5, ConcatEqualIffEmpty
  <1>7. c = <<Head(c)>> \o Tail(c) /\ Tail(c) \in Seq(S) /\ Head(c) \in S
    BY <1>6, FirstAndRest, DelHead
  <1>8. c[1] = h /\ Head(c) = c[1]
    <2>1. Len(<<h>>) = 1 /\ <<h>>[1] = h /\ Len(r) \in Nat
      BY LenProperties
    <2>2. \A i \in 1 .. 1 + Len(r) : (<<h>> \o r)[i] = IF i <= 1 THEN <<h>>[i] ELSE r[i - 1]
      BY <1>2, <2>1, ConcatProperties
    <2>3. 1 \in 1 .. 1 + Len(r)
      BY <2>1
    <2>4. (<<h>> \o r)[1] = h
      BY <2>1, <2>2, <2>3
    <2> QED BY <1>4, <1>5, <1>6, <2>4, DelHead
  <1>9. <<h>> \o r = <<h>> \o Tail(c)
    BY <1>4, <1>5, <1>7, <1>8
  <1>10. r = Tail(c)
    BY <1>2, <1>7, <1>9, ConcatSimplifications
  <1> QED BY <1>1, <1>3, <1>5, <1>6, <1>8, <1>10

(* The grouping of three lists does not matter. *)
Grouped(r, s, t) == (r \o s) \o t = r \o (s \o t)

(* Concatenation is associative. *)
LEMMA Grouping ==
    ASSUME NEW S, NEW r \in Seq(S), NEW s \in Seq(S), NEW t \in Seq(S)
    PROVE  Grouped(r, s, t)
  BY ConcatAssociative DEF Grouped

(* A list cut before or after x *)
Cut(a, b, x, c, d) == (a \o (b \o x)) \o (c \o d) = (a \o b) \o ((x \o c) \o d)

(* Both cuts put together give the same list. *)
LEMMA Recut ==
    ASSUME NEW S, NEW a \in Seq(S), NEW b \in Seq(S), NEW x \in Seq(S),
           NEW c \in Seq(S), NEW d \in Seq(S)
    PROVE  Cut(a, b, x, c, d)
  <1>1. PICK ab \in Seq(S), cd \in Seq(S) : ab = a \o b /\ cd = c \o d
    BY ConcatProperties
  <1>0. Grouped(a, b, x) /\ Grouped(x, c, d) /\ Grouped(ab, x, cd)
    BY Grouping
  <1>2. a \o (b \o x) = ab \o x
    BY <1>0, <1>1 DEF Grouped
  <1>3. (x \o c) \o d = x \o cd
    BY <1>0, <1>1 DEF Grouped
  <1>4. (ab \o x) \o cd = ab \o (x \o cd)
    BY <1>0 DEF Grouped
  <1> QED BY <1>1, <1>2, <1>3, <1>4 DEF Cut
-----------------------------------------------------------------------------
(* Induction over the naturals, for a set rather than a predicate: the     *)
(* least number outside of it would be the successor of one inside.        *)
LEMMA SetInduction ==
    ASSUME NEW S, S \subseteq Nat, 0 \in S, \A n \in S : n + 1 \in S
    PROVE  S = Nat
  <1> SUFFICES ASSUME S # Nat PROVE FALSE
    OBVIOUS
  <1> DEFINE R == OpToRel(<, Nat)
             T == Nat \ S
  <1>1. IsWellFoundedOn(R, Nat)
    BY NatLessThanWellFounded
  <1>2. T \subseteq Nat /\ T # {}
    OBVIOUS
  <1>3. \A x, y \in Nat : x < y => <<x, y>> \in R
    BY DEF OpToRel
  <1> HIDE DEF R, T
  <1>4. PICK x \in T : \A y \in T : ~ (<<y, x>> \in R)
    BY <1>1, <1>2, WFMin
  <1>5. x \in Nat /\ x # 0 /\ x - 1 \in Nat /\ x - 1 < x /\ (x - 1) + 1 = x
    BY <1>4 DEF T
  <1>6. x - 1 \notin T
    BY <1>3, <1>4, <1>5, <1>2
  <1> QED BY <1>4, <1>5, <1>6 DEF T

(* c[n] is the sum of the first n numbers of w. *)
Sums(c, w) ==
    /\ c \in [0 .. Len(w) -> Nat]
    /\ c[0] = 0
    /\ \A i \in 1 .. Len(w) : c[i] = c[i - 1] + w[i]

(* Every sequence of naturals has its partial sums ... *)
LEMMA SumsExist ==
    ASSUME NEW w \in Seq(Nat)
    PROVE  \E c : Sums(c, w)
  <1> DEFINE P(n) == \E c \in [0 .. n -> Nat] : /\ c[0] = 0
                                               /\ \A i \in 1 .. n : c[i] = c[i - 1] + w[i]
             S == {n \in Nat : n <= Len(w) => P(n)}
  <1>0. Len(w) \in Nat /\ \A i \in 1 .. Len(w) : w[i] \in Nat
    BY LenProperties
  <1>1. 0 \in S
    <2> DEFINE c == [i \in 0 .. 0 |-> 0]
    <2>1. c \in [0 .. 0 -> Nat] /\ c[0] = 0 /\ 1 .. 0 = {}
      OBVIOUS
    <2> QED BY <2>1
  <1>2. ASSUME NEW n \in S PROVE n + 1 \in S
    <2> HIDE DEF P
    <2> SUFFICES ASSUME n + 1 <= Len(w) PROVE P(n + 1)
      OBVIOUS
    <2>0. n \in Nat /\ P(n)
      BY <1>0
    <2> USE DEF P
    <2>1. PICK c \in [0 .. n -> Nat] : /\ c[0] = 0
                                       /\ \A i \in 1 .. n : c[i] = c[i - 1] + w[i]
      BY <2>0
    <2> DEFINE d == [i \in 0 .. n + 1 |-> IF i <= n THEN c[i] ELSE c[n] + w[n + 1]]
    <2>2. n \in Nat /\ w[n + 1] \in Nat /\ c[n] \in Nat
      BY <1>0, <2>0, <2>1
    <2>3. d \in [0 .. n + 1 -> Nat] /\ d[0] = 0
      BY <2>1, <2>2
    <2>4. \A i \in 1 .. n + 1 : d[i] = d[i - 1] + w[i]
      <3> TAKE i \in 1 .. n + 1
      <3>1. d[i] = (IF i <= n THEN c[i] ELSE c[n] + w[n + 1]) /\ d[i - 1] = c[i - 1]
        BY <2>2
      <3> HIDE DEF d
      <3>2. CASE i <= n
        BY <2>1, <2>2, <3>1, <3>2
      <3>3. CASE i = n + 1
        BY <2>1, <2>2, <3>1, <3>3
      <3> QED BY <2>2, <3>2, <3>3
    <2> HIDE DEF d
    <2> QED BY <2>3, <2>4
  <1> HIDE DEF P
  <1>3. S = Nat
    <2> HIDE DEF S
    <2>1. S \subseteq Nat BY DEF S
    <2> QED BY <1>1, <1>2, <2>1, SetInduction
  <1>4. P(Len(w))
    BY <1>0, <1>3
  <1> QED BY <1>4 DEF P, Sums

(* ... and the recursive function in Total computes the last of them. *)
LEMMA TotalIs ==
    ASSUME NEW w \in Seq(Nat), NEW c, Sums(c, w)
    PROVE  Total(w) = c[Len(w)]
  <1> DEFINE F(f) == [n \in 0 .. Len(w) |-> IF n = 0 THEN 0 ELSE f[n - 1] + w[n]]
             u == CHOOSE f : f = F(f)
  <1>0. Len(w) \in Nat /\ \A i \in 1 .. Len(w) : w[i] \in Nat
    BY LenProperties
  <1>1. c = F(c)
    BY <1>0 DEF Sums
  <1>2. u = F(u)
    BY <1>1
  <1> DEFINE S == {n \in Nat : n <= Len(w) => u[n] = c[n]}
  <1>3. 0 \in S
    <2> HIDE DEF u
    <2> QED BY <1>0, <1>2 DEF Sums
  <1>4. ASSUME NEW n \in S PROVE n + 1 \in S
    <2> HIDE DEF u
    <2> SUFFICES ASSUME n + 1 <= Len(w) PROVE u[n + 1] = c[n + 1]
      OBVIOUS
    <2>1. n \in Nat /\ n + 1 \in 1 .. Len(w) /\ (n + 1) - 1 = n /\ u[n] = c[n]
      BY <1>0
    <2>2. u[n + 1] = u[n] + w[n + 1]
      BY <1>0, <1>2, <2>1
    <2> QED BY <2>1, <2>2 DEF Sums
  <1>5. S = Nat
    <2>1. S \subseteq Nat OBVIOUS
    <2> HIDE DEF S
    <2> QED BY <1>3, <1>4, <2>1, SetInduction
  <1>6. Total(w) = u[Len(w)]
    BY DEF Total
  <1> QED BY <1>0, <1>5, <1>6

(* The total of naturals is a natural. *)
LEMMA TotalType ==
    ASSUME NEW w \in Seq(Nat)
    PROVE  Total(w) \in Nat
  <1>1. PICK c : Sums(c, w)
    BY SumsExist
  <1>2. Total(w) = c[Len(w)] /\ Len(w) \in Nat
    BY <1>1, TotalIs, LenProperties
  <1> QED BY <1>1, <1>2 DEF Sums

(* Nothing adds up to nothing. *)
LEMMA TotalEmpty == Total(<<>>) = 0
  <1> DEFINE c == [i \in 0 .. 0 |-> 0]
  <1>1. <<>> \in Seq(Nat) /\ Len(<<>>) = 0
    BY EmptySeq
  <1>2. c \in [0 .. 0 -> Nat] /\ c[0] = 0 /\ 1 .. 0 = {}
    OBVIOUS
  <1>3. Sums(c, <<>>)
    BY <1>1, <1>2 DEF Sums
  <1> HIDE DEF c
  <1> QED BY <1>1, <1>2, <1>3, TotalIs

(* A list followed by another: the totals are added. *)
LEMMA TotalJoin ==
    ASSUME NEW u \in Seq(Nat), NEW v \in Seq(Nat), NEW w \in Seq(Nat),
           Len(u) = Len(v) + Len(w),
           \A i \in 1 .. Len(v) : u[i] = v[i],
           \A i \in 1 .. Len(w) : u[Len(v) + i] = w[i]
    PROVE  Total(u) = Total(v) + Total(w)
  <1>1. PICK a : Sums(a, v)
    BY SumsExist
  <1>2. PICK b : Sums(b, w)
    BY SumsExist
  <1>3. PICK m \in Nat, n \in Nat : m = Len(v) /\ n = Len(w)
    BY LenProperties
  <1>4. a \in [0 .. m -> Nat] /\ a[0] = 0 /\ \A i \in 1 .. m : a[i] = a[i - 1] + v[i]
    BY <1>1, <1>3 DEF Sums
  <1>5. b \in [0 .. n -> Nat] /\ b[0] = 0 /\ \A i \in 1 .. n : b[i] = b[i - 1] + w[i]
    BY <1>2, <1>3 DEF Sums
  <1>6. a[m] \in Nat
    BY <1>4
  <1> DEFINE c == [i \in 0 .. m + n |-> IF i <= m THEN a[i] ELSE a[m] + b[i - m]]
  <1>7. c \in [0 .. m + n -> Nat] /\ c[0] = 0
    BY <1>4, <1>5, <1>6, SMTT(40)
  <1>8. \A i \in 0 .. m : c[i] = a[i]
    OBVIOUS
  <1>9. \A j \in 0 .. n : c[m + j] = a[m] + b[j]
    <2> TAKE j \in 0 .. n
    <2>1. m + j \in 0 .. m + n /\ (m + j) - m = j /\ b[j] \in Nat
      BY <1>5
    <2>2. c[m + j] = IF m + j <= m THEN a[m + j] ELSE a[m] + b[(m + j) - m]
      BY <2>1
    <2> HIDE DEF c
    <2>3. CASE j = 0
      BY <1>5, <1>6, <2>2, <2>3
    <2>4. CASE j # 0
      <3>1. ~(m + j <= m)
        BY <2>4
      <3> QED BY <2>1, <2>2, <3>1
    <2> QED BY <2>3, <2>4
  <1> HIDE DEF c
  <1>10. ASSUME NEW i \in 1 .. m + n PROVE c[i] = c[i - 1] + u[i]
    <2>1. CASE i <= m
      <3>1. i \in 1 .. m /\ i \in 0 .. m /\ i - 1 \in 0 .. m
        BY <2>1
      <3>2. u[i] = v[i]
        BY <1>3, <3>1
      <3> QED BY <1>4, <1>8, <3>1, <3>2
    <2>2. CASE i > m
      <3>1. PICK j \in 1 .. n : i = m + j
        <4>1. i - m \in 1 .. n /\ i = m + (i - m)
          BY <2>2
        <4> QED BY <4>1
      <3>2. j \in Nat /\ j - 1 \in 0 .. n /\ j \in 0 .. n /\ i - 1 = m + (j - 1)
        BY <3>1
      <3>3. u[i] = w[j]
        BY <1>3, <3>1
      <3>4. c[i] = a[m] + b[j] /\ c[i - 1] = a[m] + b[j - 1]
        BY <1>9, <3>1, <3>2
      <3>5. b[j] = b[j - 1] + w[j] /\ b[j - 1] \in Nat
        BY <1>5, <3>2
      <3>6. w[j] \in Nat
        BY <1>3, ElementOfSeq
      <3>7. a[m] + (b[j - 1] + w[j]) = (a[m] + b[j - 1]) + w[j]
        <4>1. a[m] \in Nat
          BY <1>6
        <4>2. \A x, y, z \in Nat : x + (y + z) = (x + y) + z
          OBVIOUS
        <4> QED BY <3>5, <3>6, <4>1, <4>2, Zenon
      <3> QED BY <3>3, <3>4, <3>5, <3>7, Zenon
    <2> QED BY <2>1, <2>2
  <1>11. Sums(c, u)
    <2>1. Len(u) = m + n
      BY <1>3
    <2> QED BY <1>7, <1>10, <2>1 DEF Sums
  <1>12. Total(u) = c[m + n]
    <2>1. Total(u) = c[Len(u)] /\ Len(u) = m + n
      BY <1>3, <1>11, TotalIs
    <2> QED BY <2>1
  <1>13. Total(v) = a[m] /\ Total(w) = b[n]
    BY <1>1, <1>2, <1>3, TotalIs
  <1>14. c[m + n] = a[m] + b[n]
    <2>1. n \in 0 .. n
      OBVIOUS
    <2> QED BY <1>9, <2>1, Zenon
  <1> QED BY <1>12, <1>13, <1>14

(* One more number at the end *)
LEMMA TotalGrows ==
    ASSUME NEW v \in Seq(Nat), NEW w \in Seq(Nat), Len(w) = Len(v) + 1,
           \A i \in 1 .. Len(v) : w[i] = v[i]
    PROVE  Total(w) = Total(v) + w[Len(w)]
  <1>1. PICK a : Sums(a, v)
    BY SumsExist
  <1>2. PICK b : Sums(b, w)
    BY SumsExist
  <1>3. Len(v) \in Nat /\ Len(w) \in Nat
    BY LenProperties
  <1> DEFINE c == [i \in 0 .. Len(v) |-> b[i]]
  <1>4. Sums(c, v)
    <2>1. c \in [0 .. Len(v) -> Nat] /\ c[0] = 0
      BY <1>2, <1>3 DEF Sums
    <2>2. ASSUME NEW i \in 1 .. Len(v) PROVE c[i] = c[i - 1] + v[i]
      <3>1. i \in 1 .. Len(w) /\ c[i] = b[i] /\ c[i - 1] = b[i - 1]
        BY <1>3
      <3> QED BY <1>2, <3>1 DEF Sums
    <2> QED BY <2>1, <2>2 DEF Sums
  <1>5. c[Len(v)] = b[Len(v)]
    BY <1>3
  <1> HIDE DEF c
  <1>6. Total(v) = b[Len(v)] /\ Total(w) = b[Len(w)]
    BY <1>2, <1>4, <1>5, TotalIs
  <1>7. Len(w) \in 1 .. Len(w) /\ Len(w) - 1 = Len(v)
    BY <1>3
  <1> QED BY <1>2, <1>6, <1>7 DEF Sums

(* The first number is taken away. *)
LEMMA TotalShrinks ==
    ASSUME NEW v \in Seq(Nat), NEW w \in Seq(Nat), Len(v) = Len(w) + 1,
           \A i \in 1 .. Len(w) : v[i + 1] = w[i]
    PROVE  Total(v) = v[1] + Total(w)
  <1>0. Len(w) \in Nat /\ v[1] \in Nat
    BY LenProperties
  <1>1. PICK e \in Seq(Nat) : Len(e) = 0 /\ Total(e) = 0
    BY EmptySeq, TotalEmpty
  <1>2. PICK h \in Seq(Nat) : Len(h) = 1 /\ h[1] = v[1]
    <2>1. <<v[1]>> \in Seq(Nat) /\ Len(<<v[1]>>) = 1 /\ <<v[1]>>[1] = v[1]
      BY <1>0
    <2> QED BY <2>1
  <1>3. Total(h) = Total(e) + h[Len(h)]
    <2>1. Len(h) = Len(e) + 1 /\ \A i \in 1 .. Len(e) : h[i] = e[i]
      BY <1>1, <1>2
    <2> QED BY <2>1, TotalGrows
  <1>4. /\ Len(v) = Len(h) + Len(w)
        /\ \A i \in 1 .. Len(h) : v[i] = h[i]
        /\ \A i \in 1 .. Len(w) : v[Len(h) + i] = w[i]
    <2>1. Len(v) = 1 + Len(w)
      BY <1>0
    <2>2. \A i \in 1 .. 1 : v[i] = h[i]
      BY <1>2
    <2>3. \A i \in 1 .. Len(w) : v[1 + i] = w[i]
      <3> TAKE i \in 1 .. Len(w)
      <3>1. 1 + i = i + 1
        BY <1>0
      <3> QED BY <3>1
    <2> QED BY <1>2, <2>1, <2>2, <2>3
  <1>5. Total(v) = Total(h) + Total(w)
    BY <1>4, TotalJoin
  <1>6. Total(h) = v[1]
    BY <1>0, <1>1, <1>2, <1>3
  <1> QED BY <1>5, <1>6

(* Numbers of at least k bound the length of the list. *)
LEMMA TotalAtLeast ==
    ASSUME NEW w \in Seq(Nat), NEW k \in Nat, \A i \in 1 .. Len(w) : w[i] >= k
    PROVE  Total(w) >= k * Len(w)
  <1>1. PICK c : Sums(c, w)
    BY SumsExist
  <1> DEFINE S == {n \in Nat : n <= Len(w) => c[n] >= k * n}
  <1>0. Len(w) \in Nat
    BY LenProperties
  <1>2. 0 \in S
    BY <1>1 DEF Sums
  <1>3. ASSUME NEW n \in S PROVE n + 1 \in S
    <2> SUFFICES ASSUME n + 1 <= Len(w) PROVE c[n + 1] >= k * (n + 1)
      OBVIOUS
    <2>1. n \in Nat /\ n + 1 \in 1 .. Len(w) /\ (n + 1) - 1 = n /\ c[n] >= k * n
      BY <1>0
    <2>2. c[n + 1] = c[n] + w[n + 1] /\ c[n] \in Nat /\ w[n + 1] \in Nat /\ w[n + 1] >= k
      BY <1>0, <1>1, <2>1, LenProperties, SMTT(40) DEF Sums
    <2>3. k * (n + 1) = k * n + k /\ k * n \in Nat
      BY <2>1
    <2> QED BY <2>1, <2>2, <2>3
  <1>4. S = Nat
    <2>1. S \subseteq Nat OBVIOUS
    <2> HIDE DEF S
    <2> QED BY <1>2, <1>3, <2>1, SetInduction
  <1>5. Total(w) = c[Len(w)]
    BY <1>1, TotalIs
  <1>6. Len(w) \in S
    BY <1>0, <1>4
  <1>7. c[Len(w)] >= k * Len(w)
    BY <1>0, <1>6
  <1> QED BY <1>5, <1>7

(* The total depends on the numbers only. *)
LEMMA TotalSame ==
    ASSUME NEW v \in Seq(Nat), NEW w \in Seq(Nat), Len(v) = Len(w),
           \A i \in 1 .. Len(w) : v[i] = w[i]
    PROVE  Total(v) = Total(w)
  BY SeqEqual

(* f gives everything in D a weight; f and g give it the same. *)
Weighs(f, D) == f \in [D -> Nat]
Agree(f, g, D) == \A d \in D : g[d] = f[d]

(* w are the numbers Weight adds. *)
Numbers(w, f, s) ==
    /\ w \in Seq(Nat)
    /\ Weight(f, s) = Total(w)
    /\ Len(w) = Len(s)
    /\ \A j \in 1 .. Len(s) : w[j] = f[s[j]]

(* There are such numbers. *)
LEMMA WeightSeq ==
    ASSUME NEW D, NEW f, Weighs(f, D), NEW s \in Seq(D)
    PROVE  \E w : Numbers(w, f, s)
  <1>1. Len(s) \in Nat /\ DOMAIN s = 1 .. Len(s) /\ \A i \in 1 .. Len(s) : s[i] \in D
    BY LenProperties
  <1>2. PICK n \in Nat : n = Len(s)
    BY <1>1
  <1> DEFINE w == [i \in 1 .. n |-> f[s[i]]]
  <1>3. w \in [1 .. n -> Nat]
    BY <1>1, <1>2 DEF Weighs
  <1>4. w \in Seq(Nat) /\ Len(w) = n
    <2> HIDE DEF w
    <2>1. w \in Seq(Nat)
      BY <1>3, SeqDef
    <2>2. DOMAIN w = 1 .. n /\ DOMAIN w = 1 .. Len(w) /\ Len(w) \in Nat
      BY <1>3, <2>1, LenProperties
    <2> QED BY <2>1, <2>2
  <1>5. \A j \in 1 .. n : w[j] = f[s[j]]
    OBVIOUS
  <1>6. w = [i \in DOMAIN s |-> f[s[i]]]
    BY <1>1, <1>2
  <1>7. Weight(f, s) = Total(w)
    BY <1>6 DEF Weight
  <1> HIDE DEF w
  <1>8. Numbers(w, f, s)
    BY <1>2, <1>4, <1>5, <1>7 DEF Numbers
  <1> QED BY <1>8

(* A list weighs a natural number ... *)
LEMMA WeightType ==
    ASSUME NEW D, NEW f, Weighs(f, D), NEW s \in Seq(D)
    PROVE  Weight(f, s) \in Nat
  BY WeightSeq, TotalType DEF Numbers

(* ... the empty one nothing ... *)
LEMMA WeightEmpty ==
    ASSUME NEW D, NEW f, Weighs(f, D)
    PROVE  Weight(f, <<>>) = 0
  <1>1. <<>> \in Seq(D) /\ Len(<<>>) = 0
    BY EmptySeq
  <1>2. PICK w : Numbers(w, f, <<>>)
    BY <1>1, WeightSeq
  <1>3. w = <<>>
    BY <1>1, <1>2, EmptySeq DEF Numbers
  <1> QED BY <1>2, <1>3, TotalEmpty DEF Numbers

(* ... an entry at the end adds its own weight ... *)
LEMMA WeightAppend ==
    ASSUME NEW D, NEW f, Weighs(f, D), NEW s \in Seq(D), NEW e \in D
    PROVE  Weight(f, Append(s, e)) = Weight(f, s) + f[e]
  <1>1. PICK t \in Seq(D) : /\ t = Append(s, e) /\ Len(t) = Len(s) + 1
                            /\ t[Len(s) + 1] = e
                            /\ \A i \in 1 .. Len(s) : t[i] = s[i]
    <2>1. PICK t \in Seq(D) : t = Append(s, e)
      BY AddTail
    <2>2. /\ Len(t) = Len(s) + 1 /\ t[Len(s) + 1] = e
          /\ \A i \in 1 .. Len(s) : t[i] = s[i]
      BY <2>1, AddTail
    <2> QED BY <2>1, <2>2
  <1>2. Len(s) \in Nat
    BY LenProperties
  <1>3. PICK v : Numbers(v, f, s)
    BY WeightSeq
  <1>4. PICK w : Numbers(w, f, t)
    BY WeightSeq
  <1>5. Len(w) = Len(v) + 1 /\ \A i \in 1 .. Len(v) : w[i] = v[i]
    <2>1. PICK n \in Nat : n = Len(s) /\ n = Len(v) /\ n + 1 = Len(w) /\ n + 1 = Len(t)
      BY <1>1, <1>2, <1>3, <1>4 DEF Numbers
    <2>2. ASSUME NEW i \in 1 .. n PROVE w[i] = v[i]
      <3>1. i \in 1 .. n + 1
        OBVIOUS
      <3>2. w[i] = f[t[i]]
        BY <1>4, <2>1, <3>1 DEF Numbers
      <3>3. v[i] = f[s[i]] /\ t[i] = s[i]
        BY <1>1, <1>3, <2>1 DEF Numbers
      <3> QED BY <3>2, <3>3
    <2> QED BY <2>1, <2>2
  <1>6. w[Len(w)] = f[e]
    BY <1>1, <1>2, <1>4 DEF Numbers
  <1>7. Total(w) = Total(v) + w[Len(w)]
    BY <1>3, <1>4, <1>5, TotalGrows DEF Numbers
  <1> QED BY <1>1, <1>3, <1>4, <1>6, <1>7, Zenon DEF Numbers

(* ... the first entry is all that Tail takes away ... *)
LEMMA WeightTail ==
    ASSUME NEW D, NEW f, Weighs(f, D), NEW s \in Seq(D), s # <<>>
    PROVE  Weight(f, s) = f[Head(s)] + Weight(f, Tail(s))
  <1>1. PICK t \in Seq(D) : /\ t = Tail(s) /\ Len(s) = Len(t) + 1
                            /\ \A i \in 1 .. Len(t) : t[i] = s[i + 1]
    <2>1. PICK t \in Seq(D) : t = Tail(s)
      BY DelHead
    <2>2. /\ Len(s) = Len(t) + 1
          /\ \A i \in 1 .. Len(t) : t[i] = s[i + 1]
      BY <2>1, DelHead
    <2> QED BY <2>1, <2>2
  <1>2. Len(t) \in Nat /\ Head(s) = s[1]
    BY LenProperties, DelHead
  <1>3. PICK v : Numbers(v, f, s)
    BY WeightSeq
  <1>4. PICK w : Numbers(w, f, t)
    BY WeightSeq
  <1>5. Len(v) = Len(w) + 1 /\ \A i \in 1 .. Len(w) : v[i + 1] = w[i]
    <2>1. Len(v) = Len(s) /\ Len(w) = Len(t)
      BY <1>3, <1>4 DEF Numbers
    <2>2. ASSUME NEW i \in 1 .. Len(w)
          PROVE  v[i + 1] = w[i]
      <3>1. i \in 1 .. Len(t) /\ i + 1 \in 1 .. Len(s)
        BY <1>1, <1>2, <2>1
      <3>2. v[i + 1] = f[s[i + 1]] /\ w[i] = f[t[i]]
        BY <1>3, <1>4, <3>1 DEF Numbers
      <3> QED BY <1>1, <3>1, <3>2
    <2> QED BY <1>1, <2>1, <2>2
  <1>6. v[1] = f[Head(s)]
    BY <1>1, <1>2, <1>3 DEF Numbers
  <1>7. Total(v) = v[1] + Total(w)
    BY <1>3, <1>4, <1>5, TotalShrinks DEF Numbers
  <1> QED BY <1>1, <1>3, <1>4, <1>6, <1>7, Zenon DEF Numbers

(* ... and two lists together weigh what they weigh apart. *)
LEMMA WeightConcat ==
    ASSUME NEW D, NEW f, Weighs(f, D), NEW s \in Seq(D), NEW t \in Seq(D)
    PROVE  Weight(f, s \o t) = Weight(f, s) + Weight(f, t)
  <1>0. PICK m \in Nat, n \in Nat : m = Len(s) /\ n = Len(t)
    BY LenProperties
  <1>1. PICK r \in Seq(D) : /\ r = s \o t /\ Len(r) = m + n
                            /\ \A i \in 1 .. m : r[i] = s[i]
                            /\ \A i \in 1 .. n : r[m + i] = t[i]
    <2>1. /\ s \o t \in Seq(D) /\ Len(s \o t) = m + n
          /\ \A i \in 1 .. m + n : (s \o t)[i] = IF i <= m THEN s[i] ELSE t[i - m]
      BY <1>0, ConcatProperties
    <2>2. PICK r \in Seq(D) : r = s \o t
      BY <2>1
    <2>3. \A i \in 1 .. m + n : r[i] = IF i <= m THEN s[i] ELSE t[i - m]
      BY <2>1, <2>2
    <2>4. \A i \in 1 .. m : r[i] = s[i]
      <3> TAKE i \in 1 .. m
      <3>1. i \in 1 .. m + n /\ i <= m
        OBVIOUS
      <3> QED BY <2>3, <3>1
    <2>5. \A i \in 1 .. n : r[m + i] = t[i]
      <3> TAKE i \in 1 .. n
      <3>1. m + i \in 1 .. m + n /\ ~(m + i <= m) /\ (m + i) - m = i
        OBVIOUS
      <3> QED BY <2>3, <3>1
    <2> QED BY <2>1, <2>2, <2>4, <2>5
  <1>2. PICK u : Numbers(u, f, r)
    BY WeightSeq
  <1>3. PICK v : Numbers(v, f, s)
    BY WeightSeq
  <1>4. PICK w : Numbers(w, f, t)
    BY WeightSeq
  <1>5. Len(u) = Len(v) + Len(w) /\ \A i \in 1 .. Len(v) : u[i] = v[i]
    <2>1. Len(u) = m + n /\ Len(v) = m /\ Len(w) = n
      BY <1>0, <1>1, <1>2, <1>3, <1>4 DEF Numbers
    <2>2. ASSUME NEW i \in 1 .. m PROVE u[i] = v[i]
      <3>1. i \in 1 .. m + n
        OBVIOUS
      <3>2. u[i] = f[r[i]]
        BY <1>1, <1>2, <3>1 DEF Numbers
      <3>3. v[i] = f[s[i]] /\ r[i] = s[i]
        BY <1>0, <1>1, <1>3 DEF Numbers
      <3> QED BY <3>2, <3>3
    <2> QED BY <2>1, <2>2
  <1>6. \A i \in 1 .. Len(w) : u[Len(v) + i] = w[i]
    <2> SUFFICES ASSUME NEW i \in 1 .. n PROVE u[m + i] = w[i]
      BY <1>0, <1>3, <1>4 DEF Numbers
    <2>1. m + i \in 1 .. m + n
      OBVIOUS
    <2>2. u[m + i] = f[r[m + i]] /\ w[i] = f[t[i]] /\ r[m + i] = t[i]
      BY <1>0, <1>1, <1>2, <1>4, <2>1 DEF Numbers
    <2> QED BY <2>2
  <1>7. Total(u) = Total(v) + Total(w)
    BY <1>2, <1>3, <1>4, <1>5, <1>6, TotalJoin DEF Numbers
  <1> QED BY <1>1, <1>2, <1>3, <1>4, <1>7, Zenon DEF Numbers

(* Only what the entries weigh matters. *)
LEMMA WeightSame ==
    ASSUME NEW D, NEW f, Weighs(f, D), NEW E, NEW g, Weighs(g, E),
           NEW s \in Seq(D), s \in Seq(E), Agree(f, g, D)
    PROVE  Weight(g, s) = Weight(f, s)
  <1>1. DOMAIN s = 1 .. Len(s) /\ \A i \in 1 .. Len(s) : s[i] \in D
    BY LenProperties
  <1>2. [i \in DOMAIN s |-> g[s[i]]] = [i \in DOMAIN s |-> f[s[i]]]
    BY <1>1 DEF Agree
  <1> QED BY <1>2 DEF Weight

(* Entries of at least k bound the length of the list. *)
LEMMA WeightAtLeast ==
    ASSUME NEW D, NEW f, Weighs(f, D), NEW s \in Seq(D), NEW k \in Nat,
           \A d \in D : f[d] >= k
    PROVE  Weight(f, s) >= k * Len(s)
  <1>1. PICK v : Numbers(v, f, s)
    BY WeightSeq
  <1>2. \A j \in 1 .. Len(v) : v[j] >= k
    BY <1>1, LenProperties DEF Numbers
  <1>3. Total(v) >= k * Len(v)
    BY <1>1, <1>2, TotalAtLeast DEF Numbers
  <1> QED BY <1>1, <1>3 DEF Numbers
-----------------------------------------------------------------------------
(* Indices of a ring of N slots.  An index that left the ring by a lap or  *)
(* two is brought back by that many.                                       *)
LEMMA RingLaps ==
    ASSUME NEW N \in Nat \ {0}, NEW x \in Int
    PROVE  /\ x % N \in 0 .. N - 1
           /\ 0 <= x /\ x < N => x % N = x
           /\ N <= x /\ x < 2 * N => x % N = x - N
           /\ 2 * N <= x /\ x < 3 * N => x % N = x - 2 * N
           /\ -N <= x /\ x < 0 => x % N = x + N
  OBVIOUS

(* A sum that has left it by one lap at most *)
LEMMA RingSum ==
    ASSUME NEW N \in Nat \ {0}, NEW a \in Int, NEW c \in Int, 0 <= a + c, a + c < 2 * N
    PROVE  (a + c) % N = IF a + c < N THEN a + c ELSE (a + c) - N
  <1>1. a + c \in Int
    OBVIOUS
  <1>2. /\ 0 <= a + c /\ a + c < N => (a + c) % N = a + c
        /\ N <= a + c /\ a + c < 2 * N => (a + c) % N = (a + c) - N
    BY <1>1, RingLaps, Zenon
  <1> QED BY <1>2

(* From slot t to slot h: how far it is, and that the way leads there.     *)
LEMMA RingWay ==
    ASSUME NEW N \in Nat \ {0}, NEW t \in 0 .. N - 1, NEW h \in 0 .. N - 1
    PROVE  /\ (h - t + N) % N \in 0 .. N - 1
           /\ h = (t + ((h - t + N) % N)) % N
  <1>1. (h - t + N) % N = IF h >= t THEN h - t ELSE h - t + N
    <2>1. h - t \in Int /\ N \in Int /\ 0 <= (h - t) + N /\ (h - t) + N < 2 * N
      OBVIOUS
    <2>2. ((h - t) + N) % N = IF (h - t) + N < N THEN (h - t) + N ELSE ((h - t) + N) - N
      BY <2>1, RingSum, Zenon
    <2> QED BY <2>2
  <1>2. PICK n \in 0 .. N - 1 : n = (h - t + N) % N
    BY <1>1
  <1>3. t + n = h \/ t + n = h + N
    BY <1>1, <1>2
  <1>4. (t + n) % N = h
    <2>1. t \in Int /\ n \in Int /\ 0 <= t + n /\ t + n < 2 * N
      OBVIOUS
    <2>2. (t + n) % N = IF t + n < N THEN t + n ELSE (t + n) - N
      BY <2>1, RingSum, Zenon
    <2> QED BY <1>3, <2>2
  <1> QED BY <1>2, <1>4

(* The slot n beyond t is n away. *)
LEMMA RingLength ==
    ASSUME NEW N \in Nat \ {0}, NEW t \in 0 .. N - 1, NEW n \in 0 .. N - 1
    PROVE  (((t + n) % N) - t + N) % N = n
  <1>1. (t + n) % N = IF t + n < N THEN t + n ELSE (t + n) - N
    <2>1. t \in Int /\ n \in Int /\ 0 <= t + n /\ t + n < 2 * N
      OBVIOUS
    <2> QED BY <2>1, RingSum, Zenon
  <1>2. PICK h \in 0 .. N - 1 : h = (t + n) % N
    BY <1>1
  <1>3. (h - t) + N = n + N \/ (h - t) + N = n
    BY <1>1, <1>2
  <1>4. ((h - t) + N) % N = n
    <2>1. h - t \in Int /\ N \in Int /\ 0 <= (h - t) + N /\ (h - t) + N < 2 * N
      BY <1>3
    <2>2. ((h - t) + N) % N = IF (h - t) + N < N THEN (h - t) + N ELSE ((h - t) + N) - N
      BY <2>1, RingSum, Zenon
    <2> QED BY <1>3, <2>2
  <1> QED BY <1>2, <1>4

(* Going on from there. *)
LEMMA RingOn ==
    ASSUME NEW N \in Nat \ {0}, NEW t \in 0 .. N - 1, NEW n \in 0 .. N, NEW k \in 0 .. N
    PROVE  (((t + n) % N) + k) % N = (t + n + k) % N
  <1>1. (t + n) % N = IF t + n < N THEN t + n ELSE (t + n) - N
    <2>1. t \in Int /\ n \in Int /\ 0 <= t + n /\ t + n < 2 * N
      OBVIOUS
    <2> QED BY <2>1, RingSum, Zenon
  <1>2. PICK h \in 0 .. N - 1 : h = (t + n) % N
    BY <1>1
  <1>3. (h + k) % N = IF h + k < N THEN h + k ELSE (h + k) - N
    <2>1. h \in Int /\ k \in Int /\ 0 <= h + k /\ h + k < 2 * N
      OBVIOUS
    <2> QED BY <2>1, RingSum, Zenon
  <1>4. PICK x \in 0 .. 3 * N - 1 : x = t + n + k
    OBVIOUS
  <1>5. x % N = IF x < N THEN x ELSE IF x < 2 * N THEN x - N ELSE x - 2 * N
    <2>1. x \in Int
      OBVIOUS
    <2>2. /\ 0 <= x /\ x < N => x % N = x
          /\ N <= x /\ x < 2 * N => x % N = x - N
          /\ 2 * N <= x /\ x < 3 * N => x % N = x - 2 * N
      BY <2>1, RingLaps, Zenon
    <2> QED BY <2>2
  <1>6. (h + k) % N = x % N
    BY <1>1, <1>2, <1>3, <1>4, <1>5
  <1> QED BY <1>2, <1>4, <1>6

(* One step back. *)
LEMMA RingBack ==
    ASSUME NEW N \in Nat \ {0}, NEW t \in 0 .. N - 1, NEW n \in 0 .. N - 1
    PROVE  (((t + (n + 1)) % N) - 1 + N) % N = (t + n) % N
  <1>1. (t + (n + 1)) % N = IF t + (n + 1) < N THEN t + (n + 1) ELSE (t + (n + 1)) - N
    <2>1. t \in Int /\ n + 1 \in Int /\ 0 <= t + (n + 1) /\ t + (n + 1) < 2 * N
      OBVIOUS
    <2> QED BY <2>1, RingSum, Zenon
  <1>2. PICK h \in 0 .. N - 1 : h = (t + (n + 1)) % N
    BY <1>1
  <1>3. ((h - 1) + N) % N = IF (h - 1) + N < N THEN (h - 1) + N ELSE ((h - 1) + N) - N
    <2>1. h - 1 \in Int /\ N \in Int /\ 0 <= (h - 1) + N /\ (h - 1) + N < 2 * N
      OBVIOUS
    <2> QED BY <2>1, RingSum, Zenon
  <1>4. (t + n) % N = IF t + n < N THEN t + n ELSE (t + n) - N
    <2>1. t \in Int /\ n \in Int /\ 0 <= t + n /\ t + n < 2 * N
      OBVIOUS
    <2> QED BY <2>1, RingSum, Zenon
  <1>5. ((h - 1) + N) % N = (t + n) % N
    BY <1>1, <1>2, <1>3, <1>4
  <1> QED BY <1>2, <1>5

(* Slots at different distances are different slots. *)
LEMMA RingApart ==
    ASSUME NEW N \in Nat \ {0}, NEW t \in 0 .. N - 1, NEW i \in 0 .. N - 1,
           NEW j \in 0 .. N - 1, (t + i) % N = (t + j) % N
    PROVE  i = j
  <1>1. (t + i) % N = IF t + i < N THEN t + i ELSE (t + i) - N
    <2>1. t \in Int /\ i \in Int /\ 0 <= t + i /\ t + i < 2 * N
      OBVIOUS
    <2> QED BY <2>1, RingSum, Zenon
  <1>2. (t + j) % N = IF t + j < N THEN t + j ELSE (t + j) - N
    <2>1. t \in Int /\ j \in Int /\ 0 <= t + j /\ t + j < 2 * N
      OBVIOUS
    <2> QED BY <2>1, RingSum, Zenon
  <1> QED BY <1>1, <1>2
=============================================================================
