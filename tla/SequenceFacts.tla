--------------------------- MODULE SequenceFacts ---------------------------
(***************************************************************************)
(* Facts about sequences that the proofs about byte streams and queues     *)
(* need, for every length: what concatenation, SubSeq and FlattenSeq do.   *)
(*                                                                         *)
(* FlattenSeq is a recursive function.  That the recursion defines one,    *)
(* and what it computes, is proved by induction; the induction is over a   *)
(* set of numbers (SetInduction), which follows from the least element     *)
(* that every set of naturals has.                                         *)
(***************************************************************************)
EXTENDS Naturals, Sequences, SequencesExt, WellFoundedInduction, NaturalsInduction,
        SequenceTheorems, TLAPS

-----------------------------------------------------------------------------
(* Induction                                                               *)

\* A set of natural numbers that is not empty has a least element.
LEMMA LeastElement ==
  ASSUME NEW T \in SUBSET Nat, T # {}
  PROVE  \E x \in T : \A y \in T : x <= y
<1>1. \E x \in T : \A y \in T : ~(<<y, x>> \in OpToRel(<, Nat))
  BY NatLessThanWellFounded, WFMin
<1>2. PICK x \in T : \A y \in T : ~(<<y, x>> \in OpToRel(<, Nat))
  BY <1>1
<1>3. ASSUME NEW y \in T PROVE x <= y
  <2>1. y < x => <<y, x>> \in OpToRel(<, Nat)
    BY DEF OpToRel
  <2>2. ~(y < x)
    BY <1>2, <2>1
  <2>3. x \in Nat /\ y \in Nat
    OBVIOUS
  <2> QED
    BY <2>2, <2>3
<1> QED
  BY <1>2, <1>3

\* Induction, for a set T of numbers in place of a predicate.
LEMMA SetInduction ==
  ASSUME NEW T, 0 \in T, \A n \in Nat : n \in T => n + 1 \in T
  PROVE  Nat \subseteq T
<1>1. SUFFICES ASSUME Nat \ T # {} PROVE FALSE
  OBVIOUS
<1>2. PICK x \in Nat \ T : \A y \in Nat \ T : x <= y
  BY <1>1, LeastElement
<1>3. x - 1 \in Nat /\ x - 1 \in T
  BY <1>2
<1> QED
  BY <1>2, <1>3

-----------------------------------------------------------------------------
(* Concatenation                                                           *)

\* Two ways to put three sequences together.  The name keeps the provers from
\* unfolding the concatenations; so do Joins, SameJoin and SplitsAfter below.
Associates(a, b, c) == (a \o b) \o c = a \o (b \o c)

\* Putting sequences together is associative.
LEMMA ConcatAssociates ==
  ASSUME NEW R, NEW a \in Seq(R), NEW b \in Seq(R), NEW c \in Seq(R)
  PROVE  Associates(a, b, c)
  BY ConcatAssociative, SMT DEF Associates

\* What is put after the same sequence can be told from the whole.
LEMMA ConcatCancelLeft ==
  ASSUME NEW R, NEW a \in Seq(R), NEW b \in Seq(R), NEW c \in Seq(R), a \o b = a \o c
  PROVE  b = c
  BY ConcatSimplifications

\* a and b together are c.
Joins(a, b, c) == a \o b = c

\* The whole of a and b is that of c and d.
SameJoin(a, b, c, d) == a \o b = c \o d

\* a is c and then e; d is e and then b.
SplitsAfter(a, b, c, d, e) ==
    /\ \A i \in 1..Len(c) : a[i] = c[i]
    /\ a = c \o e
    /\ e \o b = d

\* Two ways to take one sequence apart: the shorter first part is a prefix of the
\* longer, and what the longer has more begins the other second part.
LEMMA SplitPrefix ==
  ASSUME NEW R, NEW a \in Seq(R), NEW b \in Seq(R), NEW c \in Seq(R), NEW d \in Seq(R),
         SameJoin(a, b, c, d), Len(c) <= Len(a)
  PROVE  /\ SubSeq(a, Len(c) + 1, Len(a)) \in Seq(R)
         /\ SplitsAfter(a, b, c, d, SubSeq(a, Len(c) + 1, Len(a)))
<1> USE DEF SameJoin
<1>0. Len(a) \in Nat /\ Len(b) \in Nat /\ Len(c) \in Nat /\ Len(d) \in Nat
  BY LenProperties
<1>1. \A i \in 1..(Len(a) + Len(b)) : (a \o b)[i] = IF i <= Len(a) THEN a[i] ELSE b[i - Len(a)]
  BY ConcatProperties
<1>2. \A i \in 1..(Len(c) + Len(d)) : (c \o d)[i] = IF i <= Len(c) THEN c[i] ELSE d[i - Len(c)]
  BY ConcatProperties
<1>3. \A i \in 1..Len(c) : a[i] = c[i]
  <2> TAKE i \in 1..Len(c)
  <2>1. i \in 1..(Len(a) + Len(b)) /\ i \in 1..(Len(c) + Len(d)) /\ i <= Len(a) /\ i <= Len(c)
    BY <1>0
  <2>2. (a \o b)[i] = a[i]
    BY <2>1, <1>1
  <2>3. (c \o d)[i] = c[i]
    BY <2>1, <1>2
  <2> QED
    BY <2>2, <2>3
<1>4. PICK e : e = SubSeq(a, Len(c) + 1, Len(a))
  OBVIOUS
<1>5. \A i \in (Len(c) + 1)..Len(a) : a[i] \in R
  BY <1>0, ElementOfSeq
<1>6. /\ e \in Seq(R) /\ Len(e) = Len(a) - Len(c)
      /\ \A i \in 1..(Len(a) - Len(c)) : e[i] = a[Len(c) + i]
  <2>1. /\ e \in Seq(R)
        /\ Len(e) = IF Len(c) + 1 <= Len(a) THEN Len(a) - (Len(c) + 1) + 1 ELSE 0
        /\ \A i \in 1..(Len(a) - (Len(c) + 1) + 1) : e[i] = a[(Len(c) + 1) + i - 1]
    BY <1>0, <1>4, <1>5, SubSeqProperties
  <2>2. Len(e) = Len(a) - Len(c)
    BY <1>0, <2>1
  <2>3. ASSUME NEW i \in 1..(Len(a) - Len(c)) PROVE e[i] = a[Len(c) + i]
    <3>1. i \in 1..(Len(a) - (Len(c) + 1) + 1) /\ (Len(c) + 1) + i - 1 = Len(c) + i
      BY <1>0
    <3> QED
      BY <3>1, <2>1
  <2> QED
    BY <2>1, <2>2, <2>3
<1>7. a = c \o e
  <2>1. PICK u : u = c \o e
    OBVIOUS
  <2>2. /\ u \in Seq(R) /\ Len(u) = Len(c) + Len(e)
        /\ \A i \in 1..(Len(c) + Len(e)) : u[i] = IF i <= Len(c) THEN c[i] ELSE e[i - Len(c)]
    BY <2>1, <1>6, ConcatProperties
  <2>3. Len(u) = Len(a)
    BY <2>2, <1>6, <1>0
  <2>4. ASSUME NEW i \in 1..Len(a) PROVE u[i] = a[i]
    <3>1. i \in 1..(Len(c) + Len(e))
      BY <2>3, <2>2
    <3>2. CASE i <= Len(c)
      <4>1. i \in 1..Len(c) /\ u[i] = c[i]
        BY <3>1, <3>2, <2>2, <1>0
      <4> QED
        BY <4>1, <1>3
    <3>3. CASE ~(i <= Len(c))
      <4>1. PICK j : j = i - Len(c)
        OBVIOUS
      <4>2. j \in 1..(Len(a) - Len(c)) /\ Len(c) + j = i
        BY <4>1, <3>3, <1>0
      <4>3. u[i] = e[j]
        BY <4>1, <3>1, <3>3, <2>2
      <4>4. e[j] = a[Len(c) + j]
        BY <4>2, <1>6
      <4> QED
        BY <4>2, <4>3, <4>4
    <3> QED
      BY <3>2, <3>3
  <2>5. u = a
    BY <2>2, <2>3, <2>4, SeqEqual
  <2> QED
    BY <2>1, <2>5
<1>8. e \o b = d
  <2>1. Associates(c, e, b)
    BY <1>6, ConcatAssociates
  <2>2. (c \o e) \o b = c \o (e \o b)
    BY <2>1 DEF Associates
  <2>3. c \o (e \o b) = c \o d
    BY <2>2, <1>7
  <2>4. e \o b \in Seq(R)
    BY <1>6, ConcatProperties
  <2>5. PICK w \in Seq(R) : w = e \o b
    BY <2>4
  <2>6. c \o w = c \o d
    BY <2>3, <2>5
  <2> QED
    BY <2>5, <2>6, ConcatCancelLeft
<1> QED
  BY <1>3, <1>4, <1>6, <1>7, <1>8 DEF SplitsAfter

\* The first n elements of a sequence and the others.
LEMMA SplitAt ==
  ASSUME NEW R, NEW s \in Seq(R), NEW n \in 1..Len(s)
  PROVE  /\ SubSeq(s, 1, n) \in Seq(R) /\ SubSeq(s, n + 1, Len(s)) \in Seq(R)
         /\ Joins(SubSeq(s, 1, n), SubSeq(s, n + 1, Len(s)), s)
<1>1. Len(s) \in Nat
  BY LenProperties
<1>2. SubSeq(s, 1, n) \in Seq(R)
  <2>1. \A i \in 1..n : s[i] \in R
    BY <1>1, ElementOfSeq
  <2> QED
    BY <1>1, <2>1, SubSeqProperties
<1>3. SubSeq(s, n + 1, Len(s)) \in Seq(R)
  <2>1. \A i \in (n + 1)..Len(s) : s[i] \in R
    BY <1>1, ElementOfSeq
  <2> QED
    BY <1>1, <2>1, SubSeqProperties
<1>4. SubSeq(s, 1, n) \o SubSeq(s, n + 1, Len(s)) = SubSeq(s, 1, Len(s))
  <2>1. 1 \in 1..(Len(s) + 1) /\ n \in (1 - 1)..Len(s) /\ Len(s) \in n..Len(s)
    BY <1>1
  <2> QED
    BY <2>1, ConcatAdjacentSubSeq
<1>5. SubSeq(s, 1, Len(s)) = s
  BY SubSeqFull
<1> QED
  BY <1>2, <1>3, <1>4, <1>5 DEF Joins

-----------------------------------------------------------------------------
(* FlattenSeq                                                              *)

\* g[i] is what FlattenSeq has put together after the first i sequences of s.
Flattens(g, s, n) ==
    /\ n >= 1 => g[1] = s[1]
    /\ \A i \in 1..(n - 1) : g[i + 1] = g[i] \o s[i + 1]

\* The function inside FlattenSeq.
TheFlattening(s) ==
    CHOOSE g : g = [i \in 1..Len(s) |-> IF i = 1 THEN s[i] ELSE g[i-1] \o s[i]]

\* There is only one such g, up to n.
LEMMA FlattensUnique ==
  ASSUME NEW s, NEW n \in Nat, NEW g, NEW h,
         Flattens(g, s, n), Flattens(h, s, n)
  PROVE  \A i \in 1..n : g[i] = h[i]
<1> DEFINE T == {k \in Nat : k \in 1..n => g[k] = h[k]}
<1>1. 0 \in T
  OBVIOUS
<1>2. ASSUME NEW k \in Nat, k \in T PROVE k + 1 \in T
  <2>1. CASE k = 0
    BY <2>1 DEF Flattens
  <2>2. CASE k # 0 /\ k + 1 \in 1..n
    <3>1. k \in 1..(n - 1) /\ k \in 1..n
      BY <2>2
    <3>2. g[k] = h[k]
      BY <3>1, <1>2
    <3>3. g[k + 1] = g[k] \o s[k + 1] /\ h[k + 1] = h[k] \o s[k + 1]
      BY <3>1 DEF Flattens
    <3>4. g[k + 1] = h[k + 1]
      BY <3>2, <3>3
    <3> QED
      BY <3>4
  <2> QED
    BY <2>1, <2>2
<1>3. Nat \subseteq T
  <2> HIDE DEF T
  <2> QED BY <1>1, <1>2, SetInduction
<1> QED
  BY <1>3

\* There is such a g.
LEMMA FlattensExists ==
  ASSUME NEW s, NEW n \in Nat
  PROVE  \E g : Flattens(g, s, n)
<1> DEFINE T == {k \in Nat : \E g : Flattens(g, s, k)}
<1>1. 0 \in T
  <2>1. Flattens(s, s, 0)
    BY DEF Flattens
  <2> QED
    BY <2>1
<1>2. ASSUME NEW k \in Nat, k \in T PROVE k + 1 \in T
  <2>1. PICK g : Flattens(g, s, k)
    BY <1>2
  <2> DEFINE h == [i \in 1..(k + 1) |-> IF i <= k THEN g[i]
                                   ELSE IF k = 0 THEN s[1] ELSE g[k] \o s[k + 1]]
  <2>2. h[1] = s[1]
    BY <2>1 DEF Flattens
  <2>3. ASSUME NEW i \in 1..k PROVE h[i + 1] = h[i] \o s[i + 1]
    <3>1. CASE i = k
      <4>1. k # 0 /\ k \in 1..(k + 1) /\ k + 1 \in 1..(k + 1) /\ ~(k + 1 <= k)
        BY <3>1
      <4>2. h[k + 1] = g[k] \o s[k + 1]
        BY <4>1
      <4>3. h[k] = g[k]
        BY <4>1
      <4> QED
        BY <3>1, <4>2, <4>3
    <3>2. CASE i # k
      <4>1. i \in 1..(k - 1) /\ i + 1 \in 1..k
        BY <3>2
      <4>2. g[i + 1] = g[i] \o s[i + 1]
        BY <4>1, <2>1 DEF Flattens
      <4>3. h[i + 1] = g[i + 1] /\ h[i] = g[i]
        BY <4>1
      <4> QED
        BY <4>2, <4>3
    <3> QED
      BY <3>1, <3>2
  <2>4. (k + 1) - 1 = k
    OBVIOUS
  <2>5. Flattens(h, s, k + 1)
    <3> HIDE DEF h
    <3> QED
      BY <2>2, <2>3, <2>4 DEF Flattens
  <2> QED
    BY <2>5
<1>3. Nat \subseteq T
  <2> HIDE DEF T
  <2> QED BY <1>1, <1>2, SetInduction
<1> QED
  BY <1>3

\* FlattenSeq is the last value of such a g: the recursive function in its
\* definition exists.
LEMMA FlattenSeqIs ==
  ASSUME NEW s, NEW n \in Nat, Len(s) = n, n # 0
  PROVE  \E g : Flattens(g, s, n) /\ FlattenSeq(s) = g[n]
<1>1. FlattenSeq(s) = TheFlattening(s)[Len(s)]
  BY Zenon DEF FlattenSeq, TheFlattening
<1>2. PICK h : Flattens(h, s, n)
  BY FlattensExists
<1> DEFINE g == [i \in 1..Len(s) |-> h[i]]
<1>3. g = [i \in 1..Len(s) |-> IF i = 1 THEN s[i] ELSE g[i-1] \o s[i]]
  <2>1. ASSUME NEW i \in 1..n PROVE h[i] = IF i = 1 THEN s[i] ELSE g[i-1] \o s[i]
    <3>1. CASE i = 1
      BY <3>1, <1>2 DEF Flattens
    <3>2. CASE i # 1
      <4>1. PICK j : j = i - 1
        OBVIOUS
      <4>2. j \in 1..(n - 1) /\ j \in 1..Len(s) /\ i = j + 1
        BY <4>1, <3>2
      <4>3. h[j + 1] = h[j] \o s[j + 1]
        BY <4>2, <1>2 DEF Flattens
      <4> QED
        BY <4>1, <4>2, <4>3, <3>2
    <3> QED
      BY <3>1, <3>2
  <2> QED
    BY <2>1
<1>4. PICK f : f = TheFlattening(s)
  OBVIOUS
<1>5. f = [i \in 1..Len(s) |-> IF i = 1 THEN s[i] ELSE f[i-1] \o s[i]]
  <2> HIDE DEF g
  <2> QED
    BY Zenon, <1>3, <1>4 DEF TheFlattening
<1>6. \A i \in 1..n : f[i] = IF i = 1 THEN s[i] ELSE f[i-1] \o s[i]
  BY <1>5
<1>7. f[1] = s[1]
  BY <1>6
<1>8. ASSUME NEW i \in 1..(n - 1) PROVE f[i + 1] = f[i] \o s[i + 1]
  <2>1. PICK j : j = i + 1
    OBVIOUS
  <2>2. j \in 1..n /\ j # 1 /\ j - 1 = i
    BY <2>1
  <2>3. f[j] = f[j - 1] \o s[j]
    BY <2>2, <1>6
  <2> QED
    BY <2>1, <2>2, <2>3
<1> QED
  BY <1>1, <1>4, <1>7, <1>8 DEF Flattens

\* Nothing put together is nothing.
LEMMA FlattenSeqEmpty == FlattenSeq(<<>>) = <<>>
  BY DEF FlattenSeq

\* One more sequence at the end.
LEMMA FlattenSeqAppend ==
  ASSUME NEW R, NEW s \in Seq(Seq(R)), NEW x \in Seq(R)
  PROVE  FlattenSeq(Append(s, x)) = FlattenSeq(s) \o x
<1>1. PICK n \in Nat : n = Len(s)
  BY LenProperties
<1>2. PICK t : t = Append(s, x)
  OBVIOUS
<1>3. /\ Len(t) = n + 1
      /\ \A i \in 1..n : t[i] = s[i]
      /\ t[n + 1] = x
  BY <1>1, <1>2, AppendProperties
<1>4. PICK g : Flattens(g, t, n + 1) /\ FlattenSeq(t) = g[n + 1]
  BY <1>3, FlattenSeqIs
<1>5. CASE n = 0
  <2>1. s = <<>>
    BY <1>1, <1>5, EmptySeq
  <2>2. FlattenSeq(t) = x
    BY <1>3, <1>4, <1>5 DEF Flattens
  <2>3. <<>> \o x = x
    BY ConcatEmptySeq
  <2> QED
    BY <1>2, <2>1, <2>2, <2>3, FlattenSeqEmpty
<1>6. CASE n # 0
  <2>1. PICK h : Flattens(h, s, n) /\ FlattenSeq(s) = h[n]
    BY <1>1, <1>6, FlattenSeqIs
  <2>2. Flattens(g, s, n)
    <3>1. g[1] = s[1]
      BY <1>3, <1>4, <1>6 DEF Flattens
    <3>2. ASSUME NEW i \in 1..(n - 1) PROVE g[i + 1] = g[i] \o s[i + 1]
      <4>1. i \in 1..((n + 1) - 1) /\ i + 1 \in 1..n
        OBVIOUS
      <4>2. g[i + 1] = g[i] \o t[i + 1]
        BY <4>1, <1>4 DEF Flattens
      <4>3. t[i + 1] = s[i + 1]
        BY <4>1, <1>3
      <4> QED
        BY <4>2, <4>3
    <3> QED
      BY <3>1, <3>2 DEF Flattens
  <2>3. g[n] = h[n]
    <3>1. \A i \in 1..n : g[i] = h[i]
      BY <2>1, <2>2, FlattensUnique
    <3> QED
      BY <3>1, <1>6
  <2>4. g[n + 1] = g[n] \o t[n + 1]
    <3>1. n \in 1..((n + 1) - 1)
      BY <1>6
    <3> QED
      BY <3>1, <1>4 DEF Flattens
  <2> QED
    BY <1>2, <1>3, <1>4, <2>1, <2>3, <2>4
<1> QED
  BY <1>5, <1>6

\* Sequences over R put together are a sequence over R.
LEMMA FlattenSeqType ==
  ASSUME NEW R, NEW s \in Seq(Seq(R))
  PROVE  FlattenSeq(s) \in Seq(R)
<1> DEFINE T == {k \in Nat : \A t \in Seq(Seq(R)) : Len(t) = k => FlattenSeq(t) \in Seq(R)}
<1>1. 0 \in T
  <2>1. ASSUME NEW t \in Seq(Seq(R)), Len(t) = 0 PROVE FlattenSeq(t) \in Seq(R)
    <3>1. t = <<>>
      BY <2>1, EmptySeq
    <3> QED
      BY <3>1, FlattenSeqEmpty, EmptySeq
  <2> QED
    BY <2>1
<1>2. ASSUME NEW k \in Nat, k \in T PROVE k + 1 \in T
  <2>1. ASSUME NEW t \in Seq(Seq(R)), Len(t) = k + 1 PROVE FlattenSeq(t) \in Seq(R)
    <3>1. t # <<>>
      BY <2>1
    <3>2. PICK u \in Seq(Seq(R)), x \in Seq(R) : t = Append(u, x)
      BY <3>1, SequenceEmptyOrAppend
    <3>3. Len(u) = k
      BY <2>1, <3>2, AppendProperties, LenProperties
    <3>4. FlattenSeq(u) \in Seq(R)
      BY <3>3, <1>2
    <3>5. FlattenSeq(t) = FlattenSeq(u) \o x
      BY <3>2, FlattenSeqAppend
    <3> QED
      BY <3>4, <3>5, ConcatProperties
  <2> QED
    BY <2>1
<1>3. Nat \subseteq T
  <2> HIDE DEF T
  <2> QED BY <1>1, <1>2, SetInduction
<1>4. Len(s) \in Nat
  BY LenProperties
<1> QED
  BY <1>3, <1>4

\* The first sequence, and the others put together.
LEMMA FlattenSeqHead ==
  ASSUME NEW R, NEW s \in Seq(Seq(R)), s # <<>>
  PROVE  FlattenSeq(s) = Head(s) \o FlattenSeq(Tail(s))
<1> DEFINE P(t) == FlattenSeq(t) = Head(t) \o FlattenSeq(Tail(t))
           T == {k \in Nat : \A t \in Seq(Seq(R)) : Len(t) = k + 1 => P(t)}
<1>1. ASSUME NEW t \in Seq(Seq(R)), Len(t) = 1 PROVE P(t)
  <2>1. PICK u \in Seq(Seq(R)), x \in Seq(R) : t = Append(u, x)
    <3>1. t = <<>> => Len(t) = 0
      BY EmptySeq
    <3>2. t # <<>>
      BY <1>1, <3>1
    <3> QED
      BY <3>2, SequenceEmptyOrAppend
  <2>2. u = <<>>
    BY <2>1, <1>1, AppendProperties, LenProperties, EmptySeq
  <2>3. FlattenSeq(t) = <<>> \o x
    BY <2>1, <2>2, FlattenSeqAppend, FlattenSeqEmpty
  <2>4. Head(t) = x /\ Tail(t) = <<>>
    BY <2>1, <2>2, HeadTailAppend
  <2>5. <<>> \o x = x /\ x \o <<>> = x
    BY ConcatEmptySeq
  <2> QED
    BY <2>3, <2>4, <2>5, FlattenSeqEmpty
<1>2. 0 \in T
  BY <1>1
<1>3. ASSUME NEW k \in Nat, k \in T PROVE k + 1 \in T
  <2>1. ASSUME NEW t \in Seq(Seq(R)), Len(t) = k + 1 + 1 PROVE P(t)
    <3>1. PICK u \in Seq(Seq(R)), x \in Seq(R) : t = Append(u, x)
      <4>1. t # <<>>
        BY <2>1
      <4> QED
        BY <4>1, SequenceEmptyOrAppend
    <3>2. Len(u) = k + 1
      BY <2>1, <3>1, AppendProperties, LenProperties
    <3>3. u # <<>>
      BY <3>2, EmptySeq
    <3>4. P(u)
      BY <3>2, <1>3
    <3>5. Head(u) \in Seq(R) /\ Tail(u) \in Seq(Seq(R))
      BY <3>3, HeadTailProperties
    <3>6. Head(t) = Head(u) /\ Tail(t) = Append(Tail(u), x)
      BY <3>1, <3>3, HeadTailAppend
    <3>7. FlattenSeq(t) = FlattenSeq(u) \o x /\ FlattenSeq(Tail(t)) = FlattenSeq(Tail(u)) \o x
      BY <3>1, <3>5, <3>6, FlattenSeqAppend
    <3>8. FlattenSeq(Tail(u)) \in Seq(R)
      BY <3>5, FlattenSeqType
    <3>9. PICK a \in Seq(R), b \in Seq(R) : a = Head(u) /\ b = FlattenSeq(Tail(u))
      BY <3>5, <3>8
    <3>10. Associates(a, b, x)
      BY ConcatAssociates
    <3>11. FlattenSeq(t) = (a \o b) \o x /\ Head(t) \o FlattenSeq(Tail(t)) = a \o (b \o x)
      BY <3>4, <3>6, <3>7, <3>9
    <3> QED
      BY <3>10, <3>11 DEF Associates
  <2> HIDE DEF P
  <2> QED
    BY <2>1
<1>4. Nat \subseteq T
  <2> HIDE DEF T
  <2> QED BY <1>2, <1>3, SetInduction
<1>5. PICK k \in Nat : Len(s) = k + 1
  <2>1. Len(s) \in Nat \ {0}
    BY EmptySeq
  <2>2. Len(s) - 1 \in Nat /\ Len(s) = (Len(s) - 1) + 1
    BY <2>1
  <2> QED
    BY <2>2
<1> QED
  BY <1>4, <1>5
=============================================================================
