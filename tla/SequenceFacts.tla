---------------------------- MODULE SequenceFacts ----------------------------
(***************************************************************************)
(* Induction and recursion over numbers without an operator parameter, and *)
(* what they give for FlattenSeq and for folds over sequences.             *)
(***************************************************************************)
EXTENDS Integers, Sequences, SequencesExt, WellFoundedInduction, SequenceTheorems, TLAPS

(* Short sequences, and sequences of fewer elements. *)
LEMMA SeqMonotone ==
  ASSUME NEW S, NEW T, S \subseteq T
  PROVE  Seq(S) \subseteq Seq(T)
<1> SUFFICES ASSUME NEW s \in Seq(S) PROVE s \in Seq(T)
  OBVIOUS
<1> QED OBVIOUS

LEMMA TwoConcat ==
  ASSUME NEW X, NEW a \in X, NEW b \in X
  PROVE  <<a, b>> = <<a>> \o <<b>>
<1>1. <<a>> \in Seq(X) /\ <<b>> \in Seq(X) /\ <<a, b>> \in Seq(X)
  OBVIOUS
<1>2. Append(<<a>>, b) = <<a>> \o <<b>>
  BY <1>1, AppendIsConcat
<1>3. Append(<<a>>, b) = <<a, b>>
  <2>1. Append(<<a>>, b) \in Seq(X) /\ Len(Append(<<a>>, b)) = 2
        /\ Append(<<a>>, b)[1] = a /\ Append(<<a>>, b)[2] = b
    BY <1>1, AppendProperties
  <2>2. <<a, b>> \in Seq(X) /\ Len(<<a, b>>) = 2 /\ <<a, b>>[1] = a /\ <<a, b>>[2] = b
    BY <1>1
  <2> DEFINE p == Append(<<a>>, b)
             q == <<a, b>>
  <2>3. p \in Seq(X) /\ q \in Seq(X) /\ Len(p) = Len(q) /\ \A i \in 1..Len(p) : i = 1 \/ i = 2
    BY <2>1, <2>2
  <2>4. p[1] = q[1] /\ p[2] = q[2]
    BY <2>1, <2>2
  <2> HIDE DEF p, q
  <2>5. \A i \in 1..Len(p) : p[i] = q[i]
    BY <2>3, <2>4
  <2>6. p = q
    BY <2>3, <2>5, SeqEqual
  <2> QED BY <2>6 DEF p, q
<1> QED BY <1>2, <1>3

LEMMA FourType ==
  ASSUME NEW X, NEW a \in X, NEW b \in X, NEW c \in X, NEW d \in X
  PROVE  <<a, b, c, d>> \in Seq(X) /\ Len(<<a, b, c, d>>) = 4
OBVIOUS

LEMMA FiveType ==
  ASSUME NEW X, NEW a \in X, NEW b \in X, NEW c \in X, NEW d \in X, NEW e \in X
  PROVE  <<a, b, c, d, e>> \in Seq(X) /\ Len(<<a, b, c, d, e>>) = 5
OBVIOUS

LEMMA OnlyOne ==
  ASSUME NEW X, NEW s \in Seq(X), NEW k \in 1..Len(s)
  PROVE  SubSeq(s, k, k) = <<s[k]>>
<1> DEFINE p == SubSeq(s, k, k)
           q == <<s[k]>>
<1>1. k \in Nat /\ k..k = {k} /\ k \in k..k
  OBVIOUS
<1>2. p \in Seq(X) /\ Len(p) = 1 /\ p[1] = s[k]
  OBVIOUS
<1>3. q \in Seq(X) /\ Len(q) = 1 /\ q[1] = s[k]
  OBVIOUS
<1> HIDE DEF p, q
<1>4. \A i \in 1..Len(p) : p[i] = q[i]
  <2>1. \A i \in 1..1 : i = 1
    OBVIOUS
  <2> QED BY <1>2, <1>3, <2>1
<1>5. p = q
  BY <1>2, <1>3, <1>4, SeqEqual
<1> QED BY <1>5 DEF p, q

-----------------------------------------------------------------------------
(* Every set of naturals that has an element has a least one. *)
LEMMA LeastNumber ==
  ASSUME NEW T \in SUBSET Nat, T # {}
  PROVE  \E n \in T : \A m \in T : n <= m
<1> DEFINE R == OpToRel(<, Nat)
<1>1. IsWellFoundedOn(R, Nat)
  BY NatLessThanWellFounded
<1>2. ASSUME NEW x \in Nat, NEW y \in Nat, x < y PROVE <<x, y>> \in R
  BY <1>2 DEF OpToRel
<1> HIDE DEF R
<1>3. PICK n \in T : \A m \in T : <<m, n>> \notin R
   BY <1>1, WFMin
<1>4. ASSUME NEW m \in T PROVE n <= m
  <2>1. <<m, n>> \notin R
    BY <1>3
  <2>2. n \in Nat /\ m \in Nat
    OBVIOUS
  <2>3. ~(m < n)
    BY <2>1, <2>2, <1>2
  <2> QED
    BY <2>2, <2>3
<1> QED
  BY <1>4

(* Induction over the numbers from a to b, with a set for the formula. *)
LEMMA Induction ==
  ASSUME NEW a \in Nat, NEW b \in Nat, NEW T, a \in T,
         \A k \in a..b-1 : k \in T => k + 1 \in T
  PROVE  \A k \in a..b : k \in T
<1> DEFINE Bad == {k \in a..b : k \notin T}
<1> SUFFICES ASSUME Bad # {} PROVE FALSE
  OBVIOUS
<1>1. Bad \in SUBSET Nat
  OBVIOUS
<1>2. PICK k \in Bad : \A m \in Bad : k <= m
  <2> HIDE DEF Bad
  <2> QED BY <1>1, LeastNumber
<1>3. k # a /\ k - 1 \in a..b-1 /\ k - 1 \in a..b /\ (k - 1) + 1 = k
  OBVIOUS
<1>4. k - 1 \in T
  BY <1>2, <1>3
<1> QED
  BY <1>3, <1>4

(* A sequence is reached from the empty one by appending. *)
LEMMA ByAppending ==
  ASSUME NEW S, NEW s \in Seq(S)
  PROVE  /\ SubSeq(s, 1, 0) = << >> /\ SubSeq(s, 1, Len(s)) = s
         /\ \A k \in 0..Len(s) : SubSeq(s, 1, k) \in Seq(S)
         /\ \A k \in 0..Len(s)-1 : /\ s[k + 1] \in S
                                   /\ SubSeq(s, 1, k + 1) = Append(SubSeq(s, 1, k), s[k + 1])
OBVIOUS

(* Induction over sequences, with a set for the formula. *)
LEMMA SequenceInduction ==
  ASSUME NEW S, NEW T, << >> \in T,
         \A s \in Seq(S), e \in S : s \in T => Append(s, e) \in T
  PROVE  \A s \in Seq(S) : s \in T
<1> SUFFICES ASSUME NEW s \in Seq(S) PROVE s \in T
  OBVIOUS
<1> DEFINE n == Len(s)
           U == {k \in 0..n : SubSeq(s, 1, k) \in T}
<1>1. n \in Nat
  OBVIOUS
<1>2. 0 \in U
  <2>1. SubSeq(s, 1, 0) = << >> /\ 0 \in 0..n
    BY ByAppending
  <2> HIDE DEF n
  <2> QED BY <2>1
<1>3. ASSUME NEW k \in 0..n-1, k \in U PROVE k + 1 \in U
  <2>1. /\ SubSeq(s, 1, k) \in Seq(S) /\ s[k + 1] \in S
        /\ SubSeq(s, 1, k + 1) = Append(SubSeq(s, 1, k), s[k + 1])
    BY ByAppending
  <2>2. SubSeq(s, 1, k + 1) \in T
    BY <1>3, <2>1
  <2> QED BY <2>2
<1>4. n \in U
  <2>1. \A k \in 0..n : k \in U
    <3> HIDE DEF U, n
    <3> QED BY <1>1, <1>2, <1>3, Induction
  <2> QED BY <2>1
<1> QED BY <1>4, ByAppending

(* The same, from the end of the sequence to its beginning. *)
LEMMA SequenceInductionBackwards ==
  ASSUME NEW S, NEW T, << >> \in T,
         \A s \in Seq(S), e \in S : s \in T => <<e>> \o s \in T
  PROVE  \A s \in Seq(S) : s \in T
<1> SUFFICES ASSUME NEW s \in Seq(S) PROVE s \in T
  OBVIOUS
<1> DEFINE n == Len(s)
           from(k) == SubSeq(s, n + 1 - k, n)
           U == {k \in 0..n : from(k) \in T}
<1>1. n \in Nat
  OBVIOUS
<1>2. 0 \in U
  <2>1. from(0) = << >>
    OBVIOUS
  <2> HIDE DEF n, from
  <2> QED BY <1>1, <2>1
<1>3. ASSUME NEW k \in 0..n-1, k \in U PROVE k + 1 \in U
  <2>1. from(k) \in Seq(S) /\ s[n - k] \in S
    OBVIOUS
  <2>2. from(k + 1) = <<s[n - k]>> \o from(k)
    OBVIOUS
  <2> HIDE DEF n, from
  <2>3. from(k + 1) \in T
    BY <1>3, <2>1, <2>2
  <2> QED BY <1>1, <2>3
<1>4. from(n) \in T
  <2> HIDE DEF n, from
  <2>1. \A k \in 0..n : k \in U
    <3> HIDE DEF U
    <3> QED BY <1>1, <1>2, <1>3, Induction
  <2> QED BY <1>1, <2>1
<1>5. from(n) = s
  OBVIOUS
<1> QED BY <1>4, <1>5

(* f starts with base and goes on with step. *)
Iterates(f, S, base, step, n) ==
  /\ f \in [0..n -> S]
  /\ f[0] = base
  /\ \A i \in 1..n : f[i] = step[<<i, f[i-1]>>]

(* A function can be defined by recursion over 0..n. *)
LEMMA RecursionTo ==
  ASSUME NEW S, NEW base \in S, NEW step \in [Nat \X S -> S], NEW n \in Nat
  PROVE  \E f : Iterates(f, S, base, step, n)
<1> DEFINE Defined(k) == \E f \in [0..k -> S] :
                           f[0] = base /\ \A i \in 1..k : f[i] = step[<<i, f[i-1]>>]
           T == {k \in Nat : Defined(k)}
<1>1. Defined(0)
  <2> DEFINE f == [i \in 0..0 |-> base]
  <2>1. f \in [0..0 -> S] /\ f[0] = base
    OBVIOUS
  <2>2. \A i \in 1..0 : f[i] = step[<<i, f[i-1]>>]
    OBVIOUS
  <2> HIDE DEF f
  <2> QED
    BY <2>1, <2>2
<1>2. ASSUME NEW k \in Nat, Defined(k) PROVE Defined(k + 1)
  <2>1. PICK f \in [0..k -> S] : f[0] = base /\ \A i \in 1..k : f[i] = step[<<i, f[i-1]>>]
    BY <1>2
  <2> DEFINE g == [i \in 0..k+1 |-> IF i = k + 1 THEN step[<<k + 1, f[k]>>] ELSE f[i]]
  <2>2. g \in [0..k+1 -> S]
    <3>1. step[<<k + 1, f[k]>>] \in S
      BY <2>1
    <3>2. \A i \in 0..k+1 : i # k + 1 => i \in 0..k
      OBVIOUS
    <3> QED
      BY <3>1, <3>2
  <2>3. g[0] = base
    BY <2>1
  <2>4. ASSUME NEW i \in 1..k+1 PROVE g[i] = step[<<i, g[i-1]>>]
    <3>1. i \in 0..k+1 /\ i - 1 \in 0..k+1 /\ i - 1 # k + 1
      OBVIOUS
    <3>2. CASE i = k + 1
      BY <3>1, <3>2
    <3>3. CASE i # k + 1
      BY <2>1, <3>1, <3>3, i \in 1..k
    <3> QED
      BY <3>2, <3>3
  <2> QED
    BY <2>2, <2>3, <2>4
<1> HIDE DEF Defined
<1>3. 0 \in T /\ \A k \in 0..n-1 : k \in T => k + 1 \in T
  BY <1>1, <1>2
<1>4. n \in T
  <2> HIDE DEF T
  <2> QED BY <1>3, Induction
<1> QED
  BY <1>4 DEF Defined, Iterates

(* f is what FlattenSeq's recursion computes. *)
Flattens(f, X, seqs) ==
  /\ f \in [1..Len(seqs) -> Seq(X)]
  /\ FlattenSeq(seqs) = f[Len(seqs)]
  /\ f[1] = seqs[1]
  /\ \A i \in 2..Len(seqs) : f[i] = f[i-1] \o seqs[i]

LEMMA FlattenStep ==
  ASSUME NEW X, NEW seqs \in Seq(Seq(X)), seqs # << >>
  PROVE  \E f : Flattens(f, X, seqs)
<1> DEFINE n == Len(seqs)
           step == [p \in Nat \X Seq(X) |-> IF p[1] \in 1..n THEN p[2] \o seqs[p[1]] ELSE << >>]
<1>1. n \in Nat \ {0} /\ << >> \in Seq(X) /\ \A i \in 1..n : seqs[i] \in Seq(X)
  BY EmptySeq
<1>2. step \in [Nat \X Seq(X) -> Seq(X)]
  <2>1. ASSUME NEW p \in Nat \X Seq(X)
        PROVE  (IF p[1] \in 1..n THEN p[2] \o seqs[p[1]] ELSE << >>) \in Seq(X)
     BY <1>1, ConcatProperties
  <2> QED BY <2>1
<1>3. ASSUME NEW i \in 1..n, NEW t \in Seq(X) PROVE step[<<i, t>>] = t \o seqs[i]
  <2>1. <<i, t>> \in Nat \X Seq(X) /\ i \in 1..n
    BY <1>1
  <2> QED BY <2>1
<1> HIDE DEF step, n
<1>4. PICK g \in [0..n -> Seq(X)] : g[0] = << >> /\ \A i \in 1..n : g[i] = step[<<i, g[i-1]>>]
  <2>1. \E g : Iterates(g, Seq(X), << >>, step, n)
    BY <1>1, <1>2, RecursionTo
  <2> QED BY <2>1 DEF Iterates
<1>5. ASSUME NEW i \in 1..n PROVE g[i] \in Seq(X) /\ g[i-1] \in Seq(X) /\ g[i] = g[i-1] \o seqs[i]
  <2>1. i \in 0..n /\ i - 1 \in 0..n
    BY <1>1
  <2>2. g[i] \in Seq(X) /\ g[i-1] \in Seq(X)
    BY <2>1
  <2> QED BY <1>3, <1>4, <2>2
<1>6. g[1] = seqs[1]
  <2>1. 1 \in 1..n /\ 1 - 1 = 0
    BY <1>1
  <2>2. g[1] = << >> \o seqs[1]
    BY <1>4, <1>5, <2>1
  <2> QED BY <1>1, <2>1, <2>2, ConcatEmptySeq
<1> DEFINE h == [i \in 1..n |-> g[i]]
<1>7. h \in [1..n -> Seq(X)]
  BY <1>5
<1>8. h = [i \in 1..n |-> IF i = 1 THEN seqs[i] ELSE h[i-1] \o seqs[i]]
  <2>1. ASSUME NEW i \in 1..n PROVE h[i] = IF i = 1 THEN seqs[i] ELSE h[i-1] \o seqs[i]
    <3>1. CASE i = 1
       BY <3>1, <1>6
    <3>2. CASE i # 1
       BY <1>1, <3>2, <1>5, i - 1 \in 1..n
    <3> QED BY <3>1, <3>2
  <2> QED BY <2>1, Zenon
<1> DEFINE flatten == CHOOSE f : f = [i \in 1..n |-> IF i = 1 THEN seqs[i] ELSE f[i-1] \o seqs[i]]
<1> HIDE DEF h
<1>9. flatten = [i \in 1..n |-> IF i = 1 THEN seqs[i] ELSE flatten[i-1] \o seqs[i]]
   BY <1>8
<1>10. FlattenSeq(seqs) = flatten[n]
   BY <1>1 DEF FlattenSeq, n
<1> HIDE DEF flatten
<1>11. flatten[1] = seqs[1] /\ \A i \in 2..n : flatten[i] = flatten[i-1] \o seqs[i]
  <2>1. 1 \in 1..n /\ 2..n \subseteq 1..n /\ 1 \notin 2..n
    BY <1>1
  <2> QED BY <1>9, <2>1
<1>12. \A i \in 1..n : flatten[i] = g[i]
  <2> DEFINE T == {i \in 1..n : flatten[i] = g[i]}
  <2>1. 1 \in T
    BY <1>1, <1>6, <1>11
  <2>2. ASSUME NEW k \in 1..n-1, k \in T PROVE k + 1 \in T
    <3>1. k + 1 \in 2..n /\ k + 1 \in 1..n /\ (k + 1) - 1 = k
      BY <1>1
    <3>2. flatten[k + 1] = flatten[k] \o seqs[k + 1]
      BY <1>11, <3>1
    <3>3. g[k + 1] = g[k] \o seqs[k + 1]
      BY <1>5, <3>1
    <3> QED BY <2>2, <3>1, <3>2, <3>3
  <2>3. \A i \in 1..n : i \in T
    <3> HIDE DEF T
    <3>1. 1 \in Nat /\ n \in Nat
       BY <1>1
    <3> QED BY <2>1, <2>2, <3>1, Induction
  <2> QED BY <2>3
<1>13. flatten \in [1..n -> Seq(X)]
  BY <1>9, <1>12, <1>5
<1> QED
  BY <1>10, <1>11, <1>13 DEF n, Flattens

(* FlattenSeq, from the left. *)
LEMMA FlattenEmpty == FlattenSeq(<< >>) = << >>
BY DEF FlattenSeq

LEMMA FlattenType ==
  ASSUME NEW X, NEW seqs \in Seq(Seq(X))
  PROVE  FlattenSeq(seqs) \in Seq(X)
<1>1. CASE seqs = << >>
  BY <1>1, FlattenEmpty, EmptySeq
<1>2. CASE seqs # << >>
  <2>1. Len(seqs) \in 1..Len(seqs)
    BY <1>2, EmptySeq
  <2>2. PICK f : Flattens(f, X, seqs)
    BY <1>2, FlattenStep
  <2> QED BY <2>1, <2>2 DEF Flattens
<1> QED BY <1>1, <1>2

LEMMA FlattenAppend ==
  ASSUME NEW X, NEW seqs \in Seq(Seq(X)), NEW e \in Seq(X)
  PROVE  FlattenSeq(Append(seqs, e)) = FlattenSeq(seqs) \o e
<1> DEFINE n == Len(seqs)
           ext == Append(seqs, e)
<1>1. /\ n \in Nat /\ ext \in Seq(Seq(X)) /\ ext # << >>
      /\ Len(ext) = n + 1 /\ ext[n + 1] = e /\ \A i \in 1..n : ext[i] = seqs[i]
  BY AppendProperties
<1> HIDE DEF ext, n
<1>2. PICK f : Flattens(f, X, ext)
  BY <1>1, FlattenStep
<1>3. /\ f \in [1..Len(ext) -> Seq(X)]
       /\ FlattenSeq(ext) = f[Len(ext)]
       /\ f[1] = ext[1]
       /\ \A i \in 2..Len(ext) : f[i] = f[i-1] \o ext[i]
  BY <1>2 DEF Flattens
<1>4. CASE n = 0
  <2>1. seqs = << >>
    BY <1>4, EmptySeq DEF n
  <2>2. FlattenSeq(ext) = e
    BY <1>1, <1>3, <1>4
  <2> QED BY <2>1, <2>2, FlattenEmpty, ConcatEmptySeq DEF ext
<1>5. CASE n # 0
  <2>1. seqs # << >>
    BY <1>5, EmptySeq DEF n
  <2>6. PICK g : Flattens(g, X, seqs)
    BY <2>1, FlattenStep
  <2>2. /\ g \in [1..n -> Seq(X)]
        /\ FlattenSeq(seqs) = g[n]
        /\ g[1] = seqs[1]
        /\ \A i \in 2..n : g[i] = g[i-1] \o seqs[i]
    BY <2>6 DEF n, Flattens
  <2>3. \A i \in 1..n : f[i] = g[i]
    <3> DEFINE T == {i \in 1..n : f[i] = g[i]}
    <3>1. 1 \in T
      BY <1>1, <1>3, <1>5, <2>2, 1 \in 1..n
    <3>2. ASSUME NEW k \in 1..n-1, k \in T PROVE k + 1 \in T
      <4>1. k + 1 \in 2..n /\ k + 1 \in 1..n /\ k + 1 \in 2..Len(ext) /\ (k + 1) - 1 = k
        BY <1>1
      <4>2. f[k + 1] = f[k] \o ext[k + 1]
        BY <1>3, <4>1
      <4>3. g[k + 1] = g[k] \o seqs[k + 1]
        BY <2>2, <4>1
      <4> QED BY <1>1, <3>2, <4>1, <4>2, <4>3
    <3>3. \A i \in 1..n : i \in T
      <4> HIDE DEF T
      <4> QED BY <1>1, <3>1, <3>2, Induction
    <3> QED BY <3>3
  <2>4. n \in 1..n /\ n + 1 \in 2..Len(ext) /\ (n + 1) - 1 = n
    BY <1>1, <1>5
  <2>5. f[n + 1] = f[n] \o ext[n + 1]
    BY <1>3, <2>4
  <2> QED BY <1>1, <1>3, <2>2, <2>3, <2>4, <2>5 DEF ext
<1> QED BY <1>4, <1>5

LEMMA FlattenOne ==
  ASSUME NEW X, NEW e \in Seq(X)
  PROVE  FlattenSeq(<<e>>) = e
<1>1. <<e>> = Append(<< >>, e) /\ << >> \in Seq(Seq(X))
  OBVIOUS
<1>2. FlattenSeq(Append(<< >>, e)) = FlattenSeq(<< >>) \o e
  BY <1>1, FlattenAppend
<1> QED BY <1>1, <1>2, FlattenEmpty, ConcatEmptySeq

(* The formula of ConcatAssociative, as an operator. *)
Associates(s, t, u) == (s \o t) \o u = s \o (t \o u)

LEMMA ConcatAgain ==
  ASSUME NEW X, NEW s \in Seq(X), NEW t \in Seq(X), NEW u \in Seq(X)
  PROVE  Associates(s, t, u)
BY ConcatAssociative DEF Associates

LEMMA ConcatAppend ==
  ASSUME NEW S, NEW s \in Seq(S), NEW t \in Seq(S), NEW e \in S
  PROVE  s \o Append(t, e) = Append(s \o t, e)
<1>1. <<e>> \in Seq(S) /\ Append(t, e) = t \o <<e>> /\ s \o t \in Seq(S)
  BY AppendIsConcat, ConcatProperties
<1> QED BY <1>1, ConcatAssociative, AppendIsConcat

LEMMA FlattenConcat ==
  ASSUME NEW X, NEW s \in Seq(Seq(X)), NEW t \in Seq(Seq(X))
  PROVE  FlattenSeq(s \o t) = FlattenSeq(s) \o FlattenSeq(t)
<1> DEFINE T == {u \in Seq(Seq(X)) : FlattenSeq(s \o u) = FlattenSeq(s) \o FlattenSeq(u)}
<1>1. << >> \in T
  <2>1. s \o << >> = s /\ FlattenSeq(s) \in Seq(X) /\ << >> \in Seq(Seq(X))
    BY FlattenType, EmptySeq, ConcatEmptySeq
  <2> QED BY <2>1, FlattenEmpty, ConcatEmptySeq
<1>2. ASSUME NEW u \in Seq(Seq(X)), NEW e \in Seq(X), u \in T PROVE Append(u, e) \in T
  <2>1. /\ FlattenSeq(s) \in Seq(X) /\ FlattenSeq(u) \in Seq(X) /\ s \o u \in Seq(Seq(X))
        /\ Append(u, e) \in Seq(Seq(X))
    BY FlattenType, ConcatProperties, AppendProperties
  <2>2. s \o Append(u, e) = Append(s \o u, e)
    BY ConcatAppend
  <2>3. FlattenSeq(s \o Append(u, e)) = (FlattenSeq(s) \o FlattenSeq(u)) \o e
    BY <1>2, <2>1, <2>2, FlattenAppend
  <2>4. FlattenSeq(Append(u, e)) = FlattenSeq(u) \o e
    BY FlattenAppend
  <2>5. (FlattenSeq(s) \o FlattenSeq(u)) \o e = FlattenSeq(s) \o (FlattenSeq(u) \o e)
    <3>1. Associates(FlattenSeq(s), FlattenSeq(u), e)
      BY <2>1, ConcatAgain
    <3> QED BY <3>1 DEF Associates
  <2> QED BY <2>1, <2>3, <2>4, <2>5
<1> HIDE DEF T
<1>3. t \in T
  BY <1>1, <1>2, SequenceInduction
<1> QED BY <1>3 DEF T

(* Nor is the whole longer than its elements allow. *)
LEMMA FlattenAtMost ==
  ASSUME NEW X, NEW seqs \in Seq(Seq(X)), NEW c \in Nat,
         \A k \in 1..Len(seqs) : Len(seqs[k]) <= c
  PROVE  Len(FlattenSeq(seqs)) <= c * Len(seqs)
<1> DEFINE Short(s) == (\A k \in 1..Len(s) : Len(s[k]) <= c)
                         => Len(FlattenSeq(s)) <= c * Len(s)
           T == {s \in Seq(Seq(X)) : Short(s)}
<1>1. << >> \in T
  BY FlattenEmpty, EmptySeq
<1>2. ASSUME NEW s \in Seq(Seq(X)), NEW e \in Seq(X), s \in T PROVE Append(s, e) \in T
  <2> DEFINE ext == Append(s, e)
  <2>1. /\ ext \in Seq(Seq(X)) /\ Len(ext) = Len(s) + 1 /\ Len(s) \in Nat
        /\ ext[Len(s) + 1] = e /\ \A k \in 1..Len(s) : ext[k] = s[k]
    BY AppendProperties
  <2>2. FlattenSeq(s) \in Seq(X) /\ FlattenSeq(ext) = FlattenSeq(s) \o e
    BY FlattenType, FlattenAppend
  <2>3. /\ Len(FlattenSeq(ext)) = Len(FlattenSeq(s)) + Len(e)
        /\ Len(FlattenSeq(s)) \in Nat /\ Len(e) \in Nat
    BY <2>2, ConcatProperties
  <2> HIDE DEF ext
  <2>4. ASSUME \A k \in 1..Len(ext) : Len(ext[k]) <= c
        PROVE  Len(FlattenSeq(ext)) <= c * Len(ext)
    <3>1. Len(s) + 1 \in 1..Len(ext) /\ \A k \in 1..Len(s) : k \in 1..Len(ext)
      BY <2>1
    <3>2. Len(e) <= c /\ \A k \in 1..Len(s) : Len(s[k]) <= c
      BY <2>1, <2>4, <3>1
    <3>3. Len(FlattenSeq(s)) <= c * Len(s)
      BY <1>2, <3>2
    <3>4. c * (Len(s) + 1) = c * Len(s) + c
      BY <2>1
    <3> QED BY <2>1, <2>3, <3>2, <3>3, <3>4
  <2> QED BY <2>1, <2>4 DEF ext
<1>3. seqs \in T
  <2> HIDE DEF T
  <2> QED BY <1>1, <1>2, SequenceInduction
<1> QED BY <1>3

(* No element is longer than the whole. *)
LEMMA FlattenLength ==
  ASSUME NEW X, NEW seqs \in Seq(Seq(X))
  PROVE  \A k \in 1..Len(seqs) : Len(seqs[k]) <= Len(FlattenSeq(seqs))
<1> DEFINE Fits(s) == \A k \in 1..Len(s) : Len(s[k]) <= Len(FlattenSeq(s))
           T == {s \in Seq(Seq(X)) : Fits(s)}
<1>1. << >> \in T
  BY EmptySeq
<1>2. ASSUME NEW s \in Seq(Seq(X)), NEW e \in Seq(X), s \in T PROVE Append(s, e) \in T
  <2> DEFINE ext == Append(s, e)
  <2>1. /\ ext \in Seq(Seq(X)) /\ Len(ext) = Len(s) + 1 /\ Len(s) \in Nat
        /\ ext[Len(s) + 1] = e /\ \A k \in 1..Len(s) : ext[k] = s[k]
    BY AppendProperties
  <2>2. FlattenSeq(s) \in Seq(X) /\ FlattenSeq(ext) = FlattenSeq(s) \o e
    BY FlattenType, FlattenAppend
  <2>3. /\ Len(FlattenSeq(ext)) = Len(FlattenSeq(s)) + Len(e)
        /\ Len(FlattenSeq(s)) \in Nat /\ Len(e) \in Nat
    BY <2>2, ConcatProperties
  <2> HIDE DEF ext
  <2>4. ASSUME NEW k \in 1..Len(ext) PROVE Len(ext[k]) <= Len(FlattenSeq(ext))
    <3>1. CASE k = Len(s) + 1
      BY <2>1, <2>3, <3>1
    <3>2. CASE k \in 1..Len(s)
      <4>1. Len(s[k]) <= Len(FlattenSeq(s)) /\ Len(s[k]) \in Nat
        BY <1>2, <3>2
      <4>2. Len(ext[k]) = Len(s[k])
        BY <2>1, <3>2
      <4>3. Len(s[k]) <= Len(FlattenSeq(s)) + Len(e)
        BY <2>3, <4>1
      <4> QED BY <2>3, <4>2, <4>3
    <3> QED BY <2>1, <3>1, <3>2
  <2> QED BY <2>1, <2>4 DEF ext
<1> HIDE DEF T
<1>3. seqs \in T
  BY <1>1, <1>2, SequenceInduction
<1> QED BY <1>3 DEF T
-----------------------------------------------------------------------------
(* Folds. *)
LEMMA MaxInterval ==
  ASSUME NEW n \in Nat, NEW T \in SUBSET (1..n + 1)
  PROVE  /\ n + 1 \in T => Max(T) = n + 1
         /\ T # {} => Max(T) \in T /\ \A k \in T : k <= Max(T)
<1>1. T # {} => \E m \in T : \A k \in T : m >= k
  <2> SUFFICES ASSUME T # {} PROVE \E m \in T : \A k \in T : m >= k
    OBVIOUS
  <2> DEFINE Bounds == {b \in Nat : \A k \in T : k <= b}
  <2>1. Bounds \in SUBSET Nat /\ n + 1 \in Bounds
    OBVIOUS
  <2>2. PICK b \in Bounds : \A m \in Bounds : b <= m
    <3> HIDE DEF Bounds
    <3> QED BY <2>1, LeastNumber
  <2>3. b \in T
    <3> SUFFICES ASSUME b \notin T PROVE FALSE
      OBVIOUS
    <3>1. PICK k \in T : k <= b
      BY <2>2
    <3>2. b \in Nat /\ k \in 1..n + 1 /\ b - 1 \in Nat
      BY <3>1
    <3>3. \A m \in T : m \in Nat /\ m <= b /\ m # b
      BY <2>2
    <3>4. b - 1 \in Bounds
      BY <3>2, <3>3
    <3> QED BY <2>2, <3>2, <3>4
  <2> QED BY <2>2, <2>3
<1>2. T # {} => Max(T) \in T /\ \A k \in T : Max(T) >= k
  BY <1>1 DEF Max
<1>3. \A k \in T : k \in Int /\ k <= n + 1
  OBVIOUS
<1>4. T # {} => Max(T) \in T /\ \A k \in T : k <= Max(T)
  BY <1>2, <1>3
<1>5. n + 1 \in T => Max(T) = n + 1
  <2> HIDE DEF Max
  <2> SUFFICES ASSUME n + 1 \in T PROVE Max(T) = n + 1
    OBVIOUS
  <2>1. Max(T) \in T /\ n + 1 <= Max(T)
    BY <1>4
  <2>2. Max(T) \in Int /\ Max(T) <= n + 1
    BY <1>3, <2>1
  <2> QED BY <2>1, <2>2
<1> QED BY <1>4, <1>5

(* What MapThenFoldSet iterates over the subsets of 1..n. *)
Unfolds(it, S, base, step, n) ==
  /\ it \in [SUBSET (1..n) -> S]
  /\ \A T \in SUBSET (1..n) :
       it[T] = IF T = {} THEN base ELSE step[<<Max(T), it[T \ {Max(T)}]>>]

LEMMA FoldTo ==
  ASSUME NEW S, NEW base \in S, NEW step \in [Nat \X S -> S], NEW n \in Nat
  PROVE  \E it : Unfolds(it, S, base, step, n)
<1> DEFINE D == {k \in Nat : \E it : Unfolds(it, S, base, step, k)}
<1>1. 0 \in D
  <2> DEFINE it == [T \in SUBSET (1..0) |-> base]
  <2>1. \A T \in SUBSET (1..0) : T = {}
    OBVIOUS
  <2>2. Unfolds(it, S, base, step, 0)
    BY <2>1 DEF Unfolds
  <2> QED BY <2>2
<1>2. ASSUME NEW k \in 0..n-1, k \in D PROVE k + 1 \in D
  <2>1. PICK it : Unfolds(it, S, base, step, k)
    BY <1>2
  <2>2. /\ it \in [SUBSET (1..k) -> S] /\ k \in Nat
        /\ \A T \in SUBSET (1..k) :
             it[T] = IF T = {} THEN base ELSE step[<<Max(T), it[T \ {Max(T)}]>>]
    BY <2>1 DEF Unfolds
  <2> DEFINE it2 == [T \in SUBSET (1..k+1) |->
                       IF k + 1 \in T THEN step[<<k + 1, it[T \ {k + 1}]>>] ELSE it[T]]
  <2>3. ASSUME NEW T \in SUBSET (1..k+1)
        PROVE  /\ T \ {k + 1} \in SUBSET (1..k)
               /\ k + 1 \notin T => T \in SUBSET (1..k)
    BY <2>2
  <2>4. it2 \in [SUBSET (1..k+1) -> S]
    <3>1. ASSUME NEW T \in SUBSET (1..k+1)
          PROVE  (IF k + 1 \in T THEN step[<<k + 1, it[T \ {k + 1}]>>] ELSE it[T]) \in S
      <4>1. CASE k + 1 \in T
        <5>1. it[T \ {k + 1}] \in S
          BY <2>2, <2>3
        <5> QED BY <4>1, <5>1, <2>2, k + 1 \in Nat
      <4>2. CASE k + 1 \notin T
        BY <4>2, <2>2, <2>3
      <4> QED BY <4>1, <4>2
    <3> QED BY <3>1
  <2>5. ASSUME NEW T \in SUBSET (1..k+1)
        PROVE  it2[T] = IF T = {} THEN base ELSE step[<<Max(T), it2[T \ {Max(T)}]>>]
    <3>1. CASE k + 1 \in T
      <4>1. Max(T) = k + 1 /\ T # {}
        BY <2>2, <3>1, MaxInterval
      <4>2. /\ T \ {k + 1} \in SUBSET (1..k+1) /\ k + 1 \notin T \ {k + 1}
        OBVIOUS
      <4>3. it2[T \ {k + 1}] = it[T \ {k + 1}]
        BY <4>2
      <4>4. it2[T] = step[<<k + 1, it[T \ {k + 1}]>>]
        BY <3>1
      <4> QED BY <4>1, <4>3, <4>4
    <3>2. CASE k + 1 \notin T /\ T # {}
      <4>1. Max(T) \in T
        BY <2>2, <3>2, MaxInterval
      <4>2. T \ {Max(T)} \in SUBSET (1..k+1) /\ k + 1 \notin T \ {Max(T)}
        BY <3>2
      <4>3. it2[T \ {Max(T)}] = it[T \ {Max(T)}]
        BY <4>2
      <4>4. it2[T] = it[T] /\ T \in SUBSET (1..k)
        BY <2>3, <3>2
      <4>5. it[T] = step[<<Max(T), it[T \ {Max(T)}]>>]
        BY <2>2, <3>2, <4>4
      <4> QED BY <3>2, <4>3, <4>4, <4>5
    <3>3. CASE T = {}
      <4>1. it2[T] = it[T] /\ T \in SUBSET (1..k)
        BY <3>3
      <4> QED BY <2>2, <3>3, <4>1
    <3> QED BY <3>1, <3>2, <3>3
  <2> HIDE DEF it2
  <2>6. Unfolds(it2, S, base, step, k + 1)
    BY <2>4, <2>5 DEF Unfolds
  <2> QED BY <2>2, <2>6
<1>3. n \in D
  <2> HIDE DEF D
  <2> QED BY <1>1, <1>2, Induction
<1> QED BY <1>3
=============================================================================
