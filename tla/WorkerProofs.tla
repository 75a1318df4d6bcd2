----------------------------- MODULE WorkerProofs -----------------------------
(***************************************************************************)
(* Proofs about Worker: what decode_url makes of the tokens of a URL, what *)
(* is stored of the bytes, that answers are whole, that they are those of  *)
(* the request, and what seperate_query keeps of the parameters of a URL.  *)
(***************************************************************************)
EXTENDS Worker, RequestProofs, FiniteSetTheorems

(* decode_url, for every URL. *)
Decoded_t == [ok : BOOLEAN, url : Seq(Letter)]

Prepend(ch, rest) == IF rest.ok THEN Decoded(<<ch>> \o rest.url) ELSE rest

(* What decode_url makes of url from character i on, when f is what it     *)
(* makes of the characters after it.                                       *)
Rest(url_, f, i) ==
  IF url_[i] # "%" \/ ~escape_fits(i, Len(url_)) THEN Prepend(url_[i], f[i + 1])
  ELSE IF unescape(url_[i + 1], url_[i + 2]) = NUL THEN Undecodable
  ELSE Prepend(unescape(url_[i + 1], url_[i + 2]), f[i + 3])

Decodes(f, url_) ==
  /\ f \in [1..Len(url_)+1 -> Decoded_t]
  /\ f[Len(url_) + 1] = Decoded(<< >>)
  /\ \A i \in 1..Len(url_) : f[i] = Rest(url_, f, i)
  /\ decode_url(url_) = f[1]

LEMMA UnescapeType == \A x, y : unescape(x, y) \in Char
BY DEF unescape, Char, Letter

LEMMA PrependType ==
  ASSUME NEW ch \in Letter, NEW rest \in Decoded_t
  PROVE  Prepend(ch, rest) \in Decoded_t
<1>1. <<ch>> \o rest.url \in Seq(Letter)
  BY ConcatProperties DEF Decoded_t
<1> QED BY <1>1 DEF Prepend, Decoded, Decoded_t

LEMMA RestType ==
  ASSUME NEW u \in Seq(Letter), NEW f \in [1..Len(u)+1 -> Decoded_t], NEW i \in 1..Len(u)
  PROVE  Rest(u, f, i) \in Decoded_t
<1>1. u[i] \in Letter /\ f[i + 1] \in Decoded_t /\ Len(u) \in Nat
  OBVIOUS
<1>2. escape_fits(i, Len(u)) => f[i + 3] \in Decoded_t
  BY <1>1 DEF escape_fits
<1>3. unescape(u[i + 1], u[i + 2]) = NUL \/ unescape(u[i + 1], u[i + 2]) \in Letter
  BY UnescapeType DEF Char
<1>4. Undecodable \in Decoded_t
  BY EmptySeq DEF Undecodable, Decoded_t
<1> QED BY <1>1, <1>2, <1>3, <1>4, PrependType DEF Rest

LEMMA RestAhead ==
  ASSUME NEW u \in Seq(Letter), NEW i \in 1..Len(u), NEW f, NEW g, f[i + 1] = g[i + 1],
         escape_fits(i, Len(u)) => f[i + 3] = g[i + 3]
  PROVE  Rest(u, f, i) = Rest(u, g, i)
BY DEF Rest

LEMMA DecodeFrom ==
  ASSUME NEW u \in Seq(Letter)
  PROVE  \E f : Decodes(f, u)
<1> DEFINE n == Len(u)
           S == [1..n+1 -> Decoded_t]
           base == [i \in 1..n+1 |-> Decoded(<< >>)]
           step == [p \in Nat \X S |->
                      IF p[1] \in 1..n THEN [p[2] EXCEPT ![n + 1 - p[1]] = Rest(u, p[2], n + 1 - p[1])]
                      ELSE p[2]]
<1>1. n \in Nat
  OBVIOUS
<1>2. base \in S
  <2>1. Decoded(<< >>) \in Decoded_t
    BY EmptySeq DEF Decoded, Decoded_t
  <2> QED BY <2>1
<1>3. ASSUME NEW k \in 1..n, NEW g \in S
      PROVE  /\ step[<<k, g>>] = [g EXCEPT ![n + 1 - k] = Rest(u, g, n + 1 - k)]
             /\ [g EXCEPT ![n + 1 - k] = Rest(u, g, n + 1 - k)] \in S
  <2>1. n + 1 - k \in 1..n /\ n + 1 - k \in 1..n+1
    BY <1>1
  <2>2. Rest(u, g, n + 1 - k) \in Decoded_t
    BY <2>1, RestType
  <2>3. <<k, g>> \in Nat \X S
    BY <1>1
  <2> QED BY <2>1, <2>2, <2>3
<1>4. step \in [Nat \X S -> S]
  <2>1. ASSUME NEW p \in Nat \X S
        PROVE  (IF p[1] \in 1..n THEN [p[2] EXCEPT ![n + 1 - p[1]] = Rest(u, p[2], n + 1 - p[1])]
                ELSE p[2]) \in S
    <3> HIDE DEF S, step
    <3> QED BY <1>3
  <2> HIDE DEF S
  <2> QED BY <2>1
<1> HIDE DEF step
<1>5. PICK it : Iterates(it, S, base, step, n)
  <2> HIDE DEF S, base, n
  <2> QED BY <1>1, <1>2, <1>4, RecursionTo
<1>6. /\ it[0] = base /\ \A k \in 0..n : it[k] \in S
      /\ \A k \in 1..n : it[k] = [it[k-1] EXCEPT ![n + 1 - k] = Rest(u, it[k-1], n + 1 - k)]
  <2>1. it \in [0..n -> S] /\ it[0] = base /\ \A k \in 1..n : it[k] = step[<<k, it[k-1]>>]
    BY <1>5 DEF Iterates
  <2> HIDE DEF S, base
  <2>2. ASSUME NEW k \in 1..n
        PROVE  it[k] = [it[k-1] EXCEPT ![n + 1 - k] = Rest(u, it[k-1], n + 1 - k)]
    <3>1. k - 1 \in 0..n
      BY <1>1
    <3> QED BY <1>3, <2>1, <3>1
  <2> QED BY <2>1, <2>2
<1> DEFINE Done(k) == /\ it[k][n + 1] = Decoded(<< >>)
                      /\ \A i \in 1..n : i > n - k => it[k][i] = Rest(u, it[k], i)
           T == {k \in 0..n : Done(k)}
<1>7. 0 \in T
  BY <1>1, <1>6
<1>8. ASSUME NEW k \in 0..n-1, k \in T PROVE k + 1 \in T
  <2> DEFINE g == it[k]
             h == it[k + 1]
             at == n - k
  <2>1. k + 1 \in 1..n /\ (k + 1) - 1 = k /\ n + 1 - (k + 1) = at /\ at \in 1..n /\ k \in 0..n
        /\ k + 1 \in 0..n
    BY <1>1
  <2>2. g \in S /\ h = [g EXCEPT ![at] = Rest(u, g, at)]
    BY <1>6, <2>1
  <2>3. Done(k)
    BY <1>8
  <2> HIDE DEF g, h, at
  <2>4. ASSUME NEW i \in 1..n+1, i # at PROVE h[i] = g[i]
    BY <2>2, <2>4
  <2>5. ASSUME NEW i \in 1..n, i > at \/ i = at PROVE Rest(u, g, i) = Rest(u, h, i)
    <3>1. h[i + 1] = g[i + 1]
      BY <1>1, <2>1, <2>4, <2>5
    <3>2. escape_fits(i, n) => h[i + 3] = g[i + 3]
      BY <1>1, <2>1, <2>4, <2>5 DEF escape_fits
    <3> QED BY <3>1, <3>2, RestAhead
  <2>6. h[n + 1] = Decoded(<< >>)
    BY <1>1, <2>1, <2>3, <2>4 DEF g
  <2>7. ASSUME NEW i \in 1..n, i > n - (k + 1) PROVE h[i] = Rest(u, h, i)
    <3>1. i > at \/ i = at
      BY <1>1, <2>1, <2>7 DEF at
    <3>2. CASE i = at
      <4>1. h[at] = Rest(u, g, at)
        BY <2>1, <2>2
      <4> QED BY <2>5, <3>2, <4>1
    <3>3. CASE i > at
      <4>1. h[i] = g[i] /\ g[i] = Rest(u, g, i)
        BY <1>1, <2>1, <2>3, <2>4, <3>3 DEF g, at
      <4> QED BY <2>5, <3>3, <4>1
    <3> QED BY <3>1, <3>2, <3>3
  <2> QED BY <2>1, <2>6, <2>7 DEF h
<1>9. Done(n)
  <2>1. \A k \in 0..n : k \in T
    <3> HIDE DEF T, n
    <3> QED BY <1>1, <1>7, <1>8, Induction
  <2> QED BY <1>1, <2>1
<1> DEFINE f == it[n]
<1>10. f \in S /\ f[n + 1] = Decoded(<< >>) /\ \A i \in 1..n : f[i] = Rest(u, f, i)
  BY <1>1, <1>6, <1>9
<1> HIDE DEF f
<1> DEFINE from == CHOOSE g : g = [i \in 1..n+1 |-> IF i > n THEN Decoded(<< >>) ELSE Rest(u, g, i)]
<1>11. f = [i \in 1..n+1 |-> IF i > n THEN Decoded(<< >>) ELSE Rest(u, f, i)]
  <2>1. ASSUME NEW i \in 1..n+1
        PROVE  f[i] = IF i > n THEN Decoded(<< >>) ELSE Rest(u, f, i)
    BY <1>1, <1>10
  <2> QED BY <1>10, <2>1
<1>12. from = [i \in 1..n+1 |-> IF i > n THEN Decoded(<< >>) ELSE Rest(u, from, i)]
  BY <1>11
<1>13. decode_url(u) = from[1]
  BY SMTT(30) DEF decode_url, Rest, Prepend
<1> HIDE DEF from
<1>14. from[n + 1] = Decoded(<< >>) /\ \A i \in 1..n : from[i] = Rest(u, from, i)
  BY <1>1, <1>12
<1> DEFINE Same == {k \in 0..n : \A i \in 1..n+1 : i > n - k => from[i] = f[i]}
<1>15. 0 \in Same
  BY <1>1, <1>10, <1>14
<1>16. ASSUME NEW k \in 0..n-1, k \in Same PROVE k + 1 \in Same
  <2>1. n - k \in 1..n /\ k + 1 \in 0..n
    BY <1>1
  <2>2. \A i \in 1..n+1 : i > n - k => from[i] = f[i]
    BY <1>16
  <2>3. from[n - k] = f[n - k]
    <3>1. from[(n - k) + 1] = f[(n - k) + 1]
      BY <1>1, <2>1, <2>2
    <3>2. escape_fits(n - k, n) => from[(n - k) + 3] = f[(n - k) + 3]
      BY <1>1, <2>1, <2>2 DEF escape_fits
    <3>3. Rest(u, from, n - k) = Rest(u, f, n - k)
      BY <2>1, <3>1, <3>2, RestAhead
    <3> QED BY <1>10, <1>14, <2>1, <3>3
  <2>4. ASSUME NEW i \in 1..n+1, i > n - (k + 1) PROVE from[i] = f[i]
    <3>1. i = n - k \/ i > n - k
      BY <1>1, <2>4
    <3> QED BY <2>2, <2>3, <3>1
  <2> QED BY <2>1, <2>4
<1>17. from[1] = f[1]
  <2>1. \A k \in 0..n : k \in Same
    <3> HIDE DEF Same, n
    <3> QED BY <1>1, <1>15, <1>16, Induction
  <2>2. n \in Same /\ 1 \in 1..n+1 /\ 1 > n - n
    BY <1>1, <2>1
  <2> QED BY <2>2
<1>18. Decodes(f, u)
  BY <1>10, <1>13, <1>17 DEF Decodes
<1> QED BY <1>18

Behind(f, t, g) == f[Len(t) + 1] = g[1]

(* What comes before does not matter. *)
LEMMA DecodeBehind ==
  ASSUME NEW t \in Seq(Letter), NEW s \in Seq(Letter), NEW f, NEW g,
         Decodes(f, t \o s), Decodes(g, s)
  PROVE  Behind(f, t, g)
<1> DEFINE n == Len(s)
           m == Len(t)
           u == t \o s
           T == {k \in 0..n : \A i \in 1..n+1 : i > n - k => f[m + i] = g[i]}
<1>1. /\ n \in Nat /\ m \in Nat /\ Len(u) = m + n
      /\ \A i \in 1..n : u[m + i] = s[i]
  BY ConcatProperties
<1>2. /\ f[m + n + 1] = Decoded(<< >>) /\ g[n + 1] = Decoded(<< >>)
      /\ \A i \in 1..m+n : f[i] = Rest(u, f, i)
      /\ \A i \in 1..n : g[i] = Rest(s, g, i)
  BY <1>1 DEF Decodes
<1> HIDE DEF u, n, m
<1>3. 0 \in T
  BY <1>1, <1>2
<1>4. ASSUME NEW k \in 0..n-1, k \in T PROVE k + 1 \in T
  <2> DEFINE at == n - k
  <2>1. at \in 1..n /\ k + 1 \in 0..n /\ m + at \in 1..m+n
    BY <1>1
  <2>2. \A i \in 1..n+1 : i > at => f[m + i] = g[i]
    BY <1>4
  <2> HIDE DEF at
  <2>3. f[m + at + 1] = g[at + 1]
    BY <1>1, <2>1, <2>2
  <2>4. escape_fits(at, n) => /\ u[m + at + 1] = s[at + 1] /\ u[m + at + 2] = s[at + 2]
                              /\ f[m + at + 3] = g[at + 3]
    <3>1. SUFFICES ASSUME escape_fits(at, n)
                   PROVE  /\ u[m + at + 1] = s[at + 1] /\ u[m + at + 2] = s[at + 2]
                          /\ f[m + at + 3] = g[at + 3]
      OBVIOUS
    <3>2. at + 1 \in 1..n /\ at + 2 \in 1..n /\ at + 3 \in 1..n+1 /\ at + 3 > at
      BY <1>1, <2>1, <3>1 DEF escape_fits
    <3>3. m + (at + 1) = m + at + 1 /\ m + (at + 2) = m + at + 2 /\ m + (at + 3) = m + at + 3
      BY <1>1, <2>1
    <3>4. u[m + (at + 1)] = s[at + 1] /\ u[m + (at + 2)] = s[at + 2]
      BY <1>1, <3>2
    <3>5. f[m + (at + 3)] = g[at + 3]
      BY <2>2, <3>2
    <3> QED BY <3>3, <3>4, <3>5
  <2>5. Rest(u, f, m + at) = Rest(s, g, at)
    <3>1. Len(s) = n /\ u[m + at] = s[at]
      BY <1>1, <2>1 DEF n
    <3>2. escape_fits(m + at, Len(u)) <=> escape_fits(at, n)
      BY <1>1, <2>1 DEF escape_fits
    <3> HIDE DEF m
    <3> QED BY <2>3, <2>4, <3>1, <3>2 DEF Rest
  <2>6. f[m + at] = g[at]
    BY <1>2, <2>1, <2>5
  <2>7. ASSUME NEW i \in 1..n+1, i > n - (k + 1) PROVE f[m + i] = g[i]
    <3>1. i = at \/ i > at
      BY <1>1, <2>7 DEF at
    <3> QED BY <2>2, <2>6, <3>1
  <2> QED BY <2>1, <2>7
<1>5. ASSUME NEW i \in 1..n+1 PROVE f[m + i] = g[i]
  <2>1. \A k \in 0..n : k \in T
    <3> HIDE DEF T
    <3> QED BY <1>1, <1>3, <1>4, Induction
  <2>2. n \in T
    <3> HIDE DEF T
    <3> QED BY <1>1, <2>1
  <2>3. i > n - n
    BY <1>1
  <2> QED BY <2>2, <2>3
<1>6. 1 \in 1..n+1
  BY <1>1
<1> QED BY <1>5, <1>6 DEF m, Behind

LEMMA DecodeCharacter ==
  ASSUME NEW t \in Seq(Letter), NEW s \in Seq(Letter), Len(t) = 1, t[1] # "%"
  PROVE  decode_url(t \o s) = Prepend(t[1], decode_url(s))
<1> DEFINE u == t \o s
<1>1. u \in Seq(Letter) /\ Len(u) = 1 + Len(s) /\ u[1] = t[1] /\ Len(s) \in Nat
  BY ConcatProperties
<1> HIDE DEF u
<1>2. PICK f : Decodes(f, u)
  BY <1>1, DecodeFrom
<1>3. PICK g : Decodes(g, s)
  BY DecodeFrom
<1>4. f[2] = g[1]
  <2>1. Decodes(f, t \o s)
    BY <1>2 DEF u
  <2>2. Behind(f, t, g)
    BY <1>3, <2>1, DecodeBehind
  <2> QED BY <2>2 DEF Behind
<1>5. f[1] = Rest(u, f, 1) /\ decode_url(u) = f[1] /\ decode_url(s) = g[1]
  BY <1>1, <1>2, <1>3 DEF Decodes
<1>6. Rest(u, f, 1) = Prepend(t[1], f[2])
  BY <1>1 DEF Rest
<1> QED BY <1>4, <1>5, <1>6 DEF u

LEMMA DecodeEscape ==
  ASSUME NEW t \in Seq(Letter), NEW s \in Seq(Letter), Len(t) = 3, t[1] = "%", s # << >>
  PROVE  decode_url(t \o s) = IF unescape(t[2], t[3]) = NUL THEN Undecodable
                              ELSE Prepend(unescape(t[2], t[3]), decode_url(s))
<1> DEFINE u == t \o s
<1>1. /\ u \in Seq(Letter) /\ Len(u) = 3 + Len(s) /\ Len(s) \in Nat \ {0}
      /\ u[1] = t[1] /\ u[2] = t[2] /\ u[3] = t[3]
  <2>1. u \in Seq(Letter) /\ Len(u) = Len(t) + Len(s)
    BY ConcatProperties
  <2>2. u[1] = t[1] /\ u[2] = t[2] /\ u[3] = t[3]
    <3>1. 1 \in 1..Len(t) /\ 2 \in 1..Len(t) /\ 3 \in 1..Len(t)
      OBVIOUS
    <3> QED BY <3>1, ConcatProperties
  <2>3. Len(s) \in Nat \ {0}
    BY EmptySeq
  <2> HIDE DEF u
  <2> QED BY <2>1, <2>2, <2>3
<1> HIDE DEF u
<1>2. PICK f : Decodes(f, u)
  BY <1>1, DecodeFrom
<1>3. PICK g : Decodes(g, s)
  BY DecodeFrom
<1>4. f[4] = g[1]
  <2>1. Decodes(f, t \o s)
    BY <1>2 DEF u
  <2>2. Behind(f, t, g)
    BY <1>3, <2>1, DecodeBehind
  <2> QED BY <2>2 DEF Behind
<1>5. f[1] = Rest(u, f, 1) /\ decode_url(u) = f[1] /\ decode_url(s) = g[1]
  BY <1>1, <1>2, <1>3 DEF Decodes
<1>6. Rest(u, f, 1) = IF unescape(t[2], t[3]) = NUL THEN Undecodable
                      ELSE Prepend(unescape(t[2], t[3]), f[4])
  BY <1>1 DEF Rest, escape_fits
<1> QED BY <1>4, <1>5, <1>6 DEF u
-----------------------------------------------------------------------------
(* Tokens. *)
Token_t == {t \in Seq(Letter) : \/ Len(t) = 1 /\ t[1] # "%"
                                \/ Len(t) = 3 /\ t[1] = "%"}

Stand(ts) == [k \in DOMAIN ts |-> Meaning(ts[k])]

(* What decode_url has to make of the tokens ts. *)
Meant(ts) == IF NUL \in ToSet(Stand(ts)) THEN Undecodable ELSE Decoded(Stand(ts))

LEMMA StandPrepend ==
  ASSUME NEW ts \in Seq(Token_t), NEW t \in Token_t
  PROVE  /\ Meant(<<t>> \o ts) = IF Meaning(t) = NUL THEN Undecodable
                                 ELSE Prepend(Meaning(t), Meant(ts))
         /\ Meant(<< >>) = Decoded(<< >>)
<1> DEFINE ext == <<t>> \o ts
<1>1. /\ ext \in Seq(Token_t) /\ Len(ext) = Len(ts) + 1 /\ ext[1] = t /\ Len(ts) \in Nat
      /\ \A k \in 1..Len(ts) : ext[k + 1] = ts[k]
  BY ConcatProperties
<1>2. Stand(ext) = <<Meaning(t)>> \o Stand(ts)
  BY DEF Stand
<1>3. NUL \in ToSet(Stand(ext)) <=> Meaning(t) = NUL \/ NUL \in ToSet(Stand(ts))
  <2> HIDE DEF ext
  <2>1. DOMAIN ext = 1..Len(ts)+1 /\ DOMAIN ts = 1..Len(ts)
    BY <1>1
  <2>2. NUL \in ToSet(Stand(ext)) <=> \E k \in 1..Len(ts)+1 : Meaning(ext[k]) = NUL
    BY <2>1 DEF ToSet, Stand
  <2>3. NUL \in ToSet(Stand(ts)) <=> \E k \in 1..Len(ts) : Meaning(ts[k]) = NUL
    BY <2>1 DEF ToSet, Stand
  <2>4. \A k \in 1..Len(ts)+1 : k = 1 \/ (k - 1 \in 1..Len(ts) /\ ext[k] = ts[k - 1])
    <3>1. ASSUME NEW k \in 1..Len(ts)+1, k # 1 PROVE k - 1 \in 1..Len(ts) /\ ext[k] = ts[k - 1]
      <4>1. k - 1 \in 1..Len(ts) /\ (k - 1) + 1 = k
        BY <1>1, <3>1
      <4> QED BY <1>1, <4>1
    <3> QED BY <3>1
  <2>5. 1 \in 1..Len(ts)+1 /\ \A k \in 1..Len(ts) : k + 1 \in 1..Len(ts)+1
    BY <1>1
  <2> HIDE DEF Meaning
  <2> QED BY <1>1, <2>2, <2>3, <2>4, <2>5
<1>4. Stand(<< >>) = << >> /\ ToSet(<< >>) = {}
  BY DEF Stand, ToSet
<1> HIDE DEF ext
<1> QED BY <1>2, <1>3, <1>4 DEF Meant, Prepend, Decoded, Undecodable, ext

(* Tokens that do not end in an escape are decoded to what they stand for. *)
LEMMA DecodeTokens ==
  ASSUME NEW ts \in Seq(Token_t), ts = << >> \/ Len(Last(ts)) # 3
  PROVE  decode_url(FlattenSeq(ts)) = Meant(ts)
<1> DEFINE Fine(s) == s = << >> \/ Len(Last(s)) # 3
           T == {s \in Seq(Token_t) : Fine(s) => decode_url(FlattenSeq(s)) = Meant(s)}
<1>1. << >> \in T
  <2>1. PICK f : Decodes(f, << >>)
    BY EmptySeq, DecodeFrom
  <2>2. decode_url(<< >>) = Decoded(<< >>)
    BY <2>1, EmptySeq DEF Decodes
  <2>3. Meant(<< >>) = Decoded(<< >>)
    BY DEF Meant, Stand, ToSet, Decoded
  <2> QED BY <2>2, <2>3, FlattenEmpty, EmptySeq
<1>2. ASSUME NEW s \in Seq(Token_t), NEW t \in Token_t, s \in T PROVE <<t>> \o s \in T
  <2> DEFINE ext == <<t>> \o s
  <2>1. /\ t \in Seq(Letter) /\ s \in Seq(Seq(Letter)) /\ FlattenSeq(s) \in Seq(Letter)
        /\ <<t>> \in Seq(Seq(Letter)) /\ ext \in Seq(Token_t)
    <3>1. t \in Seq(Letter) /\ s \in Seq(Seq(Letter))
      BY DEF Token_t
    <3> QED BY <3>1, FlattenType, ConcatProperties
  <2>2. FlattenSeq(ext) = t \o FlattenSeq(s)
    <3>1. FlattenSeq(ext) = FlattenSeq(<<t>>) \o FlattenSeq(s)
      BY <2>1, FlattenConcat
    <3>2. FlattenSeq(<<t>>) = t
      BY <2>1, FlattenOne
    <3> QED BY <3>1, <3>2
  <2>3. SUFFICES ASSUME Fine(ext) PROVE decode_url(FlattenSeq(ext)) = Meant(ext)
    BY <2>1
  <2>4. CASE Len(t) = 1
    <3>1. t[1] # "%" /\ Meaning(t) = t[1] /\ t[1] # NUL
      <4>1. t[1] \in Letter
        <5>1. 1 \in 1..Len(t)
          BY <2>4
        <5> QED BY <2>1, <5>1
      <4>2. Meaning(t) = t[1]
        BY <2>4 DEF Meaning
      <4>3. t[1] # "%"
        <5>1. Len(t) # 3
          BY <2>4
        <5> QED BY <5>1 DEF Token_t
      <4> QED BY <4>1, <4>2, <4>3, NulAssumption
    <3>2. Fine(s)
      <4>1. s # << >> => Last(ext) = Last(s)
        BY ConcatProperties, EmptySeq DEF Last
      <4>2. s # << >> => ext # << >>
        BY <2>1, ConcatProperties, EmptySeq
      <4> QED BY <2>3, <4>1, <4>2
    <3>3. decode_url(FlattenSeq(s)) = Meant(s)
      BY <1>2, <3>2
    <3>4. decode_url(t \o FlattenSeq(s)) = Prepend(t[1], decode_url(FlattenSeq(s)))
      BY <2>1, <2>4, <3>1, DecodeCharacter
    <3> QED BY <2>2, <3>1, <3>3, <3>4, StandPrepend
  <2>5. CASE Len(t) = 3
    <3>1. t[1] = "%" /\ Meaning(t) = unescape(t[2], t[3])
      BY <2>1, <2>5 DEF Token_t, Meaning
    <3>2. s # << >>
      <4>1. s = << >> => ext # << >> /\ Last(ext) = t
        BY DEF Last
      <4> QED BY <2>3, <2>5, <4>1
    <3>3. Fine(s)
      <4>1. Last(ext) = Last(s) /\ ext # << >>
        BY <3>2, ConcatProperties, EmptySeq DEF Last
      <4> QED BY <2>3, <4>1
    <3>4. FlattenSeq(s) # << >>
      <4>1. 1 \in 1..Len(s) /\ s[1] \in Token_t
        BY <3>2, EmptySeq
      <4>2. Len(s[1]) <= Len(FlattenSeq(s)) /\ Len(s[1]) >= 1
        BY <2>1, <4>1, FlattenLength DEF Token_t
      <4> QED BY <4>2
    <3>5. decode_url(FlattenSeq(s)) = Meant(s)
      BY <1>2, <3>3
    <3>6. decode_url(t \o FlattenSeq(s)) = IF Meaning(t) = NUL THEN Undecodable
                                           ELSE Prepend(Meaning(t), decode_url(FlattenSeq(s)))
      BY <2>1, <2>5, <3>1, <3>4, DecodeEscape
    <3> QED BY <2>2, <3>5, <3>6, StandPrepend
  <2> QED BY <2>4, <2>5 DEF Token_t
<1>3. ts \in T
  <2> HIDE DEF T
  <2> QED BY <1>1, <1>2, SequenceInductionBackwards
<1> QED BY <1>3
-----------------------------------------------------------------------------
(* Pieces of an answer, and what is left of them. *)
Split(s, lost) == [k \in DOMAIN s |-> IF k \in lost THEN << >> ELSE <<s[k]>>]

LEMMA WithoutSplit == \A s, lost : Without(s, lost) = FlattenSeq(Split(s, lost))
BY DEF Without, Split

LEMMA SplitType ==
  ASSUME NEW X, NEW s \in Seq(X), NEW lost
  PROVE  /\ Split(s, lost) \in Seq(Seq(X))
         /\ Len(Split(s, lost)) = Len(s)
         /\ \A k \in 1..Len(s) : Split(s, lost)[k] = IF k \in lost THEN << >> ELSE <<s[k]>>
<1>1. DOMAIN s = 1..Len(s) /\ Len(s) \in Nat
  OBVIOUS
<1>2. Split(s, lost) = [k \in 1..Len(s) |-> IF k \in lost THEN << >> ELSE <<s[k]>>]
  BY <1>1 DEF Split
<1>3. ASSUME NEW k \in 1..Len(s)
      PROVE  (IF k \in lost THEN << >> ELSE <<s[k]>>) \in Seq(X)
  <2>1. s[k] \in X
    BY ElementOfSeq
  <2>2. <<s[k]>> \in Seq(X)
    BY <2>1
  <2> QED BY <2>2, EmptySeq
<1>4. Split(s, lost) \in [1..Len(s) -> Seq(X)]
  BY <1>2, <1>3
<1>5. Split(s, lost) \in Seq(Seq(X))
  BY <1>1, <1>4, IsASeq
<1>6. Len(Split(s, lost)) = Len(s)
  BY <1>1, <1>4, <1>5
<1> QED BY <1>2, <1>5, <1>6

LEMMA WithoutType ==
  ASSUME NEW X, NEW s \in Seq(X), NEW lost
  PROVE  Without(s, lost) \in Seq(X)
BY SplitType, FlattenType, WithoutSplit

Joined(s, t, ls, lt) == (ls \cap 1..Len(s)) \cup {Len(s) + k : k \in lt \cap 1..Len(t)}

LEMMA SplitConcat ==
  ASSUME NEW X, NEW s \in Seq(X), NEW t \in Seq(X), NEW ls, NEW lt
  PROVE  Split(s \o t, Joined(s, t, ls, lt)) = Split(s, ls) \o Split(t, lt)
<1>1. /\ Len(s) \in Nat /\ Len(t) \in Nat /\ s \o t \in Seq(X) /\ Len(s \o t) = Len(s) + Len(t)
      /\ \A k \in 1..Len(s) : (s \o t)[k] = s[k]
      /\ \A k \in 1..Len(t) : (s \o t)[Len(s) + k] = t[k]
  BY ConcatProperties
<1> DEFINE l == Joined(s, t, ls, lt)
           u == s \o t
           a == Split(s, ls)
           b == Split(t, lt)
           c == Split(u, l)
<1> SUFFICES c = a \o b
  OBVIOUS
<1>2. \A k \in 1..Len(s) : k \in l <=> k \in ls
  BY <1>1 DEF Joined
<1>3. \A k \in 1..Len(t) : Len(s) + k \in l <=> k \in lt
  BY <1>1 DEF Joined
<1>4. /\ a \in Seq(Seq(X)) /\ Len(a) = Len(s)
      /\ \A k \in 1..Len(s) : a[k] = IF k \in ls THEN << >> ELSE <<s[k]>>
  BY SplitType
<1>5. /\ b \in Seq(Seq(X)) /\ Len(b) = Len(t)
      /\ \A k \in 1..Len(t) : b[k] = IF k \in lt THEN << >> ELSE <<t[k]>>
  BY SplitType
<1> HIDE DEF l
<1>6. /\ c \in Seq(Seq(X)) /\ Len(c) = Len(s) + Len(t)
      /\ \A k \in 1..Len(s)+Len(t) : c[k] = IF k \in l THEN << >> ELSE <<u[k]>>
  <2>1. u \in Seq(X) /\ Len(u) = Len(s) + Len(t)
    BY <1>1
  <2> HIDE DEF u
  <2>2. /\ Split(u, l) \in Seq(Seq(X))
        /\ Len(Split(u, l)) = Len(u)
        /\ \A k \in 1..Len(u) : Split(u, l)[k] = IF k \in l THEN << >> ELSE <<u[k]>>
    BY <2>1, SplitType
  <2> QED BY <2>1, <2>2
<1>10. /\ u \in Seq(X) /\ Len(s) \in Nat /\ Len(t) \in Nat
       /\ \A k \in 1..Len(s) : u[k] = s[k]
       /\ \A k \in 1..Len(t) : u[Len(s) + k] = t[k]
  BY <1>1
<1> HIDE DEF a, b, c, u
<1>11. /\ a \o b \in Seq(Seq(X)) /\ Len(a \o b) = Len(a) + Len(b)
       /\ \A k \in 1..Len(a) : (a \o b)[k] = a[k]
       /\ \A k \in 1..Len(b) : (a \o b)[Len(a) + k] = b[k]
  <2>1. a \in Seq(Seq(X)) /\ b \in Seq(Seq(X))
    BY <1>4, <1>5
  <2> QED BY <2>1, ConcatProperties
<1>7. /\ a \o b \in Seq(Seq(X)) /\ Len(a \o b) = Len(s) + Len(t)
      /\ \A k \in 1..Len(s) : (a \o b)[k] = a[k]
      /\ \A k \in 1..Len(t) : (a \o b)[Len(s) + k] = b[k]
  BY <1>4, <1>5, <1>11
<1>8. ASSUME NEW k \in 1..Len(s)+Len(t) PROVE c[k] = (a \o b)[k]
  <2>1. CASE k \in 1..Len(s)
    <3>1. c[k] = IF k \in l THEN << >> ELSE <<u[k]>>
      BY <1>6
    <3>2. (a \o b)[k] = IF k \in ls THEN << >> ELSE <<s[k]>>
      BY <1>4, <1>7, <2>1
    <3>3. u[k] = s[k] /\ (k \in l <=> k \in ls)
      BY <1>10, <1>2, <2>1
    <3> QED BY <3>1, <3>2, <3>3
  <2>2. CASE k \notin 1..Len(s)
    <3>1. PICK m \in 1..Len(t) : k = Len(s) + m
      <4>1. k - Len(s) \in 1..Len(t) /\ k = Len(s) + (k - Len(s))
        BY <1>10, <2>2
      <4> QED BY <4>1
    <3>2. c[k] = IF m \in lt THEN << >> ELSE <<t[m]>>
      BY <1>10, <1>3, <1>6, <3>1
    <3> QED BY <1>5, <1>7, <3>1, <3>2
  <2> QED BY <2>1, <2>2
<1>9. c = a \o b
  BY <1>10, <1>6, <1>7, <1>8, SeqEqual
<1> QED BY <1>9

LEMMA WithoutConcat ==
  ASSUME NEW X, NEW s \in Seq(X), NEW t \in Seq(X), NEW ls, NEW lt
  PROVE  Without(s \o t, Joined(s, t, ls, lt)) = Without(s, ls) \o Without(t, lt)
<1>1. Split(s \o t, Joined(s, t, ls, lt)) = Split(s, ls) \o Split(t, lt)
  BY SplitConcat
<1>2. Split(s, ls) \in Seq(Seq(X)) /\ Split(t, lt) \in Seq(Seq(X))
  BY SplitType
<1>3. FlattenSeq(Split(s, ls) \o Split(t, lt))
        = FlattenSeq(Split(s, ls)) \o FlattenSeq(Split(t, lt))
  BY <1>2, FlattenConcat
<1> QED BY <1>1, <1>3, WithoutSplit

(* A single piece is left, or not. *)
LEMMA WithoutOne ==
  ASSUME NEW X, NEW e \in X
  PROVE  Without(<<e>>, {}) = <<e>> /\ Without(<<e>>, {1}) = << >>
<1>1. <<e>> \in Seq(X) /\ Len(<<e>>) = 1 /\ <<e>>[1] = e
  OBVIOUS
<1>2. Split(<<e>>, {}) = <<<<e>>>>
  BY DEF Split
<1>3. Split(<<e>>, {1}) = <<<< >>>>
  BY DEF Split
<1>4. FlattenSeq(<<<<e>>>>) = <<e>>
  BY <1>1, FlattenOne
<1>5. FlattenSeq(<<<< >>>>) = << >>
  BY EmptySeq, FlattenOne
<1> QED BY <1>2, <1>3, <1>4, <1>5, WithoutSplit

LEMMA WithoutLength ==
  ASSUME NEW X, NEW s \in Seq(X), NEW lost
  PROVE  Len(Without(s, lost)) <= Len(s)
<1>1. /\ Split(s, lost) \in Seq(Seq(X))
      /\ Len(Split(s, lost)) = Len(s)
      /\ \A k \in 1..Len(s) : Split(s, lost)[k] = IF k \in lost THEN << >> ELSE <<s[k]>>
  BY SplitType
<1>2. ASSUME NEW k \in 1..Len(Split(s, lost)) PROVE Len(Split(s, lost)[k]) <= 1
  <2>1. Len(<< >>) <= 1 /\ Len(<<s[k]>>) <= 1
    OBVIOUS
  <2>2. k \in 1..Len(s)
    BY <1>1
  <2>3. Split(s, lost)[k] = << >> \/ Split(s, lost)[k] = <<s[k]>>
    BY <1>1, <2>2
  <2> QED BY <2>1, <2>3
<1>3. Len(FlattenSeq(Split(s, lost))) <= 1 * Len(Split(s, lost))
  BY <1>1, <1>2, FlattenAtMost
<1> QED BY <1>1, <1>3, WithoutSplit

LEMMA WithoutNothing ==
  ASSUME NEW X, NEW s \in Seq(X)
  PROVE  Without(s, {}) = s
<1> DEFINE T == {t \in Seq(X) : Without(t, {}) = t}
<1>1. << >> \in T
  <2>1. Split(<< >>, {}) = << >>
    BY DEF Split
  <2> QED BY <2>1, FlattenEmpty, EmptySeq, WithoutSplit
<1>2. ASSUME NEW t \in Seq(X), NEW e \in X, t \in T PROVE Append(t, e) \in T
  <2>1. /\ <<e>> \in Seq(X) /\ Append(t, e) = t \o <<e>> /\ Append(t, e) \in Seq(X)
    BY AppendIsConcat, AppendProperties
  <2>2. Joined(t, <<e>>, {}, {}) = {}
    BY DEF Joined
  <2>3. Without(t \o <<e>>, Joined(t, <<e>>, {}, {})) = Without(t, {}) \o Without(<<e>>, {})
    <3> DEFINE one == <<e>>
    <3>1. one \in Seq(X)
      OBVIOUS
    <3> HIDE DEF one
    <3>2. Without(t \o one, Joined(t, one, {}, {})) = Without(t, {}) \o Without(one, {})
      BY <3>1, WithoutConcat
    <3> QED BY <3>2 DEF one
  <2>4. Without(t, {}) = t /\ Without(<<e>>, {}) = <<e>>
    BY <1>2, WithoutOne
  <2> QED BY <2>1, <2>2, <2>3, <2>4
<1>3. \A t \in Seq(X) : t \in T
  <2> HIDE DEF T
  <2> QED BY <1>1, <1>2, SequenceInduction
<1> QED BY <1>3

(* What generate_response has made of the pieces it was to append, after   *)
(* the failures f.                                                         *)
Left_of(c, f, pieces) ==
  \E lost \in SUBSET (1..Len(pieces)) : /\ lost # {} => f \cap Generating # {}
                                        /\ c = Without(pieces, lost)

LEMMA LeftType ==
  ASSUME NEW X, NEW pieces \in Seq(X), NEW f, NEW c, Left_of(c, f, pieces)
  PROVE  c \in Seq(X)
<1>1. \A lost : Without(pieces, lost) \in Seq(X)
  BY WithoutType
<1> QED BY <1>1 DEF Left_of

LEMMA LeftLength ==
  ASSUME NEW X, NEW pieces \in Seq(X), NEW f, NEW c, Left_of(c, f, pieces)
  PROVE  Len(c) <= Len(pieces)
<1>1. \A lost : Len(Without(pieces, lost)) <= Len(pieces)
  BY WithoutLength
<1> QED BY <1>1 DEF Left_of

LEMMA LeftEmpty ==
  ASSUME NEW f
  PROVE  Left_of(<< >>, f, << >>)
<1>1. Without(<< >>, {}) = << >>
  <2>1. Split(<< >>, {}) = << >>
    BY DEF Split
  <2> QED BY <2>1, FlattenEmpty, WithoutSplit
<1> QED BY <1>1 DEF Left_of

LEMMA LeftConcat ==
  ASSUME NEW X, NEW pieces \in Seq(X), NEW f, NEW c, Left_of(c, f, pieces),
         NEW more \in Seq(X), NEW g, NEW d, Left_of(d, g, more)
  PROVE  Left_of(c \o d, f \cup g, pieces \o more)
<1>1. PICK ls \in SUBSET (1..Len(pieces)) : /\ ls # {} => f \cap Generating # {}
                                           /\ c = Without(pieces, ls)
  BY DEF Left_of
<1>2. PICK lt \in SUBSET (1..Len(more)) : /\ lt # {} => g \cap Generating # {}
                                         /\ d = Without(more, lt)
  BY DEF Left_of
<1> DEFINE l == Joined(pieces, more, ls, lt)
<1>3. Len(pieces) \in Nat /\ Len(more) \in Nat /\ Len(pieces \o more) = Len(pieces) + Len(more)
  BY ConcatProperties
<1>4. l \in SUBSET (1..Len(pieces \o more))
  BY <1>3 DEF Joined
<1>5. l # {} => ls # {} \/ lt # {}
  BY DEF Joined
<1>6. Without(pieces \o more, l) = Without(pieces, ls) \o Without(more, lt)
  BY WithoutConcat
<1>7. l # {} => (f \cup g) \cap Generating # {}
  BY <1>1, <1>2, <1>5
<1> HIDE DEF l
<1>8. c \o d = Without(pieces \o more, l)
  BY <1>1, <1>2, <1>6
<1> QED BY <1>4, <1>7, <1>8 DEF Left_of

(* One piece more: appended, or lost in a failure. *)
LEMMA LeftAppend ==
  ASSUME NEW X, NEW pieces \in Seq(X), NEW f, NEW c, Left_of(c, f, pieces),
         NEW e \in X, NEW g
  PROVE  /\ Left_of(Append(c, e), f \cup g, pieces \o <<e>>)
         /\ g \cap Generating # {} => Left_of(c, f \cup g, pieces \o <<e>>)
<1>1. <<e>> \in Seq(X) /\ Len(<<e>>) = 1 /\ c \in Seq(X)
  <2>1. c \in Seq(X)
    BY LeftType
  <2> QED BY <2>1
<1>2. Left_of(<<e>>, g, <<e>>)
  <2>1. {} \in SUBSET (1..Len(<<e>>))
    OBVIOUS
  <2> QED BY <2>1, WithoutOne DEF Left_of
<1>3. g \cap Generating # {} => Left_of(<< >>, g, <<e>>)
  <2>1. {1} \in SUBSET (1..Len(<<e>>))
    BY <1>1
  <2> QED BY <2>1, WithoutOne DEF Left_of
<1>4. Left_of(c \o <<e>>, f \cup g, pieces \o <<e>>)
  BY <1>1, <1>2, LeftConcat
<1>5. g \cap Generating # {} => Left_of(c \o << >>, f \cup g, pieces \o <<e>>)
  BY <1>1, <1>3, LeftConcat
<1>6. c \o <<e>> = Append(c, e) /\ c \o << >> = c
  BY <1>1, AppendIsConcat, ConcatEmptySeq
<1> QED BY <1>4, <1>5, <1>6
-----------------------------------------------------------------------------
(* What the client has written. *)
Token_s == Token \cup {<<"/">>}

Bytes_t == [method : Method \cup {"BAD"}, url : Seq(Token_s), headers : Seq(Header)]

InputInv == input \in Seq(Bytes_t) /\ Size(input) <= MaxTokens

LEMMA TokensType == Token_s \subseteq Token_t
<1> SUFFICES ASSUME NEW t \in Token_s PROVE t \in Token_t
  OBVIOUS
<1>1. t \in Seq(Letter)
  BY TokenAssumption DEF Token_s
<1>2. (Len(t) = 1 /\ t[1] # "%") \/ (Len(t) = 3 /\ t[1] = "%")
  BY TokenAssumption DEF Token_s
<1> QED BY <1>1, <1>2 DEF Token_t

LEMMA HeadersType == Header \subseteq Header_t
BY HeaderAssumption DEF Header_t

(* The parts of one request, of a size that counts. *)
Written_t == Letter \cup Token_s \cup Header

Parts(r) == <<r.method>> \o r.url \o r.headers

LEMMA PartsType ==
  ASSUME NEW r \in Bytes_t
  PROVE  /\ Parts(r) \in Seq(Written_t)
         /\ Len(r.url) < Len(Parts(r))
<1>1. r.method \in Written_t /\ r.url \in Seq(Token_s) /\ r.headers \in Seq(Header)
  BY MethodAssumption DEF Bytes_t, Written_t
<1>2. r.url \in Seq(Written_t) /\ r.headers \in Seq(Written_t)
  <2>1. Token_s \subseteq Written_t /\ Header \subseteq Written_t
    BY DEF Written_t
  <2>2. Seq(Token_s) \subseteq Seq(Written_t) /\ Seq(Header) \subseteq Seq(Written_t)
    BY <2>1, SeqMonotone
  <2> QED BY <1>1, <2>2
<1> DEFINE m == <<r.method>>
           u == r.url
           h == r.headers
<1>3. m \in Seq(Written_t)
  BY <1>1
<1>4. u \in Seq(Written_t) /\ h \in Seq(Written_t)
  BY <1>2
<1> HIDE DEF m, u, h
<1>5. /\ m \o u \in Seq(Written_t) /\ Len(m \o u) = Len(m) + Len(u)
  BY <1>3, <1>4, ConcatProperties
<1>6. /\ (m \o u) \o h \in Seq(Written_t) /\ Len((m \o u) \o h) = Len(m \o u) + Len(h)
  BY <1>4, <1>5, ConcatProperties
<1>7. Len(m) = 1 /\ Len(u) \in Nat /\ Len(h) \in Nat
  BY <1>4 DEF m
<1>8. Len(u) < Len((m \o u) \o h)
  BY <1>5, <1>6, <1>7
<1> QED BY <1>6, <1>8 DEF Parts, m, u, h

LEMMA SizeBounds ==
  ASSUME NEW in \in Seq(Bytes_t)
  PROVE  /\ Size(in) \in Nat
         /\ \A k \in 1..Len(in) : Len(in[k].url) < Size(in)
<1> DEFINE all == [k \in DOMAIN in |-> Parts(in[k])]
<1>1. DOMAIN in = 1..Len(in) /\ Len(in) \in Nat /\ \A k \in 1..Len(in) : in[k] \in Bytes_t
  OBVIOUS
<1>2. \A k \in 1..Len(in) : Parts(in[k]) \in Seq(Written_t)
  BY <1>1, PartsType
<1>3. all \in [1..Len(in) -> Seq(Written_t)]
  BY <1>1, <1>2
<1>4. all \in Seq(Seq(Written_t)) /\ Len(all) = Len(in)
  <2> HIDE DEF all
  <2>1. all \in Seq(Seq(Written_t))
    BY <1>1, <1>3, IsASeq
  <2> QED BY <1>1, <1>3, <2>1
<1>5. Size(in) = Len(FlattenSeq(all))
  BY DEF Size, Parts
<1>6. FlattenSeq(all) \in Seq(Written_t)
  <2> HIDE DEF all
  <2> QED BY <1>4, FlattenType
<1>7. \A k \in 1..Len(all) : Len(all[k]) <= Len(FlattenSeq(all))
  <2> HIDE DEF all
  <2> QED BY <1>4, FlattenLength
<1>8. ASSUME NEW k \in 1..Len(in) PROVE Len(in[k].url) < Size(in)
  <2>1. all[k] = Parts(in[k]) /\ k \in 1..Len(all)
    BY <1>1, <1>4
  <2>2. Len(all[k]) <= Len(FlattenSeq(all))
    BY <1>7, <2>1
  <2>3. Len(in[k].url) < Len(Parts(in[k])) /\ Len(in[k].url) \in Nat
        /\ Parts(in[k]) \in Seq(Written_t)
    BY <1>1, PartsType DEF Bytes_t
  <2>4. Len(Parts(in[k])) \in Nat /\ Len(FlattenSeq(all)) \in Nat
    BY <1>6, <2>3
  <2> HIDE DEF all
  <2> QED BY <1>5, <2>1, <2>2, <2>3, <2>4
<1> QED BY <1>5, <1>6, <1>8

(* A URL of at most MaxTokens tokens fits the parser's buffer. *)
LEMMA BytesSent ==
  ASSUME NEW in \in Seq(Bytes_t), Size(in) <= MaxTokens
  PROVE  in \in Seq(Sent)
<1>1. ASSUME NEW k \in 1..Len(in) PROVE in[k] \in Sent
  <2> DEFINE r == in[k]
  <2>1. r \in Bytes_t /\ Len(r.url) < Size(in) /\ Size(in) \in Nat
    BY SizeBounds
  <2> HIDE DEF r
  <2>2. r.method \in Letter /\ r.url \in Seq(Token_s) /\ r.headers \in Seq(Header)
        /\ r = [method |-> r.method, url |-> r.url, headers |-> r.headers]
    BY <2>1, MethodAssumption DEF Bytes_t
  <2>3. r.headers \in Seq(Header_t)
    BY <2>2, HeadersType, SeqMonotone
  <2>4. r.url \in Seq(Token_t)
    BY <2>2, TokensType, SeqMonotone
  <2>5. Token_t \subseteq Seq(Letter)
    BY DEF Token_t
  <2>6. r.url \in Seq(Seq(Letter))
    BY <2>4, <2>5, SeqMonotone
  <2>7. \A i \in 1..Len(r.url) : Len(r.url[i]) <= 3
    <3>1. ASSUME NEW t \in Token_t PROVE Len(t) <= 3
      <4>1. Len(t) = 1 \/ Len(t) = 3
        BY DEF Token_t
      <4>2. 1 <= 3 /\ 3 <= 3
        OBVIOUS
      <4>3. Len(t) \in Nat
        BY DEF Token_t
      <4> QED BY <4>1, <4>2, <4>3
    <3>2. \A i \in 1..Len(r.url) : r.url[i] \in Token_t
      BY <2>4, ElementOfSeq
    <3> QED BY <3>1, <3>2
  <2>8. Len(FlattenSeq(r.url)) <= 3 * Len(r.url)
    BY <2>6, <2>7, FlattenAtMost
  <2>9. Len(FlattenSeq(r.url)) \in Nat /\ Len(r.url) \in Nat
    <3>1. FlattenSeq(r.url) \in Seq(Letter)
      BY <2>6, FlattenType
    <3> QED BY <2>6, <3>1
  <2>10. Len(Raw(r)) < MaxSize
    BY <2>1, <2>8, <2>9, SizeAssumption, BufferAssumption DEF Raw
  <2>11. r \in [method : Letter, url : Seq(Seq(Letter)), headers : Seq(Header_t)]
    BY <2>2, <2>3, <2>6
  <2>12. r \in Sent
    BY <2>10, <2>11 DEF Sent
  <2> QED BY <2>12 DEF r
<1>2. in = [k \in 1..Len(in) |-> in[k]] /\ Len(in) \in Nat
  OBVIOUS
<1>3. in \in [1..Len(in) -> Sent]
  BY <1>1, <1>2
<1> QED BY <1>2, <1>3, IsASeq
-----------------------------------------------------------------------------
(* Only the client's writing and the next task change the bytes. *)
KeepsInput ==
  handle_conn \/ home_page \/ api_home_page \/ no_path \/ stat_fails \/ not_found_page
    \/ stat \/ get_mime_overflows \/ open \/ open_fails \/ handle_static_files \/ read_fails
    \/ status_line \/ headers \/ separator \/ body \/ no_line \/ file_changes

LEMMA InputKept == KeepsInput => UNCHANGED input
<1>1. handle_conn => UNCHANGED input
  BY DEF handle_conn
<1>2. home_page \/ api_home_page \/ not_found_page => UNCHANGED input
  BY DEF home_page, api_home_page, not_found_page, page
<1>3. no_path \/ stat_fails \/ stat \/ get_mime_overflows => UNCHANGED input
  BY DEF no_path, stat_fails, stat, get_mime_overflows
<1>4. open \/ open_fails \/ handle_static_files \/ read_fails => UNCHANGED input
  BY DEF open, open_fails, handle_static_files, read_fails
<1>5. status_line \/ headers \/ separator \/ body \/ no_line => UNCHANGED input
  BY DEF status_line, headers, separator, body, no_line, generates
<1>6. file_changes => UNCHANGED input
  BY DEF file_changes
<1> QED BY <1>1, <1>2, <1>3, <1>4, <1>5, <1>6 DEF KeepsInput

LEMMA InputInit == Init => InputInv
<1>1. Init => input = << >> /\ << >> \in Seq(Bytes_t)
  BY EmptySeq DEF Init
<1>2. Size(<< >>) = 0
  <2>1. [k \in DOMAIN << >> |-> <<<< >>[k].method>> \o << >>[k].url \o << >>[k].headers] = << >>
    OBVIOUS
  <2> QED BY <2>1, FlattenEmpty DEF Size
<1> QED BY <1>1, <1>2, SizeAssumption DEF InputInv

LEMMA ReadsType ==
  ASSUME NEW in \in Seq(Bytes_t), reads(in)
  PROVE  InputInv'
<1>1. Size(in) <= IF fds = 0 THEN MaxTokens ELSE MaxHandled
  BY DEF reads
<1>2. Size(in) \in Nat
  BY SizeBounds
<1>3. input' = in
  BY DEF reads
<1>4. Size(in) <= MaxTokens
  BY <1>1, <1>2, SizeAssumption
<1> QED BY <1>3, <1>4 DEF InputInv

LEMMA InputStep ==
  ASSUME InputInv, [Next]_vars
  PROVE  InputInv'
<1>0. input \in Seq(Bytes_t)
  BY DEF InputInv
<1>1. CASE read_method
  <2>1. PICK m \in Method \cup {"BAD"} :
               reads(Append(input, [method |-> m, url |-> << >>, headers |-> << >>]))
    BY <1>1 DEF read_method
  <2> DEFINE r == [method |-> m, url |-> << >>, headers |-> << >>]
  <2>2. r \in Bytes_t
    BY EmptySeq DEF Bytes_t
  <2>3. reads(Append(input, r))
    BY <2>1
  <2> HIDE DEF r
  <2>4. Append(input, r) \in Seq(Bytes_t)
    BY <1>0, <2>2, AppendProperties
  <2> QED BY <2>3, <2>4, ReadsType
<1>2. CASE read_url
  <2>1. PICK t \in IF last.url = << >> THEN {<<"/">>} ELSE Token :
               reads([input EXCEPT ![Len(input)].url = Append(@, t)])
    BY <1>2 DEF read_url
  <2>2. t \in Token_s
    BY <2>1 DEF Token_s
  <2>3. input # << >>
    BY <1>2 DEF read_url
  <2>4. Len(input) \in 1..Len(input) /\ input[Len(input)] \in Bytes_t
    BY <1>0, <2>3, EmptySeq
  <2>5. Append(input[Len(input)].url, t) \in Seq(Token_s)
    BY <2>2, <2>4, AppendProperties DEF Bytes_t
  <2>6. [input[Len(input)] EXCEPT !.url = Append(input[Len(input)].url, t)] \in Bytes_t
    BY <2>4, <2>5 DEF Bytes_t
  <2> DEFINE in == [input EXCEPT ![Len(input)].url = Append(@, t)]
  <2>7. in \in Seq(Bytes_t)
    BY <1>0, <2>4, <2>6
  <2>8. reads(in)
    BY <2>1
  <2> HIDE DEF in
  <2> QED BY <2>7, <2>8, ReadsType
<1>3. CASE read_header
  <2>1. PICK h \in Header :
               reads([input EXCEPT ![Len(input)].headers = Append(@, h)])
    BY <1>3 DEF read_header
  <2>3. input # << >>
    BY <1>3 DEF read_header
  <2>4. Len(input) \in 1..Len(input) /\ input[Len(input)] \in Bytes_t
    BY <1>0, <2>3, EmptySeq
  <2>5. Append(input[Len(input)].headers, h) \in Seq(Header)
    BY <2>1, <2>4, AppendProperties DEF Bytes_t
  <2>6. [input[Len(input)] EXCEPT !.headers = Append(input[Len(input)].headers, h)] \in Bytes_t
    BY <2>4, <2>5 DEF Bytes_t
  <2> DEFINE in == [input EXCEPT ![Len(input)].headers = Append(@, h)]
  <2>7. in \in Seq(Bytes_t)
    BY <1>0, <2>4, <2>6
  <2>8. reads(in)
    BY <2>1
  <2> HIDE DEF in
  <2> QED BY <2>7, <2>8, ReadsType
<1>4. CASE KeepsInput
  <2>1. input' = input
    BY <1>4, InputKept
  <2> QED BY <2>1 DEF InputInv
<1>5. CASE next_task
  <2>1. input' = << >>
    BY <1>5 DEF next_task
  <2>2. Size(<< >>) = 0 /\ << >> \in Seq(Bytes_t)
    <3>1. [k \in DOMAIN << >> |-> <<<< >>[k].method>> \o << >>[k].url \o << >>[k].headers] = << >>
      OBVIOUS
    <3> QED BY <3>1, FlattenEmpty, EmptySeq DEF Size
  <2> QED BY <2>1, <2>2, SizeAssumption DEF InputInv
<1>6. CASE UNCHANGED vars
  BY <1>6 DEF InputInv, vars
<1> QED BY <1>1, <1>2, <1>3, <1>4, <1>5, <1>6 DEF Next, KeepsInput
-----------------------------------------------------------------------------
LEMMA LastUrlType ==
  ASSUME NEW S, NEW in \in Seq([method : Letter, url : Seq(S), headers : Seq(Header_t)])
  PROVE  /\ LastUrl(in) \in Seq(S)
         /\ LastUrl(in) = << >> \/ \E k \in 1..Len(in) : LastUrl(in) = in[k].url
<1> DEFINE urls == {k \in DOMAIN in : in[k].url # << >>}
<1>1. DOMAIN in = 1..Len(in) /\ Len(in) \in Nat /\ \A k \in 1..Len(in) : in[k].url \in Seq(S)
  <2>1. DOMAIN in = 1..Len(in) /\ Len(in) \in Nat
    OBVIOUS
  <2>2. ASSUME NEW k \in 1..Len(in) PROVE in[k].url \in Seq(S)
    <3>1. in[k] \in [method : Letter, url : Seq(S), headers : Seq(Header_t)]
      BY ElementOfSeq
    <3> QED BY <3>1
  <2> QED BY <2>1, <2>2
<1>2. CASE urls = {}
  BY <1>2, EmptySeq DEF LastUrl
<1>3. CASE urls # {}
  <2>1. urls \in SUBSET (1..Len(in) + 1) /\ Len(in) \in Nat
    BY <1>1
  <2>2. Max(urls) \in urls
    <3> HIDE DEF urls
    <3> QED BY <1>3, <2>1, MaxInterval
  <2>3. Max(urls) \in 1..Len(in)
    BY <1>1, <2>2
  <2>4. LastUrl(in) = in[Max(urls)].url
    BY <1>3 DEF LastUrl
  <2> HIDE DEF urls
  <2> QED BY <1>1, <2>3, <2>4
<1> QED BY <1>2, <1>3

(* The URL that is stored. *)
LEMMA UrlBounds ==
  ASSUME NEW in \in Seq(Bytes_t), Size(in) <= MaxTokens
  PROVE  /\ LastUrl(in) \in Seq(Token_t)
         /\ FlattenSeq(LastUrl(in)) \in Seq(Letter)
         /\ Len(FlattenSeq(LastUrl(in))) < MaxSize
         /\ LastUrl(in) # << >> => Len(LastUrl(in)) < MaxTokens
<1>1. in \in Seq(Sent)
  BY BytesSent
<1>2. in \in Seq([method : Letter, url : Seq(Token_t), headers : Seq(Header_t)])
  <2>1. Bytes_t \subseteq [method : Letter, url : Seq(Token_t), headers : Seq(Header_t)]
    <3>1. Seq(Token_s) \subseteq Seq(Token_t) /\ Seq(Header) \subseteq Seq(Header_t)
      BY TokensType, HeadersType, SeqMonotone
    <3> QED BY <3>1, MethodAssumption DEF Bytes_t
  <2> QED BY <2>1, SeqMonotone
<1>3. /\ LastUrl(in) \in Seq(Token_t)
      /\ LastUrl(in) = << >> \/ \E k \in 1..Len(in) : LastUrl(in) = in[k].url
  BY <1>2, LastUrlType
<1>4. LastUrl(in) \in Seq(Seq(Letter))
  <2>1. Token_t \subseteq Seq(Letter)
    BY DEF Token_t
  <2> QED BY <1>3, <2>1, SeqMonotone
<1>5. FlattenSeq(LastUrl(in)) \in Seq(Letter)
  BY <1>4, FlattenType
<1>6. \A k \in 1..Len(in) : Len(FlattenSeq(in[k].url)) < MaxSize
  BY <1>1 DEF Sent, Raw
<1>7. Len(FlattenSeq(<< >>)) < MaxSize
  BY FlattenEmpty, BufferAssumption
<1>8. \A k \in 1..Len(in) : Len(in[k].url) < MaxTokens
  <2>1. Size(in) \in Nat /\ \A k \in 1..Len(in) : Len(in[k].url) < Size(in)
    BY SizeBounds
  <2>2. ASSUME NEW k \in 1..Len(in) PROVE Len(in[k].url) \in Nat
    <3>1. in[k] \in Bytes_t
      OBVIOUS
    <3>2. in[k].url \in Seq(Token_s)
      BY <3>1 DEF Bytes_t
    <3> QED BY <3>2
  <2> QED BY <2>1, <2>2, SizeAssumption
<1> QED BY <1>3, <1>5, <1>6, <1>7, <1>8

LEMMA StoredIs ==
  ASSUME InputInv
  PROVE  RequestStored
<1>1. Stored(input)
  BY BytesSent, EverythingStored DEF InputInv
<1>2. tokens = LastUrl(input)
  BY DEF tokens, LastUrl
<1> QED BY <1>1, <1>2 DEF RequestStored, Stored, last, raw, Kept, SentHeaders

LEMMA DecodedAre ==
  ASSUME InputInv
  PROVE  DecodesTokens
<1>1. tokens = LastUrl(input)
  BY DEF tokens, LastUrl
<1>2. tokens \in Seq(Token_t)
  BY <1>1, UrlBounds DEF InputInv
<1>3. Meant(tokens) = IF NUL \in ToSet(Meanings) THEN Undecodable ELSE Decoded(Meanings)
  BY DEF Meant, Stand, Meanings
<1>4. ASSUME ~EndsInEscape PROVE decode_url(raw) = Meant(tokens)
  <2>1. tokens = << >> \/ Len(Last(tokens)) # 3
    BY <1>4 DEF EndsInEscape
  <2> QED BY <1>2, <2>1, DecodeTokens DEF raw
<1> QED BY <1>3, <1>4 DEF DecodesTokens

(* parser.c keeps the last method and URL, whatever was in its buffers     *)
(* before, and every header, in every state of the worker.                 *)
THEOREM RequestsAreStored == Spec => []RequestStored
<1>1. Init => InputInv
  BY InputInit
<1>2. InputInv /\ [Next]_vars => InputInv'
  BY InputStep
<1>3. InputInv => RequestStored
  BY StoredIs
<1> QED BY <1>1, <1>2, <1>3, PTL DEF Spec

(* Whatever URL the client sends, decode_url makes of every character and  *)
(* escape what it stands for, once only, and rejects the URL when one      *)
(* stands for nothing.                                                     *)
THEOREM UrlsAreDecoded == Spec => []DecodesTokens
<1>1. Init => InputInv
  BY InputInit
<1>2. InputInv /\ [Next]_vars => InputInv'
  BY InputStep
<1>3. InputInv => DecodesTokens
  BY DecodedAre
<1> QED BY <1>1, <1>2, <1>3, PTL DEF Spec
-----------------------------------------------------------------------------
(* The program counter, the counters and the files. *)
Pcs == {"read", "silent", "handle_not_found", "not_found_page", "open", "read_file",
        "status_line", "headers", "separator", "body", "done", "crashed"} \cup Range(Handlers)

TypesInv == /\ pc \in Pcs
            /\ fds \in 0..MaxFds /\ changes \in 0..MaxChanges
            /\ Cardinality(failed) <= MaxFaults /\ stable \in BOOLEAN

Datas == Written \cup {Www[p].data : p \in DOMAIN Www}

(* A file that is opened or read has a type with a MIME name. *)
FileInv == /\ www \in [DOMAIN Www -> File_t]
           /\ \A p \in DOMAIN Www : www[p].data \in Datas
           /\ size \in Nat
           /\ pc = "open" => path \in DOMAIN Www /\ www[path].ext \in DOMAIN get_mime
           /\ pc = "read_file" => opened \in DOMAIN Www /\ www[opened].ext \in DOMAIN get_mime

LEMMA FilesInit == Init => TypesInv /\ FileInv
<1> SUFFICES ASSUME Init PROVE TypesInv /\ FileInv
  OBVIOUS
<1>1. pc = "read" /\ fds = 0 /\ changes = 0 /\ failed = {} /\ stable = TRUE
  BY DEF Init
<1>2. Cardinality({}) = 0
  BY FS_EmptySet
<1>3. pc \in Pcs /\ 0 \in 0..MaxFds /\ 0 \in 0..MaxChanges /\ 0 <= MaxFaults
  BY <1>1, BoundAssumption DEF Pcs
<1>4. TypesInv
  BY <1>1, <1>2, <1>3 DEF TypesInv
<1>5. www = Www /\ size = 0
  BY DEF Init
<1>6. www \in [DOMAIN Www -> File_t]
  BY <1>5, FileAssumption
<1>7. \A p \in DOMAIN Www : www[p].data \in Datas
  BY <1>5 DEF Datas
<1> QED BY <1>1, <1>4, <1>5, <1>6, <1>7 DEF FileInv

LEMMA FaultsBound ==
  ASSUME NEW calls, NEW f \in Faults(calls)
  PROVE  Cardinality(failed \cup f) <= MaxFaults
BY DEF Faults

(* Where handle_conn goes next, and what may have failed by then. *)
LEMMA TypesStep ==
  ASSUME TypesInv, [Next]_vars
  PROVE  TypesInv'
<1> USE DEF TypesInv, files
<1>1. CASE read_method \/ read_url \/ read_header
  <2>1. UNCHANGED <<pc, failed, fds, changes, stable>>
    BY <1>1 DEF read_method, read_url, read_header, reads
  <2> QED BY <2>1
<1>2. CASE handle_conn
  <2>1. UNCHANGED <<failed, fds, changes, stable>>
    BY <1>2 DEF handle_conn
  <2>2. path \in DOMAIN Handlers => Handlers[path] \in Range(Handlers)
    BY DEF Range
  <2>3. pc' \in {"silent", "status_line", "handle_not_found"}
          \/ (path \in DOMAIN Handlers /\ pc' = Handlers[path])
    BY <1>2 DEF handle_conn
  <2>4. pc' \in Pcs
    BY <2>2, <2>3 DEF Pcs
  <2>5. failed' = failed /\ fds' = fds /\ changes' = changes /\ stable' = stable
    BY <2>1
  <2> QED BY <2>4, <2>5
<1>3. CASE home_page \/ api_home_page \/ not_found_page
  <2>1. UNCHANGED files /\ pc' = "status_line"
    <3>1. CASE home_page
      BY <3>1 DEF home_page, page
    <3>2. CASE api_home_page
      BY <3>2 DEF api_home_page, page
    <3>3. CASE not_found_page
      BY <3>3 DEF not_found_page
    <3> QED BY <1>3, <3>1, <3>2, <3>3
  <2>2. \E calls : \E f \in Faults(calls) : failed' = failed \cup f
    <3>1. CASE home_page
      BY <3>1 DEF home_page, page
    <3>2. CASE api_home_page
      BY <3>2 DEF api_home_page, page
    <3>3. CASE not_found_page
      BY <3>3 DEF not_found_page
    <3> QED BY <1>3, <3>1, <3>2, <3>3
  <2>3. "status_line" \in Pcs
    BY DEF Pcs
  <2> QED BY <2>1, <2>2, <2>3, FaultsBound
<1>4. CASE no_path \/ read_fails
  <2>1. UNCHANGED <<fds, changes, stable>> /\ pc' = "status_line"
    BY <1>4 DEF no_path, read_fails
  <2>2. \E calls : \E f \in Faults(calls) : failed' = failed \cup f
    BY <1>4 DEF no_path, read_fails
  <2>3. "status_line" \in Pcs
    BY DEF Pcs
  <2> QED BY <2>1, <2>2, <2>3, FaultsBound
<1>5. CASE stat_fails \/ stat \/ get_mime_overflows \/ open_fails
  <2>1. UNCHANGED <<failed, fds, changes, stable>>
    BY <1>5 DEF stat_fails, stat, get_mime_overflows, open_fails
  <2>2. pc' \in {"not_found_page", "open", "status_line", "crashed"}
    BY <1>5 DEF stat_fails, stat, get_mime_overflows, open_fails
  <2>3. pc' \in Pcs
    BY <2>2 DEF Pcs
  <2> QED BY <2>1, <2>3
<1>6. CASE open
  <2>1. UNCHANGED <<failed, changes, stable>> /\ pc' = "read_file"
    BY <1>6 DEF open
  <2>2. fds' \in 0..MaxFds
    BY <1>6, BoundAssumption DEF open
  <2>3. "read_file" \in Pcs
    BY DEF Pcs
  <2> QED BY <2>1, <2>2, <2>3
<1>7. CASE handle_static_files
  <2>1. UNCHANGED <<fds, changes, stable>> /\ pc' = "status_line"
    BY <1>7 DEF handle_static_files
  <2>2. \E calls : \E f \in Faults(calls) : failed' = failed \cup f
    BY <1>7 DEF handle_static_files
  <2>3. "status_line" \in Pcs
    BY DEF Pcs
  <2> QED BY <2>1, <2>2, <2>3, FaultsBound
<1>8. CASE status_line \/ headers \/ separator \/ body \/ no_line
  <2>1. \E p \in {"headers", "separator", "body", "done", "crashed"} : \E c, calls :
          \E f \in Faults(calls) : generates(p, c, f)
    BY <1>8 DEF status_line, headers, separator, body, no_line
  <2>2. UNCHANGED <<fds, changes, stable>>
    BY <2>1 DEF generates
  <2>3. pc' \in {"headers", "separator", "body", "done", "crashed"}
    BY <2>1 DEF generates
  <2>4. \E calls : \E f \in Faults(calls) : failed' = failed \cup f
    BY <2>1 DEF generates
  <2>5. pc' \in Pcs
    BY <2>3 DEF Pcs
  <2> QED BY <2>2, <2>4, <2>5, FaultsBound
<1>9. CASE file_changes
  <2>1. UNCHANGED <<pc, failed, fds>> /\ stable' = FALSE
    BY <1>9 DEF file_changes
  <2>2. changes' \in 0..MaxChanges
    BY <1>9, BoundAssumption DEF file_changes
  <2> QED BY <2>1, <2>2
<1>10. CASE next_task
  <2>1. fds' = fds /\ pc' = "read" /\ changes' = 0 /\ failed' = {} /\ stable' = TRUE
    BY <1>10 DEF next_task
  <2>2. Cardinality({}) = 0 /\ 0 \in 0..MaxChanges /\ 0 <= MaxFaults /\ "read" \in Pcs
    BY FS_EmptySet, BoundAssumption DEF Pcs
  <2> QED BY <2>1, <2>2
<1>11. CASE UNCHANGED vars
  BY <1>11 DEF vars
<1> QED
  BY <1>1, <1>2, <1>3, <1>4, <1>5, <1>6, <1>7, <1>8, <1>9, <1>10, <1>11 DEF Next

LEMMA RoutesAreHandlers ==
  ASSUME NEW p \in DOMAIN Handlers
  PROVE  Handlers[p] \in {"home_page", "api_home_page"}
BY RouteAssumption

LEMMA FileStep ==
  ASSUME InputInv, FileInv, [Next]_vars
  PROVE  FileInv'
<1>0. /\ www \in [DOMAIN Www -> File_t]
      /\ \A p \in DOMAIN Www : www[p].data \in Datas
      /\ size \in Nat
      /\ pc = "open" => path \in DOMAIN Www /\ www[path].ext \in DOMAIN get_mime
      /\ pc = "read_file" => opened \in DOMAIN Www /\ www[opened].ext \in DOMAIN get_mime
  BY DEF FileInv
<1>1. CASE read_method \/ read_url \/ read_header
  <2>1. UNCHANGED <<pc, opened, size, www>>
    BY <1>1 DEF read_method, read_url, read_header, reads, files
  <2>2. pc = "read"
    BY <1>1 DEF read_method, read_url, read_header, reads
  <2> QED BY <1>0, <2>1, <2>2 DEF FileInv
<1>2. ASSUME UNCHANGED <<size, www>>, pc' \notin {"open", "read_file"} PROVE FileInv'
  BY <1>0, <1>2 DEF FileInv
<1>3. CASE handle_conn
  <2>1. UNCHANGED <<size, www>>
    BY <1>3 DEF handle_conn, files
  <2>2. pc' \in {"silent", "status_line", "handle_not_found"}
          \/ (path \in DOMAIN Handlers /\ pc' = Handlers[path])
    BY <1>3 DEF handle_conn
  <2>3. pc' \notin {"open", "read_file"}
    BY <2>2, RoutesAreHandlers
  <2> QED BY <1>2, <2>1, <2>3
<1>4. CASE home_page \/ api_home_page \/ not_found_page
  <2>1. UNCHANGED <<size, www>> /\ pc' = "status_line"
    BY <1>4 DEF home_page, api_home_page, not_found_page, page, files
  <2> QED BY <1>2, <2>1
<1>5. CASE no_path \/ read_fails \/ stat_fails \/ get_mime_overflows \/ open_fails \/ handle_static_files
  <2>1. UNCHANGED <<size, www>> /\ pc' \in {"status_line", "not_found_page", "crashed"}
    BY <1>5 DEF no_path, read_fails, stat_fails, get_mime_overflows, open_fails, handle_static_files, files
  <2> QED BY <1>2, <2>1
<1>6. CASE stat
  <2>1. path \in DOMAIN Www
    BY <1>0, <1>6 DEF stat, exists
  <2>2. www[path] \in File_t /\ size' = Len(www[path].data)
    BY <1>0, <1>6, <2>1 DEF stat
  <2>3. size' \in Nat
    BY <2>2 DEF File_t
  <2>4. UNCHANGED <<www, input>>
    BY <1>6 DEF stat, files
  <2>5. path' = path
    BY <2>4 DEF path
  <2>6. (pc' = "open" /\ www[path].ext \in DOMAIN get_mime) \/ pc' = "status_line"
    BY <1>6 DEF stat
  <2> QED BY <1>0, <2>1, <2>3, <2>4, <2>5, <2>6 DEF FileInv
<1>7. CASE open
  <2>1. UNCHANGED <<size, www>> /\ pc' = "read_file" /\ opened' = path /\ pc = "open"
    BY <1>7 DEF open
  <2> QED BY <1>0, <2>1 DEF FileInv
<1>8. CASE status_line \/ headers \/ separator \/ body \/ no_line
  <2>1. \E p \in {"headers", "separator", "body", "done", "crashed"} : \E c, f : generates(p, c, f)
    BY <1>8 DEF status_line, headers, separator, body, no_line
  <2>2. UNCHANGED <<size, www>>
    BY <2>1 DEF generates, files
  <2>3. pc' \in {"headers", "separator", "body", "done", "crashed"}
    BY <2>1 DEF generates
  <2> QED BY <1>2, <2>2, <2>3
<1>9. CASE file_changes
  <2>1. UNCHANGED <<pc, input, size, opened>>
    BY <1>9 DEF file_changes
  <2>2. path' = path
    BY <2>1 DEF path
  <2>3. PICK p \in DOMAIN www : (\E d \in Written : www' = [www EXCEPT ![p].data = d])
                                \/ www' = [www EXCEPT ![p].linked = ~@]
    BY <1>9 DEF file_changes
  <2>4. p \in DOMAIN Www /\ www[p] \in File_t
    BY <1>0, <2>3
  <2>5. CASE \E d \in Written : www' = [www EXCEPT ![p].data = d]
    <3>1. PICK d \in Written : www' = [www EXCEPT ![p].data = d]
      BY <2>5
    <3>2. d \in Seq(Char) /\ d \in Datas
      BY FileAssumption DEF Datas
    <3>3. [www[p] EXCEPT !.data = d] \in File_t
      BY <2>4, <3>2 DEF File_t
    <3>4. www' \in [DOMAIN Www -> File_t]
      BY <1>0, <3>1, <3>3
    <3>5. \A q \in DOMAIN Www : www'[q].ext = www[q].ext /\ www'[q].data \in Datas
      BY <1>0, <2>4, <3>1, <3>2 DEF File_t
    <3> QED BY <1>0, <2>1, <2>2, <3>4, <3>5 DEF FileInv
  <2>6. CASE www' = [www EXCEPT ![p].linked = ~@]
    <3>1. (~www[p].linked) \in BOOLEAN
      OBVIOUS
    <3>2. [www[p] EXCEPT !.linked = ~www[p].linked] \in File_t
      BY <2>4, <3>1 DEF File_t
    <3>3. www' \in [DOMAIN Www -> File_t]
      BY <1>0, <2>6, <3>2
    <3>4. \A q \in DOMAIN Www : www'[q].ext = www[q].ext /\ www'[q].data \in Datas
      BY <1>0, <2>4, <2>6 DEF File_t
    <3> QED BY <1>0, <2>1, <2>2, <3>3, <3>4 DEF FileInv
  <2> QED BY <2>3, <2>5, <2>6
<1>10. CASE next_task
  <2>1. pc' = "read" /\ size' = 0 /\ www' = Www
    BY <1>10 DEF next_task
  <2>2. \A p \in DOMAIN Www : Www[p].data \in Datas
    BY DEF Datas
  <2> QED BY <2>1, <2>2, FileAssumption DEF FileInv
<1>11. CASE UNCHANGED vars
  <2>1. UNCHANGED <<pc, input, size, opened, www>>
    BY <1>11 DEF vars
  <2>2. path' = path
    BY <2>1 DEF path
  <2> QED BY <1>0, <2>1, <2>2 DEF FileInv
<1> QED
  BY <1>1, <1>3, <1>4, <1>5, <1>6, <1>7, <1>8, <1>9, <1>10, <1>11 DEF Next
-----------------------------------------------------------------------------
(* The handlers' answer. *)
Text == Word \cup {NUL}

Line_t == [key : Word, value : Word]

Body_t == {b \in Seq(Text) : Len(b) \in Numbers}

(* Content-Length is what it has to be, whatever has failed; there is no   *)
(* body without it.                                                        *)
RespInv ==
  /\ resp.status_code \in {0, 200, 404, 500}
  /\ resp.headers \in Seq(Line_t) /\ Len(resp.headers) <= 4
  /\ resp.body \in {NULL} \cup Body_t
  /\ resp.headers = << >> => resp.body = NULL
  /\ resp.headers # << >> =>
       resp.headers[1] = Field("Content-Length", ToString(Len(chars(resp.body))))

LEMMA NullIsNoText == ASSUME NEW s \in Seq(Text) PROVE s # NULL
BY WordAssumption DEF Text

LEMMA NumbersAreWords ==
  ASSUME NEW n \in Numbers
  PROVE  ToString(n) \in Word
BY DEF Word

LEMMA WordsOfTheSource ==
  /\ "Content-Length" \in Word /\ "Content-Type" \in Word /\ "Connection" \in Word
  /\ "X-Hackerone-Id" \in Word /\ "0xfaisal" \in Word /\ "text/plain" \in Word
  /\ "close" \in Word /\ "keep-alive" \in Word /\ "Path=" \in Word /\ " not found" \in Word
  /\ "HTTP/1.1 " \in Word /\ " " \in Word /\ ": " \in Word /\ crlf \in Word
  /\ "OK" \in Word /\ "Not Found" \in Word /\ "Forbidden" \in Word
  /\ "Internal Server Error" \in Word
  /\ \A ext \in DOMAIN get_mime : get_mime[ext] \in Word
  /\ Letter \subseteq Word /\ Char \subseteq Text /\ Word \subseteq Text
BY DEF Word, Text, Char

LEMMA OneWord ==
  ASSUME NEW w \in Word
  PROVE  <<w>> \in Seq(Text) /\ Len(<<w>>) <= 1
<1>1. w \in Text
  BY DEF Text
<1> QED BY <1>1

LEMMA OneLine ==
  ASSUME NEW key \in Word, NEW value \in Word
  PROVE  Field(key, value) \in Line_t
BY DEF Field, Line_t

LEMMA OneOrTwoLines ==
  ASSUME NEW a, NEW b, a \in Line_t, b \in Line_t
  PROVE  /\ <<a>> \in Seq(Line_t) /\ Len(<<a>>) <= 2
         /\ <<a, b>> \in Seq(Line_t) /\ Len(<<a, b>>) <= 2
OBVIOUS

(* Strings of at most n characters, or none. *)
Short(n) == {NULL} \cup {b \in Seq(Text) : Len(b) <= n}

LEMMA NewShort ==
  ASSUME NEW n \in Nat, NEW s \in Seq(Text), Len(s) <= n, NEW ok
  PROVE  new_string(s, ok) \in Short(n)
BY DEF new_string, Short

LEMMA CstrShort ==
  ASSUME NEW n \in Nat, NEW m \in Nat, NEW a \in Short(n),
         NEW b \in Seq(Text), Len(b) <= m, NEW ok
  PROVE  append_string_cstr(a, b, ok) \in Short(n + m)
<1>1. CASE a = NULL
  BY <1>1 DEF append_string_cstr, appends_cstr, Short
<1>2. CASE a # NULL
  <2>1. a \in Seq(Text) /\ Len(a) <= n
    BY <1>2 DEF Short
  <2>2. a \o b \in Seq(Text) /\ Len(a \o b) = Len(a) + Len(b)
        /\ Len(a) \in Nat /\ Len(b) \in Nat
    BY <2>1, ConcatProperties
  <2>3. Len(a \o b) <= n + m /\ Len(a) <= n + m
    BY <2>1, <2>2
  <2> QED BY <2>1, <2>2, <2>3 DEF append_string_cstr, Short
<1> QED BY <1>1, <1>2

LEMMA CopyShort ==
  ASSUME NEW n \in Nat, NEW a \in Short(n), NEW ok
  PROVE  copy_string(a, ok) \in Short(n)
<1>1. << >> \in Seq(Text) /\ Len(<< >>) = 0
  BY EmptySeq
<1> QED BY <1>1 DEF copy_string, chars, Short

LEMMA ShortIsBody ==
  ASSUME NEW n \in Nat, n <= MaxSize + 1, NEW b \in Short(n)
  PROVE  b \in {NULL} \cup Body_t
<1>1. CASE b = NULL
  BY <1>1
<1>2. CASE b # NULL
  <2>1. b \in Seq(Text) /\ Len(b) <= n /\ Len(b) \in Nat
    BY <1>2 DEF Short
  <2>2. Len(b) \in 0..MaxSize+1
    BY <2>1, BufferAssumption
  <2> QED BY <2>1, <2>2 DEF Body_t, Numbers
<1> QED BY <1>1, <1>2

(* set_header for a body and at most two more fields. *)
LEMMA Responds ==
  ASSUME NEW status \in {0, 200, 404, 500}, NEW b \in {NULL} \cup Body_t, NEW type \in Word,
         NEW fields \in Seq(Line_t), Len(fields) <= 2,
         respond(status, b, set_headers(b, type, fields))
  PROVE  RespInv'
<1> DEFINE len == Field("Content-Length", ToString(Len(chars(b))))
           ctype == Field("Content-Type", type)
           two == <<len, ctype>>
<1>1. Len(chars(b)) \in Numbers
  <2>1. b \in Body_t => b # NULL
    BY NullIsNoText DEF Body_t
  <2>2. Len(<< >>) \in Numbers
    BY EmptySeq DEF Numbers
  <2> QED BY <2>1, <2>2 DEF chars, Body_t
<1>2. len \in Line_t /\ ctype \in Line_t
  <2> DEFINE n == ToString(Len(chars(b)))
  <2>1. n \in Word
    BY <1>1, NumbersAreWords
  <2>2. "Content-Length" \in Word /\ "Content-Type" \in Word
    BY WordsOfTheSource
  <2> HIDE DEF n
  <2>3. [key |-> "Content-Length", value |-> n] \in Line_t
    BY <2>1, <2>2 DEF Line_t
  <2>4. [key |-> "Content-Type", value |-> type] \in Line_t
    BY <2>2 DEF Line_t
  <2> QED BY <2>3, <2>4 DEF n, Field
<1>3. set_headers(b, type, fields) = two \o fields
  BY DEF set_headers
<1>4. resp' = [status_code |-> status, headers |-> two \o fields, body |-> b]
  BY <1>3 DEF respond
<1> HIDE DEF len, ctype
<1>5. two \in Seq(Line_t) /\ Len(two) = 2 /\ two[1] = len
  BY <1>2
<1> HIDE DEF two
<1>6. /\ two \o fields \in Seq(Line_t) /\ Len(two \o fields) = Len(two) + Len(fields)
      /\ \A k \in 1..Len(two) : (two \o fields)[k] = two[k]
  <2>1. two \in Seq(Line_t)
    BY <1>5
  <2> QED BY <2>1, ConcatProperties
<1>7. Len(fields) \in Nat /\ 1 \in 1..Len(two)
  BY <1>5
<1>8. Len(two \o fields) <= 4 /\ two \o fields # << >> /\ (two \o fields)[1] = len
  BY <1>5, <1>6, <1>7
<1>9. resp'.headers = two \o fields /\ resp'.body = b /\ resp'.status_code = status
  BY <1>4
<1> QED BY <1>6, <1>8, <1>9 DEF RespInv, len

LEMMA RawPath ==
  ASSUME InputInv
  PROVE  raw_path \in Seq(Text) /\ Len(raw_path) <= MaxSize - 1
<1>1. Stored(input)
  BY BytesSent, EverythingStored DEF InputInv
<1>2. raw_path = FlattenSeq(LastUrl(input))
  BY <1>1 DEF Stored, raw_path
<1>3. /\ FlattenSeq(LastUrl(input)) \in Seq(Letter)
      /\ Len(FlattenSeq(LastUrl(input))) < MaxSize
  BY UrlBounds DEF InputInv
<1>4. Seq(Letter) \subseteq Seq(Text)
  <2>1. Letter \subseteq Text
    BY WordsOfTheSource
  <2> QED BY <2>1, SeqMonotone
<1>5. Len(FlattenSeq(LastUrl(input))) \in Nat
  BY <1>3
<1>6. Len(FlattenSeq(LastUrl(input))) <= MaxSize - 1
  BY <1>3, <1>5, BufferAssumption
<1> QED BY <1>2, <1>3, <1>4, <1>6

(* The pages of the program. *)
LEMMA PageStep ==
  ASSUME InputInv, NEW copies, page(copies)
  PROVE  RespInv'
<1>1. PICK f \in Faults({"new_string", "append_path"} \cup copies) :
        LET new  == new_string(<<"Path=">>, "new_string" \notin f)
            ok   == appends_cstr(new, "append_path" \notin f)
            temp == append_string_cstr(new, raw_path, "append_path" \notin f)
            body_ == IF ~ok THEN NULL
                     ELSE IF copies = {} THEN temp ELSE copy_string(temp, "copy" \notin f)
        IN  respond(IF ok THEN 200 ELSE 500, body_,
                    set_headers(body_, "text/plain", <<Field("X-Hackerone-Id", "0xfaisal"),
                                                       Field("Connection", "close")>>))
  BY DEF page
<1> DEFINE new  == new_string(<<"Path=">>, "new_string" \notin f)
           ok   == appends_cstr(new, "append_path" \notin f)
           temp == append_string_cstr(new, raw_path, "append_path" \notin f)
           copy == copy_string(temp, "copy" \notin f)
           b    == IF ~ok THEN NULL ELSE IF copies = {} THEN temp ELSE copy
           status == IF ok THEN 200 ELSE 500
           fields == <<Field("X-Hackerone-Id", "0xfaisal"), Field("Connection", "close")>>
<1>2. respond(status, b, set_headers(b, "text/plain", fields))
  BY <1>1
<1>3. 1 \in Nat /\ MaxSize - 1 \in Nat
  BY BufferAssumption
<1>4. new \in Short(1)
  <2>1. <<"Path=">> \in Seq(Text) /\ Len(<<"Path=">>) <= 1
    <3>1. "Path=" \in Word
      BY WordsOfTheSource
    <3> QED BY <3>1, OneWord
  <2> QED BY <1>3, <2>1, NewShort
<1>5. temp \in Short(1 + (MaxSize - 1))
  <2> HIDE DEF new
  <2> QED BY <1>3, <1>4, RawPath, CstrShort
<1>6. 1 + (MaxSize - 1) \in Nat /\ 1 + (MaxSize - 1) <= MaxSize + 1
  BY BufferAssumption
<1>7. copy \in Short(1 + (MaxSize - 1))
  <2> HIDE DEF temp
  <2> QED BY <1>5, <1>6, CopyShort
<1>8. NULL \in {NULL} \cup Body_t /\ temp \in {NULL} \cup Body_t /\ copy \in {NULL} \cup Body_t
  <2> HIDE DEF temp, copy
  <2> QED BY <1>5, <1>6, <1>7, ShortIsBody
<1>9. b \in {NULL} \cup Body_t /\ status \in {0, 200, 404, 500}
  <2> HIDE DEF temp, copy, ok
  <2> QED BY <1>8
<1>10. fields \in Seq(Line_t) /\ Len(fields) <= 2 /\ "text/plain" \in Word
  <2>1. "X-Hackerone-Id" \in Word /\ "0xfaisal" \in Word /\ "Connection" \in Word
        /\ "close" \in Word /\ "text/plain" \in Word
    BY WordsOfTheSource
  <2>2. Field("X-Hackerone-Id", "0xfaisal") \in Line_t /\ Field("Connection", "close") \in Line_t
    BY <2>1, OneLine
  <2> DEFINE l == Field("X-Hackerone-Id", "0xfaisal")
             r == Field("Connection", "close")
  <2> HIDE DEF l, r
  <2>3. <<l, r>> \in Seq(Line_t) /\ Len(<<l, r>>) <= 2
    BY <2>2, OneOrTwoLines DEF l, r
  <2> QED BY <2>1, <2>3 DEF l, r
<1>11. /\ respond(status, b, set_headers(b, "text/plain", fields))
       /\ b \in {NULL} \cup Body_t /\ status \in {0, 200, 404, 500}
       /\ fields \in Seq(Line_t) /\ Len(fields) <= 2 /\ "text/plain" \in Word
  <2> HIDE DEF b, status, fields
  <2> QED BY <1>2, <1>9, <1>10
<1> HIDE DEF new, ok, temp, copy, b, status, fields
<1> QED BY <1>11, Responds, ZenonT(60)

LEMMA NotFoundStep ==
  ASSUME InputInv, not_found_page
  PROVE  RespInv'
<1>1. PICK f \in Faults({"new_string", "append_path", "append_suffix", "copy"}) :
        LET new  == new_string(<<"Path=">>, "new_string" \notin f)
            mid  == append_string_cstr(new, raw_path, "append_path" \notin f)
            temp == append_string_cstr(mid, <<" not found">>, "append_suffix" \notin f)
            body_ == copy_string(temp, "copy" \notin f)
        IN  /\ respond(404, body_, set_headers(body_, "text/plain",
                                               <<Field("Connection", "keep-alive")>>))
            /\ failed' = failed \cup f
  BY DEF not_found_page
<1> DEFINE new  == new_string(<<"Path=">>, "new_string" \notin f)
           mid  == append_string_cstr(new, raw_path, "append_path" \notin f)
           temp == append_string_cstr(mid, <<" not found">>, "append_suffix" \notin f)
           b    == copy_string(temp, "copy" \notin f)
           fields == <<Field("Connection", "keep-alive")>>
<1>2. respond(404, b, set_headers(b, "text/plain", fields))
  BY <1>1
<1>3. 1 \in Nat /\ MaxSize - 1 \in Nat /\ 1 + (MaxSize - 1) \in Nat
  BY BufferAssumption
<1>4. new \in Short(1)
  <2>1. <<"Path=">> \in Seq(Text) /\ Len(<<"Path=">>) <= 1
    <3>1. "Path=" \in Word
      BY WordsOfTheSource
    <3> QED BY <3>1, OneWord
  <2> QED BY <1>3, <2>1, NewShort
<1>5. mid \in Short(1 + (MaxSize - 1))
  <2> HIDE DEF new
  <2> QED BY <1>3, <1>4, RawPath, CstrShort
<1>6. temp \in Short(1 + (MaxSize - 1) + 1)
  <2>1. <<" not found">> \in Seq(Text) /\ Len(<<" not found">>) <= 1
    <3>1. " not found" \in Word
      BY WordsOfTheSource
    <3> QED BY <3>1, OneWord
  <2> HIDE DEF mid
  <2> QED BY <1>3, <1>5, <2>1, CstrShort
<1>7. 1 + (MaxSize - 1) + 1 \in Nat /\ 1 + (MaxSize - 1) + 1 <= MaxSize + 1
  BY BufferAssumption
<1>8. b \in Short(1 + (MaxSize - 1) + 1)
  <2> HIDE DEF temp
  <2> QED BY <1>6, <1>7, CopyShort
<1>9. b \in {NULL} \cup Body_t
  <2> HIDE DEF b
  <2> QED BY <1>7, <1>8, ShortIsBody
<1>10. fields \in Seq(Line_t) /\ Len(fields) <= 2 /\ "text/plain" \in Word
  <2>1. "Connection" \in Word /\ "keep-alive" \in Word /\ "text/plain" \in Word
    BY WordsOfTheSource
  <2>2. Field("Connection", "keep-alive") \in Line_t
    BY <2>1, OneLine
  <2> DEFINE l == Field("Connection", "keep-alive")
  <2> HIDE DEF l
  <2>3. l \in Line_t
    BY <2>2 DEF l
  <2>4. <<l>> \in Seq(Line_t) /\ Len(<<l>>) <= 2
    BY <2>3, OneOrTwoLines
  <2>5. fields = <<l>>
    BY DEF l
  <2> HIDE DEF fields
  <2> QED BY <2>1, <2>4, <2>5
<1> DEFINE status == 404
<1>11. status \in {0, 200, 404, 500} /\ respond(status, b, set_headers(b, "text/plain", fields))
  BY <1>2
<1> HIDE DEF new, mid, temp, b, status, fields
<1> QED BY <1>9, <1>10, <1>11, Responds, ZenonT(60)

LEMMA StaticFileStep ==
  ASSUME FileInv, handle_static_files
  PROVE  RespInv'
<1> DEFINE data == www[opened].data
           n == IF size < Len(data) THEN size + 1 ELSE Len(data)
           read == SubSeq(data, 1, n)
           type == get_mime[www[opened].ext]
           fields == <<Field("Connection", "keep-alive")>>
<1>1. PICK f \in Faults({"new_n_string", "copy"}) :
        LET temp == IF "new_n_string" \in f THEN NULL ELSE read
            body_ == copy_string(temp, "copy" \notin f)
        IN  respond(200, body_, set_headers(body_, type, fields))
  BY DEF handle_static_files
<1> DEFINE temp == IF "new_n_string" \in f THEN NULL ELSE read
           b == copy_string(temp, "copy" \notin f)
<1>2. respond(200, b, set_headers(b, type, fields))
  BY <1>1
<1>3. opened \in DOMAIN Www /\ www[opened].ext \in DOMAIN get_mime /\ size \in Nat
      /\ www[opened] \in File_t /\ data \in Datas
  BY DEF FileInv, handle_static_files
<1>4. data \in Seq(Char) /\ Len(data) \in Nat
  BY <1>3 DEF File_t
<1>5. type \in Word
  BY <1>3, WordsOfTheSource
<1>6. Len(data) \in Nat /\ 0..Len(data) \subseteq Numbers
  <2> HIDE DEF data
  <2> QED BY <1>3, <1>4 DEF Numbers, Datas
<1>7. n \in 0..Len(data)
  <2> HIDE DEF data
  <2> QED BY <1>3, <1>4
<1>8. read \in Seq(Char) /\ Len(read) = n
  <2> HIDE DEF data, n
  <2> QED BY <1>4, <1>7
<1>9. read \in Seq(Text)
  <2>1. Seq(Char) \subseteq Seq(Text)
    BY WordsOfTheSource, SeqMonotone
  <2> HIDE DEF read
  <2> QED BY <1>8, <2>1
<1>10. read \in Body_t
  <2> HIDE DEF read, n
  <2> QED BY <1>6, <1>7, <1>8, <1>9 DEF Body_t
<1>11. << >> \in Body_t
  BY EmptySeq DEF Body_t, Numbers
<1>12. b \in {NULL} \cup Body_t
  <2> HIDE DEF read
  <2> QED BY <1>10, <1>11 DEF copy_string, chars
<1>13. fields \in Seq(Line_t) /\ Len(fields) <= 2
  <2>1. "Connection" \in Word /\ "keep-alive" \in Word
    BY WordsOfTheSource
  <2>2. Field("Connection", "keep-alive") \in Line_t
    BY <2>1, OneLine
  <2> QED BY <2>2, OneOrTwoLines
<1> HIDE DEF b, fields, type
<1> QED BY <1>2, <1>5, <1>12, <1>13, Responds

LEMMA RespBlank ==
  ASSUME NEW r, r = init_resp_ctx \/ r = uninitialized
  PROVE  /\ r.status_code \in {0, 200, 404, 500} /\ r.headers = << >> /\ r.body = NULL
BY DEF init_resp_ctx, uninitialized

LEMMA RespInit ==
  /\ Init => RespInv
  /\ resp' = init_resp_ctx \/ resp' = uninitialized => RespInv'
<1>1. << >> \in Seq(Line_t) /\ Len(<< >>) <= 4
  BY EmptySeq
<1>2. ASSUME resp' = init_resp_ctx \/ resp' = uninitialized PROVE RespInv'
  <2>1. resp'.status_code \in {0, 200, 404, 500} /\ resp'.headers = << >> /\ resp'.body = NULL
    BY <1>2, RespBlank
  <2> QED BY <1>1, <2>1 DEF RespInv
<1>3. ASSUME Init PROVE RespInv
  <2>1. resp = init_resp_ctx \/ resp = uninitialized
    BY <1>3 DEF Init
  <2>2. resp.status_code \in {0, 200, 404, 500} /\ resp.headers = << >> /\ resp.body = NULL
    BY <2>1, RespBlank
  <2> QED BY <1>1, <2>2 DEF RespInv
<1> QED BY <1>2, <1>3

LEMMA RespStep ==
  ASSUME InputInv, FileInv, RespInv, [Next]_vars
  PROVE  RespInv'
<1>1. ASSUME UNCHANGED resp PROVE RespInv'
  BY <1>1 DEF RespInv
<1>2. CASE read_method \/ read_url \/ read_header
  BY <1>1, <1>2 DEF read_method, read_url, read_header, reads
<1>3. CASE handle_conn
  BY <1>3, RespInit DEF handle_conn
<1>4. CASE home_page \/ api_home_page
  BY <1>4, PageStep DEF home_page, api_home_page
<1>5. CASE not_found_page
  BY <1>5, NotFoundStep
<1>6. CASE handle_static_files
  BY <1>6, StaticFileStep
<1>7. CASE no_path
  BY <1>7 DEF no_path, RespInv
<1>8. CASE open
  BY <1>8 DEF open, RespInv
<1>9. CASE stat_fails \/ stat \/ get_mime_overflows \/ open_fails \/ read_fails \/ file_changes
  BY <1>1, <1>9 DEF stat_fails, stat, get_mime_overflows, open_fails, read_fails, file_changes
<1>10. CASE status_line \/ headers \/ separator \/ body \/ no_line
  BY <1>1, <1>10 DEF status_line, headers, separator, body, no_line, generates
<1>11. CASE next_task
  BY <1>11, RespInit DEF next_task
<1>12. CASE UNCHANGED vars
  BY <1>1, <1>12 DEF vars
<1> QED
  BY <1>2, <1>3, <1>4, <1>5, <1>6, <1>7, <1>8, <1>9, <1>10, <1>11, <1>12 DEF Next
-----------------------------------------------------------------------------
(* The pieces that generate_response appends. *)
LEMMA StrncpyType ==
  ASSUME NEW s \in Seq(Text)
  PROVE  strncpy(s) \in Seq(Text) /\ Len(strncpy(s)) = Len(s)
<1>1. DOMAIN s = 1..Len(s) /\ Len(s) \in Nat /\ \A k \in 1..Len(s) : s[k] \in Text
  OBVIOUS
<1>2. \A k \in 1..Len(s) : (IF \E m \in 1..k : s[m] = NUL THEN NUL ELSE s[k]) \in Text
  BY <1>1 DEF Text
<1>3. strncpy(s) \in [1..Len(s) -> Text]
  BY <1>1, <1>2 DEF strncpy
<1>4. strncpy(s) \in Seq(Text)
  BY <1>1, <1>3, IsASeq
<1> QED BY <1>1, <1>3, <1>4

LEMMA StrncpyWords ==
  ASSUME NEW s \in Seq(Word)
  PROVE  strncpy(s) = s
<1>1. DOMAIN s = 1..Len(s) /\ Len(s) \in Nat /\ s = [k \in 1..Len(s) |-> s[k]]
  OBVIOUS
<1>2. \A k \in 1..Len(s) : s[k] # NUL
  BY WordAssumption
<1>3. \A k \in 1..Len(s) : \A m \in 1..k : m \in 1..Len(s)
  BY <1>1
<1>4. strncpy(s) = [k \in 1..Len(s) |-> IF \E m \in 1..k : s[m] = NUL THEN NUL ELSE s[k]]
  BY <1>1 DEF strncpy
<1> QED BY <1>1, <1>2, <1>3, <1>4

LEMMA ZeroedIs == \A s : Zeroed(s) = strncpy(s)
<1> SUFFICES ASSUME NEW s PROVE Zeroed(s) = strncpy(s)
  OBVIOUS
<1>1. \A k \in DOMAIN s : NUL \in {s[m] : m \in 1..k} <=> \E m \in 1..k : s[m] = NUL
  OBVIOUS
<1> QED BY <1>1 DEF Zeroed, strncpy

FirstLine == first_line(resp.status_code)
Lines == lines(resp.headers)
Blank == <<crlf>>
LastPiece == strncpy(chars(resp.body))

LEMMA FirstLineType ==
  ASSUME RespInv
  PROVE  FirstLine \in Seq(Word) /\ FirstLine \in Seq(Text) /\ Len(FirstLine) = 5
<1> DEFINE code == ToString(resp.status_code)
           text == get_status_code(resp.status_code)
<1>1. code \in Word
  <2>1. resp.status_code \in Numbers
    BY DEF RespInv, Numbers
  <2> QED BY <2>1, NumbersAreWords
<1>2. "OK" \in Word /\ "Not Found" \in Word /\ "Forbidden" \in Word
      /\ "Internal Server Error" \in Word /\ "HTTP/1.1 " \in Word /\ " " \in Word /\ crlf \in Word
  BY WordsOfTheSource
<1>3. text \in Word
  BY <1>2 DEF get_status_code
<1> HIDE DEF code, text
<1>4. <<"HTTP/1.1 ", code, " ", text, crlf>> \in Seq(Word)
      /\ Len(<<"HTTP/1.1 ", code, " ", text, crlf>>) = 5
  BY <1>1, <1>2, <1>3, FiveType
<1>5. FirstLine = <<"HTTP/1.1 ", code, " ", text, crlf>>
  BY DEF FirstLine, first_line, code, text
<1>6. Seq(Word) \subseteq Seq(Text)
  <2>1. Word \subseteq Text
    BY DEF Text
  <2> QED BY <2>1, SeqMonotone
<1> QED BY <1>4, <1>5, <1>6

LEMMA LinesType ==
  ASSUME RespInv
  PROVE  /\ Lines \in Seq(Seq(Text)) /\ Len(Lines) = Len(resp.headers)
         /\ \A k \in 1..Len(resp.headers) : /\ Lines[k] = header_value(resp.headers[k])
                                            /\ Len(Lines[k]) = 4
<1> DEFINE hs == resp.headers
<1>1. hs \in Seq(Line_t)
  BY DEF RespInv
<1> HIDE DEF hs
<1>2. DOMAIN hs = 1..Len(hs) /\ Len(hs) \in Nat /\ \A k \in 1..Len(hs) : hs[k] \in Line_t
  BY <1>1
<1>3. ASSUME NEW h \in Line_t PROVE header_value(h) \in Seq(Text) /\ Len(header_value(h)) = 4
  <2>1. h.key \in Text /\ h.value \in Text
    BY DEF Line_t, Text
  <2>2. ": " \in Text /\ crlf \in Text
    <3>1. ": " \in Word /\ crlf \in Word
      BY WordsOfTheSource
    <3> QED BY <3>1 DEF Text
  <2>3. <<h.key, ": ", h.value, crlf>> \in Seq(Text) /\ Len(<<h.key, ": ", h.value, crlf>>) = 4
    BY <2>1, <2>2, FourType
  <2> QED BY <2>3 DEF header_value
<1>4. lines(hs) = [k \in 1..Len(hs) |-> header_value(hs[k])]
  BY <1>2 DEF lines
<1>5. lines(hs) \in [1..Len(hs) -> Seq(Text)]
  BY <1>2, <1>3, <1>4
<1>6. lines(hs) \in Seq(Seq(Text)) /\ Len(lines(hs)) = Len(hs)
  <2>1. lines(hs) \in Seq(Seq(Text))
    BY <1>2, <1>5, IsASeq
  <2> QED BY <1>2, <1>5, <2>1
<1>7. \A k \in 1..Len(hs) : lines(hs)[k] = header_value(hs[k]) /\ Len(lines(hs)[k]) = 4
  BY <1>2, <1>3, <1>4
<1> QED BY <1>6, <1>7 DEF hs, Lines

LEMMA LastPieceType ==
  ASSUME RespInv
  PROVE  /\ chars(resp.body) \in Seq(Text)
         /\ LastPiece \in Seq(Text) /\ Len(LastPiece) = Len(chars(resp.body))
<1>1. chars(resp.body) \in Seq(Text)
  BY EmptySeq DEF RespInv, chars, Body_t
<1> QED BY <1>1, StrncpyType DEF LastPiece

LEMMA BlankType ==
  /\ Blank \in Seq(Text) /\ Len(Blank) = 1 /\ strncpy(Blank) = Blank
<1>1. crlf \in Word /\ crlf \in Text
  BY WordsOfTheSource DEF Text
<1>2. <<crlf>> \in Seq(Word)
  BY <1>1
<1>3. <<crlf>> \in Seq(Text) /\ Len(<<crlf>>) = 1
  BY <1>1
<1> QED BY <1>2, <1>3, StrncpyWords DEF Blank

(* What is to be appended by the time of each step. *)
Pieces1 == <<FirstLine>>
Pieces2 == Pieces1 \o Lines
Pieces3 == Pieces2 \o <<Blank>>
Pieces4 == Pieces3 \o <<LastPiece>>

LEMMA PiecesType ==
  ASSUME RespInv
  PROVE  /\ Pieces1 \in Seq(Seq(Text)) /\ Len(Pieces1) = 1
         /\ Pieces2 \in Seq(Seq(Text)) /\ Len(Pieces2) = 1 + Len(resp.headers)
         /\ Pieces3 \in Seq(Seq(Text)) /\ Len(Pieces3) = 2 + Len(resp.headers)
         /\ Pieces4 \in Seq(Seq(Text)) /\ Len(Pieces4) = 3 + Len(resp.headers)
<1>0. Len(resp.headers) \in Nat
  BY DEF RespInv
<1>1. FirstLine \in Seq(Text) /\ Blank \in Seq(Text) /\ LastPiece \in Seq(Text)
  BY FirstLineType, BlankType, LastPieceType
<1>2. /\ <<FirstLine>> \in Seq(Seq(Text)) /\ Len(<<FirstLine>>) = 1
      /\ <<Blank>> \in Seq(Seq(Text)) /\ Len(<<Blank>>) = 1
      /\ <<LastPiece>> \in Seq(Seq(Text)) /\ Len(<<LastPiece>>) = 1
  BY <1>1
<1>3. Lines \in Seq(Seq(Text)) /\ Len(Lines) = Len(resp.headers)
  BY LinesType
<1>4. Pieces1 \in Seq(Seq(Text)) /\ Len(Pieces1) = 1
  BY <1>2 DEF Pieces1
<1>5. Pieces2 \in Seq(Seq(Text)) /\ Len(Pieces2) = 1 + Len(resp.headers)
  <2>1. Pieces1 \o Lines \in Seq(Seq(Text)) /\ Len(Pieces1 \o Lines) = Len(Pieces1) + Len(Lines)
    <3>1. Pieces1 \in Seq(Seq(Text)) /\ Lines \in Seq(Seq(Text))
      BY <1>3, <1>4
    <3> QED BY <3>1, ConcatProperties
  <2> QED BY <1>3, <1>4, <2>1 DEF Pieces2
<1>6. Pieces3 \in Seq(Seq(Text)) /\ Len(Pieces3) = 2 + Len(resp.headers)
  <2> DEFINE b == <<Blank>>
  <2>1. b \in Seq(Seq(Text)) /\ Len(b) = 1
    BY <1>2
  <2> HIDE DEF b
  <2>2. Pieces2 \o b \in Seq(Seq(Text)) /\ Len(Pieces2 \o b) = Len(Pieces2) + Len(b)
    <3>1. Pieces2 \in Seq(Seq(Text)) /\ b \in Seq(Seq(Text))
      BY <1>5, <2>1
    <3> QED BY <3>1, ConcatProperties
  <2>3. Pieces3 = Pieces2 \o b
    BY DEF Pieces3, b
  <2> QED BY <1>0, <1>5, <2>1, <2>2, <2>3
<1>7. Pieces4 \in Seq(Seq(Text)) /\ Len(Pieces4) = 3 + Len(resp.headers)
  <2> DEFINE b == <<LastPiece>>
  <2>1. b \in Seq(Seq(Text)) /\ Len(b) = 1
    BY <1>2
  <2> HIDE DEF b
  <2>2. Pieces3 \o b \in Seq(Seq(Text)) /\ Len(Pieces3 \o b) = Len(Pieces3) + Len(b)
    <3>1. Pieces3 \in Seq(Seq(Text)) /\ b \in Seq(Seq(Text))
      BY <1>6, <2>1
    <3> QED BY <3>1, ConcatProperties
  <2>3. Pieces4 = Pieces3 \o b
    BY DEF Pieces4, b
  <2> QED BY <1>0, <1>6, <2>1, <2>2, <2>3
<1> QED BY <1>4, <1>5, <1>6, <1>7

(* c, after the failures f: no answer without memory for it, otherwise     *)
(* what is left of the pieces.                                             *)
Made(c, f, pieces) == IF c = NULL THEN "resp" \in f ELSE Left_of(c, f, pieces)

(* An answer of n pieces at most. *)
Whole(c, n) == c = NULL \/ (c \in Seq(Seq(Text)) /\ Len(c) <= n)

LEMMA NullIsNoAnswer == ASSUME NEW c \in Seq(Seq(Text)) PROVE c # NULL
BY WordAssumption DEF Text

LEMMA MadeIsWhole ==
  ASSUME NEW pieces \in Seq(Seq(Text)), NEW c, NEW f, Made(c, f, pieces)
  PROVE  Whole(c, Len(pieces))
<1>1. CASE c = NULL
  BY <1>1 DEF Whole
<1>2. CASE c # NULL
  <2>1. Left_of(c, f, pieces)
    BY <1>2 DEF Made
  <2>2. c \in Seq(Seq(Text)) /\ Len(c) <= Len(pieces)
    BY <2>1, LeftType, LeftLength
  <2> QED BY <2>2 DEF Whole
<1> QED BY <1>1, <1>2

(* append_string. *)
LEMMA MadeAppend ==
  ASSUME NEW pieces \in Seq(Seq(Text)), NEW c, NEW f, Made(c, f, pieces),
         NEW e, NEW piece \in Seq(Text), NEW ok, NEW g,
         e # NULL => strncpy(e) = piece,
         e = NULL \/ ~ok => g \cap Generating # {}
  PROVE  Made(append_string(c, e, ok), f \cup g, pieces \o <<piece>>)
<1>1. CASE c = NULL
  <2>1. append_string(c, e, ok) = NULL /\ "resp" \in f \cup g
    BY <1>1 DEF append_string, Made
  <2> QED BY <2>1 DEF Made
<1>2. CASE c # NULL
  <2>1. Left_of(c, f, pieces)
    BY <1>2 DEF Made
  <2>2. /\ Left_of(Append(c, piece), f \cup g, pieces \o <<piece>>)
        /\ g \cap Generating # {} => Left_of(c, f \cup g, pieces \o <<piece>>)
    BY <2>1, LeftAppend
  <2>3. c \in Seq(Seq(Text))
    BY <2>1, LeftType
  <2>4. Append(c, piece) # NULL
    <3>1. Append(c, piece) \in Seq(Seq(Text))
      BY <2>3, AppendProperties
    <3> QED BY <3>1, NullIsNoAnswer
  <2>5. CASE e = NULL \/ ~ok
    <3>1. append_string(c, e, ok) = c
      BY <2>5 DEF append_string
    <3>2. Left_of(c, f \cup g, pieces \o <<piece>>)
      BY <2>2, <2>5
    <3> QED BY <1>2, <3>1, <3>2 DEF Made
  <2>6. CASE ~(e = NULL \/ ~ok)
    <3>1. append_string(c, e, ok) = Append(c, strncpy(e))
      BY <1>2, <2>6 DEF append_string
    <3>2. append_string(c, e, ok) = Append(c, piece)
      BY <2>6, <3>1
    <3> QED BY <2>2, <2>4, <3>2 DEF Made
  <2> QED BY <2>5, <2>6
<1> QED BY <1>1, <1>2

(* The headers, all at once. *)
LEMMA MadeConcat ==
  ASSUME NEW pieces \in Seq(Seq(Text)), NEW c, NEW f, Made(c, f, pieces),
         NEW more \in Seq(Seq(Text)), NEW lost \in SUBSET (1..Len(more)), NEW g,
         lost # {} => g \cap Generating # {}
  PROVE  Made(IF c = NULL THEN NULL ELSE c \o Without(more, lost), f \cup g, pieces \o more)
<1>1. CASE c = NULL
  <2>1. "resp" \in f \cup g
    BY <1>1 DEF Made
  <2> QED BY <1>1, <2>1 DEF Made
<1>2. CASE c # NULL
  <2>1. Left_of(c, f, pieces)
    BY <1>2 DEF Made
  <2> DEFINE d == Without(more, lost)
  <2>2. Left_of(d, g, more)
    BY DEF Left_of
  <2>3. d \in Seq(Seq(Text)) /\ c \in Seq(Seq(Text))
    BY <2>1, WithoutType, LeftType
  <2> HIDE DEF d
  <2>4. Left_of(c \o d, f \cup g, pieces \o more)
    BY <2>1, <2>2, LeftConcat
  <2>5. c \o d # NULL
    <3>1. c \o d \in Seq(Seq(Text))
      BY <2>3, ConcatProperties
    <3> QED BY <3>1, NullIsNoAnswer
  <2>6. Made(c \o d, f \cup g, pieces \o more)
    BY <2>4, <2>5 DEF Made
  <2> QED BY <1>2, <2>6 DEF d
<1> QED BY <1>1, <1>2

(* How far the answer is. *)
Generates_t == {"headers", "separator", "body", "done", "crashed"}

LeftInv == /\ Whole(complete, 3 + Len(resp.headers))
           /\ pc \notin Generates_t => complete = NULL
           /\ pc = "headers" => Made(complete, failed, Pieces1)
           /\ pc = "separator" => Made(complete, failed, Pieces2)
           /\ pc = "body" => Made(complete, failed, Pieces3)
           /\ pc = "done" => Made(complete, failed, Pieces4)

LEMMA PiecesKept ==
  ASSUME UNCHANGED resp
  PROVE  /\ Pieces1' = Pieces1 /\ Pieces2' = Pieces2 /\ Pieces3' = Pieces3 /\ Pieces4' = Pieces4
<1>1. FirstLine' = FirstLine /\ Lines' = Lines /\ LastPiece' = LastPiece /\ Blank' = Blank
  BY DEF FirstLine, Lines, LastPiece, Blank
<1> QED BY <1>1 DEF Pieces1, Pieces2, Pieces3, Pieces4

LEMMA WholeMonotone ==
  ASSUME NEW c, NEW n \in Nat, NEW m \in Nat, n <= m, Whole(c, n)
  PROVE  Whole(c, m)
<1>1. CASE c = NULL
  BY <1>1 DEF Whole
<1>2. CASE c # NULL
  <2>1. c \in Seq(Seq(Text)) /\ Len(c) <= n /\ Len(c) \in Nat
    BY <1>2 DEF Whole
  <2> QED BY <2>1 DEF Whole
<1> QED BY <1>1, <1>2

LEMMA FirstStep ==
  ASSUME RespInv, LeftInv, status_line
  PROVE  LeftInv'
<1>1. PICK f \in Faults({"resp", "append_line"}) :
         generates("headers", append_string(new_string(<< >>, "resp" \notin f),
                                            first_line(resp.status_code),
                                            "append_line" \notin f), f)
  BY DEF status_line
<1> DEFINE new == new_string(<< >>, "resp" \notin f)
           c == append_string(new, FirstLine, "append_line" \notin f)
<1>2. complete' = c /\ failed' = failed \cup f /\ pc' = "headers" /\ UNCHANGED resp
  BY <1>1 DEF generates, FirstLine
<1>3. FirstLine \in Seq(Text) /\ FirstLine # NULL /\ strncpy(FirstLine) = FirstLine
  BY FirstLineType, StrncpyWords, NullIsNoText
<1>4. Made(new, failed \cup f, << >>)
  <2>1. CASE "resp" \in f
    BY <2>1 DEF new_string, Made
  <2>2. CASE "resp" \notin f
    <3>1. << >> \in Seq(Seq(Text)) /\ new = << >>
      BY <2>2, EmptySeq DEF new_string
    <3>2. << >> # NULL
      BY <3>1, NullIsNoAnswer
    <3> QED BY <3>1, <3>2, LeftEmpty DEF Made
  <2> QED BY <2>1, <2>2
<1>5. Made(c, (failed \cup f) \cup f, << >> \o <<FirstLine>>)
  <2>1. << >> \in Seq(Seq(Text))
    BY EmptySeq
  <2>2. FirstLine = NULL \/ ~("append_line" \notin f) => f \cap Generating # {}
    BY <1>3 DEF Generating
  <2> HIDE DEF new
  <2> QED BY <1>3, <1>4, <2>1, <2>2, MadeAppend
<1>6. << >> \o <<FirstLine>> = Pieces1
  BY <1>3 DEF Pieces1
<1>7. (failed \cup f) \cup f = failed \cup f
  OBVIOUS
<1>8. Made(c, failed \cup f, Pieces1)
  <2> HIDE DEF c
  <2> QED BY <1>5, <1>6, <1>7
<1> HIDE DEF c
<1>9. Whole(c, 3 + Len(resp.headers))
  <2>1. Len(resp.headers) \in Nat
    BY DEF RespInv
  <2>2. Pieces1 \in Seq(Seq(Text)) /\ Len(Pieces1) = 1
    BY PiecesType
  <2>3. Whole(c, Len(Pieces1))
    BY <1>8, <2>2, MadeIsWhole
  <2>4. 1 \in Nat /\ 3 + Len(resp.headers) \in Nat /\ 1 <= 3 + Len(resp.headers)
    BY <2>1
  <2> QED BY <2>2, <2>3, <2>4, WholeMonotone
<1> QED BY <1>2, <1>8, <1>9, PiecesKept DEF LeftInv, Generates_t

LEMMA HeadersStep ==
  ASSUME RespInv, LeftInv, headers
  PROVE  LeftInv'
<1> DEFINE fault(lost) == IF lost = {} THEN {} ELSE {"append_header"}
           with(lost) == IF complete = NULL THEN NULL ELSE complete \o Without(Lines, lost)
<1>1. PICK lost \in SUBSET DOMAIN resp.headers :
         generates("separator", with(lost), fault(lost))
  BY DEF headers, Lines
<1>2. /\ complete' = with(lost) /\ failed' = failed \cup fault(lost) /\ pc' = "separator"
      /\ UNCHANGED resp
  BY <1>1 DEF generates
<1>3. Made(complete, failed, Pieces1)
  BY DEF headers, LeftInv
<1>4. Lines \in Seq(Seq(Text)) /\ Len(Lines) = Len(resp.headers)
  BY LinesType
<1>5. lost \in SUBSET (1..Len(Lines))
  <2>1. DOMAIN resp.headers = 1..Len(resp.headers)
    BY DEF RespInv
  <2> QED BY <1>4, <2>1
<1>6. lost # {} => fault(lost) \cap Generating # {}
  BY DEF Generating
<1>7. Pieces1 \in Seq(Seq(Text))
  BY PiecesType
<1>8. Made(with(lost), failed \cup fault(lost), Pieces1 \o Lines)
  <2> HIDE DEF fault
  <2> QED BY <1>3, <1>4, <1>5, <1>6, <1>7, MadeConcat
<1> HIDE DEF with, fault
<1>9. Made(with(lost), failed \cup fault(lost), Pieces2)
  BY <1>8 DEF Pieces2
<1>10. Whole(with(lost), 3 + Len(resp.headers))
  <2>1. Len(resp.headers) \in Nat
    BY DEF RespInv
  <2>2. Pieces2 \in Seq(Seq(Text)) /\ Len(Pieces2) = 1 + Len(resp.headers)
    BY PiecesType
  <2>3. Whole(with(lost), Len(Pieces2))
    BY <1>9, <2>2, MadeIsWhole
  <2>4. Len(Pieces2) \in Nat /\ 3 + Len(resp.headers) \in Nat
        /\ Len(Pieces2) <= 3 + Len(resp.headers)
    BY <2>1, <2>2
  <2> QED BY <2>3, <2>4, WholeMonotone
<1> QED BY <1>2, <1>9, <1>10, PiecesKept DEF LeftInv, Generates_t

LEMMA SeparatorStep ==
  ASSUME RespInv, LeftInv, separator
  PROVE  LeftInv'
<1>1. PICK f \in Faults({"new_separator", "append_separator"}) :
         generates("body", append_string(complete, new_string(<<crlf>>, "new_separator" \notin f),
                                         "append_separator" \notin f), f)
  BY DEF separator
<1> DEFINE e == new_string(Blank, "new_separator" \notin f)
           c == append_string(complete, e, "append_separator" \notin f)
<1>2. complete' = c /\ failed' = failed \cup f /\ pc' = "body" /\ UNCHANGED resp
  BY <1>1 DEF generates, Blank
<1>3. Made(complete, failed, Pieces2)
  BY DEF separator, LeftInv
<1>4. Blank \in Seq(Text) /\ Blank # NULL /\ strncpy(Blank) = Blank
  BY BlankType, NullIsNoText
<1>5. e # NULL => strncpy(e) = Blank
  BY <1>4 DEF new_string
<1>6. e = NULL \/ ~("append_separator" \notin f) => f \cap Generating # {}
  BY <1>4 DEF new_string, Generating
<1>7. Pieces2 \in Seq(Seq(Text))
  BY PiecesType
<1>8. Made(c, failed \cup f, Pieces2 \o <<Blank>>)
  <2> HIDE DEF e
  <2> QED BY <1>3, <1>4, <1>5, <1>6, <1>7, MadeAppend
<1> HIDE DEF c
<1>9. Made(c, failed \cup f, Pieces3)
  BY <1>8 DEF Pieces3
<1>10. Whole(c, 3 + Len(resp.headers))
  <2>1. Len(resp.headers) \in Nat
    BY DEF RespInv
  <2>2. Pieces3 \in Seq(Seq(Text)) /\ Len(Pieces3) = 2 + Len(resp.headers)
    BY PiecesType
  <2>3. Whole(c, Len(Pieces3))
    BY <1>9, <2>2, MadeIsWhole
  <2>4. Len(Pieces3) \in Nat /\ 3 + Len(resp.headers) \in Nat
        /\ Len(Pieces3) <= 3 + Len(resp.headers)
    BY <2>1, <2>2
  <2> QED BY <2>3, <2>4, WholeMonotone
<1> QED BY <1>2, <1>9, <1>10, PiecesKept DEF LeftInv, Generates_t

LEMMA BodyStep ==
  ASSUME RespInv, LeftInv, body
  PROVE  LeftInv'
<1>1. PICK f \in Faults({"copy_body", "append_body"}) :
         generates("done", append_string(complete, copy_string(resp.body, "copy_body" \notin f),
                                         "append_body" \notin f), f)
  BY DEF body
<1> DEFINE e == copy_string(resp.body, "copy_body" \notin f)
           c == append_string(complete, e, "append_body" \notin f)
<1>2. complete' = c /\ failed' = failed \cup f /\ pc' = "done" /\ UNCHANGED resp
  BY <1>1 DEF generates
<1>3. Made(complete, failed, Pieces3)
  BY DEF body, LeftInv
<1>4. LastPiece \in Seq(Text) /\ chars(resp.body) # NULL
  BY LastPieceType, NullIsNoText
<1>5. e # NULL => strncpy(e) = LastPiece
  BY DEF copy_string, LastPiece
<1>6. e = NULL \/ ~("append_body" \notin f) => f \cap Generating # {}
  BY <1>4 DEF copy_string, Generating
<1>7. Pieces3 \in Seq(Seq(Text))
  BY PiecesType
<1>8. Made(c, failed \cup f, Pieces3 \o <<LastPiece>>)
  <2> HIDE DEF e
  <2> QED BY <1>3, <1>4, <1>5, <1>6, <1>7, MadeAppend
<1> HIDE DEF c
<1>9. Made(c, failed \cup f, Pieces4)
  BY <1>8 DEF Pieces4
<1>10. Whole(c, 3 + Len(resp.headers))
  <2>1. Pieces4 \in Seq(Seq(Text)) /\ Len(Pieces4) = 3 + Len(resp.headers)
    BY PiecesType
  <2>2. Whole(c, Len(Pieces4))
    BY <1>9, <2>1, MadeIsWhole
  <2> QED BY <2>1, <2>2
<1> QED BY <1>2, <1>9, <1>10, PiecesKept DEF LeftInv, Generates_t

LEMMA LeftStep ==
  ASSUME RespInv, LeftInv, [Next]_vars
  PROVE  LeftInv'
<1>1. ASSUME complete = NULL, complete' = NULL, pc' \notin Generates_t PROVE LeftInv'
  BY <1>1 DEF LeftInv, Whole, Generates_t
<1>2. ASSUME pc \notin Generates_t, UNCHANGED complete, pc' \notin Generates_t PROVE LeftInv'
  BY <1>1, <1>2 DEF LeftInv
<1>3. CASE read_method \/ read_url \/ read_header
  <2>1. pc = "read" /\ pc' = pc /\ UNCHANGED complete
    BY <1>3 DEF read_method, read_url, read_header, reads
  <2> QED BY <1>2, <2>1 DEF Generates_t
<1>4. CASE handle_conn
  <2>1. pc = "read" /\ UNCHANGED complete
    BY <1>4 DEF handle_conn
  <2>2. pc' \in {"silent", "status_line", "handle_not_found"}
          \/ (path \in DOMAIN Handlers /\ pc' = Handlers[path])
    BY <1>4 DEF handle_conn
  <2>3. pc' \notin Generates_t
    BY <2>2, RoutesAreHandlers DEF Generates_t
  <2> QED BY <1>2, <2>1, <2>3 DEF Generates_t
<1>5. CASE home_page \/ api_home_page \/ not_found_page
  <2>1. pc \in {"home_page", "api_home_page", "not_found_page"} /\ pc' = "status_line"
        /\ UNCHANGED complete
    BY <1>5 DEF home_page, api_home_page, not_found_page, page
  <2> QED BY <1>2, <2>1 DEF Generates_t
<1>6. CASE no_path \/ read_fails \/ stat_fails \/ open_fails \/ handle_static_files
  <2>1. pc \in {"handle_not_found", "open", "read_file"}
        /\ pc' \in {"status_line", "not_found_page"} /\ UNCHANGED complete
    BY <1>6 DEF no_path, read_fails, stat_fails, open_fails, handle_static_files
  <2> QED BY <1>2, <2>1 DEF Generates_t
<1>7. CASE stat \/ open
  <2>1. pc \in {"handle_not_found", "open"} /\ pc' \in {"open", "status_line", "read_file"}
        /\ UNCHANGED complete
    BY <1>7 DEF stat, open
  <2> QED BY <1>2, <2>1 DEF Generates_t
<1>8. CASE no_line \/ get_mime_overflows
  <2>1. pc' = "crashed" /\ UNCHANGED <<complete, resp>>
    BY <1>8 DEF no_line, generates, get_mime_overflows
  <2> QED BY <2>1 DEF LeftInv, Generates_t
<1>9. CASE next_task
  <2>1. pc' = "read" /\ complete' = NULL
    BY <1>9 DEF next_task
  <2> QED BY <2>1 DEF LeftInv, Whole, Generates_t
<1>10. ASSUME UNCHANGED <<pc, resp, complete, failed>> PROVE LeftInv'
  BY <1>10, PiecesKept DEF LeftInv
<1>11. CASE file_changes
  BY <1>10, <1>11 DEF file_changes
<1>12. CASE UNCHANGED vars
  BY <1>10, <1>12 DEF vars
<1> QED
  BY <1>3, <1>4, <1>5, <1>6, <1>7, <1>8, <1>9, <1>11, <1>12,
     FirstStep, HeadersStep, SeparatorStep, BodyStep DEF Next
-----------------------------------------------------------------------------
(* The inductive invariant. *)
IInv == InputInv /\ TypesInv /\ FileInv /\ RespInv /\ LeftInv

LEMMA LeftInit == Init => LeftInv
BY DEF Init, LeftInv, Whole, Generates_t

(* A worker's bytes, files, response and answer stay related in every      *)
(* state, whatever fails and whatever happens to the files.                *)
THEOREM WorkerInvariant == Spec => []IInv
<1>1. Init => IInv
  BY InputInit, FilesInit, RespInit, LeftInit DEF IInv
<1>2. IInv /\ [Next]_vars => IInv'
  BY InputStep, TypesStep, FileStep, RespStep, LeftStep DEF IInv
<1> QED BY <1>1, <1>2, PTL DEF Spec

LEMMA TypesHold == IInv => TypeOK
<1> SUFFICES ASSUME IInv PROVE TypeOK
  OBVIOUS
<1>1. pc \in Pcs /\ fds \in 0..MaxFds /\ changes \in 0..MaxChanges
      /\ Cardinality(failed) <= MaxFaults /\ stable \in BOOLEAN
  BY DEF IInv, TypesInv
<1>2. ASSUME NEW k \in DOMAIN input
      PROVE  input[k].method \in Method \cup {"BAD"} /\ ToSet(input[k].headers) \subseteq Header
  <2>1. input[k] \in Bytes_t
    BY <1>2 DEF IInv, InputInv
  <2>2. input[k].headers \in Seq(Header) /\ input[k].method \in Method \cup {"BAD"}
    BY <2>1 DEF Bytes_t
  <2> QED BY <2>2 DEF ToSet
<1>3. resp.status_code \in {0, 200, 404, 500} /\ Len(resp.headers) <= 4
  BY DEF IInv, RespInv
<1>4. pc = "read_file" => www[opened].ext \in DOMAIN get_mime
  BY DEF IInv, FileInv
<1>5. complete = NULL \/ Len(complete) <= 3 + Len(resp.headers)
  BY DEF IInv, LeftInv, Whole
<1> QED BY <1>1, <1>2, <1>3, <1>4, <1>5 DEF TypeOK, Pcs

(* Where a worker is, what it has counted and what it has built.           *)
THEOREM WorkerTypeCorrect == Spec => []TypeOK
BY WorkerInvariant, TypesHold, PTL

LEMMA AllPieces ==
  ASSUME RespInv
  PROVE  <<first_line(resp.status_code)>> \o lines(resp.headers)
           \o <<<<crlf>>, Zeroed(chars(resp.body))>> = Pieces4
<1>1. Blank \in Seq(Text) /\ LastPiece \in Seq(Text)
  BY BlankType, LastPieceType
<1>2. Pieces2 \in Seq(Seq(Text))
  BY PiecesType
<1> DEFINE b == <<Blank>>
           z == <<LastPiece>>
<1>3. <<Blank, LastPiece>> = b \o z /\ b \in Seq(Seq(Text)) /\ z \in Seq(Seq(Text))
  <2>1. <<Blank, LastPiece>> = b \o z
    BY <1>1, TwoConcat
  <2>2. b \in Seq(Seq(Text)) /\ z \in Seq(Seq(Text))
    BY <1>1
  <2> QED BY <2>1, <2>2
<1>4. Zeroed(chars(resp.body)) = LastPiece
  BY ZeroedIs DEF LastPiece
<1>5. <<first_line(resp.status_code)>> \o lines(resp.headers) = Pieces2
  BY DEF Pieces2, Pieces1, FirstLine, Lines
<1>6. <<<<crlf>>, Zeroed(chars(resp.body))>> = b \o z
  BY <1>3, <1>4 DEF Blank
<1>7. Pieces4 = (Pieces2 \o b) \o z
  BY DEF Pieces4, Pieces3
<1> HIDE DEF b, z
<1>8. (Pieces2 \o b) \o z = Pieces2 \o (b \o z)
  <2>1. b \in Seq(Seq(Text)) /\ z \in Seq(Seq(Text))
    BY <1>3
  <2>2. Associates(Pieces2, b, z)
    BY <1>2, <2>1, ConcatAgain
  <2> QED BY <2>2 DEF Associates
<1> QED BY <1>5, <1>6, <1>7, <1>8

LEMMA PiecesAreWhole == IInv => PiecesWhole
<1> SUFFICES ASSUME IInv, pc = "done"
             PROVE  IF complete = NULL THEN "resp" \in failed
                    ELSE \E lost \in SUBSET DOMAIN Pieces4 :
                           /\ lost # {} => failed \cap Generating # {}
                           /\ complete = Without(Pieces4, lost)
  BY AllPieces DEF PiecesWhole, IInv
<1>1. Made(complete, failed, Pieces4)
  BY DEF IInv, LeftInv
<1>2. DOMAIN Pieces4 = 1..Len(Pieces4)
  <2>1. Pieces4 \in Seq(Seq(Text))
    BY PiecesType DEF IInv
  <2> QED BY <2>1
<1> QED BY <1>1, <1>2 DEF Made, Left_of

(* generate_response loses status line, header lines, separator and body   *)
(* as wholes, and only when an allocation has failed; there is no answer   *)
(* only without memory for it.                                             *)
THEOREM AnswersAreWhole == Spec => []PiecesWhole
BY WorkerInvariant, PiecesAreWhole, PTL

LEMMA PiecesAt ==
  ASSUME RespInv, NEW n, n = Len(resp.headers)
  PROVE  /\ Pieces4[1] = FirstLine
         /\ \A k \in 1..n : Pieces4[k + 1] = Lines[k]
         /\ Pieces4[n + 2] = Blank
         /\ Pieces4[n + 3] = LastPiece
<1>1. n \in Nat
  BY DEF RespInv
<1>2. FirstLine \in Seq(Text) /\ Blank \in Seq(Text) /\ LastPiece \in Seq(Text)
  BY FirstLineType, BlankType, LastPieceType
<1>3. /\ Pieces1 \in Seq(Seq(Text)) /\ Len(Pieces1) = 1 /\ Pieces1[1] = FirstLine
  BY <1>2 DEF Pieces1
<1>4. Lines \in Seq(Seq(Text)) /\ Len(Lines) = n
  BY LinesType
<1>5. /\ Pieces2 \in Seq(Seq(Text)) /\ Len(Pieces2) = 1 + n
      /\ Pieces3 \in Seq(Seq(Text)) /\ Len(Pieces3) = 2 + n
  BY PiecesType
<1> HIDE DEF Pieces1
<1>6. /\ \A k \in 1..Len(Pieces1) : Pieces2[k] = Pieces1[k]
      /\ \A k \in 1..Len(Lines) : Pieces2[Len(Pieces1) + k] = Lines[k]
  <2>1. Pieces1 \in Seq(Seq(Text)) /\ Lines \in Seq(Seq(Text))
    BY <1>3, <1>4
  <2> QED BY <2>1, ConcatProperties DEF Pieces2
<1>7. Pieces2[1] = FirstLine /\ \A k \in 1..n : Pieces2[k + 1] = Lines[k]
  <2>1. 1 \in 1..Len(Pieces1)
    BY <1>3
  <2>2. Pieces2[1] = FirstLine
    BY <1>3, <1>6, <2>1
  <2>3. ASSUME NEW k \in 1..n PROVE Pieces2[k + 1] = Lines[k]
    <3>1. k \in 1..Len(Lines) /\ Len(Pieces1) + k = k + 1
      BY <1>1, <1>3, <1>4
    <3> QED BY <1>6, <3>1
  <2> QED BY <2>2, <2>3
<1>8. /\ \A k \in 1..n+1 : Pieces3[k] = Pieces2[k]
      /\ Pieces3[n + 2] = Blank
  <2>1. Pieces3 = Append(Pieces2, Blank)
    BY <1>2, <1>5, AppendIsConcat DEF Pieces3
  <2>2. /\ \A k \in 1..Len(Pieces2) : Append(Pieces2, Blank)[k] = Pieces2[k]
        /\ Append(Pieces2, Blank)[Len(Pieces2) + 1] = Blank
    <3>1. Pieces2 \in Seq(Seq(Text)) /\ Blank \in Seq(Text)
      BY <1>2, <1>5
    <3> QED BY <3>1, AppendProperties
  <2>3. Len(Pieces2) + 1 = n + 2 /\ 1..Len(Pieces2) = 1..n+1
    BY <1>1, <1>5
  <2> QED BY <2>1, <2>2, <2>3
<1>9. /\ \A k \in 1..n+2 : Pieces4[k] = Pieces3[k]
      /\ Pieces4[n + 3] = LastPiece
  <2>1. Pieces4 = Append(Pieces3, LastPiece)
    BY <1>2, <1>5, AppendIsConcat DEF Pieces4
  <2>2. /\ \A k \in 1..Len(Pieces3) : Append(Pieces3, LastPiece)[k] = Pieces3[k]
        /\ Append(Pieces3, LastPiece)[Len(Pieces3) + 1] = LastPiece
    <3>1. Pieces3 \in Seq(Seq(Text)) /\ LastPiece \in Seq(Text)
      BY <1>2, <1>5
    <3> QED BY <3>1, AppendProperties
  <2>3. Len(Pieces3) + 1 = n + 3 /\ 1..Len(Pieces3) = 1..n+2
    BY <1>1, <1>5
  <2> QED BY <2>1, <2>2, <2>3
<1>10. 1 \in 1..n+1 /\ 1 \in 1..n+2 /\ n + 2 \in 1..n+2
       /\ \A k \in 1..n : k + 1 \in 1..n+1 /\ k + 1 \in 1..n+2
  BY <1>1
<1> QED BY <1>7, <1>8, <1>9, <1>10

(* c has an empty line there, the first one, with text after it that a     *)
(* line before it announces, if there are headers.                         *)
Announced_at(c, blank, text, fields) ==
  /\ text = FlattenSeq(SubSeq(c, blank + 1, Len(c)))
  /\ c[blank] = <<crlf>>
  /\ \A k \in 1..blank-1 : c[k] # <<crlf>>
  /\ IF fields = << >> THEN text = << >>
     ELSE \E k \in 1..blank-1 : c[k] = Announces(text)

LEMMA LengthIsAnnounced == IInv => AnnouncedLength
<1> SUFFICES ASSUME IInv, pc = "done", failed \cap Generating = {}
             PROVE  \E blank \in DOMAIN complete : \E text :
                       Announced_at(complete, blank, text, resp.headers)
  BY DEF AnnouncedLength, Announced_at
<1> DEFINE n == Len(resp.headers)
<1>1. RespInv /\ n \in Nat
  BY DEF IInv, RespInv
<1>2. Pieces4 \in Seq(Seq(Text)) /\ Len(Pieces4) = n + 3
  BY <1>1, PiecesType
<1>3. complete = Pieces4
  <2>1. Made(complete, failed, Pieces4)
    BY DEF IInv, LeftInv
  <2>2. "resp" \notin failed
    BY DEF Generating
  <2>3. Left_of(complete, failed, Pieces4)
    BY <2>1, <2>2 DEF Made
  <2>4. complete = Without(Pieces4, {})
    BY <2>3 DEF Left_of
  <2> QED BY <1>2, <2>4, WithoutNothing
<1>4. /\ Pieces4[1] = FirstLine
      /\ \A k \in 1..n : Pieces4[k + 1] = Lines[k]
      /\ Pieces4[n + 2] = Blank
      /\ Pieces4[n + 3] = LastPiece
  BY <1>1, PiecesAt
<1>5. Blank = <<crlf>> /\ Len(Blank) = 1
  BY BlankType DEF Blank
<1>6. n + 2 \in DOMAIN Pieces4
  BY <1>1, <1>2
<1>7. ASSUME NEW k \in 1..n+1 PROVE Len(Pieces4[k]) # 1
  <2>1. Len(FirstLine) = 5 /\ \A i \in 1..n : Len(Lines[i]) = 4
    BY <1>1, FirstLineType, LinesType
  <2>4. 5 # 1 /\ 4 # 1
    OBVIOUS
  <2>2. CASE k = 1
    <3>1. Len(Pieces4[k]) = 5
      BY <1>4, <2>1, <2>2
    <3> QED BY <2>4, <3>1
  <2>3. CASE k # 1
    <3>1. k - 1 \in 1..n /\ (k - 1) + 1 = k
      BY <1>1, <2>3
    <3>2. Pieces4[k] = Lines[k - 1]
      BY <1>4, <3>1
    <3>3. Len(Pieces4[k]) = 4
      BY <2>1, <3>1, <3>2
    <3> QED BY <2>4, <3>3
  <2> QED BY <2>2, <2>3
<1>8. FlattenSeq(SubSeq(Pieces4, n + 3, n + 3)) = LastPiece
  <2>1. SubSeq(Pieces4, n + 3, n + 3) = <<LastPiece>>
    <3>1. n + 3 \in 1..Len(Pieces4)
      BY <1>1, <1>2
    <3>2. SubSeq(Pieces4, n + 3, n + 3) = <<Pieces4[n + 3]>>
      BY <1>2, <3>1, OnlyOne
    <3> QED BY <1>4, <3>2
  <2>2. LastPiece \in Seq(Text)
    BY <1>1, LastPieceType
  <2> QED BY <2>1, <2>2, FlattenOne
<1>9. IF resp.headers = << >> THEN LastPiece = << >>
      ELSE \E k \in 1..n+1 : Pieces4[k] = Announces(LastPiece)
  <2>1. CASE resp.headers = << >>
    <3>1. resp.body = NULL
      BY <1>1, <2>1 DEF RespInv
    <3>2. Len(LastPiece) = 0 /\ LastPiece \in Seq(Text)
      BY <1>1, <3>1, LastPieceType, EmptySeq DEF chars
    <3>3. LastPiece = << >>
      BY <3>2, EmptySeq
    <3> QED BY <2>1, <3>3
  <2>2. CASE resp.headers # << >>
    <3>1. resp.headers[1] = Field("Content-Length", ToString(Len(chars(resp.body))))
      BY <1>1, <2>2 DEF RespInv
    <3>2. 1 \in 1..n /\ 2 \in 1..n+1
      BY <1>1, <2>2, EmptySeq DEF RespInv
    <3>3. Lines[1] = header_value(resp.headers[1])
      BY <1>1, <3>2, LinesType
    <3>4. Len(LastPiece) = Len(chars(resp.body))
      BY <1>1, LastPieceType
    <3>5. Pieces4[1 + 1] = Lines[1]
      BY <1>4, <3>2
    <3>6. Pieces4[2] = Announces(LastPiece)
      BY <3>1, <3>3, <3>4, <3>5 DEF Announces
    <3> QED BY <2>2, <3>2, <3>6
  <2> QED BY <2>1, <2>2
<1>10. (n + 2) + 1 = n + 3 /\ (n + 2) - 1 = n + 1
  BY <1>1
<1>11. \A k \in 1..(n+2)-1 : Pieces4[k] # <<crlf>>
  <2>1. Len(<<crlf>>) = 1
    BY <1>5
  <2> QED BY <1>7, <1>10, <2>1
<1>12. Announced_at(Pieces4, n + 2, LastPiece, resp.headers)
  <2>1. LastPiece = FlattenSeq(SubSeq(Pieces4, (n + 2) + 1, Len(Pieces4)))
    BY <1>2, <1>8, <1>10
  <2>2. Pieces4[n + 2] = <<crlf>>
    BY <1>4, <1>5
  <2>3. IF resp.headers = << >> THEN LastPiece = << >>
        ELSE \E k \in 1..(n+2)-1 : Pieces4[k] = Announces(LastPiece)
    BY <1>9, <1>10
  <2> HIDE DEF n
  <2> QED BY <1>11, <2>1, <2>2, <2>3 DEF Announced_at
<1> QED BY <1>3, <1>6, <1>12

(* When no allocation of generate_response fails, what follows the first   *)
(* empty line has the length that a header before it announces, whatever   *)
(* has failed in the handler and whenever the file has changed; without    *)
(* headers there is no body.                                               *)
THEOREM LengthsAreAnnounced == Spec => []AnnouncedLength
BY WorkerInvariant, LengthIsAnnounced, PTL
-----------------------------------------------------------------------------
(* The page that a request calls for. *)
Response(code, text, type, fields) ==
  [status_code |-> code, headers |-> set_headers(text, type, fields), body |-> text]

HomeFields == <<Field("X-Hackerone-Id", "0xfaisal"), Field("Connection", "close")>>
KeepAlive == <<Field("Connection", "keep-alive")>>
HomeText == <<"Path=">> \o raw_path
NotFoundText == HomeText \o <<" not found">>

Served == www[path].kind = "regular" /\ www[path].ext \in DOMAIN get_mime

Due ==
  IF ~is_get(input) THEN resp = init_resp_ctx
  ELSE IF path \in DOMAIN Handlers THEN resp = Response(200, HomeText, "text/plain", HomeFields)
  ELSE IF ~exists(path) THEN resp = Response(404, NotFoundText, "text/plain", KeepAlive)
  ELSE IF Served THEN
         \/ resp = Response(200, www[path].data, get_mime[www[path].ext], KeepAlive)
         \/ resp = init_resp_ctx /\ fds = MaxFds
  ELSE resp = init_resp_ctx

(* On the way to the answer when nothing fails and no file changes. *)
DueInv ==
  /\ pc \notin {"read", "silent"} => parses(input)
  /\ pc \in {"home_page", "api_home_page"} => is_get(input) /\ path \in DOMAIN Handlers
  /\ pc \in {"handle_not_found", "not_found_page", "open", "read_file"} =>
       is_get(input) /\ path \notin DOMAIN Handlers
  /\ pc \in {"handle_not_found", "open"} => resp = init_resp_ctx
  /\ stable /\ pc = "not_found_page" => ~exists(path)
  /\ stable /\ pc \in {"open", "read_file"} => exists(path) /\ Served /\ size = Len(www[path].data)
  /\ pc = "read_file" => opened = path
  /\ stable /\ failed = {} /\ pc \in {"status_line"} \cup Generates_t => Due

LEMMA ReadDue ==
  ASSUME pc' = "read"
  PROVE  DueInv'
BY DEF DueInv, Generates_t

(* What an answer is due for stays while it is generated. *)
LEMMA SameDue ==
  ASSUME UNCHANGED <<input, resp, www, fds>>
  PROVE  Due' = Due
<1>1. path' = path /\ raw_path' = raw_path /\ is_get(input)' = is_get(input)
  BY DEF path, raw_path
<1>2. HomeText' = HomeText /\ NotFoundText' = NotFoundText
  BY <1>1 DEF HomeText, NotFoundText
<1>3. exists(path)' = exists(path) /\ Served' = Served
  BY <1>1 DEF exists, Served
<1> QED BY <1>1, <1>2, <1>3 DEF Due

LEMMA DispatchDue ==
  ASSUME handle_conn
  PROVE  DueInv'
<1>1. /\ UNCHANGED <<input, www, fds>> /\ resp' = init_resp_ctx
      /\ pc' = IF ~parses(input) THEN "silent"
               ELSE IF ~is_get(input) THEN "status_line"
               ELSE IF path \in DOMAIN Handlers THEN Handlers[path]
               ELSE "handle_not_found"
  BY DEF handle_conn, files
<1>2. path' = path /\ parses(input)' = parses(input) /\ is_get(input)' = is_get(input)
  BY <1>1 DEF path
<1>3. path \in DOMAIN Handlers => Handlers[path] \in {"home_page", "api_home_page"}
  BY RouteAssumption
<1>4. CASE ~parses(input)
  BY <1>1, <1>4 DEF DueInv, Generates_t
<1>5. CASE parses(input) /\ ~is_get(input)
  <2>1. Due'
    BY <1>1, <1>2, <1>5 DEF Due
  <2> QED BY <1>1, <1>2, <1>5, <2>1 DEF DueInv, Generates_t
<1>6. CASE parses(input) /\ is_get(input) /\ path \in DOMAIN Handlers
  <2>1. pc' \in {"home_page", "api_home_page"}
    BY <1>1, <1>3, <1>6
  <2> QED BY <1>2, <1>6, <2>1 DEF DueInv, Generates_t
<1>7. CASE parses(input) /\ is_get(input) /\ path \notin DOMAIN Handlers
  <2>1. pc' = "handle_not_found"
    BY <1>1, <1>7
  <2> QED BY <1>1, <1>2, <1>7, <2>1 DEF DueInv, Generates_t
<1> QED BY <1>4, <1>5, <1>6, <1>7

(* A step to generate_response after which the answer is due. *)
LEMMA AnsweredDue ==
  ASSUME DueInv, pc \notin {"read", "silent"}, pc' = "status_line", UNCHANGED input,
         stable' /\ failed' = {} => Due'
  PROVE  DueInv'
<1>1. parses(input)'
  BY DEF DueInv
<1> QED BY <1>1 DEF DueInv

LEMMA PathText ==
  ASSUME InputInv
  PROVE  /\ raw_path = raw
         /\ raw \in Seq(Word)
         /\ HomeText \in Seq(Word) /\ NotFoundText \in Seq(Word)
<1>1. raw_path = raw
  BY StoredIs DEF RequestStored, raw_path
<1>2. raw \in Seq(Word)
  <2>1. raw = FlattenSeq(LastUrl(input))
    BY DEF raw, tokens, LastUrl
  <2>2. FlattenSeq(LastUrl(input)) \in Seq(Letter)
    BY UrlBounds DEF InputInv
  <2>3. Letter \subseteq Word
    BY WordsOfTheSource
  <2> QED BY <2>1, <2>2, <2>3, SeqMonotone
<1>3. <<"Path=">> \in Seq(Word) /\ <<" not found">> \in Seq(Word)
  <2>1. "Path=" \in Word /\ " not found" \in Word
    BY WordsOfTheSource
  <2>2. ASSUME NEW w \in Word PROVE <<w>> \in Seq(Word)
    OBVIOUS
  <2> QED BY <2>1, <2>2
<1>4. HomeText \in Seq(Word)
  BY <1>1, <1>2, <1>3, ConcatProperties DEF HomeText
<1>5. NotFoundText \in Seq(Word)
  BY <1>3, <1>4, ConcatProperties DEF NotFoundText
<1> QED BY <1>1, <1>2, <1>4, <1>5

(* Text is a string. *)
LEMMA TextIsThere ==
  ASSUME NEW s \in Seq(Word)
  PROVE  s # NULL /\ chars(s) = s /\ s \in Seq(Text)
<1>1. s \in Seq(Text)
  <2>1. Word \subseteq Text
    BY DEF Text
  <2> QED BY <2>1, SeqMonotone
<1> QED BY <1>1, NullIsNoText DEF chars

LEMMA PageDue ==
  ASSUME InputInv, DueInv, home_page \/ api_home_page
  PROVE  DueInv'
<1>1. PICK copies \in SUBSET {"copy"} : page(copies)
  BY DEF home_page, api_home_page
<1>2. /\ pc \in {"home_page", "api_home_page"} /\ pc' = "status_line"
      /\ UNCHANGED <<input, www, fds>>
  BY <1>1 DEF home_page, api_home_page, page, files
<1>3. ASSUME failed' = {}
      PROVE  resp' = Response(200, HomeText, "text/plain", HomeFields)
  <2> DEFINE new(f)  == new_string(<<"Path=">>, "new_string" \notin f)
             ok(f)   == appends_cstr(new(f), "append_path" \notin f)
             temp(f) == append_string_cstr(new(f), raw_path, "append_path" \notin f)
             b(f)    == IF ~ok(f) THEN NULL
                        ELSE IF copies = {} THEN temp(f) ELSE copy_string(temp(f), "copy" \notin f)
  <2>1. PICK f \in Faults({"new_string", "append_path"} \cup copies) :
          /\ respond(IF ok(f) THEN 200 ELSE 500, b(f),
                     set_headers(b(f), "text/plain", <<Field("X-Hackerone-Id", "0xfaisal"),
                                                       Field("Connection", "close")>>))
          /\ failed' = failed \cup f
    BY <1>1 DEF page
  <2>2. f = {}
    <3>1. failed' = failed \cup f
      BY <2>1
    <3> QED BY <1>3, <3>1
  <2>3. <<"Path=">> # NULL /\ HomeText # NULL /\ chars(HomeText) = HomeText
    <3>1. "Path=" \in Word
      BY WordsOfTheSource
    <3>2. <<"Path=">> \in Seq(Word)
      BY <3>1
    <3>3. HomeText \in Seq(Word)
      BY PathText
    <3> QED BY <3>2, <3>3, TextIsThere
  <2>4. new({}) = <<"Path=">> /\ ok({}) /\ temp({}) = HomeText
    BY <2>3 DEF new_string, appends_cstr, append_string_cstr, HomeText
  <2>5. copy_string(HomeText, "copy" \notin {}) = HomeText
    BY <2>3 DEF copy_string
  <2>6. b({}) = HomeText
    <3> HIDE DEF ok, temp
    <3> QED BY <2>4, <2>5
  <2> HIDE DEF b, ok
  <2>7. respond(200, HomeText, set_headers(HomeText, "text/plain", HomeFields))
    BY <2>1, <2>2, <2>4, <2>6 DEF HomeFields
  <2> QED BY <2>7 DEF respond, Response
<1>4. is_get(input) /\ path \in DOMAIN Handlers
  BY <1>2 DEF DueInv
<1>5. path' = path /\ is_get(input)' = is_get(input) /\ HomeText' = HomeText
  BY <1>2 DEF path, HomeText, raw_path
<1>6. failed' = {} => Due'
  BY <1>3, <1>4, <1>5 DEF Due
<1> QED BY <1>2, <1>6, AnsweredDue

LEMMA NotFoundDue ==
  ASSUME InputInv, DueInv, not_found_page
  PROVE  DueInv'
<1>1. pc = "not_found_page" /\ pc' = "status_line" /\ UNCHANGED <<input, www, fds, stable>>
  BY DEF not_found_page, files
<1>2. ASSUME failed' = {}
      PROVE  resp' = Response(404, NotFoundText, "text/plain", KeepAlive)
  <2> DEFINE new(f)  == new_string(<<"Path=">>, "new_string" \notin f)
             mid(f)  == append_string_cstr(new(f), raw_path, "append_path" \notin f)
             temp(f) == append_string_cstr(mid(f), <<" not found">>, "append_suffix" \notin f)
             b(f)    == copy_string(temp(f), "copy" \notin f)
  <2>1. PICK f \in Faults({"new_string", "append_path", "append_suffix", "copy"}) :
          /\ respond(404, b(f), set_headers(b(f), "text/plain",
                                            <<Field("Connection", "keep-alive")>>))
          /\ failed' = failed \cup f
    BY DEF not_found_page
  <2>2. f = {}
    <3>1. failed' = failed \cup f
      BY <2>1
    <3> QED BY <1>2, <3>1
  <2>3. /\ <<"Path=">> # NULL /\ HomeText # NULL /\ NotFoundText # NULL
        /\ chars(NotFoundText) = NotFoundText
    <3>1. "Path=" \in Word
      BY WordsOfTheSource
    <3>2. <<"Path=">> \in Seq(Word)
      BY <3>1
    <3>3. HomeText \in Seq(Word) /\ NotFoundText \in Seq(Word)
      BY PathText
    <3> QED BY <3>2, <3>3, TextIsThere
  <2>4. mid({}) = HomeText
    BY <2>3 DEF new_string, appends_cstr, append_string_cstr, HomeText
  <2>5. temp({}) = NotFoundText
    <3> HIDE DEF mid
    <3> QED BY <2>3, <2>4 DEF appends_cstr, append_string_cstr, NotFoundText
  <2>6. b({}) = NotFoundText
    <3> HIDE DEF temp
    <3> QED BY <2>3, <2>5 DEF copy_string
  <2> HIDE DEF b
  <2>7. respond(404, NotFoundText, set_headers(NotFoundText, "text/plain", KeepAlive))
    BY <2>1, <2>2, <2>6 DEF KeepAlive
  <2> QED BY <2>7 DEF respond, Response
<1>3. is_get(input) /\ path \notin DOMAIN Handlers /\ (stable => ~exists(path))
  BY <1>1 DEF DueInv
<1>4. path' = path /\ is_get(input)' = is_get(input) /\ NotFoundText' = NotFoundText
  BY <1>1 DEF path, HomeText, NotFoundText, raw_path
<1>5. exists(path)' = exists(path)
  BY <1>1, <1>4 DEF exists
<1>6. stable' /\ failed' = {} => Due'
  BY <1>1, <1>2, <1>3, <1>4, <1>5 DEF Due
<1> QED BY <1>1, <1>6, AnsweredDue

LEMMA StatDue ==
  ASSUME DueInv, stat_fails \/ stat
  PROVE  DueInv'
<1>1. pc = "handle_not_found" /\ UNCHANGED <<input, resp, www, fds, stable, failed>>
  BY DEF stat_fails, stat, files
<1>2. /\ parses(input) /\ is_get(input) /\ path \notin DOMAIN Handlers /\ resp = init_resp_ctx
  BY <1>1 DEF DueInv
<1>3. path' = path /\ parses(input)' /\ is_get(input)' = is_get(input)
  BY <1>1, <1>2 DEF path
<1>4. exists(path)' = exists(path) /\ Served' = Served
  BY <1>1, <1>3 DEF exists, Served
<1>5. CASE stat_fails
  <2>1. pc' = "not_found_page" /\ ~exists(path)
    BY <1>5 DEF stat_fails
  <2> QED BY <1>2, <1>3, <1>4, <2>1 DEF DueInv, Generates_t
<1>6. CASE stat /\ Served
  <2>1. pc' = "open" /\ exists(path) /\ size' = Len(www[path].data)
    BY <1>6 DEF stat, Served
  <2>2. size' = Len(www[path].data)'
    BY <1>1, <1>3, <2>1
  <2> QED BY <1>1, <1>2, <1>3, <1>4, <1>6, <2>1, <2>2 DEF DueInv, Generates_t
<1>7. CASE stat /\ ~Served
  <2>1. pc' = "status_line" /\ exists(path)
    BY <1>7 DEF stat, Served
  <2>2. Due'
    BY <1>1, <1>2, <1>3, <1>4, <1>7, <2>1 DEF Due
  <2> QED BY <1>1, <2>1, <2>2, AnsweredDue
<1> QED BY <1>5, <1>6, <1>7

LEMMA OverflowDue ==
  ASSUME DueInv, get_mime_overflows
  PROVE  DueInv'
<1>1. /\ pc = "handle_not_found" /\ pc' = "crashed"
      /\ UNCHANGED <<input, resp, www, fds, stable, failed>>
      /\ exists(path) /\ www[path].ext = "overlong"
  BY DEF get_mime_overflows, files
<1>2. /\ parses(input) /\ is_get(input) /\ path \notin DOMAIN Handlers /\ resp = init_resp_ctx
  BY <1>1 DEF DueInv
<1>3. path' = path /\ parses(input)' /\ is_get(input)' = is_get(input)
  BY <1>1, <1>2 DEF path
<1>4. ~Served
  BY <1>1 DEF Served, get_mime
<1>5. Due
  BY <1>1, <1>2, <1>4 DEF Due
<1>6. Due'
  BY <1>1, <1>5, SameDue
<1> QED BY <1>1, <1>3, <1>6 DEF DueInv, Generates_t

LEMMA OpenDue ==
  ASSUME DueInv, open \/ open_fails
  PROVE  DueInv'
<1>1. pc = "open" /\ UNCHANGED <<input, www, stable, failed, size>>
  BY DEF open, open_fails, files
<1>2. /\ parses(input) /\ is_get(input) /\ path \notin DOMAIN Handlers /\ resp = init_resp_ctx
      /\ stable => exists(path) /\ Served /\ size = Len(www[path].data)
  BY <1>1 DEF DueInv
<1>3. path' = path /\ parses(input)' /\ is_get(input)' = is_get(input)
  BY <1>1, <1>2 DEF path
<1>4. exists(path)' = exists(path) /\ Served' = Served
  BY <1>1, <1>3 DEF exists, Served
<1>5. CASE open
  <2>1. pc' = "read_file" /\ opened' = path
    BY <1>5 DEF open
  <2>2. stable' => size' = Len(www[path].data)'
    BY <1>1, <1>2, <1>3
  <2> QED BY <1>1, <1>2, <1>3, <1>4, <2>1, <2>2 DEF DueInv, Generates_t
<1>6. CASE open_fails
  <2>1. pc' = "status_line" /\ UNCHANGED <<resp, fds>> /\ (~exists(path) \/ fds = MaxFds)
    BY <1>6 DEF open_fails, files
  <2>2. stable' => Due'
    BY <1>1, <1>2, <1>3, <1>4, <2>1 DEF Due
  <2> QED BY <1>1, <2>1, <2>2, AnsweredDue
<1> QED BY <1>5, <1>6

LEMMA FileDue ==
  ASSUME FileInv, DueInv, handle_static_files
  PROVE  DueInv'
<1>1. pc = "read_file" /\ pc' = "status_line" /\ UNCHANGED <<input, www, fds, stable>>
  BY DEF handle_static_files, files
<1>2. /\ is_get(input) /\ path \notin DOMAIN Handlers /\ opened = path
      /\ stable => exists(path) /\ Served /\ size = Len(www[path].data)
  BY <1>1 DEF DueInv
<1> DEFINE data == www[path].data
<1>3. data \in Seq(Char)
  BY <1>1, <1>2 DEF FileInv, File_t
<1>4. ASSUME stable, failed' = {}
      PROVE  resp' = Response(200, data, get_mime[www[path].ext], KeepAlive)
  <2> DEFINE temp(f) == IF "new_n_string" \in f THEN NULL
                        ELSE SubSeq(data, 1, IF size < Len(data) THEN size + 1 ELSE Len(data))
             b(f)    == copy_string(temp(f), "copy" \notin f)
  <2>1. PICK f \in Faults({"new_n_string", "copy"}) :
          /\ respond(200, b(f), set_headers(b(f), get_mime[www[path].ext],
                                            <<Field("Connection", "keep-alive")>>))
          /\ failed' = failed \cup f
    BY <1>2 DEF handle_static_files
  <2>2. f = {}
    <3>1. failed' = failed \cup f
      BY <2>1
    <3> QED BY <1>4, <3>1
  <2>3. size = Len(data) /\ Len(data) \in Nat /\ SubSeq(data, 1, Len(data)) = data
    BY <1>2, <1>3, <1>4, ByAppending
  <2>4. temp({}) = data
    <3> HIDE DEF data
    <3> QED BY <2>3
  <2>5. data # NULL
    <3>1. Char \subseteq Text
      BY WordsOfTheSource
    <3>2. data \in Seq(Text)
      <4> HIDE DEF data
      <4> QED BY <1>3, <3>1, SeqMonotone
    <3> HIDE DEF data
    <3> QED BY <3>2, NullIsNoText
  <2>6. b({}) = data
    <3> HIDE DEF temp, data
    <3> QED BY <2>4, <2>5 DEF copy_string, chars
  <2> HIDE DEF b, data
  <2>7. respond(200, data, set_headers(data, get_mime[www[path].ext], KeepAlive))
    BY <2>1, <2>2, <2>6 DEF KeepAlive
  <2> QED BY <2>7 DEF respond, Response
<1>5. path' = path /\ is_get(input)' = is_get(input) /\ data' = data
      /\ get_mime[www[path].ext]' = get_mime[www[path].ext]
  BY <1>1 DEF path
<1>6. exists(path)' = exists(path) /\ Served' = Served
  BY <1>1, <1>5 DEF exists, Served
<1>7. stable' /\ failed' = {} => Due'
  <2> HIDE DEF data
  <2> QED BY <1>1, <1>2, <1>4, <1>5, <1>6 DEF Due, data
<1> QED BY <1>1, <1>7, AnsweredDue

LEMMA DueStep ==
  ASSUME InputInv, FileInv, DueInv, [Next]_vars
  PROVE  DueInv'
<1>1. CASE read_method \/ read_url \/ read_header
  <2>1. pc' = "read"
    BY <1>1 DEF read_method, read_url, read_header, reads
  <2> QED BY <2>1, ReadDue
<1>2. CASE handle_conn
  BY <1>2, DispatchDue
<1>3. CASE home_page \/ api_home_page
  BY <1>3, PageDue
<1>4. CASE not_found_page
  BY <1>4, NotFoundDue
<1>5. CASE stat_fails \/ stat
  BY <1>5, StatDue
<1>13. CASE get_mime_overflows
  BY <1>13, OverflowDue
<1>6. CASE open \/ open_fails
  BY <1>6, OpenDue
<1>7. CASE handle_static_files
  BY <1>7, FileDue
<1>8. CASE no_path \/ read_fails
  <2>1. pc \in {"handle_not_found", "read_file"} /\ pc' = "status_line" /\ UNCHANGED input
    BY <1>8 DEF no_path, read_fails
  <2>2. \E f : f # {} /\ failed' = failed \cup f
    BY <1>8 DEF no_path, read_fails
  <2>3. failed' # {}
    BY <2>2
  <2> QED BY <2>1, <2>3, AnsweredDue
<1>9. CASE status_line \/ headers \/ separator \/ body \/ no_line
  <2>1. /\ \E p \in Generates_t : \E c, f : generates(p, c, f)
        /\ pc \in {"status_line", "headers", "separator", "body"}
    BY <1>9 DEF status_line, headers, separator, body, no_line, Generates_t
  <2>2. /\ pc' \in Generates_t /\ failed \subseteq failed'
        /\ UNCHANGED <<input, resp, www, fds, stable>>
    BY <2>1 DEF generates, files
  <2>3. Due' = Due
    BY <2>2, SameDue
  <2>4. parses(input)' /\ (stable /\ failed = {} => Due)
    BY <2>1, <2>2 DEF DueInv, Generates_t
  <2>5. stable' /\ failed' = {} => Due'
    BY <2>2, <2>3, <2>4
  <2> QED BY <2>2, <2>4, <2>5 DEF DueInv, Generates_t
<1>10. CASE file_changes
  <2>1. /\ UNCHANGED <<pc, input, resp, opened>> /\ ~stable'
        /\ pc \in {"handle_not_found", "open", "read_file"}
    BY <1>10 DEF file_changes
  <2>2. path' = path /\ is_get(input)' = is_get(input) /\ parses(input)' = parses(input)
    BY <2>1 DEF path
  <2> QED BY <2>1, <2>2 DEF DueInv, Generates_t
<1>11. CASE next_task
  BY <1>11, ReadDue DEF next_task
<1>12. CASE UNCHANGED vars
  <2>1. UNCHANGED <<pc, input, resp, size, opened, fds, www, failed, stable>>
    BY <1>12 DEF vars
  <2>2. path' = path /\ is_get(input)' = is_get(input) /\ parses(input)' = parses(input)
    BY <2>1 DEF path
  <2>3. Due' = Due
    BY <2>1, SameDue
  <2>4. exists(path)' = exists(path) /\ Served' = Served
        /\ Len(www[path].data)' = Len(www[path].data)
    BY <2>1, <2>2 DEF exists, Served
  <2> QED BY <2>1, <2>2, <2>3, <2>4 DEF DueInv
<1> QED
  BY <1>1, <1>2, <1>3, <1>4, <1>5, <1>6, <1>7, <1>8, <1>9, <1>10, <1>11, <1>12, <1>13 DEF Next

LEMMA DueInit == Init => DueInv
BY DEF Init, DueInv, Generates_t

(* A URL of which every token stands for a character. *)
LEMMA MeaningsType ==
  ASSUME InputInv, NUL \notin ToSet(Meanings)
  PROVE  Meanings \in Seq(Letter)
<1>1. tokens \in Seq(Token_t)
  <2>1. tokens = LastUrl(input)
    BY DEF tokens, LastUrl
  <2> QED BY <2>1, UrlBounds DEF InputInv
<1>2. Meanings \in Seq(Letter)
  <2>1. DOMAIN tokens = 1..Len(tokens) /\ Len(tokens) \in Nat
    BY <1>1
  <2>2. Meanings = [k \in 1..Len(tokens) |-> Meaning(tokens[k])]
    BY <2>1 DEF Meanings
  <2>3. ASSUME NEW k \in 1..Len(tokens) PROVE Meaning(tokens[k]) \in Letter
    <3>1. tokens[k] \in Token_t
      BY <1>1, ElementOfSeq
    <3>2. Meaning(tokens[k]) \in Char
      <4>1. CASE Len(tokens[k]) = 1
        <5>1. tokens[k] \in Seq(Letter) /\ 1 \in 1..Len(tokens[k])
          BY <3>1, <4>1 DEF Token_t
        <5>2. tokens[k][1] \in Letter
          BY <5>1, ElementOfSeq
        <5> QED BY <4>1, <5>2 DEF Meaning, Char
      <4>2. CASE Len(tokens[k]) # 1
        BY <4>2, UnescapeType DEF Meaning
      <4> QED BY <4>1, <4>2
    <3>3. Meaning(tokens[k]) # NUL
      <4>1. Meaning(tokens[k]) \in ToSet(Meanings)
        BY <2>2 DEF ToSet
      <4> QED BY <4>1
    <3> QED BY <3>2, <3>3 DEF Char
  <2> QED BY <2>1, <2>2, <2>3, IsASeq
<1> QED BY <1>2

(* The path that handle_conn looks up is the path meant. *)
LEMMA PathMeant ==
  ASSUME InputInv, parses(input), ~EndsInEscape
  PROVE  path = meant
<1>1. decoded(input) = decode_url(raw)
  BY StoredIs DEF RequestStored, decoded
<1>2. decoded(input) = IF NUL \in ToSet(Meanings) THEN Undecodable ELSE Decoded(Meanings)
  BY <1>1, DecodedAre DEF DecodesTokens
<1>3. NUL \notin ToSet(Meanings) /\ decoded(input) = Decoded(Meanings)
  <2>1. decoded(input).ok
    BY DEF parses
  <2>2. ~Undecodable.ok
    BY DEF Undecodable
  <2> QED BY <1>2, <2>1, <2>2
<1>4. Meanings \in Seq(Letter)
  BY <1>3, MeaningsType
<1>5. path = Before(Meanings)
  <2>1. decoded(input).url = Meanings
    BY <1>3 DEF Decoded
  <2> QED BY <1>4, <2>1, PathIs DEF path, url
<1>6. meant = Before(Meanings)
  BY DEF meant, Before, Question
<1> QED BY <1>5, <1>6

LEMMA MethodIs ==
  ASSUME InputInv, input # << >>
  PROVE  is_get(input) <=> last.method = "GET"
<1>1. cstr(parsed(input).method) = <<last.method>>
  BY StoredIs DEF RequestStored
<1> QED BY <1>1 DEF is_get

(* generate_response writes the page. *)
Page(r) == <<first_line(r.status_code)>> \o lines(r.headers) \o <<<<crlf>>, Zeroed(chars(r.body))>>

LEMMA TwoMore ==
  ASSUME NEW X, NEW a \in X, NEW b \in X, NEW t \in Seq(X), NEW u, u = <<a, b>> \o t
  PROVE  /\ u = [k \in 1..Len(t)+2 |-> u[k]]
         /\ u[1] = a /\ u[2] = b
         /\ \A k \in 3..Len(t)+2 : u[k] = t[k - 2]
<1> DEFINE s == <<a, b>>
<1>1. s \in Seq(X) /\ Len(s) = 2 /\ s[1] = a /\ s[2] = b /\ Len(t) \in Nat
  OBVIOUS
<1>2. u = s \o t
  OBVIOUS
<1> HIDE DEF s
<1>3. u \in Seq(X) /\ Len(u) = Len(t) + 2
  BY <1>1, <1>2, ConcatProperties
<1>4. \A k \in 1..Len(t)+2 : u[k] = IF k <= 2 THEN s[k] ELSE t[k - 2]
  BY <1>1, <1>2, ConcatProperties
<1>5. u = [k \in DOMAIN u |-> u[k]] /\ DOMAIN u = 1..Len(t)+2
  BY <1>1, <1>3
<1>6. 1 \in 1..Len(t)+2 /\ 2 \in 1..Len(t)+2 /\ 1 <= 2
  BY <1>1
<1>7. \A k \in 3..Len(t)+2 : k \in 1..Len(t)+2 /\ ~(k <= 2)
  BY <1>1
<1> QED BY <1>1, <1>4, <1>5, <1>6, <1>7

LinesAfter(x, y, fields) ==
  lines(<<x, y>> \o fields) = <<header_value(x), header_value(y)>> \o lines(fields)

LEMMA LinesConcat ==
  ASSUME NEW Y, NEW x \in Y, NEW y \in Y, NEW fields \in Seq(Y)
  PROVE  LinesAfter(x, y, fields)
<1> DEFINE a == <<x, y>> \o fields
           n == Len(fields)
           b == lines(fields)
           c == <<header_value(x), header_value(y)>> \o b
           X == {header_value(x), header_value(y)} \cup {header_value(fields[k]) : k \in 1..n}
<1>1. n \in Nat /\ DOMAIN fields = 1..n
  OBVIOUS
<1>2. /\ a = [k \in 1..n+2 |-> a[k]]
      /\ a[1] = x /\ a[2] = y
      /\ \A k \in 3..n+2 : a[k] = fields[k - 2]
  BY TwoMore
<1>3. b = [k \in 1..n |-> header_value(fields[k])]
  BY <1>1 DEF lines
<1>4. header_value(x) \in X /\ header_value(y) \in X /\ \A k \in 1..n : header_value(fields[k]) \in X
  OBVIOUS
<1>5. b \in Seq(X) /\ Len(b) = n
  <2> HIDE DEF X, n, b
  <2>1. b = [k \in 1..n |-> header_value(fields[k])] /\ n \in Nat
    BY <1>1, <1>3
  <2>2. b \in Seq(X)
    BY <1>1, <1>3, <1>4, IsASeq
  <2> QED BY <2>1, <2>2
<1>6. /\ c = [k \in 1..n+2 |-> c[k]]
      /\ c[1] = header_value(x) /\ c[2] = header_value(y)
      /\ \A k \in 3..n+2 : c[k] = b[k - 2]
  <2> HIDE DEF X, b, n
  <2> QED BY <1>4, <1>5, TwoMore
<1>7. lines(a) = [k \in 1..n+2 |-> header_value(a[k])]
  <2>1. DOMAIN a = 1..n+2
    <3> HIDE DEF a, n
    <3> QED BY <1>2
  <2> HIDE DEF a, n
  <2> QED BY <2>1 DEF lines
<1> HIDE DEF a, b, c, n, X
<1>8. ASSUME NEW k \in 1..n+2 PROVE header_value(a[k]) = c[k]
  <2>1. CASE k = 1
    BY <1>2, <1>6, <2>1
  <2>2. CASE k = 2
    BY <1>2, <1>6, <2>2
  <2>3. CASE k > 2
    <3>1. k - 2 \in 1..n /\ k \in 3..n+2
      BY <1>1, <2>3
    <3>2. b[k - 2] = header_value(fields[k - 2])
      BY <1>3, <3>1
    <3> QED BY <1>2, <1>6, <3>1, <3>2
  <2> QED BY <1>1, <2>1, <2>2, <2>3
<1>9. lines(a) = c
  BY <1>6, <1>7, <1>8
<1> QED BY <1>9 DEF a, b, c, LinesAfter

LEMMA OneAndTwo ==
  ASSUME NEW X, NEW a \in X, NEW b \in X, NEW c \in X
  PROVE  <<a>> \o <<b, c>> = <<a, b, c>>
<1> DEFINE one == <<a>>
           two == <<b, c>>
           three == <<a, b, c>>
           u == one \o two
<1>1. /\ one \in Seq(X) /\ Len(one) = 1 /\ one[1] = a
      /\ two \in Seq(X) /\ Len(two) = 2 /\ two[1] = b /\ two[2] = c
      /\ three \in Seq(X) /\ Len(three) = 3 /\ three[1] = a /\ three[2] = b /\ three[3] = c
  OBVIOUS
<1> HIDE DEF one, two, three
<1>2. u \in Seq(X) /\ Len(u) = 3 /\ \A i \in 1..3 : u[i] = IF i <= 1 THEN one[i] ELSE two[i - 1]
  <2>1. /\ u \in Seq(X) /\ Len(u) = Len(one) + Len(two)
        /\ \A i \in 1..Len(one) + Len(two) :
              u[i] = IF i <= Len(one) THEN one[i] ELSE two[i - Len(one)]
    BY <1>1, ConcatProperties
  <2> HIDE DEF u
  <2> QED BY <1>1, <2>1
<1> HIDE DEF u
<1>3. ASSUME NEW i \in 1..3 PROVE u[i] = three[i]
  <2>1. i = 1 \/ i = 2 \/ i = 3
    OBVIOUS
  <2>2. u[1] = one[1] /\ u[2] = two[1] /\ u[3] = two[2]
    BY <1>2
  <2> QED BY <1>1, <2>1, <2>2
<1>4. u = three
  BY <1>1, <1>2, <1>3, SeqEqual
<1> QED BY <1>4 DEF u, one, two, three

ThreeAhead(a, b, c, t) == <<a>> \o (<<b, c>> \o t) = <<a, b, c>> \o t

LEMMA ThreeConcat ==
  ASSUME NEW X, NEW a \in X, NEW b \in X, NEW c \in X, NEW t \in Seq(X)
  PROVE  ThreeAhead(a, b, c, t)
<1> DEFINE one == <<a>>
           two == <<b, c>>
<1>1. one \in Seq(X) /\ two \in Seq(X)
  OBVIOUS
<1>2. one \o two = <<a, b, c>>
  BY OneAndTwo
<1> HIDE DEF one, two
<1>3. Associates(one, two, t)
  BY <1>1, ConcatAgain
<1>4. one \o (two \o t) = <<a, b, c>> \o t
  BY <1>2, <1>3 DEF Associates
<1> QED BY <1>4 DEF one, two, ThreeAhead

LEMMA PageIs ==
  ASSUME NEW code, NEW text \in Seq(Text), NEW type, NEW fields \in Seq(Line_t)
  PROVE  Page(Response(code, text, type, fields)) = Answer(code, type, fields, Zeroed(text))
<1> DEFINE r == Response(code, text, type, fields)
           x == Field("Content-Length", ToString(Len(text)))
           y == Field("Content-Type", type)
           Y == Line_t \cup {x, y}
           L == lines(fields)
           fl == first_line(code)
           z == Zeroed(text)
<1>1. text # NULL /\ chars(text) = text
  BY NullIsNoText DEF chars
<1>2. z = strncpy(text) /\ Len(z) = Len(text)
  BY ZeroedIs, StrncpyType
<1>3. r.status_code = code /\ r.headers = <<x, y>> \o fields /\ r.body = text
  BY <1>1 DEF Response, set_headers
<1>4. LinesAfter(x, y, fields)
  <2>1. x \in Y /\ y \in Y /\ fields \in Seq(Y)
    <3>1. Line_t \subseteq Y /\ x \in Y /\ y \in Y
      OBVIOUS
    <3> HIDE DEF Y, x, y
    <3> QED BY <3>1, SeqMonotone
  <2> HIDE DEF x, y, Y
  <2> QED BY <2>1, LinesConcat
<1> DEFINE X == {fl, header_value(x), header_value(y)} \cup {header_value(fields[k]) : k \in DOMAIN fields}
<1>5. L \in Seq(X)
  <2>1. Len(fields) \in Nat /\ DOMAIN fields = 1..Len(fields)
    OBVIOUS
  <2>2. \A k \in 1..Len(fields) : header_value(fields[k]) \in X
    BY <2>1
  <2>3. L = [k \in 1..Len(fields) |-> header_value(fields[k])]
    BY <2>1 DEF lines
  <2> HIDE DEF X, L
  <2> QED BY <2>1, <2>2, <2>3, IsASeq
<1>6. ThreeAhead(fl, header_value(x), header_value(y), L)
  <2>1. fl \in X /\ header_value(x) \in X /\ header_value(y) \in X
    OBVIOUS
  <2> HIDE DEF X, L, x, y, fl
  <2> QED BY <1>5, <2>1, ThreeConcat
<1>7. header_value(x) = Announces(z)
  BY <1>2 DEF Announces
<1> HIDE DEF r, x, y, L, fl, z
<1>8. Page(r) = <<fl>> \o lines(r.headers) \o <<<<crlf>>, z>>
  BY <1>1, <1>3 DEF Page, fl, z
<1>9. Answer(code, type, fields, z) = <<fl, header_value(x), header_value(y)>> \o L \o <<<<crlf>>, z>>
  BY <1>7 DEF Answer, fl, y, L
<1>10. lines(r.headers) = <<header_value(x), header_value(y)>> \o L
  BY <1>3, <1>4 DEF LinesAfter, L
<1>11. <<fl>> \o lines(r.headers) = <<fl, header_value(x), header_value(y)>> \o L
  BY <1>6, <1>10 DEF ThreeAhead
<1>12. Page(r) = Answer(code, type, fields, z)
  BY <1>8, <1>9, <1>11
<1> QED BY <1>12 DEF r, z

(* A text without '\0's is written as it is. *)
LEMMA WordPage ==
  ASSUME NEW code, NEW text \in Seq(Word), NEW type, NEW fields \in Seq(Line_t)
  PROVE  Page(Response(code, text, type, fields)) = Answer(code, type, fields, text)
<1>1. Zeroed(text) = text
  BY ZeroedIs, StrncpyWords
<1>2. text \in Seq(Text)
  BY TextIsThere
<1>3. Page(Response(code, text, type, fields)) = Answer(code, type, fields, Zeroed(text))
  BY <1>2, PageIs
<1> QED BY <1>1, <1>3

LEMMA FieldsAreLines ==
  /\ HomeFields \in Seq(Line_t) /\ KeepAlive \in Seq(Line_t)
<1>1. /\ Field("X-Hackerone-Id", "0xfaisal") \in Line_t
      /\ Field("Connection", "close") \in Line_t
      /\ Field("Connection", "keep-alive") \in Line_t
  BY WordsOfTheSource, OneLine
<1> QED BY <1>1, OneOrTwoLines DEF HomeFields, KeepAlive

(* A file without '\0's is written as it is. *)
LEMMA BytesPage ==
  ASSUME NEW data \in Seq(Char), NUL \notin ToSet(data)
  PROVE  Zeroed(data) = data
<1>1. DOMAIN data = 1..Len(data) /\ Len(data) \in Nat /\ data = [k \in 1..Len(data) |-> data[k]]
  OBVIOUS
<1>2. \A k \in 1..Len(data) : data[k] # NUL
  BY <1>1 DEF ToSet
<1>3. \A k \in 1..Len(data) : \A m \in 1..k : m \in 1..Len(data)
  BY <1>1
<1>4. strncpy(data) = [k \in 1..Len(data) |-> IF \E m \in 1..k : data[m] = NUL THEN NUL ELSE data[k]]
  BY <1>1 DEF strncpy
<1>5. strncpy(data) = data
  BY <1>1, <1>2, <1>3, <1>4
<1> QED BY <1>5, ZeroedIs

(* The page due is the one promised. *)
LEMMA DuePage ==
  ASSUME InputInv, FileInv, Due, parses(input), input # << >>, ~EndsInEscape,
         last.method = "GET",
         meant \in DOMAIN Handlers \/ ~exists(meant) \/ Servable(meant)
  PROVE  Page(resp) = Promised
<1>1. path = meant /\ is_get(input)
  BY PathMeant, MethodIs
<1>4. CASE path \in DOMAIN Handlers
  <2>1. resp = Response(200, HomeText, "text/plain", HomeFields)
    BY <1>1, <1>4 DEF Due
  <2>2. HomeText = <<"Path=">> \o raw
    BY PathText DEF HomeText
  <2>3. Page(resp) = Answer(200, "text/plain", HomeFields, HomeText)
    <3>1. HomeText \in Seq(Word) /\ HomeFields \in Seq(Line_t)
      BY PathText, FieldsAreLines
    <3>2. Page(Response(200, HomeText, "text/plain", HomeFields)) = Answer(200, "text/plain", HomeFields, HomeText)
      BY <3>1, WordPage
    <3> QED BY <2>1, <3>2
  <2>4. Promised = Answer(200, "text/plain", HomeFields, <<"Path=">> \o raw)
    BY <1>1, <1>4 DEF Promised, HomeFields
  <2> QED BY <2>2, <2>3, <2>4
<1>5. CASE path \notin DOMAIN Handlers /\ ~exists(path)
  <2>1. resp = Response(404, NotFoundText, "text/plain", KeepAlive)
    BY <1>1, <1>5 DEF Due
  <2>2. NotFoundText = <<"Path=">> \o raw \o <<" not found">>
    BY PathText DEF NotFoundText, HomeText
  <2>3. Page(resp) = Answer(404, "text/plain", KeepAlive, NotFoundText)
    <3>1. NotFoundText \in Seq(Word) /\ KeepAlive \in Seq(Line_t)
      BY PathText, FieldsAreLines
    <3>2. Page(Response(404, NotFoundText, "text/plain", KeepAlive)) = Answer(404, "text/plain", KeepAlive, NotFoundText)
      BY <3>1, WordPage
    <3> QED BY <2>1, <3>2
  <2>4. Promised = Answer(404, "text/plain", KeepAlive, <<"Path=">> \o raw \o <<" not found">>)
    BY <1>1, <1>5 DEF Promised, KeepAlive
  <2> QED BY <2>2, <2>3, <2>4
<1>6. CASE path \notin DOMAIN Handlers /\ exists(path)
  <2> DEFINE data == www[path].data
             type == get_mime[www[path].ext]
  <2>0. Servable(path)
    BY <1>1, <1>6
  <2>1. data \in Seq(Char) /\ data \in Seq(Text)
    <3>1. www[path] \in File_t
      BY <1>6 DEF FileInv, exists
    <3>2. data \in Seq(Char)
      BY <3>1 DEF File_t
    <3>3. Char \subseteq Text
      BY WordsOfTheSource
    <3> HIDE DEF data
    <3> QED BY <3>2, <3>3, SeqMonotone
  <2>2. resp = Response(200, data, type, KeepAlive)
    <3>1. Served /\ fds # MaxFds
      BY <2>0, BoundAssumption DEF Servable, Served
    <3> QED BY <1>1, <1>6, <3>1 DEF Due
  <2>3. Promised = Answer(200, type, KeepAlive, data)
    BY <1>1, <1>6 DEF Promised, KeepAlive
  <2>5. NUL \notin ToSet(data)
    BY <2>0 DEF Servable
  <2> HIDE DEF data, type
  <2>4. Page(Response(200, data, type, KeepAlive)) = Answer(200, type, KeepAlive, Zeroed(data))
    BY <2>1, FieldsAreLines, PageIs
  <2>6. Zeroed(data) = data
    BY <2>1, <2>5, BytesPage
  <2> QED BY <2>2, <2>3, <2>4, <2>6
<1> QED BY <1>4, <1>5, <1>6

LEMMA AnswersHold == IInv /\ DueInv => AnswersRequest
<1> SUFFICES ASSUME IInv, DueInv,
                    pc = "done", input # << >>, last.method = "GET", ~EndsInEscape,
                    meant \in DOMAIN Handlers \/ ~exists(meant) \/ Servable(meant),
                    failed = {}, stable
             PROVE  complete = Promised
  BY DEF AnswersRequest, WholeRequests
<1>1. InputInv /\ FileInv /\ RespInv
  BY DEF IInv
<1>2. parses(input) /\ Due
  BY DEF DueInv, Generates_t
<1>3. complete = Pieces4
  <2>1. Made(complete, failed, Pieces4)
    BY DEF IInv, LeftInv
  <2>2. Left_of(complete, {}, Pieces4)
    BY <2>1 DEF Made
  <2>3. complete = Without(Pieces4, {})
    BY <2>2 DEF Left_of
  <2>4. Pieces4 \in Seq(Seq(Text))
    BY <1>1, PiecesType
  <2> QED BY <2>3, <2>4, WithoutNothing
<1>4. Page(resp) = Pieces4
  BY <1>1, AllPieces DEF Page
<1> QED BY <1>1, <1>2, <1>3, <1>4, DuePage

(* A GET whose URL stands for a registered path, for a file that can be    *)
(* served, or for no file is answered with that page, with the file's own  *)
(* bytes, or with 404, when nothing fails and no file changes.  URLs that  *)
(* end in an escape or escape a "?", other methods, directories, files of  *)
(* unknown type or with a '\0', and a server that has used up its          *)
(* descriptors are left out: there the code does something else.           *)
THEOREM RequestsAreAnswered == Spec => []AnswersRequest
<1>1. Init => DueInv
  BY DueInit
<1>2. IInv /\ DueInv /\ [Next]_vars => DueInv'
  BY DueStep DEF IInv
<1>3. IInv /\ DueInv => AnswersRequest
  BY AnswersHold
<1> QED BY <1>1, <1>2, <1>3, WorkerInvariant, PTL DEF Spec
-----------------------------------------------------------------------------
(* The first n characters of a buffer. *)
Chars(buf, n) == [k \in 1..n |-> buf[k - 1]]

Written_to(buf, n) == n \in 0..MaxSize-1 /\ \A k \in 0..n-1 : buf[k] \in Letter

LEMMA CharsType ==
  ASSUME NEW buf, NEW n \in Nat, \A k \in 0..n-1 : buf[k] \in Letter
  PROVE  Chars(buf, n) \in Seq(Letter) /\ Len(Chars(buf, n)) = n
<1>1. \A k \in 1..n : buf[k - 1] \in Letter
  OBVIOUS
<1>2. Chars(buf, n) = [k \in 1..n |-> buf[k - 1]]
  BY DEF Chars
<1>3. Chars(buf, n) \in Seq(Letter)
  BY <1>1, <1>2, IsASeq
<1> QED BY <1>2, <1>3

(* What a write of one character does to a buffer. *)
LEMMA BufferWrite ==
  ASSUME NEW buf \in Buffer, NEW n, Written_to(buf, n), NEW ch \in Char,
         NEW new, new = [buf EXCEPT ![n] = ch]
  PROVE  /\ new \in Buffer
         /\ ch \in Letter /\ n + 1 < MaxSize =>
              Written_to(new, n + 1) /\ Chars(new, n + 1) = Append(Chars(buf, n), ch)
         /\ ch = NUL => cstr(new) = Chars(buf, n)
<1>1. n \in 0..MaxSize-1 /\ n \in Nat /\ MaxSize \in Nat /\ \A k \in 0..n-1 : buf[k] \in Letter
  BY BufferAssumption DEF Written_to
<1>2. new \in Buffer
  BY <1>1 DEF Buffer
<1>3. /\ DOMAIN buf = 0..MaxSize-1 /\ DOMAIN new = 0..MaxSize-1
      /\ new[n] = ch /\ \A k \in 0..n-1 : new[k] = buf[k]
  BY <1>1 DEF Buffer
<1>4. ASSUME ch \in Letter, n + 1 < MaxSize
      PROVE  Written_to(new, n + 1) /\ Chars(new, n + 1) = Append(Chars(buf, n), ch)
  <2>1. n + 1 \in 0..MaxSize-1 /\ \A k \in 0..(n+1)-1 : k = n \/ k \in 0..n-1
    BY <1>1, <1>4
  <2>2. Written_to(new, n + 1)
    BY <1>1, <1>3, <1>4, <2>1 DEF Written_to
  <2> DEFINE a == Chars(buf, n)
             b == Chars(new, n + 1)
             c == Append(a, ch)
  <2>3. a \in Seq(Letter) /\ Len(a) = n
    BY <1>1, CharsType
  <2>4. b \in Seq(Letter) /\ Len(b) = n + 1
    <3>1. \A k \in 0..(n+1)-1 : new[k] \in Letter
      BY <2>2 DEF Written_to
    <3>2. n + 1 \in Nat
      BY <1>1
    <3> HIDE DEF b
    <3>3. Chars(new, n + 1) \in Seq(Letter) /\ Len(Chars(new, n + 1)) = n + 1
      BY <3>1, <3>2, CharsType
    <3> QED BY <3>3 DEF b
  <2>5. c \in Seq(Letter) /\ Len(c) = n + 1 /\ c[n + 1] = ch /\ \A k \in 1..n : c[k] = a[k]
    <3> HIDE DEF a
    <3> QED BY <1>4, <2>3, AppendProperties
  <2>6. /\ \A k \in 1..n : a[k] = buf[k - 1]
        /\ \A k \in 1..n+1 : b[k] = new[k - 1]
    BY DEF Chars
  <2> HIDE DEF a, b, c
  <2>7. ASSUME NEW k \in 1..n+1 PROVE b[k] = c[k]
    <3>1. CASE k = n + 1
      BY <1>1, <1>3, <2>5, <2>6, <3>1
    <3>2. CASE k # n + 1
      <4>1. k \in 1..n /\ k - 1 \in 0..n-1
        BY <1>1, <3>2
      <4> QED BY <1>3, <2>5, <2>6, <4>1
    <3> QED BY <3>1, <3>2
  <2>8. b = c
    BY <2>4, <2>5, <2>7, SeqEqual
  <2> QED BY <2>2, <2>8 DEF a, b, c
<1>5. ASSUME ch = NUL PROVE cstr(new) = Chars(buf, n)
  <2>1. new[n] = NUL /\ \A k \in 0..n-1 : new[k] # NUL
    BY <1>1, <1>3, <1>5, NulAssumption
  <2>2. cstr(new) = [k \in 1..n |-> new[k - 1]]
    BY <1>1, <1>2, <2>1, CstrAt
  <2>3. \A k \in 1..n : k - 1 \in 0..n-1
    BY <1>1
  <2> QED BY <1>3, <2>2, <2>3 DEF Chars
<1> QED BY <1>2, <1>4, <1>5

(* The loop behind the "?": the parameters, which of them is being read,   *)
(* up to where, and whether its name is.                                   *)
Reading(path_, q, n, i, b) ==
  [path |-> path_, queries |-> q, query_count |-> n, found |-> TRUE, qeury_name |-> b, j |-> i]

Queries_t == [0..MaxQueries-1 -> Query_t]

Other(field) == IF field = "key" THEN "value" ELSE "key"

PutInto(q, n, field, i, ch) == [q EXCEPT ![n][field][i] = ch]

LEMMA PutWhere ==
  ASSUME NEW q \in Queries_t, NEW n \in 0..MaxQueries-1, NEW field \in {"key", "value"},
         NEW i \in 0..MaxSize-1, NEW ch \in Char, NEW new, new = PutInto(q, n, field, i, ch)
  PROVE  /\ new \in Queries_t
         /\ \A k \in 0..MaxQueries-1 : k # n => new[k] = q[k]
         /\ new[n][field] = [q[n][field] EXCEPT ![i] = ch]
         /\ new[n][Other(field)] = q[n][Other(field)]
         /\ q[n].key \in Buffer /\ q[n].value \in Buffer
<1> DEFINE b == [q[n][field] EXCEPT ![i] = ch]
           e == [q[n] EXCEPT ![field] = b]
<1>1. q[n] \in Query_t
  BY DEF Queries_t
<1>2. q[n].key \in Buffer /\ q[n].value \in Buffer
  BY <1>1 DEF Query_t
<1>3. b \in Buffer
  <2>1. q[n][field] \in Buffer
    BY <1>1 DEF Query_t
  <2> QED BY <2>1 DEF Buffer
<1>4. e \in Query_t /\ e[field] = b /\ e[Other(field)] = q[n][Other(field)]
  <2> HIDE DEF b
  <2>1. DOMAIN q[n] = {"key", "value"} /\ Other(field) \in {"key", "value"} /\ Other(field) # field
    BY <1>1 DEF Query_t, Other
  <2> QED BY <1>1, <1>3, <2>1 DEF Query_t
<1>5. new = [q EXCEPT ![n] = e]
  BY DEF PutInto
<1> HIDE DEF e, b
<1>6. /\ [q EXCEPT ![n] = e] \in Queries_t
      /\ \A k \in 0..MaxQueries-1 : k # n => [q EXCEPT ![n] = e][k] = q[k]
      /\ [q EXCEPT ![n] = e][n] = e
  BY <1>4 DEF Queries_t
<1> QED BY <1>2, <1>4, <1>5, <1>6 DEF b

UrlFields == {"path", "queries", "query_count", "found", "qeury_name", "j"}

LEMMA UrlRecord ==
  ASSUME NEW s, DOMAIN s = UrlFields, NEW f, NEW v, NEW t, t = [s EXCEPT ![f] = v]
  PROVE  t = [path |-> t.path, queries |-> t.queries, query_count |-> t.query_count,
              found |-> t.found, qeury_name |-> t.qeury_name, j |-> t.j]
<1> DEFINE p == [x \in UrlFields |-> t[x]]
<1>1. t = p
  OBVIOUS
<1>2. p = [path |-> p.path, queries |-> p.queries, query_count |-> p.query_count,
           found |-> p.found, qeury_name |-> p.qeury_name, j |-> p.j]
  BY SMT DEF UrlFields
<1> QED BY <1>1, <1>2

LEMMA PutReading ==
  ASSUME NEW path_, NEW q, NEW n, NEW i, NEW b \in BOOLEAN, NEW field, NEW ch
  PROVE  put(Reading(path_, q, n, i, b), field, ch)
           = Reading(path_, PutInto(q, n, field, i, ch), n, i, b)
<1> DEFINE s == Reading(path_, q, n, i, b)
           new == PutInto(q, n, field, i, ch)
<1>1. s.queries = q /\ s.query_count = n /\ s.j = i
  BY DEF Reading
<1>2. put(s, field, ch) = [s EXCEPT !.queries = PutInto(s.queries, s.query_count, field, s.j, ch)]
  BY DEF put, PutInto
<1> HIDE DEF s
<1>3. put(s, field, ch) = [s EXCEPT !.queries = new]
  BY <1>1, <1>2
<1> HIDE DEF new
<1>4. [s EXCEPT !.queries = new] = Reading(path_, new, n, i, b)
  <2> DEFINE t == [s EXCEPT !.queries = new]
  <2>1. DOMAIN s = {"path", "queries", "query_count", "found", "qeury_name", "j"}
    BY DEF s, Reading
  <2>2. s.path = path_ /\ s.query_count = n /\ s.found = TRUE /\ s.qeury_name = b /\ s.j = i
    BY DEF s, Reading
  <2>3. /\ t.path = path_ /\ t.queries = new /\ t.query_count = n /\ t.found = TRUE
        /\ t.qeury_name = b /\ t.j = i
    BY <2>1, <2>2
  <2>5. t = [path |-> t.path, queries |-> t.queries, query_count |-> t.query_count,
           found |-> t.found, qeury_name |-> t.qeury_name, j |-> t.j]
    <3>1. DOMAIN s = UrlFields
      BY <2>1 DEF UrlFields
    <3> HIDE DEF s
    <3> QED BY <3>1, UrlRecord
  <2> HIDE DEF t
  <2>6. t = Reading(path_, new, n, i, b)
    BY <2>3, <2>5 DEF Reading
  <2> QED BY <2>6 DEF t
<1> QED BY <1>3, <1>4 DEF s, new

(* What split_char does to it. *)
Split_onto(path_, q, n, i, b, ch) ==
  IF ch = "&" THEN Reading(path_, PutInto(q, n, "value", i, NUL), n + 1, 0, TRUE)
  ELSE IF ch = "=" THEN Reading(path_, PutInto(q, n, "key", i, NUL), n, 0, FALSE)
  ELSE Reading(path_, PutInto(q, n, IF b THEN "key" ELSE "value", i, ch), n, i + 1, b)

LEMMA SplitReading ==
  ASSUME NEW path_, NEW q, NEW n, NEW i, NEW b \in BOOLEAN, NEW ch
  PROVE  split_char(Reading(path_, q, n, i, b), ch) = Split_onto(path_, q, n, i, b, ch)
<1> DEFINE s == Reading(path_, q, n, i, b)
<1>1. s.found = TRUE /\ s.qeury_name = b
  BY DEF Reading
<1>2. split_char(s, ch) = IF ch = "&" THEN at_ampersand(s)
                          ELSE IF ch = "=" THEN at_equals(s) ELSE in_query(s, ch)
  <2> HIDE DEF s
  <2> QED BY <1>1 DEF split_char
<1>3. at_ampersand(s) = Reading(path_, PutInto(q, n, "value", i, NUL), n + 1, 0, TRUE)
  <2> DEFINE p == put(s, "value", NUL)
             new == PutInto(q, n, "value", i, NUL)
  <2>1. p = Reading(path_, new, n, i, b)
    BY PutReading
  <2>2. at_ampersand(s) = [p EXCEPT !.query_count = @ + 1, !.j = 0, !.qeury_name = TRUE]
    BY DEF at_ampersand
  <2> HIDE DEF p, new, s
  <2>3. at_ampersand(s) = Reading(path_, new, n + 1, 0, TRUE)
    BY <2>1, <2>2 DEF Reading
  <2> QED BY <2>3 DEF new
<1>4. at_equals(s) = Reading(path_, PutInto(q, n, "key", i, NUL), n, 0, FALSE)
  <2> DEFINE p == put(s, "key", NUL)
             new == PutInto(q, n, "key", i, NUL)
  <2>1. p = Reading(path_, new, n, i, b)
    BY PutReading
  <2>2. at_equals(s) = [p EXCEPT !.j = 0, !.qeury_name = FALSE]
    BY DEF at_equals
  <2> HIDE DEF p, new, s
  <2>3. at_equals(s) = Reading(path_, new, n, 0, FALSE)
    BY <2>1, <2>2 DEF Reading
  <2> QED BY <2>3 DEF new
<1>5. in_query(s, ch) = Reading(path_, PutInto(q, n, IF b THEN "key" ELSE "value", i, ch), n, i + 1, b)
  <2> DEFINE field == IF b THEN "key" ELSE "value"
             p == put(s, field, ch)
             new == PutInto(q, n, field, i, ch)
  <2>1. p = Reading(path_, new, n, i, b)
    <3> HIDE DEF field
    <3> QED BY PutReading
  <2>2. in_query(s, ch) = [p EXCEPT !.j = @ + 1]
    <3>1. field = IF s.qeury_name THEN "key" ELSE "value"
      BY <1>1
    <3> HIDE DEF field, s
    <3> QED BY <3>1 DEF in_query
  <2> HIDE DEF p, new, s, field
  <2>3. in_query(s, ch) = Reading(path_, new, n, i + 1, b)
    BY <2>1, <2>2 DEF Reading
  <2> QED BY <2>3 DEF new, field
<1> HIDE DEF s
<1>6. split_char(s, ch) =
           IF ch = "&" THEN Reading(path_, PutInto(q, n, "value", i, NUL), n + 1, 0, TRUE)
           ELSE IF ch = "=" THEN Reading(path_, PutInto(q, n, "key", i, NUL), n, 0, FALSE)
           ELSE Reading(path_, PutInto(q, n, IF b THEN "key" ELSE "value", i, ch), n, i + 1, b)
  BY <1>2, <1>3, <1>4, <1>5
<1> QED BY <1>6 DEF s, Split_onto

(* The parameters that are complete, and what is there of the current one. *)
Earlier(q, n) == [k \in 1..n |-> Parameter(q[k - 1])]

Current(q, n, i, b) == IF b THEN Chars(q[n].key, i)
                       ELSE (cstr(q[n].key) \o <<"=">>) \o Chars(q[n].value, i)

Legible(q, n, i, b) ==
  /\ q \in Queries_t /\ n \in 0..MaxQueries-1 /\ i \in 0..MaxSize-1 /\ b \in BOOLEAN
  /\ b => Written_to(q[n].key, i)
  /\ ~b => Written_to(q[n].value, i) /\ cstr(q[n].key) \in Seq(Letter)
  /\ Earlier(q, n) \in Seq(Seq(Letter))

LEMMA EarlierSame ==
  ASSUME NEW q, NEW p, NEW n \in Nat, \A k \in 0..n-1 : p[k] = q[k]
  PROVE  Earlier(p, n) = Earlier(q, n)
<1>1. \A k \in 1..n : k - 1 \in 0..n-1
  OBVIOUS
<1>2. \A k \in 1..n : Parameter(p[k - 1]) = Parameter(q[k - 1])
  BY <1>1
<1> QED BY <1>2 DEF Earlier

LEMMA OneType == ASSUME NEW S, NEW x \in S PROVE <<x>> \in Seq(S)
OBVIOUS

(* The decoder has an escape for both. *)
LEMMA DelimitersAreLetters ==
  /\ "=" \in Letter /\ "?" \in Letter
  /\ <<"=">> \in Seq(Letter) /\ <<"?">> \in Seq(Letter)
<1>1. "D" \in DOMAIN get_3_char /\ "F" \in DOMAIN get_3_char
  BY DEF get_3_char
<1>2. get_3_char["D"] = "=" /\ get_3_char["F"] = "?"
  BY DEF get_3_char
<1>3. "=" \in Letter /\ "?" \in Letter
  BY <1>1, <1>2, Zenon DEF Letter
<1>4. \A ch \in Letter : <<ch>> \in Seq(Letter)
  BY OneType
<1> QED BY <1>3, <1>4, Zenon

LEMMA CurrentType ==
  ASSUME NEW q, NEW n, NEW i, NEW b, Legible(q, n, i, b)
  PROVE  Current(q, n, i, b) \in Seq(Letter)
<1>1. CASE b
  <2>1. Written_to(q[n].key, i) /\ i \in Nat
    BY <1>1 DEF Legible, Written_to
  <2>2. Chars(q[n].key, i) \in Seq(Letter)
    BY <2>1, CharsType DEF Written_to
  <2> QED BY <1>1, <2>2 DEF Current
<1>2. CASE ~b
  <2>1. Written_to(q[n].value, i) /\ i \in Nat /\ cstr(q[n].key) \in Seq(Letter)
    BY <1>2 DEF Legible, Written_to
  <2>2. Chars(q[n].value, i) \in Seq(Letter)
    BY <2>1, CharsType DEF Written_to
  <2>3. cstr(q[n].key) \o <<"=">> \in Seq(Letter)
    BY <2>1, DelimitersAreLetters, ConcatProperties
  <2>4. (cstr(q[n].key) \o <<"=">>) \o Chars(q[n].value, i) \in Seq(Letter)
    BY <2>2, <2>3, ConcatProperties
  <2> QED BY <1>2, <2>4 DEF Current
<1>3. b \in BOOLEAN
  BY DEF Legible
<1> QED BY <1>1, <1>2, <1>3

(* Another character of the name or the value. *)
LEMMA LetterReads ==
  ASSUME NEW q, NEW n, NEW i, NEW b, Legible(q, n, i, b), NEW ch \in Letter, i + 1 < MaxSize,
         NEW p, p = PutInto(q, n, IF b THEN "key" ELSE "value", i, ch)
  PROVE  /\ Legible(p, n, i + 1, b) /\ Earlier(p, n) = Earlier(q, n)
         /\ Current(p, n, i + 1, b) = Append(Current(q, n, i, b), ch)
<1> DEFINE field == IF b THEN "key" ELSE "value"
<1>1. /\ q \in Queries_t /\ n \in 0..MaxQueries-1 /\ i \in 0..MaxSize-1 /\ b \in BOOLEAN
      /\ n \in Nat /\ i \in Nat /\ i + 1 \in 0..MaxSize-1 /\ \A k \in 0..n-1 : k \in 0..MaxQueries-1 /\ k # n
      /\ Earlier(q, n) \in Seq(Seq(Letter)) /\ ch \in Char
  BY BufferAssumption DEF Legible, Char
<1>2. /\ p \in Queries_t /\ \A k \in 0..MaxQueries-1 : k # n => p[k] = q[k]
      /\ p[n][field] = [q[n][field] EXCEPT ![i] = ch]
      /\ p[n][Other(field)] = q[n][Other(field)]
      /\ q[n].key \in Buffer /\ q[n].value \in Buffer
  <2>1. field \in {"key", "value"}
    OBVIOUS
  <2>2. p = PutInto(q, n, field, i, ch)
    OBVIOUS
  <2> HIDE DEF field
  <2> QED BY <1>1, <2>1, <2>2, PutWhere
<1>3. Earlier(p, n) = Earlier(q, n)
  BY <1>1, <1>2, EarlierSame
<1>4. CASE b
  <2>1. p[n].key = [q[n].key EXCEPT ![i] = ch] /\ Written_to(q[n].key, i)
    BY <1>2, <1>4 DEF Legible
  <2>2. Written_to(p[n].key, i + 1) /\ Chars(p[n].key, i + 1) = Append(Chars(q[n].key, i), ch)
    <3> DEFINE old == q[n].key
               new == p[n].key
    <3>1. old \in Buffer /\ Written_to(old, i) /\ new = [old EXCEPT ![i] = ch]
      BY <1>2, <2>1
    <3> HIDE DEF old, new
    <3>2. Written_to(new, i + 1) /\ Chars(new, i + 1) = Append(Chars(old, i), ch)
      <4>1. ch \in Char /\ i + 1 < MaxSize
        BY <1>1
      <4> QED BY <3>1, <4>1, BufferWrite, Zenon
    <3> QED BY <3>2 DEF old, new
  <2>3. Legible(p, n, i + 1, b)
    BY <1>1, <1>2, <1>3, <1>4, <2>2 DEF Legible
  <2> QED BY <1>3, <1>4, <2>2, <2>3 DEF Current
<1>5. CASE ~b
  <2>1. /\ p[n].value = [q[n].value EXCEPT ![i] = ch] /\ Written_to(q[n].value, i)
        /\ p[n].key = q[n].key /\ cstr(q[n].key) \in Seq(Letter)
    BY <1>2, <1>5 DEF Legible, Other
  <2>2. Written_to(p[n].value, i + 1) /\ Chars(p[n].value, i + 1) = Append(Chars(q[n].value, i), ch)
    <3> DEFINE old == q[n].value
               new == p[n].value
    <3>1. old \in Buffer /\ Written_to(old, i) /\ new = [old EXCEPT ![i] = ch]
      BY <1>2, <2>1
    <3> HIDE DEF old, new
    <3>2. Written_to(new, i + 1) /\ Chars(new, i + 1) = Append(Chars(old, i), ch)
      <4>1. ch \in Char /\ i + 1 < MaxSize
        BY <1>1
      <4> QED BY <3>1, <4>1, BufferWrite, Zenon
    <3> QED BY <3>2 DEF old, new
  <2>3. Legible(p, n, i + 1, b)
    BY <1>1, <1>2, <1>3, <1>5, <2>1, <2>2 DEF Legible
  <2> DEFINE name == cstr(q[n].key) \o <<"=">>
             v == Chars(q[n].value, i)
  <2>4. name \in Seq(Letter) /\ v \in Seq(Letter)
    <3>1. v \in Seq(Letter)
      BY <1>1, <2>1, CharsType DEF Written_to
    <3> QED BY <2>1, <3>1, DelimitersAreLetters, ConcatProperties
  <2>5. name \o Append(v, ch) = Append(name \o v, ch)
    <3> HIDE DEF name, v
    <3> QED BY <2>4, ConcatAppend
  <2>6. Current(p, n, i + 1, b) = name \o Append(v, ch) /\ Current(q, n, i, b) = name \o v
    BY <1>5, <2>1, <2>2 DEF Current
  <2> QED BY <1>3, <2>3, <2>5, <2>6
<1> QED BY <1>1, <1>4, <1>5

(* The end of the name. *)
LEMMA EqualsReads ==
  ASSUME NEW q, NEW n, NEW i, Legible(q, n, i, TRUE), NEW p, p = PutInto(q, n, "key", i, NUL)
  PROVE  /\ Legible(p, n, 0, FALSE) /\ Earlier(p, n) = Earlier(q, n)
         /\ Current(p, n, 0, FALSE) = Append(Current(q, n, i, TRUE), "=")
<1>1. /\ q \in Queries_t /\ n \in 0..MaxQueries-1 /\ i \in 0..MaxSize-1
      /\ n \in Nat /\ i \in Nat /\ 0 \in 0..MaxSize-1 /\ \A k \in 0..n-1 : k \in 0..MaxQueries-1 /\ k # n
      /\ Earlier(q, n) \in Seq(Seq(Letter)) /\ NUL \in Char /\ Written_to(q[n].key, i)
  BY BufferAssumption DEF Legible, Char
<1>2. /\ p \in Queries_t /\ \A k \in 0..MaxQueries-1 : k # n => p[k] = q[k]
      /\ p[n].key = [q[n].key EXCEPT ![i] = NUL]
      /\ q[n].key \in Buffer /\ q[n].value \in Buffer
  BY <1>1, PutWhere
<1>3. Earlier(p, n) = Earlier(q, n)
  BY <1>1, <1>2, EarlierSame
<1> DEFINE name == Chars(q[n].key, i)
<1>4. name \in Seq(Letter)
  BY <1>1, CharsType DEF Written_to
<1>5. cstr(p[n].key) = name
  BY <1>1, <1>2, BufferWrite
<1>6. Chars(p[n].value, 0) = << >> /\ Written_to(p[n].value, 0)
  <2>1. 0..0-1 = {}
    OBVIOUS
  <2>2. Chars(p[n].value, 0) = << >>
    BY DEF Chars
  <2> QED BY <1>1, <2>1, <2>2 DEF Written_to
<1>7. Legible(p, n, 0, FALSE)
  <2>1. cstr(p[n].key) \in Seq(Letter)
    BY <1>4, <1>5
  <2> QED BY <1>1, <1>2, <1>3, <1>6, <2>1 DEF Legible
<1>8. Current(p, n, 0, FALSE) = Append(name, "=")
  <2> HIDE DEF name
  <2>1. Current(p, n, 0, FALSE) = (name \o <<"=">>) \o << >>
    BY <1>5, <1>6 DEF Current
  <2>2. name \o <<"=">> \in Seq(Letter) /\ name \o <<"=">> = Append(name, "=")
    BY <1>4, DelimitersAreLetters, ConcatProperties, AppendIsConcat
  <2> QED BY <2>1, <2>2, ConcatEmptySeq
<1>9. Current(q, n, i, TRUE) = name
  BY DEF Current
<1> QED BY <1>3, <1>7, <1>8, <1>9

(* The end of the value. *)
LEMMA ValueReads ==
  ASSUME NEW q, NEW n, NEW i, Legible(q, n, i, FALSE), NEW p, p = PutInto(q, n, "value", i, NUL)
  PROVE  /\ Earlier(p, n + 1) = Append(Earlier(q, n), Current(q, n, i, FALSE))
         /\ n + 1 < MaxQueries => Legible(p, n + 1, 0, TRUE) /\ Current(p, n + 1, 0, TRUE) = << >>
<1>1. /\ q \in Queries_t /\ n \in 0..MaxQueries-1 /\ i \in 0..MaxSize-1
      /\ n \in Nat /\ i \in Nat /\ 0 \in 0..MaxSize-1 /\ \A k \in 0..n-1 : k \in 0..MaxQueries-1 /\ k # n
      /\ Earlier(q, n) \in Seq(Seq(Letter)) /\ NUL \in Char /\ Written_to(q[n].value, i)
      /\ n + 1 < MaxQueries => n + 1 \in 0..MaxQueries-1
  BY BufferAssumption DEF Legible, Char
<1>2. /\ p \in Queries_t /\ \A k \in 0..MaxQueries-1 : k # n => p[k] = q[k]
      /\ p[n].value = [q[n].value EXCEPT ![i] = NUL] /\ p[n].key = q[n].key
      /\ q[n].key \in Buffer /\ q[n].value \in Buffer
  BY <1>1, PutWhere DEF Other
<1>3. cstr(p[n].value) = Chars(q[n].value, i)
  BY <1>1, <1>2, BufferWrite
<1> DEFINE e == Current(q, n, i, FALSE)
           a == Earlier(q, n)
           b == Earlier(p, n + 1)
           c == Append(a, e)
<1>4. e \in Seq(Letter)
  BY CurrentType
<1>5. Parameter(p[n]) = e
  BY <1>2, <1>3 DEF Parameter, Current
<1>6. ASSUME NEW k \in 1..n PROVE Parameter(p[k - 1]) = Parameter(q[k - 1])
  <2>1. k - 1 \in 0..n-1
    BY <1>1
  <2>2. p[k - 1] = q[k - 1]
    BY <1>1, <1>2, <2>1
  <2> QED BY <2>2
<1>7. /\ b = [k \in 1..n+1 |-> Parameter(p[k - 1])] /\ a = [k \in 1..n |-> Parameter(q[k - 1])]
      /\ a \in Seq(Seq(Letter))
  BY <1>1 DEF Earlier
<1> HIDE DEF e, a, b
<1>8. Len(a) = n
  BY <1>1, <1>7
<1>9. c \in Seq(Seq(Letter)) /\ Len(c) = n + 1 /\ c[n + 1] = e /\ \A k \in 1..n : c[k] = a[k]
  <2>1. a \in Seq(Seq(Letter))
    BY <1>7
  <2> QED BY <1>4, <1>8, <2>1, AppendProperties
<1> HIDE DEF c
<1>10. ASSUME NEW k \in 1..n+1 PROVE b[k] = c[k]
  <2>1. CASE k = n + 1
    <3>1. k - 1 = n
      BY <1>1, <2>1
    <3> QED BY <1>5, <1>7, <1>9, <2>1, <3>1
  <2>2. CASE k # n + 1
    <3>1. k \in 1..n
      BY <1>1, <2>2
    <3> QED BY <1>6, <1>7, <1>9, <3>1
  <2> QED BY <2>1, <2>2
<1>11. b = c
  <2>1. DOMAIN c = 1..n+1 /\ c = [k \in 1..n+1 |-> c[k]]
    BY <1>9
  <2>2. \A k \in 1..n+1 : Parameter(p[k - 1]) = c[k]
    BY <1>7, <1>10
  <2> QED BY <1>7, <2>1, <2>2
<1>12. ASSUME n + 1 < MaxQueries
       PROVE  Legible(p, n + 1, 0, TRUE) /\ Current(p, n + 1, 0, TRUE) = << >>
  <2>1. 0..0-1 = {}
    OBVIOUS
  <2>2. Written_to(p[n + 1].key, 0)
    BY <1>1, <2>1 DEF Written_to
  <2>3. Legible(p, n + 1, 0, TRUE)
    BY <1>1, <1>2, <1>9, <1>11, <1>12, <2>2 DEF Legible, b
  <2>4. Current(p, n + 1, 0, TRUE) = << >>
    BY DEF Current, Chars
  <2> QED BY <2>3, <2>4
<1> QED BY <1>11, <1>12 DEF a, b, c, e

(* The loop before the "?". *)
NoQueries == [k \in 0..MaxQueries-1 |-> [key |-> Zeros, value |-> Zeros]]

Walking(path_) == [path |-> path_, queries |-> NoQueries, query_count |-> 0, found |-> FALSE,
                   qeury_name |-> TRUE, j |-> 0]

LEMMA Walks ==
  /\ init_url = Walking(<< >>)
  /\ \A path_, ch : split_char(Walking(path_), ch) =
                      IF ch = "?" THEN Reading(path_, NoQueries, 0, 0, TRUE)
                      ELSE Walking(Append(path_, ch))
<1>1. init_url = Walking(<< >>)
  BY DEF init_url, Walking, NoQueries
<1>2. ASSUME NEW path_, NEW ch
      PROVE  split_char(Walking(path_), ch) =
                      IF ch = "?" THEN Reading(path_, NoQueries, 0, 0, TRUE)
                      ELSE Walking(Append(path_, ch))
  <2> DEFINE s == Walking(path_)
             next == Append(path_, ch)
  <2>1. s = [path |-> path_, queries |-> NoQueries, query_count |-> 0, found |-> FALSE,
             qeury_name |-> TRUE, j |-> 0]
    BY DEF Walking
  <2>2. split_char(s, ch) = IF ch = "?" THEN [s EXCEPT !.found = TRUE]
                            ELSE [s EXCEPT !.path = Append(s.path, ch)]
    <3>1. s.found = FALSE
      BY <2>1
    <3> HIDE DEF s
    <3> QED BY <3>1 DEF split_char, in_path
  <2> HIDE DEF s
  <2>3. [s EXCEPT !.found = TRUE] = Reading(path_, NoQueries, 0, 0, TRUE)
    <3> DEFINE t == [s EXCEPT !.found = TRUE]
    <3>1. DOMAIN s = {"path", "queries", "query_count", "found", "qeury_name", "j"}
      BY <2>1
    <3>2. /\ s.path = path_ /\ s.queries = NoQueries /\ s.query_count = 0 /\ s.qeury_name = TRUE
          /\ s.j = 0
      BY <2>1
    <3>3. /\ t.path = path_ /\ t.queries = NoQueries /\ t.query_count = 0 /\ t.found = TRUE
          /\ t.qeury_name = TRUE /\ t.j = 0
      <4>1. /\ t.path = path_ /\ t.queries = NoQueries /\ t.query_count = 0
            /\ t.qeury_name = TRUE /\ t.j = 0
        BY <3>1, <3>2
      <4>2. t.found = TRUE
        BY <3>1, Zenon
      <4> QED BY <4>1, <4>2
    <3>5. t = [path |-> t.path, queries |-> t.queries, query_count |-> t.query_count,
             found |-> t.found, qeury_name |-> t.qeury_name, j |-> t.j]
      <4>1. DOMAIN s = UrlFields
        BY <3>1 DEF UrlFields
      <4> HIDE DEF s
      <4> QED BY <4>1, UrlRecord
    <3> HIDE DEF t
    <3>6. t = Reading(path_, NoQueries, 0, 0, TRUE)
      BY <3>3, <3>5 DEF Reading
    <3> QED BY <3>6 DEF t
  <2>4. [s EXCEPT !.path = next] = Walking(next)
    <3> HIDE DEF next
    <3> DEFINE t == [s EXCEPT !.path = next]
    <3>1. DOMAIN s = {"path", "queries", "query_count", "found", "qeury_name", "j"}
      BY <2>1
    <3>2. /\ s.queries = NoQueries /\ s.query_count = 0 /\ s.found = FALSE /\ s.qeury_name = TRUE
          /\ s.j = 0
      BY <2>1
    <3>3. /\ t.path = next /\ t.queries = NoQueries /\ t.query_count = 0 /\ t.found = FALSE
          /\ t.qeury_name = TRUE /\ t.j = 0
      BY <3>1, <3>2
    <3>5. t = [path |-> t.path, queries |-> t.queries, query_count |-> t.query_count,
             found |-> t.found, qeury_name |-> t.qeury_name, j |-> t.j]
      <4>1. DOMAIN s = UrlFields
        BY <3>1 DEF UrlFields
      <4> HIDE DEF s
      <4> QED BY <4>1, UrlRecord
    <3> HIDE DEF t
    <3>6. t = Walking(next)
      BY <3>3, <3>5 DEF Walking
    <3> QED BY <3>6 DEF t
  <2>5. s.path = path_
    BY <2>1
  <2>6. split_char(s, ch) = IF ch = "?" THEN Reading(path_, NoQueries, 0, 0, TRUE) ELSE Walking(next)
    BY <2>2, <2>3, <2>4, <2>5
  <2> QED BY <2>6 DEF s
<1> QED BY <1>1, <1>2

LEMMA NoQueriesLegible ==
  ASSUME MaxQueries > 0
  PROVE  /\ Legible(NoQueries, 0, 0, TRUE) /\ Earlier(NoQueries, 0) = << >>
         /\ Current(NoQueries, 0, 0, TRUE) = << >>
<1>1. 0 \in 0..MaxQueries-1 /\ 0 \in 0..MaxSize-1 /\ 0..0-1 = {}
  BY BufferAssumption
<1>2. Zeros \in Buffer
  BY DEF Zeros, Buffer, Char
<1>3. NoQueries \in Queries_t
  BY <1>2 DEF NoQueries, Queries_t, Query_t
<1>4. Earlier(NoQueries, 0) = << >> /\ Current(NoQueries, 0, 0, TRUE) = << >>
  BY DEF Earlier, Current, Chars
<1>5. << >> \in Seq(Seq(Letter))
  OBVIOUS
<1>6. Written_to(NoQueries[0].key, 0)
  BY <1>1 DEF Written_to
<1> QED BY <1>1, <1>3, <1>4, <1>5, <1>6 DEF Legible

(* The loop after i characters, the "?" one of them.  Neither the current  *)
(* name or value nor the array of parameters can be full yet, and the last *)
(* delimiter tells whether a name is read.                                 *)
HasRoom(s, i, n, j, b) == /\ j <= i - Question(s)
                          /\ 2 * n + (IF b THEN 0 ELSE 1) <= i - Question(s)

LastOf(D, d, i) == d \in D /\ d <= i /\ \A c \in D : c <= d \/ i < c

Expects(s, i, b) == \E d : LastOf(Delimiters(s), d, i) /\ (b <=> s[d] # "=")

At(s, i, q, n, j, b) == Legible(q, n, j, b) /\ HasRoom(s, i, n, j, b) /\ Expects(s, i, b)

(* What a character behind the "?" does to the parameters. *)
Moves(q, n, j, b, ch, q2, n2, j2, b2) ==
  IF ch = "&" THEN /\ Earlier(q2, n2) = Append(Earlier(q, n), Current(q, n, j, b))
                   /\ Current(q2, n2, j2, b2) = << >>
  ELSE /\ Earlier(q2, n2) = Earlier(q, n)
       /\ Current(q2, n2, j2, b2) = Append(Current(q, n, j, b), ch)

LEMMA DelimitersAre ==
  ASSUME NEW s
  PROVE  Delimiters(s) = {k \in 1..Len(s) : /\ Question(s) # 0
                                            /\ \/ k = Question(s)
                                               \/ k > Question(s) /\ s[k] \in {"&", "="}}
BY DEF Delimiters, Question

LEMMA NextDelimiter ==
  ASSUME NEW s \in Seq(Letter), Question(s) # 0, WellFormed(s), NEW i \in Question(s)..Len(s)-1,
         NEW b \in BOOLEAN, Expects(s, i, b)
  PROVE  /\ s[i + 1] = "=" => b /\ Expects(s, i + 1, FALSE)
         /\ s[i + 1] = "&" => ~b /\ Expects(s, i + 1, TRUE)
         /\ s[i + 1] \notin {"=", "&"} => Expects(s, i + 1, b)
<1> DEFINE D == Delimiters(s)
<1>1. /\ Question(s) \in 1..Len(s) /\ Len(s) \in Nat /\ i + 1 \in 1..Len(s)
      /\ i \in Nat /\ Question(s) < i + 1
  BY QuestionIs
<1>2. /\ \A k \in D : k \in 1..Len(s)
      /\ i + 1 \in D <=> s[i + 1] \in {"&", "="}
  BY <1>1, DelimitersAre
<1>3. PICK d : LastOf(D, d, i) /\ (b <=> s[d] # "=")
  BY DEF Expects
<1>4. /\ d \in D /\ d <= i /\ d \in Nat
      /\ \A c \in D : c \in Nat /\ (c <= d \/ i < c) /\ (c = i + 1 \/ c <= i \/ i + 1 < c)
  BY <1>1, <1>2, <1>3 DEF LastOf
<1>5. CASE i + 1 \in D
  <2>1. Adjacent(D, d, i + 1)
    BY <1>1, <1>4 DEF Adjacent
  <2>2. s[d] = "=" <=> s[i + 1] # "="
    BY <1>4, <1>5, <2>1 DEF WellFormed
  <2>3. LastOf(D, i + 1, i + 1)
    BY <1>1, <1>4, <1>5 DEF LastOf
  <2>4. s[i + 1] = "=" => Expects(s, i + 1, FALSE)
    BY <2>3 DEF Expects
  <2>5. s[i + 1] = "&" => Expects(s, i + 1, TRUE)
    BY <2>3 DEF Expects
  <2> QED BY <1>2, <1>3, <1>5, <2>2, <2>4, <2>5
<1>6. CASE i + 1 \notin D
  <2>1. LastOf(D, d, i + 1)
    BY <1>1, <1>4, <1>6 DEF LastOf
  <2>2. Expects(s, i + 1, b)
    BY <1>3, <2>1 DEF Expects
  <2> QED BY <1>2, <1>6, <2>2
<1> QED BY <1>5, <1>6

LEMMA ReadsBehind ==
  ASSUME NEW s \in Seq(Letter), Question(s) # 0, WellFormed(s),
         Len(s) <= MaxSize, Len(s) <= 2 * MaxQueries, NEW i \in Question(s)..Len(s)-1,
         NEW path_, NEW q, NEW n, NEW j, NEW b, At(s, i, q, n, j, b)
  PROVE  \E q2, n2, j2, b2 :
           /\ split_char(Reading(path_, q, n, j, b), s[i + 1]) = Reading(path_, q2, n2, j2, b2)
           /\ At(s, i + 1, q2, n2, j2, b2)
           /\ Moves(q, n, j, b, s[i + 1], q2, n2, j2, b2)
<1> DEFINE ch == s[i + 1]
           w == Question(s)
<1>1. /\ w \in 1..Len(s) /\ Len(s) \in Nat /\ i + 1 \in 1..Len(s) /\ i \in Nat
      /\ w <= i /\ i + 1 <= Len(s) /\ MaxSize \in Nat /\ MaxQueries \in Nat
      /\ Len(s) <= MaxSize /\ Len(s) <= 2 * MaxQueries /\ ch \in Letter
  BY QuestionIs, BufferAssumption
<1>2. /\ Legible(q, n, j, b) /\ Expects(s, i, b)
      /\ j <= i - w /\ 2 * n + (IF b THEN 0 ELSE 1) <= i - w
      /\ b \in BOOLEAN /\ n \in Nat /\ j \in Nat
  BY DEF At, HasRoom, Legible
<1>4. /\ ch = "=" => b /\ Expects(s, i + 1, FALSE)
      /\ ch = "&" => ~b /\ Expects(s, i + 1, TRUE)
      /\ ch # "=" /\ ch # "&" => Expects(s, i + 1, b)
  BY <1>2, NextDelimiter
<1>5. ASSUME NEW q2, NEW n2, NEW j2, NEW b2 \in BOOLEAN, Legible(q2, n2, j2, b2), j2 <= i + 1 - w,
             2 * n2 + (IF b2 THEN 0 ELSE 1) <= i + 1 - w, Expects(s, i + 1, b2)
      PROVE  At(s, i + 1, q2, n2, j2, b2)
  <2>1. HasRoom(s, i + 1, n2, j2, b2)
    <3>1. n2 \in Nat /\ j2 \in Nat
      BY <1>5 DEF Legible
    <3> QED BY <1>1, <1>5, <3>1 DEF HasRoom
  <2> QED BY <1>5, <2>1 DEF At
<1>9. split_char(Reading(path_, q, n, j, b), ch) =
           IF ch = "&" THEN Reading(path_, PutInto(q, n, "value", j, NUL), n + 1, 0, TRUE)
           ELSE IF ch = "=" THEN Reading(path_, PutInto(q, n, "key", j, NUL), n, 0, FALSE)
           ELSE Reading(path_, PutInto(q, n, IF b THEN "key" ELSE "value", j, ch), n, j + 1, b)
  <2>1. b \in BOOLEAN
    BY <1>2
  <2> HIDE DEF ch
  <2>2. split_char(Reading(path_, q, n, j, b), ch) = Split_onto(path_, q, n, j, b, ch)
    BY <2>1, SplitReading
  <2> QED BY <2>2 DEF Split_onto
<1> HIDE DEF ch, w
<1>6. CASE ch = "&"
  <2> DEFINE q2 == PutInto(q, n, "value", j, NUL)
  <2>1. b = FALSE /\ n + 1 < MaxQueries
    BY <1>1, <1>2, <1>4, <1>6
  <2>2. Legible(q, n, j, FALSE)
    BY <1>2, <2>1
  <2>3. /\ Earlier(q2, n + 1) = Append(Earlier(q, n), Current(q, n, j, FALSE))
        /\ Legible(q2, n + 1, 0, TRUE) /\ Current(q2, n + 1, 0, TRUE) = << >>
    <3> HIDE DEF q2
    <3>1. q2 = PutInto(q, n, "value", j, NUL)
      BY DEF q2
    <3> QED BY <2>1, <2>2, <3>1, ValueReads
  <2>4. split_char(Reading(path_, q, n, j, b), ch) = Reading(path_, q2, n + 1, 0, TRUE)
    BY <1>6, <1>9
  <2> HIDE DEF q2
  <2>5. At(s, i + 1, q2, n + 1, 0, TRUE)
    <3>1. 0 <= i + 1 - w /\ 2 * (n + 1) + 0 <= i + 1 - w
      BY <1>1, <1>2, <1>6, <2>1
    <3> QED BY <1>4, <1>6, <1>5, <2>3, <3>1
  <2>6. Moves(q, n, j, b, ch, q2, n + 1, 0, TRUE)
    BY <1>6, <2>1, <2>3 DEF Moves
  <2> QED BY <2>4, <2>5, <2>6 DEF ch
<1>7. CASE ch = "="
  <2> DEFINE q2 == PutInto(q, n, "key", j, NUL)
  <2>1. b = TRUE /\ ch # "&"
    BY <1>2, <1>4, <1>7
  <2>2. Legible(q, n, j, TRUE)
    BY <1>2, <2>1
  <2>3. /\ Legible(q2, n, 0, FALSE) /\ Earlier(q2, n) = Earlier(q, n)
        /\ Current(q2, n, 0, FALSE) = Append(Current(q, n, j, TRUE), "=")
    <3> HIDE DEF q2
    <3>1. q2 = PutInto(q, n, "key", j, NUL)
      BY DEF q2
    <3> QED BY <2>2, <3>1, EqualsReads
  <2>4. split_char(Reading(path_, q, n, j, b), ch) = Reading(path_, q2, n, 0, FALSE)
    BY <1>7, <1>9, <2>1
  <2> HIDE DEF q2
  <2>5. At(s, i + 1, q2, n, 0, FALSE)
    <3>1. 0 <= i + 1 - w /\ 2 * n + 1 <= i + 1 - w
      BY <1>1, <1>2, <1>7, <2>1
    <3> QED BY <1>4, <1>7, <1>5, <2>3, <3>1
  <2>6. Moves(q, n, j, b, ch, q2, n, 0, FALSE)
    BY <1>7, <2>1, <2>3 DEF Moves
  <2> QED BY <2>4, <2>5, <2>6 DEF ch
<1>8. CASE ch # "&" /\ ch # "="
  <2> DEFINE q2 == PutInto(q, n, IF b THEN "key" ELSE "value", j, ch)
  <2>1. j + 1 < MaxSize
    BY <1>1, <1>2
  <2>3. /\ Legible(q2, n, j + 1, b) /\ Earlier(q2, n) = Earlier(q, n)
        /\ Current(q2, n, j + 1, b) = Append(Current(q, n, j, b), ch)
    <3> HIDE DEF q2
    <3>1. q2 = PutInto(q, n, IF b THEN "key" ELSE "value", j, ch)
      BY DEF q2
    <3> QED BY <1>1, <1>2, <2>1, <3>1, LetterReads
  <2>4. split_char(Reading(path_, q, n, j, b), ch) = Reading(path_, q2, n, j + 1, b)
    BY <1>8, <1>9
  <2> HIDE DEF q2
  <2>5. At(s, i + 1, q2, n, j + 1, b)
    <3>1. /\ j + 1 <= i + 1 - w /\ 2 * n + (IF b THEN 0 ELSE 1) <= i + 1 - w
      BY <1>1, <1>2
    <3> QED BY <1>2, <1>4, <1>8, <1>5, <2>3, <3>1
  <2>6. Moves(q, n, j, b, ch, q2, n, j + 1, b)
    BY <1>8, <2>3 DEF Moves
  <2> QED BY <2>4, <2>5, <2>6 DEF ch
<1> QED BY <1>6, <1>7, <1>8

(* The same of the loop's record. *)
Here(s, i, path_, u) ==
  /\ u = Reading(path_, u.queries, u.query_count, u.j, u.qeury_name)
  /\ At(s, i, u.queries, u.query_count, u.j, u.qeury_name)

Complete(u) == Earlier(u.queries, u.query_count)
Begun(u) == Current(u.queries, u.query_count, u.j, u.qeury_name)

Fitting(s) == /\ s \in Seq(Letter) /\ Question(s) # 0 /\ WellFormed(s)
              /\ Len(s) <= MaxSize /\ Len(s) <= 2 * MaxQueries

LEMMA HereReading ==
  ASSUME NEW s, NEW i, NEW path_, NEW q, NEW n, NEW j, NEW b \in BOOLEAN, At(s, i, q, n, j, b),
         NEW u, u = Reading(path_, q, n, j, b)
  PROVE  /\ Here(s, i, path_, u) /\ u.found
         /\ Complete(u) = Earlier(q, n) /\ Begun(u) = Current(q, n, j, b)
<1>1. u.queries = q /\ u.query_count = n /\ u.j = j /\ u.qeury_name = b /\ u.found
  BY DEF Reading
<1>2. Complete(u) = Earlier(q, n)
  BY <1>1 DEF Complete
<1>3. Begun(u) = Current(q, n, j, b)
  BY <1>1 DEF Begun
<1>4. u = Reading(path_, u.queries, u.query_count, u.j, u.qeury_name)
  BY <1>1
<1>5. At(s, i, u.queries, u.query_count, u.j, u.qeury_name)
  BY <1>1
<1> QED BY <1>1, <1>2, <1>3, <1>4, <1>5 DEF Here

LEMMA HereNext ==
  ASSUME NEW s, Fitting(s), NEW i \in Question(s)..Len(s)-1, NEW path_, NEW u, Here(s, i, path_, u),
         NEW v, v = split_char(u, s[i + 1])
  PROVE  /\ Here(s, i + 1, path_, v)
         /\ IF s[i + 1] = "&" THEN Complete(v) = Append(Complete(u), Begun(u)) /\ Begun(v) = << >>
            ELSE Complete(v) = Complete(u) /\ Begun(v) = Append(Begun(u), s[i + 1])
<1> DEFINE q == u.queries
           n == u.query_count
           j == u.j
           b == u.qeury_name
           ch == s[i + 1]
<1>1. u = Reading(path_, q, n, j, b) /\ At(s, i, q, n, j, b)
  BY DEF Here
<1>2. Complete(u) = Earlier(q, n) /\ Begun(u) = Current(q, n, j, b)
  BY DEF Complete, Begun
<1>3. /\ s \in Seq(Letter) /\ Question(s) # 0 /\ WellFormed(s)
      /\ Len(s) <= MaxSize /\ Len(s) <= 2 * MaxQueries
  BY DEF Fitting
<1>4. \E q2, n2, j2, b2 :
           /\ split_char(Reading(path_, q, n, j, b), ch) = Reading(path_, q2, n2, j2, b2)
           /\ At(s, i + 1, q2, n2, j2, b2)
           /\ Moves(q, n, j, b, ch, q2, n2, j2, b2)
  <2> HIDE DEF q, n, j, b
  <2> QED BY <1>1, <1>3, ReadsBehind
<1> HIDE DEF q, n, j, b
<1>5. PICK q2, n2, j2, b2 :
           /\ split_char(Reading(path_, q, n, j, b), ch) = Reading(path_, q2, n2, j2, b2)
           /\ At(s, i + 1, q2, n2, j2, b2)
           /\ Moves(q, n, j, b, ch, q2, n2, j2, b2)
  BY <1>4
<1>6. v = Reading(path_, q2, n2, j2, b2) /\ b2 \in BOOLEAN
  BY <1>1, <1>5 DEF At, Legible
<1>7. /\ Here(s, i + 1, path_, v)
      /\ Complete(v) = Earlier(q2, n2) /\ Begun(v) = Current(q2, n2, j2, b2)
  BY <1>5, <1>6, HereReading
<1>8. Moves(q, n, j, b, ch, q2, n2, j2, b2)
  BY <1>5
<1>9. IF ch = "&" THEN Complete(v) = Append(Complete(u), Begun(u)) /\ Begun(v) = << >>
      ELSE Complete(v) = Complete(u) /\ Begun(v) = Append(Begun(u), ch)
  <2> HIDE DEF ch
  <2> QED BY <1>2, <1>7, <1>8 DEF Moves
<1> QED BY <1>7, <1>9

LEMMA HereFirst ==
  ASSUME NEW s, Fitting(s), NEW path_, NEW u, u = Reading(path_, NoQueries, 0, 0, TRUE)
  PROVE  Here(s, Question(s), path_, u) /\ Complete(u) = << >> /\ Begun(u) = << >>
<1> DEFINE w == Question(s)
<1>1. /\ s \in Seq(Letter) /\ w \in 1..Len(s) /\ Len(s) \in Nat /\ s[w] = "?"
      /\ Len(s) <= 2 * MaxQueries
  BY QuestionIs DEF Fitting
<1>2. MaxQueries > 0
  BY <1>1, BufferAssumption
<1>3. Legible(NoQueries, 0, 0, TRUE) /\ Earlier(NoQueries, 0) = << >> /\ Current(NoQueries, 0, 0, TRUE) = << >>
  BY <1>2, NoQueriesLegible
<1>4. HasRoom(s, w, 0, 0, TRUE)
  BY <1>1 DEF HasRoom
<1>5. Expects(s, w, TRUE)
  <2>1. /\ w \in Delimiters(s) /\ \A c \in Delimiters(s) : c \in 1..Len(s) /\ (c = w \/ w < c)
    BY <1>1, DelimitersAre
  <2>2. LastOf(Delimiters(s), w, w)
    BY <1>1, <2>1 DEF LastOf
  <2>3. s[w] # "="
    BY <1>1
  <2> HIDE DEF w
  <2> QED BY <2>2, <2>3 DEF Expects
<1>6. At(s, w, NoQueries, 0, 0, TRUE)
  BY <1>3, <1>4, <1>5 DEF At
<1> HIDE DEF w
<1>7. /\ Here(s, w, path_, u)
      /\ Complete(u) = Earlier(NoQueries, 0) /\ Begun(u) = Current(NoQueries, 0, 0, TRUE)
  <2> DEFINE b == TRUE
             z == 0
             r == Reading(path_, NoQueries, z, z, b)
  <2>1. b \in BOOLEAN /\ At(s, w, NoQueries, z, z, b)
    BY <1>6
  <2>2. u = r
    OBVIOUS
  <2> HIDE DEF b, z
  <2>3. r = Reading(path_, NoQueries, z, z, b)
    OBVIOUS
  <2> HIDE DEF r
  <2>4. /\ Here(s, w, path_, r)
        /\ Complete(r) = Earlier(NoQueries, z) /\ Begun(r) = Current(NoQueries, z, z, b)
    BY ONLY <2>1, <2>3, HereReading
  <2> QED BY <2>2, <2>4 DEF b, z
<1> QED BY <1>3, <1>7 DEF w

(* At the end a value is read; its terminator completes the parameter. *)
LEMMA HereLast ==
  ASSUME NEW s, Fitting(s), NEW path_, NEW u, Here(s, Len(s), path_, u),
         NEW v, v = [put(u, "value", NUL) EXCEPT !.query_count = @ + 1]
  PROVE  /\ v.query_count \in Nat
         /\ Complete(v) = Append(Complete(u), Begun(u))
<1> DEFINE q == u.queries
           n == u.query_count
           j == u.j
           b == u.qeury_name
<1>1. u = Reading(path_, q, n, j, b) /\ At(s, Len(s), q, n, j, b)
  BY DEF Here
<1>2. Complete(u) = Earlier(q, n) /\ Begun(u) = Current(q, n, j, b)
  BY DEF Complete, Begun
<1> HIDE DEF q, n, j, b
<1>3. Legible(q, n, j, b) /\ Expects(s, Len(s), b) /\ b \in BOOLEAN /\ n \in Nat
  BY <1>1 DEF At, Legible
<1>4. b = FALSE
  <2> DEFINE D == Delimiters(s)
  <2>1. PICK d : LastOf(D, d, Len(s)) /\ (b <=> s[d] # "=")
    BY <1>3 DEF Expects
  <2>2. /\ d \in D /\ D # {} /\ \A c \in D : c <= d \/ Len(s) < c
    BY <2>1 DEF LastOf
  <2>3. D \in SUBSET (1..Len(s) + 1) /\ Len(s) \in Nat /\ \A c \in D : c \in 1..Len(s)
    BY DelimitersAre DEF Fitting
  <2>4. Max(D) \in D /\ \A c \in D : c <= Max(D)
    <3> HIDE DEF D
    <3> QED BY <2>2, <2>3, MaxInterval
  <2>5. Max(D) = d
    <3> DEFINE m == Max(D)
    <3>1. m \in D /\ \A c \in D : c <= m
      BY <2>4
    <3> HIDE DEF m, D
    <3>2. m = d
      BY <2>2, <2>3, <3>1
    <3> QED BY <3>2 DEF m
  <2>6. s[d] = "="
    BY <2>2, <2>5 DEF Fitting, WellFormed
  <2> QED BY <1>3, <2>1, <2>6
<1> DEFINE p == PutInto(q, n, "value", j, NUL)
           t == put(u, "value", NUL)
<1>5. t = Reading(path_, p, n, j, b)
  BY <1>1, <1>3, PutReading
<1>6. v.queries = p /\ v.query_count = n + 1
  <2>1. v = [t EXCEPT !.query_count = @ + 1]
    OBVIOUS
  <2> HIDE DEF t, p
  <2> QED BY <1>5, <2>1 DEF Reading
<1>7. Legible(q, n, j, FALSE)
  BY <1>3, <1>4
<1>8. Earlier(p, n + 1) = Append(Earlier(q, n), Current(q, n, j, FALSE))
  <2> HIDE DEF p
  <2>1. p = PutInto(q, n, "value", j, NUL)
    BY DEF p
  <2> QED BY <1>7, <2>1, ValueReads
<1>9. Complete(v) = Earlier(p, n + 1)
  BY <1>6 DEF Complete
<1>10. Current(q, n, j, FALSE) = Begun(u)
  BY <1>2, <1>4, Zenon
<1>11. v.query_count \in Nat
  BY <1>3, <1>6
<1> QED BY <1>2, <1>8, <1>9, <1>10, <1>11

(* The parameters that are complete after i characters, and the beginning  *)
(* of the next one.                                                        *)
Parsing(s, P, R) ==
  /\ \A i \in Question(s)..Len(s) : P[i] \in Seq(Seq(Letter)) /\ R[i] \in Seq(Letter)
  /\ P[Question(s)] = << >> /\ R[Question(s)] = << >>
  /\ \A i \in Question(s)..Len(s)-1 :
       IF s[i + 1] = "&" THEN P[i + 1] = Append(P[i], R[i]) /\ R[i + 1] = << >>
       ELSE P[i + 1] = P[i] /\ R[i + 1] = Append(R[i], s[i + 1])

LEMMA WalksTo ==
  ASSUME NEW s, Fitting(s), NEW f, Splits(f, s)
  PROVE  f[Question(s)] = Reading(SubSeq(s, 1, Question(s) - 1), NoQueries, 0, 0, TRUE)
<1> DEFINE w == Question(s)
           T == {i \in 0..w-1 : f[i] = Walking(SubSeq(s, 1, i))}
<1>1. /\ s \in Seq(Letter) /\ w \in 1..Len(s) /\ Len(s) \in Nat /\ s[w] = "?"
      /\ \A k \in 1..w-1 : s[k] # "?"
      /\ w - 1 \in Nat /\ 0 \in 0..w-1 /\ w - 1 \in 0..w-1
  BY QuestionIs DEF Fitting
<1>2. f[0] = init_url /\ \A i \in 1..Len(s) : f[i] = split_char(f[i-1], s[i])
  BY DEF Splits
<1>3. /\ SubSeq(s, 1, 0) = << >>
      /\ \A k \in 0..Len(s)-1 : SubSeq(s, 1, k + 1) = Append(SubSeq(s, 1, k), s[k + 1])
  BY <1>1, ByAppending
<1> HIDE DEF w
<1>4. 0 \in T
  BY <1>1, <1>2, <1>3, Walks
<1>5. ASSUME NEW k \in 0..(w-1)-1, k \in T PROVE k + 1 \in T
  <2>1. /\ k + 1 \in 1..Len(s) /\ (k + 1) - 1 = k /\ k + 1 \in 0..w-1 /\ k \in 0..Len(s)-1
        /\ k + 1 \in 1..w-1
    BY <1>1
  <2>2. f[k + 1] = split_char(f[k], s[k + 1]) /\ s[k + 1] # "?"
    BY <1>1, <1>2, <2>1
  <2>3. f[k] = Walking(SubSeq(s, 1, k))
    BY <1>5
  <2>4. split_char(Walking(SubSeq(s, 1, k)), s[k + 1]) = Walking(Append(SubSeq(s, 1, k), s[k + 1]))
    BY <2>2, Walks
  <2>5. f[k + 1] = Walking(SubSeq(s, 1, k + 1))
    BY <1>3, <2>1, <2>2, <2>3, <2>4
  <2> QED BY <2>1, <2>5
<1>6. w - 1 \in T
  <2> HIDE DEF T
  <2>1. 0 \in Nat /\ w - 1 \in Nat
    BY <1>1
  <2>2. \A k \in 0..w-1 : k \in T
    BY <1>4, <1>5, <2>1, Induction
  <2> QED BY <1>1, <2>2
<1>7. f[w] = split_char(Walking(SubSeq(s, 1, w - 1)), "?")
  BY <1>1, <1>2, <1>6
<1> QED BY <1>7, Walks DEF w

LEMMA Parsed ==
  ASSUME NEW s, Fitting(s)
  PROVE  \E P, R : /\ Parsing(s, P, R)
                   /\ seperate_query(s).query_count \in Nat
                   /\ Complete(seperate_query(s)) = Append(P[Len(s)], R[Len(s)])
<1> DEFINE w == Question(s)
           n == Len(s)
           path_ == SubSeq(s, 1, w - 1)
<1>1. s \in Seq(Letter) /\ w \in 1..n /\ n \in Nat /\ w \in Nat /\ w \in w..n /\ n \in w..n
  BY QuestionIs DEF Fitting
<1>2. PICK f : Splits(f, s)
  BY <1>1, FoldSplit
<1>3. /\ \A i \in 1..n : f[i] = split_char(f[i-1], s[i])
      /\ FoldLeft(split_char, init_url, s) = f[n]
  BY <1>2 DEF Splits
<1>4. Here(s, w, path_, f[w]) /\ Complete(f[w]) = << >> /\ Begun(f[w]) = << >>
  BY <1>2, WalksTo, HereFirst
<1> HIDE DEF path_, w, n
<1>5. ASSUME NEW i \in w..n-1, Here(s, i, path_, f[i])
      PROVE  /\ Here(s, i + 1, path_, f[i + 1])
             /\ IF s[i + 1] = "&" THEN /\ Complete(f[i + 1]) = Append(Complete(f[i]), Begun(f[i]))
                                       /\ Begun(f[i + 1]) = << >>
                ELSE /\ Complete(f[i + 1]) = Complete(f[i])
                     /\ Begun(f[i + 1]) = Append(Begun(f[i]), s[i + 1])
  <2>1. i + 1 \in 1..n /\ (i + 1) - 1 = i
    BY <1>1
  <2>2. f[i + 1] = split_char(f[i], s[i + 1])
    BY <1>3, <2>1
  <2>3. i \in Question(s)..Len(s)-1
    BY DEF w, n
  <2> QED BY <1>5, <2>2, <2>3, HereNext
<1>6. \A i \in w..n : Here(s, i, path_, f[i])
  <2> DEFINE T == {i \in w..n : Here(s, i, path_, f[i])}
  <2>1. w \in T
    BY <1>1, <1>4
  <2>2. ASSUME NEW i \in w..n-1, i \in T PROVE i + 1 \in T
    BY <1>1, <1>5, <2>2
  <2>3. \A i \in w..n : i \in T
    <3> HIDE DEF T
    <3> QED BY <1>1, <2>1, <2>2, Induction
  <2> QED BY <2>3
<1> DEFINE P == [i \in w..n |-> Complete(f[i])]
           R == [i \in w..n |-> Begun(f[i])]
<1>7. \A i \in w..n : Complete(f[i]) \in Seq(Seq(Letter)) /\ Begun(f[i]) \in Seq(Letter)
  <2> TAKE i \in w..n
  <2>1. Legible(f[i].queries, f[i].query_count, f[i].j, f[i].qeury_name)
    BY <1>6 DEF Here, At
  <2>2. Complete(f[i]) \in Seq(Seq(Letter))
    BY <2>1 DEF Complete, Legible
  <2>3. Begun(f[i]) \in Seq(Letter)
    BY <2>1, CurrentType DEF Begun
  <2> QED BY <2>2, <2>3
<1>8. Parsing(s, P, R)
  <2>1. /\ \A i \in w..n : P[i] \in Seq(Seq(Letter)) /\ R[i] \in Seq(Letter)
        /\ P[w] = << >> /\ R[w] = << >>
    BY <1>1, <1>4, <1>7
  <2>2. ASSUME NEW i \in w..n-1
        PROVE  IF s[i + 1] = "&" THEN P[i + 1] = Append(P[i], R[i]) /\ R[i + 1] = << >>
               ELSE P[i + 1] = P[i] /\ R[i + 1] = Append(R[i], s[i + 1])
    <3>1. i \in w..n /\ i + 1 \in w..n
      BY <1>1
    <3>2. /\ P[i] = Complete(f[i]) /\ R[i] = Begun(f[i])
          /\ P[i + 1] = Complete(f[i + 1]) /\ R[i + 1] = Begun(f[i + 1])
      BY <3>1
    <3>3. Here(s, i, path_, f[i])
      BY <1>6, <3>1
    <3> HIDE DEF P, R
    <3> QED BY <1>5, <3>2, <3>3
  <2> HIDE DEF P, R
  <2> QED BY <2>1, <2>2 DEF Parsing, w, n
<1>9. /\ seperate_query(s).query_count \in Nat
      /\ Complete(seperate_query(s)) = Append(Complete(f[n]), Begun(f[n]))
  <2> DEFINE u == f[n]
             v == [put(u, "value", NUL) EXCEPT !.query_count = @ + 1]
  <2>1. Here(s, n, path_, u)
    BY <1>1, <1>6
  <2>2. u.found
    <3> HIDE DEF u
    <3> QED BY <2>1 DEF Here, Reading
  <2>3. seperate_query(s) = v
    BY <1>3, <2>2 DEF seperate_query
  <2> HIDE DEF u
  <2>4. v = [put(u, "value", NUL) EXCEPT !.query_count = @ + 1]
    OBVIOUS
  <2> HIDE DEF v
  <2>5. v.query_count \in Nat /\ Complete(v) = Append(Complete(u), Begun(u))
    BY <2>1, <2>4, HereLast DEF n
  <2> QED BY <2>3, <2>5 DEF u
<1>10. P[n] = Complete(f[n]) /\ R[n] = Begun(f[n])
  BY <1>1
<1> HIDE DEF P, R
<1> QED BY <1>8, <1>9, <1>10 DEF n
-----------------------------------------------------------------------------
(* Putting the URL together again. *)
Sign == Letter \cup {"&"}

Mark(params) == IF params = << >> THEN "?" ELSE "&"

Marked(params) == [k \in 1..Len(params) |-> <<IF k = 1 THEN "?" ELSE "&">> \o params[k]]

Together(front, params) == front \o FlattenSeq(Marked(params))

LEMMA MarkType ==
  ASSUME NEW params, NEW r \in Seq(Sign), NEW k
  PROVE  /\ Mark(params) \in Sign /\ <<Mark(params)>> \o r \in Seq(Sign)
         /\ <<IF k = 1 THEN "?" ELSE "&">> \o r \in Seq(Sign)
<1> DEFINE m == Mark(params)
           c == IF k = 1 THEN "?" ELSE "&"
<1>1. "?" \in Sign /\ "&" \in Sign
  BY DelimitersAreLetters DEF Sign
<1>2. m \in Sign /\ c \in Sign
  BY <1>1 DEF Mark
<1> HIDE DEF m, c
<1>3. <<m>> \in Seq(Sign) /\ <<c>> \in Seq(Sign)
  BY <1>2, OneType
<1>4. <<m>> \o r \in Seq(Sign) /\ <<c>> \o r \in Seq(Sign)
  BY <1>3, ConcatProperties
<1> QED BY <1>2, <1>4 DEF m, c

LEMMA MarkedType ==
  ASSUME NEW params \in Seq(Seq(Sign))
  PROVE  /\ Marked(params) \in Seq(Seq(Sign)) /\ Len(Marked(params)) = Len(params)
         /\ \A k \in 1..Len(params) :
              Marked(params)[k] = <<IF k = 1 THEN "?" ELSE "&">> \o params[k]
<1> DEFINE m == Marked(params)
           n == Len(params)
<1>1. n \in Nat /\ \A k \in 1..n : params[k] \in Seq(Sign)
  OBVIOUS
<1>2. m = [k \in 1..n |-> <<IF k = 1 THEN "?" ELSE "&">> \o params[k]]
  BY DEF Marked
<1>3. \A k \in 1..n : <<IF k = 1 THEN "?" ELSE "&">> \o params[k] \in Seq(Sign)
  BY <1>1, MarkType
<1> HIDE DEF m, n
<1>4. m \in Seq(Seq(Sign))
  BY <1>1, <1>2, <1>3, IsASeq
<1>5. DOMAIN m = 1..n /\ \A k \in 1..n : m[k] = <<IF k = 1 THEN "?" ELSE "&">> \o params[k]
  BY <1>2
<1>6. Len(m) = n
  BY <1>1, <1>4, <1>5
<1> QED BY <1>4, <1>5, <1>6 DEF m, n

LEMMA MarkedAppend ==
  ASSUME NEW params \in Seq(Seq(Sign)), NEW r \in Seq(Sign)
  PROVE  Marked(Append(params, r)) = Append(Marked(params), <<Mark(params)>> \o r)
<1> DEFINE n == Len(params)
           e == <<Mark(params)>> \o r
           ext == Append(params, r)
           a == Marked(ext)
           m == Marked(params)
           b == Append(m, e)
<1>1. n \in Nat /\ e \in Seq(Sign)
  <2>1. e \in Seq(Sign)
    BY MarkType
  <2> QED BY <2>1
<1>2. /\ ext \in Seq(Seq(Sign)) /\ Len(ext) = n + 1 /\ ext[n + 1] = r
      /\ \A k \in 1..n : ext[k] = params[k]
  BY AppendProperties
<1>3. /\ m \in Seq(Seq(Sign)) /\ Len(m) = n
      /\ \A k \in 1..n : m[k] = <<IF k = 1 THEN "?" ELSE "&">> \o params[k]
  BY MarkedType
<1>9. n = 0 <=> params = << >>
  BY EmptySeq
<1>10. e = <<IF n + 1 = 1 THEN "?" ELSE "&">> \o r
  BY <1>1, <1>9 DEF Mark
<1> HIDE DEF e, ext, n
<1>4. /\ a \in Seq(Seq(Sign)) /\ Len(a) = n + 1
      /\ \A k \in 1..n+1 : a[k] = <<IF k = 1 THEN "?" ELSE "&">> \o ext[k]
  <2>1. /\ a \in Seq(Seq(Sign)) /\ Len(a) = Len(ext)
        /\ \A k \in 1..Len(ext) : a[k] = <<IF k = 1 THEN "?" ELSE "&">> \o ext[k]
    BY <1>2, MarkedType
  <2> QED BY <1>2, <2>1
<1> HIDE DEF a, m
<1>5. b \in Seq(Seq(Sign)) /\ Len(b) = n + 1 /\ b[n + 1] = e /\ \A k \in 1..n : b[k] = m[k]
  <2>1. m \in Seq(Seq(Sign)) /\ Len(m) = n
    BY <1>3
  <2> QED BY <1>1, <2>1, AppendProperties
<1> HIDE DEF b
<1>6. ASSUME NEW k \in 1..n+1 PROVE a[k] = b[k]
  <2>1. CASE k = n + 1
    <3>1. a[n + 1] = <<IF n + 1 = 1 THEN "?" ELSE "&">> \o r
      BY <1>1, <1>2, <1>4
    <3> QED BY <1>5, <1>10, <2>1, <3>1
  <2>2. CASE k # n + 1
    <3>1. k \in 1..n
      BY <1>1, <2>2
    <3>2. a[k] = <<IF k = 1 THEN "?" ELSE "&">> \o params[k]
      BY <1>2, <1>4, <3>1
    <3> QED BY <1>3, <1>5, <3>1, <3>2
  <2> QED BY <2>1, <2>2
<1>7. a = b
  <2>1. Len(a) = Len(b) /\ \A k \in 1..Len(a) : a[k] = b[k]
    BY <1>4, <1>5, <1>6
  <2> QED BY <1>4, <1>5, <2>1, SeqEqual
<1> QED BY <1>7 DEF a, b, m, ext, e

LEMMA TogetherAppend ==
  ASSUME NEW front \in Seq(Sign), NEW params \in Seq(Seq(Sign)), NEW r \in Seq(Sign)
  PROVE  /\ Together(front, params) \in Seq(Sign)
         /\ Together(front, Append(params, r)) = Together(front, params) \o (<<Mark(params)>> \o r)
<1> DEFINE m == Marked(params)
           e == <<Mark(params)>> \o r
           t == FlattenSeq(m)
<1>1. m \in Seq(Seq(Sign)) /\ e \in Seq(Sign)
  BY MarkedType, MarkType
<1>2. Marked(Append(params, r)) = Append(m, e)
  BY MarkedAppend
<1> HIDE DEF m, e
<1>3. t \in Seq(Sign)
  BY <1>1, FlattenType
<1>4. FlattenSeq(Append(m, e)) = t \o e
  BY <1>1, FlattenAppend
<1> HIDE DEF t
<1>5. front \o t \in Seq(Sign)
  BY <1>3, ConcatProperties
<1>6. (front \o t) \o e = front \o (t \o e)
  <2>1. Associates(front, t, e)
    BY <1>1, <1>3, ConcatAgain
  <2> QED BY <2>1 DEF Associates
<1>7. Together(front, Append(params, r)) = front \o (t \o e)
  BY <1>2, <1>4 DEF Together
<1>8. Together(front, params) = front \o t
  BY DEF Together, t, m
<1> QED BY <1>5, <1>6, <1>7, <1>8 DEF e

(* Another character at the end of the last parameter. *)
LEMMA TogetherLonger ==
  ASSUME NEW front \in Seq(Sign), NEW params \in Seq(Seq(Sign)), NEW r \in Seq(Sign), NEW ch \in Sign
  PROVE  Together(front, Append(params, Append(r, ch))) = Append(Together(front, Append(params, r)), ch)
<1> DEFINE t == Together(front, params)
           m == <<Mark(params)>>
<1>1. t \in Seq(Sign) /\ m \in Seq(Sign) /\ m \o r \in Seq(Sign) /\ Append(r, ch) \in Seq(Sign)
  BY TogetherAppend, MarkType, OneType, AppendProperties
<1>2. /\ Together(front, Append(params, r)) = t \o (m \o r)
      /\ Together(front, Append(params, Append(r, ch))) = t \o (m \o Append(r, ch))
  BY <1>1, TogetherAppend
<1> HIDE DEF t, m
<1>3. m \o Append(r, ch) = Append(m \o r, ch)
  BY <1>1, ConcatAppend
<1>4. t \o Append(m \o r, ch) = Append(t \o (m \o r), ch)
  BY <1>1, ConcatAppend
<1> QED BY <1>2, <1>3, <1>4

LEMMA TogetherAgain ==
  ASSUME NEW s, Fitting(s), NEW P, NEW R, Parsing(s, P, R)
  PROVE  Together(Before(s), Append(P[Len(s)], R[Len(s)])) = s
<1> DEFINE w == Question(s)
           n == Len(s)
           front == Before(s)
           whole(i) == Together(front, Append(P[i], R[i]))
           T == {i \in w..n : whole(i) = SubSeq(s, 1, i)}
<1>1. /\ s \in Seq(Letter) /\ w \in 1..n /\ n \in Nat /\ w \in Nat /\ s[w] = "?"
      /\ w \in w..n /\ n \in w..n /\ w - 1 \in 0..n-1 /\ (w - 1) + 1 = w
  BY QuestionIs DEF Fitting
<1>2. Letter \subseteq Sign /\ "&" \in Sign /\ "?" \in Sign /\ << >> \in Seq(Sign) /\ << >> \in Seq(Seq(Sign))
  BY DelimitersAreLetters, EmptySeq DEF Sign
<1>3. Seq(Letter) \subseteq Seq(Sign) /\ Seq(Seq(Letter)) \subseteq Seq(Seq(Sign))
  BY <1>2, SeqMonotone
<1>4. /\ SubSeq(s, 1, n) = s
      /\ \A k \in 0..n : SubSeq(s, 1, k) \in Seq(Letter)
      /\ \A k \in 0..n-1 : /\ s[k + 1] \in Letter
                           /\ SubSeq(s, 1, k + 1) = Append(SubSeq(s, 1, k), s[k + 1])
  BY <1>1, ByAppending
<1>5. front = SubSeq(s, 1, w - 1) /\ front \in Seq(Sign)
  <2>1. front = SubSeq(s, 1, w - 1)
    BY <1>1 DEF Before
  <2>2. front \in Seq(Letter)
    BY <1>1, <1>4, <2>1
  <2> QED BY <1>3, <2>1, <2>2
<1>6. /\ \A i \in w..n : P[i] \in Seq(Seq(Sign)) /\ R[i] \in Seq(Sign)
      /\ P[w] = << >> /\ R[w] = << >>
      /\ \A i \in w..n-1 :
           IF s[i + 1] = "&" THEN P[i + 1] = Append(P[i], R[i]) /\ R[i + 1] = << >>
           ELSE P[i + 1] = P[i] /\ R[i + 1] = Append(R[i], s[i + 1])
  BY <1>3 DEF Parsing
<1> HIDE DEF w, n, front
<1>7. w \in T
  <2> DEFINE none == << >>
             rest == << >>
  <2>1. none \in Seq(Seq(Sign)) /\ rest \in Seq(Sign)
    BY <1>2
  <2>2. Mark(none) = "?" /\ Marked(none) = << >>
    BY DEF Mark, Marked
  <2>3. Together(front, none) = front
    BY <1>5, <2>2, FlattenEmpty, ConcatEmptySeq DEF Together
  <2>4. whole(w) = Together(front, Append(none, rest))
    BY <1>6
  <2> HIDE DEF none
  <2>5. whole(w) = front \o (<<"?">> \o rest)
    <3> HIDE DEF rest, whole
    <3>1. Together(front, Append(none, rest)) = Together(front, none) \o (<<Mark(none)>> \o rest)
      BY <1>5, <2>1, TogetherAppend
    <3> QED BY <2>2, <2>3, <2>4, <3>1
  <2>6. <<"?">> \in Seq(Sign) /\ <<"?">> \o rest = <<"?">>
    <3>1. <<"?">> \in Seq(Sign)
      BY <1>3, DelimitersAreLetters
    <3> QED BY <3>1, ConcatEmptySeq
  <2>7. front \o <<"?">> = Append(front, "?")
    BY <1>2, <1>5, AppendIsConcat
  <2>8. whole(w) = Append(front, "?")
    BY <2>5, <2>6, <2>7
  <2>9. SubSeq(s, 1, w) = Append(front, "?")
    BY <1>1, <1>4, <1>5
  <2> HIDE DEF whole
  <2> QED BY <1>1, <2>8, <2>9
<1>8. ASSUME NEW i \in w..n-1, i \in T PROVE i + 1 \in T
  <2> DEFINE ch == s[i + 1]
             p == P[i]
             r == R[i]
  <2>1. i \in w..n /\ i + 1 \in w..n /\ i \in 0..n-1
    BY <1>1
  <2>2. p \in Seq(Seq(Sign)) /\ r \in Seq(Sign) /\ ch \in Sign
    BY <1>2, <1>4, <1>6, <2>1
  <2>3. Together(front, Append(p, r)) = SubSeq(s, 1, i)
    BY <1>8
  <2>4. SubSeq(s, 1, i + 1) = Append(SubSeq(s, 1, i), ch)
    BY <1>4, <2>1
  <2>5. IF ch = "&" THEN P[i + 1] = Append(p, r) /\ R[i + 1] = << >>
        ELSE P[i + 1] = p /\ R[i + 1] = Append(r, ch)
    BY <1>6
  <2> HIDE DEF ch, p, r
  <2>6. whole(i + 1) = Append(SubSeq(s, 1, i), ch)
    <3>1. CASE ch # "&"
      <4>1. Together(front, Append(p, Append(r, ch))) = Append(Together(front, Append(p, r)), ch)
        BY <1>5, <2>2, TogetherLonger
      <4> QED BY <2>3, <2>5, <3>1, <4>1
    <3>2. CASE ch = "&"
      <4> DEFINE q == Append(p, r)
                 none == << >>
      <4>1. q \in Seq(Seq(Sign)) /\ q # << >> /\ none \in Seq(Sign)
        BY <1>2, <2>2, AppendProperties, EmptySeq
      <4>2. Together(front, q) = SubSeq(s, 1, i) /\ Together(front, q) \in Seq(Sign)
        <5>1. Together(front, q) = SubSeq(s, 1, i)
          BY <2>3
        <5> HIDE DEF q
        <5> QED BY <1>5, <4>1, <5>1, TogetherAppend
      <4>3. whole(i + 1) = Together(front, Append(q, none))
        BY <2>5, <3>2
      <4> HIDE DEF q, whole
      <4>4. Together(front, Append(q, none)) = Together(front, q) \o (<<Mark(q)>> \o none)
        <5> HIDE DEF none
        <5> QED BY <1>5, <4>1, TogetherAppend
      <4>5. Mark(q) = ch
        BY <3>2, <4>1 DEF Mark
      <4>6. <<ch>> \in Seq(Sign) /\ <<ch>> \o none = <<ch>>
        <5>1. <<ch>> \in Seq(Sign)
          BY <2>2, OneType
        <5> QED BY <5>1, ConcatEmptySeq
      <4> DEFINE t == Together(front, q)
      <4>7. t \o <<ch>> = Append(t, ch)
        <5>1. t \in Seq(Sign)
          BY <4>2
        <5> HIDE DEF t
        <5> QED BY <2>2, <5>1, AppendIsConcat
      <4>8. Together(front, Append(q, none)) = t \o <<ch>>
        BY <4>4, <4>5, <4>6
      <4> QED BY <4>2, <4>3, <4>7, <4>8
    <3> QED BY <3>1, <3>2
  <2> HIDE DEF whole
  <2> QED BY <2>1, <2>4, <2>6 DEF T
<1>9. n \in T
  <2> HIDE DEF T
  <2>1. \A i \in w..n : i \in T
    BY <1>1, <1>7, <1>8, Induction
  <2> QED BY <1>1, <2>1
<1> QED BY <1>4, <1>9 DEF n, front

(* seperate_query and Render are inverse to each other. *)
LEMMA RoundTrip ==
  ASSUME NEW s \in Seq(Letter), WellFormed(s), Len(s) <= MaxSize, Len(s) <= 2 * MaxQueries
  PROVE  Render(seperate_query(s)) = s
<1> DEFINE u == seperate_query(s)
           n == u.query_count
           params == [k \in 1..n |-> <<IF k = 1 THEN "?" ELSE "&">> \o Parameter(u.queries[k - 1])]
<1>1. u.path = Before(s)
  BY PathIs
<1>2. Render(u) = u.path \o FlattenSeq(params)
  BY DEF Render
<1>3. CASE Question(s) = 0
  <2>1. n = 0
    <3>1. PICK f : Splits(f, s)
      BY FoldSplit
    <3>2. /\ f[0] = init_url /\ \A i \in 1..Len(s) : f[i] = split_char(f[i-1], s[i])
          /\ FoldLeft(split_char, init_url, s) = f[Len(s)]
      BY <3>1 DEF Splits
    <3>3. /\ SubSeq(s, 1, 0) = << >> /\ Len(s) \in Nat
          /\ \A k \in 0..Len(s)-1 : SubSeq(s, 1, k + 1) = Append(SubSeq(s, 1, k), s[k + 1])
          /\ \A k \in 1..Len(s) : s[k] # "?"
      BY <1>3, ByAppending, QuestionIs
    <3> DEFINE T == {i \in 0..Len(s) : f[i] = Walking(SubSeq(s, 1, i))}
    <3>4. 0 \in T
      <4>1. f[0] = Walking(<< >>)
        BY <3>2, Walks
      <4> DEFINE front == SubSeq(s, 1, 0)
      <4>2. front = << >> /\ 0 \in 0..Len(s)
        BY <3>3
      <4>3. f[0] = Walking(front)
        <5> HIDE DEF front
        <5> QED BY <4>1, <4>2
      <4> QED BY <4>2, <4>3, Zenon
    <3>5. ASSUME NEW k \in 0..Len(s)-1, k \in T PROVE k + 1 \in T
      <4>1. k + 1 \in 1..Len(s) /\ k + 1 \in 0..Len(s) /\ (k + 1) - 1 = k
        BY <3>3
      <4>2. f[k + 1] = split_char(f[k], s[k + 1]) /\ s[k + 1] # "?"
        BY <3>2, <3>3, <4>1
      <4>3. f[k] = Walking(SubSeq(s, 1, k))
        BY <3>5
      <4>4. split_char(Walking(SubSeq(s, 1, k)), s[k + 1])
              = Walking(Append(SubSeq(s, 1, k), s[k + 1]))
        BY <4>2, Walks
      <4>6. SubSeq(s, 1, k + 1) = Append(SubSeq(s, 1, k), s[k + 1])
        BY <3>3
      <4>5. f[k + 1] = Walking(SubSeq(s, 1, k + 1))
        BY <4>2, <4>3, <4>4, <4>6
      <4> QED BY <4>1, <4>5
    <3>6. Len(s) \in T
      <4> HIDE DEF T
      <4>1. \A i \in 0..Len(s) : i \in T
        BY <3>3, <3>4, <3>5, Induction
      <4> QED BY <3>3, <4>1
    <3> DEFINE l == f[Len(s)]
    <3>7. l.found = FALSE /\ l.query_count = 0
      BY <3>6 DEF Walking
    <3>8. seperate_query(s) = l
      <4> HIDE DEF l
      <4>1. FoldLeft(split_char, init_url, s) = l
        BY <3>2 DEF l
      <4> QED BY <3>7, <4>1 DEF seperate_query
    <3> QED BY <3>7, <3>8
  <2>2. params = << >>
    BY <2>1
  <2>3. Before(s) = s
    BY <1>3 DEF Before
  <2> QED BY <1>1, <1>2, <2>2, <2>3, FlattenEmpty, ConcatEmptySeq
<1>4. CASE Question(s) # 0
  <2>1. Fitting(s)
    BY <1>4 DEF Fitting
  <2>2. PICK P, R : /\ Parsing(s, P, R)
                    /\ seperate_query(s).query_count \in Nat
                    /\ Complete(seperate_query(s)) = Append(P[Len(s)], R[Len(s)])
    BY <2>1, Parsed
  <2>3. Together(Before(s), Complete(u)) = s
    BY <2>1, <2>2, TogetherAgain
  <2>4. params = Marked(Complete(u))
    <3> DEFINE c == Complete(u)
    <3>1. n \in Nat /\ c = [k \in 1..n |-> Parameter(u.queries[k - 1])]
      BY <2>2 DEF Complete, Earlier
    <3>2. Len(c) = n /\ \A k \in 1..n : c[k] = Parameter(u.queries[k - 1])
      BY <3>1
    <3> HIDE DEF c
    <3>3. params = Marked(c)
      BY <3>2 DEF Marked
    <3> QED BY <3>3 DEF c
  <2> QED BY <1>1, <1>2, <2>3, <2>4 DEF Together
<1> QED BY <1>3, <1>4
-----------------------------------------------------------------------------
(* How long a decoded URL is. *)
LEMMA DecodeType ==
  ASSUME NEW u \in Seq(Letter)
  PROVE  decode_url(u) \in Decoded_t
<1>1. PICK f : Decodes(f, u)
  BY DecodeFrom
<1>2. f \in [1..Len(u)+1 -> Decoded_t] /\ decode_url(u) = f[1] /\ 1 \in 1..Len(u)+1
  BY <1>1 DEF Decodes
<1> QED BY <1>2

LEMMA PrependLength ==
  ASSUME NEW ch \in Letter, NEW rest \in Decoded_t
  PROVE  /\ Len(Prepend(ch, rest).url) \in Nat /\ Len(rest.url) \in Nat
         /\ Len(Prepend(ch, rest).url) <= Len(rest.url) + 1
<1>1. rest.url \in Seq(Letter) /\ <<ch>> \in Seq(Letter)
  BY DEF Decoded_t
<1>2. Len(<<ch>> \o rest.url) = 1 + Len(rest.url) /\ Len(rest.url) \in Nat
  BY <1>1, ConcatProperties
<1> QED BY <1>2 DEF Prepend, Decoded

LEMMA NothingDecoded == decode_url(<< >>) = Decoded(<< >>)
<1>1. PICK f : Decodes(f, << >>)
  BY EmptySeq, DecodeFrom
<1> QED BY <1>1, EmptySeq DEF Decodes

(* The last three characters are no escape for the decoder. *)
LEMMA EscapeAlone ==
  ASSUME NEW t \in Seq(Letter), Len(t) = 3
  PROVE  Len(decode_url(t).url) <= 3 /\ Len(decode_url(t).url) \in Nat
<1>1. PICK f : Decodes(f, t)
  BY DecodeFrom
<1>2. /\ \A i \in 1..4 : f[i] \in Decoded_t
      /\ f[4] = Decoded(<< >>) /\ decode_url(t) = f[1]
      /\ \A i \in 1..3 : f[i] = Rest(t, f, i)
  BY <1>1 DEF Decodes
<1> DEFINE long(i) == Len(f[i].url)
<1>3. ASSUME NEW i \in 1..3
      PROVE  long(i) \in Nat /\ long(i + 1) \in Nat /\ long(i) <= long(i + 1) + 1
  <2>1. f[i] = Prepend(t[i], f[i + 1])
    BY <1>2 DEF Rest, escape_fits
  <2>2. t[i] \in Letter /\ f[i + 1] \in Decoded_t
    <3>1. i \in 1..Len(t) /\ i + 1 \in 1..4
      OBVIOUS
    <3> QED BY <1>2, <3>1, ElementOfSeq
  <2> QED BY <2>1, <2>2, PrependLength
<1>4. long(4) = 0 /\ Len(decode_url(t).url) = long(1)
  BY <1>2, EmptySeq DEF Decoded
<1> HIDE DEF long
<1>5. /\ long(1) \in Nat /\ long(2) \in Nat /\ long(3) \in Nat
      /\ long(1) <= long(2) + 1 /\ long(2) <= long(3) + 1 /\ long(3) <= long(4) + 1
  BY <1>3
<1> QED BY <1>4, <1>5

(* Only an escape at the end counts as more than one character. *)
LEMMA DecodedLength ==
  ASSUME NEW ts \in Seq(Token_t)
  PROVE  IF ts = << >> THEN Len(decode_url(FlattenSeq(ts)).url) = 0
         ELSE Len(decode_url(FlattenSeq(ts)).url) <= Len(ts) + 2
<1> DEFINE long(s) == Len(decode_url(FlattenSeq(s)).url)
           T == {s \in Seq(Token_t) : IF s = << >> THEN long(s) = 0 ELSE long(s) <= Len(s) + 2}
<1>1. << >> \in T
  BY NothingDecoded, FlattenEmpty, EmptySeq DEF Decoded
<1>2. ASSUME NEW s \in Seq(Token_t), NEW t \in Token_t, s \in T PROVE <<t>> \o s \in T
  <2> DEFINE ext == <<t>> \o s
             flat == FlattenSeq(s)
             rest == decode_url(flat)
  <2>1. /\ t \in Seq(Letter) /\ s \in Seq(Seq(Letter)) /\ flat \in Seq(Letter)
        /\ <<t>> \in Seq(Seq(Letter)) /\ ext \in Seq(Token_t)
    <3>1. t \in Seq(Letter) /\ s \in Seq(Seq(Letter))
      BY DEF Token_t
    <3> QED BY <3>1, FlattenType, ConcatProperties
  <2>2. FlattenSeq(ext) = t \o flat
    <3>1. FlattenSeq(ext) = FlattenSeq(<<t>>) \o FlattenSeq(s)
      BY <2>1, FlattenConcat
    <3>2. FlattenSeq(<<t>>) = t
      BY <2>1, FlattenOne
    <3> QED BY <3>1, <3>2
  <2>3. Len(ext) = Len(s) + 1 /\ Len(s) \in Nat /\ ext # << >>
    BY ConcatProperties, EmptySeq
  <2>4. rest \in Decoded_t /\ Len(rest.url) \in Nat
    <3>1. rest \in Decoded_t
      BY <2>1, DecodeType
    <3>2. rest.url \in Seq(Letter)
      BY <3>1 DEF Decoded_t
    <3> QED BY <3>1, <3>2
  <2>5. IF s = << >> THEN Len(rest.url) = 0 ELSE Len(rest.url) <= Len(s) + 2
    BY <1>2
  <2>6. s = << >> => flat = << >> /\ Len(s) = 0
    BY FlattenEmpty, EmptySeq
  <2>7. s # << >> => flat # << >>
    <3> SUFFICES ASSUME s # << >> PROVE flat # << >>
      OBVIOUS
    <3>1. 1 \in 1..Len(s) /\ s[1] \in Token_t
      BY EmptySeq
    <3>2. Len(s[1]) <= Len(flat) /\ Len(s[1]) >= 1
      BY <2>1, <3>1, FlattenLength DEF Token_t
    <3> QED BY <3>2
  <2> HIDE DEF ext, flat
  <2>8. CASE Len(t) = 1
    <3>1. t[1] # "%" /\ t[1] \in Letter
      <4>1. 1 \in 1..Len(t) /\ Len(t) # 3
        BY <2>8
      <4> QED BY <2>1, <4>1 DEF Token_t
    <3>2. decode_url(t \o flat) = Prepend(t[1], rest)
      BY <2>1, <2>8, <3>1, DecodeCharacter
    <3> HIDE DEF rest
    <3>3. Len(Prepend(t[1], rest).url) <= Len(rest.url) + 1 /\ Len(Prepend(t[1], rest).url) \in Nat
      BY <2>4, <3>1, PrependLength
    <3>4. long(ext) <= Len(ext) + 2
      BY <2>2, <2>3, <2>4, <2>5, <2>6, <3>2, <3>3
    <3> QED BY <2>1, <2>3, <3>4 DEF ext
  <2>9. CASE Len(t) = 3 /\ s = << >>
    <3>1. t \o flat = t
      BY <2>1, <2>6, <2>9, ConcatEmptySeq
    <3>2. long(ext) <= Len(ext) + 2
      <4>1. long(ext) <= 3 /\ long(ext) \in Nat
        <5>1. decode_url(FlattenSeq(ext)) = decode_url(t)
          BY <2>2, <3>1
        <5> QED BY <2>1, <2>9, <5>1, EscapeAlone
      <4>2. Len(ext) + 2 = 3
        BY <2>3, <2>6, <2>9
      <4> HIDE DEF long
      <4> QED BY <4>1, <4>2
    <3> QED BY <2>1, <2>3, <3>2 DEF ext
  <2>10. CASE Len(t) = 3 /\ s # << >>
    <3> DEFINE c == unescape(t[2], t[3])
    <3>1. t[1] = "%"
      <4>1. Len(t) # 1
        BY <2>10
      <4> QED BY <4>1 DEF Token_t
    <3>2. decode_url(t \o flat) = IF c = NUL THEN Undecodable ELSE Prepend(c, rest)
      <4>1. t \in Seq(Letter) /\ flat \in Seq(Letter) /\ Len(t) = 3 /\ flat # << >>
        BY <2>1, <2>7, <2>10
      <4>2. decode_url(t \o flat) = IF unescape(t[2], t[3]) = NUL THEN Undecodable
                                    ELSE Prepend(unescape(t[2], t[3]), decode_url(flat))
        BY <3>1, <4>1, DecodeEscape
      <4> QED BY <4>2
    <3>3. c = NUL \/ c \in Letter
      BY UnescapeType DEF Char
    <3> HIDE DEF rest, c
    <3>4. c \in Letter => /\ Len(Prepend(c, rest).url) <= Len(rest.url) + 1
                          /\ Len(Prepend(c, rest).url) \in Nat
      BY <2>4, PrependLength
    <3>5. Len(Undecodable.url) = 0
      BY EmptySeq DEF Undecodable
    <3>6. long(ext) <= Len(ext) + 2
      BY <2>2, <2>3, <2>4, <2>5, <2>10, <3>2, <3>3, <3>4, <3>5
    <3> QED BY <2>1, <2>3, <3>6 DEF ext
  <2> QED BY <2>8, <2>9, <2>10 DEF Token_t
<1>3. ts \in T
  <2> HIDE DEF T
  <2> QED BY <1>1, <1>2, SequenceInductionBackwards
<1> QED BY <1>3

(* A decoded URL fits url_t's buffers and its array. *)
LEMMA UrlFits ==
  ASSUME InputInv
  PROVE  /\ tokens \in Seq(Token_t) /\ raw \in Seq(Letter)
         /\ decode_url(raw).url \in Seq(Letter)
         /\ Len(decode_url(raw).url) <= MaxSize
         /\ Len(decode_url(raw).url) <= 2 * MaxQueries
<1>1. tokens = LastUrl(input)
  BY DEF tokens, LastUrl
<1>2. /\ tokens \in Seq(Token_t) /\ FlattenSeq(tokens) \in Seq(Letter)
      /\ tokens # << >> => Len(tokens) < MaxTokens
  BY <1>1, UrlBounds DEF InputInv
<1>3. raw \in Seq(Letter)
  BY <1>2 DEF raw
<1> DEFINE d == decode_url(raw).url
<1>4. d \in Seq(Letter)
  BY <1>3, DecodeType DEF Decoded_t
<1>5. IF tokens = << >> THEN Len(d) = 0 ELSE Len(d) <= Len(tokens) + 2
  BY <1>2, DecodedLength DEF raw
<1>6. Len(d) \in Nat /\ Len(tokens) \in Nat /\ (tokens # << >> => Len(tokens) >= 1)
  BY <1>2, <1>4, EmptySeq
<1> HIDE DEF d
<1>7. Len(d) <= MaxSize /\ Len(d) <= 2 * MaxQueries
  <2>1. MaxTokens \in Nat /\ MaxSize \in Nat /\ MaxQueries \in Nat
    BY SizeAssumption, BufferAssumption
  <2>2. MaxSize > 3 * MaxTokens /\ MaxQueries >= MaxTokens
    BY SizeAssumption
  <2>3. CASE tokens = << >>
    BY <1>5, <2>1, <2>3
  <2>4. CASE tokens # << >>
    BY <1>2, <1>5, <1>6, <2>1, <2>2, <2>4
  <2> QED BY <2>3, <2>4
<1> QED BY <1>2, <1>3, <1>4, <1>7 DEF d

(* In every state of the worker: from the path and the parameters that     *)
(* seperate_query (url.c) stores of a well-formed URL, whatever buffers    *)
(* they passed through, the decoded URL can be put together again.         *)
THEOREM QueriesMakeARoundTrip == Spec => []QueryRoundTrip
<1>1. Init => InputInv
  BY InputInit
<1>2. InputInv /\ [Next]_vars => InputInv'
  BY InputStep
<1>3. InputInv => QueryRoundTrip
  <2> SUFFICES ASSUME InputInv PROVE QueryRoundTrip
    OBVIOUS
  <2> DEFINE s == decode_url(raw).url
  <2>1. s \in Seq(Letter) /\ Len(s) <= MaxSize /\ Len(s) <= 2 * MaxQueries
    BY UrlFits
  <2>2. WellFormed(s) => Render(seperate_query(s)) = s
    <3> HIDE DEF s
    <3> QED BY <2>1, RoundTrip
  <2> QED BY <2>2 DEF QueryRoundTrip
<1> QED BY <1>1, <1>2, <1>3, PTL DEF Spec
-----------------------------------------------------------------------------
(* Where parameters begin: behind the "?" and behind every "&" that follows. *)
Cuts(s) == {k \in Question(s)..Len(s) : k = Question(s) \/ s[k] = "&"}

Upto(K, i) == {c \in K : c <= i}
Under(K, a) == {c \in K : c < a}

LEMMA SubSeqLonger ==
  ASSUME NEW S, NEW s \in Seq(S), NEW a \in 1..Len(s), NEW i \in a..Len(s)-1
  PROVE  SubSeq(s, a + 1, i + 1) = Append(SubSeq(s, a + 1, i), s[i + 1])
<1> DEFINE t == SubSeq(s, a + 1, i)
           u == SubSeq(s, a + 1, i + 1)
<1>1. /\ a \in Nat /\ i \in Nat /\ Len(s) \in Nat /\ i - a \in Nat /\ i + 1 <= Len(s)
      /\ s[i + 1] \in S
  BY ElementOfSeq
<1>2. /\ t \in Seq(S) /\ Len(t) = i - a
      /\ \A k \in 1..i-a : t[k] = s[a + k]
  BY <1>1
<1>3. /\ u \in Seq(S) /\ Len(u) = (i - a) + 1
      /\ \A k \in 1..(i-a)+1 : u[k] = s[a + k]
  BY <1>1
<1> HIDE DEF t, u
<1> DEFINE v == Append(t, s[i + 1])
<1>4. /\ v \in Seq(S) /\ Len(v) = (i - a) + 1 /\ v[(i - a) + 1] = s[i + 1]
      /\ \A k \in 1..i-a : v[k] = t[k]
  <2>1. t \in Seq(S) /\ s[i + 1] \in S
    BY <1>1, <1>2
  <2>2. /\ v \in Seq(S) /\ Len(v) = Len(t) + 1 /\ v[Len(t) + 1] = s[i + 1]
        /\ \A k \in 1..Len(t) : v[k] = t[k]
    BY <2>1, AppendProperties
  <2>3. Len(t) = i - a
    BY <1>2
  <2> HIDE DEF v
  <2> QED BY <2>2, <2>3
<1> HIDE DEF v
<1>5. ASSUME NEW k \in 1..(i-a)+1 PROVE u[k] = v[k]
  <2>1. CASE k = (i - a) + 1
    <3>1. a + k = i + 1
      BY <1>1, <2>1
    <3> QED BY <1>3, <1>4, <2>1, <3>1
  <2>2. CASE k # (i - a) + 1
    <3>1. k \in 1..i-a
      BY <1>1, <2>2
    <3> QED BY <1>2, <1>3, <1>4, <3>1
  <2> QED BY <2>1, <2>2
<1>6. u = v
  BY <1>3, <1>4, <1>5, SeqEqual
<1> QED BY <1>6 DEF u, v, t

LEMMA CutsFinite ==
  ASSUME NEW K, NEW n \in Nat, K \subseteq 1..n
  PROVE  /\ IsFiniteSet(K) /\ Cardinality(K) \in Nat
         /\ \A i : /\ IsFiniteSet(Upto(K, i)) /\ Cardinality(Upto(K, i)) \in Nat
                   /\ IsFiniteSet(Under(K, i)) /\ Cardinality(Under(K, i)) \in Nat
<1>1. IsFiniteSet(1..n)
  BY FS_Interval
<1>2. ASSUME NEW T, T \subseteq K PROVE IsFiniteSet(T) /\ Cardinality(T) \in Nat
  <2>1. T \in SUBSET (1..n)
    BY <1>2
  <2>2. IsFiniteSet(T)
    BY <1>1, <2>1, FS_Subset
  <2> QED BY <2>2, FS_CardinalityType
<1>3. \A i : Upto(K, i) \subseteq K /\ Under(K, i) \subseteq K
  BY DEF Upto, Under
<1> QED BY <1>2, <1>3

(* The cuts before a cut, and that cut. *)
LEMMA CutsCounted ==
  ASSUME NEW K, NEW n \in Nat, K \subseteq 1..n, NEW a, NEW i \in Int, LastOf(K, a, i)
  PROVE  Cardinality(Upto(K, i)) = Cardinality(Under(K, a)) + 1
<1>1. Upto(K, i) = Under(K, a) \cup {a}
  <2>1. a \in K /\ a <= i /\ \A c \in K : c <= a \/ i < c
    BY DEF LastOf
  <2>2. \A c \in K : c <= i <=> (c < a \/ c = a)
    <3> TAKE c \in K
    <3>1. c \in Int /\ a \in Int
      BY <2>1
    <3> QED BY <2>1, <3>1
  <2> QED BY <2>1, <2>2 DEF Upto, Under
<1>2. a \notin Under(K, a)
  <2>1. a \in Int
    BY DEF LastOf
  <2> QED BY <2>1 DEF Under
<1>3. IsFiniteSet(Under(K, a))
  BY CutsFinite
<1> QED BY <1>1, <1>2, <1>3, FS_AddElement

LEMMA CutAdded ==
  ASSUME NEW K, NEW n \in Nat, K \subseteq 1..n, NEW i \in Int
  PROVE  /\ i + 1 \in K => Cardinality(Upto(K, i + 1)) = Cardinality(Upto(K, i)) + 1
         /\ i + 1 \notin K => Cardinality(Upto(K, i + 1)) = Cardinality(Upto(K, i))
<1>1. IsFiniteSet(Upto(K, i))
  BY CutsFinite
<1>2. i + 1 \notin Upto(K, i)
  BY DEF Upto
<1>3. \A c \in K : c <= i + 1 <=> (c <= i \/ c = i + 1)
  OBVIOUS
<1>4. Upto(K, i + 1) = IF i + 1 \in K THEN Upto(K, i) \cup {i + 1} ELSE Upto(K, i)
  BY <1>3 DEF Upto
<1> QED BY <1>1, <1>2, <1>4, FS_AddElement

(* The parameters read up to i are the stretches between the cuts. *)
Stretched(s, P, R, i) ==
  LET K == Cuts(s) IN
  /\ Len(P[i]) + 1 = Cardinality(Upto(K, i))
  /\ \A a : LastOf(K, a, i) => R[i] = SubSeq(s, a + 1, i)
  /\ \A a, b \in K : Adjacent(K, a, b) /\ b <= i =>
       /\ Cardinality(Under(K, a)) + 1 \in 1..Len(P[i])
       /\ P[i][Cardinality(Under(K, a)) + 1] = SubSeq(s, a + 1, b - 1)

LEMMA StretchedAtFirst ==
  ASSUME NEW s, Fitting(s), NEW P, NEW R, Parsing(s, P, R)
  PROVE  Stretched(s, P, R, Question(s))
<1> DEFINE w == Question(s)
           n == Len(s)
           K == Cuts(s)
<1>1. /\ s \in Seq(Letter) /\ w \in 1..n /\ n \in Nat /\ w \in Nat
  BY QuestionIs DEF Fitting
<1>2. P[w] = << >> /\ R[w] = << >>
  BY DEF Parsing
<1>3. K \subseteq w..n /\ w \in K
  BY <1>1 DEF Cuts
<1>4. Len(P[w]) + 1 = Cardinality(Upto(K, w))
  <2>1. Upto(K, w) = {w}
    <3> HIDE DEF K, w
    <3>1. \A c \in K : c <= w <=> c = w
      BY <1>1, <1>3
    <3> QED BY <1>3, <3>1 DEF Upto
  <2>2. Cardinality({w}) = 1
    BY FS_Singleton
  <2>3. Len(P[w]) = 0
    BY <1>2, EmptySeq
  <2> QED BY <2>1, <2>2, <2>3
<1>5. \A a : LastOf(K, a, w) => R[w] = SubSeq(s, a + 1, w)
  <2> TAKE a
  <2> HAVE LastOf(K, a, w)
  <2>1. a = w
    <3>1. a \in K /\ a <= w
      BY DEF LastOf
    <3> HIDE DEF K, w
    <3> QED BY <1>1, <1>3, <3>1
  <2>2. SubSeq(s, w + 1, w) = << >>
    <3> HIDE DEF K, w, n
    <3> QED BY <1>1
  <2> QED BY <1>2, <2>1, <2>2
<1>6. \A a, b \in K : ~(Adjacent(K, a, b) /\ b <= w)
  <2> HIDE DEF K, w
  <2> QED BY <1>1, <1>3 DEF Adjacent
<1> QED BY <1>4, <1>5, <1>6 DEF Stretched

LEMMA StretchedNext ==
  ASSUME NEW s, Fitting(s), NEW P, NEW R, Parsing(s, P, R),
         NEW i \in Question(s)..Len(s)-1, Stretched(s, P, R, i)
  PROVE  Stretched(s, P, R, i + 1)
<1> DEFINE w == Question(s)
           n == Len(s)
           K == Cuts(s)
           p == P[i]
           r == R[i]
           ch == s[i + 1]
<1>1. /\ s \in Seq(Letter) /\ w \in 1..n /\ n \in Nat /\ w \in Nat
  BY QuestionIs DEF Fitting
<1>2. IF ch = "&" THEN P[i + 1] = Append(p, r) /\ R[i + 1] = << >>
      ELSE P[i + 1] = p /\ R[i + 1] = Append(r, ch)
  BY DEF Parsing
<1>3. p \in Seq(Seq(Letter)) /\ r \in Seq(Letter)
  <2>1. i \in Question(s)..Len(s)
    BY <1>1
  <2> QED BY <2>1 DEF Parsing
<1>4. /\ K \subseteq 1..n /\ K \subseteq w..n /\ w \in K
      /\ i + 1 \in K <=> ch = "&"
  BY <1>1 DEF Cuts
<1>5. i \in w..n-1 /\ i \in Nat /\ i + 1 \in Nat /\ i \in 1..n
  BY <1>1
<1>6. /\ Len(p) + 1 = Cardinality(Upto(K, i))
      /\ \A a : LastOf(K, a, i) => r = SubSeq(s, a + 1, i)
      /\ \A a, b \in K : Adjacent(K, a, b) /\ b <= i =>
           /\ Cardinality(Under(K, a)) + 1 \in 1..Len(p)
           /\ p[Cardinality(Under(K, a)) + 1] = SubSeq(s, a + 1, b - 1)
  BY DEF Stretched
<1> HIDE DEF w, n, K, p, r, ch
<1>7. CASE ch # "&"
  <2>1. P[i + 1] = p /\ R[i + 1] = Append(r, ch) /\ i + 1 \notin K
    BY <1>2, <1>4, <1>7
  <2>2. Len(P[i + 1]) + 1 = Cardinality(Upto(K, i + 1))
    <3>1. Cardinality(Upto(K, i + 1)) = Cardinality(Upto(K, i))
      <4>1. n \in Nat /\ K \subseteq 1..n /\ i \in Int /\ i + 1 \notin K
        BY <1>1, <1>4, <1>5, <2>1
      <4> QED BY <4>1, CutAdded
    <3> QED BY <1>6, <2>1, <3>1
  <2>3. ASSUME NEW a, LastOf(K, a, i + 1) PROVE R[i + 1] = SubSeq(s, a + 1, i + 1)
    <3>1. a \in K /\ a <= i + 1 /\ \A c \in K : c <= a \/ i + 1 < c
      BY <2>3 DEF LastOf
    <3>2. a \in 1..n /\ a <= i /\ i \in a..n-1
      BY <1>1, <1>4, <1>5, <2>1, <3>1
    <3>3. LastOf(K, a, i)
      <4>1. \A c \in K : c <= a \/ i < c
        BY <1>4, <1>5, <3>1
      <4> QED BY <3>1, <3>2, <4>1 DEF LastOf
    <3>4. r = SubSeq(s, a + 1, i)
      BY <1>6, <3>3
    <3>5. SubSeq(s, a + 1, i + 1) = Append(SubSeq(s, a + 1, i), ch)
      BY <1>1, <3>2, SubSeqLonger DEF n, ch
    <3> QED BY <2>1, <3>4, <3>5
  <2>4. ASSUME NEW a \in K, NEW b \in K, Adjacent(K, a, b), b <= i + 1 PROVE b <= i
    <3>1. b # i + 1 /\ b \in Int
      BY <1>4, <2>1
    <3> QED BY <1>5, <2>4, <3>1
  <2>5. \A a, b \in K : Adjacent(K, a, b) /\ b <= i + 1 =>
          /\ Cardinality(Under(K, a)) + 1 \in 1..Len(P[i + 1])
          /\ P[i + 1][Cardinality(Under(K, a)) + 1] = SubSeq(s, a + 1, b - 1)
    BY <1>6, <2>1, <2>4
  <2> QED BY <2>2, <2>3, <2>5 DEF Stretched, K
<1>8. CASE ch = "&"
  <2> DEFINE m == Len(p) + 1
             pr == Append(p, r)
  <2>1. P[i + 1] = pr /\ R[i + 1] = << >> /\ i + 1 \in K
    BY <1>2, <1>4, <1>8
  <2>2. /\ Len(pr) = m /\ Len(p) \in Nat /\ m \in Nat /\ pr[m] = r
        /\ \A k \in 1..Len(p) : k \in 1..m /\ pr[k] = p[k]
    BY <1>3, AppendProperties
  <2>3. Len(P[i + 1]) + 1 = Cardinality(Upto(K, i + 1))
    <3>1. Cardinality(Upto(K, i + 1)) = Cardinality(Upto(K, i)) + 1
      <4>1. n \in Nat /\ K \subseteq 1..n /\ i \in Int /\ i + 1 \in K
        BY <1>1, <1>4, <1>5, <2>1
      <4> QED BY <4>1, CutAdded
    <3> QED BY <1>6, <2>1, <2>2, <3>1
  <2>4. ASSUME NEW a, LastOf(K, a, i + 1) PROVE R[i + 1] = SubSeq(s, a + 1, i + 1)
    <3>1. a \in K /\ a <= i + 1 /\ \A c \in K : c <= a \/ i + 1 < c
      BY <2>4 DEF LastOf
    <3>2. a = i + 1
      <4> DEFINE cut == i + 1
      <4>1. a \in K /\ a <= cut /\ cut \in K /\ \A c \in K : c <= a \/ cut < c
        BY <2>1, <3>1
      <4>2. a \in Int /\ cut \in Int
        BY <1>4, <1>5, <3>1
      <4> HIDE DEF cut
      <4>3. cut <= a
        BY <4>1, <4>2
      <4> QED BY <4>1, <4>2, <4>3 DEF cut
    <3>3. SubSeq(s, a + 1, i + 1) = << >>
      BY <1>5, <3>2
    <3> QED BY <2>1, <3>3
  <2> HIDE DEF pr
  <2>5. ASSUME NEW a \in K, NEW b \in K, Adjacent(K, a, b), b <= i + 1
        PROVE  /\ Cardinality(Under(K, a)) + 1 \in 1..Len(P[i + 1])
               /\ P[i + 1][Cardinality(Under(K, a)) + 1] = SubSeq(s, a + 1, b - 1)
    <3>1. a \in Int /\ b \in Int
      BY <1>4
    <3>2. CASE b <= i
      <4>1. /\ Cardinality(Under(K, a)) + 1 \in 1..Len(p)
            /\ p[Cardinality(Under(K, a)) + 1] = SubSeq(s, a + 1, b - 1)
        BY <1>6, <2>5, <3>2
      <4> HIDE DEF m
      <4> QED BY <2>1, <2>2, <4>1
    <3>3. CASE b = i + 1
      <4>1. LastOf(K, a, i)
        <5>1. a < i + 1 /\ \A c \in K : c <= a \/ i + 1 <= c
          BY <2>5, <3>3 DEF Adjacent
        <5>2. a <= i /\ \A c \in K : c <= a \/ i < c
          BY <1>4, <1>5, <3>1, <5>1
        <5> QED BY <5>2 DEF LastOf
      <4>2. r = SubSeq(s, a + 1, i)
        BY <1>6, <4>1
      <4>3. Cardinality(Under(K, a)) + 1 = m
        <5>1. n \in Nat /\ K \subseteq 1..n /\ i \in Int
          BY <1>1, <1>4, <1>5
        <5>2. Cardinality(Upto(K, i)) = Cardinality(Under(K, a)) + 1
          BY <4>1, <5>1, CutsCounted
        <5> QED BY <1>6, <5>2
      <4>4. b - 1 = i /\ m \in 1..Len(P[i + 1]) /\ P[i + 1][m] = r
        BY <1>5, <2>1, <2>2, <3>3
      <4> QED BY <4>2, <4>3, <4>4
    <3> QED BY <1>5, <2>5, <3>1, <3>2, <3>3
  <2> QED BY <2>3, <2>4, <2>5 DEF Stretched, K
<1> QED BY <1>7, <1>8

LEMMA StretchedAtLast ==
  ASSUME NEW s, Fitting(s), NEW P, NEW R, Parsing(s, P, R)
  PROVE  Stretched(s, P, R, Len(s))
<1> DEFINE w == Question(s)
           n == Len(s)
           T == {i \in w..n : Stretched(s, P, R, i)}
<1>1. /\ w \in 1..n /\ n \in Nat /\ w \in Nat /\ w \in w..n /\ n \in w..n
  BY QuestionIs DEF Fitting
<1>2. w \in T
  BY <1>1, StretchedAtFirst
<1>3. ASSUME NEW i \in w..n-1, i \in T PROVE i + 1 \in T
  <2>1. i + 1 \in w..n
    BY <1>1
  <2>2. Stretched(s, P, R, i + 1)
    BY <1>3, StretchedNext
  <2> QED BY <2>1, <2>2
<1>4. n \in T
  <2> HIDE DEF T, w, n
  <2> QED BY <1>1, <1>2, <1>3, Induction
<1> QED BY <1>4

(* The parameters stored are the stretches between the cuts. *)
Stretches(s, K, u) ==
  LET cuts == K \cup {Len(s) + 1} IN
  /\ u.query_count = Cardinality(cuts) - 1
  /\ \A a, b \in cuts : Adjacent(cuts, a, b) =>
       Parameter(u.queries[Cardinality({c \in cuts : c < a})]) = SubSeq(s, a + 1, b - 1)

LEMMA StretchesKept ==
  ASSUME NEW s, Fitting(s)
  PROVE  Stretches(s, Cuts(s), seperate_query(s))
<1> DEFINE n == Len(s)
           K == Cuts(s)
           u == seperate_query(s)
           cuts == K \cup {n + 1}
<1>1. PICK P, R : /\ Parsing(s, P, R)
                  /\ u.query_count \in Nat
                  /\ Complete(u) = Append(P[n], R[n])
  BY Parsed
<1>2. n \in Nat /\ n \in Question(s)..n /\ K \subseteq 1..n
  BY QuestionIs DEF Fitting, Cuts
<1> DEFINE p == P[n]
           r == R[n]
           all == Complete(u)
           m == Len(p) + 1
<1>3. p \in Seq(Seq(Letter)) /\ r \in Seq(Letter)
  BY <1>1, <1>2 DEF Parsing
<1>4. /\ m = Cardinality(Upto(K, n))
      /\ \A a : LastOf(K, a, n) => r = SubSeq(s, a + 1, n)
      /\ \A a, b \in K : Adjacent(K, a, b) /\ b <= n =>
           /\ Cardinality(Under(K, a)) + 1 \in 1..Len(p)
           /\ p[Cardinality(Under(K, a)) + 1] = SubSeq(s, a + 1, b - 1)
  BY <1>1, StretchedAtLast DEF Stretched
<1>5. /\ Len(all) = u.query_count
      /\ \A k \in 1..u.query_count : all[k] = Parameter(u.queries[k - 1])
  BY <1>1 DEF Complete, Earlier
<1>6. all = Append(p, r)
  BY <1>1
<1>7. u.query_count \in Nat
  BY <1>1
<1> HIDE DEF n, K, u, p, r, all
<1>8. /\ Len(all) = m /\ Len(p) \in Nat /\ m \in Nat /\ all[m] = r
      /\ \A k \in 1..Len(p) : k \in 1..m /\ all[k] = p[k]
  BY <1>3, <1>6, AppendProperties
<1> HIDE DEF m
<1>9. u.query_count = m /\ \A k \in 1..m : all[k] = Parameter(u.queries[k - 1])
  BY <1>5, <1>8
<1>10. u.query_count = Cardinality(cuts) - 1
  <2>1. Upto(K, n) = K
    <3>1. \A c \in K : c <= n
      BY <1>2
    <3> QED BY <3>1 DEF Upto
  <2>2. IsFiniteSet(K) /\ Cardinality(K) \in Nat
    BY <1>2, CutsFinite
  <2>3. n + 1 \notin K
    BY <1>2
  <2>4. Cardinality(cuts) = Cardinality(K) + 1
    BY <2>2, <2>3, FS_AddElement
  <2> HIDE DEF cuts
  <2> QED BY <1>4, <1>9, <2>1, <2>2, <2>4
<1>11. ASSUME NEW a \in cuts, NEW b \in cuts, Adjacent(cuts, a, b)
       PROVE  Parameter(u.queries[Cardinality({c \in cuts : c < a})]) = SubSeq(s, a + 1, b - 1)
  <2> DEFINE j == Cardinality(Under(K, a))
  <2>1. /\ a < b /\ \A c \in K : c <= a \/ b <= c
        /\ b = n + 1 \/ (b \in K /\ b <= n)
        /\ a \in Int /\ b \in Int
    BY <1>2, <1>11 DEF Adjacent
  <2>2. a \in K /\ a <= n
    BY <1>2, <2>1
  <2>3. {c \in cuts : c < a} = Under(K, a)
    BY <1>2, <2>2 DEF Under
  <2>4. j \in Nat
    BY <1>2, CutsFinite
  <2>5. j + 1 \in 1..m /\ all[j + 1] = SubSeq(s, a + 1, b - 1)
    <3>1. CASE b \in K /\ b <= n
      <4>1. Adjacent(K, a, b)
        BY <2>1 DEF Adjacent
      <4>2. j + 1 \in 1..Len(p) /\ p[j + 1] = SubSeq(s, a + 1, b - 1)
        BY <1>4, <2>2, <3>1, <4>1
      <4> HIDE DEF j
      <4> QED BY <1>8, <4>2
    <3>2. CASE b = n + 1
      <4>1. \A c \in K : c <= a \/ n < c
        BY <1>2, <2>1, <3>2
      <4>2. LastOf(K, a, n)
        BY <2>2, <4>1 DEF LastOf
      <4>3. r = SubSeq(s, a + 1, n)
        BY <1>4, <4>2
      <4>4. Cardinality(Upto(K, n)) = j + 1
        <5>1. n \in Int
          BY <1>2
        <5> QED BY <1>2, <4>2, <5>1, CutsCounted
      <4> HIDE DEF j
      <4>5. m = j + 1 /\ b - 1 = n
        BY <1>2, <1>4, <3>2, <4>4
      <4> QED BY <1>8, <2>4, <4>3, <4>5
    <3> QED BY <2>1, <3>1, <3>2
  <2> HIDE DEF j, cuts
  <2>6. all[j + 1] = Parameter(u.queries[j])
    <3>1. (j + 1) - 1 = j
      BY <2>4
    <3> QED BY <1>9, <2>5, <3>1
  <2> QED BY <2>3, <2>5, <2>6 DEF j
<1> HIDE DEF cuts
<1> QED BY <1>10, <1>11 DEF Stretches, cuts, n, K, u

(* The tokens written as delimiters are those that stand for one. *)
LEMMA DelimiterTokens ==
  ASSUME InputInv, NUL \notin ToSet(Meanings),
         \A ch \in {"?", "&", "="} : ~Escapes(ch)
  PROVE  /\ Len(tokens) = Len(Meanings)
         /\ \A k \in 1..Len(tokens) : \A ch \in {"?", "&", "="} :
              tokens[k][1] = ch <=> Meanings[k] = ch
         /\ \A k \in 1..Len(tokens) : /\ tokens[k] = <<"?">> <=> Meanings[k] = "?"
                                      /\ tokens[k] = <<"&">> <=> Meanings[k] = "&"
         /\ SelectInSeq(tokens, LAMBDA t : t = <<"?">>) = Question(Meanings)
<1>1. tokens \in Seq(Token_t)
  BY UrlFits
<1>2. Len(tokens) \in Nat /\ DOMAIN tokens = 1..Len(tokens)
  BY <1>1
<1>3. Meanings = [k \in 1..Len(tokens) |-> Meaning(tokens[k])]
  BY <1>2 DEF Meanings
<1>4. Len(tokens) = Len(Meanings) /\ \A k \in 1..Len(tokens) : Meanings[k] = Meaning(tokens[k])
  BY <1>2, <1>3
<1>7. \A k \in 1..Len(tokens) : Len(tokens[k]) = 3 => \A ch \in {"?", "&", "="} : Meanings[k] # ch
  BY <1>2 DEF Escapes
<1>8. ASSUME NEW k \in 1..Len(tokens), NEW ch \in {"?", "&", "="}
      PROVE  tokens[k][1] = ch <=> Meanings[k] = ch
  <2>1. tokens[k] \in Token_t
    BY <1>1, ElementOfSeq
  <2>2. Meanings[k] = Meaning(tokens[k])
    BY <1>4
  <2>3. CASE Len(tokens[k]) = 1
    BY <2>2, <2>3 DEF Meaning
  <2>4. CASE Len(tokens[k]) = 3 /\ tokens[k][1] = "%"
    <3>1. Meanings[k] # ch
      BY <1>7, <2>4
    <3>2. ch # "%"
      OBVIOUS
    <3> QED BY <2>4, <3>1, <3>2
  <2> QED BY <2>1, <2>3, <2>4 DEF Token_t
<1>5. ASSUME NEW k \in 1..Len(tokens)
      PROVE  /\ tokens[k] = <<"?">> <=> Meanings[k] = "?"
             /\ tokens[k] = <<"&">> <=> Meanings[k] = "&"
  <2> DEFINE t == tokens[k]
  <2>1. t \in Token_t
    BY <1>1, ElementOfSeq
  <2>2. Meanings[k] = Meaning(t)
    BY <1>4
  <2>3. Len(t) = 3 => Meanings[k] # "?" /\ Meanings[k] # "&"
    BY <1>7
  <2> HIDE DEF t
  <2>4. CASE Len(t) = 1
    <3>1. Meaning(t) = t[1]
      BY <2>4 DEF Meaning
    <3>2. t \in Seq(Letter)
      BY <2>1 DEF Token_t
    <3>3. t = <<t[1]>>
      BY <2>4, <3>2, OnlyOne
    <3>4. \A ch : t = <<ch>> <=> t[1] = ch
      BY <3>3
    <3> QED BY <2>2, <3>1, <3>4 DEF t
  <2>5. CASE Len(t) = 3
    <3>1. \A ch : t # <<ch>>
      <4> TAKE ch
      <4>1. Len(<<ch>>) = 1
        OBVIOUS
      <4> QED BY <2>5, <4>1
    <3> QED BY <2>3, <2>5, <3>1 DEF t
  <2> QED BY <2>1, <2>4, <2>5 DEF Token_t
<1>6. SelectInSeq(tokens, LAMBDA t : t = <<"?">>) = Question(Meanings)
  <2>1. {i \in 1..Len(tokens) : tokens[i] = <<"?">>} = {i \in 1..Len(Meanings) : Meanings[i] = "?"}
    BY <1>4, <1>5
  <2> HIDE DEF Meanings
  <2> QED BY <2>1 DEF Question, SelectInSeq
<1> QED BY <1>4, <1>5, <1>6, <1>8

(* Whether a string is well-formed depends on its delimiters only. *)
LEMMA WellFormedAlike ==
  ASSUME NEW s \in Seq(Letter), NEW t \in Seq(Letter), Len(s) = Len(t), WellFormed(s),
         \A k \in 1..Len(s) : \A ch \in {"?", "&", "="} : s[k] = ch <=> t[k] = ch
  PROVE  WellFormed(t)
<1> DEFINE n == Len(s)
           d == Delimiters(s)
<1>1. n \in Nat /\ Len(t) = n
  OBVIOUS
<1>2. Question(t) = Question(s)
  <2>1. {i \in 1..Len(t) : t[i] = "?"} = {i \in 1..Len(s) : s[i] = "?"}
    OBVIOUS
  <2> QED BY <2>1 DEF Question, SelectInSeq
<1>3. Delimiters(t) = d
  <2>1. \A k \in 1..n : s[k] \in {"&", "="} <=> t[k] \in {"&", "="}
    OBVIOUS
  <2> QED BY <1>1, <1>2, <2>1, DelimitersAre
<1>4. d \in SUBSET (1..n) /\ d \in SUBSET (1..n + 1)
  BY <1>1, DelimitersAre
<1>5. d # {} => Max(d) \in 1..n
  <2> HIDE DEF d, n
  <2>1. d # {} => Max(d) \in d
    BY <1>1, <1>4, MaxInterval
  <2> QED BY <1>4, <2>1
<1>6. /\ d # {} => s[Max(d)] = "="
      /\ \A a, b \in d : Adjacent(d, a, b) => (s[a] = "=" <=> s[b] # "=")
  BY DEF WellFormed
<1>7. \A k \in 1..n : s[k] = "=" <=> t[k] = "="
  OBVIOUS
<1> HIDE DEF d, n
<1>8. d # {} => t[Max(d)] = "="
  BY <1>5, <1>6, <1>7
<1>9. \A a, b \in d : Adjacent(d, a, b) => (t[a] = "=" <=> t[b] # "=")
  <2>1. \A a \in d : a \in 1..n
    BY <1>4
  <2> QED BY <1>6, <1>7, <2>1
<1> QED BY <1>3, <1>8, <1>9 DEF WellFormed

(* In every state of the worker: decoding a URL before splitting it        *)
(* (url.c:10) does no harm as long as no escape stands for a delimiter.    *)
(* The parameters seperate_query stores are then those that the client put *)
(* between the delimiters it wrote, each in its own place of the array.    *)
THEOREM ParametersAreKept == Spec => []ParametersKept
<1>1. Init => InputInv
  BY InputInit
<1>2. InputInv /\ [Next]_vars => InputInv'
  BY InputStep
<1>3. InputInv => ParametersKept
  <2> DEFINE m    == Meanings
             d    == decode_url(raw)
             q    == SelectInSeq(tokens, LAMBDA t : t = <<"?">>)
             cuts == {k \in q..Len(m) : k = q \/ tokens[k] = <<"&">>} \cup {Len(m) + 1}
             u    == seperate_query(d.url)
  <2> SUFFICES ASSUME InputInv, d.ok, ~EndsInEscape, WrittenWell,
                      \A ch \in {"?", "&", "="} : ~Escapes(ch),
                      q > 0
               PROVE  /\ u.path = SubSeq(m, 1, q - 1)
                      /\ u.query_count = Cardinality(cuts) - 1
                      /\ \A a, b \in cuts : Adjacent(cuts, a, b) =>
                           Parameter(u.queries[Cardinality({c \in cuts : c < a})])
                             = SubSeq(m, a + 1, b - 1)
    BY DEF ParametersKept, ParametersAsWritten
  <2>1. NUL \notin ToSet(m) /\ d = Decoded(m)
    <3>1. d = IF NUL \in ToSet(m) THEN Undecodable ELSE Decoded(m)
      BY DecodedAre DEF DecodesTokens
    <3>2. ~Undecodable.ok
      BY DEF Undecodable
    <3> QED BY <3>1, <3>2
  <2>2. d.url = m
    BY <2>1 DEF Decoded
  <2>3. m \in Seq(Letter)
    BY <2>1, MeaningsType
  <2>4. /\ Len(tokens) = Len(m) /\ q = Question(m)
        /\ \A k \in 1..Len(tokens) : tokens[k] = <<"&">> <=> m[k] = "&"
        /\ \A k \in 1..Len(tokens) : \A ch \in {"?", "&", "="} : tokens[k][1] = ch <=> m[k] = ch
    BY <2>1, DelimiterTokens
  <2>11. WellFormed(d.url)
    <3> DEFINE w == [k \in DOMAIN tokens |-> tokens[k][1]]
    <3>1. tokens \in Seq(Token_t) /\ DOMAIN tokens = 1..Len(tokens) /\ Len(tokens) \in Nat
      BY UrlFits
    <3>2. ASSUME NEW k \in 1..Len(tokens) PROVE tokens[k][1] \in Letter
      <4>1. tokens[k] \in Seq(Letter) /\ Len(tokens[k]) \in {1, 3}
        BY <3>1, ElementOfSeq DEF Token_t
      <4>2. \A i \in {1, 3} : 1 \in 1..i
        OBVIOUS
      <4>3. 1 \in 1..Len(tokens[k])
        BY <4>1, <4>2
      <4> QED BY <4>1, <4>3, ElementOfSeq
    <3>3. w = [k \in 1..Len(tokens) |-> tokens[k][1]]
      BY <3>1
    <3>4. w \in [1..Len(tokens) -> Letter]
      BY <3>2, <3>3
    <3>5. w \in Seq(Letter) /\ Len(w) = Len(tokens)
      BY <3>1, <3>4, IsASeq
    <3>6. \A k \in 1..Len(w) : \A ch \in {"?", "&", "="} : w[k] = ch <=> m[k] = ch
      BY <2>4, <3>3, <3>5
    <3>7. WellFormed(w)
      BY DEF WrittenWell
    <3> HIDE DEF w, m, d
    <3>8. Len(w) = Len(m)
      BY <2>4, <3>5
    <3>9. WellFormed(m)
      BY <2>3, <3>5, <3>6, <3>7, <3>8, WellFormedAlike
    <3> QED BY <2>2, <3>9
  <2>5. Len(d.url) <= MaxSize /\ Len(d.url) <= 2 * MaxQueries
    BY UrlFits
  <2> HIDE DEF d, q, m
  <2>6. Question(m) # 0
    BY <2>4
  <2>7. Fitting(m)
    BY <2>2, <2>3, <2>5, <2>6, <2>11 DEF Fitting
  <2>8. u.path = SubSeq(m, 1, q - 1)
    <3>1. seperate_query(m).path = Before(m)
      BY <2>3, PathIs
    <3> QED BY <2>2, <2>4, <2>6, <3>1 DEF Before
  <2>9. cuts = Cuts(m) \cup {Len(m) + 1}
    <3>1. Question(m) \in 1..Len(m) /\ Len(m) \in Nat
      BY <2>3, <2>6, QuestionIs
    <3>2. \A k \in q..Len(m) : tokens[k] = <<"&">> <=> m[k] = "&"
      BY <2>4, <3>1
    <3>3. {k \in q..Len(m) : k = q \/ tokens[k] = <<"&">>} = Cuts(m)
      BY <2>4, <3>2 DEF Cuts
    <3> QED BY <3>3
  <2>10. Stretches(m, Cuts(m), u)
    BY <2>2, <2>7, StretchesKept
  <2> HIDE DEF u, cuts
  <2> QED BY <2>8, <2>9, <2>10 DEF Stretches
<1> QED BY <1>1, <1>2, <1>3, PTL DEF Spec
=============================================================================
