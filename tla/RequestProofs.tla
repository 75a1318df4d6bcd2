---------------------------- MODULE RequestProofs ----------------------------
(***************************************************************************)
(* Proofs about Request: what parse_http_request stores of the spans that  *)
(* llhttp reports, and where seperate_query ends the path.                 *)
(***************************************************************************)
EXTENDS Request, SequenceFacts

Buffer == [0..MaxSize-1 -> Char]
Field_t == [key : Buffer, value : Buffer]
Request_t == [method : Buffer, raw_path : Buffer, headers : Seq(Field_t), cur_header : Field_t]
Spans == [on : {"method", "url", "header_field", "header_value"}, at : Seq(Char)]

LEMMA StoreType ==
  ASSUME NEW buf \in Buffer, NEW at \in Seq(Char)
  PROVE  store(buf, at) \in Buffer
BY DEF store, Buffer, Char

LEMMA OnType ==
  ASSUME NEW r \in Request_t, NEW span \in Spans
  PROVE  on(r, span) \in Request_t
<1>1. /\ r.method \in Buffer /\ r.raw_path \in Buffer /\ r.headers \in Seq(Field_t)
      /\ r.cur_header \in Field_t /\ r.cur_header.key \in Buffer /\ r.cur_header.value \in Buffer
      /\ span.at \in Seq(Char)
  BY DEF Request_t, Field_t, Spans
<1>2. /\ store(r.method, span.at) \in Buffer /\ store(r.raw_path, span.at) \in Buffer
      /\ store(r.cur_header.key, span.at) \in Buffer
      /\ store(r.cur_header.value, span.at) \in Buffer
  BY <1>1, StoreType
<1>3. CASE span.on = "method"
  <2>1. on(r, span) = [r EXCEPT !.method = store(r.method, span.at)]
    BY <1>3 DEF on
  <2> QED BY <1>2, <2>1 DEF Request_t
<1>4. CASE span.on = "url"
  <2>1. on(r, span) = [r EXCEPT !.raw_path = store(r.raw_path, span.at)]
    BY <1>4 DEF on
  <2> QED BY <1>2, <2>1 DEF Request_t
<1>5. CASE span.on = "header_field"
  <2>1. on(r, span) = [r EXCEPT !.cur_header = [r.cur_header EXCEPT !.key = store(r.cur_header.key, span.at)]]
    BY <1>5 DEF on
  <2>2. [r.cur_header EXCEPT !.key = store(r.cur_header.key, span.at)] \in Field_t
    BY <1>1, <1>2 DEF Field_t
  <2> QED BY <2>1, <2>2 DEF Request_t
<1>6. CASE span.on = "header_value"
  <2> DEFINE h == [r.cur_header EXCEPT !.value = store(r.cur_header.value, span.at)]
  <2>1. on(r, span) = [r EXCEPT !.cur_header = h, !.headers = Append(r.headers, h)]
    BY <1>6 DEF on, on_header_value
  <2>2. h \in Field_t
    BY <1>1, <1>2 DEF Field_t
  <2> HIDE DEF h
  <2>3. Append(r.headers, h) \in Seq(Field_t)
    BY <1>1, <2>2, AppendProperties
  <2> QED BY <2>1, <2>2, <2>3 DEF Request_t
<1> QED BY <1>3, <1>4, <1>5, <1>6 DEF Spans

(* f goes through the callbacks of spans, one after another. *)
Parses(f, spans) ==
  /\ f \in [0..Len(spans) -> Request_t]
  /\ f[0] = http_request_t_init
  /\ \A i \in 1..Len(spans) : f[i] = on(f[i-1], spans[i])
  /\ FoldLeft(on, http_request_t_init, spans) = f[Len(spans)]

LEMMA InitType == http_request_t_init \in Request_t
<1>1. Zeros \in Buffer
  BY DEF Zeros, Buffer, Char
<1> QED BY <1>1, EmptySeq DEF http_request_t_init, Request_t, Field_t

LEMMA FoldOn ==
  ASSUME NEW spans \in Seq(Spans)
  PROVE  \E f : Parses(f, spans)
<1> DEFINE n == Len(spans)
           base == http_request_t_init
           step == [p \in Nat \X Request_t |->
                      IF p[1] \in 1..n THEN on(p[2], spans[p[1]]) ELSE base]
<1>1. n \in Nat /\ DOMAIN spans = 1..n /\ base \in Request_t /\ \A i \in 1..n : spans[i] \in Spans
  BY InitType
<1>2. step \in [Nat \X Request_t -> Request_t]
  <2>1. ASSUME NEW p \in Nat \X Request_t
        PROVE  (IF p[1] \in 1..n THEN on(p[2], spans[p[1]]) ELSE base) \in Request_t
    BY <1>1, OnType
  <2> QED BY <2>1
<1>3. ASSUME NEW i \in 1..n, NEW r \in Request_t PROVE step[<<i, r>>] = on(r, spans[i])
  <2>1. <<i, r>> \in Nat \X Request_t /\ i \in 1..n
    BY <1>1
  <2> QED BY <2>1
<1> HIDE DEF step, n, base
<1>4. PICK it : Unfolds(it, Request_t, base, step, n)
  BY <1>1, <1>2, FoldTo
<1>5. /\ it \in [SUBSET (1..n) -> Request_t]
      /\ \A T \in SUBSET (1..n) :
           it[T] = IF T = {} THEN base ELSE step[<<Max(T), it[T \ {Max(T)}]>>]
  BY <1>4 DEF Unfolds
<1> DEFINE iter == CHOOSE it2 : it2 = [T \in SUBSET (1..n) |->
                      IF T = {} THEN base ELSE on(it2[T \ {Max(T)}], spans[Max(T)])]
<1>6. it = [T \in SUBSET (1..n) |->
                      IF T = {} THEN base ELSE on(it[T \ {Max(T)}], spans[Max(T)])]
  <2>1. ASSUME NEW T \in SUBSET (1..n)
        PROVE  it[T] = IF T = {} THEN base ELSE on(it[T \ {Max(T)}], spans[Max(T)])
    <3>1. CASE T = {}
      BY <1>5, <3>1
    <3>2. CASE T # {}
      <4>1. Max(T) \in 1..n
        <5>1. T \in SUBSET (1..n + 1)
          BY <1>1
        <5>2. Max(T) \in T
          BY <1>1, <3>2, <5>1, MaxInterval
        <5> QED BY <5>2
      <4>2. it[T \ {Max(T)}] \in Request_t
        BY <1>5
      <4>3. step[<<Max(T), it[T \ {Max(T)}]>>] = on(it[T \ {Max(T)}], spans[Max(T)])
        BY <1>3, <4>1, <4>2
      <4> QED BY <1>5, <3>2, <4>3
    <3> QED BY <3>1, <3>2
  <2> QED BY <1>5, <2>1
<1>7. iter = [T \in SUBSET (1..n) |->
                      IF T = {} THEN base ELSE on(iter[T \ {Max(T)}], spans[Max(T)])]
  BY <1>6
<1>8. FoldLeft(on, base, spans) = iter[1..n]
  BY <1>1 DEF FoldLeft, MapThenFoldSet
<1> HIDE DEF iter
<1>9. iter[1..0] = base
  BY <1>1, <1>7, 1..0 = {}
<1>10. ASSUME NEW i \in 1..n PROVE iter[1..i] = on(iter[1..i-1], spans[i])
  <2>0. n \in Nat /\ i \in Nat /\ i <= n /\ 1 <= i
    BY <1>1
  <2>1. 1..i \in SUBSET (1..n) /\ 1..i # {} /\ i - 1 \in Nat /\ 1..i \in SUBSET (1..(i-1) + 1)
        /\ (i - 1) + 1 = i /\ i \in 1..i
    <3>1. 1..i \in SUBSET (1..n)
      BY <2>0
    <3>2. i \in 1..i /\ i - 1 \in Nat /\ (i - 1) + 1 = i
      BY <2>0
    <3> QED BY <3>1, <3>2
  <2>2. Max(1..i) = i
    BY <2>1, MaxInterval
  <2>3. (1..i) \ {i} = 1..i-1
    BY <2>1
  <2> QED BY <1>7, <2>1, <2>2, <2>3
<1> DEFINE f == [i \in 0..n |-> iter[1..i]]
<1>11. f[0] = base /\ \A i \in 1..n : f[i] = on(f[i-1], spans[i])
  <2>1. \A i \in 1..n : i \in 0..n /\ i - 1 \in 0..n
    BY <1>1
  <2> QED BY <1>1, <1>9, <1>10, <2>1
<1> HIDE DEF f
<1>12. \A i \in 0..n : f[i] \in Request_t
  <2> DEFINE T == {i \in 0..n : f[i] \in Request_t}
  <2>1. 0 \in T
    BY <1>1, <1>11
  <2>2. ASSUME NEW k \in 0..n-1, k \in T PROVE k + 1 \in T
    <3>1. k + 1 \in 1..n /\ k + 1 \in 0..n /\ (k + 1) - 1 = k
      BY <1>1
    <3>2. on(f[k], spans[k + 1]) \in Request_t
      BY <1>1, <2>2, <3>1, OnType
    <3> QED BY <1>11, <3>1, <3>2
  <2>3. \A i \in 0..n : i \in T
    <3> HIDE DEF T
    <3> QED BY <1>1, <2>1, <2>2, Induction
  <2> QED BY <2>3
<1>13. f \in [0..n -> Request_t]
  BY <1>12 DEF f
<1>14. FoldLeft(on, base, spans) = f[n]
  BY <1>1, <1>8 DEF f
<1>15. Parses(f, spans)
  BY <1>11, <1>13, <1>14 DEF Parses, n, base
<1> QED BY <1>15

LEMMA FoldOnEmpty == FoldLeft(on, http_request_t_init, << >>) = http_request_t_init
<1>1. << >> \in Seq(Spans) /\ Len(<< >>) = 0
  BY EmptySeq
<1>2. PICK f : Parses(f, << >>)
  BY <1>1, FoldOn
<1> QED BY <1>1, <1>2 DEF Parses

LEMMA FoldOnAppend ==
  ASSUME NEW spans \in Seq(Spans), NEW span \in Spans
  PROVE  /\ FoldLeft(on, http_request_t_init, spans) \in Request_t
         /\ FoldLeft(on, http_request_t_init, Append(spans, span))
              = on(FoldLeft(on, http_request_t_init, spans), span)
<1> DEFINE n == Len(spans)
           ext == Append(spans, span)
<1>1. /\ n \in Nat /\ ext \in Seq(Spans)
      /\ Len(ext) = n + 1 /\ ext[n + 1] = span /\ \A i \in 1..n : ext[i] = spans[i]
  BY AppendProperties
<1>2. PICK f : Parses(f, spans)
  BY FoldOn
<1> HIDE DEF n, ext
<1>3. PICK g : Parses(g, ext)
  BY <1>1, FoldOn
<1>4. /\ f \in [0..n -> Request_t] /\ f[0] = http_request_t_init
      /\ \A i \in 1..n : f[i] = on(f[i-1], spans[i])
      /\ FoldLeft(on, http_request_t_init, spans) = f[n]
  BY <1>2 DEF Parses, n
<1>5. /\ g[0] = http_request_t_init
      /\ \A i \in 1..n+1 : g[i] = on(g[i-1], ext[i])
      /\ FoldLeft(on, http_request_t_init, ext) = g[n + 1]
  BY <1>1, <1>3 DEF Parses
<1>6. \A i \in 0..n : g[i] = f[i]
  <2> DEFINE T == {i \in 0..n : g[i] = f[i]}
  <2>1. 0 \in T
    BY <1>1, <1>4, <1>5
  <2>2. ASSUME NEW k \in 0..n-1, k \in T PROVE k + 1 \in T
    <3>1. k + 1 \in 1..n /\ k + 1 \in 0..n /\ k + 1 \in 1..n+1 /\ (k + 1) - 1 = k
      BY <1>1
    <3>2. g[k + 1] = on(g[k], ext[k + 1]) /\ f[k + 1] = on(f[k], spans[k + 1])
      BY <1>4, <1>5, <3>1
    <3> QED BY <1>1, <2>2, <3>1, <3>2
  <2>3. \A i \in 0..n : i \in T
    <3> HIDE DEF T
    <3> QED BY <1>1, <2>1, <2>2, Induction
  <2> QED BY <2>3
<1>7. n \in 0..n /\ n + 1 \in 1..n+1 /\ (n + 1) - 1 = n
  BY <1>1
<1>8. g[n + 1] = on(f[n], span)
  BY <1>1, <1>5, <1>6, <1>7
<1> QED BY <1>4, <1>5, <1>7, <1>8 DEF ext
-----------------------------------------------------------------------------
(* C strings. *)
LEMMA CstrAt ==
  ASSUME NEW buf \in Buffer, NEW n \in 0..MaxSize-1, buf[n] = NUL,
         \A m \in 0..n-1 : buf[m] # NUL
  PROVE  cstr(buf) = [k \in 1..n |-> buf[k - 1]]
<1> DEFINE Ends(k) == buf[k] = NUL /\ \A m \in 0..k-1 : buf[m] # NUL
           c == CHOOSE k \in DOMAIN buf : Ends(k)
<1>1. DOMAIN buf = 0..MaxSize-1
  BY DEF Buffer
<1>2. n \in DOMAIN buf /\ Ends(n)
  BY <1>1
<1>3. c \in DOMAIN buf /\ Ends(c)
  <2> HIDE DEF Ends
  <2> QED BY <1>2
<1>4. c = n
  <2> HIDE DEF c
  <2>1. c \in Nat /\ n \in Nat
    BY <1>1, <1>3, BufferAssumption
  <2>2. ~(c < n)
    <3>1. c < n => c \in 0..n-1
      BY <2>1
    <3> QED BY <1>3, <3>1
  <2>3. ~(n < c)
    <3>1. n < c => n \in 0..c-1
      BY <2>1
    <3> QED BY <1>3, <3>1
  <2> QED BY <2>1, <2>2, <2>3
<1>5. cstr(buf) = [k \in 1..c |-> buf[k - 1]]
  BY DEF cstr
<1> QED BY <1>4, <1>5

LEMMA CstrStore ==
  ASSUME NEW buf \in Buffer, NEW at \in Seq(Letter), Len(at) < MaxSize
  PROVE  cstr(store(buf, at)) = at
<1> DEFINE n == Len(at)
           new == store(buf, at)
<1>1. n \in Nat /\ n \in 0..MaxSize-1 /\ at \in Seq(Char) /\ \A k \in 1..n : at[k] \in Letter
  BY BufferAssumption DEF Char
<1>2. new \in Buffer
  BY <1>1, StoreType
<1>3. \A k \in 0..MaxSize-1 : new[k] = IF k < n THEN at[k + 1] ELSE IF k = n THEN NUL ELSE buf[k]
  BY DEF store, Buffer
<1>4. new[n] = NUL
  BY <1>1, <1>3
<1>5. ASSUME NEW m \in 0..n-1 PROVE new[m] = at[m + 1] /\ new[m] # NUL
  <2>1. m \in 0..MaxSize-1 /\ m < n /\ m + 1 \in 1..n
    BY <1>1, BufferAssumption
  <2> QED BY <1>1, <1>3, <2>1, NulAssumption
<1> HIDE DEF new, n
<1>6. cstr(new) = [k \in 1..n |-> new[k - 1]]
  BY <1>1, <1>2, <1>4, <1>5, CstrAt
<1>7. \A k \in 1..n : new[k - 1] = at[k]
  <2>1. \A k \in 1..n : k - 1 \in 0..n-1 /\ (k - 1) + 1 = k
    BY <1>1
  <2> QED BY <1>5, <2>1
<1>8. at = [k \in 1..n |-> at[k]]
  BY DEF n
<1> QED BY <1>6, <1>7, <1>8 DEF new

LEMMA CstrZeros == cstr(Zeros) = << >>
<1>1. Zeros \in Buffer /\ 0 \in 0..MaxSize-1 /\ Zeros[0] = NUL /\ 0..0-1 = {}
  BY BufferAssumption DEF Zeros, Buffer, Char
<1>2. cstr(Zeros) = [k \in 1..0 |-> Zeros[k - 1]]
  BY <1>1, CstrAt
<1> QED BY <1>2
-----------------------------------------------------------------------------
(* The requests a client may send: their parts fit the parser's arrays. *)
Header_t == {h \in [key : Seq(Letter), value : Seq(Letter)] :
               Len(h.key) < MaxSize /\ Len(h.value) < MaxSize}
Sent == {r \in [method : Letter, url : Seq(Seq(Letter)), headers : Seq(Header_t)] :
           Len(Raw(r)) < MaxSize}

LEMMA HeaderSpansType ==
  ASSUME NEW h \in Header_t
  PROVE  header_spans(h) \in Seq(Spans)
<1>1. h.key \in Seq(Char) /\ h.value \in Seq(Char)
  BY DEF Header_t, Char
<1>2. Span("header_field", h.key) \in Spans /\ Span("header_value", h.value) \in Spans
  BY <1>1 DEF Span, Spans
<1> HIDE DEF Span, Spans
<1> QED BY <1>2 DEF header_spans

AllHeaderSpans(hs) == [h \in DOMAIN hs |-> header_spans(hs[h])]

LEMMA AllHeaderSpansType ==
  ASSUME NEW hs \in Seq(Header_t)
  PROVE  AllHeaderSpans(hs) \in Seq(Seq(Spans)) /\ FlattenSeq(AllHeaderSpans(hs)) \in Seq(Spans)
<1>1. \A k \in 1..Len(hs) : header_spans(hs[k]) \in Seq(Spans)
  BY HeaderSpansType
<1>2. AllHeaderSpans(hs) \in Seq(Seq(Spans))
  BY <1>1, IsASeq DEF AllHeaderSpans
<1> QED BY <1>2, FlattenType

LEMMA AllHeaderSpansAppend ==
  ASSUME NEW hs \in Seq(Header_t), NEW h \in Header_t
  PROVE  FlattenSeq(AllHeaderSpans(Append(hs, h))) = FlattenSeq(AllHeaderSpans(hs)) \o header_spans(h)
<1>1. AllHeaderSpans(hs) \in Seq(Seq(Spans)) /\ header_spans(h) \in Seq(Spans)
  BY AllHeaderSpansType, HeaderSpansType
<1>2. AllHeaderSpans(Append(hs, h)) = Append(AllHeaderSpans(hs), header_spans(h))
  BY DEF AllHeaderSpans
<1> QED BY <1>1, <1>2, FlattenAppend

UrlSpan(r) == IF r.url = << >> THEN << >> ELSE <<Span("url", Raw(r))>>

LEMMA RawType ==
  ASSUME NEW r \in Sent
  PROVE  Raw(r) \in Seq(Letter) /\ Raw(r) \in Seq(Char) /\ Len(Raw(r)) < MaxSize
<1>1. Raw(r) \in Seq(Letter)
  BY FlattenType DEF Sent, Raw
<1> QED BY <1>1 DEF Sent, Char

LEMMA RequestSpans ==
  ASSUME NEW r \in Sent
  PROVE  /\ Span("method", <<r.method>>) \in Spans
         /\ r.url # << >> => Span("url", Raw(r)) \in Spans
         /\ UrlSpan(r) \in Seq(Spans)
         /\ request_spans(r) = <<Span("method", <<r.method>>)>> \o UrlSpan(r)
                                 \o FlattenSeq(AllHeaderSpans(r.headers))
         /\ request_spans(r) \in Seq(Spans)
<1>1. <<r.method>> \in Seq(Char)
  BY DEF Sent, Char
<1>2. Span("method", <<r.method>>) \in Spans /\ Span("url", Raw(r)) \in Spans
  BY <1>1, RawType DEF Span, Spans
<1> HIDE DEF Span, Spans
<1>3. UrlSpan(r) \in Seq(Spans) /\ <<Span("method", <<r.method>>)>> \in Seq(Spans)
  BY <1>2 DEF UrlSpan
<1>4. FlattenSeq(AllHeaderSpans(r.headers)) \in Seq(Spans)
  BY AllHeaderSpansType DEF Sent
<1>5. request_spans(r) = <<Span("method", <<r.method>>)>> \o UrlSpan(r)
                                 \o FlattenSeq(AllHeaderSpans(r.headers))
  BY DEF request_spans, UrlSpan, AllHeaderSpans
<1> QED BY <1>2, <1>3, <1>4, <1>5, ConcatProperties

LEMMA SpansAppend ==
  ASSUME NEW in \in Seq(Sent), NEW r \in Sent
  PROVE  /\ llhttp_spans(in) \in Seq(Spans)
         /\ llhttp_spans(Append(in, r)) = llhttp_spans(in) \o request_spans(r)
<1> DEFINE Of(s) == [k \in DOMAIN s |-> request_spans(s[k])]
<1>1. Of(in) \in Seq(Seq(Spans))
  <2>1. ASSUME NEW k \in 1..Len(in) PROVE request_spans(in[k]) \in Seq(Spans)
    <3>1. in[k] \in Sent
      OBVIOUS
    <3> QED BY <3>1, RequestSpans
  <2> QED BY <2>1, IsASeq
<1>2. Of(Append(in, r)) = Append(Of(in), request_spans(r))
  OBVIOUS
<1>3. llhttp_spans(in) = FlattenSeq(Of(in)) /\ llhttp_spans(Append(in, r)) = FlattenSeq(Of(Append(in, r)))
  BY DEF llhttp_spans
<1> HIDE DEF Of
<1> QED BY <1>1, <1>2, <1>3, RequestSpans, FlattenType, FlattenAppend
-----------------------------------------------------------------------------
(* What is stored of the requests in: the last method, the last URL that   *)
(* has begun, all headers.                                                 *)
LastUrl(in) == LET urls == {k \in DOMAIN in : in[k].url # << >>}
               IN  IF urls = {} THEN << >> ELSE in[Max(urls)].url

SentHeaders(in) == FlattenSeq([k \in DOMAIN in |-> in[k].headers])

Kept(headers) == [k \in DOMAIN headers |-> [key |-> cstr(headers[k].key),
                                            value |-> cstr(headers[k].value)]]

Stored(in) ==
  /\ parsed(in) \in Request_t
  /\ cstr(parsed(in).method) = IF in = << >> THEN << >> ELSE <<Last(in).method>>
  /\ cstr(parsed(in).raw_path) = FlattenSeq(LastUrl(in))
  /\ Kept(parsed(in).headers) = SentHeaders(in)

LEMMA LastUrlAppend ==
  ASSUME NEW in \in Seq(Sent), NEW r \in Sent
  PROVE  LastUrl(Append(in, r)) = IF r.url # << >> THEN r.url ELSE LastUrl(in)
<1> DEFINE n == Len(in)
           ext == Append(in, r)
           Urls(s) == {k \in DOMAIN s : s[k].url # << >>}
<1>1. /\ n \in Nat /\ DOMAIN in = 1..n /\ DOMAIN ext = 1..n+1
      /\ ext[n + 1] = r /\ \A k \in 1..n : ext[k] = in[k]
  BY AppendProperties
<1> HIDE DEF ext, n
<1>2. Urls(ext) \in SUBSET (1..n + 1) /\ Urls(in) \in SUBSET (1..n)
  BY <1>1
<1>3. CASE r.url # << >>
  <2>1. n + 1 \in Urls(ext)
    BY <1>1, <1>3
  <2>2. Max(Urls(ext)) = n + 1
    <3> HIDE DEF Urls
    <3> QED BY <1>1, <1>2, <2>1, MaxInterval
  <2> QED BY <1>1, <1>3, <2>1, <2>2 DEF LastUrl, ext
<1>4. CASE r.url = << >>
  <2>1. Urls(ext) = Urls(in)
    <3>1. ASSUME NEW k \in 1..n+1 PROVE k \in Urls(ext) <=> k \in Urls(in)
      <4>1. CASE k = n + 1
        BY <1>1, <1>4, <4>1
      <4>2. CASE k \in 1..n
        BY <1>1, <4>2
      <4> QED BY <1>1, <4>1, <4>2
    <3> QED BY <1>1, <1>2, <3>1
  <2>2. Urls(in) # {} => Max(Urls(in)) \in 1..n
    <3>1. Urls(in) \in SUBSET (1..n + 1)
      BY <1>1, <1>2
    <3>2. Urls(in) # {} => Max(Urls(in)) \in Urls(in)
      <4> HIDE DEF Urls
      <4> QED BY <1>1, <3>1, MaxInterval
    <3> QED BY <1>2, <3>2
  <2>3. Urls(in) # {} => ext[Max(Urls(in))] = in[Max(Urls(in))]
    BY <1>1, <2>2
  <2>4. LastUrl(ext) = IF Urls(ext) = {} THEN << >> ELSE ext[Max(Urls(ext))].url
    BY DEF LastUrl
  <2>5. LastUrl(in) = IF Urls(in) = {} THEN << >> ELSE in[Max(Urls(in))].url
    BY DEF LastUrl
  <2> HIDE DEF Urls
  <2> QED BY <1>4, <2>1, <2>3, <2>4, <2>5 DEF ext
<1> QED BY <1>3, <1>4

LEMMA HeadersAppend ==
  ASSUME NEW in \in Seq(Sent), NEW r \in Sent
  PROVE  /\ SentHeaders(in) \in Seq(Header_t)
         /\ SentHeaders(Append(in, r)) = SentHeaders(in) \o r.headers
<1> DEFINE Of(s) == [k \in DOMAIN s |-> s[k].headers]
<1>1. Of(in) \in Seq(Seq(Header_t)) /\ r.headers \in Seq(Header_t)
  <2>1. ASSUME NEW k \in 1..Len(in) PROVE in[k].headers \in Seq(Header_t)
    <3>1. in[k] \in Sent
      OBVIOUS
    <3> QED BY <3>1 DEF Sent
  <2>2. r.headers \in Seq(Header_t)
    BY DEF Sent
  <2> QED BY <2>1, <2>2, IsASeq
<1>2. Of(Append(in, r)) = Append(Of(in), r.headers)
  OBVIOUS
<1>3. SentHeaders(in) = FlattenSeq(Of(in)) /\ SentHeaders(Append(in, r)) = FlattenSeq(Of(Append(in, r)))
  BY DEF SentHeaders
<1> HIDE DEF Of
<1> QED BY <1>1, <1>2, <1>3, FlattenType, FlattenAppend

LEMMA StoredNothing == Stored(<< >>)
<1>1. llhttp_spans(<< >>) = << >> /\ parsed(<< >>) = http_request_t_init
  <2>1. [k \in DOMAIN << >> |-> request_spans(<< >>[k])] = << >>
    OBVIOUS
  <2> QED BY <2>1, FlattenEmpty, FoldOnEmpty DEF llhttp_spans, parsed
<1>2. LastUrl(<< >>) = << >> /\ SentHeaders(<< >>) = << >>
  <2>1. [k \in DOMAIN << >> |-> << >>[k].headers] = << >>
    OBVIOUS
  <2>2. {k \in DOMAIN << >> : << >>[k].url # << >>} = {}
    OBVIOUS
  <2> QED BY <2>1, <2>2, FlattenEmpty DEF LastUrl, SentHeaders
<1>3. Kept(<< >>) = << >>
  BY DEF Kept
<1> QED
  BY <1>1, <1>2, <1>3, InitType, CstrZeros, FlattenEmpty DEF Stored, http_request_t_init

LEMMA OnMethod ==
  ASSUME NEW r \in Request_t, NEW at
  PROVE  on(r, Span("method", at)) = [r EXCEPT !.method = store(r.method, at)]
BY DEF on, Span

LEMMA OnUrl ==
  ASSUME NEW r \in Request_t, NEW at
  PROVE  on(r, Span("url", at)) = [r EXCEPT !.raw_path = store(r.raw_path, at)]
BY DEF on, Span

LEMMA OnHeader ==
  ASSUME NEW r \in Request_t, NEW h
  PROVE  LET f == [key |-> store(r.cur_header.key, h.key),
                   value |-> store(r.cur_header.value, h.value)]
         IN  on(on(r, Span("header_field", h.key)), Span("header_value", h.value))
               = [r EXCEPT !.cur_header = f, !.headers = Append(r.headers, f)]
<1> DEFINE half == [r.cur_header EXCEPT !.key = store(r.cur_header.key, h.key)]
           q == [r EXCEPT !.cur_header = half]
           f == [key |-> store(r.cur_header.key, h.key),
                 value |-> store(r.cur_header.value, h.value)]
<1>1. on(r, Span("header_field", h.key)) = q
  BY DEF on, Span
<1>2. /\ q.headers = r.headers /\ q.cur_header = half
      /\ half.value = r.cur_header.value
      /\ [half EXCEPT !.value = store(half.value, h.value)] = f
  <2>1. r.cur_header \in Field_t
    BY DEF Request_t
  <2>2. half = [key |-> store(r.cur_header.key, h.key), value |-> r.cur_header.value]
    BY <2>1 DEF Field_t
  <2> HIDE DEF half
  <2>3. /\ half.value = r.cur_header.value
        /\ [half EXCEPT !.value = store(half.value, h.value)] = f
    BY <2>2
  <2>4. q.headers = r.headers /\ q.cur_header = half
    BY DEF Request_t
  <2> QED BY <2>3, <2>4
<1>3. on(q, Span("header_value", h.value))
        = [q EXCEPT !.cur_header = f, !.headers = Append(r.headers, f)]
  <2>1. on(q, Span("header_value", h.value)) = on_header_value(q, h.value)
    BY DEF on, Span
  <2> HIDE DEF q, f, half
  <2> QED BY <1>2, <2>1 DEF on_header_value
<1>4. [q EXCEPT !.cur_header = f, !.headers = Append(r.headers, f)]
        = [r EXCEPT !.cur_header = f, !.headers = Append(r.headers, f)]
  BY DEF Request_t
<1> QED BY <1>1, <1>3, <1>4

(* A request without headers. *)
LEMMA StoredRequest ==
  ASSUME NEW in \in Seq(Sent), NEW r \in Sent, Stored(in), r.headers = << >>
  PROVE  Stored(Append(in, r))
<1> DEFINE ext == Append(in, r)
           m == Span("method", <<r.method>>)
           u == Span("url", Raw(r))
           p == parsed(in)
           q == on(p, m)
<1>1. /\ llhttp_spans(in) \in Seq(Spans) /\ m \in Spans
      /\ r.url # << >> => u \in Spans
      /\ llhttp_spans(ext) = llhttp_spans(in) \o request_spans(r)
  BY SpansAppend, RequestSpans
<1>2. request_spans(r) = <<m>> \o UrlSpan(r)
  <2>1. AllHeaderSpans(<< >>) = << >>
    BY DEF AllHeaderSpans
  <2>2. request_spans(r) = <<m>> \o UrlSpan(r) \o << >>
    BY <2>1, RequestSpans, FlattenEmpty
  <2>3. UrlSpan(r) \in Seq(Spans) /\ m \in Spans
    BY <1>1, RequestSpans
  <2> HIDE DEF m
  <2>4. <<m>> \in Seq(Spans)
    BY <2>3
  <2>5. <<m>> \o UrlSpan(r) \in Seq(Spans)
    BY <2>3, <2>4, ConcatProperties
  <2> QED BY <2>2, <2>5, ConcatEmptySeq
<1>3. /\ p \in Request_t /\ q \in Request_t /\ p.method \in Buffer /\ p.raw_path \in Buffer
      /\ q = [p EXCEPT !.method = store(p.method, <<r.method>>)]
      /\ q.method = store(p.method, <<r.method>>) /\ q.raw_path = p.raw_path
      /\ q.headers = p.headers
  <2>1. p \in Request_t /\ q = [p EXCEPT !.method = store(p.method, <<r.method>>)]
    BY OnMethod DEF Stored
  <2> HIDE DEF p, q
  <2>2. q.method = store(p.method, <<r.method>>) /\ q.raw_path = p.raw_path /\ q.headers = p.headers
    BY <2>1 DEF Request_t
  <2>3. q \in Request_t
    BY <1>1, <2>1, OnType DEF q
  <2> QED BY <2>1, <2>2, <2>3 DEF Request_t
<1>4. Append(llhttp_spans(in), m) \in Seq(Spans)
      /\ FoldLeft(on, http_request_t_init, Append(llhttp_spans(in), m)) = q
  BY <1>1, FoldOnAppend, AppendProperties DEF parsed
<1> HIDE DEF m, u, p, q
<1>5. cstr(q.method) = <<r.method>>
  <2>1. <<r.method>> \in Seq(Letter) /\ Len(<<r.method>>) < MaxSize
    BY BufferAssumption DEF Sent
  <2> QED BY <1>3, <2>1, CstrStore
<1>6. /\ ext # << >> /\ Last(ext) = r
      /\ SentHeaders(ext) = SentHeaders(in)
  <2>1. SentHeaders(ext) = SentHeaders(in) \o << >> /\ SentHeaders(in) \in Seq(Header_t)
    BY HeadersAppend
  <2> QED BY <2>1, ConcatEmptySeq DEF Last
<1>7. CASE r.url = << >>
  <2>1. llhttp_spans(ext) = Append(llhttp_spans(in), m)
    <3>1. UrlSpan(r) = << >> /\ <<m>> \in Seq(Spans)
      BY <1>1, <1>7 DEF UrlSpan
    <3>2. request_spans(r) = <<m>>
      BY <1>2, <3>1, ConcatEmptySeq
    <3> QED BY <1>1, <3>2, AppendIsConcat
  <2>2. parsed(ext) = q
    BY <1>4, <2>1 DEF parsed
  <2>3. LastUrl(ext) = LastUrl(in)
    BY <1>7, LastUrlAppend
  <2> QED BY <1>3, <1>5, <1>6, <2>2, <2>3 DEF Stored, p
<1>8. CASE r.url # << >>
  <2>1. llhttp_spans(ext) = Append(Append(llhttp_spans(in), m), u)
    <3>1. UrlSpan(r) = <<u>> /\ u \in Spans
      BY <1>1, <1>8 DEF UrlSpan, u
    <3>2. <<m>> \in Seq(Spans) /\ <<u>> \in Seq(Spans)
      BY <1>1, <3>1
    <3>3. llhttp_spans(ext) = (llhttp_spans(in) \o <<m>>) \o <<u>>
      BY <1>1, <1>2, <3>1, <3>2, ConcatAssociative
    <3> QED BY <1>1, <1>4, <3>1, <3>3, AppendIsConcat
  <2>2. parsed(ext) = on(q, u)
    BY <1>1, <1>4, <1>8, <2>1, FoldOnAppend DEF parsed
  <2>3. parsed(ext) = [q EXCEPT !.raw_path = store(q.raw_path, Raw(r))]
    BY <1>3, <2>2, OnUrl DEF u
  <2>4. parsed(ext) \in Request_t
    BY <1>1, <1>3, <1>8, <2>2, OnType
  <2>5. /\ parsed(ext).method = q.method /\ parsed(ext).headers = q.headers
        /\ parsed(ext).raw_path = store(p.raw_path, Raw(r))
    BY <1>3, <2>3 DEF Request_t
  <2>6. cstr(parsed(ext).raw_path) = Raw(r)
    BY <1>3, <2>5, RawType, CstrStore
  <2>7. FlattenSeq(LastUrl(ext)) = Raw(r)
    BY <1>8, LastUrlAppend DEF Raw
  <2> QED BY <1>3, <1>5, <1>6, <2>4, <2>5, <2>6, <2>7 DEF Stored, p
<1> QED BY <1>7, <1>8

(* One more header. *)
LEMMA StoredHeader ==
  ASSUME NEW in \in Seq(Sent), NEW r \in Sent, NEW h \in Header_t, Stored(Append(in, r))
  PROVE  /\ [r EXCEPT !.headers = Append(r.headers, h)] \in Sent
         /\ Stored(Append(in, [r EXCEPT !.headers = Append(r.headers, h)]))
<1> DEFINE r2 == [r EXCEPT !.headers = Append(r.headers, h)]
           ext == Append(in, r)
           ext2 == Append(in, r2)
           a == Span("header_field", h.key)
           b == Span("header_value", h.value)
           p == parsed(ext)
           f == [key |-> store(p.cur_header.key, h.key), value |-> store(p.cur_header.value, h.value)]
<1>1. r2 \in Sent /\ r2.method = r.method /\ r2.url = r.url /\ r2.headers = Append(r.headers, h)
      /\ r.headers \in Seq(Header_t)
  <2>1. r.headers \in Seq(Header_t) /\ Append(r.headers, h) \in Seq(Header_t)
    BY AppendProperties DEF Sent
  <2>2. Raw(r2) = Raw(r)
    BY DEF Raw, Sent
  <2> QED BY <2>1, <2>2 DEF Sent
<1>2. a \in Spans /\ b \in Spans /\ h.key \in Seq(Char) /\ h.value \in Seq(Char)
      /\ header_spans(h) = <<a, b>>
  BY DEF Span, Spans, Header_t, Char, header_spans
<1> HIDE DEF r2
<1>3. ext \in Seq(Sent) /\ llhttp_spans(ext) \in Seq(Spans)
  <2>1. ext \in Seq(Sent)
    BY AppendProperties
  <2> QED BY <2>1, SpansAppend
<1>4. llhttp_spans(ext2) = Append(Append(llhttp_spans(ext), a), b)
  <2> DEFINE s == llhttp_spans(in)
             m == <<Span("method", <<r.method>>)>> \o UrlSpan(r)
             t == FlattenSeq(AllHeaderSpans(r.headers))
  <2>1. s \in Seq(Spans) /\ m \in Seq(Spans) /\ t \in Seq(Spans) /\ <<a>> \in Seq(Spans) /\ <<b>> \in Seq(Spans)
    <3>1. <<Span("method", <<r.method>>)>> \in Seq(Spans) /\ UrlSpan(r) \in Seq(Spans)
      <4> DEFINE x == Span("method", <<r.method>>)
      <4>1. x \in Spans /\ UrlSpan(r) \in Seq(Spans)
        BY RequestSpans
      <4> HIDE DEF x
      <4>2. <<x>> \in Seq(Spans)
        BY <4>1
      <4> QED BY <4>1, <4>2 DEF x
    <3>2. m \in Seq(Spans)
      <4> HIDE DEF Span, Spans
      <4> QED BY <3>1, ConcatProperties
    <3>3. s \in Seq(Spans) /\ t \in Seq(Spans)
      BY <1>1, SpansAppend, AllHeaderSpansType
    <3>4. <<a>> \in Seq(Spans) /\ <<b>> \in Seq(Spans)
      <4> HIDE DEF a, b
      <4> QED BY <1>2
    <3> QED BY <3>2, <3>3, <3>4
  <2>2. Raw(r2) = Raw(r) /\ UrlSpan(r2) = UrlSpan(r)
    BY <1>1 DEF Raw, UrlSpan
  <2>3. llhttp_spans(ext) = s \o (m \o t)
    BY SpansAppend, RequestSpans
  <2>4. llhttp_spans(ext2) = s \o (m \o FlattenSeq(AllHeaderSpans(r2.headers)))
    BY <1>1, <2>2, SpansAppend, RequestSpans
  <2>5. FlattenSeq(AllHeaderSpans(r2.headers)) = Append(Append(t, a), b)
    <3>1. FlattenSeq(AllHeaderSpans(r2.headers)) = t \o <<a, b>>
      BY <1>1, <1>2, AllHeaderSpansAppend
    <3>2. t \o <<a, b>> = Append(Append(t, a), b)
      <4>1. <<a, b>> = Append(<<a>>, b) /\ Append(t, a) = t \o <<a>>
        BY <1>2, <2>1, AppendIsConcat
      <4> QED BY <1>2, <2>1, <4>1, ConcatAppend
    <3> QED BY <3>1, <3>2
  <2> HIDE DEF s, m, t, a, b
  <2>6. Append(t, a) \in Seq(Spans) /\ m \o t \in Seq(Spans) /\ m \o Append(t, a) \in Seq(Spans)
    BY <1>2, <2>1, AppendProperties, ConcatProperties
  <2>7. m \o Append(Append(t, a), b) = Append(Append(m \o t, a), b)
    <3>1. m \o Append(Append(t, a), b) = Append(m \o Append(t, a), b)
      <4>1. Append(t, a) \in Seq(Spans) /\ m \in Seq(Spans) /\ b \in Spans
        BY <1>2, <2>1, <2>6
      <4> QED BY <4>1, ConcatAppend
    <3>2. m \o Append(t, a) = Append(m \o t, a)
      <4>1. t \in Seq(Spans) /\ m \in Seq(Spans) /\ a \in Spans
        BY <1>2, <2>1
      <4> QED BY <4>1, ConcatAppend
    <3> QED BY <3>1, <3>2
  <2>8. s \o Append(Append(m \o t, a), b) = Append(Append(s \o (m \o t), a), b)
    <3>1. Append(m \o t, a) \in Seq(Spans)
      BY <1>2, <2>6, AppendProperties
    <3>2. s \o Append(Append(m \o t, a), b) = Append(s \o Append(m \o t, a), b)
      <4> DEFINE q == Append(m \o t, a)
      <4>1. s \in Seq(Spans) /\ q \in Seq(Spans) /\ b \in Spans
        BY <1>2, <2>1, <3>1
      <4> HIDE DEF q
      <4>2. s \o Append(q, b) = Append(s \o q, b)
        BY <4>1, ConcatAppend
      <4> QED BY <4>2 DEF q
    <3>3. s \o Append(m \o t, a) = Append(s \o (m \o t), a)
      <4>1. s \in Seq(Spans) /\ m \o t \in Seq(Spans) /\ a \in Spans
        BY <1>2, <2>1, <2>6
      <4> QED BY <4>1, ConcatAppend
    <3> QED BY <3>2, <3>3
  <2> QED BY <2>3, <2>4, <2>5, <2>7, <2>8
<1>5. p \in Request_t /\ p.cur_header.key \in Buffer /\ p.cur_header.value \in Buffer
      /\ p.headers \in Seq(Field_t)
  BY DEF Stored, Request_t, Field_t
<1>6. parsed(ext2) = on(on(p, a), b) /\ on(p, a) \in Request_t /\ on(on(p, a), b) \in Request_t
  <2>1. FoldLeft(on, http_request_t_init, Append(llhttp_spans(ext), a)) = on(p, a)
        /\ Append(llhttp_spans(ext), a) \in Seq(Spans)
    BY <1>2, <1>3, FoldOnAppend, AppendProperties DEF parsed
  <2>2. parsed(ext2) = on(on(p, a), b)
    BY <1>2, <1>4, <2>1, FoldOnAppend DEF parsed
  <2> HIDE DEF a, b, p
  <2> QED BY <1>2, <1>5, <2>2, OnType
<1>7. parsed(ext2) = [p EXCEPT !.cur_header = f, !.headers = Append(p.headers, f)]
  BY <1>5, <1>6, OnHeader
<1>8. f \in Field_t /\ cstr(f.key) = h.key /\ cstr(f.value) = h.value
  <2>1. /\ store(p.cur_header.key, h.key) \in Buffer
        /\ store(p.cur_header.value, h.value) \in Buffer
    BY <1>2, <1>5, StoreType
  <2>2. /\ cstr(store(p.cur_header.key, h.key)) = h.key
        /\ cstr(store(p.cur_header.value, h.value)) = h.value
    BY <1>5, CstrStore DEF Header_t
  <2> QED BY <2>1, <2>2 DEF Field_t
<1> HIDE DEF f, a, b, p
<1>9. /\ parsed(ext2).method = p.method /\ parsed(ext2).raw_path = p.raw_path
      /\ parsed(ext2).headers = Append(p.headers, f)
  BY <1>5, <1>7 DEF Request_t
<1>10. Kept(parsed(ext2).headers) = Append(Kept(p.headers), h)
  <2>1. Kept(Append(p.headers, f)) = Append(Kept(p.headers), [key |-> cstr(f.key), value |-> cstr(f.value)])
    BY <1>5, <1>8 DEF Kept
  <2>2. h = [key |-> h.key, value |-> h.value]
    BY DEF Header_t
  <2> QED BY <1>8, <1>9, <2>1, <2>2
<1>11. SentHeaders(ext2) = Append(SentHeaders(ext), h)
  <2>1. /\ SentHeaders(in) \in Seq(Header_t) /\ SentHeaders(ext) = SentHeaders(in) \o r.headers
        /\ SentHeaders(ext2) = SentHeaders(in) \o Append(r.headers, h)
    BY <1>1, HeadersAppend
  <2> DEFINE s == SentHeaders(in)
  <2> HIDE DEF s, ext, ext2
  <2>2. s \o Append(r.headers, h) = Append(s \o r.headers, h)
    <3>1. s \in Seq(Header_t) /\ r.headers \in Seq(Header_t) /\ h \in Header_t
      BY <1>1, <2>1 DEF s
    <3> QED BY <3>1, ConcatAppend
  <2> QED BY <2>1, <2>2 DEF s
<1>12. LastUrl(ext2) = LastUrl(ext)
  BY <1>1, LastUrlAppend
<1>13. ext # << >> /\ ext2 # << >> /\ Last(ext2).method = Last(ext).method
  BY <1>1 DEF Last
<1>14. /\ cstr(p.method) = <<Last(ext).method>> /\ cstr(p.raw_path) = FlattenSeq(LastUrl(ext))
       /\ Kept(p.headers) = SentHeaders(ext)
  BY <1>13 DEF Stored, p
<1>15. Stored(ext2)
  BY <1>6, <1>9, <1>10, <1>11, <1>12, <1>13, <1>14 DEF Stored
<1> QED BY <1>1, <1>15 DEF r2

(* One more request, with all its headers. *)
LEMMA StoredAppend ==
  ASSUME NEW in \in Seq(Sent), NEW r \in Sent, Stored(in)
  PROVE  Stored(Append(in, r))
<1> DEFINE with(hs) == [r EXCEPT !.headers = hs]
           T == {hs \in Seq(Header_t) : with(hs) \in Sent /\ Stored(Append(in, with(hs)))}
<1>1. << >> \in T
  <2>1. << >> \in Seq(Header_t) /\ with(<< >>).headers = << >> /\ with(<< >>) \in Sent
    BY EmptySeq DEF Sent, Raw
  <2>2. Stored(Append(in, with(<< >>)))
    <3> HIDE DEF with
    <3> QED BY <2>1, StoredRequest
  <2> QED BY <2>1, <2>2
<1>2. ASSUME NEW hs \in Seq(Header_t), NEW h \in Header_t, hs \in T PROVE Append(hs, h) \in T
  <2>1. with(hs) \in Sent /\ Stored(Append(in, with(hs)))
    BY <1>2
  <2>2. with(Append(hs, h)) = [with(hs) EXCEPT !.headers = Append(with(hs).headers, h)]
    BY DEF Sent
  <2>3. with(Append(hs, h)) \in Sent /\ Stored(Append(in, with(Append(hs, h))))
    <3> HIDE DEF with
    <3> QED BY <2>1, <2>2, StoredHeader
  <2>4. Append(hs, h) \in Seq(Header_t)
    BY AppendProperties
  <2> QED BY <2>3, <2>4
<1>3. r.headers \in T
  <2>1. r.headers \in Seq(Header_t)
    BY DEF Sent
  <2> HIDE DEF T
  <2> QED BY <1>1, <1>2, <2>1, SequenceInduction
<1>4. with(r.headers) = r
  BY DEF Sent
<1> QED BY <1>3, <1>4

(* Whatever requests the client sends. *)
LEMMA EverythingStored ==
  ASSUME NEW in \in Seq(Sent)
  PROVE  Stored(in)
<1> DEFINE T == {s \in Seq(Sent) : Stored(s)}
<1>1. << >> \in T
  BY EmptySeq, StoredNothing
<1>2. \A s \in Seq(Sent), r \in Sent : s \in T => Append(s, r) \in T
  BY StoredAppend, AppendProperties
<1>3. in \in T
  <2> HIDE DEF T
  <2> QED BY <1>1, <1>2, SequenceInduction
<1> QED BY <1>3
-----------------------------------------------------------------------------
(* url.c *)
Query_t == [key : Buffer, value : Buffer]

Url_t == [path : Seq(Letter), queries : [0..MaxQueries-1 -> Query_t], query_count : Nat,
          found : BOOLEAN, qeury_name : BOOLEAN, j : Nat]

(* What a write changes, also one beside the arrays. *)
LEMMA PutIs ==
  ASSUME NEW s \in Url_t, NEW field \in {"key", "value"}, NEW ch \in Char
  PROVE  \E q \in [0..MaxQueries-1 -> Query_t] : put(s, field, ch) = [s EXCEPT !.queries = q]
<1> DEFINE n == s.query_count
           old == s.queries
           q == [old EXCEPT ![n][field][s.j] = ch]
<1>1. old \in [0..MaxQueries-1 -> Query_t]
  BY DEF Url_t
<1>2. q \in [0..MaxQueries-1 -> Query_t]
  <2>1. CASE n \in 0..MaxQueries-1
    <3> DEFINE b == [old[n][field] EXCEPT ![s.j] = ch]
               e == [old[n] EXCEPT ![field] = b]
    <3>1. old[n] \in Query_t
      BY <1>1, <2>1
    <3>2. b \in Buffer
      <4>1. old[n][field] \in Buffer
        BY <3>1 DEF Query_t
      <4> QED BY <4>1 DEF Buffer
    <3>3. e \in Query_t
      <4> HIDE DEF b
      <4> QED BY <3>1, <3>2 DEF Query_t
    <3>4. q = [old EXCEPT ![n] = e]
      OBVIOUS
    <3> HIDE DEF e, q
    <3> QED BY <1>1, <3>3, <3>4
  <2>2. CASE n \notin 0..MaxQueries-1
    BY <1>1, <2>2
  <2> QED BY <2>1, <2>2
<1>3. put(s, field, ch) = [s EXCEPT !.queries = q]
  BY DEF put
<1> HIDE DEF q
<1> QED BY <1>2, <1>3

(* What every step of the query keeps. *)
Onward(s, q, n, i, b) ==
  [path |-> s.path, queries |-> q, query_count |-> n, found |-> s.found, qeury_name |-> b, j |-> i]

LEMMA OnwardType ==
  ASSUME NEW s \in Url_t, NEW q \in [0..MaxQueries-1 -> Query_t], NEW n \in Nat, NEW i \in Nat,
         NEW b \in BOOLEAN
  PROVE  /\ Onward(s, q, n, i, b) \in Url_t
         /\ Onward(s, q, n, i, b).path = s.path /\ (Onward(s, q, n, i, b).found <=> s.found)
<1>1. Onward(s, q, n, i, b) \in Url_t
  BY DEF Onward, Url_t
<1>2. Onward(s, q, n, i, b).path = s.path
  BY DEF Onward
<1>3. Onward(s, q, n, i, b).found = s.found
  BY DEF Onward
<1> QED BY <1>1, <1>2, <1>3

LEMMA PutOnward ==
  ASSUME NEW s \in Url_t, NEW field \in {"key", "value"}, NEW ch \in Char
  PROVE  \E q \in [0..MaxQueries-1 -> Query_t] :
           put(s, field, ch) = Onward(s, q, s.query_count, s.j, s.qeury_name)
<1>1. PICK q \in [0..MaxQueries-1 -> Query_t] : put(s, field, ch) = [s EXCEPT !.queries = q]
  BY PutIs
<1>2. [s EXCEPT !.queries = q] = Onward(s, q, s.query_count, s.j, s.qeury_name)
  BY DEF Url_t, Onward
<1> QED BY <1>1, <1>2

LEMMA AtAmpersand ==
  ASSUME NEW s \in Url_t
  PROVE  \E q \in [0..MaxQueries-1 -> Query_t] :
           at_ampersand(s) = Onward(s, q, s.query_count + 1, 0, TRUE)
<1>0. NUL \in Char
  BY DEF Char
<1>1. PICK q \in [0..MaxQueries-1 -> Query_t] :
        put(s, "value", NUL) = Onward(s, q, s.query_count, s.j, s.qeury_name)
  BY <1>0, PutOnward
<1>2. at_ampersand(s) = Onward(s, q, s.query_count + 1, 0, TRUE)
  <2> DEFINE p == put(s, "value", NUL)
  <2>1. at_ampersand(s) = [p EXCEPT !.query_count = @ + 1, !.j = 0, !.qeury_name = TRUE]
    BY DEF at_ampersand
  <2> HIDE DEF p
  <2>2. p = Onward(s, q, s.query_count, s.j, s.qeury_name)
    BY <1>1 DEF p
  <2> QED BY <2>1, <2>2 DEF Onward
<1> QED BY <1>2

LEMMA AtEquals ==
  ASSUME NEW s \in Url_t
  PROVE  \E q \in [0..MaxQueries-1 -> Query_t] :
           at_equals(s) = Onward(s, q, s.query_count, 0, FALSE)
<1>0. NUL \in Char
  BY DEF Char
<1>1. PICK q \in [0..MaxQueries-1 -> Query_t] :
        put(s, "key", NUL) = Onward(s, q, s.query_count, s.j, s.qeury_name)
  BY <1>0, PutOnward
<1>2. at_equals(s) = Onward(s, q, s.query_count, 0, FALSE)
  <2> DEFINE p == put(s, "key", NUL)
  <2>1. at_equals(s) = [p EXCEPT !.j = 0, !.qeury_name = FALSE]
    BY DEF at_equals
  <2> HIDE DEF p
  <2>2. p = Onward(s, q, s.query_count, s.j, s.qeury_name)
    BY <1>1 DEF p
  <2> QED BY <2>1, <2>2 DEF Onward
<1> QED BY <1>2

LEMMA InQuery ==
  ASSUME NEW s \in Url_t, NEW ch \in Letter
  PROVE  \E q \in [0..MaxQueries-1 -> Query_t] :
           in_query(s, ch) = Onward(s, q, s.query_count, s.j + 1, s.qeury_name)
<1> DEFINE field == IF s.qeury_name THEN "key" ELSE "value"
<1>0. field \in {"key", "value"} /\ ch \in Char
  BY DEF Char
<1>1. PICK q \in [0..MaxQueries-1 -> Query_t] :
        put(s, field, ch) = Onward(s, q, s.query_count, s.j, s.qeury_name)
  <2> HIDE DEF field
  <2> QED BY <1>0, PutOnward
<1>2. in_query(s, ch) = [put(s, field, ch) EXCEPT !.j = @ + 1]
  BY DEF in_query
<1>3. in_query(s, ch) = Onward(s, q, s.query_count, s.j + 1, s.qeury_name)
  <2> HIDE DEF field
  <2> QED BY <1>1, <1>2 DEF Onward
<1> QED BY <1>3

LEMMA InitUrlType == init_url \in Url_t
<1>1. Zeros \in Buffer
  BY DEF Zeros, Buffer, Char
<1>2. [k \in 0..MaxQueries-1 |-> [key |-> Zeros, value |-> Zeros]] \in [0..MaxQueries-1 -> Query_t]
  BY <1>1 DEF Query_t
<1> QED BY <1>2, EmptySeq DEF init_url, Url_t

(* Once the "?" is found, the path stays. *)
ReadsOn(s, ch, t) ==
  /\ s.found => t.found /\ t.path = s.path
  /\ ~s.found => IF ch = "?" THEN t.found /\ t.path = s.path
                 ELSE ~t.found /\ t.path = Append(s.path, ch)

LEMMA SplitCharType ==
  ASSUME NEW s \in Url_t, NEW ch \in Letter
  PROVE  split_char(s, ch) \in Url_t /\ ReadsOn(s, ch, split_char(s, ch))
<1> USE DEF ReadsOn
<1>2. CASE ~s.found
  <2>1. split_char(s, ch) = in_path(s, ch) /\ s.path \in Seq(Letter)
    BY <1>2 DEF split_char, Url_t
  <2>2. CASE ch = "?"
    <3>1. split_char(s, ch) = [s EXCEPT !.found = TRUE]
      BY <2>1, <2>2 DEF in_path
    <3> QED BY <1>2, <2>2, <3>1 DEF Url_t
  <2>3. CASE ch # "?"
    <3>1. split_char(s, ch) = [s EXCEPT !.path = Append(s.path, ch)]
      BY <2>1, <2>3 DEF in_path
    <3>2. Append(s.path, ch) \in Seq(Letter)
      BY <2>1, AppendProperties
    <3> QED BY <1>2, <2>3, <3>1, <3>2 DEF Url_t
  <2> QED BY <2>2, <2>3
<1>3. CASE s.found
  <2>1. s.query_count \in Nat /\ s.j \in Nat /\ s.qeury_name \in BOOLEAN
    BY DEF Url_t
  <2>2. split_char(s, ch) \in {at_ampersand(s), at_equals(s), in_query(s, ch)}
    BY <1>3 DEF split_char
  <2>3. PICK q \in [0..MaxQueries-1 -> Query_t], n \in Nat, i \in Nat, b \in BOOLEAN :
          split_char(s, ch) = Onward(s, q, n, i, b)
    <3>0. s.query_count + 1 \in Nat /\ s.j + 1 \in Nat /\ 0 \in Nat
          /\ TRUE \in BOOLEAN /\ FALSE \in BOOLEAN
      BY <2>1
    <3>1. CASE split_char(s, ch) = at_ampersand(s)
      <4>1. PICK q \in [0..MaxQueries-1 -> Query_t] :
              at_ampersand(s) = Onward(s, q, s.query_count + 1, 0, TRUE)
        BY AtAmpersand
      <4> QED BY <3>0, <3>1, <4>1
    <3>2. CASE split_char(s, ch) = at_equals(s)
      <4>1. PICK q \in [0..MaxQueries-1 -> Query_t] :
              at_equals(s) = Onward(s, q, s.query_count, 0, FALSE)
        BY AtEquals
      <4> QED BY <2>1, <3>0, <3>2, <4>1
    <3>3. CASE split_char(s, ch) = in_query(s, ch)
      <4>1. PICK q \in [0..MaxQueries-1 -> Query_t] :
              in_query(s, ch) = Onward(s, q, s.query_count, s.j + 1, s.qeury_name)
        BY InQuery
      <4> QED BY <2>1, <3>0, <3>3, <4>1
    <3> QED BY <2>2, <3>1, <3>2, <3>3
  <2>4. Onward(s, q, n, i, b) \in Url_t /\ Onward(s, q, n, i, b).path = s.path
        /\ (Onward(s, q, n, i, b).found <=> s.found)
    BY OnwardType
  <2> QED BY <1>3, <2>3, <2>4
<1> QED BY <1>2, <1>3

(* f[i]: the state of the loop after i characters. *)
Splits(f, text) ==
  /\ f \in [0..Len(text) -> Url_t]
  /\ f[0] = init_url
  /\ \A i \in 1..Len(text) : f[i] = split_char(f[i-1], text[i])
  /\ FoldLeft(split_char, init_url, text) = f[Len(text)]

LEMMA FoldSplit ==
  ASSUME NEW text \in Seq(Letter)
  PROVE  \E f : Splits(f, text)
<1> DEFINE n == Len(text)
           base == init_url
           step == [p \in Nat \X Url_t |->
                      IF p[1] \in 1..n THEN split_char(p[2], text[p[1]]) ELSE base]
<1>1. n \in Nat /\ DOMAIN text = 1..n /\ base \in Url_t /\ \A i \in 1..n : text[i] \in Letter
  BY InitUrlType
<1>2. step \in [Nat \X Url_t -> Url_t]
  <2>1. ASSUME NEW p \in Nat \X Url_t
        PROVE  (IF p[1] \in 1..n THEN split_char(p[2], text[p[1]]) ELSE base) \in Url_t
    BY <1>1, SplitCharType
  <2> QED BY <2>1
<1>3. ASSUME NEW i \in 1..n, NEW r \in Url_t PROVE step[<<i, r>>] = split_char(r, text[i])
  <2>1. <<i, r>> \in Nat \X Url_t /\ i \in 1..n
    BY <1>1
  <2> QED BY <2>1
<1> HIDE DEF step, n, base
<1>4. PICK it : Unfolds(it, Url_t, base, step, n)
  BY <1>1, <1>2, FoldTo
<1>5. /\ it \in [SUBSET (1..n) -> Url_t]
      /\ \A T \in SUBSET (1..n) :
           it[T] = IF T = {} THEN base ELSE step[<<Max(T), it[T \ {Max(T)}]>>]
  BY <1>4 DEF Unfolds
<1> DEFINE iter == CHOOSE it2 : it2 = [T \in SUBSET (1..n) |->
                      IF T = {} THEN base ELSE split_char(it2[T \ {Max(T)}], text[Max(T)])]
<1>6. it = [T \in SUBSET (1..n) |->
                      IF T = {} THEN base ELSE split_char(it[T \ {Max(T)}], text[Max(T)])]
  <2>1. ASSUME NEW T \in SUBSET (1..n)
        PROVE  it[T] = IF T = {} THEN base ELSE split_char(it[T \ {Max(T)}], text[Max(T)])
    <3>1. CASE T = {}
      BY <1>5, <3>1
    <3>2. CASE T # {}
      <4>1. Max(T) \in 1..n
        <5>1. T \in SUBSET (1..n + 1)
          BY <1>1
        <5>2. Max(T) \in T
          BY <1>1, <3>2, <5>1, MaxInterval
        <5> QED BY <5>2
      <4>2. it[T \ {Max(T)}] \in Url_t
        BY <1>5
      <4>3. step[<<Max(T), it[T \ {Max(T)}]>>] = split_char(it[T \ {Max(T)}], text[Max(T)])
        BY <1>3, <4>1, <4>2
      <4> QED BY <1>5, <3>2, <4>3
    <3> QED BY <3>1, <3>2
  <2> QED BY <1>5, <2>1
<1>7. iter = [T \in SUBSET (1..n) |->
                      IF T = {} THEN base ELSE split_char(iter[T \ {Max(T)}], text[Max(T)])]
  BY <1>6
<1>8. FoldLeft(split_char, base, text) = iter[1..n]
  BY <1>1 DEF FoldLeft, MapThenFoldSet
<1> HIDE DEF iter
<1>9. iter[1..0] = base
  BY <1>1, <1>7, 1..0 = {}
<1>10. ASSUME NEW i \in 1..n PROVE iter[1..i] = split_char(iter[1..i-1], text[i])
  <2>0. n \in Nat /\ i \in Nat /\ i <= n /\ 1 <= i
    BY <1>1
  <2>1. 1..i \in SUBSET (1..n) /\ 1..i # {} /\ i - 1 \in Nat /\ 1..i \in SUBSET (1..(i-1) + 1)
        /\ (i - 1) + 1 = i /\ i \in 1..i
    <3>1. 1..i \in SUBSET (1..n)
      BY <2>0
    <3>2. i \in 1..i /\ i - 1 \in Nat /\ (i - 1) + 1 = i
      BY <2>0
    <3> QED BY <3>1, <3>2
  <2>2. Max(1..i) = i
    BY <2>1, MaxInterval
  <2>3. (1..i) \ {i} = 1..i-1
    BY <2>1
  <2> QED BY <1>7, <2>1, <2>2, <2>3
<1> DEFINE f == [i \in 0..n |-> iter[1..i]]
<1>11. f[0] = base /\ \A i \in 1..n : f[i] = split_char(f[i-1], text[i])
  <2>1. \A i \in 1..n : i \in 0..n /\ i - 1 \in 0..n
    BY <1>1
  <2> QED BY <1>1, <1>9, <1>10, <2>1
<1> HIDE DEF f
<1>12. \A i \in 0..n : f[i] \in Url_t
  <2> DEFINE T == {i \in 0..n : f[i] \in Url_t}
  <2>1. 0 \in T
    BY <1>1, <1>11
  <2>2. ASSUME NEW k \in 0..n-1, k \in T PROVE k + 1 \in T
    <3>1. k + 1 \in 1..n /\ k + 1 \in 0..n /\ (k + 1) - 1 = k
      BY <1>1
    <3>2. split_char(f[k], text[k + 1]) \in Url_t
      BY <1>1, <2>2, <3>1, SplitCharType
    <3> QED BY <1>11, <3>1, <3>2
  <2>3. \A i \in 0..n : i \in T
    <3> HIDE DEF T
    <3> QED BY <1>1, <2>1, <2>2, Induction
  <2> QED BY <2>3
<1>13. f \in [0..n -> Url_t]
  BY <1>12 DEF f
<1>14. FoldLeft(split_char, base, text) = f[n]
  BY <1>1, <1>8 DEF f
<1>15. Splits(f, text)
  BY <1>11, <1>13, <1>14 DEF Splits, n, base
<1> QED BY <1>15

LEMMA FoldSplitEmpty == FoldLeft(split_char, init_url, << >>) = init_url
<1>1. << >> \in Seq(Letter) /\ Len(<< >>) = 0
  BY EmptySeq
<1>2. PICK f : Splits(f, << >>)
  BY <1>1, FoldSplit
<1> QED BY <1>1, <1>2 DEF Splits

LEMMA FoldSplitAppend ==
  ASSUME NEW text \in Seq(Letter), NEW ch \in Letter
  PROVE  /\ FoldLeft(split_char, init_url, text) \in Url_t
         /\ FoldLeft(split_char, init_url, Append(text, ch))
              = split_char(FoldLeft(split_char, init_url, text), ch)
<1> DEFINE n == Len(text)
           ext == Append(text, ch)
<1>1. /\ n \in Nat /\ ext \in Seq(Letter)
      /\ Len(ext) = n + 1 /\ ext[n + 1] = ch /\ \A i \in 1..n : ext[i] = text[i]
  BY AppendProperties
<1>2. PICK f : Splits(f, text)
  BY FoldSplit
<1> HIDE DEF n, ext
<1>3. PICK g : Splits(g, ext)
  BY <1>1, FoldSplit
<1>4. /\ f \in [0..n -> Url_t] /\ f[0] = init_url
      /\ \A i \in 1..n : f[i] = split_char(f[i-1], text[i])
      /\ FoldLeft(split_char, init_url, text) = f[n]
  BY <1>2 DEF Splits, n
<1>5. /\ g[0] = init_url
      /\ \A i \in 1..n+1 : g[i] = split_char(g[i-1], ext[i])
      /\ FoldLeft(split_char, init_url, ext) = g[n + 1]
  BY <1>1, <1>3 DEF Splits
<1>6. \A i \in 0..n : g[i] = f[i]
  <2> DEFINE T == {i \in 0..n : g[i] = f[i]}
  <2>1. 0 \in T
    BY <1>1, <1>4, <1>5
  <2>2. ASSUME NEW k \in 0..n-1, k \in T PROVE k + 1 \in T
    <3>1. k + 1 \in 1..n /\ k + 1 \in 0..n /\ k + 1 \in 1..n+1 /\ (k + 1) - 1 = k
      BY <1>1
    <3>2. g[k + 1] = split_char(g[k], ext[k + 1]) /\ f[k + 1] = split_char(f[k], text[k + 1])
      BY <1>4, <1>5, <3>1
    <3> QED BY <1>1, <2>2, <3>1, <3>2
  <2>3. \A i \in 0..n : i \in T
    <3> HIDE DEF T
    <3> QED BY <1>1, <2>1, <2>2, Induction
  <2> QED BY <2>3
<1>7. n \in 0..n /\ n + 1 \in 1..n+1 /\ (n + 1) - 1 = n
  BY <1>1
<1>8. g[n + 1] = split_char(f[n], ch)
  BY <1>1, <1>5, <1>6, <1>7
<1> QED BY <1>4, <1>5, <1>7, <1>8 DEF ext
-----------------------------------------------------------------------------
(* The path ends before the first "?". *)
Question(s) == SelectInSeq(s, LAMBDA ch : ch = "?")

Before(s) == IF Question(s) = 0 THEN s ELSE SubSeq(s, 1, Question(s) - 1)

LEMMA QuestionIs ==
  ASSUME NEW s \in Seq(Letter)
  PROVE  \/ Question(s) = 0 /\ \A k \in 1..Len(s) : s[k] # "?"
         \/ /\ Question(s) \in 1..Len(s) /\ s[Question(s)] = "?"
            /\ \A k \in 1..Question(s)-1 : s[k] # "?"
<1> DEFINE I == {i \in 1..Len(s) : s[i] = "?"}
           least == CHOOSE x \in I : \A y \in I : x <= y
<1>1. Question(s) = IF I # {} THEN least ELSE 0
  BY DEF Question, SelectInSeq, Min
<1>2. CASE I = {}
  BY <1>1, <1>2
<1>3. CASE I # {}
  <2>1. I \in SUBSET Nat
    OBVIOUS
  <2>2. least \in I /\ \A y \in I : least <= y
    <3>1. \E n \in I : \A m \in I : n <= m
      <4> HIDE DEF I
      <4> QED BY <1>3, <2>1, LeastNumber
    <3> HIDE DEF I
    <3> QED BY <3>1
  <2> HIDE DEF least
  <2>3. \A k \in 1..least-1 : s[k] # "?"
    <3> SUFFICES ASSUME NEW k \in 1..least-1, s[k] = "?" PROVE FALSE
      OBVIOUS
    <3>1. least \in 1..Len(s) /\ k \in 1..Len(s)
      BY <2>2
    <3>2. least <= k
      BY <2>2, <3>1
    <3> QED BY <3>1, <3>2
  <2> QED BY <1>1, <1>3, <2>2, <2>3
<1> QED BY <1>2, <1>3

LEMMA PathIs ==
  ASSUME NEW s \in Seq(Letter)
  PROVE  seperate_query(s).path = Before(s)
<1> DEFINE n == Len(s)
           q == Question(s)
<1>1. PICK f : Splits(f, s)
  BY FoldSplit
<1>2. /\ f \in [0..n -> Url_t] /\ f[0] = init_url
      /\ \A i \in 1..n : f[i] = split_char(f[i-1], s[i])
      /\ FoldLeft(split_char, init_url, s) = f[n]
  BY <1>1 DEF Splits
<1> DEFINE Reads(i) == IF q = 0 \/ i < q THEN ~f[i].found /\ f[i].path = SubSeq(s, 1, i)
                       ELSE f[i].found /\ f[i].path = SubSeq(s, 1, q - 1)
           T == {i \in 0..n : Reads(i)}
<1>3. /\ n \in Nat /\ \A i \in 1..n : s[i] \in Letter
      /\ q \in 0..n /\ (q # 0 => s[q] = "?" /\ \A k \in 1..q-1 : s[k] # "?")
      /\ q = 0 => \A k \in 1..n : s[k] # "?"
  BY QuestionIs
<1>4. /\ SubSeq(s, 1, 0) = << >> /\ SubSeq(s, 1, n) = s
      /\ \A k \in 0..n-1 : SubSeq(s, 1, k + 1) = Append(SubSeq(s, 1, k), s[k + 1])
  BY ByAppending
<1> HIDE DEF n, q
<1>5. 0 \in T
  <2>1. ~f[0].found /\ f[0].path = << >>
    BY <1>2 DEF init_url
  <2>2. q = 0 \/ 0 < q
    BY <1>3
  <2>3. Reads(0)
    BY <1>4, <2>1, <2>2
  <2>4. 0 \in 0..n
    BY <1>3
  <2> HIDE DEF Reads
  <2> QED BY <2>3, <2>4
<1>6. ASSUME NEW i \in 0..n-1, i \in T PROVE i + 1 \in T
  <2>1. i + 1 \in 1..n /\ i + 1 \in 0..n /\ (i + 1) - 1 = i /\ i \in 0..n /\ q \in Nat
    BY <1>3
  <2>2. f[i + 1] = split_char(f[i], s[i + 1]) /\ f[i] \in Url_t /\ s[i + 1] \in Letter
    BY <1>2, <1>3, <2>1
  <2>8. ReadsOn(f[i], s[i + 1], f[i + 1])
    BY <2>2, SplitCharType
  <2>3. /\ f[i].found => f[i + 1].found /\ f[i + 1].path = f[i].path
        /\ ~f[i].found => IF s[i + 1] = "?" THEN f[i + 1].found /\ f[i + 1].path = f[i].path
                          ELSE ~f[i + 1].found /\ f[i + 1].path = Append(f[i].path, s[i + 1])
    BY <2>8 DEF ReadsOn
  <2>4. Reads(i)
    BY <1>6
  <2>5. CASE q = 0 \/ i + 1 < q
    <3>1. s[i + 1] # "?"
      BY <1>3, <2>1, <2>5
    <3>2. ~f[i].found /\ f[i].path = SubSeq(s, 1, i)
      BY <2>1, <2>4, <2>5
    <3>3. ~f[i + 1].found /\ f[i + 1].path = SubSeq(s, 1, i + 1)
      BY <1>4, <2>3, <3>1, <3>2
    <3> QED BY <2>1, <2>5, <3>3
  <2>6. CASE q # 0 /\ i + 1 = q
    <3>1. s[i + 1] = "?" /\ i = q - 1 /\ i < q
      BY <1>3, <2>1, <2>6
    <3>2. ~f[i].found /\ f[i].path = SubSeq(s, 1, i)
      BY <2>4, <3>1
    <3>3. f[i + 1].found /\ f[i + 1].path = SubSeq(s, 1, q - 1)
      BY <2>3, <3>1, <3>2
    <3>4. ~(q = 0 \/ i + 1 < q)
      BY <2>1, <2>6
    <3> QED BY <2>1, <3>3, <3>4
  <2>7. CASE q # 0 /\ i + 1 > q
    <3>1. ~(q = 0 \/ i < q) /\ ~(q = 0 \/ i + 1 < q)
      BY <2>1, <2>7
    <3>2. f[i].found /\ f[i].path = SubSeq(s, 1, q - 1)
      BY <2>4, <3>1
    <3> QED BY <2>1, <2>3, <3>1, <3>2
  <2> QED BY <2>1, <2>5, <2>6, <2>7
<1>7. n \in T
  <2>1. \A i \in 0..n : i \in T
    <3> HIDE DEF T
    <3> QED BY <1>3, <1>5, <1>6, Induction
  <2> QED BY <1>3, <2>1
<1>8. f[n].path = Before(s)
  <2>1. Reads(n)
    BY <1>7
  <2>2. q # 0 => ~(q = 0 \/ n < q)
    BY <1>3
  <2>3. Before(s) = IF q = 0 THEN s ELSE SubSeq(s, 1, q - 1)
    BY DEF Before, q
  <2>4. f[n].path = IF q = 0 THEN SubSeq(s, 1, n) ELSE SubSeq(s, 1, q - 1)
    BY <2>1, <2>2
  <2> QED BY <1>4, <2>3, <2>4
<1>9. f[n] \in Url_t /\ NUL \in Char
  BY <1>2, <1>3 DEF Char
<1>10. seperate_query(s).path = f[n].path
  <2> DEFINE p == put(f[n], "value", NUL)
  <2>1. PICK q2 \in [0..MaxQueries-1 -> Query_t] :
          p = Onward(f[n], q2, f[n].query_count, f[n].j, f[n].qeury_name)
    BY <1>9, PutOnward
  <2>2. seperate_query(s) \in {[p EXCEPT !.query_count = @ + 1], f[n]}
    BY <1>2 DEF seperate_query
  <2> HIDE DEF p
  <2>3. [p EXCEPT !.query_count = @ + 1].path = f[n].path
    BY <2>1 DEF Onward
  <2> QED BY <2>2, <2>3
<1> QED BY <1>8, <1>10
==============================================================================
