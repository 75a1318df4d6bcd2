------------------------------- MODULE Request -------------------------------
(***************************************************************************)
(* What a worker reads out of the bytes of a connection: the callbacks of  *)
(* src/src/parser.c, which llhttp calls with one span of characters after  *)
(* another, and parse_http_request.                                        *)
(*                                                                         *)
(* The bytes are the requests the client has written so far, the last one  *)
(* possibly not to its end: a record per request, its URL in tokens (a     *)
(* character or an escape), its method one character.                      *)
(*                                                                         *)
(* Definitions marked Defective are what follows them with a mistake.      *)
(***************************************************************************)
EXTENDS Url

CONSTANT Method   \* the methods llhttp knows

http_request_t_init == [method |-> Zeros, raw_path |-> Zeros, headers |-> << >>,
                        cur_header |-> [key |-> Zeros, value |-> Zeros]]

(* Defective: no '\0' after the span. *)
store_Unterminated(buf, at) ==
  [k \in DOMAIN buf |-> IF k < Len(at) THEN at[k + 1] ELSE buf[k]]

(* memcpy of a span, and its '\0'. *)
store(buf, at) == [k \in DOMAIN buf |-> IF k < Len(at) THEN at[k + 1]
                                        ELSE IF k = Len(at) THEN NUL ELSE buf[k]]

on_header_value(r, at) ==
  LET h == [r.cur_header EXCEPT !.value = store(@, at)]
  IN  [r EXCEPT !.cur_header = h, !.headers = Append(@, h)]

on(r, span) == CASE span.on = "method" -> [r EXCEPT !.method = store(@, span.at)]
                 [] span.on = "url" -> [r EXCEPT !.raw_path = store(@, span.at)]
                 [] span.on = "header_field" -> [r EXCEPT !.cur_header.key = store(@, span.at)]
                 [] span.on = "header_value" -> on_header_value(r, span.at)

Span(callback, at) == [on |-> callback, at |-> at]

Raw(request) == FlattenSeq(request.url)

(* llhttp: the spans of every request in the buffer, one callback each; *)
(* none for a URL that has not begun.                                   *)
header_spans(h) == <<Span("header_field", h.key), Span("header_value", h.value)>>

request_spans(request) ==
  <<Span("method", <<request.method>>)>>
    \o (IF request.url = << >> THEN << >> ELSE <<Span("url", Raw(request))>>)
    \o FlattenSeq([h \in DOMAIN request.headers |-> header_spans(request.headers[h])])

llhttp_spans(input) == FlattenSeq([k \in DOMAIN input |-> request_spans(input[k])])

llhttp_accepts(input) == \A k \in DOMAIN input : input[k].method \in Method

parsed(input) == FoldLeft(on, http_request_t_init, llhttp_spans(input))

decoded(input) == decode_url(cstr(parsed(input).raw_path))

(* parse_http_request returns 0. *)
parses(input) == llhttp_accepts(input) /\ decoded(input).ok

url(input) == seperate_query(decoded(input).url)

(* POST is known too, and treated as what is not. *)
is_get(input) == cstr(parsed(input).method) = <<"GET">>
=============================================================================
