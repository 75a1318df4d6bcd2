--------------------------------- MODULE Url ---------------------------------
(***************************************************************************)
(* What a request's URL becomes: decode_url (src/src/url/decoder.c) and    *)
(* seperate_query (src/src/url/url.c), which a worker runs in              *)
(* parse_http_request.  Characters are one-character strings.              *)
(*                                                                         *)
(* Definitions marked Defective are what follows them with a mistake.      *)
(***************************************************************************)
EXTENDS Naturals, Sequences, SequencesExt, TLC

CONSTANTS NUL,         \* '\0'
          MaxSize,     \* the size of the char arrays
          MaxQueries   \* MAX_QUERY_COUNT

ASSUME BufferAssumption == MaxSize \in Nat /\ MaxSize > 1 /\ MaxQueries \in Nat
-----------------------------------------------------------------------------
(* decoder.c *)
get_2_char == [ch \in {"0", "2", "3", "5", "7", "B", "F"} |->
                 CASE ch = "0" -> " " [] ch = "2" -> "\"" [] ch = "3" -> "#" [] ch = "5" -> "%"
                   [] ch = "7" -> "'" [] ch = "B" -> "+" [] ch = "F" -> "/"]

get_3_char == [ch \in {"A", "B", "C", "D", "E", "F"} |->
                 CASE ch = "A" -> ":" [] ch = "B" -> ";" [] ch = "C" -> "<"
                   [] ch = "D" -> "=" [] ch = "E" -> ">" [] ch = "F" -> "?"]

unescape(x, y) == IF x = "2" /\ y \in DOMAIN get_2_char THEN get_2_char[y]
                  ELSE IF x = "3" /\ y \in DOMAIN get_3_char THEN get_3_char[y]
                  ELSE NUL

(* What a URL is made of, decoded or not, and what a char may hold. *)
Letter == STRING \cup {get_2_char[y] : y \in DOMAIN get_2_char}
                 \cup {get_3_char[y] : y \in DOMAIN get_3_char}
Char == Letter \cup {NUL}

ASSUME NulAssumption == NUL \notin Letter

Decoded(s) == [ok |-> TRUE, url |-> s]
Undecodable == [ok |-> FALSE, url |-> << >>]

(* Defective: two characters have to follow an escape. *)
escape_fits_TooShort(i, n) == i < n - 3

(* The code's i < n - 3 counts from 0. *)
escape_fits(i, n) == i < n - 2

decode_url(url) ==
  LET n == Len(url)
      prepend(ch, rest) == IF rest.ok THEN Decoded(<<ch>> \o rest.url) ELSE rest
      from[i \in 1..n+1] ==
        IF i > n THEN Decoded(<< >>)
        ELSE IF url[i] # "%" \/ ~escape_fits(i, n) THEN prepend(url[i], from[i + 1])
        ELSE IF unescape(url[i + 1], url[i + 2]) = NUL THEN Undecodable
        ELSE prepend(unescape(url[i + 1], url[i + 2]), from[i + 3])
  IN from[1]
-----------------------------------------------------------------------------
(* url.c: url_t and the loop's found, qeury_name and j in one record. *)
Zeros == [m \in 0..MaxSize-1 |-> NUL]

init_url == [path |-> << >>,
             queries |-> [k \in 0..MaxQueries-1 |->
                            [key |-> Zeros, value |-> Zeros]],
             query_count |-> 0, found |-> FALSE, qeury_name |-> TRUE, j |-> 0]

put(s, field, ch) == [s EXCEPT !.queries[s.query_count][field][s.j] = ch]

(* Defective: j is not reset. *)
at_ampersand_KeepsJ(s) == [put(s, "value", NUL) EXCEPT !.query_count = @ + 1,
                                                       !.qeury_name = TRUE]

at_ampersand(s) == [put(s, "value", NUL) EXCEPT !.query_count = @ + 1,
                                                !.j = 0, !.qeury_name = TRUE]

(* Defective: j is not reset. *)
at_equals_KeepsJ(s) == [put(s, "key", NUL) EXCEPT !.qeury_name = FALSE]

at_equals(s) == [put(s, "key", NUL) EXCEPT !.j = 0, !.qeury_name = FALSE]

in_query(s, ch) == [put(s, IF s.qeury_name THEN "key" ELSE "value", ch) EXCEPT !.j = @ + 1]

in_path(s, ch) == IF ch = "?" THEN [s EXCEPT !.found = TRUE]
                  ELSE [s EXCEPT !.path = Append(@, ch)]

split_char(s, ch) == IF ~s.found THEN in_path(s, ch)
                     ELSE IF ch = "&" THEN at_ampersand(s)
                     ELSE IF ch = "=" THEN at_equals(s)
                     ELSE in_query(s, ch)

(* The loop over the decoded URL and the last value's terminator. *)
seperate_query(dec_path) ==
  LET s == FoldLeft(split_char, init_url, dec_path)
  IN  IF s.found THEN [put(s, "value", NUL) EXCEPT !.query_count = @ + 1] ELSE s

(* A C string of the given buffer. *)
cstr(buf) == LET n == CHOOSE k \in DOMAIN buf : buf[k] = NUL /\ \A m \in 0..k-1 : buf[m] # NUL
             IN  [k \in 1..n |-> buf[k - 1]]
=============================================================================
