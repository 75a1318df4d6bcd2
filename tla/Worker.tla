-------------------------------- MODULE Worker --------------------------------
(***************************************************************************)
(* What a worker makes of a connection's bytes: handle_conn of             *)
(* src/src/http.c, from parse_http_request to generate_response, with the  *)
(* handlers of src/main.c and src/src/response.c, strings as in            *)
(* src/src/ds/buffer.c, allocations that fail and files that change while  *)
(* they are served.  In Server all of this is one outcome.                 *)
(*                                                                         *)
(* string_t is NULL, or the sequence of its characters; a word is one      *)
(* character.  The answer is the sequence of the strings appended to it.   *)
(* A file's type is an attribute of it: what follows the last dot of its   *)
(* path, "overlong" if that has 10 characters or more.                     *)
(*                                                                         *)
(* Definitions marked Defective are no part of Next: each is the           *)
(* definition that follows it with a plausible mistake.                    *)
(***************************************************************************)
EXTENDS Request, FiniteSets

CONSTANTS NULL,
          Token,       \* what URLs are made of: <<"a">>, <<"%", "3", "D">>, ...
          Header,      \* the headers of requests: [key, value]
          Handlers,    \* the routing table: [paths -> handler]
          Www,         \* the files when an answer is begun: [paths -> [kind, ext, data, linked]]
          Written,     \* the data a file may be overwritten with
          MaxTokens,   \* bound: methods, URL tokens and headers in the bytes read
          MaxHandled,  \* bound: the same, when the requests are answered
          MaxFaults,   \* bound: calls that fail in one answer
          MaxChanges,  \* bound: changes of the files during one answer
          MaxFds       \* the files that can be open

(* Requests that overrun the arrays are left out. *)
ASSUME SizeAssumption == /\ MaxTokens \in Nat /\ MaxSize > 3 * MaxTokens
                         /\ MaxQueries >= MaxTokens
                         /\ MaxHandled \in Nat /\ MaxHandled <= MaxTokens
ASSUME HeaderAssumption ==
  \A h \in Header : /\ h \in [key : Seq(Letter), value : Seq(Letter)]
                    /\ Len(h.key) < MaxSize /\ Len(h.value) < MaxSize

(* A "%" is the beginning of an escape. *)
ASSUME TokenAssumption ==
  \A t \in Token \cup {<<"/">>} : t \in Seq(Letter) /\ \/ Len(t) = 1 /\ t[1] # "%"
                                                       \/ Len(t) = 3 /\ t[1] = "%"
ASSUME MethodAssumption == Method \cup {"BAD"} \subseteq Letter

(* main registers two handlers. *)
ASSUME RouteAssumption == Handlers \in [DOMAIN Handlers -> {"home_page", "api_home_page"}]

File_t == [kind : {"regular", "directory"}, ext : STRING, data : Seq(Char), linked : BOOLEAN]
ASSUME FileAssumption == Www \in [DOMAIN Www -> File_t] /\ Written \subseteq Seq(Char)
ASSUME BoundAssumption == MaxFaults \in Nat /\ MaxChanges \in Nat /\ MaxFds \in Nat

VARIABLES
  pc,       \* where handle_conn is
  input,    \* tnode->buffer
  resp,     \* wctx->resp: its status code, headers and body
  size,     \* handle_static_files: file_size
  opened,   \* the path whose file file_fd refers to
  complete, \* resp in generate_response, then tnode->resp->complete_resp: its pieces
  fds,      \* the descriptors of files that are open
  www,      \* the files
  changes,  \* how many changes they have seen
  failed,   \* history: what has failed in this answer
  stable    \* history: no file has changed since this answer was begun

vars == <<pc, input, resp, size, opened, complete, fds, www, changes, failed, stable>>
files == <<fds, www, changes, stable>>

init_resp_ctx == [status_code |-> 0, headers |-> << >>, body |-> NULL]

(* What malloc returns may hold anything, an earlier answer's status too. *)
uninitialized == [init_resp_ctx EXCEPT !.status_code = 200]

Init == /\ pc = "read"
        /\ input = << >>
        /\ resp = uninitialized
        /\ size = 0 /\ opened = << >> /\ complete = NULL /\ fds = 0
        /\ www = Www /\ changes = 0
        /\ failed = {} /\ stable = TRUE

(* What may fail of the given calls. *)
Faults(calls) == {f \in SUBSET calls : Cardinality(failed \cup f) <= MaxFaults}
-----------------------------------------------------------------------------
(* buffer.c; ok: the allocation succeeds. *)
new_string(s, ok) == IF ok THEN s ELSE NULL

chars(s) == IF s = NULL THEN << >> ELSE s

copy_string(s, ok) == IF ok THEN chars(s) ELSE NULL

(* A C string has no NUL; b is not NULL. *)
appends_cstr(a, ok) == a # NULL /\ ok
append_string_cstr(a, b, ok) == IF appends_cstr(a, ok) THEN a \o b ELSE a

(* strncpy copies up to the first NUL and fills up with NULs. *)
strncpy(b) == [k \in DOMAIN b |-> IF \E m \in 1..k : b[m] = NUL THEN NUL ELSE b[k]]

(* Defective: what follows a NUL is dropped, and len with it. *)
append_string_Cuts(a, b, ok) ==
  IF a = NULL \/ b = NULL \/ ~ok THEN a
  ELSE Append(a, SelectSeq(strncpy(b), LAMBDA ch : ch # NUL))

append_string(a, b, ok) == IF a = NULL \/ b = NULL \/ ~ok THEN a ELSE Append(a, strncpy(b))
-----------------------------------------------------------------------------
(* The bytes of a connection, as its client writes them. *)
Size(in) == Len(FlattenSeq([k \in DOMAIN in |-> <<in[k].method>> \o in[k].url \o in[k].headers]))

reads(in) == /\ pc = "read"
             /\ Size(in) <= IF fds = 0 THEN MaxTokens ELSE MaxHandled
             /\ input' = in
             /\ UNCHANGED <<pc, resp, size, opened, complete, failed, files>>

last == Last(input)

(* A second request may follow a short one in the same bytes; what follows *)
(* a method that llhttp rejects does not matter.                           *)
read_method == /\ Size(input) < MaxHandled /\ Len(input) < 2
               /\ \E m \in Method \cup {"BAD"} :
                    reads(Append(input, [method |-> m, url |-> << >>, headers |-> << >>]))

read_url == /\ input # << >> /\ last.method \in Method /\ last.headers = << >>
            /\ \E t \in IF last.url = << >> THEN {<<"/">>} ELSE Token :
                 reads([input EXCEPT ![Len(input)].url = Append(@, t)])

read_header == /\ input # << >> /\ last.url # << >>
               /\ \E h \in Header :
                    reads([input EXCEPT ![Len(input)].headers = Append(@, h)])
-----------------------------------------------------------------------------
(* Defective: the path as the client wrote it, its query and escapes too.  *)
path_Raw == cstr(parsed(input).raw_path)

path == url(input).path

(* handle_conn up to the handler.  A request that does not parse is left   *)
(* without an answer, one that is not GET with an empty one.               *)
handle_conn == /\ pc = "read" /\ Size(input) <= MaxHandled
               /\ pc' = IF ~parses(input) THEN "silent"
                        ELSE IF ~is_get(input) THEN "status_line"
                        ELSE IF path \in DOMAIN Handlers THEN Handlers[path]
                        ELSE "handle_not_found"
               /\ resp' = init_resp_ctx
               /\ UNCHANGED <<input, size, opened, complete, failed, files>>
-----------------------------------------------------------------------------
(* Handlers.  set_header appends, to memory that is all '\0'. *)
Field(key, value) == [key |-> key, value |-> value]

set_headers(body, type, fields) ==
  <<Field("Content-Length", ToString(Len(chars(body)))), Field("Content-Type", type)>> \o fields

respond(status, body, headers) ==
  resp' = [status_code |-> status, headers |-> headers, body |-> body]

raw_path == cstr(parsed(input).raw_path)

(* main.c: home_page keeps the string it builds, api_home_page copies it; *)
(* both answer 500, with an empty body, when the path is not appended.     *)
page(copies) ==
  /\ \E f \in Faults({"new_string", "append_path"} \cup copies) :
       LET new  == new_string(<<"Path=">>, "new_string" \notin f)
           ok   == appends_cstr(new, "append_path" \notin f)
           temp == append_string_cstr(new, raw_path, "append_path" \notin f)
           body == IF ~ok THEN NULL
                   ELSE IF copies = {} THEN temp ELSE copy_string(temp, "copy" \notin f)
       IN  /\ respond(IF ok THEN 200 ELSE 500, body,
                      set_headers(body, "text/plain", <<Field("X-Hackerone-Id", "0xfaisal"),
                                                        Field("Connection", "close")>>))
           /\ failed' = failed \cup f
  /\ pc' = "status_line"
  /\ UNCHANGED <<input, size, opened, complete, files>>

home_page == pc = "home_page" /\ page({})

api_home_page == pc = "api_home_page" /\ page({"copy"})

not_found_page ==
  /\ pc = "not_found_page"
  /\ \E f \in Faults({"new_string", "append_path", "append_suffix", "copy"}) :
       LET new  == new_string(<<"Path=">>, "new_string" \notin f)
           mid  == append_string_cstr(new, raw_path, "append_path" \notin f)
           temp == append_string_cstr(mid, <<" not found">>, "append_suffix" \notin f)
           body == copy_string(temp, "copy" \notin f)
       IN  /\ respond(404, body, set_headers(body, "text/plain",
                                             <<Field("Connection", "keep-alive")>>))
           /\ failed' = failed \cup f
  /\ pc' = "status_line"
  /\ UNCHANGED <<input, size, opened, complete, files>>
-----------------------------------------------------------------------------
(* handle_not_found *)
exists(p) == p \in DOMAIN www /\ www[p].linked

no_path == /\ pc = "handle_not_found"
           /\ \E f \in Faults({"temp_path"}) \ {{}} : failed' = failed \cup f
           /\ resp' = [resp EXCEPT !.status_code = 500]
           /\ pc' = "status_line"
           /\ UNCHANGED <<input, size, opened, complete, files>>

stat_fails == /\ pc = "handle_not_found"
              /\ ~exists(path)
              /\ pc' = "not_found_page"
              /\ UNCHANGED <<input, resp, size, opened, complete, failed, files>>

(* A directory is not answered, nor is a file of an unknown type: get_mime *)
(* is -1.                                                                  *)
get_mime == [ext \in {"js", "html", "png", "css"} |->
               CASE ext = "js" -> "application/javascript" [] ext = "html" -> "text/html"
                 [] ext = "png" -> "image/png" [] ext = "css" -> "text/css"]

(* It writes past ext[10] when the type is too long.  The process may die  *)
(* of it, or go on: such a type is unknown as well.                        *)
get_mime_overflows ==
        /\ pc = "handle_not_found"
        /\ exists(path) /\ www[path].kind = "regular" /\ www[path].ext = "overlong"
        /\ pc' = "crashed"
        /\ UNCHANGED <<input, resp, size, opened, complete, failed, files>>

(* Defective: the type is not looked at. *)
stat_AnyType == /\ pc = "handle_not_found"
                /\ exists(path)
                /\ pc' = IF www[path].kind = "regular" THEN "open" ELSE "status_line"
                /\ size' = Len(www[path].data)
                /\ UNCHANGED <<input, resp, opened, complete, failed, files>>

stat == /\ pc = "handle_not_found"
        /\ exists(path)
        /\ pc' = IF www[path].kind = "regular" /\ www[path].ext \in DOMAIN get_mime
                 THEN "open" ELSE "status_line"
        /\ size' = Len(www[path].data)
        /\ UNCHANGED <<input, resp, opened, complete, failed, files>>

open == /\ pc = "open"
        /\ exists(path) /\ fds < MaxFds
        /\ fds' = fds + 1
        /\ opened' = path
        /\ resp' = [resp EXCEPT !.status_code = 200]
        /\ pc' = "read_file"
        /\ UNCHANGED <<input, size, complete, failed, www, changes, stable>>

(* The file is gone, or there is no descriptor: file_fd is never closed. *)
open_fails == /\ pc = "open"
              /\ ~exists(path) \/ fds = MaxFds
              /\ pc' = "status_line"
              /\ UNCHANGED <<input, resp, size, opened, complete, failed, files>>

(* Defective: the length announced is stat's. *)
handle_static_files_StatSize ==
  /\ pc = "read_file"
  /\ LET data == www[opened].data
         body == SubSeq(data, 1, IF size < Len(data) THEN size + 1 ELSE Len(data))
     IN  respond(200, body, set_headers([k \in 1..size |-> NUL], get_mime[www[opened].ext],
                                        <<Field("Connection", "keep-alive")>>))
  /\ pc' = "status_line"
  /\ UNCHANGED <<input, size, opened, complete, failed, files>>

(* file_size + 1 bytes are asked for, none when there is no memory. *)
handle_static_files ==
  /\ pc = "read_file"
  /\ \E f \in Faults({"new_n_string", "copy"}) :
       LET data == www[opened].data
           temp == IF "new_n_string" \in f THEN NULL
                   ELSE SubSeq(data, 1, IF size < Len(data) THEN size + 1 ELSE Len(data))
           body == copy_string(temp, "copy" \notin f)
       IN  /\ respond(200, body, set_headers(body, get_mime[www[opened].ext],
                                             <<Field("Connection", "keep-alive")>>))
           /\ failed' = failed \cup f
  /\ pc' = "status_line"
  /\ UNCHANGED <<input, size, opened, complete, files>>

read_fails == /\ pc = "read_file"
              /\ \E f \in Faults({"read"}) \ {{}} : failed' = failed \cup f
              /\ pc' = "status_line"
              /\ UNCHANGED <<input, resp, size, opened, complete, files>>
-----------------------------------------------------------------------------
(* generate_response: every piece is appended or, without memory, left out. *)
get_status_code(code) == CASE code = 404 -> "Not Found" [] code = 200 -> "OK"
                           [] code = 403 -> "Forbidden" [] OTHER -> "Internal Server Error"

crlf == "\r\n"
first_line(code) == <<"HTTP/1.1 ", ToString(code), " ", get_status_code(code), crlf>>
header_value(h) == <<h.key, ": ", h.value, crlf>>

(* What answers are made of: characters, the words of the source, printed  *)
(* numbers.                                                                *)
Numbers == {0, 200, 404, 500} \cup (0..MaxSize+1)
             \cup UNION {0..Len(d) : d \in Written \cup {Www[p].data : p \in DOMAIN Www}}

Word == Letter \cup {ToString(n) : n \in Numbers} \cup {get_mime[ext] : ext \in DOMAIN get_mime}
          \cup {"HTTP/1.1 ", " ", "OK", "Not Found", "Forbidden", "Internal Server Error", ": ", crlf,
                "Content-Length", "Content-Type", "Connection", "X-Hackerone-Id",
                "text/plain", "close", "keep-alive", "0xfaisal", "Path=", " not found"}

(* No word has a '\0' in it, and a null pointer is no string. *)
ASSUME WordAssumption ==
  NUL \notin Word /\ NULL \notin Seq(Word \cup {NUL}) \cup Seq(Seq(Word \cup {NUL}))

generates(p, c, f) == /\ complete' = c
                      /\ failed' = failed \cup f
                      /\ pc' = p
                      /\ UNCHANGED <<input, resp, size, opened, files>>

status_line ==
  /\ pc = "status_line"
  /\ \E f \in Faults({"resp", "append_line"}) :
       generates("headers", append_string(new_string(<< >>, "resp" \notin f),
                                          first_line(resp.status_code),
                                          "append_line" \notin f), f)

(* What is left of s without its elements at lost. *)
Without(s, lost) == FlattenSeq([k \in DOMAIN s |-> IF k \in lost THEN << >> ELSE <<s[k]>>])

lines(fields) == [k \in DOMAIN fields |-> header_value(fields[k])]

headers == /\ pc = "headers"
           /\ \E lost \in SUBSET DOMAIN resp.headers :
                LET f == IF lost = {} THEN {} ELSE {"append_header"}
                IN  /\ f \in Faults({"append_header"})
                    /\ generates("separator",
                                 IF complete = NULL THEN NULL
                                 ELSE complete \o Without(lines(resp.headers), lost), f)

separator == /\ pc = "separator"
             /\ \E f \in Faults({"new_separator", "append_separator"}) :
                  generates("body", append_string(complete,
                                                  new_string(<<crlf>>, "new_separator" \notin f),
                                                  "append_separator" \notin f), f)

body == /\ pc = "body"
        /\ \E f \in Faults({"copy_body", "append_body"}) :
             generates("done", append_string(complete,
                                             copy_string(resp.body, "copy_body" \notin f),
                                             "append_body" \notin f), f)

(* new_n_string for a line fails: snprintf and temp_resp.data[n] follow a  *)
(* null pointer.                                                           *)
no_line == /\ pc \in {"status_line", "headers"}
           /\ pc = "headers" => resp.headers # << >>
           /\ \E f \in Faults({"line"}) \ {{}} : generates("crashed", complete, f)
-----------------------------------------------------------------------------
(* Someone else overwrites, removes or restores a file. *)
file_changes == /\ changes < MaxChanges
                /\ pc \in {"handle_not_found", "open", "read_file"}
                /\ changes' = changes + 1
                /\ stable' = FALSE
                /\ \E p \in {q \in DOMAIN www : www[q].kind = "regular"} :
                     \/ \E d \in Written : www' = [www EXCEPT ![p].data = d]
                     \/ www' = [www EXCEPT ![p].linked = ~@]
                /\ UNCHANGED <<pc, input, resp, size, opened, complete, fds, failed>>

(* The next connection's bytes.  The files are back to what they were:     *)
(* changes are bounded per answer.                                         *)
next_task == /\ pc \in {"done", "silent"}
             /\ pc' = "read"
             /\ input' = << >> /\ resp' = uninitialized
             /\ size' = 0 /\ opened' = << >> /\ complete' = NULL
             /\ www' = Www /\ changes' = 0
             /\ failed' = {} /\ stable' = TRUE
             /\ UNCHANGED fds

Next == \/ read_method \/ read_url \/ read_header
        \/ handle_conn
        \/ home_page \/ api_home_page
        \/ no_path \/ stat_fails \/ not_found_page \/ stat \/ get_mime_overflows
        \/ open \/ open_fails \/ handle_static_files \/ read_fails
        \/ status_line \/ headers \/ separator \/ body \/ no_line
        \/ file_changes \/ next_task

Spec == Init /\ [][Next]_vars
-----------------------------------------------------------------------------
Generating == {"resp", "append_line", "append_header", "new_separator", "append_separator",
               "copy_body", "append_body", "line"}

TypeOK == /\ pc \in {"read", "silent", "handle_not_found", "not_found_page", "open", "read_file",
                     "status_line", "headers", "separator", "body", "done", "crashed"}
                    \cup Range(Handlers)
          /\ \A k \in DOMAIN input : /\ input[k].method \in Method \cup {"BAD"}
                                    /\ ToSet(input[k].headers) \subseteq Header
          /\ resp.status_code \in {0, 200, 404, 500} /\ Len(resp.headers) <= 4
          /\ fds \in 0..MaxFds /\ changes \in 0..MaxChanges
          /\ pc = "read_file" => www[opened].ext \in DOMAIN get_mime
          /\ complete = NULL \/ Len(complete) <= 3 + Len(resp.headers)
          /\ Cardinality(failed) <= MaxFaults /\ stable \in BOOLEAN

(* What a token stands for; NUL when the decoder has no character for it. *)
Meaning(t) == IF Len(t) = 1 THEN t[1] ELSE unescape(t[2], t[3])

(* The last URL the client has written, and what it stands for. *)
tokens == LET urls == {k \in DOMAIN input : input[k].url # << >>}
          IN  IF urls = {} THEN << >> ELSE input[Max(urls)].url

raw == FlattenSeq(tokens)

Meanings == [k \in DOMAIN tokens |-> Meaning(tokens[k])]

EndsInEscape == tokens # << >> /\ Len(Last(tokens)) = 3

(* decoder.c:9-10, "Labib%3C/script%3E%22+%27&=": a URL that does not end  *)
(* in an escape decodes, character by character and once only, to what its *)
(* tokens stand for, and is rejected when one of them stands for nothing.  *)
DecodesTokens ==
  ~EndsInEscape => decode_url(raw) = IF NUL \in ToSet(Meanings)
                                     THEN Undecodable ELSE Decoded(Meanings)

Parameter(p) == cstr(p.key) \o <<"=">> \o cstr(p.value)

Render(u) == u.path \o FlattenSeq([k \in 1..u.query_count |->
                <<IF k = 1 THEN "?" ELSE "&">> \o Parameter(u.queries[k - 1])])

(* The "?" of the query, and its delimiters. *)
Delimiters(s) == LET q == SelectInSeq(s, LAMBDA ch : ch = "?")
                 IN  {k \in 1..Len(s) : q # 0 /\ (k = q \/ (k > q /\ s[k] \in {"&", "="}))}

Adjacent(cuts, a, b) == a < b /\ \A c \in cuts : c <= a \/ b <= c

(* Every parameter is a name, "=", a value. *)
WellFormed(s) == LET d == Delimiters(s)
                 IN  /\ d # {} => s[Max(d)] = "="
                     /\ \A a, b \in d : Adjacent(d, a, b) => (s[a] = "=" <=> s[b] # "=")

(* seperate_query loses and invents nothing: from the path and parameters  *)
(* it stores, the decoded URL can be put together again.  Names and values *)
(* may be empty, and no buffer keeps characters of an earlier parameter.   *)
QueryRoundTrip ==
  LET d == decode_url(raw) IN
  d.ok /\ WellFormed(d.url) => Render(seperate_query(d.url)) = d.url

Escapes(ch) == \E k \in DOMAIN tokens : Len(tokens[k]) = 3 /\ Meanings[k] = ch

(* The parameters are those that the client put between the delimiters it  *)
(* wrote.                                                                  *)
ParametersAsWritten ==
  LET m    == Meanings
      q    == SelectInSeq(tokens, LAMBDA t : t = <<"?">>)
      cuts == {k \in q..Len(m) : k = q \/ tokens[k] = <<"&">>} \cup {Len(m) + 1}
      u    == seperate_query(decode_url(raw).url)
  IN  q > 0 =>
        /\ u.path = SubSeq(m, 1, q - 1)
        /\ u.query_count = Cardinality(cuts) - 1
        /\ \A a, b \in cuts : Adjacent(cuts, a, b) =>
             Parameter(u.queries[Cardinality({c \in cuts : c < a})]) = SubSeq(m, a + 1, b - 1)

(* The delimiters as the client wrote them are well-formed. *)
WrittenWell == WellFormed([k \in DOMAIN tokens |-> tokens[k][1]])

(* url.c:10: decoding before splitting does no harm as long as no escape   *)
(* stands for a delimiter.                                                 *)
ParametersKept ==
  /\ decode_url(raw).ok /\ ~EndsInEscape /\ WrittenWell
  /\ \A ch \in {"?", "&", "="} : ~Escapes(ch)
  => ParametersAsWritten

(* What parser.c keeps of all the spans: the last method and URL, of which *)
(* an earlier request's leave nothing, and the headers of all requests in  *)
(* their order, though every one passes through the same cur_header.       *)
RequestStored ==
  LET r == parsed(input) IN
  /\ cstr(r.method) = IF input = << >> THEN << >> ELSE <<last.method>>
  /\ cstr(r.raw_path) = raw
  /\ [k \in DOMAIN r.headers |-> [key |-> cstr(r.headers[k].key),
                                  value |-> cstr(r.headers[k].value)]]
       = FlattenSeq([k \in DOMAIN input |-> input[k].headers])

(* The path the client means: what comes before the query. *)
meant == LET q == SelectInSeq(Meanings, LAMBDA ch : ch = "?")
         IN  IF q = 0 THEN Meanings ELSE SubSeq(Meanings, 1, q - 1)

Announces(text) == header_value(Field("Content-Length", ToString(Len(text))))

Answer(code, type, fields, text) ==
  <<first_line(code), Announces(text), header_value(Field("Content-Type", type))>>
    \o lines(fields) \o <<<<crlf>>, text>>

Promised ==
  IF meant \in DOMAIN Handlers THEN
    Answer(200, "text/plain", <<Field("X-Hackerone-Id", "0xfaisal"),
                                Field("Connection", "close")>>, <<"Path=">> \o raw)
  ELSE IF ~exists(meant) THEN
    Answer(404, "text/plain", <<Field("Connection", "keep-alive")>>,
           <<"Path=">> \o raw \o <<" not found">>)
  ELSE Answer(200, get_mime[www[meant].ext], <<Field("Connection", "keep-alive")>>,
              www[meant].data)

(* The bytes are one request after another, each with its URL. *)
WholeRequests == input # << >> /\ \A k \in DOMAIN input : input[k].url # << >>

(* What the server can serve: a regular file of a type it knows, without a *)
(* '\0' in it (buffer.c:47), while the descriptors last (response.c:204).  *)
Servable(p) == /\ www[p].kind = "regular" /\ www[p].ext \in DOMAIN get_mime
               /\ NUL \notin ToSet(www[p].data)
               /\ fds < MaxFds

(* http.c:100-119, "search path in hash table": when nothing fails and no  *)
(* file changes, a GET is answered with what its path stands for, found    *)
(* through parser, decoder and splitter: the page of a registered handler, *)
(* the bytes of a servable file, or 404 with the URL as the client wrote   *)
(* it, if there is no file.  The escapes meant are those the decoder and   *)
(* the splitter treat rightly; the last of several requests is meant.      *)
AnswersRequest ==
  /\ pc = "done" /\ failed = {} /\ stable
  /\ WholeRequests /\ last.method = "GET" /\ ~EndsInEscape /\ ~Escapes("?")
  /\ meant \in DOMAIN Handlers \/ ~exists(meant) \/ Servable(meant)
  => complete = Promised

(* What comes after the first empty line has the length that a header      *)
(* before it announces, also after failed allocations in the handler and   *)
(* when the file has changed between stat, open and read; without a header *)
(* there is no body (response.c:222-227).                                  *)
AnnouncedLength ==
  pc = "done" /\ failed \cap Generating = {} =>
    \E blank \in DOMAIN complete :
      LET text == FlattenSeq(SubSeq(complete, blank + 1, Len(complete))) IN
      /\ complete[blank] = <<crlf>>
      /\ \A k \in 1..blank-1 : complete[k] # <<crlf>>
      /\ IF resp.headers = << >> THEN text = << >>
         ELSE \E k \in 1..blank-1 : complete[k] = Announces(text)

Zeroed(data) == [k \in DOMAIN data |-> IF NUL \in {data[m] : m \in 1..k} THEN NUL ELSE data[k]]

(* generate_response goes on after a failed allocation (response.c:53-84): *)
(* it loses lines or the body as wholes, and nothing when none fails, but   *)
(* for what follows a '\0' (buffer.c:47).  Only without the string that it *)
(* appends to is there no answer.                                          *)
PiecesWhole ==
  pc = "done" =>
    LET pieces == <<first_line(resp.status_code)>> \o lines(resp.headers)
                    \o <<<<crlf>>, Zeroed(chars(resp.body))>>
    IN  IF complete = NULL THEN "resp" \in failed
        ELSE \E lost \in SUBSET DOMAIN pieces :
               /\ lost # {} => failed \cap Generating # {}
               /\ complete = Without(pieces, lost)
=============================================================================
