------------------------------ MODULE MCWorker ------------------------------
(* An instance of Worker for TLC. *)
EXTENDS Worker

(* A character that is also an escape's digit, the delimiters, an escaped  *)
(* delimiter, an escaped "%" and an escape the decoder does not know.      *)
Tokens == {<<"2">>, <<"?">>, <<"&">>, <<"=">>,
           <<"%", "3", "D">>, <<"%", "2", "5">>, <<"%", "2", "6">>}

(* A long name and a short value, and the other way around. *)
Headers == {[key |-> <<"a", "b">>, value |-> << >>], [key |-> <<"c">>, value |-> <<"d", "e">>]}

Routes == <<"/">> :> "home_page" @@ <<"/", "2">> :> "api_home_page"

File(kind, ext, data) == [kind |-> kind, ext |-> ext, data |-> data, linked |-> TRUE]

(* A file, one with a NUL in it, types that are unknown or too long, and a *)
(* directory.                                                              *)
WwwFiles == <<"/", "&">> :> File("regular", "html", <<"t">>)
            @@ <<"/", "=">> :> File("regular", "png", <<"p", NUL, "q">>)
            @@ <<"/", "=", "=">> :> File("regular", "txt", <<"t">>)
            @@ <<"/", "=", "&">> :> File("regular", "overlong", <<"t">>)
            @@ <<"/", "&", "&">> :> File("directory", "", << >>)

Data == {<< >>, <<"u", "v", NUL, "w", "x">>}
=============================================================================
