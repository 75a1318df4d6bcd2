---------------------------- MODULE MCThreadPool ----------------------------
(* An instance of ThreadPool for TLC. *)
EXTENDS ThreadPool

CONSTANTS a, b, c

MCTask == {a, b, c}
=============================================================================
