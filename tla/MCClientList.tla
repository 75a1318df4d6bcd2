--------------------------- MODULE MCClientList ---------------------------
(* An instance of ClientList for TLC. *)
EXTENDS ClientList, TLC

CONSTANTS n1, n2, n3

ThreeNodes == {n1, n2, n3}
=============================================================================
