---------------------------- MODULE MCRingQueue ----------------------------
(* Instances of RingQueue for TLC. *)
EXTENDS RingQueue

CONSTANTS a, b

MCTask == {a, b}
(* Below 1, the two granted as they are, and one above MaxInitCap. *)
MCReqCaps == {-1, 2, 3, 4}
=============================================================================
