---------------------------- MODULE MCApiReplica ----------------------------
(***************************************************************************)
(* Instance of ApiReplica for TLC: two replicas and two sales, so that one *)
(* replica flushes while the other still writes past the keys, and a flush *)
(* takes two pages.                                                        *)
(***************************************************************************)
EXTENDS ApiReplica

CONSTANTS c1, c2, c3, r1, r2, k1, k2, q1

=============================================================================
