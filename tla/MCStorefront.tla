---------------------------- MODULE MCStorefront ----------------------------
(***************************************************************************)
(* Instance of Storefront for TLC: a sale of one unit open for one tick,   *)
(* two people sharing the tab, two clicks.                                 *)
(***************************************************************************)
EXTENDS Storefront

CONSTANTS s1, a, b, r1, l1, l2, p1, p2

LowerCase == [e \in Emails |-> e]
OpensAt1 == [s \in Sales |-> 1]
ClosesAt2 == [s \in Sales |-> 2]
OneUnit == [s \in Sales |-> 1]

=============================================================================
