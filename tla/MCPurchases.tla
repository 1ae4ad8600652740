---------------------------- MODULE MCPurchases ----------------------------
(***************************************************************************)
(* Instances of Purchases for TLC.  One sale with one unit left is enough  *)
(* for two buyers to compete for it; "a" and "A" are two spellings of one  *)
(* buyer, so duplicates are in play as well.                               *)
(***************************************************************************)
EXTENDS Purchases, TLC

CONSTANTS s1, s2, a, A, b, r1, r2, r3, w1, w2

OneSale == {s1}
TwoSales == {s1, s2}
Spellings == {a, A, b}
LowerCase == [e \in Spellings |-> IF e = A THEN a ELSE e]
OpensAt1 == [s \in Sales |-> 1]
ClosesAt2 == [s \in Sales |-> 2]
OneUnit == [s \in Sales |-> 1]
TwoUnits == [s \in Sales |-> 2]
NoRows == {}

\* A purchase made before the run.
EarlierPurchase == {[saleId |-> s1, email |-> b, purchasedAt |-> 1]}

Symmetry == Permutations(Requests) \cup Permutations(Workers)

=============================================================================
