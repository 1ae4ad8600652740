---------------------------- MODULE SalePromise ----------------------------
(***************************************************************************)
(* What a flash sale promises, without Redis, queues or transactions: a    *)
(* unit is promised to a buyer at most once and only while units are left, *)
(* and only promised units are ever recorded as purchases.                 *)
(***************************************************************************)
EXTENDS Integers, FiniteSets

CONSTANTS Sales, Buyers,
          Capacity,        \* [Sales -> Nat]: units a sale can sell in all
          InitiallySold    \* [Sales -> SUBSET Buyers]

VARIABLES promised, recorded    \* [Sales -> SUBSET Buyers]

promiseVars == <<promised, recorded>>

PromiseInit ==
    /\ promised = InitiallySold
    /\ recorded = InitiallySold

\* A buyer without a unit is promised one of the units left.
Promise(s, b) ==
    /\ b \notin promised[s]
    /\ Cardinality(promised[s]) < Capacity[s]
    /\ promised' = [promised EXCEPT ![s] = @ \cup {b}]
    /\ UNCHANGED recorded

\* Any number of promised units enter the books in one transaction.
Record ==
    /\ recorded' \in [Sales -> SUBSET Buyers]
    /\ \A s \in Sales : recorded[s] \subseteq recorded'[s] /\ recorded'[s] \subseteq promised[s]
    /\ UNCHANGED promised

PromiseNext == (\E s \in Sales, b \in Buyers : Promise(s, b)) \/ Record

PromiseSpec == PromiseInit /\ [][PromiseNext]_promiseVars

=============================================================================
