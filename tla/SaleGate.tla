------------------------------ MODULE SaleGate ------------------------------
(***************************************************************************)
(* The Redis side of a sale (packages/redis): the three keys of every sale *)
(* and the operations on them.  Redis runs a script or a MULTI block as    *)
(* one step, so each operation below is one atomic change of the keys.     *)
(*                                                                         *)
(* stock[s]   flashsale:<s>:stock, a count, or NoKey when the key is gone  *)
(* meta[s]    flashsale:<s>:meta, reduced to its "cancelled" field ("0" or *)
(*            "1"), or "absent".  Its startsAt and endsAt fields are always *)
(*            copies of the sale row's, which no code ever updates, so they *)
(*            are the constants StartsAt and EndsAt.                       *)
(* buyers[s]  flashsale:<s>:buyers, a set of normalized e-mail addresses;  *)
(*            Redis does not distinguish an empty set from a missing key.  *)
(***************************************************************************)
EXTENDS SaleWindow

VARIABLES stock, meta, buyers

gateVars == <<stock, meta, buyers>>

NoKey == -1

GateTypeOK ==
    /\ stock \in [Sales -> Nat \cup {NoKey}]
    /\ meta \in [Sales -> {"absent", "0", "1"}]
    /\ buyers \in [Sales -> SUBSET Emails]

Warmed(s) == stock[s] # NoKey /\ meta[s] # "absent"

---------------------------------------------------------------------------
(* Definitions with "Wrong" in their name are plausible mistakes, never     *)
(* used by the specification: each is put in the place of the definition   *)
(* after it to see that some property notices.                             *)

\* The stock test off by one.
reservationCodeWrongStock(s, e, now) ==
    IF ~Warmed(s) THEN "not_warmed"
    ELSE IF meta[s] = "1" \/ outsideScriptWindow(s, now) THEN "sale_not_active"
    ELSE IF normalizeEmail[e] \in buyers[s] THEN "already_purchased"
    ELSE IF stock[s] < 0 THEN "sold_out"
    ELSE "reserved"

\* The script's answer, in the order of its early returns.
reservationCode(s, e, now) ==
    IF ~Warmed(s) THEN "not_warmed"
    ELSE IF meta[s] = "1" \/ outsideScriptWindow(s, now) THEN "sale_not_active"
    ELSE IF normalizeEmail[e] \in buyers[s] THEN "already_purchased"
    ELSE IF stock[s] <= 0 THEN "sold_out"
    ELSE "reserved"

\* SADD of the address as the client spelled it.
reservePurchaseWrongSpelling(s, e, now) ==
    IF reservationCode(s, e, now) = "reserved"
    THEN /\ stock' = [stock EXCEPT ![s] = @ - 1]
         /\ buyers' = [buyers EXCEPT ![s] = @ \cup {e}]
         /\ UNCHANGED meta
    ELSE UNCHANGED gateVars

\* The whole script: only "reserved" writes.
reservePurchase(s, e, now) ==
    IF reservationCode(s, e, now) = "reserved"
    THEN /\ stock' = [stock EXCEPT ![s] = @ - 1]
         /\ buyers' = [buyers EXCEPT ![s] = @ \cup {normalizeEmail[e]}]
         /\ UNCHANGED meta
    ELSE UNCHANGED gateVars

\* The state syncSale's MULTI block leaves: the old keys are dropped, never
\* merged.
syncSale(s, remainingStock, isCancelled, buyerEmails) ==
    /\ stock' = [stock EXCEPT ![s] = remainingStock]
    /\ meta' = [meta EXCEPT ![s] = IF isCancelled THEN "1" ELSE "0"]
    /\ buyers' = [buyers EXCEPT ![s] = {normalizeEmail[e] : e \in buyerEmails}]

\* One iteration of flushSaleKeys' SCAN loop.  A SCAN page holds any of the
\* keys, so the three keys of a sale may go in different iterations, in any
\* order; a flush that fails part way stops between two iterations.
flushPage(gone) ==
    /\ stock' = [s \in Sales |-> IF <<s, "stock">> \in gone THEN NoKey ELSE stock[s]]
    /\ meta' = [s \in Sales |-> IF <<s, "meta">> \in gone THEN "absent" ELSE meta[s]]
    /\ buyers' = [s \in Sales |-> IF <<s, "buyers">> \in gone THEN {} ELSE buyers[s]]

=============================================================================
