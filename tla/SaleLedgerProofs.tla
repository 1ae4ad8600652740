-------------------------- MODULE SaleLedgerProofs --------------------------
(***************************************************************************)
(* The ledger keeps its invariant through each of its writers, whoever     *)
(* calls them and in whatever order.                                       *)
(***************************************************************************)
EXTENDS SaleLedger, FiniteSetTheorems, TLAPS

\* The inductive invariant of the ledger.  NeverOversold alone is not
\* inductive without the types; conservation needs the table to be finite.
LedgerInv ==
    /\ LedgerTypeOK
    /\ IsFiniteSet(purchases)
    /\ OnePurchasePerBuyer
    /\ StockConservation
    /\ NeverOversold

\* What remains of it where sales come and go: conservation is then a matter of
\* one sale at a time.
LedgerBase ==
    /\ LedgerTypeOK
    /\ IsFiniteSet(purchases)
    /\ OnePurchasePerBuyer
    /\ NeverOversold

Whole(s) == remaining[s] + Cardinality(RowsOf(purchases, s))

---------------------------------------------------------------------------
\* The rows of one sale are finitely many.
LEMMA RowsFinite ==
    ASSUME NEW rows, IsFiniteSet(rows), NEW s
    PROVE  /\ IsFiniteSet(RowsOf(rows, s))
           /\ Cardinality(RowsOf(rows, s)) \in Nat
<1>1. RowsOf(rows, s) \in SUBSET rows
    BY DEF RowsOf
<1>2. IsFiniteSet(RowsOf(rows, s))
    BY <1>1, FS_Subset
<1> QED
    BY <1>2, FS_CardinalityType

\* Adding rows that were not in the table adds up, sale by sale.
LEMMA RowsAdd ==
    ASSUME NEW rows, IsFiniteSet(rows),
           NEW more, IsFiniteSet(more),
           rows \cap more = {}, NEW s
    PROVE  Cardinality(RowsOf(rows \cup more, s)) =
                Cardinality(RowsOf(rows, s)) + Cardinality(RowsOf(more, s))
<1>1. /\ IsFiniteSet(RowsOf(rows, s))
      /\ IsFiniteSet(RowsOf(more, s))
    BY RowsFinite
<1>2. RowsOf(rows \cup more, s) = RowsOf(rows, s) \cup RowsOf(more, s)
    BY DEF RowsOf
<1>3. RowsOf(rows, s) \cap RowsOf(more, s) = {}
    BY DEF RowsOf
<1>4. Cardinality(RowsOf(rows, s) \cap RowsOf(more, s)) = 0
    BY <1>3, FS_EmptySet
<1>5. /\ Cardinality(RowsOf(rows, s)) \in Nat
      /\ Cardinality(RowsOf(more, s)) \in Nat
    BY <1>1, FS_CardinalityType
<1>6. Cardinality(RowsOf(rows, s) \cup RowsOf(more, s)) =
          Cardinality(RowsOf(rows, s)) + Cardinality(RowsOf(more, s))
              - Cardinality(RowsOf(rows, s) \cap RowsOf(more, s))
    BY <1>1, FS_Union
<1>7. Cardinality(RowsOf(rows \cup more, s)) =
          Cardinality(RowsOf(rows, s) \cup RowsOf(more, s))
    BY <1>2
<1> QED
    BY <1>4, <1>5, <1>6, <1>7

\* Adding conflict-free rows of buyers with no row keeps one row per buyer.
LEMMA ConflictFreeUnion ==
    ASSUME NEW rows, NEW more,
           ConflictFree(rows), ConflictFree(more),
           \A p \in more : ~ \E q \in rows : Conflict(p, q)
    PROVE  ConflictFree(rows \cup more)
<1>1. SUFFICES ASSUME NEW p \in rows \cup more, NEW q \in rows \cup more, Conflict(p, q)
               PROVE  p = q
    BY DEF ConflictFree
<1>2. Conflict(q, p)
    BY <1>1 DEF Conflict
<1> QED
    BY <1>1, <1>2 DEF ConflictFree

---------------------------------------------------------------------------
\* The ledger at the start.
LEMMA LedgerInitial == LedgerInit => LedgerInv
<1> SUFFICES ASSUME LedgerInit PROVE LedgerInv
    OBVIOUS
<1>1. LedgerTypeOK
    BY LedgerConstants DEF LedgerInit, LedgerTypeOK
<1>2. IsFiniteSet(purchases) /\ OnePurchasePerBuyer
    BY LedgerConstants DEF LedgerInit, OnePurchasePerBuyer
<1>3. StockConservation /\ NeverOversold
    BY LedgerConstants DEF LedgerInit, StockConservation, NeverOversold, TotalOf
<1> QED
    BY <1>1, <1>2, <1>3 DEF LedgerInv

\* A step that only cancels.
LEMMA LedgerUntouched ==
    ASSUME LedgerInv, UNCHANGED <<remaining, purchases>>,
           cancelled' \in [Sales -> BOOLEAN]
    PROVE  LedgerInv'
BY DEF LedgerInv, LedgerTypeOK, OnePurchasePerBuyer, StockConservation, NeverOversold

\* The single-row transaction of the API keeps the ledger and the whole of
\* every sale, whatever it comes to.
LEMMA WriteConserves ==
    ASSUME LedgerBase,
           NEW s \in Sales, NEW e \in Emails, NEW now \in Nat,
           writePurchase(s, e, now)
    PROVE  LedgerBase' /\ \A t \in Sales : Whole(t)' = Whole(t)
<1>1. CASE writePurchaseResult(s, e, now) # "success"
    BY <1>1 DEF writePurchase, ledgerVars, LedgerBase, LedgerTypeOK, OnePurchasePerBuyer,
                NeverOversold, Whole
<1>2. CASE writePurchaseResult(s, e, now) = "success"
    <2> DEFINE row == [saleId |-> s, email |-> e, purchasedAt |-> now]
    <2>1. /\ ~HasPurchased(s, e)
          /\ ~(remaining[s] <= 0)
        BY <1>2 DEF writePurchaseResult
    <2>2. /\ purchases' = purchases \cup {row}
          /\ remaining' = [remaining EXCEPT ![s] = @ - 1]
          /\ UNCHANGED cancelled
        BY <1>2 DEF writePurchase
    <2>3. row \in PurchaseRow
        BY DEF PurchaseRow
    <2>4. /\ remaining \in [Sales -> Int]
          /\ IsFiniteSet(purchases)
          /\ purchases \in SUBSET PurchaseRow
        BY DEF LedgerBase, LedgerTypeOK
    <2>5. ~ \E q \in purchases : Conflict(row, q)
        BY <2>1 DEF Conflict, HasPurchased
    <2>6. LedgerTypeOK'
        BY <2>2, <2>3 DEF LedgerBase, LedgerTypeOK
    <2>7. IsFiniteSet(purchases)'
        BY <2>2, <2>4, FS_AddElement
    <2>8. OnePurchasePerBuyer'
        <3>1. ConflictFree({row})
            BY DEF ConflictFree
        <3>2. ConflictFree(purchases)
            BY DEF LedgerBase, OnePurchasePerBuyer
        <3>3. ConflictFree(purchases \cup {row})
            BY <2>5, <3>1, <3>2, ConflictFreeUnion
        <3> QED
            BY <2>2, <3>3 DEF OnePurchasePerBuyer, ConflictFree, Conflict
    <2>9. ASSUME NEW t \in Sales
          PROVE  remaining'[t] + Cardinality(RowsOf(purchases', t))
                    = remaining[t] + Cardinality(RowsOf(purchases, t))
        <3>2. remaining[t] \in Int
            BY <2>4
        <3>3. /\ IsFiniteSet({row})
              /\ Cardinality({row}) = 1
            BY FS_Singleton
        <3>4. purchases \cap {row} = {}
            BY <2>5 DEF Conflict
        <3>5. Cardinality(RowsOf(purchases', t)) =
                  Cardinality(RowsOf(purchases, t)) + Cardinality(RowsOf({row}, t))
            BY <2>2, <2>4, <3>3, <3>4, RowsAdd
        <3>6. Cardinality(RowsOf(purchases, t)) \in Nat
            BY <2>4, RowsFinite
        <3>7. CASE t = s
            <4>1. RowsOf({row}, t) = {row}
                BY <3>7 DEF RowsOf
            <4>2. remaining'[t] = remaining[t] - 1
                BY <2>2, <2>4, <3>7
            <4>3. Cardinality(RowsOf({row}, t)) = 1
                BY <3>3, <4>1
            <4> QED
                BY <3>2, <3>5, <3>6, <4>2, <4>3
        <3>8. CASE t # s
            <4>1. RowsOf({row}, t) = {}
                BY <3>8 DEF RowsOf
            <4>2. remaining'[t] = remaining[t]
                BY <2>2, <2>4, <3>8
            <4>3. Cardinality(RowsOf({row}, t)) = 0
                BY <4>1, FS_EmptySet
            <4> QED
                BY <3>2, <3>5, <3>6, <4>2, <4>3
        <3> QED
            BY <3>7, <3>8
    <2>10. NeverOversold'
        BY <2>1, <2>2, <2>4 DEF LedgerBase, NeverOversold
    <2>11. \A t \in Sales : Whole(t)' = Whole(t)
        BY <2>9 DEF Whole, RowsOf
    <2> QED
        BY <2>6, <2>7, <2>8, <2>10, <2>11 DEF LedgerBase
<1> QED
    BY <1>1, <1>2

\* The batch transaction of the worker keeps them as well: any finite batch,
\* with any mixture of new, repeated and already recorded entries.
LEMMA BatchConserves ==
    ASSUME LedgerBase,
           NEW entries \in SUBSET PurchaseRow, IsFiniteSet(entries),
           writePurchaseBatch(entries)
    PROVE  LedgerBase' /\ \A t \in Sales : Whole(t)' = Whole(t)
<1>1. PICK inserted \in SUBSET entries :
        /\ IsInsertion(inserted, entries)
        /\ StockAbsorbs(inserted)
        /\ purchases' = purchases \cup inserted
        /\ remaining' = [s \in Sales |-> remaining[s] - Cardinality(RowsOf(inserted, s))]
    BY DEF writePurchaseBatch
<1>2. UNCHANGED cancelled
    BY DEF writePurchaseBatch
<1>3. IsFiniteSet(inserted)
    BY FS_Subset
<1>4. /\ remaining \in [Sales -> Int]
      /\ IsFiniteSet(purchases)
      /\ purchases \in SUBSET PurchaseRow
    BY DEF LedgerBase, LedgerTypeOK
<1>5. \A p \in inserted : ~ \E q \in purchases : Conflict(p, q)
    BY <1>1 DEF IsInsertion, Insertable
<1>6. \A s \in Sales :
        /\ Cardinality(RowsOf(inserted, s)) \in Nat
        /\ remaining[s] \in Int
        /\ remaining'[s] = remaining[s] - Cardinality(RowsOf(inserted, s))
    BY <1>1, <1>3, <1>4, RowsFinite
<1>7. LedgerTypeOK'
    <2>1. remaining' \in [Sales -> Int]
        BY <1>1, <1>6
    <2> QED
        BY <1>1, <1>2, <2>1 DEF LedgerBase, LedgerTypeOK
<1>8. IsFiniteSet(purchases)'
    BY <1>1, <1>3, <1>4, FS_Union
<1>9. OnePurchasePerBuyer'
    <2>1. ConflictFree(purchases) /\ ConflictFree(inserted)
        BY <1>1 DEF LedgerBase, OnePurchasePerBuyer, IsInsertion
    <2>2. ConflictFree(purchases \cup inserted)
        BY <1>5, <2>1, ConflictFreeUnion
    <2> QED
        BY <1>1, <2>2 DEF OnePurchasePerBuyer, ConflictFree, Conflict
<1>10. ASSUME NEW t \in Sales
       PROVE  remaining'[t] + Cardinality(RowsOf(purchases', t))
                = remaining[t] + Cardinality(RowsOf(purchases, t))
    <2>2. purchases \cap inserted = {}
        BY <1>5 DEF Conflict
    <2>3. Cardinality(RowsOf(purchases', t)) =
              Cardinality(RowsOf(purchases, t)) + Cardinality(RowsOf(inserted, t))
        BY <1>1, <1>3, <1>4, <2>2, RowsAdd
    <2>4. Cardinality(RowsOf(purchases, t)) \in Nat
        BY <1>4, RowsFinite
    <2> QED
        BY <1>6, <2>3, <2>4
<1>11. NeverOversold'
    <2>1. \A s \in Sales : Cardinality(RowsOf(inserted, s)) <= remaining[s]
        BY <1>1 DEF StockAbsorbs
    <2> QED
        BY <1>6, <2>1 DEF NeverOversold
<1>12. \A t \in Sales : Whole(t)' = Whole(t)
    BY <1>10 DEF Whole, RowsOf
<1> QED
    BY <1>7, <1>8, <1>9, <1>11, <1>12 DEF LedgerBase

\* Conservation is that of the whole of every sale.
LEMMA LedgerParts ==
    /\ LedgerInv <=> LedgerBase /\ StockConservation
    /\ StockConservation <=> \A s \in Sales : Whole(s) = TotalOf(s)
BY DEF LedgerInv, LedgerBase, StockConservation, Whole

\* Both transactions keep the invariant.
LEMMA WholeKeepsLedger ==
    ASSUME LedgerInv, LedgerBase', \A t \in Sales : Whole(t)' = Whole(t)
    PROVE  LedgerInv'
<1>1. \A t \in Sales : Whole(t)' = TotalOf(t)
    BY LedgerParts
<1>2. StockConservation'
    BY <1>1 DEF StockConservation, Whole, TotalOf, RowsOf
<1> QED
    BY <1>2 DEF LedgerInv, LedgerBase

\* The API's.
LEMMA WriteKeepsLedger ==
    ASSUME LedgerInv,
           NEW s \in Sales, NEW e \in Emails, NEW now \in Nat,
           writePurchase(s, e, now)
    PROVE  LedgerInv'
BY LedgerParts, WriteConserves, WholeKeepsLedger

\* The worker's.
LEMMA BatchKeepsLedger ==
    ASSUME LedgerInv,
           NEW entries \in SUBSET PurchaseRow, IsFiniteSet(entries),
           writePurchaseBatch(entries)
    PROVE  LedgerInv'
BY LedgerParts, BatchConserves, WholeKeepsLedger

---------------------------------------------------------------------------
\* What the API's transaction does to the table: no row goes, the only new one
\* is the buyer's, and a success leaves the buyer with a purchase.
LEMMA WriteEffect ==
    ASSUME NEW s, NEW e, NEW now, writePurchase(s, e, now)
    PROVE  /\ purchases \subseteq purchases'
           /\ \A p \in purchases' \ purchases : p.saleId = s /\ p.email = e
           /\ purchases' # purchases => writePurchaseResult(s, e, now) = "success"
           /\ writePurchaseResult(s, e, now) = "success" => HasPurchased(s, e)'
<1> DEFINE row == [saleId |-> s, email |-> e, purchasedAt |-> now]
<1>1. row.saleId = s /\ row.email = e
    OBVIOUS
<1>2. CASE writePurchaseResult(s, e, now) = "success"
    <2>1. purchases' = purchases \cup {row}
        BY <1>2 DEF writePurchase
    <2>2. HasPurchased(s, e)'
        BY <1>1, <2>1 DEF HasPurchased
    <2> QED
        BY <1>1, <1>2, <2>1, <2>2
<1>3. CASE writePurchaseResult(s, e, now) # "success"
    BY <1>3 DEF writePurchase, ledgerVars
<1> QED
    BY <1>2, <1>3

\* What the batch transaction does to the table: no row goes, every new one is
\* an entry of the batch, and the buyer of every entry has a purchase, whether
\* the entry was inserted or conflicted with an earlier row.
LEMMA BatchEffect ==
    ASSUME NEW entries, writePurchaseBatch(entries)
    PROVE  /\ purchases \subseteq purchases'
           /\ purchases' \ purchases \subseteq entries
           /\ \A p \in entries : HasPurchased(p.saleId, p.email)'
<1>1. PICK inserted \in SUBSET entries :
        /\ IsInsertion(inserted, entries)
        /\ purchases' = purchases \cup inserted
    BY DEF writePurchaseBatch
<1>2. ASSUME NEW p \in entries PROVE HasPurchased(p.saleId, p.email)'
    <2>1. CASE p \in Insertable(entries)
        <3>1. PICK q \in inserted : Conflict(p, q)
            BY <1>1, <2>1 DEF IsInsertion
        <3> QED
            BY <1>1, <3>1 DEF HasPurchased, Conflict
    <2>2. CASE p \notin Insertable(entries)
        <3>1. PICK q \in purchases : Conflict(p, q)
            BY <2>2 DEF Insertable
        <3> QED
            BY <1>1, <3>1 DEF HasPurchased, Conflict
    <2> QED
        BY <2>1, <2>2
<1> QED
    BY <1>1, <1>2

=============================================================================
