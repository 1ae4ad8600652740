----------------------------- MODULE SaleLedger -----------------------------
(***************************************************************************)
(* The Postgres side of a sale (packages/database and the writePurchase    *)
(* transaction of apps/api): the remaining_stock column of every sale row, *)
(* its cancelled_at column reduced to a flag, and the purchases table.     *)
(*                                                                         *)
(* A transaction is one atomic step.  Both writers insert first and update *)
(* the sale row second; two writers of one sale serialize on the unique    *)
(* index or on the row lock, and the WHERE clause of the update is         *)
(* evaluated again after the lock wait, so at READ COMMITTED each commits  *)
(* as if it ran alone at its commit.  A deadlock or a serialization        *)
(* failure is a failed transaction.                                        *)
(***************************************************************************)
EXTENDS SaleWindow

CONSTANTS
    InitialRemaining,   \* [Sales -> Nat]: remaining_stock at the start
    InitialRows         \* the purchases already in the table

VARIABLES remaining, cancelled, purchases

ledgerVars == <<remaining, cancelled, purchases>>

\* A row of the purchases table.
PurchaseRow == [saleId : Sales, email : Emails, purchasedAt : Nat]

LedgerTypeOK ==
    /\ remaining \in [Sales -> Int]
    /\ cancelled \in [Sales -> BOOLEAN]
    /\ purchases \in SUBSET PurchaseRow

\* The unique (sale_id, email) constraint: two rows of the same buyer.
Conflict(p, q) ==
    /\ p.saleId = q.saleId
    /\ normalizeEmail[p.email] = normalizeEmail[q.email]

ConflictFree(rows) == \A p, q \in rows : Conflict(p, q) => p = q

HasPurchased(s, e) ==
    \E p \in purchases : p.saleId = s /\ normalizeEmail[p.email] = normalizeEmail[e]

RowsOf(rows, s) == {p \in rows : p.saleId = s}

ASSUME LedgerConstants ==
    /\ InitialRemaining \in [Sales -> Nat]
    /\ InitialRows \in SUBSET PurchaseRow
    /\ IsFiniteSet(InitialRows)
    /\ ConflictFree(InitialRows)
    /\ \A p \in InitialRows : WithinSalePeriod(p.saleId, p.purchasedAt)

LedgerInit ==
    /\ remaining = InitialRemaining
    /\ cancelled = [s \in Sales |-> FALSE]
    /\ purchases = InitialRows

---------------------------------------------------------------------------
\* What the single-row transaction comes to at instant now (purchased_at
\* defaults to now()): the trigger fires before the insert, the unique index
\* before the update, and no row updated rolls everything back.
writePurchaseResult(s, e, now) ==
    IF ~WithinSalePeriod(s, now) THEN "sale_not_active"
    ELSE IF HasPurchased(s, e) THEN "already_purchased"
    ELSE IF remaining[s] <= 0 THEN "sold_out"
    ELSE "success"

\* No rollback when the update finds no stock (two autocommitted statements).
writePurchaseWrongRollback(s, e, now) ==
    IF writePurchaseResult(s, e, now) \in {"success", "sold_out"}
    THEN /\ purchases' = purchases \cup {[saleId |-> s, email |-> e, purchasedAt |-> now]}
         /\ remaining' = [remaining EXCEPT ![s] = IF @ > 0 THEN @ - 1 ELSE @]
         /\ UNCHANGED cancelled
    ELSE UNCHANGED ledgerVars

writePurchase(s, e, now) ==
    IF writePurchaseResult(s, e, now) = "success"
    THEN /\ purchases' = purchases \cup {[saleId |-> s, email |-> e, purchasedAt |-> now]}
         /\ remaining' = [remaining EXCEPT ![s] = @ - 1]
         /\ UNCHANGED cancelled
    ELSE UNCHANGED ledgerVars

\* A unique index on the address as it is spelled (text, not citext).
InsertableWrongSpelling(entries) ==
    {p \in entries : ~ \E q \in purchases : q.saleId = p.saleId /\ q.email = p.email}

\* The rows ON CONFLICT DO NOTHING lets in: one for each buyer of the batch
\* with no row yet.  Which of two entries of one buyer comes first is open.
Insertable(entries) ==
    {p \in entries : ~ \E q \in purchases : Conflict(p, q)}

IsInsertion(inserted, entries) ==
    /\ inserted \subseteq Insertable(entries)
    /\ ConflictFree(inserted)
    /\ \A p \in Insertable(entries) : \E q \in inserted : Conflict(p, q)

\* The two ways the batch transaction aborts: the row trigger rejects an
\* entry (also one that would only conflict), or a sale cannot absorb its
\* decrement.
TriggerAccepts(entries) ==
    \A p \in entries : WithinSalePeriod(p.saleId, p.purchasedAt)

StockAbsorbs(inserted) ==
    \A s \in Sales : Cardinality(RowsOf(inserted, s)) <= remaining[s]

\* The decrement counts the entries of the batch, not the rows inserted.
writePurchaseBatchWrongCount(entries) ==
    /\ TriggerAccepts(entries)
    /\ \E inserted \in SUBSET entries :
        /\ IsInsertion(inserted, entries)
        /\ StockAbsorbs(entries)
        /\ purchases' = purchases \cup inserted
        /\ remaining' = [s \in Sales |-> remaining[s] - Cardinality(RowsOf(entries, s))]
    /\ UNCHANGED cancelled

\* The update has no remaining_stock >= count condition.
writePurchaseBatchWrongGuard(entries) ==
    /\ TriggerAccepts(entries)
    /\ \E inserted \in SUBSET entries :
        /\ IsInsertion(inserted, entries)
        /\ purchases' = purchases \cup inserted
        /\ remaining' = [s \in Sales |-> remaining[s] - Cardinality(RowsOf(inserted, s))]
    /\ UNCHANGED cancelled

\* The committed batch transaction.
writePurchaseBatch(entries) ==
    /\ TriggerAccepts(entries)
    /\ \E inserted \in SUBSET entries :
        /\ IsInsertion(inserted, entries)
        /\ StockAbsorbs(inserted)
        /\ purchases' = purchases \cup inserted
        /\ remaining' = [s \in Sales |-> remaining[s] - Cardinality(RowsOf(inserted, s))]
    /\ UNCHANGED cancelled

\* No committed outcome exists: the transaction throws.
BatchMustAbort(entries) ==
    \/ ~TriggerAccepts(entries)
    \/ \E inserted \in SUBSET entries :
        IsInsertion(inserted, entries) /\ ~StockAbsorbs(inserted)

---------------------------------------------------------------------------
TotalOf(s) == InitialRemaining[s] + Cardinality(RowsOf(InitialRows, s))

\* remaining_stock and the purchases table always move together: what a sale
\* has left plus what it has sold is what it started with, whatever mixture of
\* direct writes, batches, redeliveries and aborted transactions produced it.
\* (verify.ts checks the same equation after a load test.)
StockConservation ==
    \A s \in Sales : remaining[s] + Cardinality(RowsOf(purchases, s)) = TotalOf(s)

\* A sale never sells more than it has: remaining_stock never goes below zero.
NeverOversold == \A s \in Sales : remaining[s] >= 0

\* One buyer, one purchase of a sale, however the address is spelled.
OnePurchasePerBuyer == ConflictFree(purchases)

=============================================================================
