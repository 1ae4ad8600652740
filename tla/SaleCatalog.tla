---------------------------- MODULE SaleCatalog ----------------------------
(***************************************************************************)
(* The reading side of the API (apps/api/src/sales): listings straight     *)
(* from Postgres, single sales through a row cache that each replica has   *)
(* for itself.  Of a row the catalogue needs the stock and whether the     *)
(* sale is cancelled; of a Sale it sends, the phase and the stock.         *)
(*                                                                         *)
(* The actions of a lookup leave open what else changes: Storefront        *)
(* composes them with the page that asks.                                  *)
(***************************************************************************)
EXTENDS SaleWindow

CONSTANTS
    Replicas,
    Lookups,        \* requests GET /sales/:id that can be under way at a time
    TotalStock,     \* [Sales -> Nat]
    Horizon         \* bound: the clock stops here, after every sale

ASSUME CatalogConstants ==
    /\ IsFiniteSet(Replicas) /\ IsFiniteSet(Lookups)
    /\ TotalStock \in [Sales -> Nat]
    /\ Horizon \in Nat /\ \A s \in Sales : EndsAt[s] <= Horizon

VARIABLES
    now,
    row,        \* the sale rows in Postgres
    cache,      \* of each replica: its copy of each row, or NoRow
    lookup      \* how far a request has got, with the row or answer it has

catalogVars == <<now, row, cache, lookup>>

NoRow == [stock |-> -1, cancelled |-> FALSE]
Rows(s) == [stock : 0..TotalStock[s], cancelled : BOOLEAN]

Phases == {"upcoming", "active", "sold_out", "ended"}
NotFound == [phase |-> "not_found", stock |-> 0]
Failed == [phase |-> "failed", stock |-> 0]
SaleAnswers(s) == [phase : Phases, stock : 0..TotalStock[s]] \cup {NotFound, Failed}

Idle == [at |-> "idle"]

CatalogTypeOK ==
    /\ now \in 0..Horizon
    /\ \A s \in Sales : row[s] \in Rows(s)
    /\ \A r \in Replicas, s \in Sales : cache[r][s] \in Rows(s) \cup {NoRow}
    /\ \A l \in Lookups :
        \/ lookup[l] = Idle
        \/ \E s \in Sales :
            \/ lookup[l] \in [at : {"sent"}, id : {s}]
            \/ lookup[l] \in [at : {"missed"}, id : {s}, replica : Replicas]
            \/ lookup[l] \in [at : {"read"}, id : {s}, replica : Replicas, row : Rows(s)]
            \/ lookup[l] \in [at : {"answered"}, id : {s}, sale : SaleAnswers(s)]

CatalogInit ==
    /\ now = 0
    /\ row = [s \in Sales |-> [stock |-> TotalStock[s], cancelled |-> FALSE]]
    /\ cache = [r \in Replicas |-> [s \in Sales |-> NoRow]]
    /\ lookup = [l \in Lookups |-> Idle]

---------------------------------------------------------------------------
\* The last unit is taken for none.
derivePhaseWrongStock(s, r, t) ==
    IF StartsAt[s] > t THEN "upcoming"
    ELSE IF EndsAt[s] <= t THEN "ended"
    ELSE IF r.stock <= 1 THEN "sold_out"
    ELSE "active"

derivePhase(s, r, t) ==
    IF StartsAt[s] > t THEN "upcoming"
    ELSE IF EndsAt[s] <= t THEN "ended"
    ELSE IF r.stock <= 0 THEN "sold_out"
    ELSE "active"

mapRowToSale(s, r, t) == [phase |-> derivePhase(s, r, t), stock |-> r.stock]

\* The conditions of findAll, in the database's terms: a sold out sale is
\* looked for among the past ones only by its end.
statusConditionWrongPast(status, s, t) ==
    CASE status = "active" -> StartsAt[s] <= t /\ EndsAt[s] > t /\ row[s].stock > 0
      [] status = "upcoming" -> StartsAt[s] > t
      [] status = "past" -> EndsAt[s] <= t

statusCondition(status, s, t) ==
    CASE status = "active" -> StartsAt[s] <= t /\ EndsAt[s] > t /\ row[s].stock > 0
      [] status = "upcoming" -> StartsAt[s] > t
      [] status = "past" ->
            \/ EndsAt[s] <= t
            \/ StartsAt[s] <= t /\ EndsAt[s] > t /\ row[s].stock = 0

Statuses == {"active", "upcoming", "past"}

\* What GET /sales?status answers, by sale.
findAll(status) ==
    LET found == {s \in Sales : ~row[s].cancelled /\ statusCondition(status, s, now)}
    IN [s \in found |-> mapRowToSale(s, row[s], now)]

---------------------------------------------------------------------------
\* A lookup arrives at some replica.
FindRowCached(l) ==
    /\ lookup[l].at = "sent"
    /\ \E r \in Replicas :
        LET s == lookup[l].id
            sale == IF cache[r][s].cancelled THEN NotFound
                    ELSE mapRowToSale(s, cache[r][s], now)
        IN /\ cache[r][s] # NoRow
           /\ lookup' = [lookup EXCEPT ![l] = [at |-> "answered", id |-> s, sale |-> sale]]
    /\ UNCHANGED <<now, row, cache>>

FindRowMissed(l) ==
    /\ lookup[l].at = "sent"
    /\ \E r \in Replicas :
        /\ cache[r][lookup[l].id] = NoRow
        /\ lookup' = [lookup EXCEPT ![l] =
                        [at |-> "missed", id |-> lookup[l].id, replica |-> r]]
    /\ UNCHANGED <<now, row, cache>>

SelectRow(l) ==
    /\ lookup[l].at = "missed"
    /\ lookup' = [lookup EXCEPT ![l] =
                    [at |-> "read", id |-> lookup[l].id, replica |-> lookup[l].replica,
                     row |-> row[lookup[l].id]]]
    /\ UNCHANGED <<now, row, cache>>

\* The row may have changed since it was read, and the cache may have been
\* filled by a later lookup.
CacheRow(l) ==
    /\ lookup[l].at = "read"
    /\ LET s == lookup[l].id
           sale == IF lookup[l].row.cancelled THEN NotFound
                   ELSE mapRowToSale(s, lookup[l].row, now)
       IN /\ cache' = [cache EXCEPT ![lookup[l].replica][s] = lookup[l].row]
          /\ lookup' = [lookup EXCEPT ![l] = [at |-> "answered", id |-> s, sale |-> sale]]
    /\ UNCHANGED <<now, row>>

findById(l) == FindRowCached(l) \/ FindRowMissed(l) \/ SelectRow(l) \/ CacheRow(l)

\* Postgres fails, or the request or its answer is lost: apiFetch throws.
LookupFails(l) ==
    /\ lookup[l].at \in {"sent", "missed"}
    /\ lookup' = [lookup EXCEPT ![l] = [at |-> "answered", id |-> lookup[l].id, sale |-> Failed]]
    /\ UNCHANGED <<now, row, cache>>

\* The time to live of a cached row is over.
Expire(r, s) ==
    /\ cache[r][s] # NoRow
    /\ cache' = [cache EXCEPT ![r][s] = NoRow]
    /\ UNCHANGED <<now, row, lookup>>

---------------------------------------------------------------------------
\* The decrement lost its condition.
StockFallsWrongGuard(s) ==
    /\ now >= StartsAt[s]
    /\ row' = [row EXCEPT ![s].stock = @ - 1]
    /\ UNCHANGED <<now, cache, lookup>>

\* Somebody's purchase is written; with the queue this may be after the end.
StockFalls(s) ==
    /\ now >= StartsAt[s] /\ row[s].stock > 0
    /\ row' = [row EXCEPT ![s].stock = @ - 1]
    /\ UNCHANGED <<now, cache, lookup>>

\* The operator cancels a sale.
Cancel(s) ==
    /\ ~row[s].cancelled
    /\ row' = [row EXCEPT ![s].cancelled = TRUE]
    /\ UNCHANGED <<now, cache, lookup>>

Tick ==
    /\ now < Horizon
    /\ now' = now + 1
    /\ UNCHANGED <<row, cache, lookup>>

CatalogStep ==
    \/ \E l \in Lookups : findById(l) \/ LookupFails(l)
    \/ \E r \in Replicas, s \in Sales : Expire(r, s)
    \/ \E s \in Sales : StockFalls(s) \/ Cancel(s)
    \/ Tick

---------------------------------------------------------------------------
PhasesListed(status) ==
    CASE status = "active" -> {"active"}
      [] status = "upcoming" -> {"upcoming"}
      [] status = "past" -> {"ended", "sold_out"}

\* The three listings, written as SQL conditions, and derivePhase, written in
\* TypeScript, agree at every instant: each sale that is not cancelled is in
\* exactly one listing, with a phase that belongs there.
ListingsPartition ==
    /\ \A s \in Sales : ~row[s].cancelled =>
        Cardinality({st \in Statuses : s \in DOMAIN findAll(st)}) = 1
    /\ \A st \in Statuses : \A s \in DOMAIN findAll(st) :
        findAll(st)[s].phase \in PhasesListed(st)

=============================================================================
