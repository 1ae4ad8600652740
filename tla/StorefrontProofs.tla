-------------------------- MODULE StorefrontProofs --------------------------
(***************************************************************************)
(* What holds of the catalogue and of a browser tab over it for any sales, *)
(* replicas, users, requests and clicks: the listings partition the sales, *)
(* one submission at a time, nobody is locked out of a sale with something *)
(* to sell, and what the screen shows belongs to whoever is signed in.     *)
(***************************************************************************)
EXTENDS Storefront, FiniteSetTheorems, TLAPS

USE WindowConstants, CatalogConstants, StorefrontConstants

---------------------------------------------------------------------------
(* The inductive invariant.                                                *)

\* The states of a lookup, as CatalogTypeOK lists them.
LookupState(v) ==
    \/ v = Idle
    \/ \E s \in Sales :
        \/ v \in [at : {"sent"}, id : {s}]
        \/ v \in [at : {"missed"}, id : {s}, replica : Replicas]
        \/ v \in [at : {"read"}, id : {s}, replica : Replicas, row : Rows(s)]
        \/ v \in [at : {"answered"}, id : {s}, sale : SaleAnswers(s)]

\* The variables of the catalogue are functions on what they should be.
Shape ==
    /\ DOMAIN row = Sales
    /\ DOMAIN cache = Replicas /\ \A r \in Replicas : DOMAIN cache[r] = Sales
    /\ DOMAIN lookup = Lookups

CatalogInv ==
    /\ now \in 0..Horizon
    /\ \A s \in Sales : row[s] \in Rows(s)
    /\ \A r \in Replicas, s \in Sales : cache[r][s] \in Rows(s) \cup {NoRow}
    /\ \A l \in Lookups : LookupState(lookup[l])
    /\ Shape

\* Once true, both stay so.
Begun == StartsAt[Shown] <= now
Over == row[Shown].stock = 0 \/ EndsAt[Shown] <= now

\* Old rows and answers may overstate the stock, never understate it to 0, and
\* every lookup is about the sale on the card, which has begun: no answer says
\* "upcoming".
RowsInv ==
    /\ \A r \in Replicas, s \in Sales : cache[r][s].stock = 0 => row[s].stock = 0
    /\ \A l \in Lookups :
        /\ lookup[l].at # "idle" => lookup[l].id = Shown /\ Begun
        /\ lookup[l].at = "read" /\ lookup[l].row.stock = 0 => row[Shown].stock = 0
        /\ lookup[l].at = "answered" /\ lookup[l].sale.phase \in Phases \ {"active"} => Over

\* A card starts active, so before the sale there is no card, hence no button,
\* POST or wait.
CardInv ==
    /\ card.phase \in Phases \ {"active"} => Over
    /\ ~Begun => /\ card.phase # "active" /\ screen = NoUser /\ panel.waits = 0
                 /\ \A p \in Posts : posts[p].at = "none"

\* A POST is what inFlight stands for, and a click leads to one wait at most.
FlightInv ==
    /\ \A p \in Posts : posts[p].at # "none" => panel.inFlight
    /\ \A p, q \in Posts : posts[p].at # "none" /\ posts[q].at # "none" => p = q
    /\ panel.waits + (IF panel.inFlight THEN 1 ELSE 0) <= clicks

\* As long as somebody is signed in, everything of the panel is theirs.  After
\* signing out it may be anybody's, until the next page.
OwnInv ==
    email # NoUser =>
        /\ screen \in {NoUser, email}
        /\ panel.result # "none" => panel.by = email
        /\ \A p \in Posts : posts[p].at # "none" => posts[p].by = email

\* Orders are shown on the orders page only, where somebody is signed in.
OrdersInv ==
    /\ page = "orders" => email # NoUser
    /\ orders # NoUser => page = "orders" /\ orders = email

TabType ==
    /\ email \in Users \cup {NoUser}
    /\ page \in Pages
    /\ load \in {"none", "loading", "data", "error"}
    /\ orders \in Users \cup {NoUser}
    /\ card \in [phase : Phases, stock : 0..TotalStock[Shown]] \cup {NoCard}
    /\ panel \in [inFlight : BOOLEAN, result : Outcomes \cup {"none", "error"},
                  by : Users \cup {NoUser}, isBusy : BOOLEAN, waits : 0..MaxClicks]
    /\ posts \in [Posts -> [at : {"none", "sent", "answered"}, by : Users \cup {NoUser},
                            outcome : Outcomes \cup {"none", "error"}]]
    /\ screen \in Users \cup {NoUser}
    /\ clicks \in 0..MaxClicks

StoreInv ==
    /\ CatalogInv /\ TabType
    /\ RowsInv /\ CardInv
    /\ FlightInv /\ OwnInv /\ OrdersInv

---------------------------------------------------------------------------
(* The catalogue: rows, phases and listings.                               *)

\* What derivePhase makes of a row, at its time and later.
LEMMA PhaseIsRight ==
    ASSUME NEW s \in Sales, NEW r \in Rows(s), NEW t \in Nat
    PROVE  LET sale == mapRowToSale(s, r, t) IN
           /\ sale \in [phase : Phases, stock : 0..TotalStock[s]]
           /\ sale.phase \in Phases
           /\ sale.phase = "active" <=> StartsAt[s] <= t /\ t < EndsAt[s] /\ r.stock # 0
           /\ sale.phase = "upcoming" <=> t < StartsAt[s]
           /\ sale.phase = "ended" <=> EndsAt[s] <= t
           /\ sale.phase = "sold_out" <=> StartsAt[s] <= t /\ t < EndsAt[s] /\ r.stock = 0
<1>1. /\ StartsAt[s] \in Nat /\ EndsAt[s] \in Nat /\ StartsAt[s] < EndsAt[s]
      /\ TotalStock[s] \in Nat /\ r.stock \in 0..TotalStock[s]
    BY DEF Rows
<1>2. derivePhase(s, r, t) \in Phases
    BY DEF derivePhase, Phases
<1>3. /\ derivePhase(s, r, t) = "active" <=> StartsAt[s] <= t /\ t < EndsAt[s] /\ r.stock # 0
      /\ derivePhase(s, r, t) = "upcoming" <=> t < StartsAt[s]
      /\ derivePhase(s, r, t) = "ended" <=> EndsAt[s] <= t
      /\ derivePhase(s, r, t) = "sold_out" <=> StartsAt[s] <= t /\ t < EndsAt[s] /\ r.stock = 0
    BY <1>1 DEF derivePhase
<1> QED
    BY <1>1, <1>2, <1>3 DEF mapRowToSale

\* The conditions of findAll are those of derivePhase.
LEMMA ListingIsPhase ==
    ASSUME CatalogTypeOK, NEW s \in Sales
    PROVE  LET phase == mapRowToSale(s, row[s], now).phase IN
           /\ statusCondition("active", s, now) <=> phase = "active"
           /\ statusCondition("upcoming", s, now) <=> phase = "upcoming"
           /\ statusCondition("past", s, now) <=> phase \in {"ended", "sold_out"}
<1>1. now \in Nat /\ row[s] \in Rows(s)
    BY DEF CatalogTypeOK
<1>2. /\ StartsAt[s] \in Nat /\ EndsAt[s] \in Nat /\ StartsAt[s] < EndsAt[s]
      /\ TotalStock[s] \in Nat /\ row[s].stock \in 0..TotalStock[s]
    BY <1>1 DEF Rows
<1>3. /\ statusCondition("active", s, now)
            <=> StartsAt[s] <= now /\ EndsAt[s] > now /\ row[s].stock > 0
      /\ statusCondition("upcoming", s, now) <=> StartsAt[s] > now
      /\ statusCondition("past", s, now)
            <=> \/ EndsAt[s] <= now
                \/ StartsAt[s] <= now /\ EndsAt[s] > now /\ row[s].stock = 0
    BY DEF statusCondition
<1> DEFINE phase == mapRowToSale(s, row[s], now).phase
<1>4. /\ phase = "active" <=> StartsAt[s] <= now /\ now < EndsAt[s] /\ row[s].stock # 0
      /\ phase = "upcoming" <=> now < StartsAt[s]
      /\ phase = "ended" <=> EndsAt[s] <= now
      /\ phase = "sold_out" <=> StartsAt[s] <= now /\ now < EndsAt[s] /\ row[s].stock = 0
    BY <1>1, PhaseIsRight
<1> HIDE DEF phase
<1>5. /\ statusCondition("active", s, now) <=> phase = "active"
      /\ statusCondition("upcoming", s, now) <=> phase = "upcoming"
      /\ statusCondition("past", s, now) <=> phase \in {"ended", "sold_out"}
    BY <1>1, <1>2, <1>3, <1>4
<1> QED
    BY <1>5 DEF phase

\* ListingsPartition follows from the types of the rows.
LEMMA ListingsAgree == CatalogTypeOK => ListingsPartition
<1> SUFFICES ASSUME CatalogTypeOK PROVE ListingsPartition
    OBVIOUS
<1>1. \A st \in Statuses : /\ DOMAIN findAll(st) = {s \in Sales : ~row[s].cancelled
                                                        /\ statusCondition(st, s, now)}
                           /\ \A s \in DOMAIN findAll(st) :
                                findAll(st)[s] = mapRowToSale(s, row[s], now)
    BY DEF findAll
<1>2. ASSUME NEW s \in Sales, ~row[s].cancelled
      PROVE  Cardinality({st \in Statuses : s \in DOMAIN findAll(st)}) = 1
    <2> DEFINE phase == mapRowToSale(s, row[s], now).phase
               listed == {st \in Statuses : s \in DOMAIN findAll(st)}
    <2>1. phase \in {"upcoming", "active", "sold_out", "ended"}
        BY PhaseIsRight DEF CatalogTypeOK, Phases
    <2>2. \A st \in Statuses : st \in listed <=> statusCondition(st, s, now)
        BY <1>1, <1>2
    <2>3. /\ statusCondition("active", s, now) <=> phase = "active"
          /\ statusCondition("upcoming", s, now) <=> phase = "upcoming"
          /\ statusCondition("past", s, now) <=> phase \in {"ended", "sold_out"}
        BY ListingIsPhase
    <2>4. listed \subseteq Statuses
        OBVIOUS
    <2> HIDE DEF phase, listed
    <2>5. \E st \in Statuses : listed = {st}
        BY <2>1, <2>2, <2>3, <2>4 DEF Statuses
    <2>6. Cardinality(listed) = 1
        BY <2>5, FS_Singleton
    <2> QED
        BY <2>6 DEF listed
<1>3. ASSUME NEW st \in Statuses, NEW s \in DOMAIN findAll(st)
      PROVE  findAll(st)[s].phase \in PhasesListed(st)
    <2>1. s \in Sales /\ statusCondition(st, s, now)
          /\ findAll(st)[s].phase = mapRowToSale(s, row[s], now).phase
        BY <1>1
    <2> QED
        BY <2>1, ListingIsPhase DEF Statuses, PhasesListed
<1> QED
    BY <1>2, <1>3 DEF ListingsPartition

---------------------------------------------------------------------------
(* The catalogue: lookups and caches.                                      *)

\* What a lookup carries.
LEMMA LookupCarries ==
    ASSUME NEW v, LookupState(v)
    PROVE  /\ v.at \in {"idle", "sent", "missed", "read", "answered"}
           /\ v.at = "idle" => v = Idle
           /\ v.at # "idle" => v.id \in Sales
           /\ v.at \in {"missed", "read"} => v.replica \in Replicas
           /\ v.at = "read" => v.row \in Rows(v.id)
           /\ v.at = "answered" => v.sale \in SaleAnswers(v.id)
<1>1. CASE v = Idle
    BY <1>1 DEF Idle
<1>2. ASSUME NEW s \in Sales, v \in [at : {"sent"}, id : {s}]
      PROVE  v.at = "sent" /\ v.id = s
    BY <1>2
<1>3. ASSUME NEW s \in Sales, v \in [at : {"missed"}, id : {s}, replica : Replicas]
      PROVE  v.at = "missed" /\ v.id = s /\ v.replica \in Replicas
    BY <1>3
<1>4. ASSUME NEW s \in Sales,
             v \in [at : {"read"}, id : {s}, replica : Replicas, row : Rows(s)]
      PROVE  v.at = "read" /\ v.id = s /\ v.replica \in Replicas /\ v.row \in Rows(s)
    BY <1>4
<1>5. ASSUME NEW s \in Sales, v \in [at : {"answered"}, id : {s}, sale : SaleAnswers(s)]
      PROVE  v.at = "answered" /\ v.id = s /\ v.sale \in SaleAnswers(s)
    BY <1>5
<1> QED
    BY <1>1, <1>2, <1>3, <1>4, <1>5 DEF LookupState

\* The states the actions of a lookup make.
LEMMA LookupMade ==
    ASSUME NEW s \in Sales
    PROVE  /\ LookupState([at |-> "sent", id |-> s])
           /\ \A r \in Replicas : LookupState([at |-> "missed", id |-> s, replica |-> r])
           /\ \A r \in Replicas, w \in Rows(s) :
                LookupState([at |-> "read", id |-> s, replica |-> r, row |-> w])
           /\ \A a \in SaleAnswers(s) :
                LookupState([at |-> "answered", id |-> s, sale |-> a])
<1>1. LookupState([at |-> "sent", id |-> s])
    BY DEF LookupState
<1>2. ASSUME NEW r \in Replicas
      PROVE  LookupState([at |-> "missed", id |-> s, replica |-> r])
    BY DEF LookupState
<1>3. ASSUME NEW r \in Replicas, NEW w \in Rows(s)
      PROVE  LookupState([at |-> "read", id |-> s, replica |-> r, row |-> w])
    BY DEF LookupState
<1>4. ASSUME NEW a \in SaleAnswers(s)
      PROVE  LookupState([at |-> "answered", id |-> s, sale |-> a])
    BY DEF LookupState
<1> QED
    BY <1>1, <1>2, <1>3, <1>4

\* The type of the catalogue is that of CatalogTypeOK.
LEMMA CatalogParts == CatalogInv => CatalogTypeOK
BY Zenon DEF CatalogInv, CatalogTypeOK, LookupState

\* A lookup that moves on, with everything else of the catalogue kept.
LEMMA LookupMoves ==
    ASSUME CatalogInv, NEW l \in Lookups, NEW v, LookupState(v),
           lookup' = [lookup EXCEPT ![l] = v], UNCHANGED <<now, row, cache>>
    PROVE  CatalogInv'
<1>1. DOMAIN lookup' = Lookups /\ \A k \in Lookups : lookup'[k] = IF k = l THEN v ELSE lookup[k]
    BY DEF CatalogInv, Shape
<1>2. \A k \in Lookups : LookupState(lookup'[k])
    BY <1>1 DEF CatalogInv
<1> QED
    BY <1>1, <1>2 DEF CatalogInv, Shape

\* What the API makes of a row it has is an answer to a lookup of its sale,
\* and right for a sale that has begun.
LEMMA AnswerIsRight ==
    ASSUME CatalogInv, NEW s \in Sales, NEW w \in Rows(s)
    PROVE  LET sale == IF w.cancelled THEN NotFound ELSE mapRowToSale(s, w, now) IN
           /\ sale \in SaleAnswers(s)
           /\ sale.phase \in Phases \ {"active"} /\ StartsAt[s] <= now
                => w.stock = 0 \/ EndsAt[s] <= now
<1>1. now \in Nat
    BY DEF CatalogInv
<1> DEFINE m == mapRowToSale(s, w, now)
           sale == IF w.cancelled THEN NotFound ELSE m
<1>2. /\ m \in [phase : Phases, stock : 0..TotalStock[s]]
      /\ m.phase = "upcoming" <=> now < StartsAt[s]
      /\ m.phase = "ended" <=> EndsAt[s] <= now
      /\ m.phase = "sold_out" <=> StartsAt[s] <= now /\ now < EndsAt[s] /\ w.stock = 0
    BY <1>1, PhaseIsRight
<1>3. NotFound \in SaleAnswers(s) /\ NotFound.phase \notin Phases
    BY DEF NotFound, SaleAnswers, Phases
<1> HIDE DEF m
<1>4. sale \in SaleAnswers(s)
    BY <1>2, <1>3 DEF SaleAnswers
<1>5. StartsAt[s] \in Nat
    OBVIOUS
<1>6. ASSUME sale.phase \in Phases \ {"active"}, StartsAt[s] <= now
      PROVE  w.stock = 0 \/ EndsAt[s] <= now
    <2>1. sale = m
        BY <1>3, <1>6
    <2> QED
        BY <1>1, <1>2, <1>5, <1>6, <2>1 DEF Phases
<1> QED
    BY <1>4, <1>6 DEF m

\* Nothing in the catalogue makes an old answer wrong.
OnlyLater ==
    /\ now <= now'
    /\ \A s \in Sales : row[s].stock = 0 => row'[s].stock = 0

\* Time and purchases go one way.
LEMMA LaterIsOver ==
    ASSUME CatalogInv, CatalogInv', OnlyLater
    PROVE  (Begun => Begun') /\ (Over => Over')
<1>1. StartsAt[Shown] \in Nat /\ EndsAt[Shown] \in Nat /\ now \in Nat /\ now' \in Nat /\ now <= now'
    BY DEF CatalogInv, OnlyLater
<1> QED
    BY <1>1 DEF OnlyLater, Begun, Over

\* A step of one lookup to a state that is right keeps RowsInv.
LEMMA LookupKeepsRows ==
    ASSUME CatalogInv, RowsInv, NEW l \in Lookups, NEW v,
           lookup' = [lookup EXCEPT ![l] = v], UNCHANGED <<now, row>>,
           \A r \in Replicas, s \in Sales : cache'[r][s].stock = 0 => row[s].stock = 0,
           v.at # "idle" => v.id = Shown /\ Begun,
           v.at = "read" /\ v.row.stock = 0 => row[Shown].stock = 0,
           v.at = "answered" /\ v.sale.phase \in Phases \ {"active"} => Over
    PROVE  RowsInv'
<1>1. \A k \in Lookups : lookup'[k] = IF k = l THEN v ELSE lookup[k]
    BY DEF CatalogInv, Shape
<1>2. Begun' = Begun /\ Over' = Over
    BY DEF Begun, Over
<1> QED
    BY <1>1, <1>2 DEF RowsInv

\* What a lookup finds in a cache, a missing row or the database is right.
LEMMA LookupKeeps ==
    ASSUME CatalogInv, RowsInv, NEW l \in Lookups, findById(l) \/ LookupFails(l)
    PROVE  CatalogInv' /\ RowsInv' /\ OnlyLater
<1> DEFINE s == lookup[l].id
<1>1. LookupState(lookup[l]) /\ lookup[l].at # "idle" /\ s \in Sales
    BY LookupCarries
    DEF CatalogInv, findById, FindRowCached, FindRowMissed, SelectRow, CacheRow, LookupFails
<1>2. s = Shown /\ Begun
    BY <1>1 DEF RowsInv
<1>3. now' = now /\ row' = row
    BY DEF findById, FindRowCached, FindRowMissed, SelectRow, CacheRow, LookupFails
<1>4. OnlyLater
    BY <1>3 DEF OnlyLater, CatalogInv
<1> HIDE DEF s
<1>5. CASE FindRowCached(l)
    <2>1. PICK r \in Replicas :
            /\ cache[r][s] # NoRow
            /\ lookup' = [lookup EXCEPT ![l] = [at |-> "answered", id |-> s, sale |->
                            IF cache[r][s].cancelled THEN NotFound
                            ELSE mapRowToSale(s, cache[r][s], now)]]
        BY <1>5 DEF FindRowCached, s
    <2> DEFINE sale == IF cache[r][s].cancelled THEN NotFound
                       ELSE mapRowToSale(s, cache[r][s], now)
               v == [at |-> "answered", id |-> s, sale |-> sale]
    <2>2. cache[r][s] \in Rows(s)
        BY <1>1, <2>1 DEF CatalogInv
    <2>3. /\ sale \in SaleAnswers(s)
          /\ sale.phase \in Phases \ {"active"} /\ StartsAt[s] <= now
                => cache[r][s].stock = 0 \/ EndsAt[s] <= now
        BY <1>1, <2>2, AnswerIsRight
    <2> HIDE DEF sale
    <2>4. LookupState(v)
        BY <1>1, <2>3, LookupMade
    <2>5. sale.phase \in Phases \ {"active"} => Over
        BY <1>1, <1>2, <2>3 DEF Over, Begun, RowsInv
    <2>6. v.at = "answered" /\ v.id = s /\ v.sale = sale
        OBVIOUS
    <2>7. lookup' = [lookup EXCEPT ![l] = v] /\ UNCHANGED <<now, row, cache>>
        BY <1>5, <2>1 DEF FindRowCached, sale
    <2> HIDE DEF v
    <2>8. CatalogInv'
        BY <2>4, <2>7, LookupMoves
    <2>9. RowsInv'
        BY <1>2, <2>5, <2>6, <2>7, LookupKeepsRows DEF RowsInv
    <2> QED
        BY <1>4, <2>8, <2>9
<1>6. CASE FindRowMissed(l)
    <2>1. PICK r \in Replicas :
            lookup' = [lookup EXCEPT ![l] = [at |-> "missed", id |-> s, replica |-> r]]
        BY <1>6 DEF FindRowMissed, s
    <2> DEFINE v == [at |-> "missed", id |-> s, replica |-> r]
    <2>2. LookupState(v)
        BY <1>1, LookupMade
    <2>3. v.at = "missed" /\ v.id = s
        OBVIOUS
    <2>4. lookup' = [lookup EXCEPT ![l] = v] /\ UNCHANGED <<now, row, cache>>
        BY <1>6, <2>1 DEF FindRowMissed
    <2> HIDE DEF v
    <2>5. CatalogInv'
        BY <2>2, <2>4, LookupMoves
    <2>6. RowsInv'
        BY <1>2, <2>3, <2>4, LookupKeepsRows DEF RowsInv
    <2> QED
        BY <1>4, <2>5, <2>6
<1>7. CASE SelectRow(l)
    <2> DEFINE v == [at |-> "read", id |-> s, replica |-> lookup[l].replica, row |-> row[s]]
    <2>1. lookup[l].replica \in Replicas /\ row[s] \in Rows(s)
        BY <1>1, <1>7, LookupCarries DEF CatalogInv, SelectRow
    <2>2. LookupState(v)
        BY <1>1, <2>1, LookupMade
    <2>3. v.at = "read" /\ v.id = s /\ v.row = row[s]
        OBVIOUS
    <2>4. lookup' = [lookup EXCEPT ![l] = v] /\ UNCHANGED <<now, row, cache>>
        BY <1>7 DEF SelectRow, s
    <2> HIDE DEF v
    <2>5. CatalogInv'
        BY <2>2, <2>4, LookupMoves
    <2>6. RowsInv'
        BY <1>2, <2>3, <2>4, LookupKeepsRows DEF RowsInv
    <2> QED
        BY <1>4, <2>5, <2>6
<1>8. CASE CacheRow(l)
    <2> DEFINE w == lookup[l].row
               sale == IF w.cancelled THEN NotFound ELSE mapRowToSale(s, w, now)
               v == [at |-> "answered", id |-> s, sale |-> sale]
    <2>1. w \in Rows(s) /\ lookup[l].replica \in Replicas
        BY <1>1, <1>8, LookupCarries DEF CacheRow, s
    <2>2. /\ sale \in SaleAnswers(s)
          /\ sale.phase \in Phases \ {"active"} /\ StartsAt[s] <= now
                => w.stock = 0 \/ EndsAt[s] <= now
        BY <1>1, <2>1, AnswerIsRight
    <2>3. /\ lookup' = [lookup EXCEPT ![l] = v] /\ now' = now /\ row' = row
          /\ cache' = [cache EXCEPT ![lookup[l].replica][s] = w]
        BY <1>8 DEF CacheRow, s
    <2>4. w.stock = 0 => row[s].stock = 0
        BY <1>2, <1>8 DEF RowsInv, CacheRow
    <2> HIDE DEF sale, w
    <2>5. LookupState(v)
        BY <1>1, <2>2, LookupMade
    <2>6. sale.phase \in Phases \ {"active"} => Over
        BY <1>1, <1>2, <2>2, <2>4 DEF Over, Begun
    <2>7. v.at = "answered" /\ v.id = s /\ v.sale = sale
        OBVIOUS
    <2> HIDE DEF v
    <2>8. /\ DOMAIN cache' = Replicas
          /\ \A r \in Replicas : DOMAIN cache'[r] = Sales
          /\ \A r \in Replicas, q \in Sales : (cache'[r][q] = w /\ q = s) \/ cache'[r][q] = cache[r][q]
        BY <1>1, <2>1, <2>3 DEF CatalogInv, Shape
    <2>9. RowsInv'
        <3>1. \A r \in Replicas, q \in Sales : cache'[r][q].stock = 0 => row[q].stock = 0
            BY <2>4, <2>8 DEF RowsInv
        <3> QED
            BY <1>2, <2>3, <2>6, <2>7, <3>1, LookupKeepsRows
    <2>10. CatalogInv'
        <3>1. DOMAIN lookup' = Lookups /\ \A k \in Lookups : lookup'[k] = IF k = l THEN v ELSE lookup[k]
            BY <2>3 DEF CatalogInv, Shape
        <3>2. \A k \in Lookups : LookupState(lookup'[k])
            BY <2>5, <3>1 DEF CatalogInv
        <3>3. \A r \in Replicas, q \in Sales : cache'[r][q] \in Rows(q) \cup {NoRow}
            BY <2>1, <2>8 DEF CatalogInv
        <3> QED
            BY <2>3, <2>8, <3>1, <3>2, <3>3 DEF CatalogInv, Shape
    <2> QED
        BY <1>4, <2>9, <2>10
<1>9. CASE LookupFails(l)
    <2> DEFINE v == [at |-> "answered", id |-> s, sale |-> Failed]
    <2>1. Failed \in SaleAnswers(s) /\ Failed.phase \notin Phases
        BY DEF Failed, SaleAnswers, Phases
    <2>2. LookupState(v)
        BY <1>1, <2>1, LookupMade
    <2>3. v.at = "answered" /\ v.id = s /\ v.sale = Failed
        OBVIOUS
    <2>4. lookup' = [lookup EXCEPT ![l] = v] /\ UNCHANGED <<now, row, cache>>
        BY <1>9 DEF LookupFails, s
    <2> HIDE DEF v
    <2>5. CatalogInv'
        BY <2>2, <2>4, LookupMoves
    <2>6. RowsInv'
        BY <1>2, <2>1, <2>3, <2>4, LookupKeepsRows DEF RowsInv
    <2> QED
        BY <1>4, <2>5, <2>6
<1> QED
    BY <1>5, <1>6, <1>7, <1>8, <1>9 DEF findById

\* A purchase is written, a sale cancelled, a cached row forgotten, time goes on.
LEMMA RowsKeep ==
    ASSUME CatalogInv, RowsInv,
           \/ \E r \in Replicas, s \in Sales : Expire(r, s)
           \/ \E s \in Sales : StockFalls(s) \/ Cancel(s)
           \/ Tick
    PROVE  CatalogInv' /\ RowsInv' /\ OnlyLater
<1>1. ASSUME NEW r \in Replicas, NEW s \in Sales, Expire(r, s)
      PROVE  CatalogInv' /\ RowsInv' /\ OnlyLater
    <2>1. /\ DOMAIN cache' = Replicas
          /\ \A q \in Replicas : DOMAIN cache'[q] = Sales
          /\ \A q \in Replicas, k \in Sales : cache'[q][k] = NoRow \/ cache'[q][k] = cache[q][k]
        BY <1>1 DEF Expire, CatalogInv, Shape
    <2>2. NoRow.stock # 0
        BY DEF NoRow
    <2>3. UNCHANGED <<now, row, lookup>>
        BY <1>1 DEF Expire
    <2>4. OnlyLater
        BY <2>3 DEF OnlyLater, CatalogInv
    <2>5. CatalogInv'
        BY <2>1, <2>3 DEF CatalogInv, Shape
    <2>6. RowsInv'
        BY <2>1, <2>2, <2>3 DEF RowsInv, Begun, Over
    <2> QED
        BY <2>4, <2>5, <2>6
<1>2. ASSUME NEW s \in Sales, StockFalls(s) \/ Cancel(s)
      PROVE  CatalogInv' /\ RowsInv' /\ OnlyLater
    <2>1. UNCHANGED <<now, cache, lookup>>
        BY <1>2 DEF StockFalls, Cancel
    <2>2. row[s] \in Rows(s) /\ TotalStock[s] \in Nat
        BY DEF CatalogInv
    <2>3. row'[s] \in Rows(s) /\ (row[s].stock = 0 => row'[s].stock = 0)
        <3>1. CASE StockFalls(s)
            <4>1. row'[s] = [row[s] EXCEPT !.stock = row[s].stock - 1] /\ row[s].stock > 0
                BY <3>1 DEF StockFalls, CatalogInv, Shape
            <4> QED
                BY <2>2, <4>1 DEF Rows
        <3>2. CASE Cancel(s)
            <4>1. row'[s] = [row[s] EXCEPT !.cancelled = TRUE]
                BY <3>2 DEF Cancel, CatalogInv, Shape
            <4> QED
                BY <2>2, <4>1 DEF Rows
        <3> QED
            BY <1>2, <3>1, <3>2
    <2>4. DOMAIN row' = Sales /\ \A k \in Sales \ {s} : row'[k] = row[k]
        BY <1>2 DEF StockFalls, Cancel, CatalogInv, Shape
    <2>5. OnlyLater
        BY <2>1, <2>3, <2>4 DEF OnlyLater, CatalogInv
    <2>6. CatalogInv'
        BY <2>1, <2>3, <2>4 DEF CatalogInv, Shape
    <2>7. (Begun => Begun') /\ (Over => Over')
        BY <2>5, <2>6, LaterIsOver
    <2>8. RowsInv'
        BY <2>1, <2>5, <2>7 DEF RowsInv, OnlyLater
    <2> QED
        BY <2>5, <2>6, <2>8
<1>3. ASSUME Tick
      PROVE  CatalogInv' /\ RowsInv' /\ OnlyLater
    <2>1. UNCHANGED <<row, cache, lookup>> /\ now' \in 0..Horizon /\ now <= now'
        BY <1>3 DEF Tick, CatalogInv
    <2>2. OnlyLater
        BY <2>1 DEF OnlyLater
    <2>3. CatalogInv'
        BY <2>1 DEF CatalogInv, Shape
    <2>4. (Begun => Begun') /\ (Over => Over')
        BY <2>2, <2>3, LaterIsOver
    <2>5. RowsInv'
        BY <2>1, <2>4 DEF RowsInv
    <2> QED
        BY <2>2, <2>3, <2>5
<1> QED
    BY <1>1, <1>2, <1>3

---------------------------------------------------------------------------
(* The tab.                                                                *)

\* A step of the tab that leaves the catalogue alone.
LEMMA CatalogSame ==
    ASSUME CatalogInv, RowsInv, UNCHANGED catalogVars
    PROVE  CatalogInv' /\ RowsInv' /\ Begun' = Begun /\ Over' = Over
BY DEF catalogVars, CatalogInv, Shape, RowsInv, Begun, Over

\* The catalogue's own steps.
LEMMA CatalogKeeps ==
    ASSUME StoreInv, CatalogStep, UNCHANGED tabVars
    PROVE  StoreInv'
<1> USE DEF StoreInv
<1>1. CatalogInv' /\ RowsInv' /\ OnlyLater
    BY LookupKeeps, RowsKeep DEF CatalogStep
<1>2. (Begun => Begun') /\ (Over => Over')
    BY <1>1, LaterIsOver
<1>3. CardInv'
    BY <1>2 DEF tabVars, CardInv
<1> QED
    BY <1>1, <1>3 DEF tabVars, TabType, FlightInv, OwnInv, OrdersInv

\* A mounted page starts from nothing, for whoever is signed in then.
LEMMA GoToKeeps ==
    ASSUME StoreInv, NEW p \in Pages, NEW e \in Users \cup {NoUser}, GoTo(p, e), email' = e
    PROVE  StoreInv'
<1> USE DEF StoreInv
<1>1. /\ lookup' = [l \in Lookups |-> Idle] /\ UNCHANGED <<now, row, cache, clicks>>
      /\ page' = Landing(p, e)
      /\ load' = IF Landing(p, e) \in Fetching THEN "loading" ELSE "none"
      /\ orders' = NoUser /\ card' = NoCard /\ panel' = NewPanel
      /\ posts' = [q \in Posts |-> NoPost] /\ screen' = NoUser
    BY DEF GoTo
<1>2. Idle.at = "idle" /\ NoCard.phase \notin Phases /\ NoPost.at = "none"
    BY DEF Idle, NoCard, NoPost, Phases
<1>3. CatalogInv' /\ RowsInv'
    <2>1. DOMAIN lookup' = Lookups /\ \A l \in Lookups : lookup'[l] = Idle
        BY <1>1
    <2>2. CatalogInv'
        BY <1>1, <2>1 DEF CatalogInv, Shape, LookupState
    <2>3. RowsInv'
        BY <1>1, <1>2, <2>1 DEF RowsInv
    <2> QED
        BY <2>2, <2>3
<1>4. Landing(p, e) \in Pages /\ (Landing(p, e) = "orders" => e # NoUser)
    BY DEF Landing, Pages
<1>5. TabType'
    <2>1. NewPanel \in [inFlight : BOOLEAN, result : Outcomes \cup {"none", "error"},
                        by : Users \cup {NoUser}, isBusy : BOOLEAN, waits : 0..MaxClicks]
        BY DEF NewPanel
    <2>2. posts' \in [Posts -> [at : {"none", "sent", "answered"}, by : Users \cup {NoUser},
                                outcome : Outcomes \cup {"none", "error"}]]
        BY <1>1 DEF NoPost
    <2> QED
        BY <1>1, <1>4, <2>1, <2>2 DEF TabType
<1>6. CardInv'
    BY <1>1, <1>2 DEF CardInv, Phases, NewPanel
<1>7. FlightInv'
    BY <1>1, <1>2 DEF FlightInv, NewPanel, TabType
<1>8. OwnInv' /\ OrdersInv'
    BY <1>1, <1>2, <1>4 DEF OwnInv, OrdersInv, NewPanel
<1> QED
    BY <1>3, <1>5, <1>6, <1>7, <1>8

\* Navigation, signing in and out, reloading, and Retry.
LEMMA UserKeeps ==
    ASSUME StoreInv,
           \/ \E p \in Pages : Navigate(p)
           \/ \E e \in Users : Login(e)
           \/ Logout \/ Reload \/ refetch
    PROVE  StoreInv'
<1> USE DEF StoreInv
<1>1. page \in Pages /\ email \in Users \cup {NoUser}
    BY DEF TabType
<1>2. CASE \E p \in Pages : Navigate(p)
    BY <1>1, <1>2, GoToKeeps DEF Navigate
<1>3. CASE \E e \in Users : Login(e)
    BY <1>3, GoToKeeps DEF Login, Pages
<1>4. CASE Reload
    BY <1>1, <1>4, GoToKeeps DEF Reload
<1>5. CASE Logout
    <2>1. CASE page = "orders"
        BY <1>5, <2>1, GoToKeeps DEF Logout, Pages
    <2>2. CASE page # "orders"
        <3>1. /\ email' = NoUser
              /\ UNCHANGED <<catalogVars, page, load, orders, card, panel, posts, screen, clicks>>
            BY <1>5, <2>2 DEF Logout
        <3>2. CatalogInv' /\ RowsInv' /\ Begun' = Begun /\ Over' = Over
            BY <3>1, CatalogSame
        <3> QED
            BY <2>2, <3>1, <3>2 DEF TabType, CardInv, FlightInv, OwnInv, OrdersInv
    <2> QED
        BY <2>1, <2>2
<1>6. CASE refetch
    <2>1. CatalogInv' /\ RowsInv' /\ Begun' = Begun /\ Over' = Over
        BY <1>6, CatalogSame DEF refetch
    <2> QED
        BY <1>6, <2>1 DEF refetch, TabType, CardInv, FlightInv, OwnInv, OrdersInv
<1> QED
    BY <1>2, <1>3, <1>4, <1>5, <1>6

\* The live page mounts a card only of a sale that is listed as active.
LEMMA ListedIsActive ==
    ASSUME CatalogInv
    PROVE  \/ listedSale = NoCard
           \/ /\ listedSale \in [phase : Phases, stock : 0..TotalStock[Shown]]
              /\ listedSale.phase = "active" /\ Begun
<1>1. now \in Nat /\ row[Shown] \in Rows(Shown)
    BY DEF CatalogInv
<1>2. CASE page = "live" /\ Shown \in DOMAIN findAll("active")
    <2>1. /\ statusCondition("active", Shown, now)
          /\ listedSale = mapRowToSale(Shown, row[Shown], now)
        BY <1>2 DEF listedSale, findAll
    <2>2. listedSale.phase = "active"
        BY <2>1, ListingIsPhase, CatalogParts
    <2>3. /\ listedSale \in [phase : Phases, stock : 0..TotalStock[Shown]]
          /\ listedSale.phase = "active" => StartsAt[Shown] <= now
        BY <1>1, <2>1, PhaseIsRight
    <2> QED
        BY <2>2, <2>3 DEF Begun
<1>3. CASE ~(page = "live" /\ Shown \in DOMAIN findAll("active"))
    BY <1>3 DEF listedSale
<1> QED
    BY <1>2, <1>3

\* The page's data arrives, or does not.
LEMMA LoadKeeps ==
    ASSUME StoreInv, Loaded \/ LoadFails
    PROVE  StoreInv'
<1> USE DEF StoreInv
<1>1. CatalogInv' /\ RowsInv' /\ Begun' = Begun /\ Over' = Over
    BY CatalogSame DEF Loaded, LoadFails
<1>2. CASE LoadFails
    BY <1>1, <1>2 DEF LoadFails, TabType, CardInv, FlightInv, OwnInv, OrdersInv
<1>3. CASE Loaded
    <2>1. /\ load' = "data" /\ orders' = ordersShown /\ card' = listedSale
          /\ UNCHANGED <<email, page, panel, posts, screen, clicks>>
        BY <1>3 DEF Loaded
    <2>2. \/ card' = NoCard
          \/ /\ card' \in [phase : Phases, stock : 0..TotalStock[Shown]]
             /\ card'.phase = "active" /\ Begun
        BY <2>1, ListedIsActive
    <2>3. NoCard.phase \notin Phases /\ NoCard.phase # "active"
        BY DEF NoCard, Phases
    <2>4. TabType'
        BY <2>1, <2>2 DEF TabType, ordersShown
    <2>5. CardInv'
        BY <1>1, <2>1, <2>2, <2>3 DEF CardInv
    <2>6. OrdersInv'
        BY <2>1 DEF OrdersInv, ordersShown
    <2> QED
        BY <1>1, <2>1, <2>4, <2>5, <2>6 DEF FlightInv, OwnInv
<1> QED
    BY <1>2, <1>3

\* What is on the screen is the button of some state, and the sale has begun.
LEMMA RenderKeeps ==
    ASSUME StoreInv, Render
    PROVE  StoreInv'
<1> USE DEF StoreInv
<1>1. CatalogInv' /\ RowsInv' /\ Begun' = Begun /\ Over' = Over
    BY CatalogSame DEF Render
<1>2. /\ screen' \in {NoUser, email}
      /\ screen' # NoUser => card.phase = "active"
    BY DEF Render, Button
<1>3. CardInv'
    BY <1>1, <1>2 DEF Render, CardInv
<1> QED
    BY <1>1, <1>2, <1>3 DEF Render, TabType, FlightInv, OwnInv, OrdersInv

\* A click: one POST while none is under way, and otherwise one more wait.
LEMMA BuyKeeps ==
    ASSUME StoreInv, NEW p \in Posts, Buy(p)
    PROVE  StoreInv'
<1> USE DEF StoreInv
<1>1. /\ screen # NoUser /\ clicks < MaxClicks /\ clicks' = clicks + 1 /\ submit(p)
      /\ UNCHANGED <<catalogVars, email, page, load, orders, card, screen>>
    BY DEF Buy
<1>2. CatalogInv' /\ RowsInv' /\ Begun' = Begun /\ Over' = Over
    BY <1>1, CatalogSame
<1>3. clicks \in Nat /\ clicks' \in 0..MaxClicks /\ panel.waits \in Nat
    BY <1>1 DEF TabType
<1>4. CASE panel.inFlight
    <2>1. /\ posts' = posts
          /\ panel' = [panel EXCEPT !.isBusy = TRUE, !.waits = panel.waits + 1]
        BY <1>1, <1>4 DEF submit
    <2>2. panel.waits + 1 <= clicks
        BY <1>4 DEF FlightInv
    <2>3. /\ panel'.inFlight = panel.inFlight /\ panel'.result = panel.result
          /\ panel'.by = panel.by /\ panel'.isBusy = TRUE /\ panel'.waits = panel.waits + 1
        BY <2>1 DEF TabType
    <2>4. panel' \in [inFlight : BOOLEAN, result : Outcomes \cup {"none", "error"},
                      by : Users \cup {NoUser}, isBusy : BOOLEAN, waits : 0..MaxClicks]
        <3>1. panel.waits + 1 \in 0..MaxClicks
            BY <1>1, <1>3, <2>2
        <3> QED
            BY <2>1, <3>1 DEF TabType
    <2>5. TabType'
        BY <1>1, <1>3, <2>1, <2>4 DEF TabType
    <2>6. CardInv'
        BY <1>1, <1>2, <2>1 DEF CardInv
    <2>7. FlightInv'
        BY <1>1, <1>3, <1>4, <2>1, <2>2, <2>3 DEF FlightInv
    <2>8. OwnInv' /\ OrdersInv'
        BY <1>1, <2>1, <2>3 DEF OwnInv, OrdersInv
    <2> QED
        BY <1>2, <2>5, <2>6, <2>7, <2>8
<1>5. CASE ~panel.inFlight
    <2>1. /\ panel' = [panel EXCEPT !.isBusy = TRUE, !.inFlight = TRUE,
                           !.result = IF panel.result = "error" THEN "none" ELSE panel.result]
          /\ posts' = [posts EXCEPT ![p] = [at |-> "sent", by |-> screen, outcome |-> "none"]]
        BY <1>1, <1>5 DEF submit
    <2>2. /\ panel'.inFlight /\ panel'.result \in {"none", panel.result}
          /\ panel'.by = panel.by /\ panel'.waits = panel.waits
        BY <2>1 DEF TabType
    <2>3. panel' \in [inFlight : BOOLEAN, result : Outcomes \cup {"none", "error"},
                      by : Users \cup {NoUser}, isBusy : BOOLEAN, waits : 0..MaxClicks]
        BY <2>1 DEF TabType
    <2>4. /\ posts'[p].at = "sent" /\ posts'[p].by = screen
          /\ \A q \in Posts \ {p} : posts'[q] = posts[q]
        BY <2>1 DEF TabType
    <2>5. TabType'
        <3>1. posts' \in [Posts -> [at : {"none", "sent", "answered"}, by : Users \cup {NoUser},
                                    outcome : Outcomes \cup {"none", "error"}]]
            BY <2>1 DEF TabType
        <3> QED
            BY <1>1, <1>3, <2>3, <3>1 DEF TabType
    <2>6. CardInv'
        BY <1>1, <1>2 DEF CardInv
    <2>7. \A q \in Posts : posts[q].at = "none"
        BY <1>5 DEF FlightInv
    <2>8. FlightInv'
        <3>1. panel.waits <= clicks
            BY <1>3, <1>5 DEF FlightInv
        <3>2. panel'.waits + (IF panel'.inFlight THEN 1 ELSE 0) <= clicks'
            BY <1>1, <1>3, <2>2, <3>1
        <3> QED
            BY <2>2, <2>4, <2>7, <3>2 DEF FlightInv
    <2>9. OwnInv' /\ OrdersInv'
        BY <1>1, <2>2, <2>4, <2>7 DEF OwnInv, OrdersInv
    <2> QED
        BY <1>2, <2>5, <2>6, <2>8, <2>9
<1> QED
    BY <1>4, <1>5

\* The API answers a POST.
LEMMA AnswerKeeps ==
    ASSUME StoreInv, NEW p \in Posts, PurchaseAnswered(p)
    PROVE  StoreInv'
<1> USE DEF StoreInv
<1>1. PICK o \in Outcomes \cup {"error"} :
        posts' = [posts EXCEPT ![p] = [posts[p] EXCEPT !.at = "answered", !.outcome = o]]
    BY DEF PurchaseAnswered, TabType
<1>2. /\ posts[p].at = "sent"
      /\ UNCHANGED <<catalogVars, email, page, load, orders, card, panel, screen, clicks>>
    BY DEF PurchaseAnswered
<1>3. CatalogInv' /\ RowsInv' /\ Begun' = Begun /\ Over' = Over
    BY <1>2, CatalogSame
<1>4. posts' \in [Posts -> [at : {"none", "sent", "answered"}, by : Users \cup {NoUser},
                            outcome : Outcomes \cup {"none", "error"}]]
    BY <1>1 DEF TabType
<1>5. \A q \in Posts : (posts'[q].at # "none" <=> posts[q].at # "none") /\ posts'[q].by = posts[q].by
    BY <1>1, <1>2 DEF TabType
<1> QED
    BY <1>2, <1>3, <1>4, <1>5 DEF TabType, CardInv, FlightInv, OwnInv, OrdersInv

\* submit goes on with the answer: the POST becomes a wait.
LEMMA SettleKeeps ==
    ASSUME StoreInv, NEW p \in Posts, Settle(p)
    PROVE  StoreInv'
<1> USE DEF StoreInv
<1>1. /\ posts[p].at = "answered"
      /\ posts' = [posts EXCEPT ![p] = NoPost]
      /\ panel' = [panel EXCEPT !.inFlight = FALSE, !.waits = panel.waits + 1,
                                !.result = posts[p].outcome, !.by = posts[p].by]
      /\ UNCHANGED <<catalogVars, email, page, load, orders, card, screen, clicks>>
    BY DEF Settle
<1>2. CatalogInv' /\ RowsInv' /\ Begun' = Begun /\ Over' = Over
    BY <1>1, CatalogSame
<1>3. panel.inFlight /\ panel.waits \in Nat /\ clicks \in 0..MaxClicks
    BY <1>1 DEF FlightInv, TabType
<1>4. panel.waits + 1 <= clicks /\ panel.waits + 1 \in 0..MaxClicks
    <2>1. panel.waits + 1 <= clicks
        BY <1>3 DEF FlightInv
    <2> QED
        BY <1>3, <2>1
<1>5. /\ panel'.inFlight = FALSE /\ panel'.waits = panel.waits + 1
      /\ panel'.by = posts[p].by
    BY <1>1 DEF TabType
<1>6. \A q \in Posts : posts'[q].at = "none"
    <2>1. NoPost.at = "none"
        BY DEF NoPost
    <2>2. \A q \in Posts \ {p} : posts[q].at = "none"
        BY <1>1 DEF FlightInv
    <2> QED
        BY <1>1, <2>1, <2>2 DEF TabType
<1>7. TabType'
    <2>1. posts' \in [Posts -> [at : {"none", "sent", "answered"}, by : Users \cup {NoUser},
                                outcome : Outcomes \cup {"none", "error"}]]
        BY <1>1 DEF TabType, NoPost
    <2>2. posts[p].outcome \in Outcomes \cup {"none", "error"} /\ posts[p].by \in Users \cup {NoUser}
        BY DEF TabType
    <2>3. panel' \in [inFlight : BOOLEAN, result : Outcomes \cup {"none", "error"},
                      by : Users \cup {NoUser}, isBusy : BOOLEAN, waits : 0..MaxClicks]
        BY <1>1, <1>4, <2>2 DEF TabType
    <2> QED
        BY <1>1, <2>1, <2>3 DEF TabType
<1>8. CardInv'
    BY <1>1, <1>2 DEF CardInv
<1>9. FlightInv'
    BY <1>1, <1>4, <1>5, <1>6 DEF FlightInv
<1>10. OwnInv' /\ OrdersInv'
    BY <1>1, <1>5, <1>6 DEF OwnInv, OrdersInv
<1> QED
    BY <1>2, <1>7, <1>8, <1>9, <1>10

\* The wait is over: the sale on the card is asked for.
LEMMA WaitKeeps ==
    ASSUME StoreInv, NEW l \in Lookups, WaitOver(l)
    PROVE  StoreInv'
<1> USE DEF StoreInv
<1> DEFINE v == [at |-> "sent", id |-> Shown]
<1>1. /\ panel.waits > 0
      /\ panel' = [panel EXCEPT !.isBusy = FALSE, !.waits = panel.waits - 1]
      /\ lookup' = [lookup EXCEPT ![l] = v]
      /\ UNCHANGED <<now, row, cache>>
      /\ UNCHANGED <<email, page, load, orders, card, posts, screen, clicks>>
    BY DEF WaitOver
<1>2. Begun
    BY <1>1 DEF CardInv
<1>3. v.at = "sent" /\ v.id = Shown /\ LookupState(v)
    BY LookupMade
<1> HIDE DEF v
<1>4. CatalogInv'
    BY <1>1, <1>3, LookupMoves
<1>5. RowsInv'
    BY <1>1, <1>2, <1>3, LookupKeepsRows DEF RowsInv
<1>6. Begun' = Begun /\ Over' = Over
    BY <1>1 DEF Begun, Over
<1>7. /\ panel'.inFlight = panel.inFlight /\ panel'.result = panel.result
      /\ panel'.by = panel.by /\ panel'.waits = panel.waits - 1 /\ panel.waits \in Nat
    BY <1>1 DEF TabType
<1>8. TabType'
    <2>1. panel.waits - 1 \in 0..MaxClicks
        BY <1>1 DEF TabType
    <2>2. panel' \in [inFlight : BOOLEAN, result : Outcomes \cup {"none", "error"},
                      by : Users \cup {NoUser}, isBusy : BOOLEAN, waits : 0..MaxClicks]
        BY <1>1, <2>1 DEF TabType
    <2> QED
        BY <1>1, <2>2 DEF TabType
<1>9. CardInv'
    BY <1>1, <1>2, <1>6 DEF CardInv
<1>10. FlightInv'
    <2>1. clicks \in Nat
        BY DEF TabType
    <2> QED
        BY <1>1, <1>7, <2>1 DEF FlightInv
<1>11. OwnInv' /\ OrdersInv'
    BY <1>1, <1>7 DEF OwnInv, OrdersInv
<1> QED
    BY <1>4, <1>5, <1>8, <1>9, <1>10, <1>11

\* An answer reaches the card, however late.
LEMMA RefreshKeeps ==
    ASSUME StoreInv, NEW l \in Lookups, refreshSale(l)
    PROVE  StoreInv'
<1> USE DEF StoreInv
<1> DEFINE sale == lookup[l].sale
<1>1. /\ lookup[l].at = "answered"
      /\ lookup' = [lookup EXCEPT ![l] = Idle]
      /\ card' = IF sale \in {NotFound, Failed} THEN card ELSE sale
      /\ UNCHANGED <<now, row, cache>>
      /\ UNCHANGED <<email, page, load, orders, panel, posts, screen, clicks>>
    BY DEF refreshSale
<1>2. Idle.at = "idle" /\ LookupState(Idle)
    BY DEF Idle, LookupState
<1>3. CatalogInv'
    BY <1>1, <1>2, LookupMoves
<1>4. RowsInv'
    BY <1>1, <1>2, LookupKeepsRows DEF RowsInv
<1>5. Begun /\ Begun' = Begun /\ Over' = Over
    BY <1>1 DEF Begun, Over, RowsInv
<1>6. sale \in SaleAnswers(Shown) /\ (sale.phase \in Phases \ {"active"} => Over)
    <2>1. LookupState(lookup[l]) /\ lookup[l].id = Shown
        BY <1>1 DEF CatalogInv, RowsInv
    <2> QED
        BY <1>1, <2>1, LookupCarries DEF RowsInv
<1> HIDE DEF sale
<1>7. \/ card' = card
      \/ /\ card' \in [phase : Phases, stock : 0..TotalStock[Shown]]
         /\ card'.phase \in Phases \ {"active"} => Over
    BY <1>1, <1>6 DEF SaleAnswers
<1>8. TabType'
    BY <1>1, <1>7 DEF TabType
<1>9. CardInv'
    BY <1>1, <1>5, <1>7 DEF CardInv
<1> QED
    BY <1>1, <1>3, <1>4, <1>8, <1>9 DEF FlightInv, OwnInv, OrdersInv

---------------------------------------------------------------------------
(* The invariant.                                                          *)

\* The tab is opened on the live page by nobody.
LEMMA StoreInitially == Init => StoreInv
<1> SUFFICES ASSUME Init PROVE StoreInv
    OBVIOUS
<1> USE DEF Init, CatalogInit
<1>1. CatalogInv
    <2>1. now \in 0..Horizon
        OBVIOUS
    <2>2. \A s \in Sales : row[s] \in Rows(s)
        BY DEF Rows
    <2>3. Shape
        BY DEF Shape
    <2> QED
        BY <2>1, <2>2, <2>3 DEF CatalogInv, LookupState
<1>2. RowsInv
    BY DEF RowsInv, NoRow, Idle
<1>3. TabType
    <2>1. NewPanel \in [inFlight : BOOLEAN, result : Outcomes \cup {"none", "error"},
                        by : Users \cup {NoUser}, isBusy : BOOLEAN, waits : 0..MaxClicks]
        BY DEF NewPanel
    <2>2. posts \in [Posts -> [at : {"none", "sent", "answered"}, by : Users \cup {NoUser},
                               outcome : Outcomes \cup {"none", "error"}]]
        BY DEF NoPost
    <2> QED
        BY <2>1, <2>2 DEF TabType, Pages
<1>4. CardInv /\ FlightInv
    BY DEF CardInv, FlightInv, NoCard, NoPost, NewPanel, Phases
<1>5. OwnInv /\ OrdersInv
    BY DEF OwnInv, OrdersInv
<1> QED
    BY <1>1, <1>2, <1>3, <1>4, <1>5 DEF StoreInv

\* Nothing happens.
LEMMA StoreStutters == StoreInv /\ UNCHANGED storeVars => StoreInv'
<1> SUFFICES ASSUME StoreInv, UNCHANGED storeVars PROVE StoreInv'
    OBVIOUS
<1>1. CatalogInv' /\ RowsInv' /\ Begun' = Begun /\ Over' = Over
    BY CatalogSame DEF storeVars, StoreInv
<1> QED
    BY <1>1 DEF storeVars, tabVars, StoreInv, TabType, CardInv, FlightInv, OwnInv, OrdersInv

\* No step breaks the invariant.
LEMMA StoreStep == StoreInv /\ [Next]_storeVars => StoreInv'
<1> SUFFICES ASSUME StoreInv, [Next]_storeVars PROVE StoreInv'
    OBVIOUS
<1>1. CASE User
    BY <1>1, UserKeeps, BuyKeeps DEF User
<1>2. CASE Browser
    BY <1>2, LoadKeeps, RenderKeeps, SettleKeeps, WaitKeeps, RefreshKeeps DEF Browser
<1>3. CASE \E p \in Posts : PurchaseAnswered(p)
    BY <1>3, AnswerKeeps
<1>4. CASE CatalogStep /\ UNCHANGED tabVars
    BY <1>4, CatalogKeeps
<1>5. CASE UNCHANGED storeVars
    BY <1>5, StoreStutters
<1> QED
    BY <1>1, <1>2, <1>3, <1>4, <1>5 DEF Next

---------------------------------------------------------------------------
(* The theorems.                                                           *)

\* The inductive invariant of Storefront.
THEOREM StoreInvariant == Spec => []StoreInv
<1>1. Init => StoreInv
    BY StoreInitially
<1>2. StoreInv /\ [Next]_storeVars => StoreInv'
    BY StoreStep
<1> QED
    BY <1>1, <1>2, PTL DEF Spec

\* Every variable keeps its type: no row or answer has a negative stock, and a
\* panel has no more waits than clicks.
THEOREM StoreTypeCorrect == Spec => []TypeOK
<1>1. StoreInv => TypeOK
    BY CatalogParts DEF StoreInv, TabType, TypeOK
<1> QED
    BY <1>1, StoreInvariant, PTL

\* findAll's SQL conditions (sales.service.ts) and derivePhase agree on every
\* row at every instant.
THEOREM ListingsArePartition == Spec => []ListingsPartition
<1>1. StoreInv => ListingsPartition
    BY CatalogParts, ListingsAgree DEF StoreInv
<1> QED
    BY <1>1, StoreInvariant, PTL

\* A panel has one POST under way at most, for any number of clicks and
\* however long the enabled button stays on the screen (usePurchase).
THEOREM SubmitsOnce == Spec => []OneSubmission
<1>1. StoreInv => OneSubmission
    <2> SUFFICES ASSUME StoreInv
                 PROVE  Cardinality({p \in Posts : posts[p].at # "none"}) <= 1
        BY DEF OneSubmission
    <2> DEFINE pending == {p \in Posts : posts[p].at # "none"}
    <2>1. \A p, q \in pending : p = q
        BY DEF StoreInv, FlightInv
    <2> HIDE DEF pending
    <2>2. pending = {} \/ \E p : pending = {p}
        BY <2>1
    <2>3. Cardinality(pending) \in {0, 1}
        BY <2>2, FS_EmptySet, FS_Singleton
    <2>4. Cardinality(pending) <= 1
        BY <2>3
    <2> QED
        BY <2>4 DEF pending
<1> QED
    BY <1>1, StoreInvariant, PTL

\* A card that takes the button away is right to: its sale has nothing to sell
\* or is over, whatever caches, races and late answers it was made from.
THEOREM LockedOutOnlyWhenOver == Spec => []NeverLockedOut
<1>1. StoreInv => NeverLockedOut
    <2> SUFFICES ASSUME StoreInv, card.phase \in Phases \ {"active"}
                 PROVE  \/ row[Shown].stock = 0
                        \/ ~isSaleOpen(Shown, row[Shown].cancelled, now)
        BY DEF NeverLockedOut
    <2>1. now \in Nat /\ EndsAt[Shown] \in Nat
        BY DEF StoreInv, CatalogInv
    <2>2. Over
        BY DEF StoreInv, CardInv
    <2> QED
        BY <2>1, <2>2 DEF Over, isSaleOpen
<1> QED
    BY <1>1, StoreInvariant, PTL

\* The outcome in the panel is never another user's.
THEOREM OutcomeStaysOwn == Spec => []ShownOutcomeIsOwn
<1>1. StoreInv => ShownOutcomeIsOwn
    BY DEF StoreInv, OwnInv, ShownOutcomeIsOwn
<1> QED
    BY <1>1, StoreInvariant, PTL

\* The orders on the screen are never another user's, also after signing out
\* and in again on a shared tab (RequireAuth, LoginPage).
THEOREM OrdersStayOwn == Spec => []OrdersShownAreOwn
<1>1. StoreInv => OrdersShownAreOwn
    BY DEF StoreInv, OrdersInv, OrdersShownAreOwn
<1> QED
    BY <1>1, StoreInvariant, PTL

=============================================================================
