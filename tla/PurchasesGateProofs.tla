------------------------ MODULE PurchasesGateProofs ------------------------
(***************************************************************************)
(* What holds of the purchase path while the gate is healthy, for any      *)
(* requests, workers, sales, addresses and stock: Redis and Postgres agree *)
(* about every unit, so whatever Redis has reserved can be recorded.       *)
(***************************************************************************)
EXTENDS PurchasesProofs

\* The requests that hold a reservation no message carries yet.
Reserved == {r \in Requests : pc[r] \in {"publish", "write"}}

SameBuyer(q, r) ==
    /\ req[q].saleId = req[r].saleId
    /\ normalizeEmail[req[q].email] = normalizeEmail[req[r].email]

\* Every unit of a sale is in stock or belongs to a buyer, and every recorded
\* buyer is one Redis knows.
KeysInv ==
    \A s \in Sales :
        /\ meta[s] = "0"
        /\ stock[s] \in Nat
        /\ IsFiniteSet(buyers[s])
        /\ RecordedBuyers(s) \subseteq buyers[s]
        /\ stock[s] + Cardinality(buyers[s]) = TotalOf(s)

\* No warm script runs, and no request leaves the gated path.
QuietInv ==
    /\ warmTodo = {} /\ warmAt = {}
    /\ \A r \in Requests : pc[r] \notin {"resend", "lookup", "not_found"}

\* A message is only written by a request that had its reservation.
PipeInv == \A r \in Pipe : pc[r] \notin {"idle", "reserve", "publish", "write"}

\* Who holds a reservation is a buyer Redis knows, and came inside the window.
HoldersInv ==
    \A r \in Reserved \cup Pipe :
        /\ normalizeEmail[req[r].email] \in buyers[req[r].saleId]
        /\ ~outsideScriptWindow(req[r].saleId, req[r].now)

\* Until a reservation is published or written its buyer has no row, and no
\* other request holds one for the same buyer.
SoleInv ==
    \A r \in Reserved :
        /\ ~HasPurchased(req[r].saleId, req[r].email)
        /\ \A q \in Reserved \cup Pipe : SameBuyer(q, r) => q = r

GateInv == KeysInv /\ QuietInv /\ PipeInv /\ HoldersInv /\ SoleInv

HealthyInv == SafetyInv /\ GateInv

---------------------------------------------------------------------------
\* Every step but a new reservation.  Messages are only passed on or written
\* by their own requests, and a new row belongs to a message or to a request
\* that gives up its reservation.
LEMMA HealthyFrame ==
    ASSUME HealthyInv,
           UNCHANGED gateVars, UNCHANGED <<warmTodo, warmAt>>,
           \A r \in Requests : pc'[r] \notin {"resend", "lookup", "not_found"},
           Reserved' \subseteq Reserved,
           Pipe' \subseteq Pipe \cup (Reserved \ Reserved'),
           \A r \in Pipe' : pc'[r] \notin {"idle", "reserve", "publish", "write"},
           \A r \in Reserved \cup Pipe : req'[r] = req[r],
           \A p \in purchases' \ purchases :
               \E q \in Pipe \cup (Reserved \ Reserved') :
                   p.saleId = req[q].saleId /\ p.email = req[q].email
    PROVE  GateInv'
<1> USE DEF HealthyInv
<1>1. KeysInv'
    <2> SUFFICES ASSUME NEW s \in Sales
                 PROVE  /\ meta'[s] = "0"
                        /\ stock'[s] \in Nat
                        /\ IsFiniteSet(buyers'[s])
                        /\ RecordedBuyers(s)' \subseteq buyers'[s]
                        /\ stock'[s] + Cardinality(buyers'[s]) = TotalOf(s)
        BY DEF KeysInv, TotalOf, RowsOf
    <2>1. /\ meta'[s] = "0"
          /\ stock'[s] \in Nat
          /\ IsFiniteSet(buyers'[s])
          /\ stock'[s] + Cardinality(buyers'[s]) = TotalOf(s)
        BY DEF GateInv, KeysInv, gateVars
    <2>2. ASSUME NEW p \in purchases', p.saleId = s
          PROVE  normalizeEmail[p.email] \in buyers[s]
        <3>1. CASE p \in purchases
            BY <2>2, <3>1 DEF GateInv, KeysInv, RecordedBuyers, RowsOf
        <3>2. CASE p \notin purchases
            BY <2>2, <3>2 DEF GateInv, HoldersInv
        <3> QED
            BY <3>1, <3>2
    <2>3. RecordedBuyers(s)' \subseteq buyers[s]
        BY <2>2 DEF RecordedBuyers, RowsOf
    <2> QED
        BY <2>1, <2>3 DEF gateVars
<1>2. QuietInv'
    BY DEF GateInv, QuietInv
<1>3. PipeInv'
    BY DEF PipeInv
<1>4. HoldersInv'
    <2> SUFFICES ASSUME NEW r \in (Reserved \cup Pipe)'
                 PROVE  /\ normalizeEmail[req'[r].email] \in buyers'[req'[r].saleId]
                        /\ ~outsideScriptWindow(req'[r].saleId, req'[r].now)
        BY DEF HoldersInv, outsideScriptWindow
    <2>1. r \in Reserved \cup Pipe /\ req'[r] = req[r]
        OBVIOUS
    <2> QED
        BY <2>1 DEF GateInv, HoldersInv, gateVars
<1>5. SoleInv'
    <2> SUFFICES ASSUME NEW r \in Reserved'
                 PROVE  /\ ~HasPurchased(req[r].saleId, req[r].email)'
                        /\ \A q \in (Reserved \cup Pipe)' : SameBuyer(q, r)' => q = r
        BY DEF SoleInv
    <2>1. r \in Reserved /\ req'[r] = req[r] /\ r \notin Pipe
        BY DEF GateInv, PipeInv, Reserved
    <2>2. /\ ~HasPurchased(req[r].saleId, req[r].email)
          /\ \A q \in Reserved \cup Pipe : SameBuyer(q, r) => q = r
        BY <2>1 DEF GateInv, SoleInv
    <2>3. ~HasPurchased(req[r].saleId, req[r].email)'
        <3> SUFFICES ASSUME NEW p \in purchases', p.saleId = req'[r].saleId,
                            normalizeEmail[p.email] = normalizeEmail[req'[r].email]
                     PROVE  FALSE
            BY DEF HasPurchased
        <3>1. p \notin purchases
            BY <2>1, <2>2 DEF HasPurchased
        <3>2. PICK q \in Pipe \cup (Reserved \ Reserved') :
                p.saleId = req[q].saleId /\ p.email = req[q].email
            BY <3>1
        <3>3. q = r
            BY <2>1, <2>2, <3>2 DEF SameBuyer
        <3> QED
            BY <2>1, <3>2, <3>3
    <2>4. \A q \in (Reserved \cup Pipe)' : SameBuyer(q, r)' => q = r
        BY <2>1, <2>2 DEF SameBuyer
    <2> QED
        BY <2>3, <2>4
<1> QED
    BY <1>1, <1>2, <1>3, <1>4, <1>5 DEF GateInv

---------------------------------------------------------------------------
\* Conflict-free rows of one sale are as many as their buyers.
LEMMA BuyersCount ==
    ASSUME NEW rows, IsFiniteSet(rows), ConflictFree(rows), NEW s
    PROVE  /\ IsFiniteSet({normalizeEmail[p.email] : p \in RowsOf(rows, s)})
           /\ Cardinality({normalizeEmail[p.email] : p \in RowsOf(rows, s)}) =
                  Cardinality(RowsOf(rows, s))
<1> DEFINE R == RowsOf(rows, s)
           N == {normalizeEmail[p.email] : p \in R}
           f == [p \in R |-> normalizeEmail[p.email]]
<1>1. IsFiniteSet(R)
    BY RowsFinite
<1>2. f \in Surjection(R, N)
    BY DEF Surjection
<1>3. \A p, q \in R : f[p] = f[q] => p = q
    BY DEF RowsOf, ConflictFree, Conflict
<1>4. f \in Injection(R, N)
    BY <1>3 DEF Injection, IsInjective
<1> HIDE DEF R, N, f
<1>5. IsFiniteSet(N) /\ Cardinality(N) = Cardinality(R)
    BY <1>1, <1>2, <1>4, FS_Surjection
<1> QED
    BY <1>5 DEF R, N

\* Redis and Postgres agree on what is left.
LEMMA Agreement ==
    ASSUME HealthyInv, NEW s \in Sales
    PROVE  /\ IsFiniteSet(buyers[s] \ RecordedBuyers(s))
           /\ stock[s] \in Nat
           /\ Cardinality(buyers[s] \ RecordedBuyers(s)) \in Nat
           /\ stock[s] + Cardinality(buyers[s] \ RecordedBuyers(s)) = remaining[s]
<1> DEFINE B == buyers[s]
           N == RecordedBuyers(s)
<1>1. /\ IsFiniteSet(N)
      /\ Cardinality(N) = Cardinality(RowsOf(purchases, s))
    BY BuyersCount DEF HealthyInv, SafetyInv, LedgerInv, OnePurchasePerBuyer, RecordedBuyers
<1>2. /\ IsFiniteSet(B)
      /\ N \subseteq B
      /\ stock[s] \in Nat
      /\ stock[s] + Cardinality(B) = TotalOf(s)
    BY DEF HealthyInv, GateInv, KeysInv
<1>3. remaining[s] + Cardinality(RowsOf(purchases, s)) = TotalOf(s)
    BY DEF HealthyInv, SafetyInv, LedgerInv, StockConservation
<1>4. remaining[s] \in Int
    BY DEF HealthyInv, SafetyInv, LedgerInv, LedgerTypeOK
<1> HIDE DEF B, N
<1>5. B \cap N = N
    BY <1>2
<1>6. IsFiniteSet(B \ N) /\ Cardinality(B \ N) = Cardinality(B) - Cardinality(B \cap N)
    BY <1>2, FS_Difference
<1>7. Cardinality(B \ N) = Cardinality(B) - Cardinality(N)
    BY <1>5, <1>6
<1>8. Cardinality(B) \in Nat /\ Cardinality(N) \in Nat /\ Cardinality(B \ N) \in Nat
    BY <1>1, <1>2, <1>6, FS_CardinalityType
<1>9. stock[s] + Cardinality(B \ N) = remaining[s]
    BY <1>1, <1>2, <1>3, <1>4, <1>7, <1>8
<1> QED
    BY <1>2, <1>6, <1>8, <1>9 DEF B, N

---------------------------------------------------------------------------
\* Nothing is on its way yet, and Redis holds exactly the recorded buyers.
LEMMA GateInitially ==
    ASSUME GateHealthy, Init
    PROVE  HealthyInv
<1>1. SafetyInv
    BY SafetyInitially
<1>2. \A s \in Sales :
        /\ stock[s] = InitialRemaining[s]
        /\ meta[s] = "0"
        /\ buyers[s] = RecordedBuyers(s)
    BY DEF Init, LedgerInit, GateHealthy, RecordedBuyers
<1>3. KeysInv
    <2> SUFFICES ASSUME NEW s \in Sales
                 PROVE  /\ meta[s] = "0"
                        /\ stock[s] \in Nat
                        /\ IsFiniteSet(buyers[s])
                        /\ RecordedBuyers(s) \subseteq buyers[s]
                        /\ stock[s] + Cardinality(buyers[s]) = TotalOf(s)
        BY DEF KeysInv
    <2>1. stock[s] \in Nat
        BY <1>2, LedgerConstants
    <2>2. /\ IsFiniteSet(RecordedBuyers(s))
          /\ Cardinality(RecordedBuyers(s)) = Cardinality(RowsOf(purchases, s))
        BY <1>1, BuyersCount DEF SafetyInv, LedgerInv, OnePurchasePerBuyer, RecordedBuyers
    <2>3. Cardinality(buyers[s]) = Cardinality(RowsOf(InitialRows, s))
        BY <1>2, <2>2 DEF Init, LedgerInit
    <2>4. stock[s] + Cardinality(buyers[s]) = TotalOf(s)
        BY <1>2, <2>3 DEF TotalOf
    <2> QED
        BY <1>2, <2>1, <2>2, <2>4
<1>4. Reserved = {} /\ Pipe = {}
    BY DEF Init, Reserved, Pipe
<1>5. QuietInv
    BY DEF Init, QuietInv
<1>6. PipeInv /\ HoldersInv /\ SoleInv
    BY <1>4 DEF PipeInv, HoldersInv, SoleInv
<1> QED
    BY <1>1, <1>3, <1>5, <1>6 DEF HealthyInv, GateInv

\* The reservation script: it takes one unit for one buyer who had none, or
\* changes nothing and answers with a rejection.
LEMMA ReserveKeepsGate ==
    ASSUME HealthyInv, NEW r \in Requests, Reserve(r)
    PROVE  GateInv'
<1> DEFINE s == req[r].saleId
           e == req[r].email
           n == normalizeEmail[e]
           code == reservationCode(s, e, req[r].now)
<1> USE DEF HealthyInv
<1>1. TypeOK
    BY DEF SafetyInv
<1>2. s \in Sales /\ e \in Emails /\ n \in Emails
    BY <1>1, RequestType
<1>3. pc[r] = "reserve" /\ r \notin Pipe /\ r \notin Reserved
    BY DEF Reserve, GateInv, QuietInv, PipeInv, Reserved
<1>4. /\ meta[s] = "0"
      /\ stock[s] \in Nat
      /\ RecordedBuyers(s) \subseteq buyers[s]
    BY <1>2 DEF GateInv, KeysInv
<1>5. code # "not_warmed"
    BY <1>4 DEF reservationCode, Warmed, NoKey
<1>6. /\ pc'[r] = afterReservation(code)
      /\ \A q \in Requests : q # r => pc'[q] = pc[q]
    BY <1>1, GotoEffect DEF Reserve
<1>7. /\ UNCHANGED <<req, purchases, warmTodo, warmAt>>
      /\ Pipe' = Pipe
    BY DEF Reserve, ledgerVars, brokerVars, workerVars, warmVars, Pipe
<1>8. CASE code # "reserved"
    <2>1. afterReservation(code) \in {"sale_not_active", "already_purchased", "sold_out"}
        BY <1>5, <1>8 DEF afterReservation, reservationCode
    <2>2. UNCHANGED gateVars
        BY <1>8 DEF Reserve, runScript, reservePurchase
    <2>3. Reserved' = Reserved
        BY <1>3, <1>6, <2>1 DEF Reserved
    <2>4. \A q \in Requests : pc'[q] \notin {"resend", "lookup", "not_found"}
        BY <1>6, <2>1 DEF GateInv, QuietInv
    <2>5. \A q \in Pipe' : pc'[q] \notin {"idle", "reserve", "publish", "write"}
        BY <1>1, <1>3, <1>6, <1>7, PipeType DEF GateInv, PipeInv
    <2> QED
        BY <1>7, <2>2, <2>3, <2>4, <2>5, HealthyFrame
<1>9. CASE code = "reserved"
    <2>1. /\ stock' = [stock EXCEPT ![s] = @ - 1]
          /\ buyers' = [buyers EXCEPT ![s] = @ \cup {n}]
          /\ UNCHANGED meta
        BY <1>9 DEF Reserve, runScript, reservePurchase
    <2>2. /\ n \notin buyers[s]
          /\ stock[s] - 1 \in Nat
          /\ ~outsideScriptWindow(s, req[r].now)
        BY <1>4, <1>9 DEF reservationCode
    <2>3. pc'[r] = "publish" /\ Reserved' = Reserved \cup {r}
        BY <1>6, <1>9 DEF afterReservation, Reserved
    <2>4. /\ stock \in [Sales -> Nat \cup {NoKey}]
          /\ buyers \in [Sales -> SUBSET Emails]
        BY <1>1 DEF TypeOK, GateTypeOK
    <2>5. \A t \in Sales : buyers[t] \subseteq buyers'[t]
        BY <2>1, <2>4
    <2>6. KeysInv'
        <3> SUFFICES ASSUME NEW t \in Sales
                     PROVE  /\ meta'[t] = "0"
                            /\ stock'[t] \in Nat
                            /\ IsFiniteSet(buyers'[t])
                            /\ RecordedBuyers(t)' \subseteq buyers'[t]
                            /\ stock'[t] + Cardinality(buyers'[t]) = TotalOf(t)
            BY DEF KeysInv, TotalOf, RowsOf
        <3>1. /\ meta[t] = "0"
              /\ stock[t] \in Nat
              /\ IsFiniteSet(buyers[t])
              /\ RecordedBuyers(t) \subseteq buyers[t]
              /\ stock[t] + Cardinality(buyers[t]) = TotalOf(t)
            BY DEF GateInv, KeysInv
        <3>2. RecordedBuyers(t)' = RecordedBuyers(t)
            BY <1>7 DEF RecordedBuyers, RowsOf
        <3>3. CASE t # s
            BY <2>1, <2>4, <3>1, <3>2, <3>3
        <3>4. CASE t = s
            <4>1. stock'[t] = stock[t] - 1 /\ buyers'[t] = buyers[t] \cup {n}
                BY <1>2, <2>1, <2>4, <3>4
            <4>2. /\ IsFiniteSet(buyers'[t])
                  /\ Cardinality(buyers'[t]) = Cardinality(buyers[t]) + 1
                BY <2>2, <3>1, <3>4, <4>1, FS_AddElement
            <4>3. Cardinality(buyers[t]) \in Nat
                BY <3>1, FS_CardinalityType
            <4>4. stock'[t] + Cardinality(buyers'[t]) = TotalOf(t)
                BY <3>1, <4>1, <4>2, <4>3
            <4> QED
                BY <2>1, <2>2, <2>5, <3>1, <3>2, <3>4, <4>1, <4>2, <4>4
        <3> QED
            BY <3>3, <3>4
    <2>7. QuietInv'
        BY <1>6, <1>7, <2>3 DEF GateInv, QuietInv
    <2>8. PipeInv'
        BY <1>1, <1>3, <1>6, <1>7, PipeType DEF GateInv, PipeInv
    <2>9. \A q \in Reserved \cup Pipe :
            /\ req[q].saleId \in Sales
            /\ normalizeEmail[req[q].email] \in buyers[req[q].saleId]
            /\ ~outsideScriptWindow(req[q].saleId, req[q].now)
        BY <1>1, PipeType, RequestType DEF GateInv, HoldersInv, Reserved
    <2>10. HoldersInv'
        <3>1. n \in buyers'[s]
            BY <1>2, <2>1, <2>4
        <3>2. \A q \in Reserved \cup Pipe \cup {r} :
                /\ normalizeEmail[req[q].email] \in buyers'[req[q].saleId]
                /\ ~outsideScriptWindow(req[q].saleId, req[q].now)
            BY <2>2, <2>5, <2>9, <3>1
        <3> QED
            BY <1>7, <2>3, <3>2 DEF HoldersInv, outsideScriptWindow
    <2>11. \A q \in Reserved \cup Pipe : ~SameBuyer(q, r) /\ ~SameBuyer(r, q)
        BY <2>2, <2>9 DEF SameBuyer
    <2>12. ~HasPurchased(s, e)
        BY <1>4, <2>2 DEF HasPurchased, RecordedBuyers, RowsOf
    <2>13. SoleInv'
        <3>1. \A q \in Reserved \cup {r} :
                /\ ~HasPurchased(req[q].saleId, req[q].email)
                /\ \A m \in Reserved \cup Pipe \cup {r} : SameBuyer(m, q) => m = q
            BY <2>11, <2>12 DEF GateInv, SoleInv
        <3> QED
            BY <1>7, <2>3, <3>1 DEF SoleInv, HasPurchased, SameBuyer
    <2> QED
        BY <2>6, <2>7, <2>8, <2>10, <2>13 DEF GateInv
<1> QED
    BY <1>8, <1>9

\* The other steps of a request; those of an unhealthy gate cannot happen.
LEMMA RequestKeepsGate ==
    ASSUME GateHealthy, HealthyInv, NEW r \in Requests, RequestStep(r) \/ RequestFault(r)
    PROVE  GateInv'
<1> DEFINE row == [saleId |-> req[r].saleId, email |-> req[r].email, purchasedAt |-> clock]
<1> USE DEF HealthyInv
<1>1. TypeOK
    BY DEF SafetyInv
<1>2. /\ pc[r] \notin {"resend", "lookup", "not_found"}
      /\ r \in Pipe => pc[r] \notin {"idle", "reserve", "publish", "write"}
    BY DEF GateInv, QuietInv, PipeInv
<1>3. Pipe \subseteq Requests
    BY <1>1, PipeType
\* What is left to show of a step that moves only r and the ledger.
<1>4. ASSUME NEW label, Goto(r, label),
             label \notin {"resend", "lookup", "not_found"},
             label \in {"idle", "reserve", "publish", "write"} => r \notin Pipe',
             label \in {"publish", "write"} => r \in Reserved,
             UNCHANGED gateVars, UNCHANGED <<warmTodo, warmAt>>,
             Pipe' \subseteq Pipe \cup (Reserved \ Reserved'),
             \A q \in Reserved \cup Pipe : req'[q] = req[q],
             \A p \in purchases' \ purchases :
                r \in Reserved \ Reserved' /\ p.saleId = req[r].saleId /\ p.email = req[r].email
      PROVE  GateInv'
    <2>1. pc'[r] = label /\ \A q \in Requests : q # r => pc'[q] = pc[q]
        BY <1>1, <1>4, GotoEffect
    <2>2. \A q \in Requests : pc'[q] \notin {"resend", "lookup", "not_found"}
        BY <1>4, <2>1 DEF GateInv, QuietInv
    <2>3. Reserved' \subseteq Reserved
        BY <1>4, <2>1 DEF Reserved
    <2>4. Pipe' \subseteq Pipe \cup {r}
        BY <1>4, <2>1 DEF Reserved
    <2>5. \A q \in Pipe' : pc'[q] \notin {"idle", "reserve", "publish", "write"}
        BY <1>3, <1>4, <2>1, <2>4 DEF GateInv, PipeInv
    <2>6. \A p \in purchases' \ purchases :
            \E q \in Pipe \cup (Reserved \ Reserved') :
                p.saleId = req[q].saleId /\ p.email = req[q].email
        BY <1>4
    <2> QED
        BY <1>4, <2>2, <2>3, <2>5, <2>6, HealthyFrame
<1>5. ASSUME UNCHANGED <<sent, queue, dead, batch>>
      PROVE  Pipe' = Pipe
    BY <1>5 DEF Pipe
<1>6. CASE Purchase(r)
    <2>1. Goto(r, "reserve") /\ UNCHANGED gateVars
        BY <1>6 DEF Purchase
    <2>2. pc[r] = "idle" /\ r \notin Pipe /\ r \notin Reserved
        BY <1>2, <1>6 DEF Purchase, Reserved
    <2>3. \A q \in Reserved \cup Pipe : req'[q] = req[q]
        BY <1>1, <1>3, <1>6, <2>2 DEF Purchase, TypeOK, Reserved
    <2>4. UNCHANGED <<warmTodo, warmAt, purchases>> /\ Pipe' = Pipe
        BY <1>5, <1>6 DEF Purchase, warmVars, ledgerVars, brokerVars, workerVars
    <2> QED
        BY <1>4, <2>1, <2>2, <2>3, <2>4
<1>7. CASE Reserve(r)
    BY <1>7, ReserveKeepsGate
<1>8. CASE ReplyLost(r) \/ GateUnavailable(r) \/ recordPurchase(r)
    BY <1>2, <1>8 DEF GateHealthy, ReplyLost, GateUnavailable, recordPurchase, Fault
<1>9. CASE Publish(r)
    <2>1. PICK label \in {"success", "drain"} : Goto(r, label)
        BY <1>9 DEF Publish
    <2>2. pc'[r] = label /\ r \in Reserved \ Reserved'
        BY <1>1, <1>9, <2>1, GotoEffect DEF Publish, Reserved
    <2>3. Pipe' \subseteq Pipe \cup {r}
        BY <1>9 DEF Publish, Pipe, workerVars
    <2>4. UNCHANGED gateVars /\ UNCHANGED <<req, purchases, warmTodo, warmAt>>
        BY <1>9 DEF Publish, ledgerVars, warmVars
    <2> QED
        BY <1>4, <2>1, <2>2, <2>3, <2>4
<1>10. CASE Drained(r) \/ RequestDies(r)
    <2>1. PICK label \in {"success", "error"} : Goto(r, label)
        BY <1>10 DEF Drained, RequestDies
    <2>2. UNCHANGED gateVars /\ UNCHANGED <<req, purchases, warmTodo, warmAt>>
        BY <1>10 DEF Drained, RequestDies, ledgerVars, warmVars
    <2>3. Pipe' = Pipe
        BY <1>5, <1>10 DEF Drained, RequestDies, brokerVars, workerVars
    <2> QED
        BY <1>4, <2>1, <2>2, <2>3
<1>11. CASE PublishRefused(r)
    <2>1. Goto(r, "write") /\ r \in Reserved /\ r \notin Pipe
        BY <1>2, <1>11 DEF PublishRefused, Reserved
    <2>2. UNCHANGED gateVars /\ UNCHANGED <<req, purchases, warmTodo, warmAt>>
        BY <1>11 DEF PublishRefused, ledgerVars, warmVars
    <2>3. Pipe' = Pipe
        BY <1>5, <1>11 DEF PublishRefused, brokerVars, workerVars
    <2> QED
        BY <1>4, <2>1, <2>2, <2>3
<1>12. CASE Write(r) \/ WriteThrows(r)
    <2>1. PICK label \in {"error", "sale_not_active", "already_purchased", "sold_out",
                          "success"} : Goto(r, label)
        BY <1>12 DEF Write, WriteThrows, writePurchaseResult
    <2>2. pc'[r] = label /\ r \in Reserved \ Reserved'
        BY <1>1, <1>12, <2>1, GotoEffect DEF Write, WriteThrows, Reserved
    <2>3. purchases' \ purchases \subseteq {row}
        BY <1>12 DEF Write, WriteThrows, writePurchase, ledgerVars
    <2>4. UNCHANGED gateVars /\ UNCHANGED <<req, warmTodo, warmAt>>
        BY <1>12 DEF Write, WriteThrows, warmVars
    <2>5. Pipe' = Pipe
        BY <1>5, <1>12 DEF Write, WriteThrows, brokerVars, workerVars
    <2> QED
        BY <1>4, <2>1, <2>2, <2>3, <2>4, <2>5
<1> QED
    BY <1>6, <1>7, <1>8, <1>9, <1>10, <1>11, <1>12 DEF RequestStep, RequestFault

\* A worker only moves messages and writes the ones it holds.
LEMMA WorkerKeepsGate ==
    ASSUME HealthyInv, NEW w \in Workers, WorkerStep(w) \/ WorkerFault(w)
    PROVE  GateInv'
<1> USE DEF HealthyInv, WorkerStep, WorkerFault
<1>1. batch \in [Workers -> SUBSET Requests]
    BY DEF SafetyInv, TypeOK
<1>2. /\ UNCHANGED <<pc, req, warmTodo, warmAt>>
      /\ UNCHANGED gateVars
    BY DEF WorkerStart, TakeBatch, WriteBatch, Ack, BatchAborts, OrphanEnds, BatchThrows,
           LoseSession, apiVars, warmVars
<1>3. \A v \in Workers \ {w} : batch'[v] = batch[v]
    BY <1>1 DEF WorkerStart, TakeBatch, WriteBatch, Ack, BatchAborts, OrphanEnds, BatchThrows,
           LoseSession, attemptFailed
<1>4. /\ sent' = sent
      /\ queue' \subseteq queue \cup batch[w]
      /\ dead' \subseteq dead \cup batch[w]
      /\ batch'[w] \subseteq batch[w] \cup queue
    <2>1. CASE WorkerStart(w) \/ WriteBatch(w) \/ Ack(w) \/ OrphanEnds(w)
        BY <1>1, <2>1 DEF WorkerStart, WriteBatch, Ack, OrphanEnds, brokerVars
    <2>2. CASE TakeBatch(w)
        BY <1>1, <2>2 DEF TakeBatch
    <2>3. CASE BatchAborts(w) \/ BatchThrows(w)
        BY <1>1, <2>3 DEF BatchAborts, BatchThrows, attemptFailed
    <2>4. CASE LoseSession(w)
        BY <1>1, <2>4 DEF LoseSession
    <2> QED
        BY <2>1, <2>2, <2>3, <2>4
<1>5. Pipe' \subseteq Pipe
    BY <1>3, <1>4 DEF Pipe
<1>6. \A p \in purchases' \ purchases :
        \E q \in Pipe : p.saleId = req[q].saleId /\ p.email = req[q].email
    <2>1. purchases' \ purchases \subseteq entriesOf(batch[w])
        BY DEF WorkerStart, TakeBatch, WriteBatch, Ack, BatchAborts, OrphanEnds, BatchThrows,
               LoseSession, ledgerVars, writePurchaseBatch
    <2>2. batch[w] \subseteq Pipe
        BY DEF Pipe
    <2> QED
        BY <2>1, <2>2 DEF entriesOf
<1>7. Reserved' = Reserved
    BY <1>2 DEF Reserved
<1>8. /\ \A r \in Requests : pc'[r] \notin {"resend", "lookup", "not_found"}
      /\ \A r \in Pipe' : pc'[r] \notin {"idle", "reserve", "publish", "write"}
    BY <1>2, <1>5 DEF GateInv, QuietInv, PipeInv
<1> QED
    BY <1>2, <1>5, <1>6, <1>7, <1>8, HealthyFrame

\* Neither do the broker, a cancellation and time touch the gate.
LEMMA OthersKeepGate ==
    ASSUME GateHealthy, HealthyInv,
           \/ \E r \in Requests : BrokerReceive(r)
           \/ ChannelDown \/ ChannelUp \/ OperatorStep \/ Tick
    PROVE  GateInv'
<1> USE DEF HealthyInv
<1>1. TypeOK
    BY DEF SafetyInv
<1>2. \/ \E r \in Requests : BrokerReceive(r)
      \/ ChannelDown \/ ChannelUp \/ Tick
      \/ \E s \in Sales : Cancel(s)
    BY DEF OperatorStep, WarmSelect, WarmBuyers, WarmSync, FlushPage, Fault, GateHealthy,
           GateInv, QuietInv
<1>3. /\ UNCHANGED gateVars
      /\ UNCHANGED <<req, purchases, warmTodo, warmAt>>
    BY <1>2 DEF BrokerReceive, ChannelDown, ChannelUp, Tick, Cancel, ledgerVars, apiVars,
                warmVars
<1>4. \A r \in Requests : pc'[r] = pc[r] \/ (pc[r] = "drain" /\ pc'[r] = "hung")
    BY <1>2 DEF BrokerReceive, ChannelDown, ChannelUp, Tick, Cancel, apiVars
<1>5. Pipe' \subseteq Pipe
    <2>1. UNCHANGED <<dead, batch>> /\ sent' \cup queue' \subseteq sent \cup queue
        BY <1>2 DEF BrokerReceive, ChannelDown, ChannelUp, Tick, Cancel, brokerVars, workerVars
    <2> QED
        BY <2>1 DEF Pipe
<1>6. Reserved' = Reserved
    BY <1>4 DEF Reserved
<1>7. \A r \in Requests : pc'[r] \notin {"resend", "lookup", "not_found"}
    BY <1>4 DEF GateInv, QuietInv
<1>8. \A r \in Pipe' : pc'[r] \notin {"idle", "reserve", "publish", "write"}
    BY <1>1, <1>4, <1>5, PipeType DEF GateInv, PipeInv
<1> QED
    BY <1>3, <1>5, <1>6, <1>7, <1>8, HealthyFrame

\* Every step keeps the invariant of the healthy gate.
LEMMA HealthyStep == GateHealthy /\ HealthyInv /\ [Next]_vars => HealthyInv'
<1> SUFFICES ASSUME GateHealthy, HealthyInv, [Next]_vars PROVE HealthyInv'
    OBVIOUS
<1>1. SafetyInv'
    BY SafetyStep DEF HealthyInv
<1>2. ASSUME UNCHANGED vars PROVE GateInv'
    <2>1. /\ UNCHANGED gateVars
          /\ UNCHANGED <<purchases, pc, req, sent, queue, dead, batch, warmTodo, warmAt>>
        BY <1>2 DEF vars, ledgerVars, apiVars, brokerVars, workerVars, warmVars
    <2>2. Reserved' = Reserved /\ Pipe' = Pipe
        BY <2>1 DEF Reserved, Pipe
    <2>3. /\ \A r \in Requests : pc'[r] \notin {"resend", "lookup", "not_found"}
          /\ \A r \in Pipe' : pc'[r] \notin {"idle", "reserve", "publish", "write"}
        BY <2>1, <2>2 DEF HealthyInv, GateInv, QuietInv, PipeInv
    <2> QED
        BY <2>1, <2>2, <2>3, HealthyFrame
<1>3. ASSUME NEW r \in Requests, RequestStep(r) \/ RequestFault(r)
      PROVE  GateInv'
    BY <1>3, RequestKeepsGate
<1>4. ASSUME NEW w \in Workers, WorkerStep(w) \/ WorkerFault(w)
      PROVE  GateInv'
    BY <1>4, WorkerKeepsGate
<1>5. ASSUME \/ \E r \in Requests : BrokerReceive(r)
             \/ ChannelDown \/ ChannelUp \/ OperatorStep \/ Tick
      PROVE  GateInv'
    BY <1>5, OthersKeepGate
<1>6. GateInv'
    BY <1>2, <1>3, <1>4, <1>5 DEF Next
<1> QED
    BY <1>1, <1>6 DEF HealthyInv

---------------------------------------------------------------------------
\* The invariant of the purchase path while the gate is healthy.
THEOREM HealthyInvariant == GateHealthy => (Spec => []HealthyInv)
<1> SUFFICES ASSUME GateHealthy PROVE Spec => []HealthyInv
    OBVIOUS
<1>1. Init => HealthyInv
    BY GateInitially
<1>2. HealthyInv /\ [Next]_vars => HealthyInv'
    BY HealthyStep
<1> QED
    BY <1>1, <1>2, PTL DEF Spec

\* A batch of messages whose buyers hold reservations finds them inside the
\* window and as many units left as it inserts rows.
LEMMA HeldBatchCommits ==
    ASSUME HealthyInv, NEW w \in Workers
    PROVE  ~BatchMustAbort(entriesOf(batch[w]))
<1> DEFINE entries == entriesOf(batch[w])
<1> USE DEF HealthyInv
<1>1. /\ entries \in SUBSET PurchaseRow
      /\ IsFiniteSet(entries)
    BY EntriesAreRows DEF SafetyInv
<1>2. \A p \in entries :
        /\ normalizeEmail[p.email] \in buyers[p.saleId]
        /\ ~outsideScriptWindow(p.saleId, p.purchasedAt)
    <2>1. batch[w] \subseteq Pipe
        BY DEF Pipe
    <2> QED
        BY <2>1 DEF entriesOf, GateInv, HoldersInv
<1>3. TriggerAccepts(entries)
    <2> SUFFICES ASSUME NEW p \in entries
                 PROVE  WithinSalePeriod(p.saleId, p.purchasedAt)
        BY DEF TriggerAccepts
    <2>1. p.saleId \in Sales /\ p.purchasedAt \in Nat
        BY <1>1 DEF PurchaseRow
    <2>2. StartsAt[p.saleId] \in Nat /\ EndsAt[p.saleId] \in Nat
        BY <2>1, WindowConstants
    <2> HIDE DEF entries
    <2> QED
        BY <1>2, <2>1, <2>2 DEF WithinSalePeriod, outsideScriptWindow
<1>4. ASSUME NEW inserted \in SUBSET entries, IsInsertion(inserted, entries), NEW s \in Sales
      PROVE  Cardinality(RowsOf(inserted, s)) <= remaining[s]
    <2> DEFINE N == {normalizeEmail[p.email] : p \in RowsOf(inserted, s)}
               B == buyers[s] \ RecordedBuyers(s)
    <2>1. IsFiniteSet(inserted)
        BY <1>1, FS_Subset
    <2>2. ConflictFree(inserted)
        BY <1>4 DEF IsInsertion
    <2>3. Cardinality(N) = Cardinality(RowsOf(inserted, s))
        BY <2>1, <2>2, BuyersCount
    <2>4. N \subseteq B
        <3>1. \A p \in RowsOf(inserted, s) :
                normalizeEmail[p.email] \in buyers[s]
            BY <1>2 DEF RowsOf
        <3>2. \A p \in RowsOf(inserted, s), q \in RowsOf(purchases, s) :
                normalizeEmail[p.email] # normalizeEmail[q.email]
            BY <1>4 DEF RowsOf, IsInsertion, Insertable, Conflict
        <3> QED
            BY <3>1, <3>2 DEF RecordedBuyers
    <2>5. /\ IsFiniteSet(B)
          /\ stock[s] \in Nat
          /\ Cardinality(B) \in Nat
          /\ stock[s] + Cardinality(B) = remaining[s]
        BY Agreement
    <2> HIDE DEF N, B
    <2>6. IsFiniteSet(N) /\ Cardinality(N) <= Cardinality(B)
        BY <2>4, <2>5, FS_Subset
    <2>7. Cardinality(N) \in Nat
        BY <2>6, FS_CardinalityType
    <2> QED
        BY <2>3, <2>5, <2>6, <2>7
<1> QED
    BY <1>3, <1>4 DEF BatchMustAbort, StockAbsorbs

\* The direct write of a reservation finds a unit left and no row of its buyer.
LEMMA ReservedWriteSucceeds ==
    ASSUME HealthyInv, NEW r \in Requests, pc[r] = "write", [Next]_vars
    PROVE  pc'[r] \notin {"sold_out", "already_purchased"}
<1> DEFINE s == req[r].saleId
           e == req[r].email
           B == buyers[s] \ RecordedBuyers(s)
<1> USE DEF HealthyInv
<1>1. TypeOK
    BY DEF SafetyInv
<1>2. s \in Sales
    BY <1>1, RequestType
<1>3. ~HasPurchased(s, e) /\ normalizeEmail[e] \in buyers[s]
    BY DEF GateInv, SoleInv, HoldersInv, Reserved
<1>4. normalizeEmail[e] \in B
    BY <1>3 DEF HasPurchased, RecordedBuyers, RowsOf
<1>5. /\ IsFiniteSet(B)
      /\ stock[s] \in Nat
      /\ Cardinality(B) \in Nat
      /\ stock[s] + Cardinality(B) = remaining[s]
    BY <1>2, Agreement
<1> HIDE DEF B
<1>6. Cardinality(B) # 0
    BY <1>4, <1>5, FS_EmptySet
<1>7. remaining[s] > 0
    BY <1>5, <1>6
<1>8. writePurchaseResult(s, e, clock) \in {"success", "sale_not_active"}
    <2>1. ~(remaining[s] <= 0)
        BY <1>5, <1>7
    <2> QED
        BY <1>3, <2>1, Zenon DEF writePurchaseResult
<1>9. CASE Write(r)
    BY <1>1, <1>8, <1>9, GotoEffect DEF Write
<1>10. CASE WriteThrows(r) \/ RequestDies(r)
    BY <1>1, <1>10, GotoEffect DEF WriteThrows, RequestDies
<1>11. CASE pc'[r] = pc[r]
    BY <1>11
<1>12. ASSUME NEW q \in Requests, RequestStep(q) \/ RequestFault(q)
       PROVE  pc'[r] = pc[r] \/ (q = r /\ (Write(r) \/ WriteThrows(r) \/ RequestDies(r)))
    <2>1. \E label : Goto(q, label)
        BY <1>12 DEF RequestStep, RequestFault, Purchase, Reserve, Publish, Drained,
                     PublishRefused, recordPurchase, Write, ReplyLost, GateUnavailable,
                     WriteThrows, RequestDies
    <2>2. CASE q # r
        BY <1>1, <2>1, <2>2, GotoEffect
    <2>3. CASE q = r
        BY <1>12, <2>3 DEF RequestStep, RequestFault, Purchase, Reserve, Publish, Drained,
                           PublishRefused, recordPurchase, ReplyLost, GateUnavailable
    <2> QED
        BY <2>2, <2>3
<1>13. ASSUME NEW w \in Workers, WorkerStep(w) \/ WorkerFault(w)
       PROVE  pc'[r] = pc[r]
    BY <1>13 DEF WorkerStep, WorkerFault, WorkerStart, TakeBatch, WriteBatch, Ack, BatchAborts,
                 OrphanEnds, BatchThrows, LoseSession, apiVars
<1>14. CASE \/ \E q \in Requests : BrokerReceive(q)
            \/ ChannelDown \/ ChannelUp \/ OperatorStep \/ Tick \/ UNCHANGED vars
    BY <1>11, <1>14 DEF BrokerReceive, ChannelDown, ChannelUp, OperatorStep, WarmSelect,
            WarmBuyers, WarmSync, FlushPage, Cancel, Tick, vars, apiVars
<1> QED
    BY <1>9, <1>10, <1>11, <1>12, <1>13, <1>14 DEF Next

---------------------------------------------------------------------------
\* Redis's stock plus what it has reserved and Postgres has not recorded is
\* Postgres's remaining_stock, whatever the workers, the broker and the
\* direct writes are doing.
THEOREM GateIsExact == GateHealthy => (Spec => []GateAgreesWithLedger)
<1> SUFFICES ASSUME GateHealthy PROVE Spec => []GateAgreesWithLedger
    OBVIOUS
<1>1. HealthyInv => GateAgreesWithLedger
    BY Agreement DEF GateAgreesWithLedger, HealthyInv, GateInv, KeysInv
<1>2. Spec => []HealthyInv
    BY HealthyInvariant
<1> QED
    BY <1>1, <1>2, PTL

\* "Redis already guaranteed this stock was available before the message was
\* published": no batch has to abort, however it mixes new messages,
\* redeliveries and buyers another worker is recording.
THEOREM BatchesCommit == GateHealthy => (Spec => []BatchNeverAborts)
<1> SUFFICES ASSUME GateHealthy PROVE Spec => []BatchNeverAborts
    OBVIOUS
<1>1. HealthyInv => BatchNeverAborts
    BY HeldBatchCommits DEF BatchNeverAborts
<1>2. Spec => []HealthyInv
    BY HealthyInvariant
<1> QED
    BY <1>1, <1>2, PTL

\* A buyer whose reservation is written directly, because the broker is away,
\* is never told that the sale is sold out or that he has bought already.
THEOREM ReservationHonoured == GateHealthy => (Spec => ReservedIsNeverRefused)
<1> SUFFICES ASSUME GateHealthy PROVE Spec => ReservedIsNeverRefused
    OBVIOUS
<1> DEFINE A == \A r \in Requests :
                    pc[r] = "write" => pc'[r] \notin {"sold_out", "already_purchased"}
<1>1. HealthyInv /\ [Next]_vars => [A]_vars
    BY ReservedWriteSucceeds
<1>2. Spec => []HealthyInv
    BY HealthyInvariant
<1> QED
    BY <1>1, <1>2, PTL DEF Spec, ReservedIsNeverRefused

---------------------------------------------------------------------------
\* The purchase path implements the abstract sale: the warmed keys are the
\* promises already made, a reservation is one more, and rows are only
\* recorded for promises.
LEMMA PromiseInitially ==
    ASSUME GateHealthy, Init
    PROVE  Promised!PromiseInit
<1>1. \A s \in Sales : RecordedBuyers(s) = {normalizeEmail[p.email] : p \in RowsOf(InitialRows, s)}
    BY DEF Init, LedgerInit, RecordedBuyers
<1>2. buyers = [s \in Sales |-> {normalizeEmail[p.email] : p \in RowsOf(InitialRows, s)}]
    BY DEF Init, LedgerInit, GateHealthy
<1> QED
    BY <1>1, <1>2 DEF Promised!PromiseInit

\* The table of purchases only grows, and the gate moves only by the script.
LEMMA RowsStayAndGateWaits ==
    ASSUME GateHealthy, HealthyInv, [Next]_vars
    PROVE  /\ purchases \subseteq purchases'
           /\ UNCHANGED buyers \/ \E r \in Requests : Reserve(r)
<1> USE DEF HealthyInv
<1>1. ASSUME NEW r \in Requests, RequestStep(r) \/ RequestFault(r)
      PROVE  /\ purchases \subseteq purchases'
             /\ UNCHANGED buyers \/ Reserve(r)
    <2>1. "redis" \notin Faults
        BY DEF GateHealthy
    <2>2. purchases \subseteq purchases'
        BY <1>1 DEF RequestStep, RequestFault, Purchase, Reserve, Publish, Drained,
                    PublishRefused, recordPurchase, Write, ReplyLost, GateUnavailable,
                    WriteThrows, RequestDies, writePurchase, ledgerVars
    <2>3. UNCHANGED buyers \/ Reserve(r)
        BY <1>1, <2>1 DEF RequestStep, RequestFault, Purchase, Publish, Drained,
                    PublishRefused, recordPurchase, Write, ReplyLost, GateUnavailable,
                    WriteThrows, RequestDies, Fault, gateVars
    <2> QED
        BY <2>2, <2>3
<1>2. ASSUME NEW w \in Workers, WorkerStep(w) \/ WorkerFault(w)
      PROVE  purchases \subseteq purchases' /\ UNCHANGED buyers
    BY <1>2 DEF WorkerStep, WorkerFault, WorkerStart, TakeBatch, WriteBatch, Ack, BatchAborts,
                OrphanEnds, BatchThrows, LoseSession, writePurchaseBatch, ledgerVars, gateVars
<1>3. ASSUME \/ \E q \in Requests : BrokerReceive(q)
             \/ ChannelDown \/ ChannelUp \/ OperatorStep \/ Tick \/ UNCHANGED vars
      PROVE  purchases \subseteq purchases' /\ UNCHANGED buyers
    BY <1>3 DEF BrokerReceive, ChannelDown, ChannelUp, OperatorStep, WarmSelect, WarmBuyers,
                WarmSync, FlushPage, Cancel, Tick, Fault, GateHealthy, GateInv, QuietInv,
                vars, ledgerVars, gateVars
<1> QED
    BY <1>1, <1>2, <1>3 DEF Next

\* Every step is a step of the promise or none.
LEMMA PromiseStep ==
    ASSUME GateHealthy, HealthyInv, HealthyInv', [Next]_vars
    PROVE  [Promised!PromiseNext]_(Promised!promiseVars)
<1> DEFINE books == [s \in Sales |-> RecordedBuyers(s)]
<1>0. TypeOK /\ TypeOK'
    BY DEF HealthyInv, SafetyInv
<1>1. CASE UNCHANGED buyers
    <2>1. \A s \in Sales :
            /\ RecordedBuyers(s) \subseteq RecordedBuyers(s)'
            /\ RecordedBuyers(s)' \subseteq buyers[s]
            /\ RecordedBuyers(s)' \subseteq Emails
        <3> SUFFICES ASSUME NEW s \in Sales
                     PROVE  /\ RecordedBuyers(s) \subseteq RecordedBuyers(s)'
                            /\ RecordedBuyers(s)' \subseteq buyers[s]
                            /\ RecordedBuyers(s)' \subseteq Emails
            OBVIOUS
        <3>1. RecordedBuyers(s) \subseteq RecordedBuyers(s)'
            BY RowsStayAndGateWaits DEF RecordedBuyers, RowsOf
        <3>2. RecordedBuyers(s)' \subseteq buyers[s]
            BY <1>1 DEF HealthyInv, GateInv, KeysInv
        <3>3. buyers[s] \subseteq Emails
            BY <1>0 DEF TypeOK, GateTypeOK
        <3> QED
            BY <3>1, <3>2, <3>3
    <2>2. books' = [s \in Sales |-> RecordedBuyers(s)']
        OBVIOUS
    <2>3. books' \in [Sales -> SUBSET Emails]
        BY <2>1, <2>2
    <2>4. \A s \in Sales : books[s] \subseteq books'[s] /\ books'[s] \subseteq buyers[s]
        BY <2>1, <2>2
    <2>5. Promised!Record
        BY <1>1, <2>3, <2>4 DEF Promised!Record
    <2> QED
        BY <2>5 DEF Promised!PromiseNext
<1>2. ASSUME NEW r \in Requests, Reserve(r), ~ UNCHANGED buyers
      PROVE  Promised!PromiseNext
    <2> DEFINE s == req[r].saleId
               n == normalizeEmail[req[r].email]
               code == reservationCode(s, req[r].email, req[r].now)
    <2>1. s \in Sales /\ n \in Emails
        BY <1>0, RequestType
    <2>2. code = "reserved"
        BY <1>2 DEF Reserve, runScript, reservePurchase, gateVars
    <2>3. buyers' = [buyers EXCEPT ![s] = @ \cup {n}]
        BY <1>2, <2>2 DEF Reserve, runScript, reservePurchase
    <2>4. n \notin buyers[s] /\ ~(stock[s] <= 0)
        BY <2>2 DEF reservationCode
    <2>5. Cardinality(buyers[s]) < TotalOf(s)
        <3>1. /\ stock[s] \in Nat
              /\ IsFiniteSet(buyers[s])
              /\ stock[s] + Cardinality(buyers[s]) = TotalOf(s)
            BY <2>1 DEF HealthyInv, GateInv, KeysInv
        <3>2. Cardinality(buyers[s]) \in Nat
            BY <3>1, FS_CardinalityType
        <3> QED
            BY <2>4, <3>1, <3>2
    <2>6. UNCHANGED purchases
        BY <1>2 DEF Reserve, ledgerVars
    <2>7. books' = books
        BY <2>6 DEF RecordedBuyers, RowsOf
    <2>8. Promised!Promise(s, n)
        <3>1. Promised!Cardinality(buyers[s]) < [t \in Sales |-> TotalOf(t)][s]
            <4>1. Promised!Cardinality(buyers[s]) = Cardinality(buyers[s])
                BY Zenon DEF Promised!Cardinality, Cardinality
            <4> QED
                BY <2>1, <2>5, <4>1
        <3>2. UNCHANGED [t \in Sales |-> RecordedBuyers(t)]
            BY <2>7
        <3> HIDE DEF s, n, books
        <3> QED
            BY <2>3, <2>4, <3>1, <3>2 DEF Promised!Promise
    <2> QED
        BY <2>1, <2>8 DEF Promised!PromiseNext
<1> QED
    BY <1>1, <1>2, RowsStayAndGateWaits

\* The detailed purchase path implements the abstract promise of a sale.
THEOREM PromiseIsKept == GateHealthy => (Spec => PromiseKept)
<1> SUFFICES ASSUME GateHealthy PROVE Spec => PromiseKept
    OBVIOUS
<1>1. Init => Promised!PromiseInit
    BY PromiseInitially
<1>2. HealthyInv /\ HealthyInv' /\ [Next]_vars => [Promised!PromiseNext]_(Promised!promiseVars)
    BY PromiseStep
<1>3. Spec => []HealthyInv
    BY HealthyInvariant
<1> QED
    BY <1>1, <1>2, <1>3, PTL DEF Spec, PromiseKept, Promised!PromiseSpec

=============================================================================
