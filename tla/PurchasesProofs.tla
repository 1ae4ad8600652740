-------------------------- MODULE PurchasesProofs --------------------------
(***************************************************************************)
(* What holds of the purchase path under every fault of the model, for any *)
(* requests, workers, sales, addresses, stock and bounds: the types, and   *)
(* the ledger's invariant.                                                 *)
(***************************************************************************)
EXTENDS Purchases, SaleLedgerProofs

\* The types are not inductive alone: redis:warm copies remaining_stock into
\* Redis, and that it copies no negative number is the ledger's doing.
SafetyInv == TypeOK /\ LedgerInv

\* The requests whose message is somewhere between the socket and a row.
Pipe == sent \cup queue \cup dead \cup UNION {batch[w] : w \in Workers}

USE WindowConstants, FlowConstants

---------------------------------------------------------------------------
\* A worker's batch is a finite set of rows for the table.
LEMMA EntriesAreRows ==
    ASSUME TypeOK, NEW w \in Workers
    PROVE  /\ entriesOf(batch[w]) \in SUBSET PurchaseRow
           /\ IsFiniteSet(entriesOf(batch[w]))
<1> DEFINE row(r) == [saleId |-> req[r].saleId, email |-> req[r].email,
                      purchasedAt |-> req[r].now]
           f == [r \in batch[w] |-> row(r)]
<1>1. batch[w] \in SUBSET Requests
    BY DEF TypeOK
<1>2. entriesOf(batch[w]) \in SUBSET PurchaseRow
    BY <1>1 DEF TypeOK, entriesOf, PurchaseRow, Request
<1>3. IsFiniteSet(batch[w])
    BY <1>1, FS_Subset
<1>4. f \in Surjection(batch[w], entriesOf(batch[w]))
    BY DEF Surjection, entriesOf
<1>5. IsFiniteSet(entriesOf(batch[w]))
    BY <1>3, <1>4, FS_Surjection
<1> QED
    BY <1>2, <1>5

\* What a request asks for is well typed.
LEMMA RequestType ==
    ASSUME TypeOK, NEW r \in Requests
    PROVE  /\ req[r] \in Request
           /\ req[r].saleId \in Sales
           /\ req[r].email \in Emails
           /\ req[r].now \in Nat
           /\ normalizeEmail[req[r].email] \in Emails
BY DEF TypeOK, Request

\* The script leaves the gate's keys well typed.
LEMMA ScriptType ==
    ASSUME TypeOK, NEW r \in Requests, runScript(r)
    PROVE  GateTypeOK'
<1> DEFINE s == req[r].saleId
           e == req[r].email
           code == reservationCode(s, e, req[r].now)
<1>1. s \in Sales /\ e \in Emails /\ normalizeEmail[e] \in Emails
    BY RequestType
<1>2. CASE code = "reserved"
    <2>1. /\ stock' = [stock EXCEPT ![s] = @ - 1]
          /\ buyers' = [buyers EXCEPT ![s] = @ \cup {normalizeEmail[e]}]
          /\ UNCHANGED meta
        BY <1>2 DEF runScript, reservePurchase
    <2>2. ~(stock[s] <= 0) /\ stock[s] # NoKey
        BY <1>2 DEF reservationCode, Warmed
    <2>3. stock[s] \in Nat \cup {NoKey}
        BY <1>1 DEF TypeOK, GateTypeOK
    <2>4. stock[s] - 1 \in Nat
        BY <2>2, <2>3 DEF NoKey
    <2> QED
        BY <1>1, <2>1, <2>4 DEF TypeOK, GateTypeOK
<1>3. CASE code # "reserved"
    BY <1>3 DEF runScript, reservePurchase, gateVars, TypeOK, GateTypeOK
<1> QED
    BY <1>2, <1>3

\* So does the code a request is answered with.
LEMMA CodeType ==
    ASSUME NEW s, NEW e, NEW now
    PROVE  afterReservation(reservationCode(s, e, now)) \in
               {"publish", "lookup", "sale_not_active", "already_purchased", "sold_out"}
BY DEF afterReservation, reservationCode

\* A request only ever moves to a known place.
LEMMA GotoType ==
    ASSUME TypeOK, NEW r \in Requests, NEW label \in RequestPCs, Goto(r, label)
    PROVE  pc' \in [Requests -> RequestPCs]
BY DEF TypeOK, Goto

\* Where a request goes, the others stay.
LEMMA GotoEffect ==
    ASSUME TypeOK, NEW r \in Requests, NEW label, Goto(r, label)
    PROVE  pc'[r] = label /\ \A q \in Requests : q # r => pc'[q] = pc[q]
BY DEF TypeOK, Goto

\* Messages and requests are the same set of names.
LEMMA PipeType == ASSUME TypeOK PROVE Pipe \subseteq Requests
BY DEF TypeOK, Pipe

---------------------------------------------------------------------------
\* The invariant holds initially.
LEMMA SafetyInitially == Init => SafetyInv
<1> SUFFICES ASSUME Init PROVE SafetyInv
    OBVIOUS
<1>1. LedgerInv
    BY LedgerInitial DEF Init
<1>2. GateTypeOK
    <2>1. stock \in [Sales -> Nat \cup {NoKey}]
        BY LedgerConstants DEF Init, LedgerInit
    <2>2. \A s \in Sales :
            {normalizeEmail[p.email] : p \in RowsOf(purchases, s)} \subseteq Emails
        BY <1>1 DEF LedgerInv, LedgerTypeOK, RowsOf, PurchaseRow
    <2>3. buyers \in [Sales -> SUBSET Emails]
        BY <2>2 DEF Init
    <2> QED
        BY <2>1, <2>3 DEF Init, GateTypeOK
<1>3. req \in [Requests -> Request]
    BY DEF Init, Request
<1> QED
    BY <1>1, <1>2, <1>3
       DEF Init, SafetyInv, TypeOK, LedgerInv, RequestPCs, WorkerPCs

\* A step of a request, of its own or a fault.
LEMMA RequestKeepsSafety ==
    ASSUME SafetyInv, NEW r \in Requests, RequestStep(r) \/ RequestFault(r)
    PROVE  SafetyInv'
<1> DEFINE s == req[r].saleId
           e == req[r].email
<1> USE DEF SafetyInv
<1>1. /\ s \in Sales /\ e \in Emails
      /\ clock \in Nat /\ req[r].now \in Nat
    BY RequestType DEF TypeOK
<1>2. CASE Purchase(r)
    <2>1. req' \in [Requests -> Request]
        BY <1>1, <1>2 DEF Purchase, TypeOK, Request
    <2>2. pc' \in [Requests -> RequestPCs]
        BY <1>2, GotoType DEF Purchase, RequestPCs, Working
    <2>3. LedgerInv'
        BY <1>2, LedgerUntouched DEF Purchase, ledgerVars, TypeOK, LedgerTypeOK
    <2> QED
        BY <1>2, <2>1, <2>2, <2>3
           DEF Purchase, TypeOK, GateTypeOK, LedgerInv, gateVars, envVars, brokerVars,
               workerVars, warmVars
<1>3. CASE Reserve(r)
    <2>1. pc' \in [Requests -> RequestPCs]
        BY <1>3, GotoType, CodeType DEF Reserve, RequestPCs, Working, Answers
    <2>2. GateTypeOK'
        BY <1>3, ScriptType DEF Reserve
    <2>3. LedgerInv'
        BY <1>3, LedgerUntouched DEF Reserve, ledgerVars, TypeOK, LedgerTypeOK
    <2> QED
        BY <1>3, <2>1, <2>2, <2>3
           DEF Reserve, TypeOK, LedgerInv, envVars, brokerVars, workerVars, warmVars
<1>4. CASE ReplyLost(r)
    <2>1. pc' \in [Requests -> RequestPCs]
        BY <1>4, GotoType DEF ReplyLost, RequestPCs, Working
    <2>2. GateTypeOK'
        BY <1>4, ScriptType DEF ReplyLost
    <2>3. LedgerInv'
        BY <1>4, LedgerUntouched DEF ReplyLost, ledgerVars, TypeOK, LedgerTypeOK
    <2> QED
        BY <1>4, <2>1, <2>2, <2>3
           DEF ReplyLost, Fault, TypeOK, LedgerInv, brokerVars, workerVars, warmVars
<1>5. CASE GateUnavailable(r) \/ RequestDies(r)
    <2>1. pc' \in [Requests -> RequestPCs]
        BY <1>5, GotoType DEF GateUnavailable, RequestDies, RequestPCs, Working, Answers
    <2>2. LedgerInv'
        BY <1>5, LedgerUntouched
           DEF GateUnavailable, RequestDies, ledgerVars, TypeOK, LedgerTypeOK
    <2> QED
        BY <1>5, <2>1, <2>2
           DEF GateUnavailable, RequestDies, Fault, TypeOK, GateTypeOK, LedgerInv, gateVars,
               brokerVars, workerVars, warmVars
<1>6. CASE Publish(r)
    <2>1. pc' \in [Requests -> RequestPCs]
        BY <1>6, GotoType DEF Publish, RequestPCs, Working, Answers
    <2>2. LedgerInv'
        BY <1>6, LedgerUntouched DEF Publish, ledgerVars, TypeOK, LedgerTypeOK
    <2> QED
        BY <1>6, <2>1, <2>2
           DEF Publish, TypeOK, GateTypeOK, LedgerInv, gateVars, envVars, workerVars, warmVars
<1>7. CASE Drained(r) \/ PublishRefused(r)
    <2>1. pc' \in [Requests -> RequestPCs]
        BY <1>7, GotoType DEF Drained, PublishRefused, RequestPCs, Working, Answers
    <2>2. LedgerInv'
        BY <1>7, LedgerUntouched DEF Drained, PublishRefused, ledgerVars, TypeOK, LedgerTypeOK
    <2> QED
        BY <1>7, <2>1, <2>2
           DEF Drained, PublishRefused, TypeOK, GateTypeOK, LedgerInv, gateVars, envVars,
               brokerVars, workerVars, warmVars
<1>8. CASE recordPurchase(r)
    <2>1. pc' \in [Requests -> RequestPCs]
        <3>1. \E label \in {"not_found", "sale_not_active", "write"} : Goto(r, label)
            BY <1>8 DEF recordPurchase
        <3> QED
            BY <3>1, GotoType DEF RequestPCs, Working, Answers
    <2>2. LedgerInv'
        BY <1>8, LedgerUntouched DEF recordPurchase, ledgerVars, TypeOK, LedgerTypeOK
    <2> QED
        BY <1>8, <2>1, <2>2
           DEF recordPurchase, TypeOK, GateTypeOK, LedgerInv, gateVars, envVars,
               brokerVars, workerVars, warmVars
<1>9. CASE Write(r)
    <2>1. pc' \in [Requests -> RequestPCs]
        <3>1. writePurchaseResult(s, e, clock) \in RequestPCs
            BY DEF writePurchaseResult, RequestPCs, Answers
        <3> QED
            BY <1>9, <3>1, GotoType DEF Write
    <2>2. LedgerInv'
        BY <1>1, <1>9, WriteKeepsLedger DEF Write
    <2> QED
        BY <1>9, <2>1, <2>2
           DEF Write, TypeOK, GateTypeOK, LedgerInv, gateVars, envVars, brokerVars,
               workerVars, warmVars
<1>10. CASE WriteThrows(r)
    <2>1. pc' \in [Requests -> RequestPCs]
        BY <1>10, GotoType DEF WriteThrows, RequestPCs, Answers
    <2>2. LedgerInv'
        <3>1. CASE writePurchase(s, e, clock)
            BY <1>1, <3>1, WriteKeepsLedger
        <3>2. CASE UNCHANGED ledgerVars
            BY <3>2, LedgerUntouched DEF ledgerVars, TypeOK, LedgerTypeOK
        <3> QED
            BY <1>10, <3>1, <3>2 DEF WriteThrows
    <2> QED
        BY <1>10, <2>1, <2>2
           DEF WriteThrows, Fault, TypeOK, GateTypeOK, LedgerInv, gateVars, brokerVars,
               workerVars, warmVars
<1> QED
    BY <1>2, <1>3, <1>4, <1>5, <1>6, <1>7, <1>8, <1>9, <1>10 DEF RequestStep, RequestFault

\* A step of a worker, of its own or a fault.
LEMMA WorkerKeepsSafety ==
    ASSUME SafetyInv, NEW w \in Workers, WorkerStep(w) \/ WorkerFault(w)
    PROVE  SafetyInv'
<1> USE DEF SafetyInv
<1> DEFINE Untouched == UNCHANGED ledgerVars
           Wrote == writePurchaseBatch(entriesOf(batch[w]))
<1>1. ASSUME Untouched PROVE LedgerInv'
    BY <1>1, LedgerUntouched DEF ledgerVars, TypeOK, LedgerTypeOK
<1>2. ASSUME Wrote PROVE LedgerInv'
    BY <1>2, EntriesAreRows, BatchKeepsLedger
<1>3. ASSUME attemptFailed(w)
      PROVE  /\ wpc' \in [Workers -> WorkerPCs]
             /\ batch' \in [Workers -> SUBSET Requests]
             /\ attempt' \in [Workers -> 1..MaxAttempts]
             /\ dead' \subseteq Requests
    BY <1>3 DEF attemptFailed, TypeOK, WorkerPCs
<1>4. CASE WorkerStart(w)
    <2>1. LedgerInv'
        BY <1>1, <1>4 DEF WorkerStart
    <2> QED
        BY <1>4, <2>1
           DEF WorkerStart, TypeOK, WorkerPCs, GateTypeOK, LedgerInv, gateVars, envVars,
               apiVars, brokerVars, warmVars
<1>5. CASE TakeBatch(w)
    <2>1. LedgerInv'
        BY <1>1, <1>5 DEF TakeBatch
    <2>2. PICK b \in SUBSET queue :
            /\ batch' = [batch EXCEPT ![w] = b]
            /\ queue' = queue \ b
        BY <1>5 DEF TakeBatch
    <2>3. /\ wpc' = [wpc EXCEPT ![w] = "writing"]
          /\ attempt' = [attempt EXCEPT ![w] = 1]
        BY <1>5 DEF TakeBatch
    <2> QED
        BY <1>5, <2>1, <2>2, <2>3
           DEF TakeBatch, TypeOK, WorkerPCs, GateTypeOK, LedgerInv, gateVars, envVars,
               apiVars, warmVars
<1>6. CASE WriteBatch(w)
    <2>1. LedgerInv'
        BY <1>2, <1>6 DEF WriteBatch
    <2> QED
        BY <1>6, <2>1
           DEF WriteBatch, TypeOK, WorkerPCs, GateTypeOK, LedgerInv, gateVars, envVars,
               apiVars, brokerVars, warmVars
<1>7. CASE Ack(w)
    <2>1. LedgerInv'
        BY <1>1, <1>7 DEF Ack
    <2> QED
        BY <1>7, <2>1
           DEF Ack, TypeOK, WorkerPCs, GateTypeOK, LedgerInv, gateVars, envVars,
               apiVars, brokerVars, warmVars
<1>8. CASE BatchAborts(w)
    <2>1. LedgerInv'
        BY <1>1, <1>8 DEF BatchAborts
    <2> QED
        BY <1>3, <1>8, <2>1
           DEF BatchAborts, TypeOK, GateTypeOK, LedgerInv, gateVars, envVars, apiVars, warmVars
<1>9. CASE BatchThrows(w)
    <2>1. LedgerInv'
        BY <1>1, <1>2, <1>9 DEF BatchThrows
    <2> QED
        BY <1>3, <1>9, <2>1
           DEF BatchThrows, Fault, TypeOK, GateTypeOK, LedgerInv, gateVars, apiVars, warmVars
<1>10. CASE LoseSession(w)
    <2>1. LedgerInv'
        BY <1>1, <1>10 DEF LoseSession
    <2>2. queue' \subseteq Requests
        BY <1>10 DEF LoseSession, TypeOK
    <2>3. /\ wpc' \in [Workers -> WorkerPCs]
          /\ batch' \in [Workers -> SUBSET Requests]
        BY <1>10 DEF LoseSession, TypeOK, WorkerPCs
    <2> QED
        BY <1>10, <2>1, <2>2, <2>3
           DEF LoseSession, Fault, TypeOK, GateTypeOK, LedgerInv, gateVars, apiVars, warmVars
<1>11. CASE OrphanEnds(w)
    <2>1. LedgerInv'
        BY <1>1, <1>2, <1>11 DEF OrphanEnds
    <2> QED
        BY <1>11, <2>1
           DEF OrphanEnds, TypeOK, WorkerPCs, GateTypeOK, LedgerInv, gateVars, envVars,
               apiVars, brokerVars, warmVars
<1> QED
    BY <1>4, <1>5, <1>6, <1>7, <1>8, <1>9, <1>10, <1>11 DEF WorkerStep, WorkerFault

\* A step of the broker or of the API's connection to it.
LEMMA BrokerKeepsSafety ==
    ASSUME SafetyInv,
           ChannelDown \/ ChannelUp \/ \E r \in Requests : BrokerReceive(r)
    PROVE  SafetyInv'
<1> USE DEF SafetyInv
<1>1. UNCHANGED ledgerVars
    BY DEF ChannelDown, ChannelUp, BrokerReceive
<1>2. LedgerInv'
    BY <1>1, LedgerUntouched DEF ledgerVars, TypeOK, LedgerTypeOK
<1>3. CASE ChannelDown
    <2>1. pc' \in [Requests -> RequestPCs]
        BY <1>3 DEF ChannelDown, TypeOK, RequestPCs
    <2>2. faults' \in Nat /\ clock' \in Nat
        BY <1>3 DEF ChannelDown, Fault, TypeOK
    <2>3. channelUp' = FALSE /\ sent' = {}
        BY <1>3, Zenon DEF ChannelDown
    <2>4. UNCHANGED <<gateVars, req, queue, dead, workerVars, warmVars>>
        BY <1>3 DEF ChannelDown
    <2> QED
        BY <1>2, <2>1, <2>2, <2>3, <2>4
           DEF TypeOK, GateTypeOK, LedgerInv, gateVars, workerVars, warmVars
<1>4. CASE ChannelUp
    BY <1>2, <1>4
       DEF ChannelUp, TypeOK, GateTypeOK, LedgerInv, gateVars, envVars, apiVars,
           workerVars, warmVars
<1>5. CASE \E r \in Requests : BrokerReceive(r)
    BY <1>2, <1>5
       DEF BrokerReceive, TypeOK, GateTypeOK, LedgerInv, gateVars, envVars, apiVars,
           workerVars, warmVars
<1> QED
    BY <1>3, <1>4, <1>5

\* A step of the operator, or time.
LEMMA OperatorKeepsSafety ==
    ASSUME SafetyInv, OperatorStep \/ Tick
    PROVE  SafetyInv'
<1> USE DEF SafetyInv
<1>1. /\ UNCHANGED <<remaining, purchases>>
      /\ cancelled' \in [Sales -> BOOLEAN]
    <2>1. cancelled \in [Sales -> BOOLEAN]
        BY DEF TypeOK, LedgerTypeOK
    <2>2. CASE \E s \in Sales : Cancel(s)
        BY <2>1, <2>2 DEF Cancel
    <2> QED
        BY <2>1, <2>2
           DEF OperatorStep, WarmSelect, WarmBuyers, WarmSync, FlushPage, Tick, ledgerVars
<1>2. LedgerInv'
    BY <1>1, LedgerUntouched
<1>3. CASE WarmSelect
    <2>1. remaining \in [Sales -> Nat]
        BY DEF LedgerInv, NeverOversold, LedgerTypeOK
    <2> QED
        BY <1>2, <1>3, <2>1
           DEF WarmSelect, Fault, TypeOK, GateTypeOK, LedgerInv, gateVars, apiVars,
               brokerVars, workerVars
<1>4. ASSUME NEW s \in Sales, WarmBuyers(s) PROVE SafetyInv'
    <2>1. {p.email : p \in RowsOf(purchases, s)} \subseteq Emails
        BY DEF RowsOf, TypeOK, LedgerTypeOK, PurchaseRow
    <2> QED
        BY <1>2, <1>4, <2>1
           DEF WarmBuyers, TypeOK, GateTypeOK, LedgerInv, gateVars, envVars, apiVars,
               brokerVars, workerVars
<1>5. ASSUME NEW s \in Sales, WarmSync(s) PROVE SafetyInv'
    <2>1. /\ warmRow[s] \in Nat
          /\ {normalizeEmail[e] : e \in warmEmails} \subseteq Emails
        BY DEF TypeOK
    <2>2. GateTypeOK'
        BY <1>5, <2>1 DEF WarmSync, syncSale, TypeOK, GateTypeOK
    <2> QED
        BY <1>2, <1>5, <2>2
           DEF WarmSync, TypeOK, LedgerInv, envVars, apiVars, brokerVars, workerVars
<1>6. CASE FlushPage
    <2>1. GateTypeOK'
        BY <1>6 DEF FlushPage, flushPage, TypeOK, GateTypeOK
    <2> QED
        BY <1>2, <1>6, <2>1
           DEF FlushPage, Fault, TypeOK, LedgerInv, apiVars, brokerVars, workerVars, warmVars
<1>7. ASSUME NEW s \in Sales, Cancel(s) PROVE SafetyInv'
    BY <1>2, <1>7
       DEF Cancel, Fault, TypeOK, GateTypeOK, LedgerInv, gateVars, apiVars, brokerVars,
           workerVars, warmVars
<1>8. CASE Tick
    BY <1>2, <1>8
       DEF Tick, TypeOK, GateTypeOK, LedgerInv, gateVars, apiVars, brokerVars,
           workerVars, warmVars
<1> QED
    BY <1>3, <1>4, <1>5, <1>6, <1>7, <1>8 DEF OperatorStep

\* Every step keeps the safety invariant.
LEMMA SafetyStep == SafetyInv /\ [Next]_vars => SafetyInv'
<1> SUFFICES ASSUME SafetyInv, [Next]_vars PROVE SafetyInv'
    OBVIOUS
<1>1. CASE UNCHANGED vars
    BY <1>1
       DEF SafetyInv, TypeOK, GateTypeOK, LedgerInv, LedgerTypeOK, OnePurchasePerBuyer,
           StockConservation, NeverOversold, vars, gateVars, ledgerVars, envVars, apiVars,
           brokerVars, workerVars, warmVars
<1> QED
    BY <1>1, RequestKeepsSafety, WorkerKeepsSafety, BrokerKeepsSafety, OperatorKeepsSafety
       DEF Next

---------------------------------------------------------------------------
\* The invariant of the purchase path, under every fault.
THEOREM SafetyInvariant == Spec => []SafetyInv
<1>1. Init => SafetyInv
    BY SafetyInitially
<1>2. SafetyInv /\ [Next]_vars => SafetyInv'
    BY SafetyStep
<1> QED
    BY <1>1, <1>2, PTL DEF Spec

\* Every variable keeps its type: in particular Redis's stock, whether counted
\* down by the script or copied by redis:warm, is never negative.
THEOREM TypeCorrect == Spec => []TypeOK
<1>1. SafetyInv => TypeOK
    BY DEF SafetyInv
<1> QED
    BY <1>1, SafetyInvariant, PTL

\* verify.ts's equation, for every instance: direct writes, batches,
\* redeliveries and transactions that fail after their commit never break
\* apart remaining_stock and the purchases table.
THEOREM StockIsConserved == Spec => []StockConservation
<1>1. SafetyInv => StockConservation
    BY DEF SafetyInv, LedgerInv
<1> QED
    BY <1>1, SafetyInvariant, PTL

\* No sale is oversold in Postgres, even while Redis is wrong.
THEOREM NoOverselling == Spec => []NeverOversold
<1>1. SafetyInv => NeverOversold
    BY DEF SafetyInv, LedgerInv
<1> QED
    BY <1>1, SafetyInvariant, PTL

\* No buyer has two purchases of one sale, in any spelling of the address.
THEOREM NoDuplicatePurchase == Spec => []OnePurchasePerBuyer
<1>1. SafetyInv => OnePurchasePerBuyer
    BY DEF SafetyInv, LedgerInv
<1> QED
    BY <1>1, SafetyInvariant, PTL

=============================================================================
