------------------------ MODULE PurchasesFlowProofs ------------------------
(***************************************************************************)
(* Answers and rows agree, under every fault of the model and for any      *)
(* requests, workers, sales and bounds: who was told "success" is in       *)
(* Postgres or on the way there, and who was refused is not.               *)
(***************************************************************************)
EXTENDS PurchasesProofs

\* The requests whose client was not refused: told of a success or about to
\* be, left without an answer, or answered with a 500.
Told == {"success", "drain", "hung", "error"}

\* The answers SuccessAccountedFor is about.
Confirmed == {"success", "drain", "hung"}

\* A message is only carried for a request that has left the publish step.
CarriedInv == \A r \in Pipe : pc[r] \in Told

OwedInv == CarriedInv /\ RefusedBuyerHasNoPurchase

\* A batch waits for its acknowledgement only after its commit, and a worker
\* that is between batches holds none.
BatchesInv ==
    \A w \in Workers :
        /\ wpc[w] = "written" =>
               \A r \in batch[w] : HasPurchased(req[r].saleId, req[r].email)
        /\ wpc[w] \in {"down", "idle"} => batch[w] = {}

AccountInv == BatchesInv /\ SuccessAccountedFor

FlowInv == SafetyInv /\ OwedInv /\ AccountInv

---------------------------------------------------------------------------
\* What a step of one request does to the others' state: it may publish its
\* message and insert its row, and answers itself accordingly.
LEMMA RequestEffect ==
    ASSUME SafetyInv, NEW r \in Requests, RequestStep(r) \/ RequestFault(r)
    PROVE  /\ purchases \subseteq purchases'
           /\ UNCHANGED <<queue, dead, workerVars>>
           /\ \A q \in Requests : req'[q].saleId = req[q].saleId /\ req'[q].email = req[q].email
           /\ \A q \in Requests : q # r => pc'[q] = pc[q]
           /\ pc[r] \in Told => pc'[r] \in Told
           /\ sent' = sent \/ (sent' = sent \cup {r} /\ pc'[r] \in Told)
           /\ \A p \in purchases' \ purchases :
                  p.saleId = req[r].saleId /\ p.email = req[r].email /\ pc'[r] \in Told
           /\ pc'[r] \in Confirmed =>
                  pc[r] \in Confirmed \/ r \in sent' \/ HasPurchased(req[r].saleId, req[r].email)'
<1>1. TypeOK
    BY DEF SafetyInv
<1> DEFINE s == req[r].saleId
           e == req[r].email
<1> USE DEF Told, Confirmed
<1>2. CASE Purchase(r)
    <2>1. pc[r] = "idle" /\ Goto(r, "reserve")
        BY <1>2 DEF Purchase
    <2>2. \A q \in Requests : req'[q].saleId = req[q].saleId /\ req'[q].email = req[q].email
        BY <1>1, <1>2 DEF Purchase, TypeOK, Request
    <2> QED
        BY <1>1, <1>2, <2>1, <2>2, GotoEffect DEF Purchase, ledgerVars, brokerVars
<1>3. CASE Reserve(r) \/ ReplyLost(r) \/ GateUnavailable(r)
    <2>1. PICK label \in {"publish", "lookup", "resend", "sale_not_active",
                          "already_purchased", "sold_out"} : Goto(r, label)
        BY <1>3, CodeType DEF Reserve, ReplyLost, GateUnavailable
    <2>2. pc[r] \in {"reserve", "resend"}
        BY <1>3 DEF Reserve, ReplyLost, GateUnavailable
    <2>3. UNCHANGED <<ledgerVars, req, brokerVars, workerVars>>
        BY <1>3 DEF Reserve, ReplyLost, GateUnavailable
    <2> QED
        BY <1>1, <2>1, <2>2, <2>3, GotoEffect DEF ledgerVars, brokerVars
<1>4. CASE Publish(r)
    <2>1. PICK label \in {"success", "drain"} : Goto(r, label)
        BY <1>4 DEF Publish
    <2>2. sent' = sent \cup {r} /\ UNCHANGED <<ledgerVars, req, queue, dead, workerVars>>
        BY <1>4 DEF Publish
    <2> QED
        BY <1>1, <2>1, <2>2, GotoEffect DEF ledgerVars
<1>5. CASE Drained(r) \/ PublishRefused(r) \/ RequestDies(r)
    <2>1. UNCHANGED <<ledgerVars, req, brokerVars, workerVars>>
        BY <1>5 DEF Drained, PublishRefused, RequestDies
    <2>2. \/ pc[r] = "drain" /\ Goto(r, "success")
          \/ pc[r] = "publish" /\ Goto(r, "write")
          \/ Goto(r, "error")
        BY <1>5 DEF Drained, PublishRefused, RequestDies
    <2> QED
        BY <1>1, <2>1, <2>2, GotoEffect DEF ledgerVars, brokerVars
<1>6. CASE recordPurchase(r)
    <2>1. PICK label \in {"not_found", "sale_not_active", "write"} : Goto(r, label)
        BY <1>6 DEF recordPurchase
    <2>2. pc[r] = "lookup" /\ UNCHANGED <<ledgerVars, req, brokerVars, workerVars>>
        BY <1>6 DEF recordPurchase
    <2> QED
        BY <1>1, <2>1, <2>2, GotoEffect DEF ledgerVars, brokerVars
<1>7. CASE Write(r)
    <2>1. /\ pc[r] = "write"
          /\ writePurchase(s, e, clock)
          /\ pc'[r] = writePurchaseResult(s, e, clock)
          /\ \A q \in Requests : q # r => pc'[q] = pc[q]
        BY <1>1, <1>7, GotoEffect DEF Write
    <2>2. writePurchaseResult(s, e, clock) \notin {"drain", "hung", "error"}
        BY DEF writePurchaseResult
    <2>3. UNCHANGED <<req, brokerVars, workerVars>>
        BY <1>7 DEF Write
    <2>4. /\ purchases \subseteq purchases'
          /\ \A p \in purchases' \ purchases : p.saleId = s /\ p.email = e
          /\ purchases' # purchases => writePurchaseResult(s, e, clock) = "success"
          /\ writePurchaseResult(s, e, clock) = "success" => HasPurchased(s, e)'
        BY <2>1, <2>3, WriteEffect DEF HasPurchased
    <2> QED
        BY <2>1, <2>2, <2>3, <2>4 DEF brokerVars
<1>8. CASE WriteThrows(r)
    <2>1. /\ pc'[r] = "error"
          /\ \A q \in Requests : q # r => pc'[q] = pc[q]
          /\ UNCHANGED <<req, brokerVars, workerVars>>
        BY <1>1, <1>8, GotoEffect DEF WriteThrows
    <2>2. /\ purchases \subseteq purchases'
          /\ \A p \in purchases' \ purchases : p.saleId = s /\ p.email = e
        BY <1>8, WriteEffect DEF WriteThrows, ledgerVars
    <2> QED
        BY <2>1, <2>2 DEF brokerVars
<1> QED
    BY <1>2, <1>3, <1>4, <1>5, <1>6, <1>7, <1>8 DEF RequestStep, RequestFault

---------------------------------------------------------------------------
\* A worker touches no request: it moves messages between the broker and its
\* own batch, and every row it inserts is that of a message of the batch.
LEMMA WorkerEffect ==
    ASSUME SafetyInv, NEW w \in Workers, WorkerStep(w) \/ WorkerFault(w)
    PROVE  /\ UNCHANGED <<pc, req, sent>>
           /\ purchases \subseteq purchases'
           /\ \A p \in purchases' \ purchases : \E r \in batch[w] :
                  p.saleId = req[r].saleId /\ p.email = req[r].email
           /\ queue' \subseteq queue \cup batch[w]
           /\ dead \subseteq dead' /\ dead' \subseteq dead \cup batch[w]
           /\ batch'[w] \subseteq batch[w] \cup queue
           /\ \A v \in Workers : v # w => wpc'[v] = wpc[v] /\ batch'[v] = batch[v]
<1>1. TypeOK
    BY DEF SafetyInv
<1>2. ASSUME writePurchaseBatch(entriesOf(batch[w])) \/ UNCHANGED ledgerVars
      PROVE  /\ purchases \subseteq purchases'
             /\ \A p \in purchases' \ purchases : \E r \in batch[w] :
                    p.saleId = req[r].saleId /\ p.email = req[r].email
    <2>1. CASE UNCHANGED ledgerVars
        BY <2>1 DEF ledgerVars
    <2>2. CASE writePurchaseBatch(entriesOf(batch[w]))
        <3>1. /\ purchases \subseteq purchases'
              /\ purchases' \ purchases \subseteq entriesOf(batch[w])
            BY <2>2, BatchEffect
        <3> QED
            BY <3>1 DEF entriesOf
    <2> QED
        BY <1>2, <2>1, <2>2
<1>3. ASSUME attemptFailed(w)
      PROVE  /\ dead \subseteq dead' /\ dead' \subseteq dead \cup batch[w]
             /\ batch'[w] \subseteq batch[w]
             /\ \A v \in Workers : v # w => wpc'[v] = wpc[v] /\ batch'[v] = batch[v]
    BY <1>1, <1>3 DEF attemptFailed, TypeOK
<1>4. CASE WorkerStart(w) \/ WriteBatch(w) \/ Ack(w) \/ OrphanEnds(w)
    <2>1. UNCHANGED <<pc, req, sent, queue, dead>>
        BY <1>4 DEF WorkerStart, WriteBatch, Ack, OrphanEnds, apiVars, brokerVars
    <2>2. /\ batch'[w] \subseteq batch[w]
          /\ \A v \in Workers : v # w => wpc'[v] = wpc[v] /\ batch'[v] = batch[v]
        BY <1>1, <1>4 DEF WorkerStart, WriteBatch, Ack, OrphanEnds, TypeOK
    <2> QED
        BY <1>2, <1>4, <2>1, <2>2 DEF WorkerStart, WriteBatch, Ack, OrphanEnds
<1>5. CASE TakeBatch(w)
    <2>1. PICK b \in SUBSET queue : batch' = [batch EXCEPT ![w] = b] /\ queue' = queue \ b
        BY <1>5 DEF TakeBatch
    <2>2. /\ wpc' = [wpc EXCEPT ![w] = "writing"]
          /\ UNCHANGED <<ledgerVars, apiVars, sent, dead>>
        BY <1>5 DEF TakeBatch
    <2> QED
        BY <1>1, <1>2, <2>1, <2>2 DEF TypeOK, apiVars
<1>6. CASE BatchAborts(w) \/ BatchThrows(w)
    <2>1. UNCHANGED <<apiVars, sent, queue>> /\ attemptFailed(w)
        BY <1>6 DEF BatchAborts, BatchThrows
    <2>2. writePurchaseBatch(entriesOf(batch[w])) \/ UNCHANGED ledgerVars
        BY <1>6 DEF BatchAborts, BatchThrows
    <2> QED
        BY <1>2, <1>3, <2>1, <2>2 DEF apiVars
<1>7. CASE LoseSession(w)
    <2>1. UNCHANGED <<ledgerVars, apiVars, sent, dead>> /\ queue' = queue \cup batch[w]
        BY <1>7 DEF LoseSession
    <2>2. /\ batch'[w] \subseteq batch[w]
          /\ \A v \in Workers : v # w => wpc'[v] = wpc[v] /\ batch'[v] = batch[v]
        BY <1>1, <1>7 DEF LoseSession, TypeOK
    <2> QED
        BY <1>2, <2>1, <2>2 DEF apiVars
<1> QED
    BY <1>4, <1>5, <1>6, <1>7 DEF WorkerStep, WorkerFault

\* The broker and its connection move messages on and answer nobody: a
\* request that waits on a lost channel goes on waiting.
LEMMA BrokerEffect ==
    ASSUME SafetyInv,
           ChannelDown \/ ChannelUp \/ \E r \in Requests : BrokerReceive(r)
    PROVE  /\ UNCHANGED <<purchases, req, dead, workerVars>>
           /\ sent' \subseteq sent
           /\ queue \subseteq queue' /\ queue' \subseteq queue \cup sent
           /\ sent \subseteq sent' \cup queue' \/ "lost_publish" \in Faults
           /\ \A r \in Requests :
                  /\ pc'[r] \in Told <=> pc[r] \in Told
                  /\ pc'[r] \in Confirmed <=> pc[r] \in Confirmed
<1> USE DEF SafetyInv, Told, Confirmed
<1>1. CASE ChannelDown
    <2>1. /\ sent = {} \/ "lost_publish" \in Faults
          /\ sent' = {}
          /\ pc' = [r \in Requests |-> IF pc[r] = "drain" THEN "hung" ELSE pc[r]]
          /\ UNCHANGED <<ledgerVars, req, queue, dead, workerVars>>
        BY <1>1 DEF ChannelDown
    <2> QED
        BY <2>1 DEF ledgerVars
<1>2. CASE ChannelUp
    BY <1>2 DEF ChannelUp, ledgerVars, apiVars
<1>3. CASE \E r \in Requests : BrokerReceive(r)
    BY <1>3 DEF BrokerReceive, ledgerVars, apiVars
<1> QED
    BY <1>1, <1>2, <1>3

\* The operator and the clock touch neither requests nor messages nor rows.
LEMMA OperatorEffect ==
    ASSUME OperatorStep \/ Tick
    PROVE  UNCHANGED <<purchases, apiVars, brokerVars, workerVars>>
BY DEF OperatorStep, Tick, WarmSelect, WarmBuyers, WarmSync, FlushPage, Cancel, ledgerVars

---------------------------------------------------------------------------
\* The buyer of a request has a purchase.
Recorded(r) == HasPurchased(req[r].saleId, req[r].email)

SameBuyers ==
    \A r \in Requests : req'[r].saleId = req[r].saleId /\ req'[r].email = req[r].email

\* A purchase stays, and so does what a request asks for.
LEMMA RecordedStays ==
    ASSUME NEW r \in Requests, SameBuyers, purchases \subseteq purchases', Recorded(r)
    PROVE  Recorded(r)'
BY DEF Recorded, HasPurchased, SameBuyers

\* Rows stay owed as long as no request is refused after its message left or
\* its row was inserted, and each new row is owed.
LEMMA OwedFrame ==
    ASSUME TypeOK, OwedInv, SameBuyers,
           \A r \in Requests : pc[r] \in Told => pc'[r] \in Told,
           \A r \in Pipe' : r \in Pipe \/ pc'[r] \in Told,
           \A p \in purchases' \ purchases : \E r \in Requests :
               p.saleId = req[r].saleId /\ p.email = req[r].email /\ pc'[r] \in Told
    PROVE  OwedInv'
<1>1. CarriedInv'
    <2> SUFFICES ASSUME NEW r \in Pipe' PROVE pc'[r] \in Told
        BY DEF CarriedInv, Told
    <2> QED
        BY PipeType DEF OwedInv, CarriedInv
<1>2. RefusedBuyerHasNoPurchase'
    <2> SUFFICES ASSUME NEW p \in purchases' \ InitialRows
                 PROVE  \E r \in Requests :
                            /\ req'[r].saleId = p.saleId
                            /\ req'[r].email = p.email
                            /\ pc'[r] \in Told
        BY DEF RefusedBuyerHasNoPurchase, Told
    <2>1. \E r \in Requests :
            p.saleId = req[r].saleId /\ p.email = req[r].email /\ pc'[r] \in Told
        <3>1. CASE p \in purchases
            BY <3>1 DEF OwedInv, RefusedBuyerHasNoPurchase, Told
        <3>2. CASE p \notin purchases
            BY <3>2
        <3> QED
            BY <3>1, <3>2
    <2> QED
        BY <2>1 DEF SameBuyers
<1> QED
    BY <1>1, <1>2 DEF OwedInv

\* Successes stay accounted for as long as no message disappears before its
\* row is there, and nobody is told of a success without one or the other.
LEMMA AccountFrame ==
    ASSUME AccountInv, BatchesInv', SameBuyers, purchases \subseteq purchases',
           \A r \in Requests :
               pc'[r] \in Confirmed => pc[r] \in Confirmed \/ InFlight(r)' \/ Recorded(r)',
           \A r \in Requests :
               "lost_publish" \notin Faults /\ InFlight(r) => InFlight(r)' \/ Recorded(r)'
    PROVE  AccountInv'
<1>1. SuccessAccountedFor'
    <2> SUFFICES ASSUME "lost_publish" \notin Faults, NEW r \in Requests, pc'[r] \in Confirmed
                 PROVE  Recorded(r)' \/ InFlight(r)'
        BY DEF SuccessAccountedFor, Recorded, Confirmed
    <2>1. CASE pc[r] \in Confirmed
        <3>1. Recorded(r) \/ InFlight(r)
            BY <2>1 DEF AccountInv, SuccessAccountedFor, Recorded, Confirmed
        <3> QED
            BY <3>1, RecordedStays
    <2> QED
        BY <2>1
<1> QED
    BY <1>1 DEF AccountInv

---------------------------------------------------------------------------
\* Nothing is on its way yet, and nobody has been answered.
LEMMA FlowInitially == Init => FlowInv
<1> SUFFICES ASSUME Init PROVE FlowInv
    OBVIOUS
<1>1. Pipe = {} /\ purchases = InitialRows
    BY DEF Init, Pipe, LedgerInit
<1>2. OwedInv
    BY <1>1 DEF OwedInv, CarriedInv, RefusedBuyerHasNoPurchase
<1>3. AccountInv
    BY DEF AccountInv, BatchesInv, SuccessAccountedFor, Init
<1> QED
    BY <1>2, <1>3, SafetyInitially DEF FlowInv

\* A step of a request.
LEMMA RequestKeepsFlow ==
    ASSUME FlowInv, NEW r \in Requests, RequestStep(r) \/ RequestFault(r)
    PROVE  OwedInv' /\ AccountInv'
<1> USE DEF FlowInv
<1>1. TypeOK
    BY DEF SafetyInv
<1>2. /\ SameBuyers
      /\ purchases \subseteq purchases'
      /\ UNCHANGED <<queue, dead, wpc, batch>>
      /\ sent \subseteq sent'
      /\ \A q \in Requests : q # r => pc'[q] = pc[q]
    BY RequestEffect DEF SameBuyers, workerVars
<1>3. OwedInv'
    <2>1. \A q \in Requests : pc[q] \in Told => pc'[q] \in Told
        BY <1>2, RequestEffect
    <2>2. \A q \in Pipe' : q \in Pipe \/ pc'[q] \in Told
        <3>1. sent' = sent \/ (sent' = sent \cup {r} /\ pc'[r] \in Told)
            BY RequestEffect
        <3> QED
            BY <1>2, <3>1 DEF Pipe
    <2>3. \A p \in purchases' \ purchases : \E q \in Requests :
            p.saleId = req[q].saleId /\ p.email = req[q].email /\ pc'[q] \in Told
        BY RequestEffect
    <2> QED
        BY <1>1, <1>2, <2>1, <2>2, <2>3, OwedFrame
<1>4. AccountInv'
    <2>1. BatchesInv'
        <3>1. \A q \in Requests : Recorded(q) => Recorded(q)'
            BY <1>2, RecordedStays
        <3>2. \A w \in Workers : batch[w] \subseteq Requests
            BY <1>1 DEF TypeOK
        <3> QED
            BY <1>2, <3>1, <3>2 DEF AccountInv, BatchesInv, Recorded
    <2>2. \A q \in Requests : InFlight(q) => InFlight(q)'
        BY <1>2 DEF InFlight
    <2>3. \A q \in Requests :
            pc'[q] \in Confirmed => pc[q] \in Confirmed \/ InFlight(q)' \/ Recorded(q)'
        <3>1. CASE pc'[r] \in Confirmed /\ pc[r] \notin Confirmed
            <4>1. r \in sent' \/ HasPurchased(req[r].saleId, req[r].email)'
                BY <3>1, RequestEffect
            <4> QED
                BY <1>2, <4>1 DEF InFlight, Recorded
        <3> QED
            BY <1>2, <3>1
    <2> QED
        BY <1>2, <2>1, <2>2, <2>3, AccountFrame
<1> QED
    BY <1>3, <1>4

\* A step of the broker, the operator or the clock.
LEMMA RestKeepsFlow ==
    ASSUME FlowInv,
           \/ ChannelDown \/ ChannelUp \/ \E r \in Requests : BrokerReceive(r)
           \/ OperatorStep \/ Tick
    PROVE  OwedInv' /\ AccountInv'
<1> USE DEF FlowInv
<1>1. TypeOK
    BY DEF SafetyInv
<1>2. /\ UNCHANGED <<purchases, req, dead, wpc, batch>>
      /\ sent' \cup queue' \subseteq sent \cup queue
      /\ sent \cup queue \subseteq sent' \cup queue' \/ "lost_publish" \in Faults
      /\ \A r \in Requests :
             /\ pc'[r] \in Told <=> pc[r] \in Told
             /\ pc'[r] \in Confirmed <=> pc[r] \in Confirmed
    <2>1. CASE OperatorStep \/ Tick
        BY <2>1, OperatorEffect DEF apiVars, brokerVars, workerVars
    <2>2. CASE ChannelDown \/ ChannelUp \/ \E r \in Requests : BrokerReceive(r)
        BY <2>2, BrokerEffect DEF workerVars
    <2> QED
        BY <2>1, <2>2
<1>3. SameBuyers
    BY <1>2 DEF SameBuyers
<1>4. OwedInv'
    <2>1. Pipe' \subseteq Pipe
        BY <1>2 DEF Pipe
    <2> QED
        BY <1>1, <1>2, <1>3, <2>1, OwedFrame
<1>5. AccountInv'
    <2>1. BatchesInv'
        BY <1>2 DEF AccountInv, BatchesInv, HasPurchased
    <2>2. \A r \in Requests : "lost_publish" \notin Faults /\ InFlight(r) => InFlight(r)'
        BY <1>2 DEF InFlight
    <2> QED
        BY <1>2, <1>3, <2>1, <2>2, AccountFrame
<1> QED
    BY <1>4, <1>5

---------------------------------------------------------------------------
\* Once a batch has committed, the buyer of each of its messages is recorded.
LEMMA BatchRecords ==
    ASSUME NEW w \in Workers, writePurchaseBatch(entriesOf(batch[w])), UNCHANGED req
    PROVE  \A r \in batch[w] : Recorded(r)'
<1> SUFFICES ASSUME NEW r \in batch[w] PROVE Recorded(r)'
    OBVIOUS
<1> DEFINE entry == [saleId |-> req[r].saleId, email |-> req[r].email,
                     purchasedAt |-> req[r].now]
<1>1. entry \in entriesOf(batch[w])
    BY DEF entriesOf
<1>2. HasPurchased(entry.saleId, entry.email)'
    <2>1. \A p \in entriesOf(batch[w]) : HasPurchased(p.saleId, p.email)'
        BY BatchEffect
    <2> QED
        BY <1>1, <2>1 DEF HasPurchased
<1> QED
    BY <1>2 DEF Recorded, HasPurchased

\* What a worker lets go of has been recorded, or is with the broker: in the
\* queue again or dead-lettered.
LEMMA WorkerLetsGo ==
    ASSUME FlowInv, NEW w \in Workers, WorkerStep(w) \/ WorkerFault(w)
    PROVE  /\ wpc'[w] = "written" => \A r \in batch'[w] : Recorded(r)'
           /\ wpc'[w] \in {"down", "idle"} => batch'[w] = {}
           /\ wpc[w] # "orphan" =>
                  \A r \in batch[w] : \/ r \in queue' \cup dead'
                                      \/ r \in batch'[w] /\ wpc'[w] # "orphan"
                                      \/ Recorded(r)'
           /\ \A r \in queue : r \in queue' \/ (r \in batch'[w] /\ wpc'[w] # "orphan")
<1> USE DEF FlowInv
<1>1. TypeOK
    BY DEF SafetyInv
<1>2. /\ wpc[w] = "written" => \A r \in batch[w] : Recorded(r)
      /\ wpc[w] \in {"down", "idle"} => batch[w] = {}
      /\ batch[w] \subseteq Requests
    BY <1>1 DEF AccountInv, BatchesInv, Recorded, TypeOK
<1>3. ASSUME attemptFailed(w), wpc[w] = "writing", UNCHANGED queue
      PROVE  /\ \/ wpc'[w] = "writing" /\ batch'[w] = batch[w]
                \/ wpc'[w] = "idle" /\ batch'[w] = {} /\ dead' = dead \cup batch[w]
             /\ queue' = queue
    BY <1>1, <1>3 DEF attemptFailed, TypeOK
<1>4. CASE WorkerStart(w)
    <2>1. wpc[w] = "down" /\ wpc'[w] = "idle" /\ batch'[w] = batch[w] /\ queue' = queue
        BY <1>1, <1>4 DEF WorkerStart, TypeOK, brokerVars
    <2> QED
        BY <1>2, <2>1
<1>5. CASE TakeBatch(w)
    <2>1. PICK b \in SUBSET queue : batch' = [batch EXCEPT ![w] = b] /\ queue' = queue \ b
        BY <1>5 DEF TakeBatch
    <2>2. batch[w] = {} /\ batch'[w] = b /\ wpc'[w] = "writing"
        BY <1>1, <1>2, <1>5, <2>1 DEF TakeBatch, TypeOK
    <2> QED
        BY <2>1, <2>2
<1>6. CASE WriteBatch(w)
    <2>1. wpc'[w] = "written" /\ batch'[w] = batch[w] /\ queue' = queue /\ UNCHANGED req
        BY <1>1, <1>6 DEF WriteBatch, TypeOK, brokerVars, apiVars
    <2>2. \A r \in batch[w] : Recorded(r)'
        BY <1>6, <2>1, BatchRecords DEF WriteBatch
    <2> QED
        BY <2>1, <2>2
<1>7. CASE Ack(w)
    <2>1. wpc[w] = "written" /\ wpc'[w] = "idle" /\ batch'[w] = {} /\ queue' = queue
        BY <1>1, <1>7 DEF Ack, TypeOK, brokerVars
    <2>2. \A r \in batch[w] : Recorded(r)'
        BY <1>2, <1>7, <2>1 DEF Ack, ledgerVars, apiVars, Recorded, HasPurchased
    <2> QED
        BY <2>1, <2>2
<1>8. CASE BatchAborts(w) \/ BatchThrows(w)
    BY <1>3, <1>8 DEF BatchAborts, BatchThrows
<1>9. CASE LoseSession(w)
    <2>1. /\ queue' = queue \cup batch[w]
          /\ \/ wpc'[w] = "down" /\ batch'[w] = {}
             \/ wpc'[w] = "orphan"
        BY <1>1, <1>9 DEF LoseSession, TypeOK
    <2> QED
        BY <2>1
<1>10. CASE OrphanEnds(w)
    <2>1. wpc[w] = "orphan" /\ wpc'[w] = "down" /\ batch'[w] = {} /\ queue' = queue
        BY <1>1, <1>10 DEF OrphanEnds, TypeOK, brokerVars
    <2> QED
        BY <2>1
<1> QED
    BY <1>4, <1>5, <1>6, <1>7, <1>8, <1>9, <1>10 DEF WorkerStep, WorkerFault

\* A step of a worker.
LEMMA WorkerKeepsFlow ==
    ASSUME FlowInv, NEW w \in Workers, WorkerStep(w) \/ WorkerFault(w)
    PROVE  OwedInv' /\ AccountInv'
<1> USE DEF FlowInv
<1>1. TypeOK
    BY DEF SafetyInv
<1>2. /\ UNCHANGED <<pc, req, sent>>
      /\ purchases \subseteq purchases'
      /\ queue' \subseteq queue \cup batch[w]
      /\ dead \subseteq dead' /\ dead' \subseteq dead \cup batch[w]
      /\ batch'[w] \subseteq batch[w] \cup queue
      /\ \A v \in Workers : v # w => wpc'[v] = wpc[v] /\ batch'[v] = batch[v]
    BY WorkerEffect
<1>3. SameBuyers
    BY <1>2 DEF SameBuyers
<1>4. OwedInv'
    <2>1. \A r \in batch[w] : r \in Requests /\ pc'[r] \in Told
        BY <1>1, <1>2 DEF OwedInv, CarriedInv, Pipe, TypeOK
    <2>2. \A p \in purchases' \ purchases : \E r \in Requests :
            p.saleId = req[r].saleId /\ p.email = req[r].email /\ pc'[r] \in Told
        BY <2>1, WorkerEffect
    <2>3. Pipe' \subseteq Pipe
        <3> SUFFICES ASSUME NEW v \in Workers PROVE batch'[v] \subseteq Pipe
            BY <1>2 DEF Pipe
        <3> QED
            BY <1>2 DEF Pipe
    <2> QED
        BY <1>1, <1>2, <1>3, <2>2, <2>3, OwedFrame
<1>5. AccountInv'
    <2>1. \A r \in Requests : Recorded(r) => Recorded(r)'
        BY <1>2, <1>3, RecordedStays
    <2>2. BatchesInv'
        <3> SUFFICES ASSUME NEW v \in Workers
                     PROVE  /\ wpc'[v] = "written" => \A r \in batch'[v] : Recorded(r)'
                            /\ wpc'[v] \in {"down", "idle"} => batch'[v] = {}
            BY DEF BatchesInv, Recorded
        <3>1. CASE v = w
            BY <3>1, WorkerLetsGo
        <3>2. CASE v # w
            <4>1. /\ wpc[v] = "written" => \A r \in batch[v] : Recorded(r)
                  /\ wpc[v] \in {"down", "idle"} => batch[v] = {}
                  /\ batch[v] \subseteq Requests
                BY <1>1 DEF AccountInv, BatchesInv, Recorded, TypeOK
            <4> QED
                BY <1>2, <2>1, <3>2, <4>1
        <3> QED
            BY <3>1, <3>2
    <2>3. ASSUME NEW r \in Requests, InFlight(r)
          PROVE  InFlight(r)' \/ Recorded(r)'
        <3>1. CASE r \in sent \cup dead
            BY <1>2, <3>1 DEF InFlight
        <3>2. CASE r \in queue
            BY <3>2, WorkerLetsGo DEF InFlight
        <3>3. CASE \E v \in Workers : r \in batch[v] /\ wpc[v] # "orphan"
            <4>1. PICK v \in Workers : r \in batch[v] /\ wpc[v] # "orphan"
                BY <3>3
            <4>2. CASE v = w
                BY <4>1, <4>2, WorkerLetsGo DEF InFlight
            <4>3. CASE v # w
                BY <1>2, <4>1, <4>3 DEF InFlight
            <4> QED
                BY <4>2, <4>3
        <3> QED
            BY <2>3, <3>1, <3>2, <3>3 DEF InFlight
    <2> QED
        BY <1>2, <1>3, <2>2, <2>3, AccountFrame
<1> QED
    BY <1>4, <1>5

\* Every step keeps the invariant.
LEMMA FlowStep == FlowInv /\ [Next]_vars => FlowInv'
<1> SUFFICES ASSUME FlowInv, [Next]_vars PROVE FlowInv'
    OBVIOUS
<1>1. SafetyInv'
    BY SafetyStep DEF FlowInv
<1>2. OwedInv' /\ AccountInv'
    <2>1. CASE UNCHANGED vars
        BY <2>1
           DEF FlowInv, OwedInv, CarriedInv, RefusedBuyerHasNoPurchase, Pipe, AccountInv,
               BatchesInv, SuccessAccountedFor, InFlight, HasPurchased, vars, ledgerVars,
               apiVars, brokerVars, workerVars
    <2> QED
        BY <2>1, RequestKeepsFlow, WorkerKeepsFlow, RestKeepsFlow DEF Next
<1> QED
    BY <1>1, <1>2 DEF FlowInv

---------------------------------------------------------------------------
\* The invariant of answers, messages and rows, under every fault.
THEOREM FlowInvariant == Spec => []FlowInv
<1>1. Init => FlowInv
    BY FlowInitially
<1>2. FlowInv /\ [Next]_vars => FlowInv'
    BY FlowStep
<1> QED
    BY <1>1, <1>2, PTL DEF Spec

\* Unless the socket loses what it held, a purchase the client was told of is
\* in Postgres, on its way there or dead-lettered: through worker crashes,
\* redeliveries, retries, writes that commit and report a failure, and a lost
\* channel whose write commits next to the redelivery of its messages.
THEOREM SuccessIsAccountedFor == Spec => []SuccessAccountedFor
<1>1. FlowInv => SuccessAccountedFor
    BY DEF FlowInv, AccountInv
<1> QED
    BY <1>1, FlowInvariant, PTL

\* Every row belongs to a request that was not refused: no "sold out", "not
\* active", "already purchased" or 404 is followed by a purchase of its own.
THEOREM RefusedIsNotRecorded == Spec => []RefusedBuyerHasNoPurchase
<1>1. FlowInv => RefusedBuyerHasNoPurchase
    BY DEF FlowInv, OwedInv
<1> QED
    BY <1>1, FlowInvariant, PTL

=============================================================================
