----------------------------- MODULE Purchases -----------------------------
(***************************************************************************)
(* The purchase path of the flash sale from the HTTP request to the row in *)
(* Postgres: API replicas (apps/api), the Redis gate (SaleGate), the       *)
(* RabbitMQ queue of purchase writes (packages/queue), the workers that    *)
(* drain it (apps/worker), the Postgres ledger (SaleLedger) and the        *)
(* operator's redis:warm script.                                           *)
(*                                                                         *)
(* A request publishes at most one message, whose content is the request's *)
(* sale, address and reservation instant; so a message is represented by   *)
(* its request, and the places a message can be are sets of requests.  The *)
(* order of the queue is left open: publishers on several replicas and     *)
(* redeliveries mix it, and the batch writer does not depend on it.        *)
(*                                                                         *)
(* What can go wrong around the code is enabled by Faults and bounded by   *)
(* MaxFaults:                                                              *)
(*   "redis"        a command is refused, or runs and its reply is lost    *)
(*   "flush"        keys disappear page by page (flushSaleKeys)            *)
(*   "warm"         an operator runs redis:warm                            *)
(*   "broker"       the API's channel goes down                            *)
(*   "lost_publish" what the socket still held is lost with the channel    *)
(*   "worker"       a worker crashes or loses its channel                  *)
(*   "postgres"     a transaction fails, or commits and reports a failure  *)
(*   "api"          a request dies half way                                *)
(*   "cancel"       an operator sets cancelled_at                          *)
(***************************************************************************)
EXTENDS SaleGate, SaleLedger

CONSTANTS
    Requests,        \* purchase calls
    Workers,         \* worker processes
    Listed,          \* the sales that have a row
    WarmedAtStart,   \* the sales warmed before the first request
    Prefetch,        \* messages a worker holds unacknowledged
    MaxAttempts,     \* attempts at one batch
    Faults, MaxFaults,
    MaxClock         \* bound on the clock

FaultKinds == {"redis", "flush", "warm", "broker", "lost_publish", "worker",
               "postgres", "api", "cancel"}

ASSUME FlowConstants ==
    /\ IsFiniteSet(Requests)
    /\ Listed \subseteq Sales
    /\ WarmedAtStart \subseteq Listed
    /\ Prefetch \in Nat \ {0}
    /\ MaxAttempts \in Nat \ {0}
    /\ Faults \subseteq FaultKinds
    /\ MaxFaults \in Nat
    /\ MaxClock \in Nat

VARIABLES
    clock, faults,
    pc, req,                   \* requests inside the API
    channelUp,                 \* QueueConnection.getChannel() is not null
    sent,                      \* written to the API's socket
    queue, dead,               \* on the broker: ready, and dead-lettered
    wpc, batch, attempt,       \* the drain loop of each worker
    warmTodo, warmRow, warmAt, warmEmails   \* the redis:warm script

envVars == <<clock, faults>>
apiVars == <<pc, req>>
brokerVars == <<channelUp, sent, queue, dead>>
workerVars == <<wpc, batch, attempt>>
warmVars == <<warmTodo, warmRow, warmAt, warmEmails>>
vars == <<gateVars, ledgerVars, envVars, apiVars, brokerVars, workerVars, warmVars>>

\* What the client may be answered: the outcomes of PurchaseResult, a 404
\* and a 500.
Answers == {"success", "already_purchased", "sold_out", "sale_not_active",
            "not_found", "error"}

\* Where a request is: in the script's first call, in the client's bounded
\* resend of it, about to publish, waiting for "drain", in recordPurchase, in
\* writePurchase, waiting for a "drain" that cannot come, or answered.
Working == {"reserve", "resend", "publish", "drain", "lookup", "write"}
RequestPCs == {"idle", "hung"} \cup Working \cup Answers

WorkerPCs == {"down", "idle", "writing", "written", "orphan"}

Request == [saleId : Sales, email : Emails, now : Nat]

TypeOK ==
    /\ GateTypeOK
    /\ LedgerTypeOK
    /\ clock \in Nat
    /\ faults \in Nat
    /\ pc \in [Requests -> RequestPCs]
    /\ req \in [Requests -> Request]
    /\ channelUp \in BOOLEAN
    /\ sent \subseteq Requests
    /\ queue \subseteq Requests
    /\ dead \subseteq Requests
    /\ wpc \in [Workers -> WorkerPCs]
    /\ batch \in [Workers -> SUBSET Requests]
    /\ attempt \in [Workers -> 1..MaxAttempts]
    /\ warmTodo \subseteq Sales
    /\ warmRow \in [Sales -> Nat]
    /\ warmAt \subseteq Sales
    /\ warmEmails \subseteq Emails

Init ==
    /\ LedgerInit
    /\ stock = [s \in Sales |-> IF s \in WarmedAtStart THEN remaining[s] ELSE NoKey]
    /\ meta = [s \in Sales |-> IF s \in WarmedAtStart THEN "0" ELSE "absent"]
    /\ buyers = [s \in Sales |->
                    IF s \in WarmedAtStart
                    THEN {normalizeEmail[p.email] : p \in RowsOf(purchases, s)}
                    ELSE {}]
    /\ clock = 0
    /\ faults = 0
    /\ pc = [r \in Requests |-> "idle"]
    /\ req \in [Requests -> [saleId : Sales, email : Emails, now : {0}]]
    /\ channelUp = TRUE
    /\ sent = {}
    /\ queue = {}
    /\ dead = {}
    /\ wpc = [w \in Workers |-> "down"]
    /\ batch = [w \in Workers |-> {}]
    /\ attempt = [w \in Workers |-> 1]
    /\ warmTodo = {}
    /\ warmRow = [s \in Sales |-> 0]
    /\ warmAt = {}
    /\ warmEmails = {}

\* A step the environment takes against the code, at most MaxFaults of them.
Fault(kind) ==
    /\ kind \in Faults
    /\ faults < MaxFaults
    /\ faults' = faults + 1
    /\ UNCHANGED clock

---------------------------------------------------------------------------
(* The API: PurchasesService.purchase and what it calls.                   *)

Goto(r, label) == pc' = [pc EXCEPT ![r] = label]

\* POST /sales/:id/purchase arrives; the instant of the whole attempt is read.
Purchase(r) ==
    /\ pc[r] = "idle"
    /\ Goto(r, "reserve")
    /\ req' = [req EXCEPT ![r].now = clock]
    /\ UNCHANGED <<gateVars, ledgerVars, envVars, brokerVars, workerVars, warmVars>>

\* A sold-out answer of the gate is not trusted and tried against Postgres.
afterReservationWrongFallback(code) ==
    CASE code = "reserved" -> "publish"
      [] code \in {"not_warmed", "sold_out"} -> "lookup"
      [] OTHER -> code

\* The switch over the reservation: a rejection is the answer, a reservation
\* is published, anything else goes to the Postgres-only path.
afterReservation(code) ==
    CASE code = "reserved" -> "publish"
      [] code = "not_warmed" -> "lookup"
      [] OTHER -> code

runScript(r) == reservePurchase(req[r].saleId, req[r].email, req[r].now)

Reserve(r) ==
    /\ pc[r] \in {"reserve", "resend"}
    /\ runScript(r)
    /\ Goto(r, afterReservation(reservationCode(req[r].saleId, req[r].email, req[r].now)))
    /\ UNCHANGED <<ledgerVars, envVars, req, brokerVars, workerVars, warmVars>>

\* The connection drops after the script ran and before its reply: the client
\* sends the command once more, then gives up (maxRetriesPerRequest: 1), which
\* reserve() turns into null.
ReplyLost(r) ==
    /\ Fault("redis")
    /\ pc[r] \in {"reserve", "resend"}
    /\ runScript(r)
    /\ Goto(r, IF pc[r] = "reserve" THEN "resend" ELSE "lookup")
    /\ UNCHANGED <<ledgerVars, req, brokerVars, workerVars, warmVars>>

\* The client is not "ready", or rejects the command before the script ran.
GateUnavailable(r) ==
    /\ Fault("redis")
    /\ pc[r] \in {"reserve", "resend"}
    /\ Goto(r, "lookup")
    /\ UNCHANGED <<gateVars, ledgerVars, req, brokerVars, workerVars, warmVars>>

\* sendToQueue on the live channel: done at once, or told to wait for "drain".
\* The channel is not a confirm channel, so nothing waits for the broker.
Publish(r) ==
    /\ pc[r] = "publish"
    /\ channelUp
    /\ sent' = sent \cup {r}
    /\ \E label \in {"success", "drain"} : Goto(r, label)
    /\ UNCHANGED <<gateVars, ledgerVars, envVars, req, channelUp, queue, dead,
                   workerVars, warmVars>>

Drained(r) ==
    /\ pc[r] = "drain"
    /\ channelUp
    /\ Goto(r, "success")
    /\ UNCHANGED <<gateVars, ledgerVars, envVars, req, brokerVars, workerVars, warmVars>>

\* publish() returns false: the reserved purchase is written directly.
PublishRefused(r) ==
    /\ pc[r] = "publish"
    /\ ~channelUp
    /\ Goto(r, "write")
    /\ UNCHANGED <<gateVars, ledgerVars, envVars, req, brokerVars, workerVars, warmVars>>

\* recordPurchase: the row may come from a replica's cache, filled before the
\* sale was cancelled; the window is tested against a new reading of the clock.
recordPurchase(r) ==
    /\ pc[r] = "lookup"
    /\ \E isCancelled \in {FALSE, cancelled[req[r].saleId]} :
        Goto(r, IF req[r].saleId \notin Listed THEN "not_found"
                ELSE IF ~isSaleOpen(req[r].saleId, isCancelled, clock) THEN "sale_not_active"
                ELSE "write")
    /\ UNCHANGED <<gateVars, ledgerVars, envVars, req, brokerVars, workerVars, warmVars>>

Write(r) ==
    /\ pc[r] = "write"
    /\ writePurchase(req[r].saleId, req[r].email, clock)
    /\ Goto(r, writePurchaseResult(req[r].saleId, req[r].email, clock))
    /\ UNCHANGED <<gateVars, envVars, req, brokerVars, workerVars, warmVars>>

\* The transaction fails for a reason writePurchase does not know, possibly
\* after its commit: the error is thrown on.
WriteThrows(r) ==
    /\ Fault("postgres")
    /\ pc[r] = "write"
    /\ \/ writePurchase(req[r].saleId, req[r].email, clock)
       \/ UNCHANGED ledgerVars
    /\ Goto(r, "error")
    /\ UNCHANGED <<gateVars, req, brokerVars, workerVars, warmVars>>

RequestDies(r) ==
    /\ Fault("api")
    /\ pc[r] \in Working
    /\ Goto(r, "error")
    /\ UNCHANGED <<gateVars, ledgerVars, req, brokerVars, workerVars, warmVars>>

---------------------------------------------------------------------------
(* The broker, as the API and the workers see it.                          *)

BrokerReceive(r) ==
    /\ r \in sent
    /\ sent' = sent \ {r}
    /\ queue' = queue \cup {r}
    /\ UNCHANGED <<gateVars, ledgerVars, envVars, apiVars, channelUp, dead,
                   workerVars, warmVars>>

\* A request waiting for "drain" on the lost channel waits for ever: the
\* reconnected channel is another emitter.
ChannelDown ==
    /\ Fault("broker")
    /\ channelUp
    /\ sent = {} \/ "lost_publish" \in Faults
    /\ channelUp' = FALSE
    /\ sent' = {}
    /\ pc' = [r \in Requests |-> IF pc[r] = "drain" THEN "hung" ELSE pc[r]]
    /\ UNCHANGED <<gateVars, ledgerVars, req, queue, dead, workerVars, warmVars>>

ChannelUp ==
    /\ ~channelUp
    /\ channelUp' = TRUE
    /\ UNCHANGED <<gateVars, ledgerVars, envVars, apiVars, sent, queue, dead,
                   workerVars, warmVars>>

---------------------------------------------------------------------------
(* The worker: drainPurchaseWrites around writePurchaseBatch.  Messages a  *)
(* worker has prefetched and not yet put in a batch count as queued.       *)

entriesOf(b) ==
    {[saleId |-> req[r].saleId, email |-> req[r].email, purchasedAt |-> req[r].now] :
        r \in b}

WorkerStart(w) ==
    /\ wpc[w] = "down"
    /\ wpc' = [wpc EXCEPT ![w] = "idle"]
    /\ UNCHANGED <<gateVars, ledgerVars, envVars, apiVars, brokerVars, batch,
                   attempt, warmVars>>

TakeBatch(w) ==
    /\ wpc[w] = "idle"
    /\ \E b \in SUBSET queue :
        /\ b # {}
        /\ Cardinality(b) <= Prefetch
        /\ batch' = [batch EXCEPT ![w] = b]
        /\ queue' = queue \ b
    /\ wpc' = [wpc EXCEPT ![w] = "writing"]
    /\ attempt' = [attempt EXCEPT ![w] = 1]
    /\ UNCHANGED <<gateVars, ledgerVars, envVars, apiVars, channelUp, sent, dead, warmVars>>

WriteBatch(w) ==
    /\ wpc[w] = "writing"
    /\ writePurchaseBatch(entriesOf(batch[w]))
    /\ wpc' = [wpc EXCEPT ![w] = "written"]
    /\ UNCHANGED <<gateVars, envVars, apiVars, brokerVars, batch, attempt, warmVars>>

\* Acknowledged before the write is known to have committed.
AckWrongOrder(w) ==
    /\ wpc[w] \in {"writing", "written"}
    /\ wpc' = [wpc EXCEPT ![w] = "idle"]
    /\ batch' = [batch EXCEPT ![w] = {}]
    /\ UNCHANGED <<gateVars, ledgerVars, envVars, apiVars, brokerVars, attempt, warmVars>>

Ack(w) ==
    /\ wpc[w] = "written"
    /\ wpc' = [wpc EXCEPT ![w] = "idle"]
    /\ batch' = [batch EXCEPT ![w] = {}]
    /\ UNCHANGED <<gateVars, ledgerVars, envVars, apiVars, brokerVars, attempt, warmVars>>

\* One attempt too many.
attemptFailedWrongBound(w) ==
    IF attempt[w] <= MaxAttempts
    THEN /\ attempt' = [attempt EXCEPT ![w] = @ + 1]
         /\ UNCHANGED <<wpc, batch, dead>>
    ELSE /\ dead' = dead \cup batch[w]
         /\ batch' = [batch EXCEPT ![w] = {}]
         /\ wpc' = [wpc EXCEPT ![w] = "idle"]
         /\ UNCHANGED attempt

\* The first failure already gives the batch up.
attemptFailedWrongRetry(w) ==
    /\ dead' = dead \cup batch[w]
    /\ batch' = [batch EXCEPT ![w] = {}]
    /\ wpc' = [wpc EXCEPT ![w] = "idle"]
    /\ UNCHANGED attempt

\* writeBatch rejected: another attempt, or the whole batch is nacked without
\* requeue and the broker dead-letters it.
attemptFailed(w) ==
    IF attempt[w] < MaxAttempts
    THEN /\ attempt' = [attempt EXCEPT ![w] = @ + 1]
         /\ UNCHANGED <<wpc, batch, dead>>
    ELSE /\ dead' = dead \cup batch[w]
         /\ batch' = [batch EXCEPT ![w] = {}]
         /\ wpc' = [wpc EXCEPT ![w] = "idle"]
         /\ UNCHANGED attempt

BatchAborts(w) ==
    /\ wpc[w] = "writing"
    /\ BatchMustAbort(entriesOf(batch[w]))
    /\ attemptFailed(w)
    /\ UNCHANGED <<gateVars, ledgerVars, envVars, apiVars, channelUp, sent, queue, warmVars>>

BatchThrows(w) ==
    /\ Fault("postgres")
    /\ wpc[w] = "writing"
    /\ \/ writePurchaseBatch(entriesOf(batch[w]))
       \/ UNCHANGED ledgerVars
    /\ attemptFailed(w)
    /\ UNCHANGED <<gateVars, apiVars, channelUp, sent, queue, warmVars>>

\* The process dies, or only its channel does.  Either way the broker puts
\* what was not acknowledged back in the queue; in the second case the write
\* under way may still commit, next to a redelivery of the same messages.
LoseSession(w) ==
    /\ Fault("worker")
    /\ wpc[w] \in {"idle", "writing", "written"}
    /\ queue' = queue \cup batch[w]
    /\ \/ /\ wpc' = [wpc EXCEPT ![w] = "down"]
          /\ batch' = [batch EXCEPT ![w] = {}]
       \/ /\ wpc[w] = "writing"
          /\ wpc' = [wpc EXCEPT ![w] = "orphan"]
          /\ UNCHANGED batch
    /\ UNCHANGED <<gateVars, ledgerVars, apiVars, channelUp, sent, dead, attempt, warmVars>>

\* Its ack throws on the closed channel, so the process ends either way.
OrphanEnds(w) ==
    /\ wpc[w] = "orphan"
    /\ \/ writePurchaseBatch(entriesOf(batch[w]))
       \/ UNCHANGED ledgerVars
    /\ wpc' = [wpc EXCEPT ![w] = "down"]
    /\ batch' = [batch EXCEPT ![w] = {}]
    /\ UNCHANGED <<gateVars, envVars, apiVars, brokerVars, attempt, warmVars>>

---------------------------------------------------------------------------
(* The operator: redis:warm reads the sale rows, then for each sale reads  *)
(* the buyers and only then replaces its keys; flushes; cancellation.      *)

WarmSelect ==
    /\ Fault("warm")
    /\ warmTodo = {} /\ warmAt = {}
    /\ warmTodo' = {s \in Listed : ~cancelled[s] /\ EndsAt[s] > clock}
    /\ warmRow' = remaining
    /\ UNCHANGED <<gateVars, ledgerVars, apiVars, brokerVars, workerVars, warmAt, warmEmails>>

WarmBuyers(s) ==
    /\ s \in warmTodo
    /\ warmAt = {}
    /\ warmAt' = {s}
    /\ warmTodo' = warmTodo \ {s}
    /\ warmEmails' = {p.email : p \in RowsOf(purchases, s)}
    /\ UNCHANGED <<gateVars, ledgerVars, envVars, apiVars, brokerVars, workerVars, warmRow>>

WarmSync(s) ==
    /\ s \in warmAt
    /\ syncSale(s, warmRow[s], FALSE, warmEmails)
    /\ warmAt' = {}
    /\ UNCHANGED <<ledgerVars, envVars, apiVars, brokerVars, workerVars,
                   warmTodo, warmRow, warmEmails>>

FlushPage ==
    /\ Fault("flush")
    /\ \E gone \in SUBSET (Sales \X {"stock", "meta", "buyers"}) : flushPage(gone)
    /\ UNCHANGED <<ledgerVars, apiVars, brokerVars, workerVars, warmVars>>

Cancel(s) ==
    /\ Fault("cancel")
    /\ ~cancelled[s]
    /\ cancelled' = [cancelled EXCEPT ![s] = TRUE]
    /\ UNCHANGED <<gateVars, remaining, purchases, apiVars, brokerVars, workerVars, warmVars>>

Tick ==
    /\ clock < MaxClock
    /\ clock' = clock + 1
    /\ UNCHANGED <<gateVars, ledgerVars, faults, apiVars, brokerVars, workerVars, warmVars>>

---------------------------------------------------------------------------
RequestStep(r) ==
    \/ Purchase(r) \/ Reserve(r) \/ Publish(r) \/ Drained(r) \/ PublishRefused(r)
    \/ recordPurchase(r) \/ Write(r)

RequestFault(r) ==
    \/ ReplyLost(r) \/ GateUnavailable(r) \/ WriteThrows(r) \/ RequestDies(r)

WorkerStep(w) ==
    \/ WorkerStart(w) \/ TakeBatch(w) \/ WriteBatch(w) \/ Ack(w) \/ BatchAborts(w)
    \/ OrphanEnds(w)

WorkerFault(w) == BatchThrows(w) \/ LoseSession(w)

OperatorStep ==
    \/ WarmSelect
    \/ \E s \in Sales : WarmBuyers(s) \/ WarmSync(s) \/ Cancel(s)
    \/ FlushPage

Next ==
    \/ \E r \in Requests : RequestStep(r) \/ RequestFault(r) \/ BrokerReceive(r)
    \/ \E w \in Workers : WorkerStep(w) \/ WorkerFault(w)
    \/ ChannelDown \/ ChannelUp
    \/ OperatorStep
    \/ Tick

Spec == Init /\ [][Next]_vars

\* What runs by itself: the event loop of the API finishes what it started,
\* the socket drains to the broker, the client reconnects with back-off, and
\* a worker restarts (restartPolicy) and keeps consuming.  No fairness is
\* assumed of arrivals, faults, the operator or the clock.
Fairness ==
    /\ \A r \in Requests :
        /\ WF_vars(pc[r] # "idle" /\ RequestStep(r))
        /\ WF_vars(BrokerReceive(r))
    /\ \A w \in Workers : WF_vars(WorkerStep(w))
    /\ WF_vars(ChannelUp)

FairSpec == Spec /\ Fairness

---------------------------------------------------------------------------
(* Properties under every fault.  StockConservation, NeverOversold and     *)
(* OnePurchasePerBuyer of SaleLedger belong here too.                      *)

\* Where the write of a request still is, if it is on its way.
InFlight(r) ==
    \/ r \in sent \cup queue \cup dead
    \/ \E w \in Workers : r \in batch[w] /\ wpc[w] # "orphan"

\* A purchase the client was told succeeded is in Postgres, on its way there
\* or dead-lettered, through worker crashes, redeliveries, transactions that
\* commit and report a failure, and two workers holding one message.
SuccessAccountedFor ==
    "lost_publish" \notin Faults =>
        \A r \in Requests :
            pc[r] \in {"success", "drain", "hung"} =>
                HasPurchased(req[r].saleId, req[r].email) \/ InFlight(r)

\* Nobody who was refused ends up with a purchase: each row of the table is
\* owed to a request that was told "success", got no answer, or a 500.
RefusedBuyerHasNoPurchase ==
    \A p \in purchases \ InitialRows :
        \E r \in Requests :
            /\ req[r].saleId = p.saleId
            /\ req[r].email = p.email
            /\ pc[r] \in {"success", "drain", "hung", "error"}

---------------------------------------------------------------------------
(* Properties while the gate is healthy: every sale was warmed before its  *)
(* first request, no Redis command fails and nobody touches the keys.      *)

GateHealthy ==
    /\ WarmedAtStart = Sales
    /\ Faults \cap {"redis", "flush", "warm"} = {}

RecordedBuyers(s) == {normalizeEmail[p.email] : p \in RowsOf(purchases, s)}

\* What Redis has left plus what it has reserved and Postgres has not yet
\* recorded is what Postgres has left, at every step of every interleaving.
GateAgreesWithLedger ==
    \A s \in Sales :
        /\ RecordedBuyers(s) \subseteq buyers[s]
        /\ stock[s] + Cardinality(buyers[s] \ RecordedBuyers(s)) = remaining[s]

\* "Redis already guaranteed this stock was available before the message was
\* published": no batch a worker writes has to abort.
BatchNeverAborts ==
    \A w \in Workers :
        wpc[w] \in {"writing", "orphan"} => ~BatchMustAbort(entriesOf(batch[w]))

\* A buyer with a reservation who is sent to the direct write because the
\* broker is away finds a unit left and no purchase of his own in the way.
ReservedIsNeverRefused ==
    [][\A r \in Requests : pc[r] = "write" => pc'[r] \notin {"sold_out", "already_purchased"}]_vars

\* The purchase path keeps the promise of a sale: a reservation is the
\* promise, a row is the record.
Promised == INSTANCE SalePromise WITH
    Buyers <- Emails,
    Capacity <- [s \in Sales |-> TotalOf(s)],
    InitiallySold <- [s \in Sales |-> {normalizeEmail[p.email] : p \in RowsOf(InitialRows, s)}],
    promised <- buyers,
    recorded <- [s \in Sales |-> RecordedBuyers(s)]

PromiseKept == Promised!PromiseSpec

\* Every purchase the client was told succeeded is eventually in Postgres.
SuccessIsRecorded ==
    \A r \in Requests :
        pc[r] = "success" ~> HasPurchased(req[r].saleId, req[r].email)

---------------------------------------------------------------------------
(* What a document or a comment of the repository says and the code does   *)
(* not keep; BatchNeverAborts is another once the gate may fail.           *)

\* "Fall back to the synchronous write rather than lose a purchase Redis
\* already committed to": a purchase the client was told succeeded is in
\* Postgres, on its way there or dead-lettered.
SuccessNeverLost ==
    \A r \in Requests :
        pc[r] = "success" => HasPurchased(req[r].saleId, req[r].email) \/ InFlight(r)

\* publish() is true or false, never pending for good: a request that waits
\* for the socket to drain is eventually answered.
PublishSettles == \A r \in Requests : pc[r] = "drain" ~> pc[r] \in Answers

\* The gate of a purchase attempt is that the window is open and the sale has
\* not been cancelled: nothing of a cancelled sale is reserved.
CancelledSaleStopsSelling ==
    [][\A s \in Sales : cancelled[s] => buyers'[s] \subseteq buyers[s]]_vars

=============================================================================
