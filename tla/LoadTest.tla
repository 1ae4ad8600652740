------------------------------ MODULE LoadTest ------------------------------
(***************************************************************************)
(* A run of the load-test suite (packages/load-test) against the system:   *)
(* each test gets a fresh sale, k6 buys from it, the runner waits for the  *)
(* queue to drain, verifies the database and deletes what it made, while   *)
(* the API and a worker go on with what they have.  The purchase path is   *)
(* the gate and the ledger with the queue as a set of messages and one     *)
(* worker; its own faults are studied in Purchases.  A message is the row  *)
(* it asks for.  A sale's window is wide enough for any run, so one        *)
(* instant, Now, stands for all of them.  A rejected promise ends the      *)
(* runner; only the one the runner brings about itself is modelled, and    *)
(* what the others leave behind is in Init.                                *)
(***************************************************************************)
EXTENDS SaleGate, SaleLedger, CapacityStages

CONSTANTS
    Now,
    Suites,         \* the sequences of tests a command line can ask for
    Profile,        \* [test name -> stock]
    Leftover,       \* the sale of an earlier run that was cut short
    NoSale,
    Prefetch,
    MaxRequests,    \* bound on the purchases of one test
    MaxLate,        \* bound on the requests k6 gives up on at a time
    MaxPolls        \* polls of the drain barrier before its timeout

ASSUME LoadTestConstants ==
    /\ Now \in Nat /\ \A s \in Sales : isSaleOpen(s, FALSE, Now)
    /\ \A tests \in Suites :
        /\ tests \in Seq(STRING) /\ tests # <<>>
        /\ \A i \in DOMAIN tests : Profile[tests[i]] \in Nat
        /\ Len(tests) < Cardinality(Sales)
    /\ Leftover \in Sales /\ NoSale \notin Sales
    /\ \A p \in InitialRows : p.saleId = Leftover
    /\ Prefetch \in Nat \ {0}
    /\ MaxRequests \in Nat /\ MaxLate \in Nat /\ MaxPolls \in Nat

VARIABLES
    pc,         \* what the runner does next
    suite, at,  \* the tests, and the number of the current one
    keep,
    outcomes,   \* of the tests so far
    sale,       \* of the current test
    exists,     \* load-test sales in the database
    used,       \* sale ids ever given out
    requests, k6Ok,
    polls,
    snapshot,   \* of verify's transaction
    verified,   \* "none", "ok" or "violation"
    late,       \* requests k6 gave up on that the API may still serve
    queue, held \* messages in the queue, and with the worker

runnerVars == <<pc, suite, at, keep, outcomes, sale, used, requests, k6Ok, polls,
                snapshot, verified>>
systemVars == <<late, queue, held>>
loadVars == <<gateVars, ledgerVars, stageVars, runnerVars, exists, systemVars>>

NoSnapshot == [remaining |-> 0, purchases |-> {}]
Messages == [saleId : Sales, email : Emails, purchasedAt : {Now}]

TypeOK ==
    /\ GateTypeOK
    /\ LedgerTypeOK
    /\ StagesTypeOK
    /\ pc \in {"prepare", "prepare_sales", "create", "warm", "k6", "drain", "settle", "verify",
               "compare", "cleanup", "cleanup_sales", "unwarm", "record",
               "green", "red", "crashed"}
    /\ suite \in Suites /\ at \in 1..(Len(suite) + 1)
    /\ keep \in BOOLEAN /\ outcomes \in Seq(BOOLEAN) /\ Len(outcomes) <= at
    /\ sale \in Sales \cup {NoSale}
    /\ exists \subseteq used /\ used \subseteq Sales
    /\ requests \in 0..MaxRequests /\ k6Ok \in BOOLEAN
    /\ polls \in 0..MaxPolls
    /\ verified \in {"none", "ok", "violation"}
    /\ late \subseteq Sales \X Emails
    /\ queue \subseteq Messages /\ held \subseteq Messages
    /\ Cardinality(held) <= Prefetch

\* An earlier run may have left its sale, with its rows and with messages for
\* it on the way.
Init ==
    /\ stock = [s \in Sales |-> NoKey]
    /\ meta = [s \in Sales |-> "absent"]
    /\ buyers = [s \in Sales |-> {}]
    /\ LedgerInit
    /\ StagesInit
    /\ pc = "prepare"
    /\ suite \in Suites /\ at = 1 /\ keep \in BOOLEAN /\ outcomes = <<>>
    /\ sale = NoSale
    /\ exists \in {{}, {Leftover}} /\ used = {Leftover}
    /\ \A p \in purchases : p.saleId \in exists      \* the foreign key
    /\ requests = 0 /\ k6Ok = TRUE /\ polls = 0
    /\ snapshot = NoSnapshot /\ verified = "none"
    /\ late = {} /\ held = {}
    /\ queue \in {{}, {m \in Messages : m.saleId = Leftover}}

test == suite[at]

---------------------------------------------------------------------------
(* The runner.                                                             *)

Runner(next) ==
    /\ pc' = next
    /\ UNCHANGED <<suite, at, keep, used, outcomes, systemVars>>

\* deleteLoadTestRows, first part: the purchases of every load-test sale.
DeletePurchases(from, to) ==
    /\ pc = from
    /\ purchases' = {p \in purchases : p.saleId \notin exists}
    /\ Runner(to)
    /\ UNCHANGED <<remaining, cancelled, exists, gateVars, stageVars,
                   sale, requests, k6Ok, polls, snapshot, verified>>

NoSales ==
    /\ exists' = {}
    /\ remaining' = [s \in Sales |-> 0]

\* A refused delete is logged and the script goes on.
DeleteSalesWrongCatch(from, to) ==
    /\ pc = from
    /\ IF \E p \in purchases : p.saleId \in exists
       THEN UNCHANGED <<exists, remaining>>
       ELSE NoSales
    /\ Runner(to)
    /\ UNCHANGED <<purchases, cancelled, gateVars, stageVars,
                   sale, requests, k6Ok, polls, snapshot, verified>>

\* Second part: the sales (and their product).  A purchase written since the
\* first part refers to one of them, and the foreign key refuses the delete.
DeleteSales(from, to) ==
    /\ pc = from
    /\ IF \E p \in purchases : p.saleId \in exists
       THEN Runner("crashed") /\ UNCHANGED <<exists, remaining>>
       ELSE Runner(to) /\ NoSales
    /\ UNCHANGED <<purchases, cancelled, gateVars, stageVars,
                   sale, requests, k6Ok, polls, snapshot, verified>>

\* The tagged sale of the run before is set back instead of replaced.
freshSaleWrongReuse == IF sale # NoSale THEN sale ELSE Leftover

freshSale == CHOOSE s \in Sales : s \notin used

\* createLoadTestSale after its clean slate.
CreateSale ==
    /\ pc = "create"
    /\ sale' = freshSale
    /\ used' = used \cup {sale'}
    /\ exists' = exists \cup {sale'}
    /\ remaining' = [remaining EXCEPT ![sale'] = Profile[test]]
    /\ pc' = "warm"
    /\ UNCHANGED <<purchases, cancelled, gateVars, stageVars, suite, at, keep, outcomes,
                   requests, k6Ok, polls, snapshot, verified, systemVars>>

\* warmIntoRedis: a Redis that cannot be reached only costs a warning.
WarmIntoRedis ==
    /\ pc = "warm"
    /\ Runner("k6")
    /\ syncSale(sale, Profile[test], FALSE, {}) \/ UNCHANGED gateVars
    /\ StagesReset
    /\ UNCHANGED <<ledgerVars, exists, sale, requests, k6Ok, polls, snapshot, verified>>

\* k6 is done: with the stages of its executor, or with its iterations.  Its
\* thresholds say what it exits with.
K6Ends ==
    /\ pc = "k6"
    /\ test = "capacity-ramp" => ScheduleOver
    /\ Runner("drain")
    /\ k6Ok' \in BOOLEAN
    /\ requests' = 0
    /\ StagesReset
    /\ UNCHANGED <<ledgerVars, gateVars, exists, sale, polls, snapshot, verified>>

\* The loop waits for the queue however long it takes.
DrainPollWrongTimeout ==
    /\ pc = "drain"
    /\ IF queue = {} THEN Runner("settle") ELSE Runner("drain")
    /\ UNCHANGED <<ledgerVars, gateVars, stageVars, exists, polls,
                   sale, requests, k6Ok, snapshot, verified>>

\* waitForQueueDrain: one round of the loop.  Only the messages in the queue
\* count, not those a worker holds.
DrainPoll ==
    /\ pc = "drain"
    /\ IF polls = MaxPolls THEN Runner("verify") /\ polls' = 0
       ELSE IF queue = {} THEN Runner("settle") /\ UNCHANGED polls
       ELSE Runner("drain") /\ polls' = polls + 1
    /\ UNCHANGED <<ledgerVars, gateVars, stageVars, exists,
                   sale, requests, k6Ok, snapshot, verified>>

\* The second look, after SETTLE_MS.
DrainSettle ==
    /\ pc = "settle"
    /\ IF queue = {} THEN Runner("verify") /\ polls' = 0
       ELSE Runner("drain") /\ polls' = polls + 1
    /\ UNCHANGED <<ledgerVars, gateVars, stageVars, exists,
                   sale, requests, k6Ok, snapshot, verified>>

\* RabbitMQ cannot be reached: the barrier is skipped.
DrainSkipped ==
    /\ pc \in {"drain", "settle"}
    /\ Runner("verify")
    /\ polls' = 0
    /\ UNCHANGED <<ledgerVars, gateVars, stageVars, exists,
                   sale, requests, k6Ok, snapshot, verified>>

\* verify reads the sale; its transaction sees the database as of now.
VerifySale ==
    /\ pc = "verify"
    /\ snapshot' = [remaining |-> remaining[sale], purchases |-> RowsOf(purchases, sale)]
    /\ Runner("compare")
    /\ UNCHANGED <<ledgerVars, gateVars, stageVars, exists, sale, requests, k6Ok, polls, verified>>

checks(left, rows) ==
    /\ left >= 0
    /\ Profile[test] - left = Cardinality(rows)
    /\ Cardinality({p.email : p \in rows}) = Cardinality(rows)
    /\ left = 0 => Cardinality(rows) = Profile[test]

\* Each statement sees what is committed when it starts.
VerifyPurchasesWrongIsolation ==
    /\ pc = "compare"
    /\ verified' = IF checks(snapshot.remaining, RowsOf(purchases, sale)) THEN "ok" ELSE "violation"
    /\ Runner(IF keep THEN "record" ELSE "cleanup")
    /\ snapshot' = NoSnapshot
    /\ UNCHANGED <<ledgerVars, gateVars, stageVars, exists, sale, requests, k6Ok, polls>>

\* verify reads the purchases and compares.
VerifyPurchases ==
    /\ pc = "compare"
    /\ verified' = IF checks(snapshot.remaining, snapshot.purchases) THEN "ok" ELSE "violation"
    /\ Runner(IF keep THEN "record" ELSE "cleanup")
    /\ snapshot' = NoSnapshot
    /\ UNCHANGED <<ledgerVars, gateVars, stageVars, exists, sale, requests, k6Ok, polls>>

\* cleanup's removeFromRedis, best effort.
RemoveFromRedis ==
    /\ pc = "unwarm"
    /\ Runner("record")
    /\ flushPage({sale} \X {"stock", "meta", "buyers"}) \/ UNCHANGED gateVars
    /\ UNCHANGED <<ledgerVars, stageVars, exists, sale, requests, k6Ok, polls, snapshot, verified>>

\* The test is over.  A failed smoke test ends the suite.
RecordOutcome ==
    /\ pc = "record"
    /\ LET ok == k6Ok /\ verified = "ok"
           done == (~ok /\ test = "smoke") \/ at = Len(suite)
       IN /\ outcomes' = Append(outcomes, ok)
          /\ at' = IF done THEN at ELSE at + 1
          /\ pc' = IF ~done THEN "prepare"
                   ELSE IF Len(outcomes') = Len(suite) /\ \A i \in DOMAIN outcomes' : outcomes'[i]
                   THEN "green" ELSE "red"
    /\ k6Ok' = TRUE /\ verified' = "none"
    /\ UNCHANGED <<ledgerVars, gateVars, stageVars, exists, suite, keep, sale, used,
                   requests, polls, snapshot, systemVars>>

Over == pc \in {"green", "red", "crashed"}

RunnerStep ==
    \/ DeletePurchases("prepare", "prepare_sales") \/ DeleteSales("prepare_sales", "create")
    \/ CreateSale \/ WarmIntoRedis \/ K6Ends
    \/ DrainPoll \/ DrainSettle \/ VerifySale \/ VerifyPurchases
    \/ DeletePurchases("cleanup", "cleanup_sales") \/ DeleteSales("cleanup_sales", "unwarm")
    \/ RemoveFromRedis \/ RecordOutcome

---------------------------------------------------------------------------
(* The system under load.                                                  *)

Message(s, e) == [saleId |-> s, email |-> e, purchasedAt |-> Now]

\* The Postgres-only path; a sale that is gone is not found, or refused by
\* the foreign key.
writeDirectly(s, e) ==
    IF s \in exists THEN writePurchase(s, e, Now) ELSE UNCHANGED ledgerVars

\* POST /sales/:id/purchase: through the gate to the queue, or to nothing
\* when the channel drops; or to Postgres, when Redis does not know the sale,
\* refuses the script, or RabbitMQ refuses the message.
apiPurchase(s, e) ==
    \/ /\ reservationCode(s, e, Now) = "reserved"
       /\ reservePurchase(s, e, Now)
       /\ \/ queue' \in {queue, queue \cup {Message(s, e)}} /\ UNCHANGED ledgerVars
          \/ writeDirectly(s, e) /\ UNCHANGED queue
    \/ /\ writeDirectly(s, e)
       /\ UNCHANGED <<gateVars, queue>>

\* uniqueEmail, which smoke and capacity-ramp use; purchaseEmail repeats some.
FreshEmail(e) ==
    /\ ~HasPurchased(sale, e)
    /\ Message(sale, e) \notin queue \cup held
    /\ <<sale, e>> \notin late
    /\ e \notin buyers[sale]

\* A k6 iteration.
K6Purchase(e) ==
    /\ pc = "k6" /\ requests < MaxRequests
    /\ test # "flash-sale-spike" => FreshEmail(e)
    /\ requests' = requests + 1
    /\ \/ apiPurchase(sale, e) /\ UNCHANGED late
       \/ /\ Cardinality(late) < MaxLate           \* no answer in time
          /\ late' = late \cup {<<sale, e>>}
          /\ UNCHANGED <<ledgerVars, gateVars, queue>>
    /\ UNCHANGED <<stageVars, exists, held, pc, suite, at, keep, outcomes, sale, used,
                   k6Ok, polls, snapshot, verified>>

K6Second ==
    /\ pc = "k6" /\ test = "capacity-ramp"
    /\ Second
    /\ UNCHANGED <<ledgerVars, gateVars, runnerVars, exists, systemVars>>

\* The API gets to a request that k6 no longer waits for.
LateRequest ==
    /\ \E l \in late : late' = late \ {l} /\ apiPurchase(l[1], l[2])
    /\ UNCHANGED <<stageVars, runnerVars, exists, held>>

\* No prefetch limit.
TakeBatchWrongPrefetch ==
    /\ held = {}
    /\ \E batch \in (SUBSET queue) \ {{}} :
        /\ held' = batch
        /\ queue' = queue \ batch
    /\ UNCHANGED <<ledgerVars, gateVars, stageVars, runnerVars, exists, late>>

TakeBatch ==
    /\ held = {}
    /\ \E batch \in (SUBSET queue) \ {{}} :
        /\ Cardinality(batch) <= Prefetch
        /\ held' = batch
        /\ queue' = queue \ batch
    /\ UNCHANGED <<ledgerVars, gateVars, stageVars, runnerVars, exists, late>>

\* An entry of a deleted sale breaks the foreign key and takes the whole
\* batch with it.
WriteBatch ==
    /\ held # {} /\ \A m \in held : m.saleId \in exists
    /\ writePurchaseBatch(held)
    /\ held' \in {{}, held}         \* acknowledged, or the worker dies first
    /\ UNCHANGED <<gateVars, stageVars, runnerVars, exists, late, queue>>

\* The worker dies, or gives the batch up to the dead-letter queue.
BatchLeaves ==
    /\ held # {}
    /\ held' = {}
    /\ queue' \in {queue, queue \cup held}
    /\ UNCHANGED <<ledgerVars, gateVars, stageVars, runnerVars, exists, late>>

SystemStep ==
    \/ \E e \in Emails : K6Purchase(e)
    \/ K6Second \/ LateRequest \/ TakeBatch \/ WriteBatch \/ BatchLeaves

\* After a crash only the next run matters (Init).
Next == RunnerStep \/ DrainSkipped \/ (pc # "crashed" /\ SystemStep)

Spec == Init /\ [][Next]_loadVars

\* The runner's own steps and k6's clock.  Nothing is assumed of the worker.
FairSpec == Spec /\ WF_loadVars(RunnerStep) /\ WF_loadVars(K6Second)

---------------------------------------------------------------------------
\* verify never reports a violation, at whatever moment it looks: with
\* messages queued, held by a worker or dead, in the middle of batches and
\* fallback writes.
VerifyNeverFalseAlarm == verified # "violation"

\* A test starts from a sale with its full stock and no buyers, in Postgres
\* and, if it was warmed, in Redis, whatever earlier tests and runs have left
\* in the queue, with a worker, in Redis or in the API.
FreshSaleIsClean ==
    pc = "k6" /\ requests = 0 =>
        /\ remaining[sale] = Profile[test]
        /\ RowsOf(purchases, sale) = {}
        /\ stock[sale] \in {NoKey, Profile[test]} /\ buyers[sale] = {}

\* A suite that ends by itself leaves nothing of its own in the database,
\* although the worker may write while it deletes.
SuiteLeavesNoRows ==
    pc \in {"green", "red"} /\ ~keep => exists = {} /\ purchases = {}

\* The suite ends, also when no worker runs and the queue never drains.
SuiteEnds == <>Over

=============================================================================
