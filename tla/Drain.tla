------------------------------- MODULE Drain -------------------------------
(***************************************************************************)
(* drainPurchaseWrites (packages/queue/src/drain.ts) inside the worker     *)
(* process (apps/worker/src/main.ts), with the broker's side of its        *)
(* channel.  One process at a time; it may crash or be asked to stop, and  *)
(* another one starts.                                                     *)
(*                                                                         *)
(* The promise chain "flushing" is the number of flush() calls appended to *)
(* it and not yet started, and the state of the one that runs.  A callback *)
(* (consume, timer, continuation after an await) runs to completion, so it *)
(* is one action.                                                          *)
(***************************************************************************)
EXTENDS Integers, Sequences, SequencesExt, FiniteSets

CONSTANTS
    Messages,
    Prefetch,      \* channel.prefetch
    BatchSize,
    MaxAttempts,
    MaxRestarts    \* bound on the processes after the first

ASSUME DrainConstants ==
    /\ IsFiniteSet(Messages)
    /\ Prefetch \in Nat \ {0}
    /\ BatchSize \in Nat \ {0}
    /\ MaxAttempts \in Nat \ {0}
    /\ MaxRestarts \in Nat

VARIABLES
    ready,        \* in the queue, to be delivered
    delivered,    \* delivered on the channel and not settled, in the order
                  \* of their delivery tags
    consuming,    \* the broker has a consumer on the channel
    acked, dead,  \* settled: acknowledged, or nacked without requeue
    written,      \* committed by writeBatch
    pending,      \* drain.ts: pending
    timer,        \* drain.ts: flushTimer is set
    flushes,      \* flush() calls waiting in the chain
    flushing,     \* the flush() that runs: "none", "writing", "backoff", or
                  \* "written" when the commit is done and the ack is not
    batch, attempt,
    stopping,     \* "no", "cancelling", "awaiting" or "stopped"
    up, restarts

brokerVars == <<ready, delivered, consuming, acked, dead>>
flushVars == <<flushing, batch, attempt>>
processVars == <<stopping, up, restarts>>
drainVars == <<brokerVars, written, pending, timer, flushes, flushVars, processVars>>

NoRepeats(seq) == \A i, j \in DOMAIN seq : seq[i] = seq[j] => i = j

TypeOK ==
    /\ ready \subseteq Messages
    /\ delivered \in Seq(Messages) /\ NoRepeats(delivered) /\ Len(delivered) <= Prefetch
    /\ consuming \in BOOLEAN
    /\ acked \subseteq Messages
    /\ dead \subseteq Messages
    /\ written \subseteq Messages
    /\ pending \in Seq(Messages)
    /\ timer \in BOOLEAN
    /\ flushes \in Nat
    /\ flushing \in {"none", "writing", "backoff", "written"}
    /\ batch \in Seq(Messages)
    /\ attempt \in 1..MaxAttempts
    /\ stopping \in {"no", "cancelling", "awaiting", "stopped"}
    /\ up \in BOOLEAN
    /\ restarts \in 0..MaxRestarts

Init ==
    /\ ready = Messages
    /\ delivered = <<>>
    /\ consuming = FALSE
    /\ acked = {}
    /\ dead = {}
    /\ written = {}
    /\ pending = <<>>
    /\ timer = FALSE
    /\ flushes = 0
    /\ flushing = "none"
    /\ batch = <<>>
    /\ attempt = 1
    /\ stopping = "no"
    /\ up = FALSE
    /\ restarts = 0

---------------------------------------------------------------------------
\* main(): connect, prefetch, consume.
Start ==
    /\ ~up
    /\ up' = TRUE
    /\ consuming' = TRUE
    /\ UNCHANGED <<ready, delivered, acked, dead, written, pending, timer, flushes,
                   flushVars, stopping, restarts>>

\* The newest message goes to the front.
enqueueWrongFront(m) ==
    /\ pending' = <<m>> \o pending
    /\ IF Len(pending) + 1 >= BatchSize
       THEN timer' = FALSE /\ flushes' = flushes + 1
       ELSE timer' = TRUE /\ UNCHANGED flushes

\* A full batch is left to the flush that runs.
enqueueWrongBusy(m) ==
    /\ pending' = Append(pending, m)
    /\ IF Len(pending) + 1 >= BatchSize
       THEN timer' = FALSE /\ flushes' = IF flushing = "none" THEN flushes + 1 ELSE flushes
       ELSE timer' = TRUE /\ UNCHANGED flushes

\* What the consume callback does with a message unless it is stopped.
enqueue(m) ==
    /\ pending' = Append(pending, m)
    /\ IF Len(pending) + 1 >= BatchSize
       THEN timer' = FALSE /\ flushes' = flushes + 1
       ELSE timer' = TRUE /\ UNCHANGED flushes

\* The broker keeps at most Prefetch messages unacknowledged on the channel.
\* What arrives after stop() is ignored and stays unacknowledged.
Deliver(m) ==
    /\ consuming
    /\ m \in ready
    /\ Len(delivered) < Prefetch
    /\ ready' = ready \ {m}
    /\ delivered' = Append(delivered, m)
    /\ IF stopping = "no" THEN enqueue(m) ELSE UNCHANGED <<pending, timer, flushes>>
    /\ UNCHANGED <<consuming, acked, dead, written, flushVars, processVars>>

\* The timer of scheduleFlush.
TimerFires ==
    /\ timer
    /\ timer' = FALSE
    /\ flushes' = flushes + 1
    /\ UNCHANGED <<brokerVars, written, pending, flushVars, processVars>>

\* The next flush of the chain starts when the one before it is done, and
\* takes all that is pending: more than BatchSize if it had to wait.
FlushStarts ==
    /\ flushing = "none"
    /\ flushes > 0
    /\ flushes' = flushes - 1
    /\ IF pending = <<>>
       THEN UNCHANGED <<pending, flushVars>>
       ELSE /\ batch' = pending
            /\ pending' = <<>>
            /\ flushing' = "writing"
            /\ attempt' = 1
    /\ UNCHANGED <<brokerVars, written, timer, processVars>>

WriteCommits ==
    /\ flushing = "writing"
    /\ written' = written \cup ToSet(batch)
    /\ flushing' = "written"
    /\ UNCHANGED <<brokerVars, pending, timer, flushes, batch, attempt, processVars>>

\* channel.ackAll(): whatever the channel holds, not only the batch.
AckWrongAll ==
    /\ flushing = "written"
    /\ acked' = acked \cup ToSet(delivered)
    /\ delivered' = <<>>
    /\ flushing' = "none"
    /\ batch' = <<>>
    /\ UNCHANGED <<ready, consuming, dead, written, pending, timer, flushes, attempt,
                   processVars>>

\* channel.ack(last of the batch, allUpTo): the broker settles every delivery
\* with a tag up to that one.
Ack ==
    /\ flushing = "written"
    /\ \E k \in DOMAIN delivered :
        /\ delivered[k] = Last(batch)
        /\ acked' = acked \cup ToSet(SubSeq(delivered, 1, k))
        /\ delivered' = SubSeq(delivered, k + 1, Len(delivered))
    /\ flushing' = "none"
    /\ batch' = <<>>
    /\ UNCHANGED <<ready, consuming, dead, written, pending, timer, flushes, attempt,
                   processVars>>

\* One attempt too many.
WriteFailsWrongBound ==
    /\ flushing = "writing"
    /\ written' \in {written, written \cup ToSet(batch)}
    /\ attempt' = attempt + 1
    /\ flushing' = "backoff"
    /\ UNCHANGED <<brokerVars, batch, pending, timer, flushes, processVars>>

\* What the channel still holds once some messages are settled one by one:
\* the other deliveries, in their order.
Unsettled(settled) ==
    LET left == {i \in DOMAIN delivered : delivered[i] \notin settled}
        nth(j) == CHOOSE i \in left : Cardinality({k \in left : k <= i}) = j
    IN  [j \in 1..Cardinality(left) |-> delivered[nth(j)]]

\* The batch is nacked with requeue.
WriteFailsWrongRequeue ==
    /\ flushing = "writing"
    /\ written' \in {written, written \cup ToSet(batch)}
    /\ IF attempt < MaxAttempts
       THEN /\ attempt' = attempt + 1
            /\ flushing' = "backoff"
            /\ UNCHANGED <<delivered, ready, batch>>
       ELSE /\ ready' = ready \cup ToSet(batch)
            /\ delivered' = Unsettled(ToSet(batch))
            /\ flushing' = "none"
            /\ batch' = <<>>
            /\ UNCHANGED attempt
    /\ UNCHANGED <<dead, consuming, acked, pending, timer, flushes, processVars>>

\* writeBatch rejects, perhaps after its transaction committed: back off and
\* try again, or nack the messages of the batch one by one.
WriteFails ==
    /\ flushing = "writing"
    /\ written' \in {written, written \cup ToSet(batch)}
    /\ IF attempt < MaxAttempts
       THEN /\ attempt' = attempt + 1
            /\ flushing' = "backoff"
            /\ UNCHANGED <<delivered, dead, batch>>
       ELSE /\ dead' = dead \cup ToSet(batch)
            /\ delivered' = Unsettled(ToSet(batch))
            /\ flushing' = "none"
            /\ batch' = <<>>
            /\ UNCHANGED attempt
    /\ UNCHANGED <<ready, consuming, acked, pending, timer, flushes, processVars>>

BackoffEnds ==
    /\ flushing = "backoff"
    /\ flushing' = "writing"
    /\ UNCHANGED <<brokerVars, written, pending, timer, flushes, batch, attempt, processVars>>

---------------------------------------------------------------------------
\* SIGTERM: shutdown() runs once and calls stop(), up to its first await.
Stop ==
    /\ up
    /\ stopping = "no"
    /\ restarts < MaxRestarts
    /\ stopping' = "cancelling"
    /\ UNCHANGED <<brokerVars, written, pending, timer, flushes, flushVars, up, restarts>>

\* The timer is dropped and nothing takes its place.
CancelledWrongFlush ==
    /\ stopping = "cancelling"
    /\ stopping' = "awaiting"
    /\ consuming' = FALSE
    /\ timer' = FALSE
    /\ UNCHANGED <<ready, delivered, acked, dead, written, pending, flushes, flushVars, up, restarts>>

\* channel.cancel() resolves: the timer is dropped and one more flush is
\* appended to the chain, which stop() awaits.
Cancelled ==
    /\ stopping = "cancelling"
    /\ stopping' = "awaiting"
    /\ consuming' = FALSE
    /\ timer' = FALSE
    /\ flushes' = flushes + 1
    /\ UNCHANGED <<ready, delivered, acked, dead, written, pending, flushVars, up, restarts>>

StopResolves ==
    /\ stopping = "awaiting"
    /\ flushing = "none" /\ flushes = 0
    /\ stopping' = "stopped"
    /\ UNCHANGED <<brokerVars, written, pending, timer, flushes, flushVars, up, restarts>>

\* The channel and with it the process are gone, with all it remembered: the
\* broker queues again what was not settled.
ProcessEnds ==
    /\ restarts < MaxRestarts
    /\ restarts' = restarts + 1
    /\ up' = FALSE
    /\ consuming' = FALSE
    /\ ready' = ready \cup ToSet(delivered)
    /\ delivered' = <<>>
    /\ pending' = <<>>
    /\ timer' = FALSE
    /\ flushes' = 0
    /\ flushing' = "none"
    /\ batch' = <<>>
    /\ stopping' = "no"
    /\ UNCHANGED <<acked, dead, attempt>>

\* The rest of shutdown(): closeQueue(), pool.end(), exit.
Close ==
    /\ up
    /\ stopping = "stopped"
    /\ ProcessEnds
    /\ UNCHANGED written

\* A crash, SIGKILL after the grace period, a lost connection (connect() has
\* no listener for its errors, so they end the process), or SIGTERM before
\* drainPurchaseWrites has resolved.  A commit under way may still go through.
Crash ==
    /\ up
    /\ ProcessEnds
    /\ \/ UNCHANGED written
       \/ flushing = "writing" /\ written' = written \cup ToSet(batch)

---------------------------------------------------------------------------
FlushStep ==
    TimerFires \/ FlushStarts \/ WriteCommits \/ Ack \/ WriteFails \/ BackoffEnds

StopStep == Cancelled \/ StopResolves \/ Close

Next ==
    \/ Start
    \/ \E m \in Messages : Deliver(m)
    \/ FlushStep
    \/ Stop \/ StopStep
    \/ Crash

Spec == Init /\ [][Next]_drainVars

\* The broker delivers, timers fire, promises settle and Kubernetes restarts
\* the process; nothing makes it stop or crash.  A write may fail every time.
Fairness ==
    /\ WF_drainVars(Start)
    /\ WF_drainVars(\E m \in Messages : Deliver(m))
    /\ WF_drainVars(TimerFires)
    /\ WF_drainVars(FlushStarts)
    /\ WF_drainVars(WriteCommits \/ WriteFails)
    /\ WF_drainVars(Ack)
    /\ WF_drainVars(BackoffEnds)
    /\ WF_drainVars(StopStep)

FairSpec == Spec /\ Fairness

---------------------------------------------------------------------------
\* No purchase write is lost by the acknowledgement of another: what is acked
\* has been committed, although ack() names one message and settles many.
AckedIsWritten == acked \subseteq written

\* What makes the multiple ack exact: the channel holds the batch, then what
\* is pending, then at most what stop() made it ignore, in delivery order.
HeldInOrder == IsPrefix(batch \o pending, delivered)

\* A message in pending always has a flush coming, by the timer or in the
\* chain: no interleaving of the two triggers and stop() strands it.
PendingHasWakeup == pending # <<>> => timer \/ flushes > 0

\* When stop() resolves, nothing of what the callback accepted is left: the
\* channel may be closed under it.
StopFinishesBatches ==
    stopping = "stopped" => pending = <<>> /\ batch = <<>>

\* What of the queue no flush has taken yet, prefetched or not.
Untaken == ready \cup (ToSet(delivered) \ ToSet(batch))

\* Where the process is, as WriteWorker sees it: a pause between two attempts
\* is part of writing.
WorkerPC ==
    IF ~up THEN "down"
    ELSE CASE flushing = "none" -> "idle"
           [] flushing \in {"writing", "backoff"} -> "writing"
           [] flushing = "written" -> "written"

\* Prefetch, timers, the promise chain and multiple acks together do what
\* WriteWorker says: each batch is settled as a whole and nothing else is.
Worker == INSTANCE WriteWorker WITH
    queue <- Untaken, batch <- ToSet(batch), wpc <- WorkerPC

ImplementsWorker == Worker!WorkerSpec

\* Every purchase write is settled in the end: none waits for ever in the
\* queue, in pending or in a batch.
EverySettles == \A m \in Messages : <>(m \in acked \cup dead)

=============================================================================
