---------------------------- MODULE WriteWorker ----------------------------
(***************************************************************************)
(* What one worker process promises of the purchase-write queue, without   *)
(* prefetch, timers or delivery tags: it takes some queued messages as a   *)
(* batch, writes them, and settles exactly those messages, by an           *)
(* acknowledgement once they are written or by dead-lettering once the     *)
(* attempts are used up.  Whatever it does not settle is queued again.     *)
(* These are the worker's actions in Purchases, with the transaction       *)
(* reduced to the set of messages it has committed.                        *)
(***************************************************************************)
EXTENDS Integers, FiniteSets

CONSTANTS Messages, Prefetch, MaxAttempts

VARIABLES queue, written, acked, dead, wpc, batch, attempt

writeWorkerVars == <<queue, written, acked, dead, wpc, batch, attempt>>

WorkerInit ==
    /\ queue = Messages
    /\ written = {}
    /\ acked = {}
    /\ dead = {}
    /\ wpc = "down"
    /\ batch = {}
    /\ attempt = 1

\* A commit whose outcome the worker may or may not learn.
MayCommit == written' \in {written, written \cup batch}

Starts ==
    /\ wpc = "down"
    /\ wpc' = "idle"
    /\ UNCHANGED <<queue, written, acked, dead, batch, attempt>>

Takes ==
    /\ wpc = "idle"
    /\ batch' \in (SUBSET queue) \ {{}}
    /\ Cardinality(batch') <= Prefetch
    /\ queue' = queue \ batch'
    /\ wpc' = "writing"
    /\ attempt' = 1
    /\ UNCHANGED <<written, acked, dead>>

Writes ==
    /\ wpc = "writing"
    /\ written' = written \cup batch
    /\ wpc' = "written"
    /\ UNCHANGED <<queue, acked, dead, batch, attempt>>

Acks ==
    /\ wpc = "written"
    /\ acked' = acked \cup batch
    /\ batch' = {}
    /\ wpc' = "idle"
    /\ UNCHANGED <<queue, written, dead, attempt>>

Fails ==
    /\ wpc = "writing"
    /\ MayCommit
    /\ IF attempt < MaxAttempts
       THEN /\ attempt' = attempt + 1
            /\ UNCHANGED <<dead, batch, wpc>>
       ELSE /\ dead' = dead \cup batch
            /\ batch' = {}
            /\ wpc' = "idle"
            /\ UNCHANGED attempt
    /\ UNCHANGED <<queue, acked>>

Ends ==
    /\ wpc # "down"
    /\ MayCommit
    /\ queue' = queue \cup batch
    /\ batch' = {}
    /\ wpc' = "down"
    /\ UNCHANGED <<acked, dead, attempt>>

WorkerNext == Starts \/ Takes \/ Writes \/ Acks \/ Fails \/ Ends

WorkerSpec == WorkerInit /\ [][WorkerNext]_writeWorkerVars

=============================================================================
