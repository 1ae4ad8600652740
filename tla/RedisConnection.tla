-------------------------- MODULE RedisConnection --------------------------
(***************************************************************************)
(* The API replicas' connections to Redis (apps/api/src/redis), the sale   *)
(* keys, and who writes past them: purchases that go to Postgres without   *)
(* Redis, and the warm script, which sets keys from what it read before.   *)
(* After an outage a replica flushes the keys.  A key here is all that     *)
(* Redis has of one sale.  The actions of one replica leave the process's  *)
(* other variables open (ApiReplica).                                      *)
(***************************************************************************)
EXTENDS Integers, FiniteSets

CONSTANTS Replicas, Keys,
          Requests    \* the purchases that are under way at a time

ASSUME RedisConstants == IsFiniteSet(Replicas) /\ IsFiniteSet(Keys)

VARIABLES
    keys,       \* "absent", "exact" or "stale": there is a purchase, recorded or
                \* reserved and to be recorded, that the key does not know
    link,       \* "off", "connecting" (the first time), "ready", "broken" (the
                \* socket is dead, the client has not noticed), "down", "ended"
    wasDown,
    flush,      \* flushSaleKeys: the command it awaits, the keys SCAN still
                \* owes it and the page it is about to delete
    promised,   \* <<request, key>>: reserved, and to be recorded
    direct,     \* <<request, replica, key>>: on its way to Postgres past the key
    copy,       \* of the warm script: a row it has read, "whole" or "short" of
                \* a purchase, or "none"
    orphans     \* history: the stale keys that nobody is to flush

redisVars == <<keys, link, wasDown, flush, promised, direct, copy, orphans>>
linkVars == <<link, wasDown, flush>>

NoFlush == [awaits |-> "none", todo |-> {}, page |-> {}]

RedisTypeOK ==
    /\ keys \in [Keys -> {"absent", "exact", "stale"}]
    /\ link \in [Replicas -> {"off", "connecting", "ready", "broken", "down", "ended"}]
    /\ wasDown \in [Replicas -> BOOLEAN]
    /\ flush \in [Replicas -> [awaits : {"none", "scan", "del"},
                               todo : SUBSET Keys, page : SUBSET Keys]]
    /\ promised \subseteq Requests \X Keys
    /\ direct \subseteq Requests \X Replicas \X Keys
    /\ copy \in [Keys -> {"none", "whole", "short"}]
    /\ orphans \subseteq Keys

RedisInit ==
    /\ keys = [k \in Keys |-> "exact"]
    /\ link = [r \in Replicas |-> "off"]
    /\ wasDown = [r \in Replicas |-> FALSE]
    /\ flush = [r \in Replicas |-> NoFlush]
    /\ promised = {} /\ direct = {}
    /\ copy = [k \in Keys |-> "none"]
    /\ orphans = {}

Present == {k \in Keys : keys[k] # "absent"}
Stale == {k \in Keys : keys[k] = "stale"}

\* The outage of replica r is not over, or its flush has yet to come to k.
FlushAhead(r, k) ==
    \/ link[r] \in {"broken", "down"}
    \/ k \in flush[r].todo \cup flush[r].page

\* Stale keys lose the flush that r owed them.
Forsaken(r) == {k \in Stale : FlushAhead(r, k)}

---------------------------------------------------------------------------
\* onModuleInit: the ping opens the socket.
RedisBoot(r) ==
    /\ link[r] = "off"
    /\ link' = [link EXCEPT ![r] = "connecting"]
    /\ UNCHANGED <<keys, wasDown, flush, promised, direct, copy, orphans>>

\* onModuleDestroy: QUIT, after the command a flush has just sent.  The close
\* event that follows is the last one.
RedisQuit(r) ==
    LET sent == IF link[r] = "ready" THEN flush[r].page ELSE {} IN
    /\ link[r] # "ended"
    /\ link' = [link EXCEPT ![r] = "ended"]
    /\ wasDown' = [wasDown EXCEPT ![r] = TRUE]
    /\ flush' = [flush EXCEPT ![r] = NoFlush]
    /\ keys' = [k \in Keys |-> IF k \in sent THEN "absent" ELSE keys[k]]
    /\ orphans' = (orphans \cup Forsaken(r)) \ sent
    /\ UNCHANGED <<promised, direct, copy>>

\* The process of r is gone; a transaction that Postgres has been told to
\* commit may still be committed.
RedisReset(r) ==
    /\ link' = [link EXCEPT ![r] = "off"]
    /\ wasDown' = [wasDown EXCEPT ![r] = FALSE]
    /\ flush' = [flush EXCEPT ![r] = NoFlush]
    /\ orphans' = orphans \cup Forsaken(r)
    /\ \E given \in SUBSET {d \in direct : d[2] = r} : direct' = direct \ given
    /\ UNCHANGED <<keys, promised, copy>>

\* The "ready" event.
Ready(r) ==
    /\ link[r] \in {"connecting", "down"}
    /\ link' = [link EXCEPT ![r] = "ready"]
    /\ flush' = IF wasDown[r]
                THEN [flush EXCEPT ![r] = [awaits |-> "scan", todo |-> Present, page |-> {}]]
                ELSE flush
    /\ wasDown' = [wasDown EXCEPT ![r] = FALSE]
    /\ UNCHANGED <<keys, promised, direct, copy, orphans>>

\* The socket of r dies.
LinkBreaks(r) ==
    /\ link[r] = "ready"
    /\ link' = [link EXCEPT ![r] = "broken"]
    /\ UNCHANGED <<keys, wasDown, flush, promised, direct, copy, orphans>>

\* The handler leaves wasDown alone while a flush is running.
CloseEventWrongBusy(r) ==
    /\ link[r] \in {"connecting", "broken"}
    /\ link' = [link EXCEPT ![r] = "down"]
    /\ wasDown' = [wasDown EXCEPT ![r] = flush[r].awaits = "none"]
    /\ flush' = [flush EXCEPT ![r] = NoFlush]
    /\ UNCHANGED <<keys, promised, direct, copy, orphans>>

\* The "close" event, also of a first attempt that fails.  A flush under way
\* is rejected; or its command is sent again at the next "ready", and is left
\* out here, since the flush which that event starts scans everything anyway.
CloseEvent(r) ==
    /\ link[r] \in {"connecting", "broken"}
    /\ link' = [link EXCEPT ![r] = "down"]
    /\ wasDown' = [wasDown EXCEPT ![r] = TRUE]
    /\ flush' = [flush EXCEPT ![r] = NoFlush]
    /\ UNCHANGED <<keys, promised, direct, copy, orphans>>

\* One SCAN.  A key there all along is returned by one of the pages.
FlushScan(r) ==
    /\ flush[r].awaits = "scan"
    /\ link[r] = "ready"
    /\ \E page \in SUBSET Present :
        LET todo == (flush[r].todo \ page) \cap Present IN
        /\ page # {} \/ todo = {}
        /\ flush' = [flush EXCEPT ![r] =
                        IF page = {} THEN NoFlush
                        ELSE [awaits |-> "del", todo |-> todo, page |-> page]]
    /\ UNCHANGED <<keys, link, wasDown, promised, direct, copy, orphans>>

\* The loop ends after its first page.
FlushDelWrongOnePage(r) ==
    /\ flush[r].awaits = "del"
    /\ link[r] = "ready"
    /\ keys' = [k \in Keys |-> IF k \in flush[r].page THEN "absent" ELSE keys[k]]
    /\ orphans' = orphans \ flush[r].page
    /\ flush' = [flush EXCEPT ![r] = NoFlush]
    /\ UNCHANGED <<link, wasDown, promised, direct, copy>>

\* One DEL of the page read before, whatever was written in between.  The
\* cursor may be back at 0 once every key has been returned.
FlushDel(r) ==
    /\ flush[r].awaits = "del"
    /\ link[r] = "ready"
    /\ keys' = [k \in Keys |-> IF k \in flush[r].page THEN "absent" ELSE keys[k]]
    /\ orphans' = orphans \ flush[r].page
    /\ flush' = [flush EXCEPT ![r] = [awaits |-> "scan", todo |-> flush[r].todo, page |-> {}]]
    /\ UNCHANGED <<link, wasDown, promised, direct, copy>>

\* Redis refuses a command of the flush: logged, and not tried again.
FlushRefused(r) ==
    /\ flush[r].awaits # "none"
    /\ link[r] = "ready"
    /\ flush' = [flush EXCEPT ![r] = NoFlush]
    /\ orphans' = orphans \cup (Stale \cap (flush[r].todo \cup flush[r].page))
    /\ UNCHANGED <<keys, link, wasDown, promised, direct, copy>>

---------------------------------------------------------------------------
\* A copy the warm script holds of k is short of the purchase just made.
Overtake(k) == copy' = [copy EXCEPT ![k] = IF @ = "none" THEN "none" ELSE "short"]

\* No more than one purchase at a time in the place of q.
Free(q) == /\ \A k \in Keys : <<q, k>> \notin promised
           /\ \A r \in Replicas, k \in Keys : <<q, r, k>> \notin direct

\* reserve() comes to an end: the script has run and reserved a unit.
Reserved(q, k) ==
    /\ keys[k] # "absent"
    /\ promised' = promised \cup {<<q, k>>}
    /\ Overtake(k)
    /\ UNCHANGED <<keys, linkVars, direct, orphans>>

GoesDirect(q, r, k) ==
    /\ direct' = direct \cup {<<q, r, k>>}
    /\ UNCHANGED <<keys, linkVars, promised, copy, orphans>>

\* reserve(), at the instant it has its result.  If the client is not ready,
\* either the status said so or the command has just been rejected (unless it
\* is sent again: then the result comes later).  Otherwise the script has
\* answered: reserved, not_warmed, or a refusal, which changes nothing.
reserve(q, r, k) ==
    /\ Free(q)
    /\ \/ link[r] = "ready" /\ Reserved(q, k)
       \/ link[r] = "ready" /\ keys[k] = "absent" /\ GoesDirect(q, r, k)
       \/ link[r] \in {"down", "ended"} /\ GoesDirect(q, r, k)

\* The catch branch on a link that is fine: Redis refuses the command.
ReserveRefused(q, r, k) ==
    /\ Free(q)
    /\ link[r] = "ready"
    /\ GoesDirect(q, r, k)

\* recordPurchase commits, whatever has become of link and key meanwhile.
\* Nobody flushes after it if its replica had no outage, or has flushed the
\* key already.
DirectWrite(q, r, k) ==
    /\ <<q, r, k>> \in direct
    /\ direct' = direct \ {<<q, r, k>>}
    /\ keys' = [keys EXCEPT ![k] = IF @ = "exact" THEN "stale" ELSE @]
    /\ orphans' = IF keys[k] = "exact" /\ ~FlushAhead(r, k)
                  THEN orphans \cup {k} ELSE orphans
    /\ Overtake(k)
    /\ UNCHANGED <<linkVars, promised>>

\* A direct write comes to nothing; or what was promised is recorded, which
\* the key knows if it is still the same, or lost.
RequestEnds(q) ==
    /\ ~Free(q)
    /\ promised' = {p \in promised : p[1] # q}
    /\ direct' = {d \in direct : d[1] # q}
    /\ UNCHANGED <<keys, linkVars, copy, orphans>>

---------------------------------------------------------------------------
\* Redis restarts: with its keys, with an older copy of them, or without.  If
\* no replica was connected, none learns of it.
RedisRestarts ==
    /\ \E old, lost \in SUBSET Present :
        /\ keys' = [k \in Keys |-> IF k \in lost THEN "absent"
                                   ELSE IF k \in old THEN "stale" ELSE keys[k]]
        /\ orphans' = (orphans \ lost)
                      \cup (IF \A r \in Replicas : link[r] \in {"off", "connecting", "ended"}
                            THEN old \ lost ELSE {})
    /\ link' = [r \in Replicas |-> IF link[r] = "ready" THEN "broken" ELSE link[r]]
    /\ UNCHANGED <<wasDown, flush, promised, direct, copy>>

\* redis:warm reads the rows of the sales, which lack what is only reserved.
\* The buyers it reads later, per sale, know no less than the rows.
WarmReads ==
    /\ copy' = [k \in Keys |->
                  IF \E q \in Requests : <<q, k>> \in promised THEN "short" ELSE "whole"]
    /\ UNCHANGED <<keys, linkVars, promised, direct, orphans>>

\* syncSale: the MULTI block that replaces a key by what was read.
WarmSets(k) ==
    /\ copy[k] # "none"
    /\ keys' = [keys EXCEPT ![k] = IF copy[k] = "whole" THEN "exact" ELSE "stale"]
    /\ orphans' = IF copy[k] = "whole" THEN orphans \ {k} ELSE orphans \cup {k}
    /\ copy' = [copy EXCEPT ![k] = "none"]
    /\ UNCHANGED <<linkVars, promised, direct>>

FlushStep(r) == FlushScan(r) \/ FlushDel(r)

---------------------------------------------------------------------------
\* Keys that do not know of a purchase made past them during an outage do not
\* outlive it: some replica will flush them after its outage, or is flushing
\* and has them before it, however outages, flushes, warm-ups and purchases
\* of several replicas overlap.  What nobody flushes, orphans, is a key that
\*   - was written past by a replica without an outage (a command refused on
\*     a ready link, a sale not warmed when it was asked about, a client that
\*     has quit), or after that replica had flushed it;
\*   - was warmed from a row short of a purchase;
\*   - had its flush refused, or owed by a process that quit or ended;
\*   - came back older with a Redis that no replica saw restart.
StaleKeysAreOwedAFlush ==
    \A k \in Stale \ orphans :
        \E r \in Replicas :
            \/ link[r] = "down" /\ wasDown[r]
            \/ link[r] = "broken"
            \/ k \in flush[r].todo \cup flush[r].page

=============================================================================
