-------------------------- MODULE ApiReplicaProofs --------------------------
(***************************************************************************)
(* What holds of an API process's connections for any number of            *)
(* connections, replicas, sale keys, requests and faults: publish() is     *)
(* never handed a dead channel, reconnects stay balanced, and stale keys   *)
(* are owed a flush.                                                       *)
(***************************************************************************)
EXTENDS ApiReplica, FiniteSetTheorems, TLAPS

USE QueueConstants, RedisConstants, ReplicaConstants

---------------------------------------------------------------------------
(* The inductive invariant.                                                *)

\* The connections a running process has in use, or is about to.
Trying == In("connecting") \cup In("opening") \cup In("live")

\* Attempts, connections in use and reconnects due are one, and one more for
\* each failure that came as two events.
Paired == timers + Cardinality(Trying) = 1 + doubled

\* Before the process and after it.
QueueGone ==
    /\ stage = [c \in Conns |-> "none"]
    /\ timers = 0
    /\ current = NoConn
    /\ ~closed
    /\ doubled = 0

\* A process closes its queue only when it shuts down; the count is kept until
\* then, and a process that is down has nothing.
LifeInv ==
    /\ life[Self] = "up" => ~closed
    /\ life[Self] # "down" => closed \/ Paired
    /\ life[Self] = "down" => QueueGone

\* A closed link is remembered, and only a flush under way has keys to delete.
FlushInv ==
    \A r \in Replicas :
        /\ link[r] = "down" => wasDown[r]
        /\ flush[r].awaits = "none" => flush[r].todo = {}
        /\ flush[r].awaits # "del" => flush[r].page = {}

\* A stale key that is no orphan has a flush ahead of it.
KeysOwed == \A k \in Stale \ orphans : \E r \in Replicas : FlushAhead(r, k)

\* Only close() closes a connection, so its close event schedules nothing.
ClosingInv == In("closing") # {} => closed

QueueInv == QueueTypeOK /\ ChannelIsOpen /\ ClosingInv

RedisInv == RedisTypeOK /\ FlushInv /\ KeysOwed

ProcessType ==
    /\ life \in [Replicas -> {"down", "up", "stopping"}]
    /\ faults \in 0..MaxFaults

ReplicaInv == QueueInv /\ RedisInv /\ ProcessType /\ LifeInv

---------------------------------------------------------------------------
(* Connections and timers.                                                 *)

\* The three counts of ReconnectsBalanced are the size of one finite set.
LEMMA TryingCount ==
    ASSUME QueueTypeOK
    PROVE  /\ IsFiniteSet(Trying)
           /\ Cardinality(Trying) \in Nat
           /\ Cardinality(In("connecting")) + Cardinality(In("opening"))
                + Cardinality(In("live")) = Cardinality(Trying)
<1> DEFINE a == In("connecting")
           b == In("opening")
           d == In("live")
<1>1. IsFiniteSet(a) /\ IsFiniteSet(b) /\ IsFiniteSet(d)
    <2>1. \A s : In(s) \in SUBSET Conns
        BY DEF In
    <2> QED
        BY <2>1, FS_Subset
<1>2. a \cap b = {} /\ (a \cup b) \cap d = {}
    BY DEF In
<1> HIDE DEF a, b, d
<1>3. /\ IsFiniteSet(a \cup b)
      /\ Cardinality(a \cup b) = Cardinality(a) + Cardinality(b) - Cardinality(a \cap b)
    BY <1>1, FS_Union
<1>4. /\ IsFiniteSet((a \cup b) \cup d)
      /\ Cardinality((a \cup b) \cup d)
            = Cardinality(a \cup b) + Cardinality(d) - Cardinality((a \cup b) \cap d)
    BY <1>1, <1>3, FS_Union
<1>5. Cardinality({}) = 0
    BY FS_EmptySet
<1>6. /\ Cardinality(a) \in Nat /\ Cardinality(b) \in Nat /\ Cardinality(d) \in Nat
      /\ Cardinality((a \cup b) \cup d) \in Nat
    BY <1>1, <1>4, FS_CardinalityType
<1>7. Cardinality(a \cap b) = 0 /\ Cardinality((a \cup b) \cap d) = 0
    BY <1>2, <1>5
<1>8. Cardinality(a) + Cardinality(b) + Cardinality(d) = Cardinality((a \cup b) \cup d)
    BY <1>3, <1>4, <1>6, <1>7
<1> QED
    BY <1>4, <1>6, <1>8 DEF a, b, d, Trying

\* Trying gains or loses a connection.
LEMMA TryingChanges ==
    ASSUME QueueTypeOK, NEW c \in Conns
    PROVE  /\ c \notin Trying => Cardinality(Trying \cup {c}) = Cardinality(Trying) + 1
           /\ c \in Trying => /\ Cardinality(Trying \ {c}) = Cardinality(Trying) - 1
                              /\ Cardinality(Trying) >= 1
<1>1. IsFiniteSet(Trying \ {c}) /\ Cardinality(Trying \ {c}) \in Nat
    BY TryingCount, FS_RemoveElement, FS_CardinalityType
<1>2. ASSUME c \notin Trying PROVE Cardinality(Trying \cup {c}) = Cardinality(Trying) + 1
    BY <1>2, TryingCount, FS_AddElement
<1>3. ASSUME c \in Trying PROVE Cardinality(Trying \ {c}) = Cardinality(Trying) - 1
    BY <1>3, TryingCount, FS_RemoveElement
<1> QED
    BY <1>1, <1>2, <1>3, TryingCount

\* A connection attempt starts: c was not tried and is now.
LEMMA AttemptStarts ==
    ASSUME QueueTypeOK, NEW c \in Conns, connectOnce(c)
    PROVE  /\ stage' \in [Conns -> {"none", "connecting", "opening", "live", "closing", "left"}]
           /\ \A d \in Conns : stage[d] = "live" => stage'[d] = "live"
           /\ Cardinality(Trying') = Cardinality(Trying) + 1
<1>1. c \notin Trying /\ Trying' = Trying \cup {c}
    BY DEF QueueTypeOK, connectOnce, Trying, In
<1>2. Cardinality(Trying') = Cardinality(Trying) + 1
    BY <1>1, TryingChanges
<1> QED
    BY <1>2 DEF QueueTypeOK, connectOnce

\* A due reconnect is spent on an attempt, or on nothing after close().
LEMMA ReconnectKeeps ==
    ASSUME QueueInv, closed \/ Paired, ReconnectTimer
    PROVE  QueueInv' /\ (closed \/ Paired')
<1> USE DEF QueueInv, ClosingInv, In
<1>1. CASE closed
    BY <1>1 DEF QueueTypeOK, ChannelIsOpen, ReconnectTimer
<1>2. CASE ~closed
    <2>1. PICK c \in Conns : connectOnce(c)
        BY <1>2 DEF ReconnectTimer
    <2>2. Cardinality(Trying') = Cardinality(Trying) + 1
        BY <2>1, AttemptStarts
    <2>3. Paired'
        BY <1>2, <2>2, TryingCount DEF Paired, ReconnectTimer, QueueTypeOK
    <2>4. timers' \in 0..(1 + doubled')
        BY DEF ReconnectTimer, QueueTypeOK
    <2>5. ClosingInv'
        BY <1>2, <2>1 DEF connectOnce, ReconnectTimer, QueueTypeOK
    <2> QED
        BY <2>1, <2>3, <2>4, <2>5, AttemptStarts DEF QueueTypeOK, ChannelIsOpen, ReconnectTimer
<1> QED
    BY <1>1, <1>2

\* What the broker answers, and a close event nobody acts on, leave the count
\* alone.
LEMMA AnswerKeeps ==
    ASSUME QueueInv, closed \/ Paired, NEW c \in Conns,
           \/ Connected(c) \/ ChannelOpened(c)
           \/ CloseDone(c) \/ LeftCloses(c)
    PROVE  QueueInv' /\ (closed \/ Paired')
<1> USE DEF QueueInv, ClosingInv, In
<1>1. timers' = timers /\ doubled' = doubled /\ closed' = closed
    BY DEF Connected, ChannelOpened, CloseDone, LeftCloses, onDown, scheduleReconnect, QueueTypeOK
<1>2. Trying' = Trying
    BY DEF Connected, ChannelOpened, CloseDone, LeftCloses, Trying, QueueTypeOK
<1>3. stage' \in [Conns -> {"none", "connecting", "opening", "live", "closing", "left"}]
    BY DEF Connected, ChannelOpened, CloseDone, LeftCloses, QueueTypeOK
<1>4. current' \in Conns \cup {NoConn} /\ ChannelIsOpen'
    BY DEF Connected, ChannelOpened, CloseDone, LeftCloses, onDown, QueueTypeOK, ChannelIsOpen
<1>5. ClosingInv'
    BY <1>1 DEF Connected, ChannelOpened, CloseDone, LeftCloses, QueueTypeOK
<1> QED
    BY <1>1, <1>2, <1>3, <1>4, <1>5 DEF QueueTypeOK, Paired

\* A failed attempt or connection leaves one reconnect for each of its events.
LEMMA FailureKeeps ==
    ASSUME QueueInv, closed \/ Paired, NEW c \in Conns, NEW n \in {1, 2},
           AttemptFails(c) \/ ConnectionFails(c, n)
    PROVE  QueueInv' /\ (closed \/ Paired')
<1> USE DEF QueueInv, ClosingInv, In
<1>1. closed' = closed
    BY DEF AttemptFails, ConnectionFails
<1>2. c \in Trying /\ Trying' = Trying \ {c}
    BY DEF AttemptFails, ConnectionFails, Trying, QueueTypeOK
<1>3. Cardinality(Trying') = Cardinality(Trying) - 1 /\ Cardinality(Trying) >= 1
    BY <1>2, TryingChanges
<1>4. stage' \in [Conns -> {"none", "connecting", "opening", "live", "closing", "left"}]
    BY DEF AttemptFails, ConnectionFails, QueueTypeOK
<1>5. current' \in Conns \cup {NoConn} /\ ChannelIsOpen'
    BY DEF AttemptFails, ConnectionFails, onDown, QueueTypeOK, ChannelIsOpen
<1>6. ClosingInv'
    BY <1>1 DEF AttemptFails, ConnectionFails, QueueTypeOK
<1>7. CASE closed
    <2>1. timers' = timers /\ doubled' = doubled
        BY <1>7 DEF AttemptFails, ConnectionFails, onDown, scheduleReconnect, QueueTypeOK
    <2> QED
        BY <1>1, <1>4, <1>5, <1>6, <1>7, <2>1 DEF QueueTypeOK
<1>8. CASE ~closed
    <2>1. PICK k \in {1, 2} : timers' = timers + k /\ doubled' = doubled + k - 1
        BY <1>8 DEF AttemptFails, ConnectionFails, onDown, scheduleReconnect, QueueTypeOK
    <2>2. Paired'
        BY <1>3, <1>8, <2>1, TryingCount DEF Paired, QueueTypeOK
    <2>3. doubled' \in Nat /\ timers' \in 0..(1 + doubled')
        BY <1>3, <1>8, <2>1, TryingCount DEF Paired, QueueTypeOK
    <2> QED
        BY <1>1, <1>4, <1>5, <1>6, <2>2, <2>3 DEF QueueTypeOK
<1> QED
    BY <1>7, <1>8

\* Whatever happens to the connections of a process that goes on.
QueueHappens ==
    \/ QueueStep
    \/ \E c \in Conns : AttemptFails(c) \/ LeftCloses(c)
                        \/ \E n \in {1, 2} : ConnectionFails(c, n)

\* All of it keeps the queue's part of the invariant and the count.
LEMMA QueueKeeps ==
    ASSUME QueueInv, closed \/ Paired, QueueHappens
    PROVE  QueueInv' /\ (closed \/ Paired') /\ closed' = closed
<1>1. closed' = closed
    BY DEF QueueHappens, QueueStep, ReconnectTimer, Connected, ChannelOpened, CloseDone,
           AttemptFails, LeftCloses, ConnectionFails
<1>2. CASE ReconnectTimer
    BY <1>1, <1>2, ReconnectKeeps
<1>3. CASE \E c \in Conns : \/ Connected(c) \/ ChannelOpened(c)
                            \/ CloseDone(c) \/ LeftCloses(c)
    BY <1>1, <1>3, AnswerKeeps
<1>4. CASE \E c \in Conns, n \in {1, 2} : AttemptFails(c) \/ ConnectionFails(c, n)
    BY <1>1, <1>4, FailureKeeps
<1> QED
    BY <1>2, <1>3, <1>4 DEF QueueHappens, QueueStep

\* And there is none of it where there is no process.
LEMMA NothingHappensWhenGone ==
    ASSUME QueueGone
    PROVE  ~QueueHappens
<1>1. ~ReconnectTimer
    BY DEF QueueGone, ReconnectTimer
<1>2. ASSUME NEW c \in Conns
      PROVE  /\ ~Connected(c) /\ ~ChannelOpened(c) /\ ~CloseDone(c)
             /\ ~AttemptFails(c) /\ ~LeftCloses(c)
             /\ \A n \in {1, 2} : ~ConnectionFails(c, n)
    <2>1. stage[c] = "none"
        BY DEF QueueGone
    <2> QED
        BY <2>1 DEF Connected, ChannelOpened, CloseDone, AttemptFails, LeftCloses, ConnectionFails
<1> QED
    BY <1>1, <1>2 DEF QueueHappens, QueueStep

\* A process that has ended.
LEMMA ResetClears ==
    ASSUME QueueReset
    PROVE  QueueGone' /\ QueueInv'
<1>1. closed' \in BOOLEAN
    BY DEF QueueReset
<1>2. timers' \in 0..(1 + doubled') /\ doubled' \in Nat
    BY DEF QueueReset
<1>3. In("closing")' = {}
    BY DEF QueueReset, In
<1>4. QueueGone'
    BY DEF QueueReset, QueueGone
<1> QED
    BY <1>1, <1>2, <1>3, <1>4 DEF QueueReset, QueueInv, QueueTypeOK, ChannelIsOpen, ClosingInv

\* A boot starts the one attempt the count begins with.
LEMMA BootKeeps ==
    ASSUME QueueInv, QueueGone, QueueBoot
    PROVE  QueueInv' /\ Paired' /\ ~closed'
<1>1. PICK c \in Conns : connectOnce(c)
    BY DEF QueueBoot
<1>2. Cardinality(Trying') = Cardinality(Trying) + 1
    BY <1>1, AttemptStarts DEF QueueInv
<1>3. Trying = {}
    BY DEF QueueGone, Trying, In
<1>4. Cardinality(Trying') = 1
    BY <1>2, <1>3, FS_EmptySet
<1>5. Paired'
    BY <1>4 DEF Paired, QueueGone, QueueBoot
<1> QED
    BY <1>1, <1>5, AttemptStarts
    DEF QueueInv, QueueTypeOK, ChannelIsOpen, ClosingInv, In, QueueGone, QueueBoot, connectOnce

\* close() gives up the channel before its connection.
LEMMA CloseKeeps ==
    ASSUME QueueInv, CloseQueue
    PROVE  QueueInv' /\ closed'
BY DEF QueueInv, QueueTypeOK, ChannelIsOpen, ClosingInv, In, CloseQueue

---------------------------------------------------------------------------
(* The sale keys.                                                          *)

\* A step that concerns one replica and makes no key stale keeps what is owed
\* if that replica still has ahead what it had.
LEMMA OwedKept ==
    ASSUME KeysOwed, NEW r \in Replicas,
           \A q \in Replicas \ {r} : link'[q] = link[q] /\ flush'[q] = flush[q],
           \A k \in (Stale \ orphans)' :
              k \in Stale \ orphans /\ (FlushAhead(r, k) => FlushAhead(r, k)')
    PROVE  KeysOwed'
<1> SUFFICES ASSUME NEW k \in (Stale \ orphans)'
             PROVE  \E q \in Replicas : FlushAhead(q, k)'
    BY DEF KeysOwed
<1>1. PICK q \in Replicas : FlushAhead(q, k)
    BY DEF KeysOwed
<1>2. CASE q = r
    BY <1>1, <1>2
<1>3. CASE q # r
    BY <1>1, <1>3 DEF FlushAhead
<1> QED
    BY <1>2, <1>3

\* Connecting, breaking and closing.  The flush that "ready" starts after an
\* outage has every key before it.
LEMMA ConnectionKeeps ==
    ASSUME RedisInv, NEW r \in Replicas,
           RedisBoot(r) \/ Ready(r) \/ LinkBreaks(r) \/ CloseEvent(r)
    PROVE  RedisInv'
<1> USE DEF RedisInv
<1>1. \A q \in Replicas \ {r} :
        link'[q] = link[q] /\ wasDown'[q] = wasDown[q] /\ flush'[q] = flush[q]
    BY DEF RedisTypeOK, RedisBoot, Ready, LinkBreaks, CloseEvent
<1>2. UNCHANGED <<keys, promised, direct, copy, orphans>>
    BY DEF RedisBoot, Ready, LinkBreaks, CloseEvent
<1>3. RedisTypeOK'
    <2>1. link' \in [Replicas -> {"off", "connecting", "ready", "broken", "down", "ended"}]
        BY DEF RedisTypeOK, RedisBoot, Ready, LinkBreaks, CloseEvent
    <2>2. wasDown' \in [Replicas -> BOOLEAN]
        BY DEF RedisTypeOK, RedisBoot, Ready, LinkBreaks, CloseEvent
    <2>3. Present \in SUBSET Keys
        BY DEF Present
    <2>4. flush' \in [Replicas -> [awaits : {"none", "scan", "del"},
                                   todo : SUBSET Keys, page : SUBSET Keys]]
        BY <2>3 DEF RedisTypeOK, RedisBoot, Ready, LinkBreaks, CloseEvent, NoFlush
    <2> QED
        BY <1>2, <2>1, <2>2, <2>4 DEF RedisTypeOK
<1>4. FlushInv'
    <2>1. /\ link'[r] = "down" => wasDown'[r]
          /\ flush'[r].awaits = "none" => flush'[r].todo = {}
          /\ flush'[r].awaits # "del" => flush'[r].page = {}
        BY DEF RedisTypeOK, RedisBoot, Ready, LinkBreaks, CloseEvent, FlushInv, NoFlush
    <2> QED
        BY <1>1, <2>1 DEF FlushInv
<1>5. ASSUME NEW k \in Stale \ orphans, FlushAhead(r, k) PROVE FlushAhead(r, k)'
    <2>1. k \in Present
        BY DEF Stale, Present
    <2>2. CASE Ready(r)
        <3>1. CASE wasDown[r]
            <4>1. k \in flush'[r].todo
                BY <2>1, <2>2, <3>1 DEF Ready, RedisTypeOK
            <4> QED
                BY <4>1 DEF FlushAhead
        <3>2. CASE ~wasDown[r]
            BY <1>5, <2>2, <3>2 DEF Ready, RedisTypeOK, FlushInv, FlushAhead
        <3> QED
            BY <3>1, <3>2
    <2>3. CASE RedisBoot(r) \/ LinkBreaks(r) \/ CloseEvent(r)
        BY <1>5, <2>3 DEF RedisBoot, LinkBreaks, CloseEvent, RedisTypeOK, FlushAhead
    <2> QED
        BY <2>2, <2>3
<1>6. (Stale \ orphans)' = Stale \ orphans
    BY <1>2 DEF Stale
<1>7. KeysOwed'
    BY <1>1, <1>5, <1>6, OwedKept
<1> QED
    BY <1>3, <1>4, <1>7

\* One SCAN puts every key the flush still has to come to on its page or
\* leaves it to the pages that follow.
LEMMA ScanKeeps ==
    ASSUME RedisInv, NEW r \in Replicas, FlushScan(r)
    PROVE  RedisInv'
<1> USE DEF RedisInv
<1>1. PICK page \in SUBSET Present :
        LET todo == (flush[r].todo \ page) \cap Present IN
        /\ page # {} \/ todo = {}
        /\ flush' = [flush EXCEPT ![r] =
                        IF page = {} THEN NoFlush
                        ELSE [awaits |-> "del", todo |-> todo, page |-> page]]
    BY DEF FlushScan
<1> DEFINE todo == (flush[r].todo \ page) \cap Present
<1>2. UNCHANGED <<keys, link, wasDown, promised, direct, copy, orphans>>
    BY DEF FlushScan
<1>3. flush'[r] = IF page = {} THEN NoFlush
                  ELSE [awaits |-> "del", todo |-> todo, page |-> page]
    BY <1>1 DEF RedisTypeOK
<1>4. \A q \in Replicas \ {r} : flush'[q] = flush[q]
    BY <1>1 DEF RedisTypeOK
<1>5. RedisTypeOK'
    <2>1. Present \in SUBSET Keys
        BY DEF Present
    <2>2. flush' \in [Replicas -> [awaits : {"none", "scan", "del"},
                                   todo : SUBSET Keys, page : SUBSET Keys]]
        BY <1>1, <2>1 DEF RedisTypeOK, NoFlush
    <2> QED
        BY <1>2, <2>2 DEF RedisTypeOK
<1>6. FlushInv'
    <2>1. /\ flush'[r].awaits = "none" => flush'[r].todo = {}
          /\ flush'[r].awaits # "del" => flush'[r].page = {}
        BY <1>3 DEF NoFlush
    <2> QED
        BY <1>2, <1>4, <2>1 DEF FlushInv
<1>7. ASSUME NEW k \in Stale \ orphans, FlushAhead(r, k) PROVE FlushAhead(r, k)'
    <2>1. k \in flush[r].todo
        BY <1>7 DEF FlushScan, FlushInv, FlushAhead
    <2>2. k \in todo \cup page /\ page # {}
        BY <1>1, <2>1 DEF Stale, Present
    <2>3. flush'[r].todo = todo /\ flush'[r].page = page
        BY <1>3, <2>2
    <2> QED
        BY <2>2, <2>3 DEF FlushAhead
<1>8. (Stale \ orphans)' = Stale \ orphans
    BY <1>2 DEF Stale
<1>9. KeysOwed'
    BY <1>2, <1>4, <1>7, <1>8, OwedKept
<1> QED
    BY <1>5, <1>6, <1>9

\* One DEL leaves nothing of its page.
LEMMA DelKeeps ==
    ASSUME RedisInv, NEW r \in Replicas, FlushDel(r)
    PROVE  RedisInv'
<1> USE DEF RedisInv
<1>1. /\ UNCHANGED <<link, wasDown, promised, direct, copy>>
      /\ keys' = [k \in Keys |-> IF k \in flush[r].page THEN "absent" ELSE keys[k]]
      /\ orphans' = orphans \ flush[r].page
      /\ flush'[r] = [awaits |-> "scan", todo |-> flush[r].todo, page |-> {}]
      /\ \A q \in Replicas \ {r} : flush'[q] = flush[q]
    BY DEF FlushDel, RedisTypeOK
<1>2. RedisTypeOK'
    <2>1. flush' \in [Replicas -> [awaits : {"none", "scan", "del"},
                                   todo : SUBSET Keys, page : SUBSET Keys]]
        BY DEF FlushDel, RedisTypeOK
    <2> QED
        BY <1>1, <2>1 DEF RedisTypeOK
<1>3. FlushInv'
    BY <1>1 DEF FlushInv
<1>4. ASSUME NEW k \in (Stale \ orphans)'
      PROVE  k \in Stale \ orphans /\ (FlushAhead(r, k) => FlushAhead(r, k)')
    <2>1. k \in Stale /\ k \notin orphans /\ k \notin flush[r].page
        BY <1>1 DEF Stale
    <2> QED
        BY <1>1, <2>1 DEF FlushAhead
<1>5. KeysOwed'
    BY <1>1, <1>4, OwedKept
<1> QED
    BY <1>2, <1>3, <1>5

\* A refused flush, a client that quits and a process that ends forsake what
\* they had ahead: those keys are orphans, or deleted by the last command.
LEMMA ForsakingKeeps ==
    ASSUME RedisInv, NEW r \in Replicas,
           FlushRefused(r) \/ RedisQuit(r) \/ RedisReset(r)
    PROVE  RedisInv'
<1> USE DEF RedisInv
<1>1. /\ \A q \in Replicas \ {r} :
           link'[q] = link[q] /\ wasDown'[q] = wasDown[q] /\ flush'[q] = flush[q]
      /\ flush'[r] = NoFlush
      /\ link'[r] # "down"
    BY DEF RedisTypeOK, FlushRefused, RedisQuit, RedisReset
<1>2. RedisTypeOK'
    <2>1. Stale \in SUBSET Keys /\ Forsaken(r) \in SUBSET Keys
        BY DEF Stale, Forsaken
    <2>2. flush' \in [Replicas -> [awaits : {"none", "scan", "del"},
                                   todo : SUBSET Keys, page : SUBSET Keys]]
        BY DEF FlushRefused, RedisQuit, RedisReset, RedisTypeOK, NoFlush
    <2>3. /\ link' \in [Replicas -> {"off", "connecting", "ready", "broken", "down", "ended"}]
          /\ wasDown' \in [Replicas -> BOOLEAN]
        BY DEF FlushRefused, RedisQuit, RedisReset, RedisTypeOK
    <2>4. keys' \in [Keys -> {"absent", "exact", "stale"}] /\ orphans' \in SUBSET Keys
        BY <2>1 DEF FlushRefused, RedisQuit, RedisReset, RedisTypeOK
    <2>5. /\ promised' \in SUBSET (Requests \X Keys)
          /\ direct' \in SUBSET (Requests \X Replicas \X Keys)
          /\ copy' \in [Keys -> {"none", "whole", "short"}]
        BY DEF FlushRefused, RedisQuit, RedisReset, RedisTypeOK
    <2> QED
        BY <2>2, <2>3, <2>4, <2>5 DEF RedisTypeOK
<1>3. FlushInv'
    BY <1>1 DEF FlushInv, NoFlush
<1>4. ASSUME NEW k \in (Stale \ orphans)'
      PROVE  k \in Stale \ orphans /\ ~FlushAhead(r, k)
    <2>1. CASE FlushRefused(r)
        BY <1>4, <2>1 DEF FlushRefused, Stale, FlushAhead
    <2>2. CASE RedisQuit(r)
        <3>1. k \in Stale
            BY <1>4, <2>2 DEF RedisQuit, Stale
        <3>2. k \notin IF link[r] = "ready" THEN flush[r].page ELSE {}
            BY <1>4, <2>2 DEF RedisQuit, Stale
        <3>3. k \notin orphans \cup Forsaken(r)
            BY <1>4, <2>2, <3>2 DEF RedisQuit
        <3> QED
            BY <3>1, <3>3 DEF Forsaken
    <2>3. CASE RedisReset(r)
        BY <1>4, <2>3 DEF RedisReset, Stale, Forsaken
    <2> QED
        BY <2>1, <2>2, <2>3
<1>5. KeysOwed'
    BY <1>1, <1>4, OwedKept
<1> QED
    BY <1>2, <1>3, <1>5

\* A purchase that has not been written yet, and what the warm script reads,
\* change no key.
LEMMA UnderWayKeeps ==
    ASSUME RedisInv,
           \/ \E q \in Requests, r \in Replicas, k \in Keys :
                 reserve(q, r, k) \/ ReserveRefused(q, r, k)
           \/ \E q \in Requests : RequestEnds(q)
           \/ WarmReads
    PROVE  RedisInv'
<1> USE DEF RedisInv
<1>1. UNCHANGED <<keys, link, wasDown, flush, orphans>>
    BY DEF reserve, ReserveRefused, Reserved, GoesDirect, RequestEnds, WarmReads, linkVars
<1>2. /\ promised' \in SUBSET (Requests \X Keys)
      /\ direct' \in SUBSET (Requests \X Replicas \X Keys)
    BY DEF reserve, ReserveRefused, Reserved, GoesDirect, RequestEnds, WarmReads, RedisTypeOK
<1>3. copy' \in [Keys -> {"none", "whole", "short"}]
    BY DEF reserve, ReserveRefused, Reserved, GoesDirect, RequestEnds, WarmReads, Overtake,
           RedisTypeOK
<1>4. Stale' = Stale
    BY <1>1 DEF Stale
<1>5. KeysOwed'
    BY <1>1, <1>4 DEF KeysOwed, FlushAhead
<1> QED
    BY <1>1, <1>2, <1>3, <1>5 DEF RedisTypeOK, FlushInv

\* A write past a key makes it stale while its replica has a flush ahead of it,
\* or makes it an orphan.
LEMMA DirectWriteKeeps ==
    ASSUME RedisInv, NEW q \in Requests, NEW r \in Replicas, NEW k \in Keys,
           DirectWrite(q, r, k)
    PROVE  RedisInv'
<1> USE DEF RedisInv
<1>1. /\ UNCHANGED <<link, wasDown, flush, promised>>
      /\ direct' = direct \ {<<q, r, k>>}
      /\ keys' = [keys EXCEPT ![k] = IF @ = "exact" THEN "stale" ELSE @]
      /\ orphans' = IF keys[k] = "exact" /\ ~FlushAhead(r, k)
                    THEN orphans \cup {k} ELSE orphans
      /\ copy' = [copy EXCEPT ![k] = IF @ = "none" THEN "none" ELSE "short"]
    BY DEF DirectWrite, Overtake, linkVars
<1>2. RedisTypeOK' /\ FlushInv'
    BY <1>1 DEF RedisTypeOK, FlushInv
<1>3. \A p \in Replicas, j \in Keys : FlushAhead(p, j)' <=> FlushAhead(p, j)
    BY <1>1 DEF FlushAhead
<1>4. ASSUME NEW j \in (Stale \ orphans)'
      PROVE  \E p \in Replicas : FlushAhead(p, j)'
    <2>1. j \in Keys
        BY DEF Stale
    <2>2. CASE j \in Stale \ orphans
        BY <1>3, <2>1, <2>2 DEF KeysOwed
    <2>3. CASE j \notin Stale \ orphans
        <3>1. j = k /\ keys[k] = "exact" /\ k \notin orphans'
            BY <1>1, <2>1, <2>3 DEF Stale, RedisTypeOK
        <3>2. FlushAhead(r, k)
            BY <1>1, <3>1
        <3> QED
            BY <1>3, <3>1, <3>2
    <2> QED
        BY <2>2, <2>3
<1>5. KeysOwed'
    BY <1>4 DEF KeysOwed
<1> QED
    BY <1>2, <1>5

\* A Redis that comes back older has broken the sockets of the replicas that
\* were connected, and they flush; without any, its old keys are orphans.
LEMMA RestartKeeps ==
    ASSUME RedisInv, RedisRestarts
    PROVE  RedisInv'
<1> USE DEF RedisInv
<1>1. PICK old \in SUBSET Present, lost \in SUBSET Present :
        /\ keys' = [k \in Keys |-> IF k \in lost THEN "absent"
                                   ELSE IF k \in old THEN "stale" ELSE keys[k]]
        /\ orphans' = (orphans \ lost)
                      \cup (IF \A r \in Replicas : link[r] \in {"off", "connecting", "ended"}
                            THEN old \ lost ELSE {})
    BY DEF RedisRestarts
<1>2. /\ link' = [r \in Replicas |-> IF link[r] = "ready" THEN "broken" ELSE link[r]]
      /\ UNCHANGED <<wasDown, flush, promised, direct, copy>>
    BY DEF RedisRestarts
<1>3. RedisTypeOK'
    BY <1>1, <1>2 DEF RedisTypeOK, Present
<1>4. FlushInv'
    BY <1>2 DEF RedisTypeOK, FlushInv
<1>5. \A q \in Replicas, j \in Keys : FlushAhead(q, j) => FlushAhead(q, j)'
    BY <1>2 DEF RedisTypeOK, FlushAhead
<1>6. ASSUME NEW j \in (Stale \ orphans)'
      PROVE  \E q \in Replicas : FlushAhead(q, j)'
    <2>1. j \in Keys /\ j \notin lost /\ j \notin orphans /\ (j \in old \/ j \in Stale)
        BY <1>1 DEF Stale
    <2>2. CASE j \in Stale
        BY <1>5, <2>1, <2>2 DEF KeysOwed
    <2>3. CASE j \in old
        <3>1. PICK r \in Replicas : link[r] \notin {"off", "connecting", "ended"}
            BY <1>1, <2>1, <2>3
        <3>2. link[r] \in {"ready", "broken", "down"}
            BY <3>1 DEF RedisTypeOK
        <3> QED
            BY <1>2, <3>2 DEF FlushAhead
    <2> QED
        BY <2>1, <2>2, <2>3
<1>7. KeysOwed'
    BY <1>6 DEF KeysOwed
<1> QED
    BY <1>3, <1>4, <1>7

\* A key is warmed from a row that is whole, or is an orphan afterwards.
LEMMA WarmKeeps ==
    ASSUME RedisInv, NEW k \in Keys, WarmSets(k)
    PROVE  RedisInv'
<1> USE DEF RedisInv
<1>1. /\ UNCHANGED <<link, wasDown, flush, promised, direct>>
      /\ keys' = [keys EXCEPT ![k] = IF copy[k] = "whole" THEN "exact" ELSE "stale"]
      /\ orphans' = IF copy[k] = "whole" THEN orphans \ {k} ELSE orphans \cup {k}
      /\ copy' = [copy EXCEPT ![k] = "none"]
    BY DEF WarmSets, linkVars
<1>2. RedisTypeOK' /\ FlushInv'
    BY <1>1 DEF RedisTypeOK, FlushInv
<1>3. \A j \in (Stale \ orphans)' : j \in Stale \ orphans
    BY <1>1 DEF RedisTypeOK, Stale
<1>4. KeysOwed'
    BY <1>1, <1>3 DEF KeysOwed, FlushAhead
<1> QED
    BY <1>2, <1>4

---------------------------------------------------------------------------
(* The process with both its connections.                                  *)

\* Nothing has been started.
LEMMA ReplicaInitially == Init => ReplicaInv
<1> SUFFICES ASSUME Init PROVE ReplicaInv
    OBVIOUS
<1> USE DEF Init
<1>1. QueueGone
    BY DEF QueueInit, QueueGone
<1>2. QueueInv
    <2>1. closed \in BOOLEAN
        BY DEF QueueInit
    <2>2. timers \in 0..(1 + doubled) /\ doubled \in Nat
        BY DEF QueueInit
    <2>3. In("closing") = {}
        BY DEF QueueInit, In
    <2> QED
        BY <2>1, <2>2, <2>3 DEF QueueInit, QueueInv, QueueTypeOK, ChannelIsOpen, ClosingInv
<1>3. RedisTypeOK /\ FlushInv
    BY DEF RedisInit, RedisTypeOK, FlushInv, NoFlush
<1>4. KeysOwed
    BY DEF RedisInit, KeysOwed, Stale
<1>5. ProcessType
    BY DEF ProcessType
<1>6. LifeInv
    BY <1>1 DEF LifeInv
<1> QED
    BY <1>2, <1>3, <1>4, <1>5, <1>6 DEF ReplicaInv, RedisInv

\* An untouched half stays as it is.
LEMMA Frames ==
    /\ ReplicaInv /\ UNCHANGED queueVars => QueueInv' /\ closed' = closed
                                            /\ (Paired => Paired') /\ (QueueGone => QueueGone')
    /\ ReplicaInv /\ UNCHANGED redisVars => RedisInv'
<1>1. ASSUME ReplicaInv, UNCHANGED queueVars
      PROVE  QueueInv' /\ closed' = closed /\ (Paired => Paired') /\ (QueueGone => QueueGone')
    <2>1. Trying' = Trying /\ In("closing")' = In("closing")
        BY <1>1 DEF queueVars, Trying, In
    <2> QED
        BY <1>1, <2>1 DEF ReplicaInv, queueVars, QueueInv, QueueTypeOK, ChannelIsOpen,
                          ClosingInv, Paired, QueueGone
<1>2. ASSUME ReplicaInv, UNCHANGED redisVars
      PROVE  RedisInv'
    <2>1. Stale' = Stale
        BY <1>2 DEF redisVars, Stale
    <2>2. KeysOwed'
        BY <1>2, <2>1 DEF ReplicaInv, RedisInv, redisVars, KeysOwed, FlushAhead
    <2> QED
        BY <1>2, <2>2 DEF ReplicaInv, redisVars, RedisInv, RedisTypeOK, FlushInv
<1> QED
    BY <1>1, <1>2

\* A process starts, is told to stop, or ends.  Only Self's own life moves its
\* queue connection.
LEMMA LivesKeep ==
    ASSUME ReplicaInv, NEW r \in Replicas, Boot(r) \/ Shutdown(r) \/ ProcessEnds(r)
    PROVE  QueueInv' /\ RedisInv' /\ LifeInv' /\ life' \in [Replicas -> {"down", "up", "stopping"}]
<1> USE DEF ReplicaInv
<1>1. /\ life' \in [Replicas -> {"down", "up", "stopping"}]
      /\ \A q \in Replicas \ {r} : life'[q] = life[q]
    BY DEF ProcessType, Boot, Shutdown, ProcessEnds
<1>2. RedisInv'
    <2>1. CASE Boot(r)
        BY <2>1, ConnectionKeeps DEF Boot
    <2>2. CASE Shutdown(r)
        BY <2>2, Frames DEF Shutdown
    <2>3. CASE ProcessEnds(r)
        BY <2>3, ForsakingKeeps DEF ProcessEnds
    <2> QED
        BY <2>1, <2>2, <2>3
<1>3. QueueInv' /\ LifeInv'
    <2>1. CASE r # Self
        <3>1. UNCHANGED queueVars
            BY <2>1 DEF Boot, Shutdown, ProcessEnds
        <3>2. life'[Self] = life[Self]
            BY <1>1, <2>1
        <3>3. QueueInv' /\ closed' = closed /\ (Paired => Paired') /\ (QueueGone => QueueGone')
            BY <3>1, Frames
        <3> QED
            BY <3>2, <3>3 DEF LifeInv
    <2>2. CASE r = Self /\ Boot(r)
        <3>1. life[Self] = "down" /\ life'[Self] = "up" /\ QueueBoot
            BY <2>2 DEF Boot, ProcessType
        <3>2. QueueInv' /\ Paired' /\ ~closed'
            BY <3>1, BootKeeps DEF LifeInv
        <3> QED
            BY <3>1, <3>2 DEF LifeInv
    <2>3. CASE r = Self /\ Shutdown(r)
        <3>1. life[Self] = "up" /\ life'[Self] = "stopping" /\ UNCHANGED queueVars
            BY <2>3 DEF Shutdown, ProcessType
        <3>2. QueueInv' /\ closed' = closed /\ (Paired => Paired')
            BY <3>1, Frames
        <3> QED
            BY <3>1, <3>2 DEF LifeInv
    <2>4. CASE r = Self /\ ProcessEnds(r)
        <3>1. life'[Self] = "down" /\ QueueReset
            BY <2>4 DEF ProcessEnds, ProcessType
        <3>2. QueueInv' /\ QueueGone'
            BY <3>1, ResetClears
        <3> QED
            BY <3>1, <3>2 DEF LifeInv
    <2> QED
        BY <2>1, <2>2, <2>3, <2>4
<1> QED
    BY <1>1, <1>2, <1>3

\* The destroy hooks: close() of the queue, or the end of a client of Redis.
LEMMA HooksKeep ==
    ASSUME ReplicaInv, Hooks
    PROVE  ReplicaInv'
<1> USE DEF ReplicaInv
<1>1. ProcessType' /\ life' = life
    BY DEF Hooks, ProcessType
<1>2. CASE DestroyQueue
    <2>1. RedisInv'
        BY <1>2, Frames DEF DestroyQueue
    <2>2. QueueInv' /\ closed' /\ life[Self] = "stopping"
        BY <1>2, CloseKeeps DEF DestroyQueue
    <2>3. LifeInv'
        BY <1>1, <2>2 DEF LifeInv
    <2> QED
        BY <1>1, <2>1, <2>2, <2>3
<1>3. ASSUME NEW r \in Replicas, DestroyRedis(r) PROVE ReplicaInv'
    <2>1. RedisInv'
        BY <1>3, ForsakingKeeps DEF DestroyRedis
    <2>2. QueueInv' /\ closed' = closed /\ (Paired => Paired') /\ (QueueGone => QueueGone')
        BY <1>3, Frames DEF DestroyRedis
    <2>3. LifeInv'
        BY <1>1, <2>2 DEF LifeInv
    <2> QED
        BY <1>1, <2>1, <2>2, <2>3
<1> QED
    BY <1>2, <1>3 DEF Hooks

\* Nobody's life changes: the count of a running process is kept.
LEMMA RunningKeeps ==
    ASSUME ReplicaInv, UNCHANGED life, UNCHANGED redisVars, QueueHappens
    PROVE  QueueInv' /\ RedisInv' /\ LifeInv'
<1> USE DEF ReplicaInv
<1>1. RedisInv'
    BY Frames
<1>2. ~QueueGone
    BY NothingHappensWhenGone
<1>3. life[Self] = "up" \/ life[Self] = "stopping"
    BY <1>2 DEF LifeInv, ProcessType
<1>4. closed \/ Paired
    BY <1>3 DEF LifeInv
<1>5. QueueInv' /\ (closed \/ Paired') /\ closed' = closed
    BY <1>4, QueueKeeps
<1> QED
    BY <1>1, <1>3, <1>5 DEF LifeInv

\* The connection to Redis changes, or the keys in it.
LEMMA RedisKeeps ==
    ASSUME ReplicaInv, UNCHANGED <<queueVars, life>>,
           \/ \E r \in Replicas : \/ Ready(r) \/ FlushStep(r) \/ CloseEvent(r)
                                  \/ LinkBreaks(r) \/ FlushRefused(r)
           \/ \E q \in Requests, r \in Replicas, k \in Keys :
                 reserve(q, r, k) \/ ReserveRefused(q, r, k) \/ DirectWrite(q, r, k)
           \/ \E q \in Requests : RequestEnds(q)
           \/ RedisRestarts
           \/ WarmReads
           \/ \E k \in Keys : WarmSets(k)
    PROVE  QueueInv' /\ RedisInv' /\ LifeInv'
<1> USE DEF ReplicaInv
<1>1. RedisInv'
    BY ConnectionKeeps, ScanKeeps, DelKeeps, ForsakingKeeps, UnderWayKeeps, DirectWriteKeeps,
       RestartKeeps, WarmKeeps DEF FlushStep
<1>2. QueueInv' /\ closed' = closed /\ (Paired => Paired') /\ (QueueGone => QueueGone')
    BY Frames
<1> QED
    BY <1>1, <1>2 DEF LifeInv

\* No step breaks the invariant.
LEMMA ReplicaStep == ReplicaInv /\ [Next]_replicaVars => ReplicaInv'
<1> SUFFICES ASSUME ReplicaInv, [Next]_replicaVars PROVE ReplicaInv'
    OBVIOUS
<1> USE DEF ReplicaInv
<1>1. CASE UNCHANGED replicaVars
    BY <1>1, Frames DEF replicaVars, ProcessType, LifeInv
<1>2. ASSUME NEW r \in Replicas, Boot(r) \/ Exit(r)
      PROVE  ReplicaInv'
    BY <1>2, LivesKeep DEF Boot, Exit, ProcessType
<1>3. CASE Queue
    BY <1>3, RunningKeeps DEF Queue, QueueHappens, ProcessType
<1>4. CASE (\E r \in Replicas : Redis(r)) \/ Buyers \/ WarmScript
    <2>1. UNCHANGED <<queueVars, life, faults>>
        BY <1>4 DEF Redis, Buyers, WarmScript
    <2>2. QueueInv' /\ RedisInv' /\ LifeInv'
        BY <1>4, <2>1, RedisKeeps DEF Redis, RedisStep, Buyers, WarmScript
    <2> QED
        BY <2>1, <2>2 DEF ProcessType
<1>5. CASE Fault
    <2>1. faults' \in 0..MaxFaults
        BY <1>5 DEF Fault, ProcessType
    <2>2. CASE QueueFault
        BY <2>1, <2>2, RunningKeeps DEF QueueFault, QueueHappens, ProcessType
    <2>3. CASE RedisFault
        <3>1. UNCHANGED <<queueVars, life>>
            BY <2>3 DEF RedisFault
        <3>2. QueueInv' /\ RedisInv' /\ LifeInv'
            BY <2>3, <3>1, RedisKeeps DEF RedisFault
        <3> QED
            BY <2>1, <3>1, <3>2 DEF ProcessType
    <2>4. CASE ProcessFault
        <3>1. PICK r \in Replicas : Shutdown(r) \/ ProcessEnds(r)
            BY <2>4 DEF ProcessFault, UnheardError
        <3> QED
            BY <2>1, <3>1, LivesKeep DEF ProcessType
    <2> QED
        BY <1>5, <2>2, <2>3, <2>4 DEF Fault
<1>6. CASE Hooks
    BY <1>6, HooksKeep
<1> QED
    BY <1>1, <1>2, <1>3, <1>4, <1>5, <1>6 DEF Next

---------------------------------------------------------------------------
(* The theorems.                                                           *)

\* The inductive invariant of ApiReplica.
THEOREM ReplicaInvariant == Spec => []ReplicaInv
<1>1. Init => ReplicaInv
    BY ReplicaInitially
<1>2. ReplicaInv /\ [Next]_replicaVars => ReplicaInv'
    BY ReplicaStep
<1> QED
    BY <1>1, <1>2, PTL DEF Spec

\* Every variable keeps its type; in particular a process has never more
\* reconnects due (scheduleReconnect) than one and one for each failure that
\* came as two events.
THEOREM ReplicaTypeCorrect == Spec => []TypeOK
<1>1. ReplicaInv => TypeOK
    BY DEF ReplicaInv, QueueInv, RedisInv, ProcessType, TypeOK
<1> QED
    BY <1>1, ReplicaInvariant, PTL

\* publish() is never handed the channel of a connection known to have failed
\* or to be closing (connection.ts), with any number of old connections whose
\* events are still to come.
THEOREM ChannelStaysOpen == Spec => []ChannelIsOpen
<1>1. ReplicaInv => ChannelIsOpen
    BY DEF ReplicaInv, QueueInv
<1> QED
    BY <1>1, ReplicaInvariant, PTL

\* Until its queue is closed, a process has an attempt, a connection in use or
\* a reconnect due, and at most one more for each failure that came as two
\* events (connection.ts).
THEOREM ReconnectsStayBalanced == Spec => []ReconnectsBalanced
<1>1. ReplicaInv => ReconnectsBalanced
    <2> SUFFICES ASSUME ReplicaInv, life[Self] # "down", ~closed
                 PROVE  timers + Cardinality(In("connecting")) + Cardinality(In("opening"))
                            + Cardinality(In("live")) \in 1..(1 + doubled)
        BY DEF ReconnectsBalanced
    <2> DEFINE a == Cardinality(In("connecting"))
               b == Cardinality(In("opening"))
               d == Cardinality(In("live"))
               n == Cardinality(Trying)
    <2>1. timers + n = 1 + doubled /\ timers \in Nat /\ doubled \in Nat
        BY DEF ReplicaInv, LifeInv, Paired, QueueInv, QueueTypeOK
    <2>2. n \in Nat /\ a + b + d = n
        BY TryingCount DEF ReplicaInv, QueueInv
    <2>3. a \in Nat /\ b \in Nat /\ d \in Nat
        <3>1. \A s : IsFiniteSet(In(s))
            BY FS_Subset DEF In
        <3> QED
            BY <3>1, FS_CardinalityType
    <2> HIDE DEF a, b, d, n
    <2>4. timers + a + b + d = 1 + doubled
        BY <2>1, <2>2, <2>3
    <2>5. timers + a + b + d \in 1..(1 + doubled)
        BY <2>1, <2>4
    <2> QED
        BY <2>5 DEF a, b, d
<1> QED
    BY <1>1, ReplicaInvariant, PTL

\* Keys that missed a purchase made during an outage are owed a flush by some
\* replica, whatever the overlaps of outages, flushes, warm-ups, requests and
\* shutdowns, except for the causes counted as orphans (redis.provider.ts).
THEOREM StaleKeysStayOwed == Spec => []StaleKeysAreOwedAFlush
<1>1. ReplicaInv => StaleKeysAreOwedAFlush
    BY DEF ReplicaInv, RedisInv, FlushInv, KeysOwed, FlushAhead, StaleKeysAreOwedAFlush
<1> QED
    BY <1>1, ReplicaInvariant, PTL

\* The channel in use is dropped only with its own connection or by close(),
\* never by a late event of an older connection.
THEOREM ChannelDropsAreOwn == Spec => OnlyOwnFailureDropsChannel
<1> DEFINE Own == current # NoConn /\ current' = NoConn => stage'[current] # "live" \/ closed'
<1>1. ASSUME ReplicaInv, Next, current # NoConn, current' = NoConn
      PROVE  stage'[current] # "live" \/ closed'
    <2>1. current \in Conns
        BY <1>1 DEF ReplicaInv, QueueInv, QueueTypeOK
    <2>2. CASE CloseQueue
        BY <2>2 DEF CloseQueue
    <2>3. CASE QueueReset
        BY <2>1, <2>3 DEF QueueReset
    <2>4. ASSUME NEW c \in Conns, NEW n \in {1, 2}, CloseDone(c) \/ ConnectionFails(c, n)
          PROVE  stage'[current] # "live"
        <3>1. c = current
            BY <1>1, <2>4 DEF CloseDone, ConnectionFails, onDown
        <3> QED
            BY <1>1, <2>4, <3>1 DEF CloseDone, ConnectionFails, ReplicaInv, QueueInv, QueueTypeOK
    <2>5. CASE Queue
        BY <1>1, <2>4, <2>5
        DEF Queue, QueueStep, ReconnectTimer, Connected, ChannelOpened
    <2>6. CASE QueueFault
        BY <1>1, <2>4, <2>6 DEF QueueFault, AttemptFails, LeftCloses
    <2>7. ASSUME NEW r \in Replicas, Boot(r) \/ Shutdown(r) \/ ProcessEnds(r)
          PROVE  QueueReset
        BY <1>1, <2>7 DEF Boot, Shutdown, ProcessEnds, QueueBoot, queueVars
    <2>8. CASE \E r \in Replicas : Boot(r) \/ Exit(r)
        BY <2>3, <2>7, <2>8 DEF Exit
    <2>9. CASE ProcessFault
        BY <2>3, <2>7, <2>9 DEF ProcessFault, UnheardError
    <2>10. CASE Hooks
        BY <1>1, <2>2, <2>10 DEF Hooks, DestroyQueue, DestroyRedis, queueVars
    <2>11. CASE (\E r \in Replicas : Redis(r)) \/ Buyers \/ WarmScript \/ RedisFault
        BY <1>1, <2>11 DEF Redis, Buyers, WarmScript, RedisFault, queueVars
    <2> QED
        BY <1>1, <2>5, <2>6, <2>8, <2>9, <2>10, <2>11 DEF Next, Fault
<1>2. ReplicaInv /\ [Next]_replicaVars => [Own]_replicaVars
    BY <1>1
<1> QED
    BY <1>2, ReplicaInvariant, PTL DEF Spec, OnlyOwnFailureDropsChannel

=============================================================================
