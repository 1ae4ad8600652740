---------------------------- MODULE DrainProofs ----------------------------
(***************************************************************************)
(* What holds of the drain loop for any messages, prefetch, batch size and *)
(* attempts, through crashes and shutdowns: an acknowledgement settles     *)
(* exactly the batch, nothing waits without a flush to come, and the       *)
(* process keeps the promise of WriteWorker.                               *)
(***************************************************************************)
EXTENDS Drain, SequenceTheorems, FiniteSetTheorems, TLAPS

USE DrainConstants

---------------------------------------------------------------------------
(* Sequences of messages.                                                  *)

\* b and then p are the first elements of d.
Held(b, p, d) ==
    /\ Len(b) + Len(p) <= Len(d)
    /\ \A i \in 1..Len(b) : d[i] = b[i]
    /\ \A i \in 1..Len(p) : d[Len(b) + i] = p[i]

\* HeldInOrder, element by element.
LEMMA PrefixOfConcat ==
    ASSUME NEW b \in Seq(Messages), NEW p \in Seq(Messages), NEW d \in Seq(Messages)
    PROVE  IsPrefix(b \o p, d) <=> Held(b, p, d)
<1> DEFINE bp == b \o p
           n == Len(b) + Len(p)
<1>1. /\ bp \in Seq(Messages) /\ Len(bp) = n /\ n \in Nat
      /\ \A i \in 1..n : bp[i] = IF i <= Len(b) THEN b[i] ELSE p[i - Len(b)]
    BY ConcatProperties, LenProperties
<1>2. SubSeq(bp, 1, Len(bp)) = bp
    BY <1>1, SubSeqFull
<1>3. ASSUME n <= Len(d)
      PROVE  bp = SubSeq(d, 1, n) <=> \A i \in 1..n : bp[i] = d[i]
    <2>1. \A i \in 1..n : d[i] \in Messages
        BY <1>1, <1>3, ElementOfSeq, LenProperties
    <2>2. /\ SubSeq(d, 1, n) \in Seq(Messages)
          /\ Len(SubSeq(d, 1, n)) = n
          /\ \A i \in 1..n : SubSeq(d, 1, n)[i] = d[i]
        BY <1>1, <2>1, SubSeqProperties
    <2> HIDE DEF bp, n
    <2>3. ASSUME \A i \in 1..n : bp[i] = d[i] PROVE bp = SubSeq(d, 1, n)
        BY <1>1, <2>2, <2>3, SeqEqual
    <2> QED
        BY <2>2, <2>3
<1>4. (\A i \in 1..n : bp[i] = d[i]) <=>
            /\ \A i \in 1..Len(b) : d[i] = b[i]
            /\ \A i \in 1..Len(p) : d[Len(b) + i] = p[i]
    <2>1. Len(b) \in Nat /\ Len(p) \in Nat
        BY LenProperties
    <2>2. ASSUME \A i \in 1..n : bp[i] = d[i], NEW i \in 1..Len(b) PROVE d[i] = b[i]
        BY <1>1, <2>1, <2>2
    <2>3. ASSUME \A i \in 1..n : bp[i] = d[i], NEW i \in 1..Len(p) PROVE d[Len(b) + i] = p[i]
        <3>1. Len(b) + i \in 1..n /\ ~(Len(b) + i <= Len(b)) /\ (Len(b) + i) - Len(b) = i
            BY <2>1
        <3> HIDE DEF bp, n
        <3> QED
            BY <1>1, <2>3, <3>1
    <2>4. ASSUME \A i \in 1..Len(b) : d[i] = b[i],
                 \A i \in 1..Len(p) : d[Len(b) + i] = p[i],
                 NEW i \in 1..n
          PROVE  bp[i] = d[i]
        <3>1. CASE i <= Len(b)
            BY <1>1, <2>1, <2>4, <3>1
        <3>2. CASE ~(i <= Len(b))
            <4>1. i - Len(b) \in 1..Len(p) /\ Len(b) + (i - Len(b)) = i
                BY <2>1, <3>2
            <4>2. bp[i] = p[i - Len(b)]
                BY <1>1, <3>2
            <4> QED
                BY <2>4, <4>1, <4>2
        <3> QED
            BY <3>1, <3>2
    <2> QED
        BY <2>2, <2>3, <2>4
<1> HIDE DEF bp
<1>5. IsPrefix(bp, d) <=> n <= Len(d) /\ bp = SubSeq(d, 1, n)
    BY <1>1, <1>2 DEF IsPrefix
<1> QED
    BY <1>3, <1>4, <1>5 DEF Held, bp

\* How many positions come after the first a.
LEMMA IntervalCount ==
    ASSUME NEW a \in Nat, NEW c \in Nat, a <= c
    PROVE  Cardinality((a + 1)..c) = c - a
<1>1. Cardinality((a + 1)..c) = IF a + 1 > c THEN 0 ELSE c - (a + 1) + 1
    BY FS_Interval
<1>2. CASE a + 1 > c
    BY <1>1, <1>2
<1>3. CASE ~(a + 1 > c)
    BY <1>1, <1>3
<1> QED
    BY <1>2, <1>3

\* Membership, element by element.
LEMMA InSequence ==
    ASSUME NEW s \in Seq(Messages)
    PROVE  /\ ToSet(s) \subseteq Messages
           /\ \A m : m \in ToSet(s) <=> \E i \in 1..Len(s) : s[i] = m
<1>1. DOMAIN s = 1..Len(s) /\ \A i \in 1..Len(s) : s[i] \in Messages
    BY LenProperties, ElementOfSeq
<1> QED
    BY <1>1 DEF ToSet

\* The last element appended.
LEMMA InAppend ==
    ASSUME NEW s \in Seq(Messages), NEW m \in Messages
    PROVE  /\ Append(s, m) \in Seq(Messages)
           /\ Len(Append(s, m)) = Len(s) + 1
           /\ Append(s, m)[Len(s) + 1] = m
           /\ \A i \in 1..Len(s) : Append(s, m)[i] = s[i]
           /\ ToSet(Append(s, m)) = ToSet(s) \cup {m}
<1> DEFINE t == Append(s, m)
<1>1. /\ t \in Seq(Messages)
      /\ Len(t) = Len(s) + 1 /\ Len(s) \in Nat
      /\ \A i \in 1..Len(s) : t[i] = s[i]
      /\ t[Len(s) + 1] = m
    BY AppendProperties, LenProperties
<1>2. \A i \in 1..Len(t) : i \in 1..Len(s) \/ i = Len(s) + 1
    BY <1>1
<1>3. 1..Len(s) \subseteq 1..Len(t) /\ Len(s) + 1 \in 1..Len(t)
    BY <1>1
<1> HIDE DEF t
<1>4. \A x : x \in ToSet(t) <=> x \in ToSet(s) \/ x = m
    BY <1>1, <1>2, <1>3, InSequence
<1> QED
    BY <1>1, <1>4 DEF t

\* The elements after the first k of a sequence without repetitions.
LEMMA InRest ==
    ASSUME NEW d \in Seq(Messages), NoRepeats(d), NEW k \in 0..Len(d)
    PROVE  LET rest == SubSeq(d, k + 1, Len(d))
               first == SubSeq(d, 1, k)
           IN  /\ rest \in Seq(Messages) /\ NoRepeats(rest)
               /\ Len(rest) = Len(d) - k
               /\ \A i \in 1..Len(rest) : rest[i] = d[k + i]
               /\ ToSet(rest) = ToSet(d) \ ToSet(first)
               /\ first \in Seq(Messages) /\ Len(first) = k
               /\ \A i \in 1..k : first[i] = d[i]
<1> DEFINE rest == SubSeq(d, k + 1, Len(d))
           first == SubSeq(d, 1, k)
           n == Len(d)
<1>1. /\ n \in Nat /\ k \in Nat /\ k <= n /\ DOMAIN d = 1..n
      /\ \A i \in 1..n : d[i] \in Messages
    BY LenProperties, ElementOfSeq
<1>2. /\ rest \in Seq(Messages)
      /\ Len(rest) = n - k
      /\ \A i \in 1..(n - k) : rest[i] = d[k + i]
    <2>1. \A i \in (k + 1)..n : d[i] \in Messages
        BY <1>1
    <2>2. /\ SubSeq(d, k + 1, n) \in Seq(Messages)
          /\ Len(SubSeq(d, k + 1, n)) = IF k + 1 <= n THEN n - (k + 1) + 1 ELSE 0
          /\ \A i \in 1..(n - (k + 1) + 1) : SubSeq(d, k + 1, n)[i] = d[(k + 1) + i - 1]
        BY <1>1, <2>1, SubSeqProperties
    <2>3. Len(rest) = n - k
        <3>1. n \in Nat /\ k \in Nat /\ k <= n
            BY <1>1
        <3>2. Len(rest) = IF k + 1 <= n THEN n - (k + 1) + 1 ELSE 0
            BY <2>2
        <3> HIDE DEF rest, n
        <3>3. CASE k + 1 <= n
            BY <3>1, <3>2, <3>3
        <3>4. CASE ~(k + 1 <= n)
            BY <3>1, <3>2, <3>4
        <3> QED
            BY <3>3, <3>4
    <2>4. ASSUME NEW i \in 1..(n - k) PROVE rest[i] = d[k + i]
        <3>1. i \in 1..(n - (k + 1) + 1) /\ (k + 1) + i - 1 = k + i
            BY <1>1
        <3>2. rest[i] = d[(k + 1) + i - 1]
            BY <2>2, <3>1
        <3> QED
            BY <3>1, <3>2
    <2> QED
        BY <2>2, <2>3, <2>4
<1>3. /\ first \in Seq(Messages)
      /\ Len(first) = k
      /\ \A i \in 1..k : first[i] = d[i]
    <2>1. \A i \in 1..k : d[i] \in Messages
        BY <1>1
    <2>2. /\ SubSeq(d, 1, k) \in Seq(Messages)
          /\ Len(SubSeq(d, 1, k)) = IF 1 <= k THEN k - 1 + 1 ELSE 0
          /\ \A i \in 1..(k - 1 + 1) : SubSeq(d, 1, k)[i] = d[1 + i - 1]
        BY <1>1, <2>1, SubSeqProperties
    <2> QED
        BY <1>1, <2>2
<1> HIDE DEF rest, first
<1>4. NoRepeats(rest)
    <2> SUFFICES ASSUME NEW i \in 1..(n - k), NEW j \in 1..(n - k), rest[i] = rest[j]
                 PROVE  i = j
        BY <1>2, LenProperties DEF NoRepeats
    <2>1. k + i \in 1..n /\ k + j \in 1..n /\ d[k + i] = d[k + j]
        BY <1>1, <1>2
    <2>2. k + i = k + j
        BY <1>1, <2>1 DEF NoRepeats
    <2> QED
        BY <1>1, <2>2
<1>5. ToSet(rest) = ToSet(d) \ ToSet(first)
    <2>1. ASSUME NEW m \in ToSet(rest) PROVE m \in ToSet(d) /\ m \notin ToSet(first)
        <3>1. PICK i \in 1..(n - k) : m = d[k + i]
            BY <1>2, InSequence
        <3>2. k + i \in 1..n /\ \A j \in 1..k : k + i # j /\ j \in 1..n
            BY <1>1
        <3>3. m \in ToSet(d)
            BY <3>1, <3>2, InSequence
        <3>4. ASSUME NEW j \in 1..k PROVE first[j] # m
            BY <1>1, <1>3, <3>1, <3>2 DEF NoRepeats
        <3> QED
            BY <1>3, <3>3, <3>4, InSequence
    <2>2. ASSUME NEW m \in ToSet(d), m \notin ToSet(first) PROVE m \in ToSet(rest)
        <3>1. PICK i \in 1..n : m = d[i]
            BY InSequence
        <3>2. ~(i \in 1..k)
            BY <1>3, <2>2, <3>1, InSequence
        <3>3. i - k \in 1..(n - k) /\ k + (i - k) = i
            BY <1>1, <3>2
        <3> QED
            BY <1>2, <3>1, <3>3, InSequence
    <2> QED
        BY <2>1, <2>2
<1> QED
    BY <1>2, <1>3, <1>4, <1>5 DEF rest, first

---------------------------------------------------------------------------
(* The inductive invariant.                                                *)

\* The line of deliveries: a message is queued or delivered, the channel holds
\* the batch and then what is pending, and before stop() nothing else.
LineInv ==
    /\ ready \cap ToSet(delivered) = {}
    /\ HeldInOrder
    /\ stopping = "no" => Len(batch) + Len(pending) = Len(delivered)

\* There is a batch exactly while a flush is under way, and the flush that is
\* about to acknowledge it has seen its commit.
FlushInv ==
    /\ batch = <<>> <=> flushing = "none"
    /\ flushing = "written" => ToSet(batch) \subseteq written
    /\ AckedIsWritten

\* Nothing survives the process.
DownInv ==
    ~up =>
        /\ ~consuming /\ ~timer
        /\ delivered = <<>> /\ pending = <<>> /\ batch = <<>>
        /\ flushes = 0 /\ stopping = "no"

\* After stop() has dropped the timer nothing sets it again, and stop() has
\* waited for the whole chain.
StopInv ==
    /\ stopping \in {"awaiting", "stopped"} => ~consuming /\ ~timer
    /\ stopping = "stopped" => flushes = 0 /\ flushing = "none"

DrainInv == TypeOK /\ LineInv /\ FlushInv /\ DownInv /\ StopInv /\ PendingHasWakeup

\* HeldInOrder, element by element.
LEMMA HeldNow ==
    ASSUME TypeOK
    PROVE  HeldInOrder <=> Held(batch, pending, delivered)
BY PrefixOfConcat DEF HeldInOrder, TypeOK

\* The batch is what the channel delivered first.
LEMMA BatchIsFirst ==
    ASSUME TypeOK, HeldInOrder
    PROVE  /\ Len(batch) \in 0..Len(delivered) /\ Len(delivered) \in Nat
           /\ \A i \in 1..Len(batch) : delivered[i] = batch[i]
           /\ batch = SubSeq(delivered, 1, Len(batch))
           /\ ToSet(batch) \subseteq ToSet(delivered)
           /\ ToSet(pending) \subseteq ToSet(delivered)
<1> DEFINE n == Len(batch)
<1>1. /\ batch \in Seq(Messages) /\ pending \in Seq(Messages)
      /\ delivered \in Seq(Messages) /\ NoRepeats(delivered)
    BY DEF TypeOK
<1>2. n \in Nat /\ Len(pending) \in Nat /\ Len(delivered) \in Nat
    BY <1>1, LenProperties
<1>3. /\ n + Len(pending) <= Len(delivered)
      /\ \A i \in 1..n : delivered[i] = batch[i]
      /\ \A i \in 1..Len(pending) : delivered[n + i] = pending[i]
    BY HeldNow DEF Held
<1>4. n \in 0..Len(delivered)
    BY <1>2, <1>3
<1>5. batch = SubSeq(delivered, 1, n)
    <2>1. /\ SubSeq(delivered, 1, n) \in Seq(Messages)
          /\ Len(SubSeq(delivered, 1, n)) = n
          /\ \A i \in 1..n : SubSeq(delivered, 1, n)[i] = delivered[i]
        BY <1>1, <1>4, InRest
    <2>2. \A i \in 1..n : batch[i] = SubSeq(delivered, 1, n)[i]
        BY <1>3, <2>1
    <2> QED
        BY <1>1, <2>1, <2>2, SeqEqual
<1>6. ToSet(batch) \subseteq ToSet(delivered)
    <2>1. 1..n \subseteq 1..Len(delivered)
        BY <1>4
    <2> QED
        BY <1>1, <1>3, <2>1, InSequence
<1>7. ToSet(pending) \subseteq ToSet(delivered)
    <2>1. \A i \in 1..Len(pending) : n + i \in 1..Len(delivered)
        BY <1>2, <1>3
    <2> QED
        BY <1>1, <1>3, <2>1, InSequence
<1> QED
    BY <1>2, <1>3, <1>4, <1>5, <1>6, <1>7

\* Nacking the messages of the batch one by one leaves what was delivered
\* after it, as the multiple acknowledgement does.
LEMMA NackIsExact ==
    ASSUME TypeOK, HeldInOrder
    PROVE  Unsettled(ToSet(batch)) = SubSeq(delivered, Len(batch) + 1, Len(delivered))
<1> DEFINE b == Len(batch)
           n == Len(delivered)
           left == {i \in DOMAIN delivered : delivered[i] \notin ToSet(batch)}
           upTo(i) == {k \in left : k <= i}
           nth(j) == CHOOSE i \in left : Cardinality(upTo(i)) = j
           rest == SubSeq(delivered, b + 1, n)
<1>1. /\ batch \in Seq(Messages)
      /\ delivered \in Seq(Messages) /\ NoRepeats(delivered)
      /\ DOMAIN delivered = 1..n
    BY LenProperties DEF TypeOK
<1>2. /\ b \in Nat /\ n \in Nat /\ b <= n
      /\ \A i \in 1..b : delivered[i] = batch[i]
    BY BatchIsFirst, LenProperties, <1>1
<1>3. left = (b + 1)..n
    <2>1. ASSUME NEW i \in 1..n
          PROVE  delivered[i] \in ToSet(batch) <=> i <= b
        <3>1. CASE i <= b
            <4>1. i \in 1..b
                BY <1>2, <3>1
            <4> QED
                BY <1>1, <1>2, <3>1, <4>1, InSequence
        <3>2. CASE ~(i <= b)
            <4>1. ASSUME NEW j \in 1..b PROVE batch[j] # delivered[i]
                <5>1. j \in 1..n /\ j # i
                    BY <1>2, <3>2
                <5> QED
                    BY <1>1, <1>2, <5>1 DEF NoRepeats
            <4> QED
                BY <1>1, <3>2, <4>1, InSequence
        <3> QED
            BY <3>1, <3>2
    <2>2. left = {i \in 1..n : ~(i <= b)}
        BY <1>1, <2>1
    <2> HIDE DEF left
    <2> QED
        BY <1>2, <2>2
<1>4. Cardinality(left) = n - b
    <2> HIDE DEF left, b, n
    <2> QED
        BY <1>2, <1>3, IntervalCount
<1>5. ASSUME NEW i \in left PROVE Cardinality(upTo(i)) = i - b
    <2>1. i \in Nat /\ b + 1 <= i /\ i <= n
        BY <1>2, <1>3
    <2>2. upTo(i) = (b + 1)..i
        BY <1>2, <1>3, <2>1
    <2> HIDE DEF left, upTo, b, n
    <2>3. b <= i
        BY <1>2, <2>1
    <2> QED
        BY <1>2, <2>1, <2>2, <2>3, IntervalCount
<1>6. ASSUME NEW j \in 1..(n - b) PROVE nth(j) = b + j
    <2>1. b + j \in left /\ (b + j) - b = j
        BY <1>2, <1>3
    <2>2. \A i \in left : i - b = j => i = b + j
        BY <1>2, <1>3
    <2> HIDE DEF left, upTo
    <2>3. \E i \in left : Cardinality(upTo(i)) = j
        BY <1>5, <2>1
    <2>4. nth(j) \in left /\ Cardinality(upTo(nth(j))) = j
        BY <2>3
    <2> HIDE DEF nth
    <2> QED
        BY <1>5, <2>2, <2>4
<1>7. /\ rest \in Seq(Messages)
      /\ Len(rest) = n - b
      /\ \A i \in 1..(n - b) : rest[i] = delivered[b + i]
    <2>1. b \in 0..n
        BY <1>2
    <2> QED
        BY <1>1, <2>1, InRest
<1>8. rest = [j \in 1..(n - b) |-> rest[j]]
    BY <1>7, LenProperties
<1> HIDE DEF rest
<1>9. Unsettled(ToSet(batch)) = [j \in 1..Cardinality(left) |-> delivered[nth(j)]]
    BY DEF Unsettled
<1> HIDE DEF left, upTo, nth, b, n
<1>10. [j \in 1..(n - b) |-> delivered[nth(j)]] = [j \in 1..(n - b) |-> rest[j]]
    BY <1>6, <1>7
<1> QED
    BY <1>4, <1>8, <1>9, <1>10 DEF rest, b, n

\* ack(last of the batch, allUpTo) settles the batch, no more and no less.
LEMMA AckIsExact ==
    ASSUME TypeOK, HeldInOrder, batch # <<>>,
           NEW k \in DOMAIN delivered, delivered[k] = Last(batch)
    PROVE  k = Len(batch)
<1>1. /\ batch \in Seq(Messages)
      /\ NoRepeats(delivered)
      /\ DOMAIN delivered = 1..Len(delivered)
    BY LenProperties DEF TypeOK
<1>2. /\ Len(batch) \in Nat \ {0}
      /\ Len(batch) \in 0..Len(delivered)
      /\ \A i \in 1..Len(batch) : delivered[i] = batch[i]
    BY <1>1, EmptySeq, BatchIsFirst
<1>3. Len(batch) \in DOMAIN delivered /\ delivered[Len(batch)] = Last(batch)
    BY <1>1, <1>2 DEF Last
<1> QED
    BY <1>1, <1>3 DEF NoRepeats

\* Once the batch is settled, the channel holds what is pending.
LEMMA SettleBatch ==
    ASSUME TypeOK, LineInv, UNCHANGED <<ready, pending, stopping>>, batch' = <<>>,
           delivered' = SubSeq(delivered, Len(batch) + 1, Len(delivered))
    PROVE  /\ delivered' \in Seq(Messages) /\ NoRepeats(delivered')
           /\ Len(delivered') <= Prefetch
           /\ ToSet(delivered') = ToSet(delivered) \ ToSet(batch)
           /\ LineInv'
<1> DEFINE b == Len(batch)
           n == Len(delivered)
<1>1. /\ delivered \in Seq(Messages) /\ NoRepeats(delivered) /\ n <= Prefetch
      /\ pending \in Seq(Messages)
    BY DEF TypeOK
<1>2. b \in 0..n /\ n \in Nat /\ b \in Nat /\ Len(pending) \in Nat
    BY <1>1, BatchIsFirst, LenProperties DEF LineInv
<1>3. /\ delivered' \in Seq(Messages) /\ NoRepeats(delivered')
      /\ Len(delivered') = n - b
      /\ \A i \in 1..Len(delivered') : delivered'[i] = delivered[b + i]
      /\ ToSet(delivered') = ToSet(delivered) \ ToSet(SubSeq(delivered, 1, b))
    BY <1>1, <1>2, InRest
<1>4. ToSet(delivered') = ToSet(delivered) \ ToSet(batch)
    BY <1>3, BatchIsFirst DEF LineInv
<1>5. /\ b + Len(pending) <= n
      /\ \A i \in 1..Len(pending) : delivered[b + i] = pending[i]
    BY HeldNow DEF LineInv, Held
<1> HIDE DEF b, n
<1>6. HeldInOrder'
    <2>1. batch' \in Seq(Messages) /\ Len(batch') = 0 /\ pending' \in Seq(Messages)
        BY <1>1, EmptySeq
    <2>2. Len(pending) <= n - b
        BY <1>2, <1>5
    <2>3. \A i \in 1..Len(pending) : delivered'[0 + i] = pending[i]
        <3> SUFFICES ASSUME NEW i \in 1..Len(pending) PROVE delivered'[0 + i] = pending[i]
            OBVIOUS
        <3>1. i \in 1..(n - b) /\ 0 + i = i
            BY <1>2, <2>2
        <3> QED
            BY <1>3, <1>5, <3>1
    <2>4. Held(batch', pending', delivered')
        BY <1>2, <1>3, <2>1, <2>2, <2>3 DEF Held
    <2> QED
        BY <1>3, <2>1, <2>4, PrefixOfConcat DEF HeldInOrder
<1>7. ready' \cap ToSet(delivered') = {}
    BY <1>4 DEF LineInv
<1>8. stopping' = "no" => Len(batch') + Len(pending') = Len(delivered')
    <2>1. stopping = "no" => b + Len(pending) = n
        BY DEF LineInv, b, n
    <2>2. Len(batch') = 0 /\ Len(pending') = Len(pending)
        BY EmptySeq
    <2> QED
        BY <1>2, <1>3, <2>1, <2>2
<1>9. Len(delivered') <= Prefetch
    BY <1>1, <1>2, <1>3 DEF n
<1> QED
    BY <1>3, <1>4, <1>6, <1>7, <1>8, <1>9 DEF LineInv

---------------------------------------------------------------------------
(* Each action keeps the invariant.                                        *)

\* The worker starts with a line nobody has taken from and nothing owed.
LEMMA DrainInitially == Init => DrainInv
<1> SUFFICES ASSUME Init PROVE DrainInv
    OBVIOUS
<1>1. <<>> \in Seq(Messages) /\ Len(<<>>) = 0 /\ ToSet(<<>>) = {} /\ NoRepeats(<<>>)
    BY EmptySeq DEF ToSet, NoRepeats
<1>2. TypeOK
    <2>1. 0 <= Prefetch /\ 1 \in 1..MaxAttempts /\ 0 \in 0..MaxRestarts
        OBVIOUS
    <2>2. delivered \in Seq(Messages) /\ NoRepeats(delivered) /\ Len(delivered) <= Prefetch
        BY <1>1, <2>1, Zenon DEF Init
    <2>3. pending \in Seq(Messages) /\ batch \in Seq(Messages)
        BY <1>1 DEF Init
    <2>4. consuming \in BOOLEAN /\ timer \in BOOLEAN /\ up \in BOOLEAN
        BY DEF Init
    <2> QED
        BY <2>1, <2>2, <2>3, <2>4 DEF Init, TypeOK
<1>3. HeldInOrder
    BY <1>1, <1>2, HeldNow DEF Init, Held
<1> QED
    BY <1>1, <1>2, <1>3
       DEF Init, DrainInv, LineInv, FlushInv, AckedIsWritten, DownInv, StopInv, PendingHasWakeup

\* A message is delivered: it goes to the end of the line, and to the end of
\* pending unless stop() was called.
LEMMA DeliverKeeps ==
    ASSUME DrainInv, NEW m \in Messages, Deliver(m)
    PROVE  DrainInv'
<1> USE DEF DrainInv
<1>1. /\ consuming /\ m \in ready /\ Len(delivered) < Prefetch
      /\ ready' = ready \ {m}
      /\ delivered' = Append(delivered, m)
      /\ UNCHANGED <<consuming, acked, dead, written, flushVars, processVars>>
    BY DEF Deliver
<1>2. /\ delivered \in Seq(Messages) /\ NoRepeats(delivered) /\ Len(delivered) \in Nat
      /\ pending \in Seq(Messages) /\ Len(pending) \in Nat
      /\ batch \in Seq(Messages) /\ Len(batch) \in Nat
      /\ flushes \in Nat
    BY LenProperties DEF TypeOK
<1>3. /\ delivered' \in Seq(Messages)
      /\ Len(delivered') = Len(delivered) + 1
      /\ delivered'[Len(delivered) + 1] = m
      /\ \A i \in 1..Len(delivered) : delivered'[i] = delivered[i]
      /\ ToSet(delivered') = ToSet(delivered) \cup {m}
    BY <1>1, <1>2, InAppend
<1>4. NoRepeats(delivered')
    <2>1. \A i \in 1..Len(delivered) : delivered[i] # m
        BY <1>1, <1>2, InSequence DEF LineInv
    <2>2. \A i \in 1..Len(delivered') : i \in 1..Len(delivered) \/ i = Len(delivered) + 1
        BY <1>2, <1>3
    <2>3. DOMAIN delivered' = 1..Len(delivered') /\ DOMAIN delivered = 1..Len(delivered)
        BY <1>2, <1>3, LenProperties
    <2> QED
        BY <1>2, <1>3, <2>1, <2>2, <2>3 DEF NoRepeats
<1>5. ready' \cap ToSet(delivered') = {}
    BY <1>1, <1>3 DEF LineInv
<1>6. Held(batch, pending, delivered)
    BY HeldNow DEF LineInv
<1>7. CASE stopping = "no"
    <2>1. /\ pending' = Append(pending, m)
          /\ \/ timer' = FALSE /\ flushes' = flushes + 1
             \/ timer' = TRUE /\ flushes' = flushes
        BY <1>7 DEF Deliver, enqueue
    <2>2. /\ pending' \in Seq(Messages)
          /\ Len(pending') = Len(pending) + 1
          /\ pending'[Len(pending) + 1] = m
          /\ \A i \in 1..Len(pending) : pending'[i] = pending[i]
        BY <1>2, <2>1, InAppend
    <2>3. Len(batch) + Len(pending) = Len(delivered)
        BY <1>7 DEF LineInv
    <2>4. Held(batch, pending', delivered')
        <3>1. Len(batch) + Len(pending') = Len(delivered')
            BY <1>2, <1>3, <2>2, <2>3
        <3>2. ASSUME NEW i \in 1..Len(batch) PROVE delivered'[i] = batch[i]
            <4>1. i \in 1..Len(delivered)
                BY <1>2, <2>3
            <4> QED
                BY <1>3, <1>6, <4>1 DEF Held
        <3>3. ASSUME NEW i \in 1..Len(pending') PROVE delivered'[Len(batch) + i] = pending'[i]
            <4>1. CASE i = Len(pending) + 1
                <5>1. Len(batch) + i = Len(delivered) + 1
                    BY <1>2, <2>3, <4>1
                <5> QED
                    BY <1>3, <2>2, <4>1, <5>1
            <4>2. CASE i # Len(pending) + 1
                <5>1. i \in 1..Len(pending) /\ Len(batch) + i \in 1..Len(delivered)
                    BY <1>2, <2>2, <2>3, <4>2
                <5> QED
                    BY <1>3, <1>6, <2>2, <5>1 DEF Held
            <4> QED
                BY <4>1, <4>2
        <3>4. Len(batch) + Len(pending') <= Len(delivered')
            BY <1>2, <1>3, <2>2, <3>1
        <3> QED
            BY <3>2, <3>3, <3>4 DEF Held
    <2>5. HeldInOrder'
        BY <1>1, <1>2, <1>3, <2>2, <2>4, PrefixOfConcat DEF HeldInOrder, flushVars
    <2>6. LineInv'
        BY <1>1, <1>2, <1>3, <1>5, <2>2, <2>3, <2>5 DEF LineInv, flushVars
    <2>7. TypeOK'
        <3>1. Len(delivered') <= Prefetch
            BY <1>1, <1>2, <1>3
        <3>2. timer' \in BOOLEAN
            BY <2>1, Zenon
        <3>3. flushes' \in Nat
            BY <1>2, <2>1
        <3>4. /\ ready' \subseteq Messages
              /\ UNCHANGED <<consuming, acked, dead, written, flushVars, processVars>>
            BY <1>1 DEF TypeOK
        <3> QED
            BY <1>3, <1>4, <2>2, <3>1, <3>2, <3>3, <3>4 DEF TypeOK, flushVars, processVars
    <2>8. PendingHasWakeup'
        BY <1>2, <2>1 DEF PendingHasWakeup
    <2>9. FlushInv' /\ StopInv' /\ DownInv'
        BY <1>1, <1>7, <2>1
           DEF FlushInv, AckedIsWritten, StopInv, DownInv, flushVars, processVars
    <2> QED
        BY <2>6, <2>7, <2>8, <2>9
<1>8. CASE stopping # "no"
    <2>1. UNCHANGED <<pending, timer, flushes>>
        BY <1>8 DEF Deliver
    <2>2. Held(batch, pending, delivered')
        <3>1. \A i \in 1..Len(batch) : i \in 1..Len(delivered)
            BY <1>2, <1>6 DEF Held
        <3>2. \A i \in 1..Len(pending) : Len(batch) + i \in 1..Len(delivered)
            BY <1>2, <1>6 DEF Held
        <3>3. Len(batch) + Len(pending) <= Len(delivered')
            BY <1>2, <1>3, <1>6 DEF Held
        <3> QED
            BY <1>3, <1>6, <3>1, <3>2, <3>3 DEF Held
    <2>3. HeldInOrder'
        BY <1>1, <1>2, <1>3, <2>1, <2>2, PrefixOfConcat DEF HeldInOrder, flushVars
    <2>4. LineInv'
        BY <1>1, <1>5, <1>8, <2>3 DEF LineInv, processVars
    <2>5. TypeOK'
        BY <1>1, <1>2, <1>3, <1>4, <2>1 DEF TypeOK, flushVars, processVars
    <2>6. PendingHasWakeup' /\ FlushInv' /\ StopInv' /\ DownInv'
        BY <1>1, <1>8, <2>1
           DEF PendingHasWakeup, FlushInv, AckedIsWritten, StopInv, DownInv, flushVars, processVars
    <2> QED
        BY <2>4, <2>5, <2>6
<1> QED
    BY <1>7, <1>8

\* The flush at the head of the chain takes all that is pending.
LEMMA FlushStartsKeeps == ASSUME DrainInv, FlushStarts PROVE DrainInv'
<1> USE DEF DrainInv
<1>1. /\ flushing = "none" /\ flushes > 0 /\ flushes' = flushes - 1
      /\ UNCHANGED <<brokerVars, written, timer, processVars>>
    BY DEF FlushStarts
<1>2. /\ flushes' \in Nat
      /\ batch = <<>> /\ up
      /\ pending \in Seq(Messages)
    BY <1>1 DEF TypeOK, FlushInv, DownInv
<1>3. CASE pending = <<>>
    <2>1. UNCHANGED <<pending, flushing, batch, attempt>>
        BY <1>3 DEF FlushStarts, flushVars
    <2>2. TypeOK'
        BY <1>1, <1>2, <2>1 DEF TypeOK, brokerVars, processVars
    <2>3. LineInv'
        BY <1>1, <2>1 DEF LineInv, HeldInOrder, brokerVars, processVars
    <2>4. FlushInv' /\ PendingHasWakeup'
        BY <1>1, <1>3, <2>1 DEF FlushInv, AckedIsWritten, PendingHasWakeup, brokerVars
    <2>5. DownInv' /\ StopInv'
        BY <1>1, <1>2, <2>1 DEF DownInv, StopInv, TypeOK, brokerVars, processVars
    <2> QED
        BY <2>2, <2>3, <2>4, <2>5
<1>4. CASE pending # <<>>
    <2>1. batch' = pending /\ pending' = <<>> /\ flushing' = "writing" /\ attempt' = 1
        BY <1>4 DEF FlushStarts
    <2>2. TypeOK'
        <3>1. 1 \in 1..MaxAttempts
            OBVIOUS
        <3>2. pending' \in Seq(Messages) /\ batch' \in Seq(Messages)
            BY <1>2, <2>1, EmptySeq
        <3> QED
            BY <1>1, <1>2, <2>1, <3>1, <3>2 DEF TypeOK, brokerVars, processVars
    <2>3. LineInv'
        <3>1. batch' \o pending' = batch \o pending
            BY <1>2, <2>1, ConcatEmptySeq
        <3>2. Len(batch') + Len(pending') = Len(batch) + Len(pending)
            BY <1>2, <2>1, EmptySeq, LenProperties
        <3> QED
            BY <1>1, <3>1, <3>2 DEF LineInv, HeldInOrder, brokerVars, processVars
    <2>4. FlushInv' /\ PendingHasWakeup'
        BY <1>1, <1>4, <2>1 DEF FlushInv, AckedIsWritten, PendingHasWakeup, brokerVars
    <2>5. DownInv' /\ StopInv'
        BY <1>1, <1>2, <2>1 DEF DownInv, StopInv, TypeOK, brokerVars, processVars
    <2> QED
        BY <2>2, <2>3, <2>4, <2>5
<1> QED
    BY <1>3, <1>4

\* The acknowledgement: the batch has been committed, and nothing else goes.
LEMMA AckEffect ==
    ASSUME DrainInv, Ack
    PROVE  /\ delivered' = SubSeq(delivered, Len(batch) + 1, Len(delivered))
           /\ acked' = acked \cup ToSet(batch)
           /\ batch' = <<>> /\ flushing' = "none"
           /\ UNCHANGED <<ready, consuming, dead, written, pending, timer, flushes,
                          attempt, processVars>>
<1>1. batch # <<>>
    BY DEF Ack, DrainInv, FlushInv
<1>2. PICK k \in DOMAIN delivered :
        /\ delivered[k] = Last(batch)
        /\ acked' = acked \cup ToSet(SubSeq(delivered, 1, k))
        /\ delivered' = SubSeq(delivered, k + 1, Len(delivered))
    BY DEF Ack
<1>3. k = Len(batch)
    BY <1>1, <1>2, AckIsExact DEF DrainInv, LineInv
<1>4. batch = SubSeq(delivered, 1, Len(batch))
    BY BatchIsFirst DEF DrainInv, LineInv
<1> QED
    BY <1>2, <1>3, <1>4 DEF Ack

\* An acknowledgement removes exactly the batch that was written (AckIsExact).
LEMMA AckKeeps == ASSUME DrainInv, Ack PROVE DrainInv'
<1> USE DEF DrainInv
<1>1. /\ delivered' = SubSeq(delivered, Len(batch) + 1, Len(delivered))
      /\ acked' = acked \cup ToSet(batch)
      /\ batch' = <<>> /\ flushing' = "none"
      /\ UNCHANGED <<ready, consuming, dead, written, pending, timer, flushes, attempt,
                     processVars>>
    BY AckEffect
<1>2. flushing = "written" /\ batch # <<>> /\ up
    BY DEF Ack, FlushInv, DownInv
<1>3. /\ delivered' \in Seq(Messages) /\ NoRepeats(delivered') /\ Len(delivered') <= Prefetch
      /\ LineInv'
    BY <1>1, SettleBatch DEF processVars
<1>4. ToSet(batch) \subseteq Messages
    BY InSequence DEF TypeOK
<1>5. TypeOK'
    <2>1. batch' \in Seq(Messages)
        BY <1>1, EmptySeq
    <2> QED
        BY <1>1, <1>3, <1>4, <2>1 DEF TypeOK, processVars
<1>6. FlushInv' /\ PendingHasWakeup'
    BY <1>1, <1>2 DEF FlushInv, AckedIsWritten, PendingHasWakeup
<1>7. DownInv' /\ StopInv'
    BY <1>1, <1>2 DEF DownInv, StopInv, TypeOK, processVars
<1> QED
    BY <1>3, <1>5, <1>6, <1>7

\* A failed write: the batch is kept for another attempt, or dead-lettered.
LEMMA WriteFailsEffect ==
    ASSUME DrainInv, WriteFails
    PROVE  /\ flushing = "writing"
           /\ written' \in {written, written \cup ToSet(batch)}
           /\ \/ /\ attempt < MaxAttempts
                 /\ attempt' = attempt + 1
                 /\ flushing' = "backoff"
                 /\ UNCHANGED <<delivered, dead, batch>>
              \/ /\ ~(attempt < MaxAttempts)
                 /\ dead' = dead \cup ToSet(batch)
                 /\ delivered' = SubSeq(delivered, Len(batch) + 1, Len(delivered))
                 /\ batch' = <<>> /\ flushing' = "none"
                 /\ UNCHANGED attempt
           /\ UNCHANGED <<ready, consuming, acked, pending, timer, flushes, processVars>>
<1>1. Unsettled(ToSet(batch)) = SubSeq(delivered, Len(batch) + 1, Len(delivered))
    BY NackIsExact DEF DrainInv, LineInv
<1> QED
    BY <1>1 DEF WriteFails

\* A write that fails is tried again, or rejects exactly the batch (NackIsExact).
LEMMA WriteFailsKeeps == ASSUME DrainInv, WriteFails PROVE DrainInv'
<1> USE DEF DrainInv
<1>1. /\ flushing = "writing"
      /\ written' \in {written, written \cup ToSet(batch)}
      /\ UNCHANGED <<ready, consuming, acked, pending, timer, flushes, processVars>>
    BY WriteFailsEffect
<1>2. /\ batch # <<>> /\ up
      /\ ToSet(batch) \subseteq Messages
    BY <1>1, InSequence DEF TypeOK, FlushInv, DownInv
<1>3. CASE attempt < MaxAttempts
    <2>1. attempt' = attempt + 1 /\ flushing' = "backoff" /\ UNCHANGED <<delivered, dead, batch>>
        BY <1>3, WriteFailsEffect
    <2>2. TypeOK'
        <3>1. attempt' \in 1..MaxAttempts
            BY <1>3, <2>1 DEF TypeOK
        <3> QED
            BY <1>1, <1>2, <2>1, <3>1 DEF TypeOK, processVars
    <2>3. LineInv'
        BY <1>1, <2>1 DEF LineInv, HeldInOrder, processVars
    <2>4. FlushInv' /\ PendingHasWakeup'
        BY <1>1, <1>2, <2>1 DEF FlushInv, AckedIsWritten, PendingHasWakeup
    <2>5. DownInv' /\ StopInv'
        BY <1>1, <1>2, <2>1 DEF DownInv, StopInv, TypeOK, processVars
    <2> QED
        BY <2>2, <2>3, <2>4, <2>5
<1>4. CASE ~(attempt < MaxAttempts)
    <2>1. /\ dead' = dead \cup ToSet(batch)
          /\ delivered' = SubSeq(delivered, Len(batch) + 1, Len(delivered))
          /\ batch' = <<>> /\ flushing' = "none"
          /\ UNCHANGED attempt
        BY <1>4, WriteFailsEffect
    <2>2. /\ delivered' \in Seq(Messages) /\ NoRepeats(delivered') /\ Len(delivered') <= Prefetch
          /\ LineInv'
        BY <1>1, <2>1, SettleBatch DEF processVars
    <2>3. TypeOK'
        <3>1. batch' \in Seq(Messages)
            BY <2>1, EmptySeq
        <3> QED
            BY <1>1, <1>2, <2>1, <2>2, <3>1 DEF TypeOK, processVars
    <2>4. FlushInv' /\ PendingHasWakeup'
        BY <1>1, <1>2, <2>1 DEF FlushInv, AckedIsWritten, PendingHasWakeup
    <2>5. DownInv' /\ StopInv'
        BY <1>1, <1>2, <2>1 DEF DownInv, StopInv, TypeOK, processVars
    <2> QED
        BY <2>2, <2>3, <2>4, <2>5
<1> QED
    BY <1>3, <1>4

\* The steps that leave the line as it is.
LEMMA LineUntouched ==
    ASSUME LineInv, UNCHANGED <<ready, delivered, batch, pending>>,
           stopping' = "no" => stopping = "no"
    PROVE  LineInv'
BY DEF LineInv, HeldInOrder

\* A restarted worker finds the line as the broker has it and no memory of its own.
LEMMA StartKeeps == ASSUME DrainInv, Start PROVE DrainInv'
<1> USE DEF DrainInv
<1>1. /\ up' = TRUE /\ consuming' = TRUE
      /\ UNCHANGED <<ready, delivered, acked, dead, written, pending, timer, flushes,
                     flushing, batch, attempt, stopping, restarts>>
    BY DEF Start, flushVars
<1>2. stopping = "no"
    BY DEF Start, DownInv
<1>3. TypeOK'
    BY <1>1 DEF TypeOK
<1>4. LineInv'
    BY <1>1, LineUntouched
<1>5. FlushInv' /\ PendingHasWakeup' /\ DownInv' /\ StopInv'
    BY <1>1, <1>2 DEF FlushInv, AckedIsWritten, PendingHasWakeup, DownInv, StopInv
<1> QED
    BY <1>3, <1>4, <1>5

\* The timer puts one more flush in the chain.
LEMMA TimerKeeps == ASSUME DrainInv, TimerFires PROVE DrainInv'
<1> USE DEF DrainInv
<1>1. /\ timer /\ timer' = FALSE /\ flushes' = flushes + 1 /\ flushes \in Nat
      /\ UNCHANGED <<brokerVars, written, pending, flushVars, processVars>>
    BY DEF TimerFires, TypeOK
<1>2. up /\ stopping \notin {"awaiting", "stopped"}
    BY <1>1 DEF DownInv, StopInv
<1>3. TypeOK'
    <2>1. timer' \in BOOLEAN
        BY <1>1, Zenon
    <2>2. flushes' \in Nat
        BY <1>1
    <2> QED
        BY <1>1, <2>1, <2>2 DEF TypeOK, brokerVars, flushVars, processVars
<1>4. LineInv'
    BY <1>1, LineUntouched DEF brokerVars, flushVars, processVars
<1>5. FlushInv' /\ PendingHasWakeup' /\ DownInv' /\ StopInv'
    BY <1>1, <1>2
       DEF FlushInv, AckedIsWritten, PendingHasWakeup, DownInv, StopInv, brokerVars,
           flushVars, processVars
<1> QED
    BY <1>3, <1>4, <1>5

\* A committed batch is written before it is acknowledged.
LEMMA WriteCommitsKeeps == ASSUME DrainInv, WriteCommits PROVE DrainInv'
<1> USE DEF DrainInv
<1>1. /\ flushing = "writing" /\ flushing' = "written"
      /\ written' = written \cup ToSet(batch)
      /\ UNCHANGED <<brokerVars, pending, timer, flushes, batch, attempt, processVars>>
    BY DEF WriteCommits
<1>2. ToSet(batch) \subseteq Messages
    BY InSequence DEF TypeOK
<1>3. TypeOK'
    BY <1>1, <1>2 DEF TypeOK, brokerVars, processVars
<1>4. LineInv'
    BY <1>1, LineUntouched DEF brokerVars, processVars
<1>5. FlushInv' /\ PendingHasWakeup' /\ DownInv' /\ StopInv'
    BY <1>1
       DEF FlushInv, AckedIsWritten, PendingHasWakeup, DownInv, StopInv, brokerVars, processVars
<1> QED
    BY <1>3, <1>4, <1>5

\* The end of a backoff tries the same batch again.
LEMMA BackoffKeeps == ASSUME DrainInv, BackoffEnds PROVE DrainInv'
<1> USE DEF DrainInv
<1>1. /\ flushing = "backoff" /\ flushing' = "writing"
      /\ UNCHANGED <<brokerVars, written, pending, timer, flushes, batch, attempt, processVars>>
    BY DEF BackoffEnds
<1>2. TypeOK'
    BY <1>1 DEF TypeOK, brokerVars, processVars
<1>3. LineInv'
    BY <1>1, LineUntouched DEF brokerVars, processVars
<1>4. FlushInv' /\ PendingHasWakeup' /\ DownInv' /\ StopInv'
    BY <1>1
       DEF FlushInv, AckedIsWritten, PendingHasWakeup, DownInv, StopInv, brokerVars, processVars
<1> QED
    BY <1>2, <1>3, <1>4

\* The steps of stop(): called, its consumer cancelled, the chain awaited.
LEMMA StopKeeps == ASSUME DrainInv, Stop \/ Cancelled \/ StopResolves PROVE DrainInv'
<1> USE DEF DrainInv
<1>1. CASE Stop
    <2>1. /\ up /\ stopping' = "cancelling"
          /\ UNCHANGED <<brokerVars, written, pending, timer, flushes, flushVars, up, restarts>>
        BY <1>1 DEF Stop
    <2>2. TypeOK'
        BY <2>1 DEF TypeOK, brokerVars, flushVars
    <2>3. LineInv'
        BY <2>1, LineUntouched DEF brokerVars, flushVars
    <2> QED
        BY <2>1, <2>2, <2>3
           DEF FlushInv, AckedIsWritten, PendingHasWakeup, DownInv, StopInv, brokerVars, flushVars
<1>2. CASE Cancelled
    <2>1. /\ stopping = "cancelling" /\ stopping' = "awaiting"
          /\ consuming' = FALSE /\ timer' = FALSE /\ flushes' = flushes + 1 /\ flushes \in Nat
          /\ UNCHANGED <<ready, delivered, acked, dead, written, pending, flushVars, up, restarts>>
        BY <1>2 DEF Cancelled, TypeOK
    <2>2. up
        BY <2>1 DEF DownInv
    <2>3. TypeOK'
        <3>1. consuming' \in BOOLEAN /\ timer' \in BOOLEAN
            BY <2>1, Zenon
        <3>2. flushes' \in Nat
            BY <2>1
        <3> QED
            BY <2>1, <3>1, <3>2 DEF TypeOK, flushVars
    <2>4. LineInv'
        BY <2>1, LineUntouched DEF flushVars
    <2>5. FlushInv' /\ PendingHasWakeup' /\ DownInv' /\ StopInv'
        BY <2>1, <2>2
           DEF FlushInv, AckedIsWritten, PendingHasWakeup, DownInv, StopInv, flushVars
    <2> QED
        BY <2>3, <2>4, <2>5
<1>3. CASE StopResolves
    <2>1. /\ stopping = "awaiting" /\ stopping' = "stopped"
          /\ flushing = "none" /\ flushes = 0
          /\ UNCHANGED <<brokerVars, written, pending, timer, flushes, flushVars, up, restarts>>
        BY <1>3 DEF StopResolves
    <2>2. up
        BY <2>1 DEF DownInv
    <2>3. TypeOK'
        BY <2>1 DEF TypeOK, brokerVars, flushVars
    <2>4. LineInv'
        BY <2>1, LineUntouched DEF brokerVars, flushVars
    <2> QED
        BY <2>1, <2>2, <2>3, <2>4
           DEF FlushInv, AckedIsWritten, PendingHasWakeup, DownInv, StopInv, brokerVars, flushVars
<1> QED
    BY <1>1, <1>2, <1>3

\* The process ends: in good order, or at any point of what it was doing.
LEMMA EndKeeps == ASSUME DrainInv, Close \/ Crash PROVE DrainInv'
<1> USE DEF DrainInv
<1>1. /\ restarts < MaxRestarts /\ restarts' = restarts + 1
      /\ up' = FALSE /\ consuming' = FALSE /\ timer' = FALSE
      /\ ready' = ready \cup ToSet(delivered)
      /\ delivered' = <<>> /\ pending' = <<>> /\ batch' = <<>>
      /\ flushes' = 0 /\ flushing' = "none" /\ stopping' = "no"
      /\ UNCHANGED <<acked, dead, attempt>>
    BY DEF Close, Crash, ProcessEnds
<1>2. written' \in {written, written \cup ToSet(batch)}
    BY DEF Close, Crash
<1>3. ToSet(delivered) \subseteq Messages /\ ToSet(batch) \subseteq Messages
    BY InSequence DEF TypeOK
<1>4. <<>> \in Seq(Messages) /\ Len(<<>>) = 0 /\ ToSet(<<>>) = {} /\ NoRepeats(<<>>)
    BY EmptySeq DEF ToSet, NoRepeats
<1>5. TypeOK'
    <2>1. /\ restarts' \in 0..MaxRestarts
          /\ Len(delivered') <= Prefetch
        BY <1>1, <1>4 DEF TypeOK
    <2>2. consuming' \in BOOLEAN /\ timer' \in BOOLEAN /\ up' \in BOOLEAN
        BY <1>1, Zenon
    <2>3. written' \subseteq Messages /\ ready' \subseteq Messages
        BY <1>1, <1>2, <1>3 DEF TypeOK
    <2> QED
        BY <1>1, <1>4, <2>1, <2>2, <2>3 DEF TypeOK
<1>6. LineInv'
    <2>1. Held(<<>>, <<>>, <<>>)
        BY <1>4 DEF Held
    <2>2. IsPrefix(<<>> \o <<>>, <<>>)
        BY <1>4, <2>1, PrefixOfConcat
    <2>3. HeldInOrder'
        BY <1>1, <2>2 DEF HeldInOrder
    <2>4. ToSet(delivered') = {}
        BY <1>1, <1>4
    <2> QED
        BY <1>1, <2>3, <2>4 DEF LineInv
<1>7. FlushInv' /\ PendingHasWakeup' /\ DownInv' /\ StopInv'
    BY <1>1, <1>2 DEF FlushInv, AckedIsWritten, PendingHasWakeup, DownInv, StopInv
<1> QED
    BY <1>5, <1>6, <1>7

\* Hence every step does.
LEMMA DrainStep == DrainInv /\ [Next]_drainVars => DrainInv'
<1> SUFFICES ASSUME DrainInv, [Next]_drainVars PROVE DrainInv'
    OBVIOUS
<1>1. CASE UNCHANGED drainVars
    BY <1>1
       DEF DrainInv, TypeOK, LineInv, HeldInOrder, FlushInv, AckedIsWritten, DownInv, StopInv,
           PendingHasWakeup, drainVars, brokerVars, flushVars, processVars
<1> QED
    BY <1>1, StartKeeps, DeliverKeeps, TimerKeeps, FlushStartsKeeps, WriteCommitsKeeps,
       AckKeeps, WriteFailsKeeps, BackoffKeeps, StopKeeps, EndKeeps
       DEF Next, FlushStep, StopStep

---------------------------------------------------------------------------
\* The invariant of the drain loop.
THEOREM DrainInvariant == Spec => []DrainInv
<1>1. Init => DrainInv
    BY DrainInitially
<1>2. DrainInv /\ [Next]_drainVars => DrainInv'
    BY DrainStep
<1> QED
    BY <1>1, <1>2, PTL DEF Spec

\* Every variable keeps its type, the channel never holds a message twice nor
\* more than the prefetch, and a batch is never tried more than MaxAttempts.
THEOREM DrainTypeCorrect == Spec => []TypeOK
<1>1. DrainInv => TypeOK
    BY DEF DrainInv
<1> QED
    BY <1>1, DrainInvariant, PTL

\* What is acknowledged has been committed, although ack() names one message
\* and settles every delivery up to it.
THEOREM AckedHasCommitted == Spec => []AckedIsWritten
<1>1. DrainInv => AckedIsWritten
    BY DEF DrainInv, FlushInv
<1> QED
    BY <1>1, DrainInvariant, PTL

\* The channel holds the batch, then what is pending, in delivery order:
\* whatever the prefetch, the batch size and the moment of a flush.
THEOREM DeliveriesInOrder == Spec => []HeldInOrder
<1>1. DrainInv => HeldInOrder
    BY DEF DrainInv, LineInv
<1> QED
    BY <1>1, DrainInvariant, PTL

\* No interleaving of the timer, a full batch, a running flush and stop()
\* leaves a message in pending with no flush to come.
THEOREM PendingIsWoken == Spec => []PendingHasWakeup
<1>1. DrainInv => PendingHasWakeup
    BY DEF DrainInv
<1> QED
    BY <1>1, DrainInvariant, PTL

\* stop() resolves only when everything the callback accepted is settled.
THEOREM StopIsClean == Spec => []StopFinishesBatches
<1>1. DrainInv => StopFinishesBatches
    <2> SUFFICES ASSUME DrainInv, stopping = "stopped" PROVE pending = <<>> /\ batch = <<>>
        BY DEF StopFinishesBatches
    <2>1. flushes = 0 /\ flushing = "none" /\ ~timer
        BY DEF DrainInv, StopInv
    <2> QED
        BY <2>1 DEF DrainInv, FlushInv, PendingHasWakeup
<1> QED
    BY <1>1, DrainInvariant, PTL

---------------------------------------------------------------------------
(* The drain loop implements WriteWorker.                                  *)

\* A batch taken from the channel is within the prefetch.
LEMMA FewerThanPlaces ==
    ASSUME NEW s \in Seq(Messages)
    PROVE  /\ IsFiniteSet(ToSet(s))
           /\ Cardinality(ToSet(s)) <= Len(s)
<1>1. Len(s) \in Nat /\ DOMAIN s = 1..Len(s) /\ s \in [1..Len(s) -> Messages]
    BY LenProperties
<1>2. s \in Surjection(1..Len(s), ToSet(s))
    BY <1>1 DEF Surjection, ToSet
<1>3. IsFiniteSet(1..Len(s)) /\ Cardinality(1..Len(s)) = Len(s)
    <2>1. Len(s) = 0 \/ ~(1 > Len(s))
        BY <1>1
    <2>2. /\ IsFiniteSet(1..Len(s))
          /\ Cardinality(1..Len(s)) = IF 1 > Len(s) THEN 0 ELSE Len(s) - 1 + 1
        BY <1>1, FS_Interval
    <2> QED
        BY <1>1, <2>1, <2>2
<1> QED
    BY <1>2, <1>3, FS_Surjection

\* The mapping of the program counter, case by case.
LEMMA PlaceOfWorker ==
    /\ ~up => WorkerPC = "down"
    /\ up /\ flushing = "none" => WorkerPC = "idle"
    /\ up /\ flushing \in {"writing", "backoff"} => WorkerPC = "writing"
    /\ up /\ flushing = "written" => WorkerPC = "written"
BY DEF WorkerPC

\* Initially everything is queued and no process runs.
LEMMA WorkerInitially == Init => Worker!WorkerInit
<1> SUFFICES ASSUME Init PROVE Worker!WorkerInit
    OBVIOUS
<1>1. ToSet(delivered) = {} /\ ToSet(batch) = {}
    BY EmptySeq DEF Init, ToSet
<1>2. Untaken = Messages /\ WorkerPC = "down"
    BY <1>1, PlaceOfWorker DEF Init, Untaken
<1> QED
    BY <1>1, <1>2 DEF Init, Worker!WorkerInit

\* Messages that are not in the batch are not touched when it is settled.
LEMMA UntakenStays ==
    ASSUME DrainInv, UNCHANGED ready, batch' = <<>>,
           ToSet(delivered') = ToSet(delivered) \ ToSet(batch)
    PROVE  UNCHANGED Untaken /\ ToSet(batch') = {}
<1>1. ToSet(batch') = {}
    BY EmptySeq DEF ToSet
<1> QED
    BY <1>1 DEF Untaken

\* Every step of the loop is a step of WriteWorker or invisible to it.
LEMMA WorkerStep ==
    ASSUME DrainInv, DrainInv', [Next]_drainVars
    PROVE  [Worker!WorkerNext]_(Worker!writeWorkerVars)
<1> DEFINE Invisible == UNCHANGED <<Untaken, written, acked, dead, WorkerPC, ToSet(batch), attempt>>
<1> USE DEF DrainInv
<1>1. ASSUME Invisible PROVE UNCHANGED Worker!writeWorkerVars
    BY <1>1 DEF Worker!writeWorkerVars
<1>2. CASE Start
    <2>1. WorkerPC = "down" /\ WorkerPC' = "idle"
        <3>1. ~up /\ up' /\ flushing' = "none"
            BY <1>2 DEF Start, DownInv, FlushInv, flushVars
        <3> QED
            BY <3>1, PlaceOfWorker DEF WorkerPC
    <2>2. UNCHANGED <<Untaken, written, acked, dead, batch, attempt>>
        BY <1>2 DEF Start, Untaken, flushVars
    <2>3. Worker!Starts
        BY <2>1, <2>2 DEF Worker!Starts
    <2> QED
        BY <2>3 DEF Worker!WorkerNext
<1>3. CASE \E m \in Messages : Deliver(m)
    <2>1. PICK m \in Messages : Deliver(m)
        BY <1>3
    <2>2. /\ m \in ready /\ ready' = ready \ {m} /\ delivered' = Append(delivered, m)
          /\ UNCHANGED <<acked, dead, written, flushVars, processVars>>
        BY <2>1 DEF Deliver
    <2>3. ToSet(delivered') = ToSet(delivered) \cup {m}
        BY <2>2, InAppend DEF TypeOK
    <2>4. m \notin ToSet(batch)
        BY <2>2, BatchIsFirst DEF LineInv
    <2>5. Untaken' = Untaken
        BY <2>2, <2>3, <2>4 DEF Untaken, flushVars
    <2>6. WorkerPC' = WorkerPC
        BY <2>2 DEF WorkerPC, flushVars, processVars
    <2> QED
        BY <1>1, <2>2, <2>5, <2>6 DEF flushVars
<1>4. CASE TimerFires \/ Stop \/ Cancelled \/ StopResolves \/ BackoffEnds
    <2>1. UNCHANGED <<ready, delivered, written, acked, dead, batch, attempt, up>>
        BY <1>4
           DEF TimerFires, Stop, Cancelled, StopResolves, BackoffEnds, brokerVars, flushVars,
               processVars
    <2>2. flushing' = flushing \/ (flushing = "backoff" /\ flushing' = "writing")
        BY <1>4 DEF TimerFires, Stop, Cancelled, StopResolves, BackoffEnds, flushVars
    <2>3. UNCHANGED WorkerPC
        <3>1. CASE flushing' = flushing
            BY <2>1, <3>1 DEF WorkerPC
        <3>2. CASE flushing = "backoff" /\ flushing' = "writing"
            <4>1. CASE up
                BY <2>1, <3>2, <4>1 DEF WorkerPC
            <4>2. CASE ~up
                BY <2>1, <4>2, Zenon DEF WorkerPC
            <4> QED
                BY <4>1, <4>2
        <3> QED
            BY <2>2, <3>1, <3>2
    <2>4. UNCHANGED Untaken
        BY <2>1 DEF Untaken
    <2> QED
        BY <1>1, <2>1, <2>3, <2>4
<1>5. CASE FlushStarts
    <2>1. /\ flushing = "none" /\ flushes > 0
          /\ UNCHANGED <<ready, delivered, written, acked, dead, up>>
        BY <1>5 DEF FlushStarts, brokerVars, processVars
    <2>2. up
        BY <2>1 DEF DownInv
    <2>3. CASE pending = <<>>
        <3>1. UNCHANGED flushVars
            BY <1>5, <2>3 DEF FlushStarts
        <3>2. UNCHANGED <<Untaken, WorkerPC>>
            BY <2>1, <3>1 DEF Untaken, WorkerPC, flushVars
        <3> QED
            BY <1>1, <2>1, <3>1, <3>2 DEF flushVars
    <2>4. CASE pending # <<>>
        <3>1. batch' = pending /\ flushing' = "writing" /\ attempt' = 1
            BY <1>5, <2>4 DEF FlushStarts
        <3>2. WorkerPC = "idle" /\ WorkerPC' = "writing"
            BY <2>1, <2>2, <3>1, PlaceOfWorker DEF WorkerPC
        <3>3. batch = <<>> /\ ToSet(batch) = {}
            BY <2>1, EmptySeq DEF FlushInv, ToSet
        <3>4. /\ ToSet(pending) \subseteq ToSet(delivered)
              /\ Len(pending) \in Nat \ {0}
              /\ Len(pending) <= Prefetch
            <4>1. Len(batch) = 0 /\ Len(pending) \in Nat \ {0} /\ Len(delivered) \in Nat
                BY <2>4, <3>3, EmptySeq, LenProperties DEF TypeOK
            <4>2. Len(batch) + Len(pending) <= Len(delivered)
                BY HeldNow DEF LineInv, Held
            <4>3. Len(delivered) <= Prefetch
                BY DEF TypeOK
            <4> QED
                BY <4>1, <4>2, <4>3, BatchIsFirst DEF LineInv
        <3>5. ToSet(pending) # {} /\ ToSet(pending) \subseteq Untaken
            <4>1. pending[1] \in ToSet(pending)
                BY <3>4, InSequence DEF TypeOK
            <4> QED
                BY <3>3, <3>4, <4>1 DEF Untaken
        <3>6. Untaken' = Untaken \ ToSet(pending)
            BY <2>1, <3>1, <3>3, <3>4 DEF Untaken, LineInv
        <3>7. Worker!Cardinality(ToSet(pending)) <= Prefetch
            <4>1. /\ IsFiniteSet(ToSet(pending))
                  /\ Cardinality(ToSet(pending)) <= Len(pending)
                BY FewerThanPlaces DEF TypeOK
            <4>2. Cardinality(ToSet(pending)) \in Nat
                BY <4>1, FS_CardinalityType
            <4>3. Cardinality(ToSet(pending)) <= Prefetch
                BY <3>4, <4>1, <4>2
            <4>4. Worker!Cardinality(ToSet(pending)) = Cardinality(ToSet(pending))
                BY Zenon DEF Worker!Cardinality, Cardinality
            <4> QED
                BY <4>3, <4>4
        <3>8. Worker!Takes
            <4>1. ToSet(batch') \in (SUBSET Untaken) \ {{}}
                BY <3>1, <3>5
            <4>2. Worker!Cardinality(ToSet(batch')) <= Prefetch
                BY <3>1, <3>7
            <4>3. Untaken' = Untaken \ ToSet(batch')
                BY <3>1, <3>6
            <4> QED
                BY <2>1, <3>1, <3>2, <4>1, <4>2, <4>3 DEF Worker!Takes
        <3> QED
            BY <3>8 DEF Worker!WorkerNext
    <2> QED
        BY <2>3, <2>4
<1>6. CASE WriteCommits
    <2>1. /\ flushing = "writing" /\ flushing' = "written"
          /\ written' = written \cup ToSet(batch)
          /\ UNCHANGED <<ready, delivered, acked, dead, batch, attempt, up>>
        BY <1>6 DEF WriteCommits, brokerVars, processVars
    <2>2. up
        BY <2>1 DEF DownInv, FlushInv
    <2>3. WorkerPC = "writing" /\ WorkerPC' = "written" /\ UNCHANGED Untaken
        BY <2>1, <2>2 DEF WorkerPC, Untaken
    <2>4. Worker!Writes
        BY <2>1, <2>3 DEF Worker!Writes
    <2> QED
        BY <2>4 DEF Worker!WorkerNext
<1>7. CASE Ack
    <2>1. /\ delivered' = SubSeq(delivered, Len(batch) + 1, Len(delivered))
          /\ acked' = acked \cup ToSet(batch)
          /\ batch' = <<>> /\ flushing' = "none" /\ flushing = "written"
          /\ UNCHANGED <<ready, dead, written, pending, attempt, stopping, up>>
        BY <1>7, AckEffect DEF Ack, processVars
    <2>2. up
        BY <2>1 DEF DownInv, FlushInv
    <2>3. ToSet(delivered') = ToSet(delivered) \ ToSet(batch)
        BY <2>1, SettleBatch
    <2>4. UNCHANGED Untaken /\ ToSet(batch') = {}
        BY <2>1, <2>3, UntakenStays
    <2>5. WorkerPC = "written" /\ WorkerPC' = "idle"
        BY <2>1, <2>2 DEF WorkerPC
    <2>6. Worker!Acks
        BY <2>1, <2>4, <2>5 DEF Worker!Acks
    <2> QED
        BY <2>6 DEF Worker!WorkerNext
<1>8. CASE WriteFails
    <2>1. /\ flushing = "writing"
          /\ written' \in {written, written \cup ToSet(batch)}
          /\ UNCHANGED <<ready, acked, pending, stopping, up>>
        BY <1>8, WriteFailsEffect DEF processVars
    <2>2. up /\ WorkerPC = "writing"
        BY <2>1 DEF DownInv, FlushInv, WorkerPC
    <2>3. CASE attempt < MaxAttempts
        <3>1. /\ attempt' = attempt + 1 /\ flushing' = "backoff"
              /\ UNCHANGED <<delivered, dead, batch>>
            BY <1>8, <2>3, WriteFailsEffect
        <3>2. UNCHANGED <<Untaken, WorkerPC>>
            BY <2>1, <2>2, <3>1 DEF Untaken, WorkerPC
        <3>3. Worker!Fails
            BY <2>1, <2>2, <2>3, <3>1, <3>2 DEF Worker!Fails, Worker!MayCommit
        <3> QED
            BY <3>3 DEF Worker!WorkerNext
    <2>4. CASE ~(attempt < MaxAttempts)
        <3>1. /\ dead' = dead \cup ToSet(batch)
              /\ delivered' = SubSeq(delivered, Len(batch) + 1, Len(delivered))
              /\ batch' = <<>> /\ flushing' = "none"
              /\ UNCHANGED attempt
            BY <1>8, <2>4, WriteFailsEffect
        <3>2. ToSet(delivered') = ToSet(delivered) \ ToSet(batch)
            BY <2>1, <3>1, SettleBatch
        <3>3. UNCHANGED Untaken /\ ToSet(batch') = {}
            BY <2>1, <3>1, <3>2, UntakenStays
        <3>4. WorkerPC' = "idle"
            BY <2>1, <2>2, <3>1 DEF WorkerPC
        <3>5. Worker!Fails
            BY <2>1, <2>2, <2>4, <3>1, <3>3, <3>4 DEF Worker!Fails, Worker!MayCommit
        <3> QED
            BY <3>5 DEF Worker!WorkerNext
    <2> QED
        BY <2>3, <2>4
<1>9. CASE Close \/ Crash
    <2>1. /\ up /\ up' = FALSE
          /\ ready' = ready \cup ToSet(delivered)
          /\ delivered' = <<>> /\ batch' = <<>>
          /\ UNCHANGED <<acked, dead, attempt>>
          /\ written' \in {written, written \cup ToSet(batch)}
        BY <1>9 DEF Close, Crash, ProcessEnds
    <2>2. ToSet(delivered') = {} /\ ToSet(batch') = {}
        BY <2>1, EmptySeq DEF ToSet
    <2>3. Untaken' = Untaken \cup ToSet(batch)
        BY <2>1, <2>2, BatchIsFirst DEF Untaken, LineInv
    <2>4. WorkerPC # "down" /\ WorkerPC' = "down"
        BY <2>1 DEF WorkerPC, TypeOK
    <2>5. Worker!Ends
        BY <2>1, <2>2, <2>3, <2>4 DEF Worker!Ends, Worker!MayCommit
    <2> QED
        BY <2>5 DEF Worker!WorkerNext
<1>10. CASE UNCHANGED drainVars
    <2>1. Invisible
        BY <1>10 DEF drainVars, brokerVars, flushVars, processVars, Untaken, WorkerPC
    <2> QED
        BY <1>1, <2>1
<1> QED
    BY <1>2, <1>3, <1>4, <1>5, <1>6, <1>7, <1>8, <1>9, <1>10 DEF Next, FlushStep, StopStep

\* Prefetch, batches that grow behind a running flush, timers, retries,
\* multiple acks, single nacks and shutdown together do what WriteWorker says.
THEOREM DrainImplementsWorker == Spec => ImplementsWorker
<1>1. Init => Worker!WorkerInit
    BY WorkerInitially
<1>2. DrainInv /\ DrainInv' /\ [Next]_drainVars => [Worker!WorkerNext]_(Worker!writeWorkerVars)
    BY WorkerStep
<1> QED
    BY <1>1, <1>2, DrainInvariant, PTL DEF Spec, ImplementsWorker, Worker!WorkerSpec

=============================================================================
