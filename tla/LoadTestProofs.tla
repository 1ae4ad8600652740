--------------------------- MODULE LoadTestProofs ---------------------------
(***************************************************************************)
(* What holds of a run of the load-test suite for any tests, stocks,       *)
(* staircases, bounds and leftovers: verify raises no false alarm, every   *)
(* test starts from a clean sale, a suite that ends by itself leaves no    *)
(* rows, and the capacity test credits iterations to the right stage.      *)
(***************************************************************************)
EXTENDS LoadTest, SaleLedgerProofs, SequenceTheorems, WellFoundedInduction

---------------------------------------------------------------------------
(* The staircase of the capacity test.  An induction over the stages is one *)
(* over a set of numbers.                                                   *)

\* A set that holds 0 and, with each number below n, the next holds them all.
LEMMA BoundedInduction ==
    ASSUME NEW n \in Nat, NEW G, 0 \in G, \A i \in 1..n : i - 1 \in G => i \in G
    PROVE  0..n \subseteq G
<1> DEFINE Less == {ss \in Nat \X Nat : ss[1] < ss[2]}
           T == {i \in 0..n : i \notin G}
<1>1. IsWellFoundedOn(Less, Nat)
    BY NatLessThanWellFounded DEF OpToRel
<1>2. SUFFICES ASSUME T # {} PROVE FALSE
    OBVIOUS
<1>3. T \subseteq Nat
    OBVIOUS
<1>4. PICK m \in T : \A y \in T : <<y, m>> \notin Less
    <2> HIDE DEF T, Less
    <2> QED
        BY <1>1, <1>2, <1>3, WFMin, Zenon
<1>5. m \in 1..n /\ m - 1 \notin G
    BY <1>4
<1>6. m - 1 \in T
    BY <1>5
<1>7. <<m - 1, m>> \in Less
    <2>1. m - 1 \in Nat /\ m \in Nat /\ m - 1 < m
        BY <1>5
    <2>2. <<m - 1, m>> \in Nat \X Nat
        BY <2>1
    <2> QED
        BY <2>1, <2>2
<1> QED
    BY <1>4, <1>6, <1>7

Recurs(f, n, c, g) == f[0] = c /\ \A i \in 1..n : f[i] = g[<<f[i - 1], i>>]

\* So a function can be defined from its value at 0 and that at i - 1.
LEMMA RecursionExists ==
    ASSUME NEW n \in Nat, NEW S, NEW c \in S, NEW g \in [S \X (1..n) -> S]
    PROVE  \E f \in [0..n -> S] : Recurs(f, n, c, g)
<1> DEFINE Upto(k, f) == Recurs(f, k, c, g)
           G == {k \in 0..n : \E f \in [0..k -> S] : Upto(k, f)}
<1>1. 0 \in G
    <2> USE DEF Recurs
    <2>1. [i \in 0..0 |-> c] \in [0..0 -> S] /\ Upto(0, [i \in 0..0 |-> c])
        OBVIOUS
    <2>2. \E f \in [0..0 -> S] : Upto(0, f)
        BY <2>1
    <2>3. 0 \in 0..n
        OBVIOUS
    <2> HIDE DEF Upto
    <2> QED
        BY <2>2, <2>3
<1>2. ASSUME NEW m \in 1..n, m - 1 \in G PROVE m \in G
    <2> USE DEF Recurs
    <2>1. PICK f \in [0..(m - 1) -> S] : Upto(m - 1, f)
        BY <1>2
    <2> DEFINE next == g[<<f[m - 1], m>>]
               h == [i \in 0..m |-> IF i = m THEN next ELSE f[i]]
    <2>2. f[m - 1] \in S
        OBVIOUS
    <2>3. next \in S
        BY <2>2
    <2>4. h \in [0..m -> S]
        BY <2>3
    <2>5. \A i \in 0..(m - 1) : h[i] = f[i]
        OBVIOUS
    <2>6. h[m] = next
        OBVIOUS
    <2> HIDE DEF h
    <2>7. ASSUME NEW i \in 1..m PROVE h[i] = g[<<h[i - 1], i>>]
        <3>1. h[i - 1] = f[i - 1]
            BY <2>5
        <3>2. CASE i = m
            BY <2>6, <3>1, <3>2
        <3>3. CASE i # m
            BY <2>1, <2>5, <3>1, <3>3
        <3> QED
            BY <3>2, <3>3
    <2>8. h[0] = c
        BY <2>1, <2>5
    <2>9. Upto(m, h)
        BY <2>7, <2>8
    <2> QED
        BY <2>4, <2>9
<1>3. n \in G
    <2> HIDE DEF G
    <2>1. 0..n \subseteq G
        BY <1>1, <1>2, BoundedInduction
    <2> QED
        BY <2>1
<1> QED
    BY <1>3

K6Stage == [target : Nat, seconds : Nat \ {0}]

\* A stage is split into one or two that last as long together.
LEMMA SplitShape ==
    ASSUME NEW stage \in [rate : Nat, seconds : Nat \ {0}]
    PROVE  /\ split(stage) \in Seq(K6Stage)
           /\ \A k \in 1..Len(split(stage)) : split(stage)[k].target = stage.rate
           /\ \/ Len(split(stage)) = 1 /\ split(stage)[1].seconds = stage.seconds
              \/ /\ Len(split(stage)) = 2
                 /\ split(stage)[1].seconds + split(stage)[2].seconds = stage.seconds
<1> DEFINE jump == IF stage.seconds < JumpSeconds THEN stage.seconds ELSE JumpSeconds
           hold == stage.seconds - jump
           first == [target |-> stage.rate, seconds |-> jump]
           second == [target |-> stage.rate, seconds |-> hold]
<1>1. stage.rate \in Nat /\ stage.seconds \in Nat \ {0}
    OBVIOUS
<1>2. jump \in Nat \ {0} /\ hold \in Nat /\ jump + hold = stage.seconds
    <2>1. jump \in Nat \ {0} /\ jump <= stage.seconds
        <3> USE StageConstants
        <3>1. CASE stage.seconds < JumpSeconds
            BY <1>1, <3>1
        <3>2. CASE ~(stage.seconds < JumpSeconds)
            BY <1>1, <3>2
        <3> QED
            BY <3>1, <3>2
    <2> HIDE DEF jump
    <2> QED
        BY <1>1, <2>1
<1>3. first \in K6Stage
    BY <1>1, <1>2 DEF K6Stage
<1>4. CASE hold > 0
    <2>1. second \in K6Stage
        BY <1>1, <1>2, <1>4 DEF K6Stage
    <2> HIDE DEF first, second
    <2>2. split(stage) = <<first>> \o <<second>>
        BY <1>4 DEF split, first, second
    <2>3. <<first>> \in Seq(K6Stage) /\ <<second>> \in Seq(K6Stage)
        BY <1>3, <2>1
    <2>4. /\ first.target = stage.rate /\ second.target = stage.rate
          /\ first.seconds + second.seconds = stage.seconds
        BY <1>2 DEF first, second
    <2>5. /\ Len(<<first>>) = 1 /\ Len(<<second>>) = 1
          /\ <<first>>[1] = first /\ <<second>>[1] = second
        OBVIOUS
    <2>6. /\ split(stage) \in Seq(K6Stage) /\ Len(split(stage)) = 2
          /\ split(stage)[1] = first /\ split(stage)[2] = second
        <3>1. /\ <<first>> \o <<second>> \in Seq(K6Stage)
              /\ Len(<<first>> \o <<second>>) = Len(<<first>>) + Len(<<second>>)
              /\ \A i \in 1..(Len(<<first>>) + Len(<<second>>)) :
                    (<<first>> \o <<second>>)[i] =
                        IF i <= Len(<<first>>) THEN <<first>>[i] ELSE <<second>>[i - Len(<<first>>)]
            BY <2>3, ConcatProperties
        <3> QED
            BY <2>2, <2>5, <3>1
    <2>7. \A k \in 1..2 : k = 1 \/ k = 2
        OBVIOUS
    <2> QED
        BY <2>4, <2>6, <2>7
<1>5. CASE ~(hold > 0)
    <2>1. jump = stage.seconds
        BY <1>2, <1>5
    <2> HIDE DEF first
    <2>2. split(stage) = <<first>> \o <<>>
        BY <1>5 DEF split, first
    <2>3. split(stage) = <<first>>
        BY <1>3, <2>2
    <2>4. first.target = stage.rate /\ first.seconds = stage.seconds
        BY <2>1 DEF first
    <2> QED
        BY <1>3, <2>3, <2>4
<1> QED
    BY <1>4, <1>5

\* Each part lasts.
LEMMA SplitLasts ==
    ASSUME NEW stage \in [rate : Nat, seconds : Nat \ {0}]
    PROVE  /\ 1 \in 1..Len(split(stage)) /\ Len(split(stage)) \in {1, 2}
           /\ \A k \in 1..Len(split(stage)) : split(stage)[k].seconds \in Nat \ {0}
<1>1. split(stage) \in Seq(K6Stage) /\ Len(split(stage)) \in {1, 2}
    BY SplitShape
<1>2. \A k \in 1..Len(split(stage)) : split(stage)[k] \in K6Stage
    BY <1>1, ElementOfSeq
<1>3. 1 \in 1..Len(split(stage))
    BY <1>1
<1> QED
    BY <1>1, <1>2, <1>3 DEF K6Stage

Count == Len(Stages)

\* The constants.
LEMMA StageFacts ==
    /\ Count \in Nat \ {0}
    /\ \A i \in 1..Count : Stages[i] \in [rate : Nat, seconds : Nat \ {0}]
BY StageConstants, EmptySeq, LenProperties, ElementOfSeq DEF Count

\* k6Stages is the function its equation describes.
LEMMA StagesEquation ==
    /\ k6Stages[0] = <<>>
    /\ \A i \in 1..Count : k6Stages[i] = k6Stages[i - 1] \o split(Stages[i])
<1> DEFINE g == [p \in Seq(K6Stage) \X (1..Count) |-> p[1] \o split(Stages[p[2]])]
           Solves(f) == f = [i \in 0..Len(Stages) |->
                                IF i = 0 THEN <<>> ELSE f[i - 1] \o split(Stages[i])]
<1>1. g \in [Seq(K6Stage) \X (1..Count) -> Seq(K6Stage)]
    <2>1. ASSUME NEW x \in Seq(K6Stage), NEW i \in 1..Count
          PROVE  x \o split(Stages[i]) \in Seq(K6Stage)
        BY StageFacts, SplitShape, ConcatProperties
    <2> QED
        BY <2>1
<1>2. \A x \in Seq(K6Stage), i \in 1..Count : g[<<x, i>>] = x \o split(Stages[i])
    OBVIOUS
<1> HIDE DEF g
<1>3. PICK f \in [0..Count -> Seq(K6Stage)] :
        f[0] = <<>> /\ \A i \in 1..Count : f[i] = g[<<f[i - 1], i>>]
    <2>1. Count \in Nat /\ <<>> \in Seq(K6Stage)
        BY StageFacts, EmptySeq
    <2>2. \E f \in [0..Count -> Seq(K6Stage)] : Recurs(f, Count, <<>>, g)
        BY <1>1, <2>1, RecursionExists
    <2> QED
        BY <2>2 DEF Recurs
<1>4. Solves(f)
    <2>1. ASSUME NEW i \in 1..Count PROVE f[i] = f[i - 1] \o split(Stages[i])
        <3>1. f[i - 1] \in Seq(K6Stage)
            BY StageFacts
        <3> QED
            BY <1>2, <1>3, <3>1
    <2>2. ASSUME NEW i \in 0..Count
          PROVE  f[i] = IF i = 0 THEN <<>> ELSE f[i - 1] \o split(Stages[i])
        <3>1. i = 0 \/ i \in 1..Count
            BY StageFacts
        <3> QED
            BY <1>3, <2>1, <3>1
    <2>3. f = [i \in 0..Count |-> f[i]]
        OBVIOUS
    <2> QED
        BY <2>2, <2>3 DEF Count
<1>5. Solves(k6Stages)
    BY <1>4 DEF k6Stages
<1>6. \A i \in 0..Count : k6Stages[i] =
            IF i = 0 THEN <<>> ELSE k6Stages[i - 1] \o split(Stages[i])
    BY <1>5 DEF Count
<1>7. 0 \in 0..Count /\ \A i \in 1..Count : i \in 0..Count /\ i # 0
    BY StageFacts
<1> QED
    BY <1>6, <1>7

\* So is cumulative.
LEMMA CumulativeEquation ==
    /\ cumulative[0] = 0
    /\ \A i \in 1..Count : cumulative[i] = cumulative[i - 1] + Stages[i].seconds
<1> DEFINE g == [p \in Nat \X (1..Count) |-> p[1] + Stages[p[2]].seconds]
           Solves(f) == f = [i \in 0..Len(Stages) |->
                                IF i = 0 THEN 0 ELSE f[i - 1] + Stages[i].seconds]
<1>1. g \in [Nat \X (1..Count) -> Nat]
    <2>1. ASSUME NEW x \in Nat, NEW i \in 1..Count
          PROVE  x + Stages[i].seconds \in Nat
        <3>1. Stages[i].seconds \in Nat
            BY StageFacts
        <3> QED
            BY <3>1
    <2> QED
        BY <2>1
<1>2. \A x \in Nat, i \in 1..Count : g[<<x, i>>] = x + Stages[i].seconds
    OBVIOUS
<1> HIDE DEF g
<1>3. PICK f \in [0..Count -> Nat] :
        f[0] = 0 /\ \A i \in 1..Count : f[i] = g[<<f[i - 1], i>>]
    <2>1. 0 \in Nat /\ Count \in Nat
        BY StageFacts
    <2>2. \E f \in [0..Count -> Nat] : Recurs(f, Count, 0, g)
        BY <1>1, <2>1, RecursionExists
    <2> QED
        BY <2>2 DEF Recurs
<1>4. Solves(f)
    <2>1. ASSUME NEW i \in 1..Count PROVE f[i] = f[i - 1] + Stages[i].seconds
        <3>1. f[i - 1] \in Nat
            BY StageFacts
        <3> QED
            BY <1>2, <1>3, <3>1
    <2>2. ASSUME NEW i \in 0..Count
          PROVE  f[i] = IF i = 0 THEN 0 ELSE f[i - 1] + Stages[i].seconds
        <3>1. i = 0 \/ i \in 1..Count
            BY StageFacts
        <3> QED
            BY <1>3, <2>1, <3>1
    <2>3. f = [i \in 0..Count |-> f[i]]
        OBVIOUS
    <2> QED
        BY <2>2, <2>3 DEF Count
<1>5. Solves(cumulative)
    BY <1>4 DEF cumulative
<1>6. \A i \in 0..Count : cumulative[i] =
            IF i = 0 THEN 0 ELSE cumulative[i - 1] + Stages[i].seconds
    BY <1>5 DEF Count
<1>7. 0 \in 0..Count /\ \A i \in 1..Count : i \in 0..Count /\ i # 0
    BY StageFacts
<1> QED
    BY <1>6, <1>7

\* The k6 stages of the first i stages are a sequence.
LEMMA StagesAreSeqs == \A i \in 0..Count : k6Stages[i] \in Seq(K6Stage)
<1> DEFINE G == {i \in 0..Count : k6Stages[i] \in Seq(K6Stage)}
<1>1. 0 \in G
    <2>1. 0 \in 0..Count /\ <<>> \in Seq(K6Stage)
        BY StageFacts, EmptySeq
    <2> QED
        BY <2>1, StagesEquation
<1>2. ASSUME NEW i \in 1..Count, i - 1 \in G PROVE i \in G
    <2>1. k6Stages[i - 1] \in Seq(K6Stage) /\ split(Stages[i]) \in Seq(K6Stage)
        BY <1>2, StageFacts, SplitShape
    <2>2. k6Stages[i - 1] \o split(Stages[i]) \in Seq(K6Stage)
        BY <2>1, ConcatProperties
    <2>3. i \in 0..Count
        BY StageFacts
    <2> QED
        BY <2>2, <2>3, StagesEquation
<1> HIDE DEF G
<1>3. 0..Count \subseteq G
    BY <1>1, <1>2, StageFacts, BoundedInduction
<1> QED
    BY <1>3 DEF G

LengthAt(i) == Len(k6Stages[i])

\* What stage i adds.
LEMMA StageAdds ==
    ASSUME NEW i \in 1..Count
    PROVE  /\ LengthAt(i - 1) \in Nat /\ LengthAt(i) \in Nat
           /\ LengthAt(i) = LengthAt(i - 1) + Len(split(Stages[i]))
           /\ \A k \in 1..LengthAt(i - 1) : k6Stages[i][k] = k6Stages[i - 1][k]
           /\ \A k \in 1..Len(split(Stages[i])) :
                k6Stages[i][LengthAt(i - 1) + k] = split(Stages[i])[k]
<1> DEFINE a == k6Stages[i - 1]
           b == split(Stages[i])
<1>1. i \in 0..Count /\ i - 1 \in 0..Count
    BY StageFacts
<1>2. a \in Seq(K6Stage) /\ b \in Seq(K6Stage)
    BY <1>1, StagesAreSeqs, StageFacts, SplitShape
<1>3. k6Stages[i] = a \o b
    BY StagesEquation
<1> HIDE DEF a, b
<1>4. /\ a \o b \in Seq(K6Stage)
      /\ Len(a \o b) = Len(a) + Len(b)
      /\ \A k \in 1..(Len(a) + Len(b)) :
            (a \o b)[k] = IF k <= Len(a) THEN a[k] ELSE b[k - Len(a)]
    BY <1>2, ConcatProperties
<1>5. Len(a) \in Nat /\ Len(b) \in Nat /\ Len(a \o b) \in Nat
    BY <1>2, <1>4, LenProperties
<1>6. \A k \in 1..Len(a) : (a \o b)[k] = a[k]
    BY <1>4, <1>5
<1>7. ASSUME NEW k \in 1..Len(b) PROVE (a \o b)[Len(a) + k] = b[k]
    <2>1. /\ Len(a) + k \in 1..(Len(a) + Len(b)) /\ ~(Len(a) + k <= Len(a))
          /\ Len(a) + k - Len(a) = k
        BY <1>5
    <2> QED
        BY <1>4, <2>1
<1> QED
    BY <1>3, <1>4, <1>5, <1>6, <1>7 DEF LengthAt, a, b

\* The end of a stage is a number.
LEMMA EndsAreNumbers == \A i \in 0..Count : cumulative[i] \in Nat
<1> DEFINE G == {i \in 0..Count : cumulative[i] \in Nat}
<1>1. 0 \in G
    BY CumulativeEquation, StageFacts
<1>2. ASSUME NEW i \in 1..Count, i - 1 \in G PROVE i \in G
    <2>1. cumulative[i - 1] \in Nat /\ Stages[i].seconds \in Nat /\ i \in 0..Count
        BY <1>2, StageFacts
    <2> QED
        BY <2>1, CumulativeEquation
<1> HIDE DEF G
<1>3. 0..Count \subseteq G
    BY <1>1, <1>2, StageFacts, BoundedInduction
<1> QED
    BY <1>3 DEF G

\* A later stage ends later, and k6 has the earlier ones' stages before its.
LEMMA LaterStages ==
    ASSUME NEW i \in 0..Count
    PROVE  \A m \in 0..Count : i <= m =>
                /\ cumulative[i] <= cumulative[m]
                /\ LengthAt(i) <= LengthAt(m)
                /\ \A k \in 1..LengthAt(i) : k6Stages[m][k] = k6Stages[i][k]
<1> DEFINE Follows(m) == /\ cumulative[i] <= cumulative[m]
                         /\ LengthAt(i) <= LengthAt(m)
                         /\ \A k \in 1..LengthAt(i) : k6Stages[m][k] = k6Stages[i][k]
           G == {m \in 0..Count : i <= m => Follows(m)}
<1>1. /\ Count \in Nat /\ i \in Nat
      /\ \A m \in 0..Count : cumulative[m] \in Nat /\ LengthAt(m) \in Nat
    BY StageFacts, EndsAreNumbers, StagesAreSeqs, LenProperties DEF LengthAt
<1>2. Follows(i)
    BY <1>1
<1>3. 0 \in G
    BY <1>1, <1>2
<1>4. ASSUME NEW m \in 1..Count, m - 1 \in G PROVE m \in G
    <2>1. m \in 0..Count /\ m - 1 \in 0..Count
        BY <1>1
    <2>2. CASE i <= m - 1
        <3>1. Follows(m - 1)
            BY <1>4, <2>2
        <3>2. cumulative[m - 1] <= cumulative[m]
            <4>1. Stages[m].seconds \in Nat /\ cumulative[m - 1] \in Nat
                BY <1>1, <2>1, StageFacts
            <4> QED
                BY <4>1, CumulativeEquation
        <3>3. LengthAt(m - 1) <= LengthAt(m)
            <4>1. Len(split(Stages[m])) \in Nat
                BY StageFacts, SplitShape, LenProperties
            <4> QED
                BY <1>1, <2>1, <4>1, StageAdds
        <3>4. \A k \in 1..LengthAt(i) : k6Stages[m][k] = k6Stages[i][k]
            <4>1. \A k \in 1..LengthAt(m - 1) : k6Stages[m][k] = k6Stages[m - 1][k]
                BY StageAdds
            <4>2. \A k \in 1..LengthAt(i) : k \in 1..LengthAt(m - 1)
                BY <1>1, <2>1, <3>1
            <4> QED
                BY <3>1, <4>1, <4>2
        <3> QED
            BY <1>1, <2>1, <3>1, <3>2, <3>3, <3>4
    <2>3. CASE i = m
        BY <1>2, <2>1, <2>3
    <2>4. CASE m < i
        BY <1>1, <2>1, <2>4
    <2> QED
        BY <1>1, <2>2, <2>3, <2>4
<1> HIDE DEF G
<1>5. 0..Count \subseteq G
    BY <1>1, <1>3, <1>4, BoundedInduction
<1> QED
    BY <1>5 DEF G

\* The executor is in the jump or in the hold of stage i, and the clock says
\* how far.
InJump(i) ==
    /\ slot = LengthAt(i - 1) + 1
    /\ elapsed = cumulative[i - 1] + spent
    /\ spent < split(Stages[i])[1].seconds

InHold(i) ==
    /\ Len(split(Stages[i])) = 2
    /\ slot = LengthAt(i - 1) + 2
    /\ elapsed = cumulative[i - 1] + split(Stages[i])[1].seconds + spent
    /\ spent < split(Stages[i])[2].seconds

Done == slot = LengthAt(Count) + 1 /\ elapsed = cumulative[Count]

ScheduleInv ==
    /\ elapsed \in Nat /\ slot \in Nat /\ spent \in Nat
    /\ Done \/ \E i \in 1..Count : InJump(i) \/ InHold(i)

\* Where that puts the executor in the schedule and the clock in the stage.
LEMMA StagePosition ==
    ASSUME ScheduleInv, NEW i \in 1..Count, InJump(i) \/ InHold(i)
    PROVE  /\ slot \in 1..LengthAt(Count)
           /\ \E k \in 1..Len(split(Stages[i])) :
                /\ slot = LengthAt(i - 1) + k
                /\ k6Stages[Count][slot] = split(Stages[i])[k]
           /\ cumulative[i - 1] <= elapsed /\ elapsed < cumulative[i]
<1> DEFINE b == split(Stages[i])
<1>1. /\ i \in 0..Count /\ i - 1 \in 0..Count /\ Count \in 0..Count /\ i <= Count
      /\ elapsed \in Nat /\ slot \in Nat /\ spent \in Nat
    BY StageFacts DEF ScheduleInv
<1>2. /\ LengthAt(i - 1) \in Nat /\ LengthAt(i) \in Nat /\ LengthAt(Count) \in Nat
      /\ LengthAt(i) = LengthAt(i - 1) + Len(b)
      /\ \A k \in 1..Len(b) : k6Stages[i][LengthAt(i - 1) + k] = b[k]
    BY <1>1, StageAdds, StagesAreSeqs, LenProperties DEF LengthAt
<1>3. /\ LengthAt(i) <= LengthAt(Count)
      /\ \A k \in 1..LengthAt(i) : k6Stages[Count][k] = k6Stages[i][k]
    BY <1>1, LaterStages
<1>4. /\ cumulative[i - 1] \in Nat /\ cumulative[i] \in Nat
      /\ cumulative[i] = cumulative[i - 1] + Stages[i].seconds
    BY <1>1, EndsAreNumbers, CumulativeEquation
<1>5. /\ b \in Seq(K6Stage) /\ Stages[i].seconds \in Nat
      /\ \/ Len(b) = 1 /\ b[1].seconds = Stages[i].seconds
         \/ Len(b) = 2 /\ b[1].seconds + b[2].seconds = Stages[i].seconds
    BY StageFacts, SplitShape
<1>6. /\ b[1].seconds \in Nat
      /\ Len(b) = 2 => b[2].seconds \in Nat
    <2>1. \A k \in 1..Len(b) : b[k].seconds \in Nat
        BY StageFacts, SplitLasts
    <2>2. 1 \in 1..Len(b) /\ (Len(b) = 2 => 2 \in 1..Len(b))
        BY <1>5
    <2> QED
        BY <2>1, <2>2
<1>7. \E k \in 1..Len(b) : slot = LengthAt(i - 1) + k
    BY <1>5 DEF InJump, InHold
<1> HIDE DEF b
<1>8. cumulative[i - 1] <= elapsed /\ elapsed < cumulative[i]
    <2>1. CASE InJump(i)
        <3>1. elapsed = cumulative[i - 1] + spent /\ spent < b[1].seconds
            BY <2>1 DEF InJump, b
        <3>2. b[1].seconds <= Stages[i].seconds
            BY <1>5, <1>6
        <3>3. Stages[i].seconds \in Nat /\ b[1].seconds \in Nat
            BY <1>5, <1>6
        <3> QED
            BY <1>1, <1>4, <3>1, <3>2, <3>3
    <2>2. CASE InHold(i)
        <3>1. /\ elapsed = cumulative[i - 1] + b[1].seconds + spent
              /\ spent < b[2].seconds /\ Len(b) = 2
            BY <2>2 DEF InHold, b
        <3>2. b[1].seconds + b[2].seconds = Stages[i].seconds
            BY <1>5, <3>1
        <3>3. Stages[i].seconds \in Nat /\ b[1].seconds \in Nat /\ b[2].seconds \in Nat
            BY <1>5, <1>6, <3>1
        <3> QED
            BY <1>1, <1>4, <3>1, <3>2, <3>3
    <2> QED
        BY <2>1, <2>2
<1>9. PICK k \in 1..Len(b) : slot = LengthAt(i - 1) + k
    BY <1>7
<1>10. slot \in 1..LengthAt(i)
    BY <1>2, <1>5, <1>9
<1>11. slot \in 1..LengthAt(Count)
    BY <1>2, <1>3, <1>10
<1>12. k6Stages[Count][slot] = b[k]
    BY <1>2, <1>3, <1>9, <1>10
<1> QED
    BY <1>8, <1>9, <1>11, <1>12 DEF b

\* k6 starts in the jump of the first stage.
LEMMA ScheduleStarts ==
    /\ StagesInit => ScheduleInv
    /\ StagesReset => ScheduleInv'
<1>1. 1 \in 1..Count /\ 1 - 1 = 0
    BY StageFacts
<1>2. LengthAt(0) = 0 /\ cumulative[0] = 0
    BY StagesEquation, CumulativeEquation, EmptySeq DEF LengthAt
<1>3. split(Stages[1])[1].seconds \in Nat \ {0}
    BY <1>1, StageFacts, SplitLasts
<1>4. ASSUME StagesInit PROVE InJump(1)
    BY <1>1, <1>2, <1>3, <1>4 DEF StagesInit, InJump
<1>5. ASSUME StagesReset PROVE InJump(1)'
    BY <1>1, <1>2, <1>3, <1>5 DEF StagesReset, InJump, LengthAt
<1> QED
    BY <1>1, <1>4, <1>5 DEF ScheduleInv, StagesInit, StagesReset

\* When a stage is over the next one begins, or the schedule is done.
LEMMA StageFollows ==
    ASSUME NEW i \in 1..Count, slot' = LengthAt(i) + 1, elapsed' = cumulative[i], spent' = 0
    PROVE  ScheduleInv'
<1>1. elapsed' \in Nat /\ slot' \in Nat /\ spent' \in Nat
    BY StageAdds, EndsAreNumbers, StageFacts
<1>2. CASE i = Count
    BY <1>1, <1>2 DEF ScheduleInv, Done, LengthAt
<1>3. CASE i # Count
    <2>1. i + 1 \in 1..Count /\ (i + 1) - 1 = i
        BY <1>3, StageFacts
    <2>2. Stages[i + 1] \in [rate : Nat, seconds : Nat \ {0}]
        BY <2>1, StageFacts
    <2>3. split(Stages[i + 1])[1].seconds \in Nat \ {0}
        BY <2>2, SplitLasts
    <2>4. cumulative[i] \in Nat
        BY EndsAreNumbers, StageFacts
    <2>5. InJump(i + 1)'
        BY <2>1, <2>3, <2>4 DEF InJump, LengthAt
    <2> QED
        BY <1>1, <2>1, <2>5 DEF ScheduleInv
<1> QED
    BY <1>2, <1>3

\* A second of k6 takes the executor to the next second of its stage, from the
\* jump to the hold, or to the next stage.
LEMMA SecondKeeps ==
    ASSUME ScheduleInv, Second
    PROVE  ScheduleInv'
<1>1. elapsed \in Nat /\ slot \in Nat /\ spent \in Nat
    BY DEF ScheduleInv
<1>2. slot <= LengthAt(Count) /\ LengthAt(Count) \in Nat
    <2>1. LengthAt(Count) \in Nat
        BY StagesAreSeqs, StageFacts, LenProperties DEF LengthAt
    <2> QED
        BY <1>1, <2>1 DEF Second, ScheduleOver, toK6Stages, LengthAt, Count
<1>3. PICK i \in 1..Count : InJump(i) \/ InHold(i)
    <2>1. ~Done
        BY <1>1, <1>2 DEF Done
    <2> QED
        BY <2>1 DEF ScheduleInv
<1> DEFINE b == split(Stages[i])
<1>4. PICK k \in 1..Len(b) : slot = LengthAt(i - 1) + k /\ k6Stages[Count][slot] = b[k]
    BY <1>3, StagePosition
<1>5. /\ elapsed' = elapsed + 1
      /\ IF spent + 1 = b[k].seconds
         THEN slot' = slot + 1 /\ spent' = 0
         ELSE spent' = spent + 1 /\ slot' = slot
    BY <1>4 DEF Second, toK6Stages, Count
<1>6. /\ LengthAt(i - 1) \in Nat /\ LengthAt(i) = LengthAt(i - 1) + Len(b)
      /\ cumulative[i - 1] \in Nat
      /\ cumulative[i] = cumulative[i - 1] + Stages[i].seconds
    BY StageFacts, StageAdds, EndsAreNumbers, CumulativeEquation
<1>7. /\ b \in Seq(K6Stage)
      /\ \/ Len(b) = 1 /\ b[1].seconds = Stages[i].seconds
         \/ Len(b) = 2 /\ b[1].seconds + b[2].seconds = Stages[i].seconds
    BY StageFacts, SplitShape
<1>8. \A j \in 1..Len(b) : b[j].seconds \in Nat \ {0}
    BY StageFacts, SplitLasts
<1>9. elapsed' \in Nat /\ slot' \in Nat /\ spent' \in Nat
    BY <1>1, <1>5
<1>10. CASE InJump(i)
    <2>1. /\ k = 1 /\ slot = LengthAt(i - 1) + 1
          /\ elapsed = cumulative[i - 1] + spent /\ spent < b[1].seconds
        BY <1>4, <1>6, <1>10 DEF InJump
    <2>2. CASE spent + 1 # b[1].seconds
        <3>1. spent' = spent + 1 /\ slot' = slot /\ elapsed' = elapsed + 1
            BY <1>5, <2>1, <2>2
        <3>2. b[1].seconds \in Nat
            BY StageFacts, SplitLasts
        <3>3. /\ slot' = LengthAt(i - 1) + 1 /\ elapsed' = cumulative[i - 1] + spent'
              /\ spent' < b[1].seconds
            <4>1. slot' = LengthAt(i - 1) + 1
                BY <2>1, <3>1
            <4>2. elapsed' = cumulative[i - 1] + spent'
                <5>1. PICK c \in Nat : c = cumulative[i - 1]
                    BY <1>6
                <5>2. elapsed = c + spent
                    BY <2>1, <5>1
                <5>3. elapsed' = c + spent'
                    BY <1>1, <3>1, <5>2
                <5> QED
                    BY <5>1, <5>3
            <4>3. spent' < b[1].seconds
                <5> HIDE DEF b
                <5> QED
                    BY <1>1, <2>1, <2>2, <3>1, <3>2
            <4> QED
                BY <4>1, <4>2, <4>3
        <3>4. InJump(i)'
            BY <3>3 DEF InJump, LengthAt
        <3> QED
            BY <1>9, <3>4 DEF ScheduleInv
    <2>3. CASE spent + 1 = b[1].seconds
        <3>1. /\ spent' = 0 /\ slot' = LengthAt(i - 1) + 2
              /\ elapsed' = cumulative[i - 1] + b[1].seconds
            <4>1. spent' = 0 /\ slot' = slot + 1 /\ elapsed' = elapsed + 1
                BY <1>5, <2>1, <2>3
            <4>2. LengthAt(i - 1) \in Nat /\ cumulative[i - 1] \in Nat
                BY <1>6
            <4>3. b[1].seconds \in Nat
                BY StageFacts, SplitLasts
            <4>4. slot' = LengthAt(i - 1) + 2
                BY <2>1, <4>1, <4>2
            <4>5. elapsed' = cumulative[i - 1] + b[1].seconds
                <5>1. PICK c \in Nat, d \in Nat : c = cumulative[i - 1] /\ d = b[1].seconds
                    BY <4>2, <4>3
                <5>2. elapsed = c + spent /\ spent + 1 = d
                    BY <2>1, <2>3, <5>1
                <5>3. elapsed' = c + d
                    BY <1>1, <4>1, <5>2
                <5> QED
                    BY <5>1, <5>3
            <4> QED
                BY <4>1, <4>4, <4>5
        <3>2. CASE Len(b) = 1
            <4>1. slot' = LengthAt(i) + 1 /\ elapsed' = cumulative[i]
                BY <1>6, <1>7, <3>1, <3>2
            <4> QED
                BY <3>1, <4>1, StageFollows
        <3>3. CASE Len(b) = 2
            <4>1. b[2].seconds \in Nat \ {0} /\ b[1].seconds \in Nat
                BY <1>8, <3>3
            <4>2. InHold(i)'
                BY <1>6, <3>1, <3>3, <4>1 DEF InHold, LengthAt
            <4> QED
                BY <1>9, <4>2 DEF ScheduleInv
        <3> QED
            BY <1>7, <3>2, <3>3
    <2> QED
        BY <2>2, <2>3
<1>11. CASE InHold(i)
    <2>1. /\ Len(b) = 2 /\ k = 2 /\ slot = LengthAt(i - 1) + 2
          /\ elapsed = cumulative[i - 1] + b[1].seconds + spent /\ spent < b[2].seconds
        BY <1>4, <1>6, <1>11 DEF InHold
    <2>2. /\ b[1].seconds \in Nat /\ b[2].seconds \in Nat
          /\ b[1].seconds + b[2].seconds = Stages[i].seconds
        BY <1>7, <1>8, <2>1
    <2>3. CASE spent + 1 # b[2].seconds
        <3>1. spent' = spent + 1 /\ slot' = slot /\ elapsed' = elapsed + 1
            BY <1>5, <2>1, <2>3
        <3>2. /\ slot' = LengthAt(i - 1) + 2
              /\ elapsed' = cumulative[i - 1] + b[1].seconds + spent'
              /\ spent' < b[2].seconds
            BY <1>1, <1>6, <2>1, <2>2, <2>3, <3>1
        <3>3. InHold(i)'
            BY <2>1, <3>2 DEF InHold, LengthAt
        <3> QED
            BY <1>9, <3>3 DEF ScheduleInv
    <2>4. CASE spent + 1 = b[2].seconds
        <3>1. /\ spent' = 0 /\ slot' = LengthAt(i) + 1 /\ elapsed' = cumulative[i]
            BY <1>1, <1>5, <1>6, <2>1, <2>2, <2>4
        <3> QED
            BY <3>1, StageFollows
    <2> QED
        BY <2>3, <2>4
<1> QED
    BY <1>3, <1>10, <1>11

\* The schedule's invariant is enough for the tracker and for the types.
LEMMA ScheduleShows == ScheduleInv => TrackerFollowsExecutor /\ StagesTypeOK
<1> SUFFICES ASSUME ScheduleInv PROVE TrackerFollowsExecutor /\ StagesTypeOK
    OBVIOUS
<1>1. /\ elapsed \in Nat /\ slot \in Nat /\ spent \in Nat
      /\ Len(toK6Stages) = LengthAt(Count) /\ LengthAt(Count) \in Nat
      /\ Count \in 1..Count
    BY StagesAreSeqs, StageFacts, LenProperties
       DEF ScheduleInv, toK6Stages, LengthAt, Count
<1>2. \A j \in 1..Count : boundaries[j] = cumulative[j]
    BY DEF boundaries, Count
<1>3. CASE Done
    <2>1. ScheduleOver /\ StagesTypeOK
        BY <1>1, <1>3 DEF Done, ScheduleOver, StagesTypeOK
    <2>2. elapsed = boundaries[Len(Stages)]
        BY <1>1, <1>2, <1>3 DEF Done, Count
    <2> QED
        BY <2>1, <2>2 DEF TrackerFollowsExecutor
<1>4. ASSUME NEW i \in 1..Count, InJump(i) \/ InHold(i)
      PROVE  TrackerFollowsExecutor /\ StagesTypeOK
    <2>1. /\ slot \in 1..LengthAt(Count)
          /\ cumulative[i - 1] <= elapsed /\ elapsed < cumulative[i]
        BY <1>4, StagePosition
    <2>2. PICK k \in 1..Len(split(Stages[i])) : k6Stages[Count][slot] = split(Stages[i])[k]
        BY <1>4, StagePosition
    <2>3. toK6Stages[slot].target = Stages[i].rate
        BY <2>2, SplitShape, StageFacts DEF toK6Stages, Count
    <2>4. creditedTo = i
        <3> DEFINE open == {j \in 1..Count : elapsed < boundaries[j]}
        <3>1. i \in open
            BY <1>2, <2>1
        <3>2. ASSUME NEW j \in open PROVE i <= j
            <4>1. SUFFICES ASSUME j < i PROVE FALSE
                OBVIOUS
            <4>2. j \in 0..Count /\ i - 1 \in 0..Count /\ j <= i - 1
                BY <4>1, StageFacts
            <4>3. cumulative[j] <= cumulative[i - 1]
                BY <4>2, LaterStages
            <4>4. cumulative[j] \in Nat /\ cumulative[i - 1] \in Nat
                BY <4>2, EndsAreNumbers
            <4>5. elapsed < cumulative[j]
                BY <1>2
            <4> QED
                BY <1>1, <2>1, <4>3, <4>4, <4>5
        <3>3. \A m \in open : (\A j \in open : m <= j) => m = i
            BY <3>1, <3>2
        <3>4. creditedTo = IF open = {} THEN Len(Stages)
                           ELSE CHOOSE m \in open : \A j \in open : m <= j
            BY DEF creditedTo, Count
        <3> HIDE DEF open
        <3> QED
            BY <3>1, <3>2, <3>3, <3>4
    <2>5. ~ScheduleOver /\ StagesTypeOK
        BY <1>1, <2>1 DEF ScheduleOver, StagesTypeOK
    <2> QED
        BY <2>3, <2>4, <2>5 DEF TrackerFollowsExecutor
<1> QED
    BY <1>3, <1>4 DEF ScheduleInv

---------------------------------------------------------------------------
(* The inductive invariant of the suite.                                   *)

USE WindowConstants, LedgerConstants, LoadTestConstants

Before == {"prepare", "prepare_sales", "create"}
Selling == {"warm", "k6", "drain", "settle", "verify"}
After == {"compare", "cleanup", "cleanup_sales", "unwarm", "record"}
Ended == {"green", "red", "crashed"}

RunnerType ==
    /\ pc \in Before \cup Selling \cup After \cup Ended
    /\ suite \in Suites /\ at \in 1..Len(suite)
    /\ keep \in BOOLEAN /\ outcomes \in Seq(BOOLEAN)
    /\ sale \in Sales \cup {NoSale}
    /\ exists \subseteq used /\ used \subseteq Sales
    /\ requests \in 0..MaxRequests /\ k6Ok \in BOOLEAN
    /\ polls \in 0..MaxPolls
    /\ verified \in {"none", "ok", "violation"}

SystemType ==
    /\ GateTypeOK
    /\ late \subseteq Sales \X Emails
    /\ queue \subseteq Messages /\ held \subseteq Messages
    /\ Cardinality(held) <= Prefetch

\* One outcome and one sale id for each test so far, so that the ids last; a
\* second look at the queue only before the last poll.
SuiteInv ==
    /\ pc = "settle" => polls < MaxPolls
    /\ IF pc \in {"green", "red"} THEN Len(outcomes) <= at ELSE Len(outcomes) = at - 1
    /\ Cardinality(used) <= IF pc \in Before THEN at ELSE at + 1
    /\ pc \in Selling \cup After => sale \in used

ForeignKey == \A p \in purchases : p.saleId \in exists

Traffic(s) ==
    \/ \E m \in queue \cup held : m.saleId = s
    \/ \E l \in late : l[1] = s

\* Nothing refers to an id that was not given out yet.
UnusedInv ==
    \A s \in Sales \ used : ~Traffic(s) /\ stock[s] = NoKey /\ buyers[s] = {}

\* While its sale exists, what a test has sold and has left is its stock.
SellingInv == pc \in Selling => sale \in exists /\ Whole(sale) = Profile[test]

CompareInv ==
    /\ pc = "compare" => checks(snapshot.remaining, snapshot.purchases)
    /\ verified # "violation"

\* Until the first request only the runner knows the sale.
FreshInv ==
    pc = "warm" \/ (pc = "k6" /\ requests = 0) =>
        /\ ~Traffic(sale) /\ RowsOf(purchases, sale) = {}
        /\ stock[sale] \in {NoKey, Profile[test]} /\ buyers[sale] = {}

CleanInv ==
    pc \in {"create", "unwarm"} \/ (pc \in {"record", "green", "red"} /\ ~keep) => exists = {}

LoadInv ==
    /\ RunnerType /\ SystemType /\ LedgerBase
    /\ SuiteInv /\ ForeignKey /\ UnusedInv
    /\ SellingInv /\ CompareInv /\ FreshInv /\ CleanInv

---------------------------------------------------------------------------
\* There are finitely many messages.
LEMMA MessagesFinite == IsFiniteSet(Messages)
<1> DEFINE f == [l \in Sales \X Emails |->
                    [saleId |-> l[1], email |-> l[2], purchasedAt |-> Now]]
<1>1. IsFiniteSet(Sales \X Emails)
    BY FS_Product
<1>2. f \in [Sales \X Emails -> Messages]
    BY DEF Messages
<1>3. ASSUME NEW m \in Messages PROVE \E l \in Sales \X Emails : f[l] = m
    <2>1. /\ m.saleId \in Sales /\ m.email \in Emails
          /\ m = [saleId |-> m.saleId, email |-> m.email, purchasedAt |-> Now]
        BY DEF Messages
    <2>2. <<m.saleId, m.email>> \in Sales \X Emails
        BY <2>1
    <2>3. f[<<m.saleId, m.email>>] = m
        BY <2>1, <2>2
    <2> QED
        BY <2>2, <2>3
<1>4. f \in Surjection(Sales \X Emails, Messages)
    BY <1>2, <1>3 DEF Surjection
<1> QED
    BY <1>1, <1>4, FS_Surjection

\* A set of messages is a finite set of rows.
LEMMA BatchIsRows ==
    ASSUME NEW batch, batch \subseteq Messages
    PROVE  batch \in SUBSET PurchaseRow /\ IsFiniteSet(batch)
<1>1. Messages \subseteq PurchaseRow
    BY DEF Messages, PurchaseRow
<1> QED
    BY <1>1, MessagesFinite, FS_Subset

\* The test the runner is at has a stock.
LEMMA TestHasStock ==
    ASSUME RunnerType
    PROVE  /\ suite \in Seq(STRING) /\ Len(suite) \in Nat
           /\ at \in Nat /\ Len(suite) < Cardinality(Sales)
           /\ Profile[test] \in Nat
<1>1. suite \in Suites /\ at \in 1..Len(suite)
    BY DEF RunnerType
<1>2. suite \in Seq(STRING) /\ Len(suite) < Cardinality(Sales)
    BY <1>1
<1>3. Len(suite) \in Nat /\ DOMAIN suite = 1..Len(suite)
    BY <1>2, LenProperties
<1>4. Profile[suite[at]] \in Nat
    BY <1>1, <1>3
<1> QED
    BY <1>1, <1>2, <1>3, <1>4 DEF test

\* The counts of the suite are numbers.
LEMMA SuiteNumbers ==
    ASSUME RunnerType
    PROVE  /\ IsFiniteSet(used) /\ Cardinality(used) \in Nat
           /\ at \in Nat /\ Len(outcomes) \in Nat
<1>1. IsFiniteSet(used)
    BY FS_Subset DEF RunnerType
<1>2. at \in Nat
    BY TestHasStock
<1>3. Len(outcomes) \in Nat
    BY LenProperties DEF RunnerType
<1> QED
    BY <1>1, <1>2, <1>3, FS_CardinalityType

\* So there is a sale id left for it.
LEMMA FreshSaleExists ==
    ASSUME RunnerType, SuiteInv, pc \in Before
    PROVE  freshSale \in Sales /\ freshSale \notin used
<1>1. Cardinality(used) <= at /\ at <= Len(suite) /\ Len(suite) < Cardinality(Sales)
    BY TestHasStock DEF SuiteInv, RunnerType
<1>2. used \subseteq Sales /\ IsFiniteSet(used)
    BY FS_Subset DEF RunnerType
<1>3. Cardinality(used) \in Nat /\ Cardinality(Sales) \in Nat
    BY <1>2, FS_CardinalityType
<1>4. used # Sales
    BY <1>1, <1>3, TestHasStock
<1>5. \E s \in Sales : s \notin used
    BY <1>2, <1>4
<1> QED
    BY <1>5 DEF freshSale

\* The rows of a conflict-free table that refer to one sale have distinct
\* addresses.
LEMMA EmailsAreDistinct ==
    ASSUME NEW rows, IsFiniteSet(rows), ConflictFree(rows),
           NEW s, \A p \in rows : p.saleId = s
    PROVE  Cardinality({p.email : p \in rows}) = Cardinality(rows)
<1> DEFINE T == {p.email : p \in rows}
           f == [p \in rows |-> p.email]
<1>1. f \in [rows -> T]
    OBVIOUS
<1>2. ASSUME NEW p \in rows, NEW q \in rows, f[p] = f[q] PROVE p = q
    <2>1. Conflict(p, q)
        BY <1>2 DEF Conflict
    <2> QED
        BY <2>1 DEF ConflictFree
<1>3. f \in Injection(rows, T)
    BY <1>1, <1>2 DEF Injection, IsInjective
<1>4. f \in Surjection(rows, T)
    BY <1>1 DEF Surjection
<1>5. ExistsBijection(rows, T)
    BY <1>3, <1>4 DEF ExistsBijection, Bijection
<1> QED
    BY <1>5, FS_Bijection

---------------------------------------------------------------------------
(* Init and the runner's steps.                                            *)

\* The states the suite starts from satisfy the invariant.
LEMMA LoadInitially == Init => LoadInv
<1> SUFFICES ASSUME Init PROVE LoadInv
    OBVIOUS
<1>1. RunnerType
    <2>1. Len(suite) \in Nat \ {0}
        BY EmptySeq DEF Init
    <2>2. exists \subseteq used /\ used \subseteq Sales
        BY DEF Init
    <2> QED
        BY <2>1, <2>2, EmptySeq DEF Init, RunnerType, Before
<1>2. SystemType
    <2>1. GateTypeOK
        BY DEF Init, GateTypeOK, NoKey
    <2>2. Cardinality(held) = 0
        BY FS_EmptySet DEF Init
    <2> QED
        BY <2>1, <2>2 DEF Init, SystemType
<1>3. LedgerBase
    BY LedgerInitial, LedgerParts DEF Init
<1>4. SuiteInv
    <2>1. Cardinality(used) = 1
        BY FS_Singleton DEF Init
    <2>2. Len(outcomes) = 0
        BY EmptySeq DEF Init
    <2> QED
        BY <2>1, <2>2 DEF Init, SuiteInv, Before, Selling, After
<1>5. ForeignKey
    BY DEF Init, ForeignKey
<1>6. UnusedInv
    BY DEF Init, UnusedInv, Traffic
<1> QED
    BY <1>1, <1>2, <1>3, <1>4, <1>5, <1>6
       DEF Init, LoadInv, SellingInv, CompareInv, FreshInv, CleanInv, Selling

\* The runner's own variables do not disturb what the system has.
LEMMA SystemStands ==
    ASSUME SystemType, LedgerBase, ForeignKey, UnusedInv,
           UNCHANGED <<gateVars, ledgerVars, systemVars, exists, used>>
    PROVE  /\ SystemType' /\ LedgerBase' /\ ForeignKey' /\ UnusedInv'
           /\ \A s \in Sales : Whole(s)' = Whole(s) /\ Traffic(s)' = Traffic(s)
           /\ \A s \in Sales : RowsOf(purchases, s)' = RowsOf(purchases, s)
<1>1. SystemType'
    BY DEF SystemType, GateTypeOK, gateVars, systemVars
<1>2. LedgerBase'
    BY DEF LedgerBase, LedgerTypeOK, OnePurchasePerBuyer, NeverOversold, ledgerVars
<1>3. \A s \in Sales : Whole(s)' = Whole(s) /\ Traffic(s)' = Traffic(s)
    BY DEF Whole, Traffic, ledgerVars, systemVars
<1>4. ForeignKey' /\ UnusedInv'
    BY <1>3 DEF ForeignKey, UnusedInv, Traffic, gateVars, ledgerVars, systemVars
<1> QED
    BY <1>1, <1>2, <1>3, <1>4 DEF ledgerVars

\* Deleting the purchases empties the table: every row refers to a sale that
\* exists.
LEMMA DeletePurchasesKeeps ==
    ASSUME LoadInv, NEW from, NEW to, DeletePurchases(from, to),
           \/ from = "prepare" /\ to = "prepare_sales"
           \/ from = "cleanup" /\ to = "cleanup_sales"
    PROVE  LoadInv'
<1> USE DEF DeletePurchases, Runner
<1>1. purchases' = {}
    BY DEF LoadInv, ForeignKey
<1>2. RunnerType'
    BY DEF LoadInv, RunnerType, Before, After
<1>3. SystemType'
    BY DEF LoadInv, SystemType, GateTypeOK, gateVars, systemVars
<1>4. LedgerBase'
    <2>1. LedgerTypeOK'
        BY <1>1 DEF LoadInv, LedgerBase, LedgerTypeOK
    <2>2. IsFiniteSet(purchases)' /\ OnePurchasePerBuyer'
        BY <1>1, FS_EmptySet DEF OnePurchasePerBuyer, ConflictFree
    <2> QED
        BY <2>1, <2>2 DEF LoadInv, LedgerBase, NeverOversold
<1>5. SuiteInv'
    BY DEF LoadInv, SuiteInv, Before, Selling, After
<1>6. ForeignKey'
    BY <1>1 DEF ForeignKey
<1>7. UnusedInv'
    BY DEF LoadInv, UnusedInv, Traffic, gateVars, systemVars
<1>8. SellingInv' /\ CompareInv' /\ FreshInv' /\ CleanInv'
    BY DEF LoadInv, SellingInv, CompareInv, FreshInv, CleanInv, Selling
<1> QED
    BY <1>2, <1>3, <1>4, <1>5, <1>6, <1>7, <1>8 DEF LoadInv

\* Deleting the sales, or being refused.
LEMMA DeleteSalesKeeps ==
    ASSUME LoadInv, NEW from, NEW to, DeleteSales(from, to),
           \/ from = "prepare_sales" /\ to = "create"
           \/ from = "cleanup_sales" /\ to = "unwarm"
    PROVE  LoadInv'
<1> USE DEF DeleteSales, Runner
<1>1. /\ pc = from
      /\ UNCHANGED <<purchases, cancelled, gateVars, stageVars, sale, requests, k6Ok, polls,
                     snapshot, verified, suite, at, keep, used, outcomes, systemVars>>
    OBVIOUS
<1>2. \/ pc' = "crashed" /\ UNCHANGED <<exists, remaining>>
      \/ pc' = to /\ NoSales /\ ~ \E p \in purchases : p.saleId \in exists
    OBVIOUS
<1> HIDE DEF DeleteSales, Runner
<1>3. RunnerType'
    <2>1. exists' \subseteq used' /\ used' \subseteq Sales
        BY <1>1, <1>2 DEF LoadInv, RunnerType, NoSales
    <2>2. pc' \in Before \cup Selling \cup After \cup Ended
        BY <1>2 DEF Before, After, Ended
    <2> QED
        BY <1>1, <2>1, <2>2 DEF LoadInv, RunnerType
<1>4. SystemType'
    BY <1>1 DEF LoadInv, SystemType, GateTypeOK, gateVars, systemVars
<1>5. LedgerBase'
    <2>1. remaining' \in [Sales -> Int] /\ NeverOversold'
        BY <1>2 DEF LoadInv, LedgerBase, LedgerTypeOK, NeverOversold, NoSales
    <2>2. LedgerTypeOK'
        BY <1>1, <2>1 DEF LoadInv, LedgerBase, LedgerTypeOK
    <2> QED
        BY <1>1, <2>1, <2>2 DEF LoadInv, LedgerBase, OnePurchasePerBuyer
<1>6. SuiteInv'
    <2>1. at \in Nat /\ Cardinality(used) \in Nat
        BY SuiteNumbers DEF LoadInv
    <2>2. /\ Len(outcomes) = at - 1
          /\ Cardinality(used) <= at + 1
          /\ to = "create" => Cardinality(used) <= at
          /\ to = "unwarm" => sale \in used
        BY <1>1, <2>1 DEF LoadInv, SuiteInv, Before, Selling, After
    <2> QED
        BY <1>1, <1>2, <2>2 DEF SuiteInv, Before, Selling, After
<1>7. ForeignKey'
    BY <1>1, <1>2 DEF LoadInv, ForeignKey
<1>8. UnusedInv'
    BY <1>1 DEF LoadInv, UnusedInv, Traffic, gateVars, systemVars
<1>9. SellingInv' /\ FreshInv'
    BY <1>2 DEF SellingInv, FreshInv, Selling
<1>10. CompareInv'
    BY <1>1, <1>2 DEF LoadInv, CompareInv
<1>11. CleanInv'
    BY <1>2 DEF CleanInv, NoSales
<1> QED
    BY <1>3, <1>4, <1>5, <1>6, <1>7, <1>8, <1>9, <1>10, <1>11 DEF LoadInv

\* A sale nobody has heard of, with all of its stock.
LEMMA CreateSaleKeeps ==
    ASSUME LoadInv, CreateSale
    PROVE  LoadInv'
<1> USE DEF CreateSale
<1> DEFINE new == freshSale
<1>1. new \in Sales /\ new \notin used
    BY FreshSaleExists DEF LoadInv, Before
<1> HIDE DEF new
<1>2. /\ sale' = new /\ used' = used \cup {new} /\ exists' = exists \cup {new}
      /\ remaining' = [remaining EXCEPT ![new] = Profile[test]]
      /\ pc = "create" /\ pc' = "warm"
      /\ UNCHANGED <<purchases, cancelled, gateVars, stageVars, suite, at, keep, outcomes,
                     requests, k6Ok, polls, snapshot, verified, systemVars>>
    BY DEF new
<1> HIDE DEF CreateSale
<1>3. test' = test /\ Profile[test] \in Nat
    BY <1>2, TestHasStock DEF test, LoadInv
<1>4. RunnerType'
    <2>1. exists' \subseteq used' /\ used' \subseteq Sales
        BY <1>1, <1>2 DEF LoadInv, RunnerType
    <2> QED
        BY <1>1, <1>2, <2>1 DEF LoadInv, RunnerType, Selling
<1>5. SystemType'
    BY <1>2 DEF LoadInv, SystemType, GateTypeOK, gateVars, systemVars
<1>6. LedgerBase'
    <2>1. remaining' \in [Sales -> Int] /\ NeverOversold'
        BY <1>1, <1>2, <1>3 DEF LoadInv, LedgerBase, LedgerTypeOK, NeverOversold
    <2> QED
        BY <1>2, <2>1 DEF LoadInv, LedgerBase, LedgerTypeOK, OnePurchasePerBuyer
<1>7. SuiteInv'
    <2>1. at \in Nat /\ IsFiniteSet(used) /\ Cardinality(used) \in Nat
        BY SuiteNumbers DEF LoadInv
    <2>2. Cardinality(used) <= at /\ Len(outcomes) = at - 1
        BY <1>2 DEF LoadInv, SuiteInv, Before
    <2>3. Cardinality(used') = Cardinality(used) + 1
        BY <1>1, <1>2, <2>1, FS_AddElement
    <2> QED
        BY <1>2, <2>1, <2>2, <2>3 DEF SuiteInv, Before
<1>8. ForeignKey'
    BY <1>2 DEF LoadInv, ForeignKey
<1>9. UnusedInv'
    BY <1>2 DEF LoadInv, UnusedInv, Traffic, gateVars, systemVars
<1>10. RowsOf(purchases, new) = {}
    BY <1>1 DEF LoadInv, ForeignKey, RunnerType, RowsOf
<1>11. SellingInv'
    <2>1. Cardinality(RowsOf(purchases', sale')) = 0
        BY <1>2, <1>10, FS_EmptySet
    <2>2. remaining'[sale'] = Profile[test]
        BY <1>1, <1>2 DEF LoadInv, LedgerBase, LedgerTypeOK
    <2>3. Whole(sale)' = Profile[test]
        BY <1>3, <2>1, <2>2 DEF Whole
    <2> QED
        BY <1>2, <1>3, <2>3 DEF SellingInv
<1>12. FreshInv'
    BY <1>1, <1>2, <1>10 DEF LoadInv, UnusedInv, FreshInv, Traffic, gateVars, systemVars
<1>13. CompareInv' /\ CleanInv'
    BY <1>2 DEF LoadInv, CompareInv, CleanInv
<1> QED
    BY <1>4, <1>5, <1>6, <1>7, <1>8, <1>9, <1>11, <1>12, <1>13 DEF LoadInv

\* Warming writes the full stock and no buyers, or nothing.
LEMMA WarmIntoRedisKeeps ==
    ASSUME LoadInv, WarmIntoRedis
    PROVE  LoadInv'
<1>1. /\ pc = "warm" /\ pc' = "k6"
      /\ UNCHANGED <<suite, at, keep, used, outcomes, systemVars, ledgerVars, exists, sale,
                     requests, k6Ok, polls, snapshot, verified>>
      /\ syncSale(sale, Profile[test], FALSE, {}) \/ UNCHANGED gateVars
    BY DEF WarmIntoRedis, Runner
<1>2. sale \in used /\ used \subseteq Sales /\ Profile[test] \in Nat
    BY <1>1, TestHasStock DEF LoadInv, SuiteInv, Selling, RunnerType
<1>3. test' = test
    BY <1>1 DEF test
<1>4. /\ GateTypeOK'
      /\ \A s \in Sales \ {sale} : stock'[s] = stock[s] /\ buyers'[s] = buyers[s]
      /\ stock'[sale] \in {NoKey, Profile[test]} /\ buyers'[sale] = {}
    <2>1. CASE UNCHANGED gateVars
        BY <1>1, <2>1 DEF LoadInv, FreshInv, SystemType, GateTypeOK, gateVars
    <2>2. CASE syncSale(sale, Profile[test], FALSE, {})
        <3>1. /\ stock' = [stock EXCEPT ![sale] = Profile[test]]
              /\ meta' = [meta EXCEPT ![sale] = "0"]
              /\ buyers' = [buyers EXCEPT ![sale] = {}]
            BY <2>2 DEF syncSale
        <3>2. GateTypeOK
            BY DEF LoadInv, SystemType
        <3> QED
            BY <1>2, <3>1, <3>2 DEF GateTypeOK
    <2> QED
        BY <1>1, <2>1, <2>2
<1>5. RunnerType'
    BY <1>1 DEF LoadInv, RunnerType, Selling
<1>6. SystemType'
    BY <1>1, <1>4 DEF LoadInv, SystemType, systemVars
<1>7. LedgerBase' /\ ForeignKey'
    BY <1>1 DEF LoadInv, LedgerBase, LedgerTypeOK, OnePurchasePerBuyer, NeverOversold,
                ForeignKey, ledgerVars
<1>8. SuiteInv'
    BY <1>1 DEF LoadInv, SuiteInv, Before, Selling
<1>9. UnusedInv'
    BY <1>1, <1>2, <1>4 DEF LoadInv, UnusedInv, Traffic, systemVars
<1>10. SellingInv'
    <2>1. sale \in exists /\ Whole(sale) = Profile[test]
        BY <1>1 DEF LoadInv, SellingInv, Selling
    <2> QED
        BY <1>1, <1>3, <2>1 DEF SellingInv, Whole, ledgerVars
<1>11. FreshInv'
    <2>1. ~Traffic(sale)' /\ RowsOf(purchases', sale') = {}
        BY <1>1 DEF LoadInv, FreshInv, Traffic, systemVars, ledgerVars
    <2> QED
        BY <1>1, <1>3, <1>4, <2>1 DEF FreshInv
<1>12. CompareInv' /\ CleanInv'
    BY <1>1 DEF LoadInv, CompareInv, CleanInv
<1> QED
    BY <1>5, <1>6, <1>7, <1>8, <1>9, <1>10, <1>11, <1>12 DEF LoadInv

\* The end of k6 and the rounds of the drain barrier only move the runner.
LEMMA WaitingKeeps ==
    ASSUME LoadInv, pc \in {"k6", "drain", "settle"}, pc' \in {"drain", "settle", "verify"},
           UNCHANGED <<suite, at, keep, used, outcomes, systemVars, ledgerVars, gateVars,
                       exists, sale, snapshot, verified>>,
           requests' \in 0..MaxRequests, k6Ok' \in BOOLEAN, polls' \in 0..MaxPolls,
           pc' = "settle" => polls' < MaxPolls
    PROVE  LoadInv'
<1>1. /\ SystemType' /\ LedgerBase' /\ ForeignKey' /\ UnusedInv'
      /\ \A s \in Sales : Whole(s)' = Whole(s)
    BY SystemStands DEF LoadInv
<1>2. RunnerType'
    BY DEF LoadInv, RunnerType, Selling
<1>3. SuiteInv'
    BY DEF LoadInv, SuiteInv, Before, Selling
<1>4. SellingInv'
    <2>1. /\ sale \in exists /\ Whole(sale) = Profile[test]
          /\ sale \in Sales /\ test' = test
        BY DEF LoadInv, SellingInv, Selling, RunnerType, test
    <2>2. Whole(sale)' = Whole(sale)
        BY DEF Whole, ledgerVars
    <2> QED
        BY <2>1, <2>2 DEF SellingInv
<1>5. CompareInv' /\ FreshInv' /\ CleanInv'
    BY DEF LoadInv, CompareInv, FreshInv, CleanInv
<1> QED
    BY <1>1, <1>2, <1>3, <1>4, <1>5 DEF LoadInv

\* What verify reads satisfies its own checks at that moment.
LEMMA VerifySaleKeeps ==
    ASSUME LoadInv, VerifySale
    PROVE  LoadInv'
<1>1. /\ pc = "verify" /\ pc' = "compare"
      /\ snapshot' = [remaining |-> remaining[sale], purchases |-> RowsOf(purchases, sale)]
      /\ UNCHANGED <<suite, at, keep, used, outcomes, systemVars, ledgerVars, gateVars,
                     exists, sale, requests, k6Ok, polls, verified>>
    BY DEF VerifySale, Runner
<1>2. SystemType' /\ LedgerBase' /\ ForeignKey' /\ UnusedInv'
    BY <1>1, SystemStands DEF LoadInv
<1>3. RunnerType'
    BY <1>1 DEF LoadInv, RunnerType, After
<1>4. SuiteInv'
    BY <1>1 DEF LoadInv, SuiteInv, Before, Selling, After
<1>5. checks(remaining[sale], RowsOf(purchases, sale))
    <2> DEFINE rows == RowsOf(purchases, sale)
    <2>1. /\ sale \in Sales /\ Whole(sale) = Profile[test]
          /\ IsFiniteSet(purchases) /\ ConflictFree(purchases)
        BY <1>1 DEF LoadInv, SuiteInv, SellingInv, Selling, RunnerType, LedgerBase,
                    OnePurchasePerBuyer
    <2>2. remaining[sale] \in Int /\ remaining[sale] >= 0
        BY <2>1 DEF LoadInv, LedgerBase, LedgerTypeOK, NeverOversold
    <2>3. IsFiniteSet(rows) /\ Cardinality(rows) \in Nat
        BY <2>1, RowsFinite
    <2>4. remaining[sale] + Cardinality(rows) = Profile[test]
        BY <2>1 DEF Whole
    <2>5. ConflictFree(rows) /\ \A p \in rows : p.saleId = sale
        BY <2>1 DEF ConflictFree, RowsOf
    <2>6. Cardinality({p.email : p \in rows}) = Cardinality(rows)
        BY <2>3, <2>5, EmailsAreDistinct
    <2> HIDE DEF rows
    <2>7. checks(remaining[sale], rows)
        BY <2>2, <2>3, <2>4, <2>6 DEF checks
    <2> QED
        BY <2>7 DEF rows
<1>6. CompareInv'
    <2>1. test' = test
        BY <1>1 DEF test
    <2>2. checks(snapshot'.remaining, snapshot'.purchases)
        BY <1>1, <1>5
    <2>3. checks(snapshot.remaining, snapshot.purchases)'
        BY <2>1, <2>2 DEF checks
    <2> QED
        BY <1>1, <2>3 DEF LoadInv, CompareInv
<1>7. SellingInv' /\ FreshInv' /\ CleanInv'
    BY <1>1 DEF SellingInv, FreshInv, CleanInv, Selling
<1> QED
    BY <1>2, <1>3, <1>4, <1>6, <1>7 DEF LoadInv

\* So the comparison comes out well.
LEMMA VerifyPurchasesKeeps ==
    ASSUME LoadInv, VerifyPurchases
    PROVE  LoadInv'
<1>1. /\ pc = "compare" /\ pc' = IF keep THEN "record" ELSE "cleanup"
      /\ verified' = IF checks(snapshot.remaining, snapshot.purchases) THEN "ok" ELSE "violation"
      /\ UNCHANGED <<suite, at, keep, used, outcomes, systemVars, ledgerVars, gateVars,
                     exists, sale, requests, k6Ok, polls>>
    BY DEF VerifyPurchases, Runner
<1>2. SystemType' /\ LedgerBase' /\ ForeignKey' /\ UnusedInv'
    BY <1>1, SystemStands DEF LoadInv
<1>3. verified' = "ok"
    BY <1>1 DEF LoadInv, CompareInv
<1>4. RunnerType'
    BY <1>1, <1>3 DEF LoadInv, RunnerType, After
<1>5. SuiteInv'
    BY <1>1 DEF LoadInv, SuiteInv, Before, Selling, After
<1>6. SellingInv' /\ CompareInv' /\ FreshInv'
    BY <1>1, <1>3 DEF SellingInv, CompareInv, FreshInv, Selling
<1>7. CleanInv'
    BY <1>1 DEF CleanInv
<1> QED
    BY <1>2, <1>4, <1>5, <1>6, <1>7 DEF LoadInv

\* Unwarming, or not, after the sales are gone.
LEMMA RemoveFromRedisKeeps ==
    ASSUME LoadInv, RemoveFromRedis
    PROVE  LoadInv'
<1>1. /\ pc = "unwarm" /\ pc' = "record"
      /\ flushPage({sale} \X {"stock", "meta", "buyers"}) \/ UNCHANGED gateVars
      /\ UNCHANGED <<suite, at, keep, used, outcomes, systemVars, ledgerVars, exists, sale,
                     requests, k6Ok, polls, snapshot, verified>>
    BY DEF RemoveFromRedis, Runner
<1>2. /\ GateTypeOK'
      /\ \A s \in Sales : stock'[s] \in {stock[s], NoKey} /\ buyers'[s] \in {buyers[s], {}}
    <2>1. GateTypeOK
        BY DEF LoadInv, SystemType
    <2>2. CASE UNCHANGED gateVars
        BY <2>1, <2>2 DEF GateTypeOK, gateVars
    <2>3. CASE flushPage({sale} \X {"stock", "meta", "buyers"})
        <3> DEFINE gone == {sale} \X {"stock", "meta", "buyers"}
        <3>1. flushPage(gone)
            BY <2>3
        <3> HIDE DEF gone
        <3>2. /\ stock' \in [Sales -> Nat \cup {NoKey}]
              /\ \A s \in Sales : stock'[s] \in {stock[s], NoKey}
            BY <2>1, <3>1 DEF flushPage, GateTypeOK
        <3>3. meta' \in [Sales -> {"absent", "0", "1"}]
            BY <2>1, <3>1 DEF flushPage, GateTypeOK
        <3>4. /\ buyers' \in [Sales -> SUBSET Emails]
              /\ \A s \in Sales : buyers'[s] \in {buyers[s], {}}
            BY <2>1, <3>1 DEF flushPage, GateTypeOK
        <3> QED
            BY <3>2, <3>3, <3>4 DEF GateTypeOK
    <2> QED
        BY <1>1, <2>2, <2>3
<1>3. RunnerType'
    BY <1>1 DEF LoadInv, RunnerType, After
<1>4. SystemType'
    BY <1>1, <1>2 DEF LoadInv, SystemType, systemVars
<1>5. LedgerBase' /\ ForeignKey'
    BY <1>1 DEF LoadInv, LedgerBase, LedgerTypeOK, OnePurchasePerBuyer, NeverOversold,
                ForeignKey, ledgerVars
<1>6. SuiteInv'
    BY <1>1 DEF LoadInv, SuiteInv, Before, Selling, After
<1>7. UnusedInv'
    BY <1>1, <1>2 DEF LoadInv, UnusedInv, Traffic, systemVars
<1>8. SellingInv' /\ CompareInv' /\ FreshInv' /\ CleanInv'
    BY <1>1 DEF LoadInv, SellingInv, CompareInv, FreshInv, CleanInv, Selling
<1> QED
    BY <1>3, <1>4, <1>5, <1>6, <1>7, <1>8 DEF LoadInv

\* One outcome more, and the next test or the end.
LEMMA RecordOutcomeKeeps ==
    ASSUME LoadInv, RecordOutcome
    PROVE  LoadInv'
<1> DEFINE ok == k6Ok /\ verified = "ok"
           done == (~ok /\ test = "smoke") \/ at = Len(suite)
<1>1. /\ pc = "record"
      /\ outcomes' = Append(outcomes, ok)
      /\ at' = IF done THEN at ELSE at + 1
      /\ IF done THEN pc' \in {"green", "red"} ELSE pc' = "prepare"
      /\ k6Ok' = TRUE /\ verified' = "none"
      /\ UNCHANGED <<ledgerVars, gateVars, stageVars, exists, suite, keep, sale, used,
                     requests, polls, snapshot, systemVars>>
    BY DEF RecordOutcome
<1>2. /\ at \in 1..Len(suite) /\ at \in Nat /\ Len(suite) \in Nat
      /\ Len(outcomes) \in Nat /\ Cardinality(used) \in Nat
    BY TestHasStock, SuiteNumbers DEF LoadInv, RunnerType
<1>3. at' \in {at, at + 1} /\ at' \in 1..Len(suite)
    BY <1>1, <1>2
<1>4. /\ outcomes' \in Seq(BOOLEAN)
      /\ Len(outcomes') = Len(outcomes) + 1
    <2>1. outcomes \in Seq(BOOLEAN)
        BY DEF LoadInv, RunnerType
    <2>2. ok \in BOOLEAN
        OBVIOUS
    <2> HIDE DEF ok
    <2> QED
        BY <1>1, <2>1, <2>2
<1>5. Len(outcomes) = at - 1 /\ Cardinality(used) <= at + 1
    BY <1>1 DEF LoadInv, SuiteInv, Before
<1>6. SystemType' /\ LedgerBase' /\ ForeignKey' /\ UnusedInv'
    BY <1>1, SystemStands DEF LoadInv
<1>7. RunnerType'
    <2>1. pc' \in {"prepare", "green", "red"}
        BY <1>1
    <2> QED
        BY <1>1, <1>3, <1>4, <2>1 DEF LoadInv, RunnerType, Before, Ended
<1>8. SuiteInv'
    <2>1. CASE done
        <3>1. at' = at /\ pc' \in {"green", "red"}
            BY <1>1, <2>1
        <3> QED
            BY <1>1, <1>2, <1>4, <1>5, <3>1 DEF SuiteInv, Before, Selling, After
    <2>2. CASE ~done
        <3>1. at' = at + 1 /\ pc' = "prepare"
            BY <1>1, <2>2
        <3>2. Len(outcomes') = at' - 1
            BY <1>2, <1>4, <1>5, <3>1
        <3>3. Cardinality(used') <= at'
            BY <1>1, <1>5, <3>1
        <3> QED
            BY <3>1, <3>2, <3>3 DEF SuiteInv, Before, Selling, After
    <2> QED
        BY <2>1, <2>2
<1>9. SellingInv' /\ CompareInv' /\ FreshInv' /\ CleanInv'
    BY <1>1 DEF LoadInv, SellingInv, CompareInv, FreshInv, CleanInv, Selling
<1> QED
    BY <1>6, <1>7, <1>8, <1>9 DEF LoadInv

---------------------------------------------------------------------------
(* The system's steps.                                                     *)

\* A direct write adds at most a row of a sale that exists.
LEMMA DirectWriteEffect ==
    ASSUME LedgerBase, ForeignKey, NEW s \in Sales, NEW e \in Emails, writeDirectly(s, e)
    PROVE  /\ LedgerBase'
           /\ \A t \in Sales : Whole(t)' = Whole(t)
           /\ \A p \in purchases' : p.saleId \in exists
           /\ \A t \in Sales \ {s} : RowsOf(purchases', t) = RowsOf(purchases, t)
<1>1. CASE s \in exists
    <2>1. writePurchase(s, e, Now)
        BY <1>1 DEF writeDirectly
    <2>2. LedgerBase' /\ \A t \in Sales : Whole(t)' = Whole(t)
        BY <2>1, WriteConserves
    <2>3. /\ purchases \subseteq purchases'
          /\ \A p \in purchases' \ purchases : p.saleId = s
        BY <2>1, WriteEffect
    <2> QED
        BY <1>1, <2>2, <2>3 DEF ForeignKey, RowsOf
<1>2. CASE s \notin exists
    BY <1>2 DEF writeDirectly, ledgerVars, LedgerBase, LedgerTypeOK, OnePurchasePerBuyer,
                NeverOversold, ForeignKey, Whole
<1> QED
    BY <1>1, <1>2

\* A request for a sale touches nothing of any other sale.
LEMMA PurchaseEffect ==
    ASSUME SystemType, LedgerBase, ForeignKey,
           NEW s \in Sales, NEW e \in Emails, apiPurchase(s, e)
    PROVE  /\ GateTypeOK' /\ LedgerBase'
           /\ queue \subseteq queue' /\ queue' \subseteq queue \cup {Message(s, e)}
           /\ \A t \in Sales : Whole(t)' = Whole(t)
           /\ \A p \in purchases' : p.saleId \in exists
           /\ \A t \in Sales \ {s} : /\ RowsOf(purchases', t) = RowsOf(purchases, t)
                                    /\ stock'[t] = stock[t] /\ buyers'[t] = buyers[t]
<1>1. /\ \/ reservationCode(s, e, Now) = "reserved" /\ reservePurchase(s, e, Now)
         \/ UNCHANGED gateVars
      /\ queue \subseteq queue' /\ queue' \subseteq queue \cup {Message(s, e)}
      /\ UNCHANGED ledgerVars \/ writeDirectly(s, e)
    BY DEF apiPurchase
<1>2. /\ LedgerBase'
      /\ \A t \in Sales : Whole(t)' = Whole(t)
      /\ \A p \in purchases' : p.saleId \in exists
      /\ \A t \in Sales \ {s} : RowsOf(purchases', t) = RowsOf(purchases, t)
    <2>1. CASE UNCHANGED ledgerVars
        BY <2>1 DEF ledgerVars, LedgerBase, LedgerTypeOK, OnePurchasePerBuyer, NeverOversold,
                    ForeignKey, Whole
    <2> QED
        BY <1>1, <2>1, DirectWriteEffect
<1>3. GateTypeOK' /\ \A t \in Sales \ {s} : stock'[t] = stock[t] /\ buyers'[t] = buyers[t]
    <2>1. GateTypeOK
        BY DEF SystemType
    <2>2. CASE UNCHANGED gateVars
        BY <2>1, <2>2 DEF GateTypeOK, gateVars
    <2>3. CASE reservationCode(s, e, Now) = "reserved" /\ reservePurchase(s, e, Now)
        <3>1. /\ stock' = [stock EXCEPT ![s] = @ - 1]
              /\ buyers' = [buyers EXCEPT ![s] = @ \cup {normalizeEmail[e]}]
              /\ meta' = meta
            BY <2>3 DEF reservePurchase
        <3>2. ~(stock[s] <= 0)
            BY <2>3 DEF reservationCode
        <3>3. stock[s] - 1 \in Nat
            <4>1. stock[s] \in Nat \cup {NoKey}
                BY <2>1 DEF GateTypeOK
            <4> QED
                BY <3>2, <4>1 DEF NoKey
        <3>4. buyers[s] \cup {normalizeEmail[e]} \in SUBSET Emails
            BY <2>1 DEF GateTypeOK
        <3>5. /\ stock' \in [Sales -> Nat \cup {NoKey}]
              /\ \A t \in Sales \ {s} : stock'[t] = stock[t]
            BY <2>1, <3>1, <3>3 DEF GateTypeOK
        <3>6. /\ buyers' \in [Sales -> SUBSET Emails]
              /\ \A t \in Sales \ {s} : buyers'[t] = buyers[t]
            BY <2>1, <3>1, <3>4 DEF GateTypeOK
        <3> QED
            BY <2>1, <3>1, <3>5, <3>6 DEF GateTypeOK
    <2> QED
        BY <1>1, <2>2, <2>3
<1> QED
    BY <1>1, <1>2, <1>3

\* What a step of the system leaves of a sale with no message and no request.
Quiet(t) ==
    /\ ~Traffic(t)'
    /\ stock'[t] = stock[t] /\ buyers'[t] = buyers[t]
    /\ RowsOf(purchases', t) = {} \/ RowsOf(purchases, t) # {}

\* It does not disturb the invariant if it leaves such sales alone, but for
\* the one k6 buys from.
LEMMA SystemKeeps ==
    ASSUME LoadInv, SystemType', LedgerBase',
           UNCHANGED <<pc, suite, at, keep, outcomes, sale, used, exists, k6Ok, polls,
                       snapshot, verified>>,
           \A t \in Sales : Whole(t)' = Whole(t),
           \A p \in purchases' : p.saleId \in exists,
           NEW asked,
           \/ asked = NoSale /\ requests' = requests
           \/ asked = sale /\ pc = "k6" /\ requests' \in 1..MaxRequests,
           \A t \in Sales \ {asked} : Traffic(t) \/ Quiet(t)
    PROVE  LoadInv'
<1>1. RunnerType'
    BY DEF LoadInv, RunnerType
<1>2. SuiteInv' /\ CleanInv'
    BY DEF LoadInv, SuiteInv, CleanInv
<1>3. test' = test /\ sale' = sale
    BY DEF test
<1>4. ForeignKey'
    BY DEF ForeignKey
<1>5. UnusedInv'
    <2>1. asked \notin Sales \/ asked \in used
        BY DEF LoadInv, SuiteInv, Selling
    <2> QED
        BY <2>1 DEF LoadInv, UnusedInv, Quiet
<1>6. SellingInv'
    <2> SUFFICES ASSUME pc' \in Selling PROVE SellingInv'
        BY DEF SellingInv
    <2>1. /\ sale \in exists /\ Whole(sale) = Profile[test]
          /\ sale \in Sales
        BY DEF LoadInv, SellingInv, RunnerType
    <2>2. remaining'[sale'] + Cardinality(RowsOf(purchases', sale')) = Profile[test']
        BY <1>3, <2>1 DEF Whole
    <2>3. Whole(sale)' = Profile[test]'
        BY <2>2 DEF Whole
    <2> QED
        BY <2>1, <2>3 DEF SellingInv
<1>7. CompareInv'
    BY <1>3 DEF LoadInv, CompareInv, checks
<1>8. FreshInv'
    <2> SUFFICES ASSUME pc' = "warm" \/ (pc' = "k6" /\ requests' = 0)
                 PROVE  /\ ~Traffic(sale)' /\ RowsOf(purchases', sale') = {}
                        /\ stock'[sale'] \in {NoKey, Profile[test']} /\ buyers'[sale'] = {}
        BY DEF FreshInv
    <2>1. asked = NoSale /\ requests' = requests
        OBVIOUS
    <2>2. /\ ~Traffic(sale) /\ RowsOf(purchases, sale) = {}
          /\ stock[sale] \in {NoKey, Profile[test]} /\ buyers[sale] = {}
        BY <2>1 DEF LoadInv, FreshInv
    <2>3. PICK t \in Sales \ {asked} : t = sale
        BY <2>1 DEF LoadInv, SuiteInv, Selling, RunnerType
    <2>4. ~Traffic(t)
        BY <2>2, <2>3 DEF Traffic
    <2>5. Quiet(t)
        BY <2>3, <2>4
    <2>6. ~Traffic(t)' /\ t = sale'
        BY <2>3, <2>5 DEF Quiet
    <2>7. ~Traffic(sale)'
        BY <2>6 DEF Traffic
    <2> QED
        BY <1>3, <2>2, <2>3, <2>5, <2>7 DEF Quiet
<1> QED
    BY <1>1, <1>2, <1>4, <1>5, <1>6, <1>7, <1>8 DEF LoadInv

\* k6's request, answered or given up on.
LEMMA K6PurchaseKeeps ==
    ASSUME LoadInv, NEW e \in Emails, K6Purchase(e)
    PROVE  LoadInv'
<1>1. /\ pc = "k6" /\ requests < MaxRequests /\ requests' = requests + 1
      /\ \/ apiPurchase(sale, e) /\ UNCHANGED late
         \/ late' = late \cup {<<sale, e>>} /\ UNCHANGED <<ledgerVars, gateVars, queue>>
      /\ UNCHANGED <<stageVars, exists, held, pc, suite, at, keep, outcomes, sale, used,
                     k6Ok, polls, snapshot, verified>>
    BY DEF K6Purchase
<1>2. /\ sale \in Sales
      /\ SystemType /\ LedgerBase /\ ForeignKey
    BY <1>1 DEF LoadInv, SuiteInv, Selling, RunnerType
<1>3. requests' \in 1..MaxRequests
    BY <1>1 DEF LoadInv, RunnerType
<1>4. /\ SystemType' /\ LedgerBase'
      /\ \A t \in Sales : Whole(t)' = Whole(t)
      /\ \A p \in purchases' : p.saleId \in exists
      /\ \A t \in Sales \ {sale} : Traffic(t) \/ Quiet(t)
    <2>1. CASE apiPurchase(sale, e) /\ UNCHANGED late
        <3>1. PICK s \in Sales : s = sale
            BY <1>2
        <3>2. apiPurchase(s, e)
            BY <2>1, <3>1
        <3>3. /\ GateTypeOK' /\ LedgerBase'
              /\ queue \subseteq queue' /\ queue' \subseteq queue \cup {Message(s, e)}
              /\ \A t \in Sales : Whole(t)' = Whole(t)
              /\ \A p \in purchases' : p.saleId \in exists
              /\ \A t \in Sales \ {s} : /\ RowsOf(purchases', t) = RowsOf(purchases, t)
                                       /\ stock'[t] = stock[t] /\ buyers'[t] = buyers[t]
            BY <1>2, <3>2, PurchaseEffect
        <3>4. Message(s, e) \in Messages /\ Message(s, e).saleId = s
            BY DEF Message, Messages
        <3>5. SystemType'
            BY <1>1, <1>2, <2>1, <3>3, <3>4 DEF SystemType
        <3>6. \A t \in Sales \ {s} : Traffic(t) \/ Quiet(t)
            BY <1>1, <2>1, <3>3, <3>4 DEF Traffic, Quiet
        <3> QED
            BY <3>1, <3>3, <3>5, <3>6
    <2>2. CASE late' = late \cup {<<sale, e>>} /\ UNCHANGED <<ledgerVars, gateVars, queue>>
        <3>1. SystemType'
            BY <1>1, <1>2, <2>2 DEF SystemType, GateTypeOK, gateVars
        <3>2. LedgerBase'
            BY <1>2, <2>2 DEF LedgerBase, LedgerTypeOK, OnePurchasePerBuyer, NeverOversold,
                              ledgerVars
        <3>3. /\ \A t \in Sales : Whole(t)' = Whole(t)
              /\ \A p \in purchases' : p.saleId \in exists
            BY <1>2, <2>2 DEF Whole, ForeignKey, ledgerVars
        <3>4. \A t \in Sales \ {sale} : Traffic(t) \/ Quiet(t)
            BY <1>1, <2>2 DEF Traffic, Quiet, gateVars, ledgerVars
        <3> QED
            BY <3>1, <3>2, <3>3, <3>4
    <2> QED
        BY <1>1, <2>1, <2>2
<1> QED
    BY <1>1, <1>3, <1>4, SystemKeeps

\* A request served after k6 gave up on it, of this sale or another.
LEMMA LateRequestKeeps ==
    ASSUME LoadInv, LateRequest
    PROVE  LoadInv'
<1>1. /\ \E l \in late : late' = late \ {l} /\ apiPurchase(l[1], l[2])
      /\ UNCHANGED <<runnerVars, exists, held>>
    BY DEF LateRequest
<1>2. PICK l \in late : late' = late \ {l} /\ apiPurchase(l[1], l[2])
    BY <1>1
<1>3. SystemType /\ LedgerBase /\ ForeignKey
    BY DEF LoadInv
<1>4. PICK s \in Sales, e \in Emails : l = <<s, e>>
    BY <1>2, <1>3 DEF SystemType
<1>5. apiPurchase(s, e)
    BY <1>2, <1>4
<1>6. /\ GateTypeOK' /\ LedgerBase'
      /\ queue \subseteq queue' /\ queue' \subseteq queue \cup {Message(s, e)}
      /\ \A t \in Sales : Whole(t)' = Whole(t)
      /\ \A p \in purchases' : p.saleId \in exists
      /\ \A t \in Sales \ {s} : /\ RowsOf(purchases', t) = RowsOf(purchases, t)
                               /\ stock'[t] = stock[t] /\ buyers'[t] = buyers[t]
    BY <1>3, <1>5, PurchaseEffect
<1>7. Message(s, e) \in Messages /\ Message(s, e).saleId = s
    BY DEF Message, Messages
<1>8. SystemType'
    BY <1>1, <1>2, <1>3, <1>6, <1>7 DEF SystemType
<1>9. Traffic(s)
    BY <1>2, <1>4 DEF Traffic
<1>10. \A t \in Sales \ {NoSale} : Traffic(t) \/ Quiet(t)
    BY <1>1, <1>2, <1>6, <1>7, <1>9 DEF Traffic, Quiet
<1>11. UNCHANGED <<pc, suite, at, keep, outcomes, sale, used, exists, k6Ok, polls,
                   snapshot, verified, requests>>
    BY <1>1 DEF runnerVars
<1> QED
    BY <1>6, <1>8, <1>10, <1>11, SystemKeeps

\* The worker takes messages, and gives them back or up.
LEMMA DeliveryKeeps ==
    ASSUME LoadInv, TakeBatch \/ BatchLeaves
    PROVE  LoadInv'
<1>1. /\ UNCHANGED <<ledgerVars, gateVars, runnerVars, exists, late>>
      /\ held' \subseteq queue \cup held /\ queue' \subseteq queue \cup held
      /\ Cardinality(held') <= Prefetch
    <2>1. CASE TakeBatch
        BY <2>1 DEF TakeBatch
    <2>2. CASE BatchLeaves
        BY <2>2, FS_EmptySet DEF BatchLeaves
    <2> QED
        BY <2>1, <2>2
<1>2. SystemType /\ LedgerBase /\ ForeignKey
    BY DEF LoadInv
<1>3. SystemType'
    BY <1>1, <1>2 DEF SystemType, GateTypeOK, gateVars
<1>4. LedgerBase'
    BY <1>1, <1>2 DEF LedgerBase, LedgerTypeOK, OnePurchasePerBuyer, NeverOversold, ledgerVars
<1>5. /\ \A t \in Sales : Whole(t)' = Whole(t)
      /\ \A p \in purchases' : p.saleId \in exists
    BY <1>1, <1>2 DEF Whole, ForeignKey, ledgerVars
<1>6. \A t \in Sales \ {NoSale} : Traffic(t) \/ Quiet(t)
    BY <1>1 DEF Traffic, Quiet, gateVars, ledgerVars
<1>7. UNCHANGED <<pc, suite, at, keep, outcomes, sale, used, exists, k6Ok, polls,
                  snapshot, verified, requests>>
    BY <1>1 DEF runnerVars
<1> QED
    BY <1>3, <1>4, <1>5, <1>6, <1>7, SystemKeeps

\* The worker's transaction adds rows of sales it holds messages for.
LEMMA WriteBatchKeeps ==
    ASSUME LoadInv, WriteBatch
    PROVE  LoadInv'
<1>1. /\ held # {} /\ \A m \in held : m.saleId \in exists
      /\ writePurchaseBatch(held)
      /\ held' \in {{}, held}
      /\ UNCHANGED <<gateVars, runnerVars, exists, late, queue>>
    BY DEF WriteBatch
<1>2. SystemType /\ LedgerBase /\ ForeignKey
    BY DEF LoadInv
<1>3. SystemType'
    <2>1. CASE held' = held
        BY <1>1, <1>2, <2>1 DEF SystemType, GateTypeOK, gateVars
    <2>2. CASE held' = {}
        <3>1. Cardinality(held') <= Prefetch
            BY <2>2, FS_EmptySet
        <3> QED
            BY <1>1, <1>2, <2>2, <3>1 DEF SystemType, GateTypeOK, gateVars
    <2> QED
        BY <1>1, <2>1, <2>2
<1>4. PICK batch \in SUBSET PurchaseRow : batch = held /\ IsFiniteSet(batch)
    BY <1>2, BatchIsRows DEF SystemType
<1>5. writePurchaseBatch(batch)
    BY <1>1, <1>4
<1>6. LedgerBase' /\ \A t \in Sales : Whole(t)' = Whole(t)
    BY <1>2, <1>4, <1>5, BatchConserves
<1>7. purchases \subseteq purchases' /\ purchases' \ purchases \subseteq batch
    BY <1>5, BatchEffect
<1>8. \A p \in purchases' : p.saleId \in exists
    BY <1>1, <1>2, <1>4, <1>7 DEF ForeignKey
<1>9. \A t \in Sales \ {NoSale} : Traffic(t) \/ Quiet(t)
    BY <1>1, <1>4, <1>7 DEF Traffic, Quiet, RowsOf, gateVars
<1>10. UNCHANGED <<pc, suite, at, keep, outcomes, sale, used, exists, k6Ok, polls,
                   snapshot, verified, requests>>
    BY <1>1 DEF runnerVars
<1> QED
    BY <1>3, <1>6, <1>8, <1>9, <1>10, SystemKeeps

---------------------------------------------------------------------------
(* Together.                                                               *)

\* Every step of the runner keeps the invariant.
LEMMA RunnerKeeps ==
    ASSUME LoadInv, RunnerStep \/ DrainSkipped
    PROVE  LoadInv'
<1>1. CASE DeletePurchases("prepare", "prepare_sales")
           \/ DeletePurchases("cleanup", "cleanup_sales")
    BY <1>1, DeletePurchasesKeeps
<1>2. CASE DeleteSales("prepare_sales", "create") \/ DeleteSales("cleanup_sales", "unwarm")
    BY <1>2, DeleteSalesKeeps
<1>3. CASE CreateSale
    BY <1>3, CreateSaleKeeps
<1>4. CASE WarmIntoRedis
    BY <1>4, WarmIntoRedisKeeps
<1>5. /\ requests \in 0..MaxRequests /\ k6Ok \in BOOLEAN /\ polls \in 0..MaxPolls
      /\ MaxRequests \in Nat /\ MaxPolls \in Nat
    BY DEF LoadInv, RunnerType
<1>6. CASE K6Ends
    <2>1. 0 \in 0..MaxRequests
        BY <1>5
    <2> QED
        BY <1>5, <1>6, <2>1, WaitingKeeps DEF K6Ends, Runner
<1>7. CASE DrainPoll
    <2>1. /\ pc = "drain" /\ pc' \in {"drain", "settle", "verify"}
          /\ UNCHANGED <<suite, at, keep, used, outcomes, systemVars, ledgerVars, gateVars,
                         exists, sale, requests, k6Ok, snapshot, verified>>
        BY <1>7 DEF DrainPoll, Runner
    <2>2. \/ polls' = 0
          \/ polls' = polls
          \/ polls # MaxPolls /\ polls' = polls + 1
        BY <1>7 DEF DrainPoll
    <2>3. polls' \in 0..MaxPolls
        BY <1>5, <2>2
    <2>4. pc' = "settle" => polls' = polls /\ polls # MaxPolls
        BY <1>7 DEF DrainPoll, Runner
    <2>5. pc' = "settle" => polls' < MaxPolls
        BY <1>5, <2>4
    <2> QED
        BY <1>5, <2>1, <2>3, <2>5, WaitingKeeps
<1>8. CASE DrainSettle
    <2>1. /\ pc = "settle" /\ pc' \in {"drain", "verify"}
          /\ UNCHANGED <<suite, at, keep, used, outcomes, systemVars, ledgerVars, gateVars,
                         exists, sale, requests, k6Ok, snapshot, verified>>
        BY <1>8 DEF DrainSettle, Runner
    <2>2. polls' = 0 \/ polls' = polls + 1
        BY <1>8 DEF DrainSettle
    <2>3. polls' \in 0..MaxPolls
        BY <1>5, <2>1, <2>2 DEF LoadInv, SuiteInv
    <2> QED
        BY <1>5, <2>1, <2>3, WaitingKeeps
<1>9. CASE DrainSkipped
    <2>1. 0 \in 0..MaxPolls
        BY <1>5
    <2> QED
        BY <1>5, <1>9, <2>1, WaitingKeeps DEF DrainSkipped, Runner
<1>10. CASE VerifySale
    BY <1>10, VerifySaleKeeps
<1>11. CASE VerifyPurchases
    BY <1>11, VerifyPurchasesKeeps
<1>12. CASE RemoveFromRedis
    BY <1>12, RemoveFromRedisKeeps
<1>13. CASE RecordOutcome
    BY <1>13, RecordOutcomeKeeps
<1> QED
    BY <1>1, <1>2, <1>3, <1>4, <1>6, <1>7, <1>8, <1>9, <1>10, <1>11, <1>12, <1>13 DEF RunnerStep

\* A step that moves nothing of the suite or the system.
LEMMA Unmoved ==
    ASSUME LoadInv, UNCHANGED <<ledgerVars, gateVars, runnerVars, exists, systemVars>>
    PROVE  LoadInv'
<1>1. UNCHANGED <<pc, suite, at, keep, outcomes, sale, used, exists, k6Ok, polls,
                  snapshot, verified, requests>>
    BY DEF runnerVars
<1>2. SystemType' /\ LedgerBase' /\ ForeignKey'
    BY <1>1, SystemStands DEF LoadInv
<1>3. /\ \A t \in Sales : Whole(t)' = Whole(t)
      /\ \A p \in purchases' : p.saleId \in exists
    BY DEF LoadInv, ForeignKey, Whole, ledgerVars
<1>4. \A t \in Sales \ {NoSale} : Traffic(t) \/ Quiet(t)
    BY DEF Traffic, Quiet, systemVars, gateVars, ledgerVars
<1> QED
    BY <1>1, <1>2, <1>3, <1>4, SystemKeeps

\* So does every step of the system.
LEMMA LoadStep == LoadInv /\ [Next]_loadVars => LoadInv'
<1> SUFFICES ASSUME LoadInv, [Next]_loadVars PROVE LoadInv'
    OBVIOUS
<1>1. CASE RunnerStep \/ DrainSkipped
    BY <1>1, RunnerKeeps
<1>2. CASE SystemStep
    <2>1. CASE \E e \in Emails : K6Purchase(e)
        BY <2>1, K6PurchaseKeeps
    <2>2. CASE LateRequest
        BY <2>2, LateRequestKeeps
    <2>3. CASE TakeBatch \/ BatchLeaves
        BY <2>3, DeliveryKeeps
    <2>4. CASE WriteBatch
        BY <2>4, WriteBatchKeeps
    <2>5. CASE K6Second
        <3>1. UNCHANGED <<ledgerVars, gateVars, runnerVars, exists, systemVars>>
            BY <2>5 DEF K6Second
        <3> QED
            BY <3>1, Unmoved
    <2> QED
        BY <1>2, <2>1, <2>2, <2>3, <2>4, <2>5 DEF SystemStep
<1>3. CASE UNCHANGED loadVars
    BY <1>3, Unmoved DEF loadVars
<1> QED
    BY <1>1, <1>2, <1>3 DEF Next

\* The stages are reset, moved by k6's clock or left alone.
LEMMA ScheduleStep == ScheduleInv /\ [Next]_loadVars => ScheduleInv'
<1> SUFFICES ASSUME ScheduleInv, [Next]_loadVars PROVE ScheduleInv'
    OBVIOUS
<1>1. StagesReset \/ Second \/ UNCHANGED stageVars
    BY DEF Next, RunnerStep, SystemStep, DeletePurchases, DeleteSales, CreateSale,
           WarmIntoRedis, K6Ends, DrainPoll, DrainSettle, DrainSkipped, VerifySale,
           VerifyPurchases, RemoveFromRedis, RecordOutcome, K6Purchase, K6Second,
           LateRequest, TakeBatch, WriteBatch, BatchLeaves, loadVars
<1>2. CASE UNCHANGED stageVars
    BY <1>2 DEF stageVars, ScheduleInv, Done, InJump, InHold, LengthAt
<1> QED
    BY <1>1, <1>2, ScheduleStarts, SecondKeeps

\* The invariant of the suite and of the staircase, for any constants.
THEOREM LoadInvariant == Spec => [](LoadInv /\ ScheduleInv)
<1>1. Init => LoadInv /\ ScheduleInv
    BY LoadInitially, ScheduleStarts DEF Init
<1>2. LoadInv /\ ScheduleInv /\ [Next]_loadVars => (LoadInv /\ ScheduleInv)'
    BY LoadStep, ScheduleStep
<1> QED
    BY <1>1, <1>2, PTL DEF Spec

\* TypeOK: every variable stays what it is meant to be; in particular the
\* worker's prefetch, the poll count and the suite's position stay in bounds,
\* and the executor in its schedule.
THEOREM LoadTypeCorrect == Spec => []TypeOK
<1>1. LoadInv /\ ScheduleInv => TypeOK
    <2> SUFFICES ASSUME LoadInv, ScheduleInv PROVE TypeOK
        OBVIOUS
    <2>1. StagesTypeOK
        BY ScheduleShows
    <2>2. at \in 1..(Len(suite) + 1) /\ Len(outcomes) <= at
        BY TestHasStock, SuiteNumbers DEF LoadInv, RunnerType, SuiteInv
    <2>3. pc \in {"prepare", "prepare_sales", "create", "warm", "k6", "drain", "settle",
                  "verify", "compare", "cleanup", "cleanup_sales", "unwarm", "record",
                  "green", "red", "crashed"}
        BY DEF LoadInv, RunnerType, Before, Selling, After, Ended
    <2> QED
        BY <2>1, <2>2, <2>3 DEF LoadInv, RunnerType, SystemType, LedgerBase, TypeOK
<1> QED
    BY <1>1, LoadInvariant, PTL

\* VerifyNeverFalseAlarm: what verify reads satisfies its checks, whenever it
\* reads.
THEOREM NoFalseAlarm == Spec => []VerifyNeverFalseAlarm
<1>1. LoadInv => VerifyNeverFalseAlarm
    BY DEF LoadInv, CompareInv, VerifyNeverFalseAlarm
<1> QED
    BY <1>1, LoadInvariant, PTL

\* FreshSaleIsClean: no message, request or key of an earlier test or run
\* reaches the sale of a new one.
THEOREM FreshSales == Spec => []FreshSaleIsClean
<1>1. LoadInv => FreshSaleIsClean
    <2> SUFFICES ASSUME LoadInv, pc = "k6", requests = 0
                 PROVE  /\ remaining[sale] = Profile[test]
                        /\ RowsOf(purchases, sale) = {}
                        /\ stock[sale] \in {NoKey, Profile[test]} /\ buyers[sale] = {}
        BY DEF FreshSaleIsClean
    <2>1. /\ RowsOf(purchases, sale) = {}
          /\ stock[sale] \in {NoKey, Profile[test]} /\ buyers[sale] = {}
        BY DEF LoadInv, FreshInv
    <2>2. Whole(sale) = Profile[test] /\ sale \in Sales
        BY DEF LoadInv, SellingInv, SuiteInv, RunnerType, Selling
    <2>3. Cardinality(RowsOf(purchases, sale)) = 0
        BY <2>1, FS_EmptySet
    <2>4. remaining[sale] \in Int
        BY <2>2 DEF LoadInv, LedgerBase, LedgerTypeOK
    <2>5. remaining[sale] = Profile[test]
        BY <2>2, <2>3, <2>4 DEF Whole
    <2> QED
        BY <2>1, <2>5
<1> QED
    BY <1>1, LoadInvariant, PTL

\* SuiteLeavesNoRows: a suite that ends by itself has deleted its sales, and no
\* row outlives its sale.
THEOREM SuiteCleansUp == Spec => []SuiteLeavesNoRows
<1>1. LoadInv => SuiteLeavesNoRows
    BY DEF LoadInv, CleanInv, ForeignKey, SuiteLeavesNoRows
<1> QED
    BY <1>1, LoadInvariant, PTL

\* TrackerFollowsExecutor: for any staircase and any jump, the stage the clock
\* stands for is the one whose rate the executor is at.
THEOREM TrackerIsRight == Spec => []TrackerFollowsExecutor
<1>1. ScheduleInv => TrackerFollowsExecutor
    BY ScheduleShows
<1> QED
    BY <1>1, LoadInvariant, PTL

=============================================================================
