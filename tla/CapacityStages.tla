--------------------------- MODULE CapacityStages ---------------------------
(***************************************************************************)
(* The staircase of the capacity test (packages/load-test/k6): the stages  *)
(* it asks k6's ramping-arrival-rate executor for, the executor walking    *)
(* through them second by second, and the tracker that credits finished    *)
(* iterations to a stage by the clock alone.                               *)
(***************************************************************************)
EXTENDS Integers, Sequences

CONSTANTS
    Stages,         \* a sequence of [rate, seconds]
    JumpSeconds

ASSUME StageConstants ==
    /\ Stages \in Seq([rate : Nat, seconds : Nat \ {0}]) /\ Stages # <<>>
    /\ JumpSeconds \in Nat \ {0}

VARIABLES
    elapsed,    \* currentTestRunDuration
    slot,       \* the k6 stage the executor is in
    spent       \* seconds it has been there

stageVars == <<elapsed, slot, spent>>

\* The hold is as long as the stage.
splitWrongHold(stage) ==
    LET jump == IF stage.seconds < JumpSeconds THEN stage.seconds ELSE JumpSeconds IN
    <<[target |-> stage.rate, seconds |-> jump], [target |-> stage.rate, seconds |-> stage.seconds]>>

\* A stage as a jump to its rate and, if there is time left, a hold.
split(stage) ==
    LET jump == IF stage.seconds < JumpSeconds THEN stage.seconds ELSE JumpSeconds
        hold == stage.seconds - jump
    IN <<[target |-> stage.rate, seconds |-> jump]>>
       \o (IF hold > 0 THEN <<[target |-> stage.rate, seconds |-> hold]>> ELSE <<>>)

\* Those of the first i stages, and of all.
k6Stages[i \in 0..Len(Stages)] ==
    IF i = 0 THEN <<>> ELSE k6Stages[i - 1] \o split(Stages[i])

toK6Stages == k6Stages[Len(Stages)]

\* The end of each stage, for the tracker.
cumulative[i \in 0..Len(Stages)] ==
    IF i = 0 THEN 0 ELSE cumulative[i - 1] + Stages[i].seconds

boundaries == [i \in 1..Len(Stages) |-> cumulative[i]]

StagesTypeOK ==
    /\ elapsed \in Nat
    /\ slot \in 1..(Len(toK6Stages) + 1)
    /\ spent \in Nat

StagesInit == elapsed = 0 /\ slot = 1 /\ spent = 0
StagesReset == elapsed' = 0 /\ slot' = 1 /\ spent' = 0

ScheduleOver == slot > Len(toK6Stages)

\* One second of k6.
Second ==
    /\ ~ScheduleOver
    /\ elapsed' = elapsed + 1
    /\ IF spent + 1 = toK6Stages[slot].seconds
       THEN slot' = slot + 1 /\ spent' = 0
       ELSE spent' = spent + 1 /\ UNCHANGED slot

\* recordIteration: the first stage that is not over, else the last.
creditedTo ==
    LET open == {i \in 1..Len(Stages) : elapsed < boundaries[i]}
    IN IF open = {} THEN Len(Stages)
       ELSE CHOOSE i \in open : \A j \in open : i <= j

\* The tracker, which only reads the clock, credits every iteration to the
\* stage whose rate the executor is at or jumping to, up to the last second.
TrackerFollowsExecutor ==
    IF ScheduleOver THEN elapsed = boundaries[Len(Stages)]
    ELSE Stages[creditedTo].rate = toK6Stages[slot].target

=============================================================================
