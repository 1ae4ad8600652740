----------------------------- MODULE MCLoadTest -----------------------------
(***************************************************************************)
(* Instance of LoadTest for TLC: the default suite, or capacity-ramp with  *)
(* stages longer than, as long as and shorter than the jump; after an      *)
(* earlier run that left a sale and a message.                             *)
(***************************************************************************)
EXTENDS LoadTest

CONSTANTS s0, s1, s2, a, b

LowerCase == [e \in Emails |-> e]
From0 == [s \in Sales |-> 0]
Until2 == [s \in Sales |-> 2]
OneLeft == [s \in Sales |-> IF s = s0 THEN 1 ELSE 0]
NoRows == {}
CommandLines == {<<"smoke", "flash-sale-spike">>, <<"capacity-ramp">>}
Stock == [t \in {"smoke", "flash-sale-spike", "capacity-ramp"} |->
            IF t = "flash-sale-spike" THEN 1 ELSE 2]
Staircase == <<[rate |-> 250, seconds |-> 3], [rate |-> 500, seconds |-> 2],
               [rate |-> 1000, seconds |-> 1]>>

=============================================================================
