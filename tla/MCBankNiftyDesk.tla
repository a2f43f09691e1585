--------------------------- MODULE MCBankNiftyDesk ---------------------------
(* Small instances of the desk: one short trading day, or a second one that  *)
(* follows while the first is still unfinished.                              *)
EXTENDS BankNiftyDesk, TLC

Span == 0 .. MaxTime
OneDay == [t \in Span |-> 1]
LateHoliday == [t \in Span |-> IF t < 3 THEN 1 ELSE 3]   \* day 2 is not traded
AfterHoliday == [t \in Span |-> IF t < 2 THEN 1 ELSE 3]
Tight == {[loss |-> 1, cap |-> 1, capped |-> TRUE]}
Wide == {[loss |-> 9, cap |-> 9, capped |-> FALSE]}
BothLimits == Tight \cup Wide
Losing == {-1}
StopAt == -1
DeskSymmetry ==
  Permutations(Calls) \cup Permutations(Workers) \cup Permutations(PlanKeys)
=============================================================================
