------------------------------ MODULE MCAiCalls ------------------------------
(* Small instances of the call ledger.  TwoDays puts the second day inside   *)
(* the first one's rolling window; the call ids are interchangeable.         *)
EXTENDS AiCalls, TLC

Span == 0 .. MaxTime
TwoDays == [t \in Span |-> IF t < 5 THEN 1 ELSE 2]
OneDay == [t \in Span |-> 1]
CallSymmetry == Permutations(Calls)
=============================================================================
