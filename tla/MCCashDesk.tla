------------------------------ MODULE MCCashDesk ------------------------------
(* Two short trading days; the clock of the last one ends inside its window,  *)
(* so that a run which keeps being retried there meets a working feed.        *)
EXTENDS CashDesk, TLC

CONSTANTS a, b

Swing == (a :> {1, 3}) @@ (b :> {1})
AutoOrPlain == {[lifecycle |-> l, auto |-> l] : l \in BOOLEAN}
LifeMain == {[lifecycle |-> TRUE, auto |-> FALSE]}
=============================================================================
