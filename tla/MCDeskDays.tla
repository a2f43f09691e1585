------------------------------ MODULE MCDeskDays ------------------------------
(***************************************************************************)
(* The desk over two days, the tape of one session, and the replay of one  *)
(* session's evidence.  They share no state here; the initial state        *)
(* chooses one, and only that one moves.                                   *)
(***************************************************************************)
EXTENDS MCBankNiftyDesk, MarketTape, ExitReplay

VARIABLE focus

\* One trade in a contract that may be sold in parts; quotes at the price, at the stop with
\* the depth of one lot, and past the target with that of two.
PlayedPlaybooks ==
  "breakout" :> [pattern |-> "breakout", strategy |-> "momentum", regime |-> "trend", stop |-> 40,
                 target |-> 80, reward |-> <<3, 2>>, hold |-> 2, costShare |-> 35]
PlayedContracts ==
  "call" :> [kind |-> "CE", strike |-> 1000, lot |-> 5, freeze |-> 21, expiry |-> 2,
             tradable |-> TRUE, rank |-> 1]
PlayedPattern ==
  [name |-> "breakout", direction |-> "bullish", strategy |-> "momentum", trigger |-> 1000,
   invalidation |-> 990]
PlayedCharts ==
  {[ready |-> TRUE, spot |-> 1002, atr |-> 20, regime5 |-> "uptrend", regime15 |-> "range",
    exhausted |-> "none", patterns |-> {PlayedPattern}]}
Offer(bid, ask, bidSize, askSize) == [bid |-> bid, ask |-> ask, bidSize |-> bidSize, askSize |-> askSize]
PlayedOffers == {Offer(199, 200, 20, 20), Offer(190, 192, 5, 20), Offer(222, 225, 12, 20)}

\* The spot leaves the first strike, and in the last minute is not seen to move.
LeavesStrike == [t \in 0 .. 5 |-> IF t < 2 THEN {1} ELSE {2}]
StandsStill == [t \in 0 .. 5 |-> IF t = 4 THEN 3 ELSE t]

DaysInit ==
  focus \in {"desk", "tape", "replay"} /\ DeskInit /\ TapeInit /\ ReplayInit

DaysNext ==
  /\ UNCHANGED focus
  /\ \/ focus = "desk" /\ DeskNext /\ UNCHANGED <<tapeVars, replayVars>>
     \/ focus = "tape" /\ TapeNext /\ UNCHANGED <<deskVars, replayVars>>
     \/ focus = "replay" /\ ReplayNext /\ UNCHANGED <<deskVars, tapeVars>>

DaysSpec == DaysInit /\ [][DaysNext]_<<focus, deskVars, tapeVars, replayVars>>
=============================================================================
