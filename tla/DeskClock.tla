------------------------------ MODULE DeskClock ------------------------------
(***************************************************************************)
(* The wall clock of the Bank Nifty paper desk and the exchange calendar   *)
(* it is read against.  Time is a bounded count of ticks; DayOf gives the  *)
(* IST calendar day of a tick.  The three windows the code tests by time   *)
(* of day are sets of ticks, so a proof about this module holds for every  *)
(* calendar and every granularity of the clock.                            *)
(***************************************************************************)
EXTENDS Integers

CONSTANTS
  MaxTime,      \* bound of the model: the last tick
  DayOf,        \* tick -> calendar day in Asia/Kolkata
  RegularDays,  \* the verified regular NSE sessions
  Morning,      \* ticks whose time of day is before 15:00
  Open,         \* ticks whose time of day is in 09:30 <= t < 15:30
  Late          \* ticks whose time of day is at or after 15:15

Time == 0 .. MaxTime
Days == {DayOf[t] : t \in Time}

ASSUME ClockAssumption ==
  /\ MaxTime \in Nat
  /\ DayOf \in [Time -> Nat]
  /\ \A t, u \in Time : t <= u => DayOf[t] <= DayOf[u]
  /\ RegularDays \subseteq Nat
  /\ Morning \subseteq Time
  /\ Open \subseteq Time
  /\ Late \subseteq Time
  /\ Morning \cap Late = {}

VARIABLE now

\* entry_window: a regular session, 09:30 <= t < 15:00.
EntryWindow == {t \in Open \cap Morning : DayOf[t] \in RegularDays}

\* market_window: a regular session, 09:30 <= t < 15:30.
MarketWindow == {t \in Open : DayOf[t] \in RegularDays}

\* fresh(quote, now): the stamp is not in the future and not older than age.
Recent(stamp, at, age) == stamp <= at /\ at - stamp <= age
=============================================================================
