---------------------------- MODULE MarketHistory ----------------------------
(***************************************************************************)
(* The candle history (one SQLite file) and the reads made of it: as of a  *)
(* clock, by provenance, and by replay of a session.  One instrument, one  *)
(* session, one-minute candles named by the minute they open at.           *)
(***************************************************************************)
EXTENDS Integers, FiniteSets

CONSTANTS
  Batches,        \* raw payloads a source may give
  BarsOf,         \* the candles each one normalises to: the close, by opening minute
  SessionOpens,   \* the declared session
  SessionCloses,
  WarmUp,         \* candles the required features need
  LastMinute      \* bound: the clock

ASSUME HistoryAssumption ==
  /\ SessionOpens \in Nat /\ SessionCloses \in Nat /\ SessionOpens < SessionCloses
  /\ WarmUp \in Nat /\ LastMinute \in Nat
  /\ DOMAIN BarsOf = Batches
  /\ \A b \in Batches : DOMAIN BarsOf[b] \subseteq Nat

VARIABLES
  minute,    \* the time
  raw,       \* historical_raw: when each stored batch was received
  candles,   \* historical_candles: close and availability, by opening minute
  links      \* historical_provenance: <<opening minute, batch>>

historyVars == <<minute, raw, candles, links>>

\* What a caller may take for the time: a receipt, a publication, an observation clock.
Times == 0 .. minute

Lesser(m, n) == IF m < n THEN m ELSE n
Only(f, S) == [x \in DOMAIN f \cap S |-> f[x]]

HistoryInit ==
  /\ minute = 0
  /\ raw = [b \in {} |-> 0]
  /\ candles = [o \in {} |-> [close |-> 0, available |-> 0]]
  /\ links = {}

----------------------------------------------------------------------------
(* Writing: record() and import_jsonl(), which say when a batch was        *)
(* received or published.  A batch is one transaction: one candle that     *)
(* contradicts the history, or would move its availability earlier,        *)
(* rejects it whole.                                                       *)

Acceptable(b, at) ==
  /\ \A o \in DOMAIN BarsOf[b] : o + 1 <= at
  /\ \A o \in DOMAIN BarsOf[b] \cap DOMAIN candles :
       candles[o].close = BarsOf[b][o] /\ candles[o].available <= at

AddedReplacing(b, at) ==   \* mutant: INSERT OR REPLACE takes the later availability
  [o \in DOMAIN candles \cup DOMAIN BarsOf[b] |->
     IF o \in DOMAIN BarsOf[b] THEN [close |-> BarsOf[b][o], available |-> at] ELSE candles[o]]

\* INSERT of the candles that are new.
Added(b, at) ==
  [o \in DOMAIN candles \cup DOMAIN BarsOf[b] |->
     IF o \in DOMAIN candles THEN candles[o] ELSE [close |-> BarsOf[b][o], available |-> at]]

Record(b, at) ==
  /\ Acceptable(b, at)
  /\ raw' = [x \in DOMAIN raw \cup {b} |-> IF x \in DOMAIN raw THEN raw[x] ELSE at]
  /\ candles' = Added(b, at)
  /\ links' = links \cup {<<o, b>> : o \in DOMAIN BarsOf[b]}
  /\ UNCHANGED minute

Tick == minute < LastMinute /\ minute' = minute + 1 /\ UNCHANGED <<raw, candles, links>>

----------------------------------------------------------------------------
(* Reading.                                                                *)

\* candles(): completed candles opened in [from, to), available at the clock asOf.
CandlesAsOf(table, from, to, asOf) ==
  LET seen == {o \in DOMAIN table :
                 /\ from <= o /\ o < to
                 /\ o + 1 <= to /\ o + 1 <= asOf
                 /\ table[o].available <= asOf}
  IN  [o \in seen |-> table[o].close]

\* provenance(): the batches behind each candle, or an error.
SourcesOf(o, asOf) == {b \in Batches : <<o, b>> \in links /\ raw[b] <= asOf}
Backed(bars, asOf) ==
  \A o \in DOMAIN bars :
    /\ o \in DOMAIN candles /\ o + 1 <= asOf
    /\ candles[o].available <= asOf
    /\ candles[o].close = bars[o]
    /\ SourcesOf(o, asOf) # {}
Provenance(bars, asOf) == UNION {SourcesOf(o, asOf) : o \in DOMAIN bars}

\* history_quality() over [from, to) at the clock asOf: what is wrong with the bars.
Quality(bars, from, to, asOf) ==
  LET cutoff == Lesser(to, asOf)
      declared == SessionOpens < to /\ SessionCloses > from
      expected == IF declared
                  THEN {o \in from .. cutoff : SessionOpens <= o /\ o + 1 <= Lesser(SessionCloses, cutoff)}
                  ELSE {}
      unexpected == {o \in DOMAIN bars : o \notin expected \/ o + 1 > cutoff}
  IN  {r \in {"NO_DECLARED_SESSIONS"} : ~declared}
        \cup {r \in {"MISSING_CANDLES"} : expected \ DOMAIN bars # {}}
        \cup {r \in {"UNEXPECTED_CANDLES"} : unexpected # {}}

\* HistoricalReplay.snapshot(): what a feed whose clock is asOf shows of [from, to).
Snapshot(table, from, to, asOf) ==
  LET bars == CandlesAsOf(table, from, to, asOf)
  IN  [bars |-> bars,
       reasons |-> Quality(bars, from, to, asOf)
                     \cup {r \in {"MISSING_CANDLES"} : DOMAIN bars = {}}]

\* replay_sessions(): a frame at each candle close of the session.
Ticks == SessionOpens + 1 .. SessionCloses
Frame(table, tick) == Snapshot(table, SessionOpens, tick, tick)

\* FeatureEngine.compute() of what a feed gave, and FeatureSnapshot.ready.
InSession(bars, at) == Only(bars, {o \in SessionOpens .. SessionCloses - 1 : o + 1 <= at})
Ready(bars, reasons, at) ==
  /\ reasons = {} /\ at \in Ticks
  /\ Quality(bars, SessionOpens, at, at) = {}
  /\ DOMAIN bars # {} /\ Cardinality(DOMAIN bars) >= WarmUp

HistoryNext == Tick \/ \E b \in Batches, at \in Times : Record(b, at)

=============================================================================
