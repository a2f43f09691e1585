-------------------------- MODULE TrainingDatasets --------------------------
(***************************************************************************)
(* Supervised datasets built from the candle history: samples at replay    *)
(* frames, split by time, each with an outcome some minutes later.         *)
(***************************************************************************)
EXTENDS MarketHistory

CONSTANTS
  SplitEnds,    \* train, validation and test end, in this order
  LabelMinutes  \* horizon_minutes

ASSUME DatasetAssumption ==
  /\ LabelMinutes \in Nat \ {0}
  /\ DOMAIN SplitEnds = 1 .. 3 /\ \A i \in 1 .. 3 : SplitEnds[i] \in Nat
  /\ SplitEnds[1] < SplitEnds[2] /\ SplitEnds[2] < SplitEnds[3]

\* TimeSplits.locate()
Split(at) == CHOOSE i \in 1 .. 3 : at < SplitEnds[i] /\ \A j \in 1 .. i - 1 : at >= SplitEnds[j]

LabelCutoffOfBuild(at, asOf) == asOf   \* mutant: everything known when it is built
\* The last instant of the split, or the time of the build.
LabelCutoff(at, asOf) == Lesser(asOf, SplitEnds[Split(at)] - 1)

\* _labels() is a function of the features and of these candles.
Label(table, at, asOf) == CandlesAsOf(table, at, at + LabelMinutes, LabelCutoff(at, asOf))

\* DatasetBuilder.build(): the ticks that become samples, and each one's row: its split,
\* the candles its features and its label are functions of, and where the label ends.
Sampled(table, at, asOf) ==
  LET future == Label(table, at, asOf)
  IN  /\ at < SplitEnds[3]
      /\ Ready(Frame(table, at).bars, Frame(table, at).reasons, at)
      /\ at + LabelMinutes < SplitEnds[Split(at)]
      /\ at + LabelMinutes <= SessionCloses
      /\ DOMAIN future = at .. at + LabelMinutes - 1

Row(table, at, asOf) ==
  [split |-> Split(at), at |-> at, features |-> Frame(table, at).bars,
   label |-> Label(table, at, asOf)]

Dataset(table, asOf) ==
  {Row(table, at, asOf) : at \in {t \in Ticks : Sampled(table, t, asOf)}}

RowsOf(i, dataset) == {r \in dataset : r.split = i}

\* The history as it was known before an instant.
KnownBefore(table, t) == Only(table, {o \in DOMAIN table : table[o].available < t})

----------------------------------------------------------------------------
(* Properties.                                                             *)

\* No split learns from what became known after it ended: its samples, features and
\* labels are those of a build that never saw any later candle (build()'s purging
\* and label cutoff, whatever arrived late).
SplitsAreSealed ==
  \A i \in 1 .. 3 :
    LET known == KnownBefore(candles, SplitEnds[i]) IN
    known # candles =>
      \A asOf \in SplitEnds[3] .. SplitEnds[3] + 1 :
        RowsOf(i, Dataset(candles, asOf)) = RowsOf(i, Dataset(known, asOf))
=============================================================================
