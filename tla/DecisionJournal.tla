--------------------------- MODULE DecisionJournal ---------------------------
(***************************************************************************)
(* The decision journal, a second SQLite file over the candle history.     *)
(* Workers record decisions and label their outcomes: each reads the       *)
(* history first and writes its journal row in a later transaction, while  *)
(* batches arrive and other workers write.                                 *)
(***************************************************************************)
EXTENDS MarketHistory

CONSTANTS
  Decisions,    \* decision identities
  Sides,        \* of a candidate, "none" for no candidate
  Events,       \* identities of lifecycle events
  Horizons,     \* HORIZONS
  Clerks        \* processes that record and label

ASSUME JournalAssumption == Horizons \subseteq Nat

VARIABLES
  decisions,   \* decisions, by identity
  lifecycle,   \* decision_events, by <<decision, event>>
  labels,      \* decision_labels, by <<decision, horizon>>
  clerk        \* what each process holds between its read and its write

journalVars == <<historyVars, decisions, lifecycle, labels, clerk>>

Free == [step |-> "free"]

JournalInit ==
  /\ HistoryInit
  /\ decisions = [d \in {} |-> 0] /\ lifecycle = [e \in {} |-> 0] /\ labels = [l \in {} |-> 0]
  /\ clerk = [w \in Clerks |-> Free]

\* INSERT of a row whose key is new; a row that is there stays.
Inserted(table, key, row) ==
  [k \in DOMAIN table \cup {key} |-> IF k \in DOMAIN table THEN table[k] ELSE row]

----------------------------------------------------------------------------
(* Decisions.                                                              *)

\* What a live source had shown by the minute at: stored or not yet.
Observed(b, at) == InSession(BarsOf[b], at)

\* FeatureEngine.decide() and FeatureDecisionAudit.append(), up to record()'s read of
\* the history.  Without ready features the model is not asked.
BeginRecord(w, d, at, bars, side, trade) ==
  /\ clerk[w] = Free
  /\ trade => side # "none" /\ Ready(bars, {}, at)
  /\ Backed(bars, at)
  /\ clerk' = [clerk EXCEPT ![w] =
                 [step |-> "decided", id |-> d,
                  row |-> [at |-> at, bars |-> bars, side |-> side, trade |-> trade,
                           refs |-> Provenance(bars, at)]]]
  /\ UNCHANGED <<historyVars, decisions, lifecycle, labels>>

\* BEGIN IMMEDIATE .. commit: the same evidence again is accepted, other evidence refused.
FinishRecord(w) ==
  /\ clerk[w].step = "decided"
  /\ decisions' = Inserted(decisions, clerk[w].id, clerk[w].row)
  /\ clerk' = [clerk EXCEPT ![w] = Free]
  /\ UNCHANGED <<historyVars, lifecycle, labels>>

\* append_event(): only after the decision; the same identity twice as in record().
AppendEvent(d, e) ==
  /\ d \in DOMAIN decisions /\ decisions[d].at <= minute
  /\ lifecycle' = Inserted(lifecycle, <<d, e>>, minute)
  /\ UNCHANGED <<historyVars, decisions, labels, clerk>>

\* read(): what the journal shows at the clock asOf.
Read(d, asOf) ==
  [decision |-> decisions[d],
   events |-> {e \in DOMAIN lifecycle : e[1] = d /\ lifecycle[e] <= asOf},
   outcomes |-> {l \in DOMAIN labels : l[1] = d /\ labels[l].available <= asOf}]

----------------------------------------------------------------------------
(* Outcomes.                                                               *)

Target(d, h) == decisions[d].at + h
Bars(d) == decisions[d].bars
\* The close of the candle that closed as the decision was made.
HasReference(d) == decisions[d].at - 1 \in DOMAIN Bars(d)
Reference(d) == Bars(d)[decisions[d].at - 1]

Outcome(d, h, asOf) == CandlesAsOf(candles, decisions[d].at, Target(d, h), asOf)

OutcomeStatusGaps(d, h, asOf) ==   \* mutant: the horizon's last candle is enough
  CASE <<d, h>> \in Read(d, asOf).outcomes -> "LABELED"
    [] Target(d, h) > asOf -> "PENDING"
    [] ~(SessionOpens <= decisions[d].at /\ Target(d, h) <= SessionCloses) -> "OUTSIDE_SESSION"
    [] ~HasReference(d) -> "MISSING_REFERENCE"
    [] Target(d, h) - 1 \notin DOMAIN Outcome(d, h, asOf) -> "MISSING_OUTCOME_DATA"
    [] OTHER -> "READY"

\* label_outcomes(): what it answers for one horizon, short of writing the label.
OutcomeStatus(d, h, asOf) ==
  CASE <<d, h>> \in Read(d, asOf).outcomes -> "LABELED"
    [] Target(d, h) > asOf -> "PENDING"
    [] ~(SessionOpens <= decisions[d].at /\ Target(d, h) <= SessionCloses) -> "OUTSIDE_SESSION"
    [] ~HasReference(d) -> "MISSING_REFERENCE"
    [] DOMAIN Outcome(d, h, asOf) # decisions[d].at .. Target(d, h) - 1 -> "MISSING_OUTCOME_DATA"
    [] OTHER -> "READY"

Movement(from, to) == IF to > from THEN "UP" ELSE IF to < from THEN "DOWN" ELSE "FLAT"

BeginLabel(w, d, h, asOf) ==
  /\ clerk[w] = Free
  /\ d \in DOMAIN decisions /\ decisions[d].at <= asOf
  /\ OutcomeStatus(d, h, asOf) = "READY"
  /\ LET close == Outcome(d, h, asOf)[Target(d, h) - 1] IN
     clerk' = [clerk EXCEPT ![w] =
                 [step |-> "labelled", id |-> d, h |-> h,
                  row |-> [available |-> asOf, close |-> close,
                           movement |-> Movement(Reference(d), close),
                           refs |-> Provenance(Outcome(d, h, asOf), asOf)]]]
  /\ UNCHANGED <<historyVars, decisions, lifecycle, labels>>

\* INSERT OR IGNORE
FinishLabel(w) ==
  /\ clerk[w].step = "labelled"
  /\ labels' = Inserted(labels, <<clerk[w].id, clerk[w].h>>, clerk[w].row)
  /\ clerk' = [clerk EXCEPT ![w] = Free]
  /\ UNCHANGED <<historyVars, decisions, lifecycle>>

\* Only committed transactions outlive a process.
Killed(w) ==
  /\ clerk[w] # Free
  /\ clerk' = [clerk EXCEPT ![w] = Free]
  /\ UNCHANGED <<historyVars, decisions, lifecycle, labels>>

JournalNext ==
  \/ HistoryNext /\ UNCHANGED <<decisions, lifecycle, labels, clerk>>
  \/ \E w \in Clerks :
       \/ \E d \in Decisions, at \in Times, b \in Batches, side \in Sides, t \in BOOLEAN :
            BeginRecord(w, d, at, Observed(b, at), side, t)
       \/ \E d \in Decisions, h \in Horizons, asOf \in Times : BeginLabel(w, d, h, asOf)
       \/ FinishRecord(w) \/ FinishLabel(w) \/ Killed(w)
  \/ \E d \in Decisions, e \in Events : AppendEvent(d, e)

JournalSpec == JournalInit /\ [][JournalNext]_journalVars

----------------------------------------------------------------------------
(* Properties.                                                             *)

\* What a decision was based on can be produced from the history for ever: every
\* candle it saw is still there, unchanged, and known to have been available by then,
\* and so are the batches it names (record() reads two databases, one after another).
\* What decided to trade saw the session's whole frame.
EvidenceStands ==
  \A d \in DOMAIN decisions :
    /\ Backed(Bars(d), decisions[d].at)
    /\ decisions[d].refs \subseteq Provenance(Bars(d), decisions[d].at)
    /\ decisions[d].refs = {} => DOMAIN Bars(d) = {}
    /\ decisions[d].trade =>
         Frame(candles, decisions[d].at) = [bars |-> Bars(d), reasons |-> {}]

\* A label says what the decision's market did, from a complete run of candles known
\* when it was made, and is the only one of its horizon whoever else labels it, with
\* whatever clock (label_outcomes).
LabelsStand ==
  \A l \in DOMAIN labels :
    LET d == l[1] h == l[2] asOf == labels[l].available
        run == Outcome(d, h, asOf)
    IN  /\ Target(d, h) <= asOf /\ Target(d, h) <= SessionCloses
        /\ DOMAIN run = decisions[d].at .. Target(d, h) - 1
        /\ labels[l].refs \subseteq Provenance(run, asOf)
        /\ labels[l].movement = Movement(Reference(d), run[Target(d, h) - 1])

\* What is on record stands, decisions with what they saw and labels with what came after
\* (record, label_outcomes).
RecordsStand == EvidenceStands /\ LabelsStand
=============================================================================
