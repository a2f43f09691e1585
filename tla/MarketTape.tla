----------------------------- MODULE MarketTape -----------------------------
(***************************************************************************)
(* The evidence of an option day: the tape the observer records and the    *)
(* decision worker writes its decisions into, the contracts whose quotes   *)
(* are owed to a later study, and counterfactual(), the study itself.      *)
(***************************************************************************)
EXTENDS Integers, FiniteSets, FiniteSetsExt

CONSTANTS
  Symbols,        \* contracts, numbered in the order that breaks ties
  Near,           \* at each minute, those at the strikes nearest to the spot
  SpotAt,         \* and the time of the spot then
  Capacity,       \* TRACKED_SYMBOL_CAPACITY
  EntryDelay, MaxHorizon, QuoteGrace,   \* what retention_window() adds up
  PositionLife,   \* how long an opened position's contract is tracked
  QuoteLife,      \* an older quote is not evidence
  SnapshotLife,   \* an older row is not decided on, nor entered on by a study
  PlanLife,
  OneShot,        \* TimeoutStartSec of the observer's and the worker's services
  EntryOpens, SessionCloses,
  MaxRounds, MaxAnswers   \* bounds

Minutes == 0 .. SessionCloses
Window == EntryDelay + MaxHorizon + QuoteGrace   \* retention_window()

\* 110 seconds at most against 63 minutes, and 360 minutes from the first entry to the close.
ASSUME TapeAssumption ==
  /\ Symbols \subseteq Nat
  /\ Near \in [Minutes -> SUBSET Symbols] /\ SpotAt \in [Minutes -> Nat]
  /\ {Capacity, OneShot, EntryDelay, MaxHorizon, QuoteGrace, PositionLife, SnapshotLife,
      EntryOpens, SessionCloses} \subseteq Nat
  /\ OneShot <= Window
  /\ SessionCloses - EntryOpens <= PositionLife

VARIABLES
  minute,
  tape,      \* banknifty_market_history: the time of the spot -> its row
  tracked,   \* banknifty_tracked_contracts: symbol -> its row
  observer,  \* a round: its step, its start and what it asks for
  worker,    \* a scan: its step, its start, the snapshot, its plans, the time of its answer
  answers,   \* the answers applied or refused, as a study reads them
  rounds     \* ghost: every recorded round's start, what it asked for and what it left out

tapeVars == <<minute, tape, tracked, observer, worker, answers, rounds>>

Watching == [step |-> "idle", begun |-> -1, asked |-> {}, overflow |-> {}]
Waiting == [step |-> "idle", begun |-> -1, row |-> -1, candidates |-> <<>>, plans |-> {},
            answered |-> -1]
NoDecision == [plans |-> {}, on |-> <<>>]

TapeInit ==
  /\ minute = 0 /\ tape = <<>> /\ tracked = <<>> /\ observer = Watching /\ worker = Waiting
  /\ answers = {} /\ rounds = {}

----------------------------------------------------------------------------
\* track_plans()
TrackedFor(rows, symbols, at, length, opened) ==
  [s \in DOMAIN rows \cup symbols |->
     IF s \notin symbols THEN rows[s]
     ELSE LET old == IF s \in DOMAIN rows THEN rows[s]
                     ELSE [opened |-> FALSE, first |-> at, until |-> at + length]
          IN  [old EXCEPT !.opened = @ \/ opened, !.until = Max({@, at + length})]]

TrackNoGrace(rows, symbols, at) ==   \* mutant: the exit's grace is not kept for
  TrackedFor(rows, symbols, at, EntryDelay + MaxHorizon, FALSE)
Track(rows, symbols, at) == TrackedFor(rows, symbols, at, Window, FALSE)

\* tracking_status(), tracking_capacity()
Due(at) == {s \in DOMAIN tracked : tracked[s].until >= at}
Precedes(s, t) ==
  LET a == tracked[s]
      b == tracked[t]
  IN  IF a.opened # b.opened THEN a.opened
      ELSE a.first < b.first \/ (a.first = b.first /\ s < t)
Selected(at) == {s \in Due(at) : Cardinality({t \in Due(at) : Precedes(t, s)}) < Capacity}

\* record_market_snapshot() of an observation: a row that has been decided on keeps what
\* the decision was made on, and its place on the tape is that of its first record.
ObservedOver(old, candidates) == [old EXCEPT !.candidates = candidates, !.live = TRUE]   \* mutant
Observed(old, candidates) ==
  [old EXCEPT !.candidates = IF old.decision = NoDecision THEN candidates ELSE @, !.live = TRUE]

\* The same of a scan, whose snapshot and selection replace the row's.
Decided(old, candidates, plans) ==
  [old EXCEPT !.candidates = candidates, !.decision = [plans |-> plans, on |-> candidates]]

\* The row of that time of the spot, or a new one; and the tape with that row.
RowAt(at) ==
  IF at \in DOMAIN tape THEN tape[at]
  ELSE [recorded |-> minute, live |-> FALSE, candidates |-> <<>>, decision |-> NoDecision]
TapeWith(at, row) == [k \in DOMAIN tape \cup {at} |-> IF k = at THEN row ELSE tape[k]]

----------------------------------------------------------------------------
\* observe(): what to ask for is read before the quotes are fetched.
BeginRound ==
  /\ observer.step = "idle" /\ observer.begun < minute /\ Cardinality(rounds) < MaxRounds
  /\ observer' = [step |-> "fetch", begun |-> minute, asked |-> Selected(minute),
                  overflow |-> Due(minute) \ Selected(minute)]
  /\ UNCHANGED <<minute, tape, tracked, worker, answers, rounds>>

\* snapshot(): those at the strikes nearest to the spot and those asked for that have a
\* usable quote.
Fetched(quoted) == [s \in quoted |-> [stamp |-> minute, near |-> s \in Near[observer.begun]]]

RecordRound(quoted) ==
  LET near == Near[observer.begun]
      at == SpotAt[minute]
  IN  /\ observer.step = "fetch"
      /\ quoted \subseteq near \cup observer.asked
      /\ tracked' = Track(tracked, quoted \cap near, observer.begun)
      /\ tape' = TapeWith(at, Observed(RowAt(at), Fetched(quoted)))
      /\ rounds' = rounds \cup
           {[begun |-> observer.begun, asked |-> observer.asked, overflow |-> observer.overflow]}
      /\ observer' = [Watching EXCEPT !.begun = observer.begun]
      /\ UNCHANGED <<minute, worker, answers>>

\* A failed or killed round leaves nothing.
LoseRound ==
  /\ observer.step = "fetch"
  /\ observer' = [Watching EXCEPT !.begun = observer.begun]
  /\ UNCHANGED <<minute, tape, tracked, worker, answers, rounds>>

----------------------------------------------------------------------------
\* observed_snapshot(): the latest observation.
LiveRows == {k \in DOMAIN tape : tape[k].live}
ReadSnapshot ==
  /\ worker.step = "idle" /\ worker.begun < minute /\ minute >= EntryOpens
  /\ Cardinality(answers) < MaxAnswers
  /\ LiveRows # {} /\ minute - Max(LiveRows) \in 0 .. SnapshotLife
  /\ worker' = [Waiting EXCEPT !.step = "read", !.begun = minute, !.row = Max(LiveRows),
                               !.candidates = tape[Max(LiveRows)].candidates]
  /\ UNCHANGED <<minute, tape, tracked, observer, answers, rounds>>

\* The scan's transaction: plans are of the candidates at the nearest strikes.  A scan in
\* shadow ends here.
RecordScan(plans, asks) ==
  LET near == {s \in DOMAIN worker.candidates : worker.candidates[s].near} IN
  /\ worker.step = "read" /\ plans \subseteq near /\ (asks => plans # {})
  /\ tracked' = Track(tracked, near, minute)
  /\ tape' = [tape EXCEPT ![worker.row] = Decided(@, worker.candidates, plans)]
  /\ worker' = IF asks THEN [worker EXCEPT !.step = "ask", !.plans = plans]
               ELSE [Waiting EXCEPT !.begun = worker.begun]
  /\ UNCHANGED <<minute, observer, answers, rounds>>

\* settle(): the answer is stored, and then, in a transaction of its own, what was chosen
\* and what was not are tracked anew.
Answer ==
  /\ worker.step = "ask"
  /\ worker' = [worker EXCEPT !.step = "settled", !.answered = minute]
  /\ UNCHANGED <<minute, tape, tracked, observer, answers, rounds>>

TrackAnswer ==
  /\ worker.step = "settled"
  /\ worker' = [worker EXCEPT !.step = "apply"]
  /\ tracked' = Track(tracked, worker.plans, minute)
  /\ UNCHANGED <<minute, tape, observer, answers, rounds>>

\* What a study reads of an answer, once it is applied or refused.
Concludes(bought, opened) ==
  /\ worker.step = "apply"
  /\ answers' = answers \cup {[at |-> worker.answered, created |-> worker.begun,
                               plans |-> worker.plans, bought |-> bought, opened |-> opened]}
  /\ worker' = [Waiting EXCEPT !.begun = worker.begun]
  /\ UNCHANGED <<minute, tape, observer, rounds>>

\* _apply(): the call is applied, and with a BUY the position opened.
ApplyAnswer ==
  \/ Concludes(0, -1) /\ UNCHANGED tracked
  \/ \E s \in worker.plans :
       /\ Concludes(s, minute)
       /\ tracked' = TrackedFor(tracked, {s}, minute, PositionLife, TRUE)

\* Refused; the plans are tracked once more while the session runs.
RejectAnswer ==
  /\ Concludes(0, -1)
  /\ tracked' \in {tracked, Track(tracked, worker.plans, minute)}

\* A failed call, an earlier return, or a kill; an answer stored is closed without study.
LoseScan ==
  /\ worker.step # "idle"
  /\ worker' = [Waiting EXCEPT !.begun = worker.begun]
  /\ UNCHANGED <<minute, tape, tracked, observer, answers, rounds>>

\* No service outlives its timeout.
TapePass ==
  /\ minute < SessionCloses
  /\ \A p \in {observer, worker} : p.step = "idle" \/ minute - p.begun < OneShot
  /\ minute' = minute + 1
  /\ UNCHANGED <<tape, tracked, observer, worker, answers, rounds>>

TapeNext ==
  \/ BeginRound \/ LoseRound
  \/ \E quoted \in SUBSET Symbols : RecordRound(quoted)
  \/ ReadSnapshot \/ Answer \/ TrackAnswer \/ ApplyAnswer \/ RejectAnswer \/ LoseScan
  \/ \E plans \in SUBSET Symbols, asks \in BOOLEAN : RecordScan(plans, asks)
  \/ TapePass

TapeSpec == TapeInit /\ [][TapeNext]_tapeVars

----------------------------------------------------------------------------
(* counterfactual(), of an exported part of the tape.                      *)
\* quotes()
QuotesOf(part, symbol, start, end) ==
  {k \in part : /\ tape[k].recorded \in start .. end
                /\ symbol \in DOMAIN tape[k].candidates
                /\ LET stamp == tape[k].candidates[symbol].stamp
                   IN  stamp >= start /\ tape[k].recorded - stamp \in 0 .. QuoteLife}

\* Rows are sorted by the time they were available, and by that of the spot.
Sooner(j, k) == tape[j].recorded < tape[k].recorded \/ (tape[j].recorded = tape[k].recorded /\ j <= k)
LastOf(rows) == CHOOSE k \in rows : \A j \in rows : Sooner(j, k)   \* mutant
FirstOf(rows) == CHOOSE k \in rows : \A j \in rows : Sooner(k, j)

\* The rows of the entry and of the exit, or none.
Study(part, symbol, call, horizon) ==
  LET entries == {k \in QuotesOf(part, symbol, call.at,
                                 Min({call.at + EntryDelay, call.created + PlanLife - 1})) :
                    tape[k].recorded - k \in 0 .. SnapshotLife}
      due == tape[FirstOf(entries)].recorded + horizon
      exits == {k \in QuotesOf(part, symbol, due, due + QuoteGrace) :
                  tape[k].recorded < SessionCloses}
  IN  IF entries = {} \/ exits = {} THEN <<>> ELSE <<FirstOf(entries), FirstOf(exits)>>

----------------------------------------------------------------------------
RoundsCoverPlans ==
  \A c \in answers, r \in rounds :
    r.begun \in c.at + 1 .. c.at + Window => c.plans \subseteq r.asked \cup r.overflow

PositionsComeFirst ==
  \A c \in answers, r \in rounds :
    c.opened \in 0 .. r.begun - 1 /\ Cardinality({d \in answers : d.opened # -1}) <= Capacity
      => c.bought \in r.asked

DecisionsKeepQuotes ==
  \A k \in DOMAIN tape : tape[k].decision # NoDecision => tape[k].candidates = tape[k].decision.on

StudiesAreFinal ==
  \A c \in answers, s \in Symbols, horizon \in 1 .. MaxHorizon, t \in 0 .. minute :
    s \in c.plans =>
      LET early == Study({k \in DOMAIN tape : tape[k].recorded <= t}, s, c, horizon)
      IN  early # <<>> => early = Study(DOMAIN tape, s, c, horizon)

\* What a day leaves can be studied: every round begun from an answer until the last exit a
\* study of it may need asked for the plans' contracts, or lists them as overflow, wherever
\* the spot has gone meanwhile and whichever of the rounds, scans and answers was killed
\* ("covers delayed entry, max horizon and grace", tests/test_options_retention.py), and a
\* position's contract comes before any other; a row that was decided on keeps the quotes
\* of the decision whatever is observed at its time later; and an outcome once observed is
\* that of every longer tape.
TapeStands ==
  RoundsCoverPlans /\ PositionsComeFirst /\ DecisionsKeepQuotes /\ StudiesAreFinal
=============================================================================
