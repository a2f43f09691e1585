---------------------------- MODULE MetaDecision ----------------------------
(***************************************************************************)
(* From the models' scores of one instant to at most one candidate: the    *)
(* specialists' candidates, the abstention policy and the ranking, with    *)
(* the candidates emitted before.  Confidence is a small integer.          *)
(***************************************************************************)
EXTENDS Integers, Sequences, FiniteSets

CONSTANTS
  Priority,           \* strategy_priority, a sequence of the specialists
  MinimumConfidence,
  RegimeConfidence,
  EmitCooldown,       \* cooldown_seconds
  EarliestEntry,      \* entry window of the policy, as times of day
  LatestEntry

Specialists == {Priority[i] : i \in DOMAIN Priority}
Directions == {"LONG", "SHORT"}

Compatible(regime, kind, direction) ==
  CASE regime = "UPTREND" -> kind \in {"trend", "breakout"} /\ direction = "LONG"
    [] regime = "DOWNTREND" -> kind \in {"trend", "breakout"} /\ direction = "SHORT"
    [] regime = "RANGE" -> kind \in {"mean_reversion", "breakout"}
    [] OTHER -> FALSE

\* scores: the regime and its probability, and what each specialist says; "none" where
\* it sees nothing, "blocked" where no model trained before the instant can be used.
Usable(scores) ==
  /\ scores.regime # "blocked" /\ scores.probability >= RegimeConfidence
  /\ \A k \in Specialists : scores[k].direction # "blocked"

Eligible(scores) ==
  {k \in Specialists : scores[k].direction \in Directions /\ scores[k].confidence >= MinimumConfidence}

Conflict(scores) == Cardinality({scores[k].direction : k \in Eligible(scores)}) > 1

Candidate(scores, k, at) ==
  [at |-> at, strategy |-> k, direction |-> scores[k].direction, confidence |-> scores[k].confidence,
   regime |-> scores.regime]

Suppressed(candidate, previous) ==
  \E old \in previous :
    \/ old = candidate
    \/ /\ old.strategy = candidate.strategy /\ old.direction = candidate.direction
       /\ candidate.at - old.at < EmitCooldown

\* generate_candidates(), and evaluate_and_record() of its answer: a specialist without
\* a model makes all evidence incomplete.
Candidates(scores, at, timeOfDay, previous) ==
  IF ~Usable(scores) \/ Conflict(scores) \/ timeOfDay \notin EarliestEntry .. LatestEntry - 1 THEN {}
  ELSE {c \in {Candidate(scores, k, at) :
                 k \in {j \in Eligible(scores) : Compatible(scores.regime, j, scores[j].direction)}} :
          ~Suppressed(c, previous)}

RankOf(k) == CHOOSE i \in DOMAIN Priority : Priority[i] = k
Outranks(c, d) ==
  \/ c.confidence > d.confidence
  \/ c.confidence = d.confidence /\ RankOf(c.strategy) <= RankOf(d.strategy)

\* MetaDecisionEngine.evaluate(), as the set of the chosen candidate or of none.
Chosen(scores, at, timeOfDay, previous) ==
  LET all == Candidates(scores, at, timeOfDay, previous)
  IN  {c \in all : \A d \in all : Outranks(c, d)}
=============================================================================
