---------------------------- MODULE ModelRegistry ----------------------------
(***************************************************************************)
(* The model registry (one SQLite file) and the promotion workflow over    *)
(* it.  A learning job freezes a training run and the champion it is to    *)
(* beat; workers train a challenger and compare the two, each reading the  *)
(* job in one transaction and storing its result in a later one; an        *)
(* operator promotes the challenger and may restore the champion.  The     *)
(* research registry, which activates what it likes, shares the file.      *)
(***************************************************************************)
EXTENDS Integers, Sequences

CONSTANTS
  Models,          \* fingerprints of trained artifacts, of one kind
  Bootstrapped,    \* those trained and registered before the first job
  TrainingRuns,    \* training runs a plan may name
  Trainers,        \* processes that train and compare
  MaxActivations   \* bound: activations in a history

NoModel == "none"

ASSUME RegistryAssumption ==
  /\ MaxActivations \in Nat /\ Bootstrapped \subseteq Models /\ NoModel \notin Models

VARIABLES
  artifacts,     \* registered models
  activations,   \* the model of each activation, by id
  activeId,      \* the active activation, 0 before the first
  jobs,          \* learning_jobs, by plan (run and champion)
  actions,       \* learning_actions
  trainer        \* what each process holds in memory

registryVars == <<artifacts, activations, activeId, jobs, actions, trainer>>

Plans == [run : TrainingRuns, champion : Models]
NoEvaluation == [of |-> NoModel, passed |-> FALSE]
Resting == [step |-> "idle"]

RegistryInit ==
  /\ artifacts = Bootstrapped
  /\ activations = <<>> /\ activeId = 0 /\ actions = <<>>
  /\ jobs = [plan \in {} |-> NoEvaluation]
  /\ trainer = [w \in Trainers |-> Resting]

Current == IF activeId = 0 THEN NoModel ELSE activations[activeId]

Activated(m) ==
  /\ m \in artifacts
  /\ activations' = Append(activations, m)
  /\ activeId' = Len(activations')

----------------------------------------------------------------------------
(* The research registry.                                                  *)

Activate(m) ==
  /\ Len(activations) < MaxActivations
  /\ Activated(m)
  /\ UNCHANGED <<artifacts, jobs, actions, trainer>>

\* The activation with the next lower id, whoever made it.
Rollback ==
  /\ activeId > 1
  /\ activeId' = activeId - 1
  /\ UNCHANGED <<artifacts, activations, jobs, actions, trainer>>

----------------------------------------------------------------------------
(* A job.                                                                  *)

Plan(run) ==
  /\ Current # NoModel
  /\ LET plan == [run |-> run, champion |-> Current] IN
     /\ plan \notin DOMAIN jobs
     /\ jobs' = [j \in DOMAIN jobs \cup {plan} |->
                   IF j = plan THEN [challenger |-> NoModel, evaluation |-> NoEvaluation]
                   ELSE jobs[j]]
  /\ UNCHANGED <<artifacts, activations, activeId, actions, trainer>>

\* retrain(): a job with a challenger is left alone; training may give any model.
BeginRetrain(w, j) ==
  /\ trainer[w] = Resting /\ jobs[j].challenger = NoModel
  /\ \E m \in Models : trainer' = [trainer EXCEPT ![w] = [step |-> "trained", job |-> j, model |-> m]]
  /\ UNCHANGED <<artifacts, activations, activeId, jobs, actions>>

Register(w) ==
  /\ trainer[w].step = "trained"
  /\ artifacts' = artifacts \cup {trainer[w].model}
  /\ trainer' = [trainer EXCEPT ![w].step = "registered"]
  /\ UNCHANGED <<activations, activeId, jobs, actions>>

ChallengerSetAlways(old, m) == m   \* mutant: UPDATE without "AND challenger IS NULL"
ChallengerSet(old, m) == IF old = NoModel THEN m ELSE old

FinishRetrain(w) ==
  /\ trainer[w].step = "registered"
  /\ jobs' = [jobs EXCEPT ![trainer[w].job].challenger = ChallengerSet(@, trainer[w].model)]
  /\ trainer' = [trainer EXCEPT ![w] = Resting]
  /\ UNCHANGED <<artifacts, activations, activeId, actions>>

\* compare(): both models are replayed over the frozen folds.
BeginCompare(w, j) ==
  /\ trainer[w] = Resting
  /\ jobs[j].challenger # NoModel /\ jobs[j].evaluation = NoEvaluation
  /\ trainer' = [trainer EXCEPT ![w] = [step |-> "comparing", job |-> j,
                                        model |-> jobs[j].challenger]]
  /\ UNCHANGED <<artifacts, activations, activeId, jobs, actions>>

FinishCompare(w) ==
  /\ trainer[w].step = "comparing"
  /\ LET j == trainer[w].job  m == trainer[w].model IN
     \E gatesPass \in BOOLEAN :
       jobs' = [jobs EXCEPT ![j].evaluation =
                  IF @ # NoEvaluation THEN @
                  ELSE [of |-> m, passed |-> gatesPass /\ m # j.champion]]
  /\ trainer' = [trainer EXCEPT ![w] = Resting]
  /\ UNCHANGED <<artifacts, activations, activeId, actions>>

\* An invalid report, or the end of the process.
TrainerStops(w) ==
  /\ trainer[w] # Resting
  /\ trainer' = [trainer EXCEPT ![w] = Resting]
  /\ UNCHANGED <<artifacts, activations, activeId, jobs, actions>>

----------------------------------------------------------------------------
(* The operator: one transaction each.                                     *)

Promoted(j) == \E i \in DOMAIN actions : actions[i].job = j /\ actions[i].action = "PROMOTE"

Record(j, action, previous, target) ==
  actions' = Append(actions, [job |-> j, action |-> action, previous |-> previous,
                              target |-> target, activation |-> activeId'])

ApproveAndPromote(j) ==
  /\ Len(activations) < MaxActivations
  /\ jobs[j].evaluation.passed
  /\ Current = j.champion /\ ~Promoted(j)
  /\ Activated(jobs[j].challenger)
  /\ Record(j, "PROMOTE", j.champion, jobs[j].challenger)
  /\ UNCHANGED <<artifacts, jobs, trainer>>

Restore(i) ==
  /\ Len(activations) < MaxActivations
  /\ actions[i].action = "PROMOTE" /\ Current = actions[i].target
  /\ Activated(actions[i].previous)
  /\ Record(actions[i].job, "ROLLBACK", actions[i].target, actions[i].previous)
  /\ UNCHANGED <<artifacts, jobs, trainer>>

RegistryNext ==
  \/ \E m \in Models : Activate(m)
  \/ Rollback
  \/ \E run \in TrainingRuns : Plan(run)
  \/ \E w \in Trainers, j \in DOMAIN jobs : BeginRetrain(w, j) \/ BeginCompare(w, j)
  \/ \E w \in Trainers : Register(w) \/ FinishRetrain(w) \/ FinishCompare(w) \/ TrainerStops(w)
  \/ \E j \in DOMAIN jobs : ApproveAndPromote(j)
  \/ \E i \in DOMAIN actions : Restore(i)

RegistrySpec == RegistryInit /\ [][RegistryNext]_registryVars

----------------------------------------------------------------------------
MaybeModels == Models \cup {NoModel}

RegistryTypeOK ==
  /\ artifacts \subseteq Models
  /\ activations \in Seq(artifacts) /\ activeId \in 0 .. Len(activations)
  /\ DOMAIN jobs \subseteq Plans
  /\ \A j \in DOMAIN jobs :
       jobs[j] \in [challenger : MaybeModels, evaluation : [of : MaybeModels, passed : BOOLEAN]]
  /\ actions \in Seq([job : DOMAIN jobs, action : {"PROMOTE", "ROLLBACK"}, previous : artifacts,
                      target : artifacts, activation : Nat])
  /\ \A w \in Trainers :
       \/ trainer[w] = Resting
       \/ trainer[w] \in [step : {"trained", "registered", "comparing"}, job : DOMAIN jobs,
                          model : Models]

\* What a promotion activates is the model the job's stored evaluation compared
\* and passed, against the champion that was active until then, and a job is
\* promoted once; a restoration puts back what the promotion replaced, and only
\* while the promoted model is active.  Several processes may have trained and
\* compared for the job, and the champion may have changed and changed back.
PromotedIsEvaluated ==
  [][\A i \in DOMAIN actions' \ DOMAIN actions :
       LET a == actions'[i]  evaluation == jobs[a.job].evaluation IN
       /\ Current = a.previous /\ a.target # a.previous /\ activations'[activeId'] = a.target
       /\ a.action = "PROMOTE" =>
            /\ evaluation.passed /\ evaluation.of = a.target /\ a.previous = a.job.champion
            /\ ~Promoted(a.job)
       /\ a.action = "ROLLBACK" =>
            \E k \in DOMAIN actions : /\ actions[k].action = "PROMOTE" /\ actions[k].job = a.job
                                      /\ actions[k].previous = a.target
                                      /\ actions[k].target = a.previous]_registryVars
=============================================================================
