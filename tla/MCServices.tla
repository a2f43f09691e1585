----------------------------- MODULE MCServices -----------------------------
(***************************************************************************)
(* Five components that share no state, each on its own small instance:    *)
(* the initial state chooses one, and only that one moves.                 *)
(***************************************************************************)
EXTENDS Rollout, ModelRegistry, DeskReadiness, DeskReports, PaperSimulator, TLC

CONSTANTS dog, desk, supervisor, reports, decision, long, short

VARIABLE focus   \* the component that moves

Components == {"rollout", "registry", "readiness", "reports", "simulator"}

\* The desk stands for the workers that enter on both books.
RolloutOrder == <<dog, desk, supervisor>>
RolloutOpens == (dog :> {}) @@ (desk :> {"option", "cash"}) @@ (supervisor :> {})
RolloutCloses == (dog :> {}) @@ (desk :> {"option", "cash"}) @@ (supervisor :> {"option"})

\* The capital covers either order, not both.  Prices between, at the stop of the long
\* order, and at its target; fees that tell every price apart.
SimulatorOrders ==
  (long :> [long |-> TRUE, quantity |-> 2, stop |-> 90, target |-> 115, budget |-> 400, ends |-> 3])
    @@ (short :> [long |-> FALSE, quantity |-> 1, stop |-> 118, target |-> 88, budget |-> 400,
                  ends |-> 3])
SimulatorQuotes ==
  {[id |-> <<"quote", n>>, kind |-> "quote", at |-> t, quoted |-> s, bid |-> x[1], ask |-> x[2]] :
     n \in 1 .. 2, t \in 1 .. 4, s \in 1 .. 4, x \in {<<99, 101>>, <<89, 92>>, <<116, 117>>}}
SimulatorRequests ==
  {[id |-> <<"submit", o>>, kind |-> "submit", order |-> o, at |-> t, terms |-> SimulatorOrders[o]] :
     o \in {long, short}, t \in 1 .. 2}
  \cup {[id |-> <<"cancel", o>>, kind |-> "cancel", order |-> o, at |-> t] :
          o \in {long, short}, t \in 2 .. 3}
  \cup {[id |-> <<"session", 3>>, kind |-> "end", at |-> 3]}
  \cup {q \in SimulatorQuotes : q.at \in q.id[2] .. 2 * q.id[2]}

ServicesInit ==
  /\ focus \in Components
  /\ RolloutInit /\ RegistryInit /\ ReadinessInit /\ Init /\ SimulatorInit

ServicesNext ==
  /\ UNCHANGED focus
  /\ \/ /\ focus = "rollout" /\ RolloutNext
        /\ UNCHANGED <<registryVars, readinessVars, vars, simulatorVars>>
     \/ /\ focus = "registry" /\ RegistryNext
        /\ UNCHANGED <<rolloutVars, readinessVars, vars, simulatorVars>>
     \/ /\ focus = "readiness" /\ ReadinessNext
        /\ UNCHANGED <<rolloutVars, registryVars, vars, simulatorVars>>
     \/ /\ focus = "reports" /\ Next
        /\ UNCHANGED <<rolloutVars, registryVars, readinessVars, simulatorVars>>
     \/ /\ focus = "simulator" /\ SimulatorNext
        /\ UNCHANGED <<rolloutVars, registryVars, readinessVars, vars>>

servicesVars == <<focus, rolloutVars, registryVars, readinessVars, vars, simulatorVars>>

\* RolloutFairness, ReadinessFairness and FairSpec's, for the component that moves.
ServicesFairness ==
  /\ WF_rolloutVars(focus = "rollout" /\ GateStep)
  /\ \A c \in Observers : WF_readinessVars(focus = "readiness" /\ Observe(c))
  /\ \A c \in Checks : WF_readinessVars(focus = "readiness" /\ CheckStep(c))
  /\ WF_vars(focus = "reports" /\ Tick)
  /\ WF_vars(focus = "reports" /\ \E w \in Workers : Begin(w))
  /\ WF_vars(focus = "reports" /\ \E w \in Workers : run[w].age = RunLimit /\ Kill(w))
  /\ SF_vars(focus = "reports" /\ \E w \in Workers : Claim(w))
  /\ \A d \in Days :
       /\ SF_vars(focus = "reports" /\ \E w \in Workers :
                    Send(w, d, IF d \in Poison THEN "failed" ELSE "sent"))
       /\ SF_vars(focus = "reports" /\ \E w \in Workers : RecordOutcome(w, d))

ServicesSpec == ServicesInit /\ [][ServicesNext]_servicesVars /\ ServicesFairness
=============================================================================
