---------------------------- MODULE DeskReadiness ----------------------------
(***************************************************************************)
(* What is recorded of the broker's readiness and of the workers' health:  *)
(* a row a day with its alerts, the active incident of each worker, and    *)
(* its last heartbeat.  The readiness check and the observer write them in *)
(* one small transaction after another, and each may be killed in between; *)
(* both may run at once when an operator starts one by hand.               *)
(***************************************************************************)
CONSTANTS
  Probes,       \* processes of the readiness check that may run at once
  Observers,    \* and of the observer
  Reasons       \* reason codes of failures

Checks == Probes \cup Observers
Watched == {"broker_readiness", "observer"}
\* An alert's delivery is pending, or settled: none was asked for, or its outcome is there.
NoRow == [status |-> "none", failure |-> "settled", recovery |-> "settled"]
NoIncident == "none"
NoCheck == [step |-> "idle"]

VARIABLES
  quiet,       \* trouble is over: the broker answers, nothing is killed
  readiness,   \* today's row of banknifty_broker_readiness
  incident,    \* reason of each worker's active row of banknifty_worker_incidents
  health,      \* banknifty_worker_health
  check,       \* each process: what it found, and its next transaction
  lost         \* ghost: pending alerts whose process was killed before it recorded them

readinessVars == <<quiet, readiness, incident, health, check, lost>>

ReadinessInit ==
  /\ quiet = FALSE
  /\ readiness = NoRow
  /\ incident = [w \in Watched |-> NoIncident]
  /\ health = [w \in Watched |-> "none"]
  /\ check = [c \in Checks |-> NoCheck]
  /\ lost = {}

Ok == "ok"   \* what a check that found no fault has found

\* broker_readiness_transition(): only a change of status is announced.
Transition(row, found) ==
  IF found # Ok
  THEN [status |-> "failed", recovery |-> row.recovery,
        failure |-> IF row.status # "failed" THEN "pending" ELSE row.failure]
  ELSE [status |-> "ready", failure |-> row.failure,
        recovery |-> IF row.status = "failed" THEN "pending" ELSE row.recovery]

Notifies(row, found) ==
  CASE found # Ok /\ row.status # "failed" -> "failure"
    [] found = Ok /\ row.status = "failed" -> "recovery"
    [] OTHER -> "none"

\* worker_incident(): a failure for another reason closes the active incident
\* and opens one; a recovery closes whatever is active.
IncidentAfter(found) == IF found = Ok THEN NoIncident ELSE found

----------------------------------------------------------------------------
(* A check asks the broker.  The readiness check persists its verdict; the *)
(* observer does so when the broker was at fault or a snapshot was stored, *)
(* and then records its own incident and heartbeat.                        *)

BeginCheck(c, found, step) ==
  /\ check[c] = NoCheck
  /\ check' = [check EXCEPT ![c] = [found |-> found, step |-> step, alert |-> "none"]]
  /\ UNCHANGED <<quiet, readiness, incident, health, lost>>

CheckBrokerReadiness(c) ==
  \E found \in {Ok} \cup (IF quiet THEN {} ELSE Reasons) : BeginCheck(c, found, "row")

Observe(c) ==
  \/ \E found \in {Ok} \cup (IF quiet THEN {} ELSE Reasons) : BeginCheck(c, found, "row")
  \/ /\ ~quiet   \* the market data was at fault, not the broker
     /\ \E found \in Reasons : BeginCheck(c, found, "ownIncident")

Goes(c, step) == check' = [check EXCEPT ![c].step = step]
Ends(c) == check' = [check EXCEPT ![c] = NoCheck]

RecordBrokerReadiness(c) ==
  /\ check[c].step = "row"
  /\ readiness' = Transition(readiness, check[c].found)
  /\ check' = [check EXCEPT ![c].step = "incident", ![c].alert = Notifies(readiness, check[c].found)]
  /\ UNCHANGED <<quiet, incident, health, lost>>

RecordIncidentOnChange(c) ==   \* mutant: only an announced recovery closes the incident
  /\ check[c].step = "incident"
  /\ incident' = IF check[c].found = Ok /\ check[c].alert # "recovery" THEN incident
                 ELSE [incident EXCEPT !["broker_readiness"] = IncidentAfter(check[c].found)]
  /\ Goes(c, "heartbeat")
  /\ UNCHANGED <<quiet, readiness, health, lost>>
RecordIncident(c) ==
  /\ check[c].step = "incident"
  /\ incident' = [incident EXCEPT !["broker_readiness"] = IncidentAfter(check[c].found)]
  /\ Goes(c, "heartbeat")
  /\ UNCHANGED <<quiet, readiness, health, lost>>

Persisted(c) ==
  IF c \in Observers
  THEN check' = [check EXCEPT ![c].step = "ownIncident", ![c].alert = "none"] ELSE Ends(c)

Heartbeat(c) ==
  /\ check[c].step = "heartbeat"
  /\ health' = [health EXCEPT !["broker_readiness"] = IF check[c].found = Ok THEN "ok" ELSE "failed"]
  /\ IF check[c].alert # "none" THEN Goes(c, "mail") ELSE Persisted(c)
  /\ UNCHANGED <<quiet, readiness, incident, lost>>

\* The mail is sent, or not; then its outcome is recorded.
RecordAlertDelivery(c) ==
  /\ check[c].step = "mail"
  /\ readiness' = IF check[c].alert = "failure" THEN [readiness EXCEPT !.failure = "settled"]
                  ELSE [readiness EXCEPT !.recovery = "settled"]
  /\ lost' = lost \ {check[c].alert}
  /\ Persisted(c)
  /\ UNCHANGED <<quiet, incident, health>>

RecordOwnIncident(c) ==
  /\ check[c].step = "ownIncident"
  /\ incident' = [incident EXCEPT !["observer"] = IncidentAfter(check[c].found)]
  /\ Goes(c, "ownHeartbeat")
  /\ UNCHANGED <<quiet, readiness, health, lost>>

OwnHeartbeat(c) ==
  /\ check[c].step = "ownHeartbeat"
  /\ health' = [health EXCEPT !["observer"] = IF check[c].found = Ok THEN "ok" ELSE "failed"]
  /\ Ends(c)
  /\ UNCHANGED <<quiet, readiness, incident, lost>>

KillCheck(c) ==
  /\ ~quiet /\ check[c] # NoCheck
  /\ lost' = IF check[c].step \in {"incident", "heartbeat", "mail"} /\ check[c].alert # "none"
             THEN lost \cup {check[c].alert} ELSE lost
  /\ Ends(c)
  /\ UNCHANGED <<quiet, readiness, incident, health>>

NextDay ==   \* a process outlives no night; the new day has no row
  /\ \A c \in Checks : check[c] = NoCheck
  /\ readiness' = NoRow /\ lost' = {}
  /\ UNCHANGED <<quiet, incident, health, check>>

TroubleEnds ==
  /\ ~quiet /\ quiet' = TRUE
  /\ UNCHANGED <<readiness, incident, health, check, lost>>

CheckStep(c) ==
  RecordBrokerReadiness(c) \/ RecordIncident(c) \/ Heartbeat(c) \/ RecordAlertDelivery(c)
  \/ RecordOwnIncident(c) \/ OwnHeartbeat(c)

ReadinessNext ==
  \/ \E c \in Probes : CheckBrokerReadiness(c)
  \/ \E c \in Observers : Observe(c)
  \/ \E c \in Checks : CheckStep(c) \/ KillCheck(c)
  \/ NextDay \/ TroubleEnds

\* The observer's timer fires every minute of every session; a started process
\* goes on unless it is killed.
ReadinessFairness ==
  /\ \A c \in Observers : WF_readinessVars(Observe(c))
  /\ \A c \in Checks : WF_readinessVars(CheckStep(c))

ReadinessSpec == ReadinessInit /\ [][ReadinessNext]_readinessVars /\ ReadinessFairness

----------------------------------------------------------------------------
Deliveries == {"settled", "pending"}
ReadinessTypeOK ==
  /\ quiet \in BOOLEAN
  /\ readiness \in [status : {"none", "failed", "ready"}, failure : Deliveries,
                    recovery : Deliveries]
  /\ incident \in [Watched -> Reasons \cup {NoIncident}]
  /\ health \in [Watched -> {"none", "ok", "failed"}]

\* When the broker answers again and nothing is killed any more, the records
\* come to say so and stay that way, whatever two checks wrote across each
\* other, or half wrote, before: no incident is active, today's row and the
\* heartbeats are good, and an alert still pending is one whose process was killed.
Healed ==
  /\ readiness.status \in {"ready", "none"}
  /\ \A w \in Watched : incident[w] = NoIncident /\ health[w] = "ok"
  /\ readiness.failure = "pending" => "failure" \in lost
  /\ readiness.recovery = "pending" => "recovery" \in lost
ReadinessHeals == <>[](quiet => Healed)
=============================================================================
