------------------------------ MODULE Rollout ------------------------------
(***************************************************************************)
(* A deployment: remote_deploy.sh with the barrier quiesce() it calls,     *)
(* against systemd's timers, the workers they start and the API.           *)
(*                                                                         *)
(* The barrier takes SHARE locks on the exposure tables, so that no worker *)
(* can write a position while it holds them, and keeps them until all      *)
(* workers have ended; a worker may be waiting for those very locks.       *)
(***************************************************************************)
EXTENDS Integers, Sequences

CONSTANTS
  UnitOrder,    \* the script's units, in its order
  Supervisor,   \* the unit that sells the option position
  Watchdog,     \* a unit that, in releases before this one, restarts the API
  Opens, Closes,   \* the exposures a unit's worker can create, and end
  ApiOpens,     \* those the API can create
  Patience      \* polls of the workers before the drain gives up

Units == {UnitOrder[i] : i \in DOMAIN UnitOrder}

ASSUME RolloutAssumption ==
  /\ UnitOrder \in Seq(Units) /\ Supervisor \in Units /\ Watchdog \in Units
  /\ DOMAIN Opens = Units /\ DOMAIN Closes = Units /\ Opens[Supervisor] = {}
  /\ Patience \in Nat \ {0}

VARIABLES
  timers,     \* units whose timer is active
  worker,     \* each unit's service; "waiting" for a lock, "writing" under one
  api,        \* kiwit-api is active
  exposed,    \* open positions
  gate,       \* quiesce()
  script,     \* remote_deploy.sh: its step, and the timers active when it began
  release     \* what /opt/kiwit/current points to

rolloutVars == <<timers, worker, api, exposed, gate, script, release>>

NoGate == [pc |-> "idle", locks |-> "none", i |-> 1, polls |-> 0, timers |-> {}, api |-> FALSE,
           changed |-> FALSE, failures |-> {}]

RolloutInit ==
  /\ timers = Units /\ api = TRUE /\ exposed = {}
  /\ worker = [u \in Units |-> "idle"]
  /\ gate = NoGate
  /\ script = [pc |-> "prepare", timers |-> {}]
  /\ release = "old"

----------------------------------------------------------------------------
(* systemd, the workers and the API.                                       *)

Locked == gate.locks = "held"

FireTimer(u) ==
  /\ u \in timers /\ worker[u] = "idle"
  /\ worker' = [worker EXCEPT ![u] = "running"]
  /\ UNCHANGED <<timers, api, exposed, gate, script, release>>

BeginWrite(u) ==
  /\ worker[u] \in {"running", "waiting"} /\ (Locked => worker[u] = "running")
  /\ worker' = [worker EXCEPT ![u] = IF Locked THEN "waiting" ELSE "writing"]
  /\ UNCHANGED <<timers, api, exposed, gate, script, release>>

CommitWrite(u) ==
  /\ worker[u] = "writing"
  /\ worker' = [worker EXCEPT ![u] = "running"]
  /\ \E o \in SUBSET Opens[u], c \in SUBSET Closes[u] : exposed' = (exposed \ c) \cup o
  /\ UNCHANGED <<timers, api, gate, script, release>>

\* A worker ends, or is ended at its unit's TimeoutStartSec whatever it waits for.
EndWorker(u) ==
  /\ worker[u] # "idle"
  /\ worker' = [worker EXCEPT ![u] = "idle"]
  /\ UNCHANGED <<timers, api, exposed, gate, script, release>>

WatchdogRestartsApi ==
  /\ worker[Watchdog] = "running" /\ ~api
  /\ api' = TRUE
  /\ UNCHANGED <<timers, worker, exposed, gate, script, release>>

ApiEnters(e) ==
  /\ api /\ ~Locked
  /\ exposed' = exposed \cup {e} /\ exposed' # exposed
  /\ UNCHANGED <<timers, worker, api, gate, script, release>>

----------------------------------------------------------------------------
(* quiesce().  Any systemctl command and any statement may fail.           *)

Gate(pc) == gate' = [gate EXCEPT !.pc = pc, !.i = 1]

\* The exception handler: the transaction is over, then what was stopped is
\* started again if anything had been stopped.
Abort ==
  gate' = IF gate.changed
          THEN [gate EXCEPT !.pc = "restoring", !.locks = "none", !.i = 1, !.polls = 0]
          ELSE [NoGate EXCEPT !.pc = "deferred"]

LockTables ==
  /\ gate.pc = "locking"
  /\ \/ /\ \A u \in Units : worker[u] # "writing"
        /\ gate' = [gate EXCEPT !.pc = "judging", !.locks = "held"]
     \/ Abort   \* lock_timeout
  /\ UNCHANGED <<timers, worker, api, exposed, script, release>>

JudgeExposure ==
  /\ gate.pc = "judging"
  /\ \/ /\ exposed = {}
        /\ gate' = [gate EXCEPT !.pc = "stopping", !.i = 1, !.timers = timers, !.api = api,
                                !.changed = TRUE]
     \/ Abort
  /\ UNCHANGED <<timers, worker, api, exposed, script, release>>

StopTimer ==
  /\ gate.pc = "stopping"
  /\ \/ /\ timers' = timers \ {UnitOrder[gate.i]}
        /\ IF gate.i < Len(UnitOrder) THEN gate' = [gate EXCEPT !.i = @ + 1] ELSE Gate("stopApi")
     \/ Abort /\ UNCHANGED timers
  /\ UNCHANGED <<worker, api, exposed, script, release>>

StopApi ==
  /\ gate.pc \in {"stopApi", "stopApiAgain"}
  /\ \/ /\ api' = FALSE
        /\ IF gate.pc = "stopApi" THEN gate' = [gate EXCEPT !.pc = "draining", !.i = 1, !.polls = 0]
           ELSE Gate("confirming")
     \/ Abort /\ UNCHANGED api
  /\ UNCHANGED <<timers, worker, exposed, script, release>>

\* The units are asked one after another; a pass that met a busy one is the
\* last when the deadline has passed.
DeadlineNever == FALSE   \* mutant: the drain waits for as long as it takes
Deadline == gate.polls >= Patience

PollWorker ==
  /\ gate.pc = "draining"
  /\ \/ /\ worker[UnitOrder[gate.i]] = "idle"
        /\ gate' = IF gate.i < Len(UnitOrder) THEN [gate EXCEPT !.i = @ + 1]
                   ELSE [gate EXCEPT !.pc = "stopApiAgain", !.i = 1, !.polls = 0]
     \/ /\ worker[UnitOrder[gate.i]] # "idle"
        /\ IF Deadline THEN Abort
           ELSE gate' = [gate EXCEPT !.i = 1, !.polls = IF @ < Patience THEN @ + 1 ELSE @]
     \/ Abort
  /\ UNCHANGED <<timers, worker, api, exposed, script, release>>

\* The server may have dropped the connection, and the locks with it.
LoseConnection ==
  /\ Locked /\ gate' = [gate EXCEPT !.locks = "lost"]
  /\ UNCHANGED <<timers, worker, api, exposed, script, release>>

StillOwnedAssumed == TRUE   \* mutant: no statement before success is declared
StillOwned == gate.locks = "held"

Confirm ==
  /\ gate.pc = "confirming"
  /\ IF StillOwned /\ ~api THEN gate' = [NoGate EXCEPT !.pc = "quiet"] ELSE Abort
  /\ UNCHANGED <<timers, worker, api, exposed, script, release>>

\* The supervisor's timer first, then the other units in order, then the API.
SupervisorsPlace == CHOOSE k \in DOMAIN UnitOrder : UnitOrder[k] = Supervisor
RestoreOrder ==
  [k \in DOMAIN UnitOrder |-> IF k = 1 THEN Supervisor
                              ELSE IF k <= SupervisorsPlace THEN UnitOrder[k - 1]
                              ELSE UnitOrder[k]]

RestoreTimer ==
  /\ gate.pc = "restoring"
  /\ LET u == RestoreOrder[gate.i]
         next == IF gate.i < Len(RestoreOrder) THEN [gate EXCEPT !.i = @ + 1]
                 ELSE [gate EXCEPT !.pc = "restoreApi", !.i = 1]
     IN \/ /\ timers' = IF u \in gate.timers THEN timers \cup {u} ELSE timers
           /\ gate' = next
        \/ /\ u \in gate.timers
           /\ gate' = [next EXCEPT !.failures = @ \cup {u}]
           /\ UNCHANGED timers
  /\ UNCHANGED <<worker, api, exposed, script, release>>

RestoreApi ==
  /\ gate.pc = "restoreApi"
  /\ api' \in {api, api \/ gate.api}
  /\ gate' = [NoGate EXCEPT !.pc = "deferred", !.failures = gate.failures]
  /\ UNCHANGED <<timers, worker, exposed, script, release>>

GateStep ==
  LockTables \/ JudgeExposure \/ StopTimer \/ StopApi \/ PollWorker \/ Confirm \/ RestoreTimer
  \/ RestoreApi

----------------------------------------------------------------------------
(* remote_deploy.sh.  A command that fails once the barrier has been       *)
(* passed rolls the deployment back, behind the same barrier.              *)

Script(pc) == script' = [script EXCEPT !.pc = pc]

CallGate(pc) ==
  /\ gate' = [NoGate EXCEPT !.pc = "locking"]
  /\ Script(pc)

\* Timers that could not be restored are reported; an operator starts them.
Repair ==
  /\ script.pc \in {"deferred", "kept"} /\ gate.failures # {}
  /\ timers' = timers \cup gate.failures
  /\ gate' = [gate EXCEPT !.failures = {}]
  /\ UNCHANGED <<worker, api, exposed, script, release>>

Deploy ==
  /\ script.pc \in {"prepare", "deferred"} /\ gate.failures = {}
  /\ script' = [pc |-> "gate", timers |-> timers]
  /\ gate' = [NoGate EXCEPT !.pc = "locking"]
  /\ UNCHANGED <<timers, worker, api, exposed, release>>

GateAnswers ==
  /\ script.pc \in {"gate", "rollbackGate"} /\ gate.pc \in {"quiet", "deferred"}
  /\ Script(CASE script.pc = "gate" -> IF gate.pc = "quiet" THEN "swap" ELSE "deferred"
              [] OTHER -> IF gate.pc = "quiet" THEN "rollback" ELSE "kept")
  /\ UNCHANGED <<timers, worker, api, exposed, gate, release>>

\* Migrations and unit files, then the new release.
SwapThenTimers ==   \* mutant: the timers before the supervisor's
  /\ script.pc = "swap"
  /\ release' = "new" /\ Script("timers")
  /\ UNCHANGED <<timers, worker, api, exposed, gate>>
Swap ==
  /\ script.pc = "swap"
  /\ release' = "new" /\ Script("supervisor")
  /\ UNCHANGED <<timers, worker, api, exposed, gate>>

StartSupervisor ==
  /\ script.pc = "supervisor"
  /\ timers' = timers \cup {Supervisor} /\ Script("api")
  /\ UNCHANGED <<worker, api, exposed, gate, release>>

RestartApi ==
  /\ script.pc \in {"api", "rollbackApi"}
  /\ api' = TRUE /\ Script(IF script.pc = "api" THEN "ready" ELSE "rollbackTimers")
  /\ UNCHANGED <<timers, worker, exposed, gate, release>>

Ready ==
  /\ script.pc = "ready" /\ Script("timers")
  /\ UNCHANGED <<timers, worker, api, exposed, gate, release>>

\* enable --now for every unit, the entry-capable ones last.
StartTimers ==
  /\ script.pc = "timers"
  /\ IF timers = Units THEN Script("deployed") /\ UNCHANGED timers
     ELSE UNCHANGED script /\ \E u \in Units \ timers : timers' = timers \cup {u}
  /\ UNCHANGED <<worker, api, exposed, gate, release>>

CommandFails ==
  /\ script.pc \in {"swap", "supervisor", "api", "ready", "timers"}
  /\ CallGate("rollbackGate")
  /\ UNCHANGED <<timers, worker, api, exposed, release>>

\* Every new worker is stopped before the old release is put back.
RollBack ==
  /\ script.pc = "rollback"
  /\ timers' = {} /\ worker' = [u \in Units |-> "idle"] /\ api' = FALSE
  /\ release' = "old" /\ Script("rollbackSupervisor")
  /\ UNCHANGED <<exposed, gate>>

RollBackSupervisor ==
  /\ script.pc = "rollbackSupervisor"
  /\ timers' = timers \cup ({Supervisor} \cap script.timers) /\ Script("rollbackApi")
  /\ UNCHANGED <<worker, api, exposed, gate, release>>

RollBackTimers ==
  /\ script.pc = "rollbackTimers"
  /\ IF script.timers \subseteq timers THEN Script("rolledBack") /\ UNCHANGED timers
     ELSE UNCHANGED script /\ \E u \in script.timers \ timers : timers' = timers \cup {u}
  /\ UNCHANGED <<worker, api, exposed, gate, release>>

WorkerStep ==
  \/ \E u \in Units : FireTimer(u) \/ BeginWrite(u) \/ CommitWrite(u) \/ EndWorker(u)
  \/ WatchdogRestartsApi
  \/ \E e \in ApiOpens : ApiEnters(e)

ScriptStep ==
  Deploy \/ Repair \/ GateAnswers \/ Swap \/ StartSupervisor \/ RestartApi \/ Ready \/ StartTimers
  \/ CommandFails \/ RollBack \/ RollBackSupervisor \/ RollBackTimers

RolloutNext == WorkerStep \/ GateStep \/ LoseConnection \/ ScriptStep

\* Only quiesce() itself has to go on: its commands time out, its deadline passes.
RolloutFairness == WF_rolloutVars(GateStep)
RolloutSpec == RolloutInit /\ [][RolloutNext]_rolloutVars /\ RolloutFairness

----------------------------------------------------------------------------
GateSteps == {"locking", "judging", "stopping", "stopApi", "draining", "stopApiAgain", "confirming",
              "restoring", "restoreApi"}
GateRow == [pc : GateSteps \cup {"idle", "quiet", "deferred"}, locks : {"none", "held", "lost"},
            i : Nat, polls : Nat, timers : SUBSET Units, api : BOOLEAN, changed : BOOLEAN,
            failures : SUBSET Units]
ScriptSteps == {"prepare", "gate", "deferred", "swap", "supervisor", "api", "ready", "timers",
                "deployed", "rollbackGate", "kept", "rollback", "rollbackSupervisor", "rollbackApi",
                "rollbackTimers", "rolledBack"}
WorkerStates == {"idle", "running", "waiting", "writing"}

RolloutTypeOK ==
  /\ timers \subseteq Units /\ api \in BOOLEAN
  /\ worker \in [Units -> WorkerStates]
  /\ gate \in GateRow
  /\ script \in [pc : ScriptSteps, timers : SUBSET Units]
  /\ release \in {"old", "new"}

\* A release is put in place, or taken back, only while nothing is open, no
\* worker runs and nothing is scheduled, although the connection that held the
\* tables may have been lost while the workers were draining.
SwapWhenFlat ==
  [][release' # release =>
       /\ exposed = {} /\ ~api /\ timers = {}
       /\ \A u \in Units : worker[u] = "idle"]_rolloutVars

\* An option position is never left without the supervisor's timer, except while
\* the barrier is at work or when it reported that it could not start it again.
SupervisedOption ==
  (\E u \in Units : Opens[u] \cap Closes[Supervisor] \cap exposed # {}) =>
    \/ Supervisor \in timers \/ Supervisor \in gate.failures
    \/ gate.pc \notin {"idle", "quiet", "deferred"}

\* The barrier comes to an answer, also when the workers it waits for are
\* waiting for its locks.
GateAnswersInTime == gate.pc = "draining" ~> gate.pc \in {"quiet", "deferred"}
=============================================================================
