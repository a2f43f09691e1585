----------------------------- MODULE PaperMandate -----------------------------
(***************************************************************************)
(* What one approval of the paper desk authorises, seen from outside: the  *)
(* phase of the mandate, the lots held under it and the entries it has     *)
(* used.  BankNiftyDesk implements it whatever its processes interleave.   *)
(***************************************************************************)
EXTENDS Naturals

CONSTANTS
  EntryCap,   \* entries one mandate allows
  MaxLots     \* bound of the model: lots of one position

VARIABLES phase, held, entries, resumed

mandate == <<phase, held, entries, resumed>>

MandateInit == phase = "none" /\ held = 0 /\ entries = 0 /\ resumed = FALSE

\* A new mandate only follows one that ended flat.
Grant ==
  /\ phase \in {"none", "completed"} /\ held = 0
  /\ phase' = "running" /\ held' = 0 /\ entries' = 0 /\ resumed' = FALSE

\* An ended mandate is revived once, and only if nothing was done under it.
Revive ==
  /\ phase = "completed" /\ held = 0 /\ entries = 0 /\ ~resumed
  /\ phase' = "running" /\ resumed' = TRUE
  /\ UNCHANGED <<held, entries>>

\* An entry never adds to a position, and only a running mandate makes one.
Enter ==
  /\ phase = "running" /\ held = 0 /\ entries < EntryCap
  /\ held' \in 1 .. MaxLots /\ entries' = entries + 1
  /\ UNCHANGED <<phase, resumed>>

\* Everything else only winds the mandate down: lots go, the phase moves
\* towards its end, stopping is left when and only when nothing is held.
Wind ==
  /\ phase \in {"running", "stopping"}
  /\ held' \in 0 .. held
  /\ \/ phase' = phase
     \/ phase' = "stopping"
     \/ phase' = "completed"
  /\ phase' = "completed" => held' = 0
  /\ phase' = "stopping" => held' > 0
  /\ UNCHANGED <<entries, resumed>>

MandateNext == Grant \/ Revive \/ Enter \/ Wind
MandateSpec == MandateInit /\ [][MandateNext]_mandate
=============================================================================
