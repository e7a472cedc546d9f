------------------------------ MODULE Watchdog ------------------------------
(***************************************************************************)
(* What the deadman promises, and nothing of how it is kept: a vehicle     *)
(* that moves was commanded at most Limit milliseconds ago.  The promise   *)
(* is the one of docs/ARCHITECTURE.md section 4: the safety net every      *)
(* transport benefits from without doing anything itself.                  *)
(*                                                                         *)
(* RoverControl implements this module (RoverControl!Net).                 *)
(***************************************************************************)
EXTENDS Naturals

CONSTANTS Limit,    \* a moving vehicle was commanded at most Limit ms ago
          IdleCap   \* the silence of a vehicle at rest is counted up to here

VARIABLES moving,   \* is any motor driven?
          idle      \* milliseconds since the last driving command

watched == <<moving, idle>>

Init == moving = FALSE /\ idle = 0

(* A driving command arrives: it may start the vehicle, never stop it.     *)
Command == idle' = 0 /\ moving' \in {moving, TRUE}

(* The vehicle is stopped: by a command, by the deadman, by a restart.     *)
Halt == moving' = FALSE /\ idle' \in {idle, 0}

(* A millisecond passes, which a moving vehicle at its limit may not see.  *)
Pass ==
  /\ moving => idle < Limit
  /\ idle' = IF idle < IdleCap THEN idle + 1 ELSE idle
  /\ UNCHANGED moving

Next == Command \/ Halt \/ Pass

Spec == Init /\ [][Next]_watched
=============================================================================
