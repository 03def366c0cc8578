------------------------------ MODULE SwapPool ------------------------------
(***************************************************************************)
(* What the service promises the machine it runs on: a pool of numbered    *)
(* swap areas that grows and shrinks at its end.  Area 0 is there before   *)
(* the service says it runs and is given up only when it stops; a service  *)
(* that stops gives up every area it manages, the newest first, before it  *)
(* is stopped; one that dies, stopping or not, leaves its areas as they    *)
(* are.  A call of the kernel may fail, so an area may be managed that is  *)
(* not active, or given up while it is.                                    *)
(*                                                                         *)
(* Nothing of memory pressure, swap in use, files, configuration or signal *)
(* handlers is visible here: SwapDaemon is shown to implement this module. *)
(***************************************************************************)
EXTENDS Integers

CONSTANTS
    MaxAreas    \* areas at most

VARIABLES
    phase,      \* "starting", "running", "stopping", "stopped" or "dead"
    managed,    \* how many areas the service manages: 0 .. managed - 1
    areas       \* the areas that are active

vars == <<phase, managed, areas>>

Init == phase = "starting" /\ managed = 0 /\ areas = {}

(* The next area becomes active, or fails to, and is managed then; only    *)
(* the first is made before the service runs.                              *)
MayGrow ==
    /\ managed < MaxAreas
    /\ \/ phase = "running"
       \/ phase = "starting" /\ managed = 0

Activate == MayGrow /\ areas' = areas \cup {managed} /\ UNCHANGED <<phase, managed>>
Grow == MayGrow /\ managed' = managed + 1 /\ UNCHANGED <<phase, areas>>

Run ==
    /\ phase = "starting" /\ managed = 1
    /\ phase' = "running"
    /\ UNCHANGED <<managed, areas>>

(* The newest area is given up; the first one only by a service that stops.*)
MayShrink == \/ phase = "running" /\ managed > 1
             \/ phase = "stopping" /\ managed > 0

Deactivate ==
    /\ MayShrink
    /\ areas' = areas \ {managed - 1}
    /\ UNCHANGED <<phase, managed>>

Shrink == MayShrink /\ managed' = managed - 1 /\ UNCHANGED <<phase, areas>>

(* A service may be asked to stop as soon as it has its first area.        *)
Stop ==
    /\ \/ phase = "running"
       \/ phase = "starting" /\ managed = 1
    /\ phase' = "stopping"
    /\ UNCHANGED <<managed, areas>>

Stopped ==
    /\ phase = "stopping" /\ managed = 0
    /\ phase' = "stopped"
    /\ UNCHANGED <<managed, areas>>

(* An error, or a signal that is not handled.                              *)
Die ==
    /\ phase \in {"starting", "running", "stopping"}
    /\ phase' = "dead" /\ managed' = 0
    /\ UNCHANGED areas

Ended == phase \in {"stopped", "dead"}
Start == Ended /\ phase' = "starting" /\ UNCHANGED <<managed, areas>>
Reboot == Ended /\ areas' = {} /\ UNCHANGED <<phase, managed>>

Next == \/ Activate \/ Grow \/ Run \/ Deactivate \/ Shrink
        \/ Stop \/ Stopped \/ Die \/ Start \/ Reboot

Spec == Init /\ [][Next]_vars
=============================================================================
