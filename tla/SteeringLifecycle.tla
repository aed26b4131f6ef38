------------------------- MODULE SteeringLifecycle -------------------------
(***************************************************************************)
(* What the steering component promises to whoever operates it, without    *)
(* its frames, watchdogs and counters: only a configuration opens the link *)
(* to the drive, only over an open link does the drive get torque or a     *)
(* target, and a component that is deactivated or fails has closed it.     *)
(* SystemSteeringHardware implements this specification.                   *)
(***************************************************************************)

VARIABLES
  phase,    \* lifecycle state, "configuring" while on_configure() runs
  link,     \* the drive can be reached
  torque,   \* the drive is in OPERATION_ENABLED
  target    \* the position the drive was last told to take

avars == <<phase, link, torque, target>>

Init ==
  /\ phase = "unconfigured"
  /\ link = FALSE
  /\ torque = FALSE

(* The link may be open already: a cleanup leaves it so. *)
Configure ==
  /\ phase = "unconfigured" /\ phase' = "configuring"
  /\ link' = TRUE
  /\ UNCHANGED <<torque, target>>

Configured ==
  /\ phase = "configuring" /\ phase' = "inactive"
  /\ UNCHANGED <<link, torque, target>>

Activate ==
  /\ phase = "inactive" /\ phase' = "active"
  /\ UNCHANGED <<link, torque, target>>

(* The drive is told to stop as the link is closed; it may not hear it. *)
Deactivate ==
  /\ phase = "active" /\ phase' = "inactive"
  /\ link' = FALSE
  /\ torque' \in {torque, FALSE}
  /\ UNCHANGED target

Cleanup ==
  /\ phase = "inactive" /\ phase' = "unconfigured"
  /\ UNCHANGED <<link, torque, target>>

Fail ==
  /\ phase # "unconfigured" /\ phase' = "unconfigured"
  /\ link' = FALSE
  /\ torque' \in {torque, FALSE}
  /\ UNCHANGED target

(* The drive gets torque over an open link only, and may lose it any time. *)
TorqueChanges ==
  /\ torque' => link
  /\ UNCHANGED <<phase, link, target>>

(* Targets are sent by write(), in INACTIVE and ACTIVE. *)
TakeTarget ==
  /\ link
  /\ phase \in {"inactive", "active"}
  /\ target' # target
  /\ UNCHANGED <<phase, link, torque>>

Next ==
  \/ Configure
  \/ Configured
  \/ Activate
  \/ Deactivate
  \/ Cleanup
  \/ Fail
  \/ TorqueChanges
  \/ TakeTarget

Spec == Init /\ [][Next]_avars

=============================================================================
