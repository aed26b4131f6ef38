----------------------------- MODULE MCSteering -----------------------------
(***************************************************************************)
(* SystemSteeringHardware on small instances.  A cfg gives numbers; what a *)
(* cfg cannot write, negative numbers, is defined here.                    *)
(***************************************************************************)
EXTENDS LinkTeardown

MCRadPerUnit == -1

(* Where the motor encoder starts. *)
NoBias == {0}

(* Straight, and the right end of the range. *)
TwoAngles == {-1, 0}

(* What a controller asks for: more than the range to the right. *)
FarRight == {-2}

=============================================================================
