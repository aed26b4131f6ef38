------------------------ MODULE SteeringCalibration ------------------------
(***************************************************************************)
(* The numbers between the absolute sensor, the angle of the joint and the *)
(* counts of the motor: what on_init() makes of the calibration in the     *)
(* URDF, the offset on_activate() anchors it with, the clamp and the       *)
(* target of write() (src/system_steering_hardware.cpp), and the analog    *)
(* input a potentiometer is read through (src/motor_driver.cpp).           *)
(*                                                                         *)
(* Parameters are whole numbers.  An angle is counted in units of          *)
(* steering_angle_range divided by the span of the feedback, which makes   *)
(* every conversion of the code exact up to its rounding; what double      *)
(* arithmetic may add at a tie is left out.                                *)
(***************************************************************************)
EXTENDS Integers

CONSTANTS
  Parameters,   \* calibrations a URDF may have
  Readings,     \* what the sensor may deliver: encoder counts, or analog units
  Positions,    \* what the drive may report as ActualPosition
  Demands,      \* angles a controller may ask for, besides the one it reads
  NaN

Ends == [left : Int, right : Int, zero : Int]

ASSUME CalibrationAssumption ==
  /\ Parameters \subseteq
       [can_interface_name : {"", "can"}, feedback_mode : Int, encoder_node_id : 0..255,
        steering_angle_range : Int, actuator : Ends, potentiometer : Ends, encoder : Ends]
  /\ Readings \subseteq Int
  /\ Positions \subseteq Int
  /\ Demands \subseteq Int
  /\ NaN \notin Int

VARIABLES
  urdf,                \* the parameters of this component
  lifecycle,           \* "loaded", "rejected", "inactive" or "active"
  hw_state,            \* hw_states_[0]
  hw_command,          \* hw_commands_[0]
  motor_count_offset,
  target,              \* the last set_target_position(), NaN if there is none
  reading,             \* what the sensor delivered last
  anchor               \* history: reading and motor counts of the last on_activate()

vars == <<urdf, lifecycle, hw_state, hw_command, motor_count_offset, target, reading, anchor>>

TypeOK ==
  /\ urdf \in Parameters
  /\ lifecycle \in {"loaded", "rejected", "inactive", "active"}
  /\ hw_state \in Int \cup {NaN}
  /\ hw_command \in Int \cup {NaN}
  /\ motor_count_offset \in Int
  /\ target \in Int \cup {NaN}
  /\ reading \in Int
  /\ anchor \in [reading : Int, counts : Int]

Init ==
  /\ urdf \in Parameters
  /\ lifecycle = "loaded"
  /\ hw_state = NaN /\ hw_command = NaN
  /\ motor_count_offset = 0
  /\ target = NaN
  /\ reading = 0
  /\ anchor = [reading |-> 0, counts |-> 0]

-----------------------------------------------------------------------------
(* Integer arithmetic of C++: quotients towards 0, std::round away from 0, *)
(* and the 16 bits of an int16_t.                                          *)
Magnitude(n) == IF n < 0 THEN -n ELSE n
Quotient(n, d) == IF n < 0 THEN -((-n) \div d) ELSE n \div d
Rounded(n, d) == IF n < 0 THEN -((2 * (-n) + d) \div (2 * d)) ELSE (2 * n + d) \div (2 * d)
Int16(n) == ((n + 32768) % 65536) - 32768

(* A mutant of the operator below: 16 bits before the division. *)
MutAnalogMillivolts(raw) == Quotient(Int16(raw * 20000), 16384)

(* process_sdo_response(): +-16384 is +-20 V. *)
AnalogMillivolts(raw) == Int16(Quotient(raw * 20000, 16384))

-----------------------------------------------------------------------------
(* How on_init() calibrates, and how on_configure() and the constructor of *)
(* SteeringController choose the source.                                   *)
EncoderNode == IF urdf.feedback_mode = 1 THEN urdf.encoder_node_id ELSE 0

FeedbackSource == IF EncoderNode # 0 THEN "encoder" ELSE "potentiometer"

EndsOf(p) == IF p.feedback_mode = 0 THEN p.potentiometer ELSE p.encoder
Feedback == EndsOf(urdf)

Rejects(p) ==
  \/ p.can_interface_name = ""
  \/ p.steering_angle_range <= 0
  \/ EndsOf(p).left = EndsOf(p).right

(* get_position() for what the sensor delivers. *)
Position(raw) == IF FeedbackSource = "potentiometer" THEN AnalogMillivolts(raw) ELSE raw

(* steering_angle_range_ in units of angle. *)
Range == Magnitude(Feedback.right - Feedback.left)

FeedbackToRad(raw) ==
  (raw - Feedback.zero) * (IF Feedback.right > Feedback.left THEN -2 ELSE 2)

(* A mutant of the operator below: the cast cuts off, nothing rounds. *)
MutRadToMotorCounts(rad) ==
  Quotient((urdf.actuator.left + urdf.actuator.right) * Range
             + rad * (urdf.actuator.left - urdf.actuator.right), 2 * Range)

(* The middle of the actuator, and its span over twice the range. *)
RadToMotorCounts(rad) ==
  Rounded((urdf.actuator.left + urdf.actuator.right) * Range
            + rad * (urdf.actuator.left - urdf.actuator.right), 2 * Range)

(* A mutant of the operator below: no upper bound. *)
MutClamp(rad) == IF rad < -Range THEN -Range ELSE rad

Clamp(rad) == IF rad < -Range THEN -Range ELSE IF rad > Range THEN Range ELSE rad

-----------------------------------------------------------------------------
OnInit ==
  /\ lifecycle = "loaded"
  /\ lifecycle' = IF Rejects(urdf) THEN "rejected" ELSE "inactive"
  /\ UNCHANGED <<urdf, hw_state, hw_command, motor_count_offset, target, reading, anchor>>

(* The manager has nothing to do with a component that on_init() refused. *)
Refused ==
  /\ lifecycle = "rejected"
  /\ UNCHANGED vars

(* A mutant of the operator below: the offset has the wrong sign.           *)
MutOffsetAdded ==
  /\ lifecycle = "inactive"
  /\ lifecycle' = "active"
  /\ \E raw \in Readings, counts \in Positions :
       LET init_rad == FeedbackToRad(Position(raw))
       IN  /\ reading' = raw
           /\ motor_count_offset' = counts + RadToMotorCounts(init_rad)
           /\ hw_state' = init_rad
           /\ hw_command' = IF hw_command = NaN THEN init_rad ELSE hw_command
           /\ anchor' = [reading |-> Position(raw), counts |-> counts]
  /\ target' = NaN
  /\ UNCHANGED urdf

(* on_activate(), once the motor is enabled.  The column may have been     *)
(* turned by hand since the last activation, and the motor encoder may     *)
(* have started anew.                                                      *)
OnActivate ==
  /\ lifecycle = "inactive"
  /\ lifecycle' = "active"
  /\ \E raw \in Readings, counts \in Positions :
       LET init_rad == FeedbackToRad(Position(raw))
       IN  /\ reading' = raw
           /\ motor_count_offset' = counts - RadToMotorCounts(init_rad)
           /\ hw_state' = init_rad
           /\ hw_command' = IF hw_command = NaN THEN init_rad ELSE hw_command
           /\ anchor' = [reading |-> Position(raw), counts |-> counts]
  /\ target' = NaN
  /\ UNCHANGED urdf

OnDeactivate ==
  /\ lifecycle = "active"
  /\ lifecycle' = "inactive"
  /\ UNCHANGED <<urdf, hw_state, hw_command, motor_count_offset, target, reading, anchor>>

(* read(), in ACTIVE. *)
Read ==
  /\ lifecycle = "active"
  /\ \E raw \in Readings :
       /\ reading' = raw
       /\ hw_state' = FeedbackToRad(Position(raw))
  /\ UNCHANGED <<urdf, lifecycle, hw_command, motor_count_offset, target, anchor>>

(* A controller asks for an angle, or to stay where the joint is. *)
Command ==
  /\ lifecycle = "active"
  /\ hw_command' \in Demands \cup {hw_state}
  /\ UNCHANGED <<urdf, lifecycle, hw_state, motor_count_offset, target, reading, anchor>>

(* write(), in ACTIVE. *)
Write ==
  /\ lifecycle = "active"
  /\ target' = RadToMotorCounts(Clamp(hw_command)) + motor_count_offset
  /\ UNCHANGED <<urdf, lifecycle, hw_state, hw_command, motor_count_offset, reading, anchor>>

Next ==
  \/ OnInit \/ Refused
  \/ OnActivate \/ OnDeactivate
  \/ Read \/ Command \/ Write

Spec == Init /\ [][Next]_vars

-----------------------------------------------------------------------------
Between(n, a, b) == n \in a..b \cup b..a

(* Whatever a controller asks for, and however the actuator is mounted,    *)
(* the target lies between the calibrated ends of the actuator, as the     *)
(* offset moves them (system_steering_hardware.cpp:355-356).               *)
TargetsWithinActuator ==
  target # NaN /\ lifecycle = "active" =>
    Between(target - motor_count_offset, urdf.actuator.left, urdf.actuator.right)

(* Told to hold the angle it has read when it was activated, the drive is  *)
(* given the very counts it reported, to the last count                    *)
(* (system_steering_hardware.cpp:268-270, :354-356).                       *)
HoldsPosition ==
  [][lifecycle = "active" /\ target' # target
       /\ hw_command = FeedbackToRad(anchor.reading) /\ Clamp(hw_command) = hw_command
       => target' = anchor.counts]_vars

(* Told to go to an angle that the sensor has read, the drive is moved by  *)
(* as many counts as the two calibrations say lie between that reading and *)
(* the one of the activation, to one count (system_steering_hardware.hpp:  *)
(* 66-75).                                                                 *)
TargetTracksSensor ==
  [][lifecycle = "active" /\ target' # target /\ hw_command = hw_state
       /\ Clamp(hw_command) = hw_command
       => LET span  == Feedback.right - Feedback.left
              moved == (urdf.actuator.right - urdf.actuator.left)
                         * (Position(reading) - anchor.reading)
          IN  Magnitude(span * (target' - anchor.counts) - moved) <= Range]_vars

(* Within the +-20 V of the analog input a higher voltage is never read as *)
(* a lower one; from raw 26844 on the int16_t wraps (motor_driver.cpp:     *)
(* 331-336).                                                               *)
ReadingFollowsVoltage ==
  [][FeedbackSource = "potentiometer" /\ Magnitude(reading) <= 16384
       /\ Magnitude(reading') <= 16384 /\ reading <= reading'
       => Position(reading) <= Position(reading')]_vars

=============================================================================
