-------------------------------- MODULE Bus --------------------------------
(***************************************************************************)
(* What the driver talks to: the CAN socket, the DZCANTE drive (a CANopen  *)
(* node with a CiA 402 power stage), the steering column it turns and the  *)
(* absolute sensor on the column.  None of it is code of this repository;  *)
(* it is modelled from how src/ uses it, and any frame may be lost.        *)
(*                                                                         *)
(* The socket's queue is modelled by what a drain makes of it: the last    *)
(* frame of each COB-ID wins, so each kind of frame has a slot that is a   *)
(* set of at most one payload.                                             *)
(***************************************************************************)
EXTENDS Integers

CONSTANTS
  Angles,                  \* positions of the steering column
  Biases,                  \* where the motor encoder may start counting
  ACTUATOR_ZERO, COUNTS_PER_RAD,   \* actuator_zero_, actuator_counts_per_rad_
  FEEDBACK_ZERO, RAD_PER_UNIT,     \* feedback_zero_, feedback_rad_per_unit_
  Mishaps                  \* what may go wrong out there, see below

(* One unit of angle is one step of the sensor. *)
ASSUME CalibrationAssumption ==
  /\ Angles \subseteq Int
  /\ Biases \subseteq Int
  /\ {ACTUATOR_ZERO, COUNTS_PER_RAD, FEEDBACK_ZERO} \subseteq Int
  /\ RAD_PER_UNIT \in {-1, 1}

ASSUME MishapsAssumption ==
  Mishaps \subseteq {"drive fault", "drive restart", "configure error"}

VARIABLES
  sock,        \* SocketCANInterface::initialized_
  in_nmt,      \* the slots: a NodeGuard state byte,
  in_status,   \*            a StatusWord (TPDO1),
  in_position, \*            an ActualPosition (TPDO21),
  in_feedback, \*            a sensor value (SDO reply or encoder TPDO1)
  sync,        \* a SYNC went out on this socket
  rtr,         \* a NodeGuard RTR is on its way
  drive_nmt,   \* NMT state of the drive, "OFF" while it has no power
  power,       \* CiA 402 state of the drive
  setpoint,    \* the last target position the drive took
  angle,       \* where the steering column is
  bias         \* motor encoder counts minus the calibrated counts of the angle

linkVars   == <<sock, in_nmt, in_status, in_position, in_feedback, sync, rtr>>
driveVars  == <<drive_nmt, power, setpoint>>
columnVars == <<angle, bias>>
busVars    == <<linkVars, driveVars, columnVars>>

PowerState == {"SWITCH_ON_DISABLED", "READY_TO_SWITCH_ON", "OPERATION_DISABLED",
               "OPERATION_ENABLED", "QUICK_STOP", "FAULT_REACTION", "FAULT"}

DriveNmt == {"OFF", "PRE_OPERATIONAL", "OPERATIONAL"}

(* feedback_to_rad() and rad_to_motor_counts(), and the sensor they undo. *)
FeedbackToRad(raw) == (raw - FEEDBACK_ZERO) * RAD_PER_UNIT
RadToMotorCounts(rad) == ACTUATOR_ZERO + rad * COUNTS_PER_RAD
SensorValue(rad) == FEEDBACK_ZERO + rad * RAD_PER_UNIT

MotorCounts == RadToMotorCounts(angle) + bias

BusTypeOK ==
  /\ sock \in BOOLEAN
  /\ in_nmt \subseteq {5, 127}
  /\ in_status \subseteq PowerState
  /\ in_position \subseteq Int
  /\ in_feedback \subseteq Int
  /\ sync \in BOOLEAN
  /\ rtr \in BOOLEAN
  /\ drive_nmt \in DriveNmt
  /\ power \in PowerState
  /\ setpoint \in Int
  /\ angle \in Angles
  /\ bias \in Int

(* The socket is closed, the drive is on its own. *)
LinkDown ==
  /\ sock = FALSE
  /\ in_nmt = {} /\ in_status = {} /\ in_position = {} /\ in_feedback = {}
  /\ sync = FALSE
  /\ rtr = FALSE

BusInit ==
  /\ LinkDown
  /\ drive_nmt \in DriveNmt
  /\ power = "SWITCH_ON_DISABLED"
  /\ angle \in Angles
  /\ bias \in Biases
  /\ setpoint = MotorCounts

-----------------------------------------------------------------------------
(* SocketCANInterface: a socket that is opened or closed has an empty      *)
(* queue, and what was under way to a closed one is gone.                  *)
SetSocket(open) ==
  /\ sock' = open
  /\ in_nmt' = {} /\ in_status' = {} /\ in_position' = {} /\ in_feedback' = {}
  /\ sync' = FALSE
  /\ rtr' = FALSE

OpenSocket == SetSocket(TRUE)
CloseSocket == SetSocket(FALSE)

(* The CiA 402 power stage under the control words this driver sends. *)
AfterControlWord(cw) ==
  CASE cw = "DISABLE_VOLTAGE" /\ power \notin {"FAULT_REACTION", "FAULT"}
         -> "SWITCH_ON_DISABLED"
    [] cw = "SHUTDOWN" /\ power \in {"SWITCH_ON_DISABLED", "OPERATION_DISABLED",
                                     "OPERATION_ENABLED"}
         -> "READY_TO_SWITCH_ON"
    [] cw = "SWITCH_ON" /\ power \in {"READY_TO_SWITCH_ON", "OPERATION_ENABLED"}
         -> "OPERATION_DISABLED"
    [] cw = "ENABLE_OP" /\ power \in {"OPERATION_DISABLED", "QUICK_STOP"}
         -> "OPERATION_ENABLED"
    [] cw = "QUICK_STOP" /\ power = "OPERATION_ENABLED"
         -> "QUICK_STOP"
    [] cw = "QUICK_STOP" /\ power \in {"READY_TO_SWITCH_ON", "OPERATION_DISABLED"}
         -> "SWITCH_ON_DISABLED"
    [] cw = "FAULT_RESET" /\ power = "FAULT"
         -> "SWITCH_ON_DISABLED"
    [] OTHER -> power

(* Frames written to the bus.  RPDOs reach the drive only in OPERATIONAL;  *)
(* SDOs reach it as soon as it has power; any of them may be lost or fail  *)
(* to be written, which the cyclic code does not tell apart.               *)
WriteRpdo1(cw) ==
  power' \in {power} \cup
    IF sock /\ drive_nmt = "OPERATIONAL" THEN {AfterControlWord(cw)} ELSE {}

WriteRpdo21(counts) ==
  setpoint' \in {setpoint} \cup
    IF sock /\ drive_nmt = "OPERATIONAL" THEN {counts} ELSE {}

WriteSdoControlWord(cw) ==
  power' \in {power} \cup
    IF sock /\ drive_nmt # "OFF" THEN {AfterControlWord(cw)} ELSE {}

WriteNmt(state) ==
  drive_nmt' \in {drive_nmt} \cup
    IF sock /\ drive_nmt # "OFF" THEN {state} ELSE {}

-----------------------------------------------------------------------------
(* What the drive and the sensor send, sooner, later or never.  TPDOs      *)
(* answer a SYNC; one that was lost is one nobody answered.                *)
Reporting == sock /\ sync /\ drive_nmt = "OPERATIONAL"

DriveReportsStatus ==
  /\ Reporting
  /\ in_status' = {power}
  /\ UNCHANGED <<sock, in_nmt, in_position, in_feedback, sync, rtr, driveVars, columnVars>>

DriveReportsPosition ==
  /\ Reporting
  /\ in_position' = {MotorCounts}
  /\ UNCHANGED <<sock, in_nmt, in_status, in_feedback, sync, rtr, driveVars, columnVars>>

SensorReports ==
  /\ sock /\ sync
  /\ in_feedback' = {SensorValue(angle)}
  /\ UNCHANGED <<sock, in_nmt, in_status, in_position, sync, rtr, driveVars, columnVars>>

DriveAnswersGuard ==
  /\ sock /\ rtr /\ drive_nmt # "OFF"
  /\ in_nmt' = {IF drive_nmt = "OPERATIONAL" THEN 5 ELSE 127}
  /\ rtr' = FALSE
  /\ UNCHANGED <<sock, in_status, in_position, in_feedback, sync, driveVars, columnVars>>

-----------------------------------------------------------------------------
(* What the drive and the column do by themselves. *)
DriveFaults ==
  /\ "drive fault" \in Mishaps
  /\ drive_nmt # "OFF"
  /\ power \notin {"FAULT_REACTION", "FAULT"}
  /\ power' = IF power = "OPERATION_ENABLED" THEN "FAULT_REACTION" ELSE "FAULT"
  /\ UNCHANGED <<linkVars, drive_nmt, setpoint, columnVars>>

DriveComesToRest ==
  /\ power \in {"FAULT_REACTION", "QUICK_STOP"}
  /\ power' = IF power = "FAULT_REACTION" THEN "FAULT" ELSE "SWITCH_ON_DISABLED"
  /\ UNCHANGED <<linkVars, drive_nmt, setpoint, columnVars>>

(* The drive loses power, or has it again.  Its encoder then counts from 0 *)
(* wherever the column is.                                                 *)
DriveLosesPower ==
  /\ "drive restart" \in Mishaps
  /\ drive_nmt # "OFF"
  /\ drive_nmt' = "OFF"
  /\ power' = "SWITCH_ON_DISABLED"
  /\ UNCHANGED <<linkVars, setpoint, columnVars>>

DriveBoots ==
  /\ drive_nmt = "OFF"
  /\ drive_nmt' = "PRE_OPERATIONAL"
  /\ bias' = -RadToMotorCounts(angle)
  /\ UNCHANGED <<linkVars, power, setpoint, angle>>

(* An enabled drive turns the column to its setpoint, or gets stuck on the *)
(* way.                                                                    *)
ColumnTurns ==
  /\ power = "OPERATION_ENABLED"
  /\ angle' \in {a \in Angles : RadToMotorCounts(a) + bias = setpoint}
  /\ UNCHANGED <<linkVars, driveVars, bias>>

BusNext ==
  \/ DriveReportsStatus
  \/ DriveReportsPosition
  \/ SensorReports
  \/ DriveAnswersGuard
  \/ DriveFaults
  \/ DriveComesToRest
  \/ DriveLosesPower
  \/ DriveBoots
  \/ ColumnTurns

=============================================================================
