---------------------------- MODULE MotorDriver ----------------------------
(***************************************************************************)
(* The motor's node driver (src/motor_driver.cpp), on top of CANopenDriver *)
(* as in the code: what it believes of the CiA 402 power stage, the last   *)
(* position the drive reported, and the control word it sends each         *)
(* DS402_MIN_INTERVAL.                                                     *)
(*                                                                         *)
(* desired_state_ is OPERATION_ENABLED from the constructor on: nothing    *)
(* calls request_state().                                                  *)
(***************************************************************************)
EXTENDS CANopenDriver, Bus

CONSTANT DS402_MIN_INTERVAL   \* DS402_MIN_INTERVAL_S in ticks

ASSUME Ds402Assumption == DS402_MIN_INTERVAL \in Nat \ {0}

VARIABLES
  drive_state,      \* what the last decodable StatusWord said
  ds402_interval,   \* ticks since the last control word
  actual_position   \* last ActualPosition

motorVars == <<nodeVars, drive_state, ds402_interval, actual_position>>

DriveState == {"UNKNOWN", "SWITCH_ON_DISABLED", "READY_TO_SWITCH_ON", "OPERATION_DISABLED",
               "OPERATION_ENABLED", "QUICK_STOP", "FAULT"}

MotorTypeOK ==
  /\ NodeTypeOK
  /\ drive_state \in DriveState
  /\ ds402_interval \in 0..(DS402_MIN_INTERVAL - 1)
  /\ actual_position \in Int

(* A new object, and the state in which the first one is made. *)
MotorInit ==
  /\ NodeInit
  /\ drive_state = "UNKNOWN"
  /\ ds402_interval = 0
  /\ actual_position = 0

NewMotor ==
  /\ nmt_state' = "UNKNOWN"
  /\ nodeguard_elapsed' = 0
  /\ watchdog_elapsed' = 0
  /\ drive_state' = "UNKNOWN"
  /\ ds402_interval' = 0
  /\ actual_position' = 0

-----------------------------------------------------------------------------
(* A mutant of the operator below: the branch of FAULT is missing. *)
MutDecodedWithoutFault(status) ==
  IF status \in DriveState \ {"FAULT"} THEN status ELSE drive_state

(* update_motor_state(): the masks match no StatusWord of a drive that is  *)
(* reacting to a fault, and then the previous state stays.                 *)
Decoded(status) == IF status \in DriveState THEN status ELSE drive_state

(* dispatch_frame() over everything a drain returned. *)
ProcessFrames ==
  /\ IF in_nmt = {} THEN UNCHANGED nodeVars
                    ELSE \E state_byte \in in_nmt : ProcessNmtHeartbeat(state_byte)
  /\ drive_state' \in IF in_status = {} THEN {drive_state}
                                        ELSE {Decoded(s) : s \in in_status}
  /\ actual_position' \in IF in_position = {} THEN {actual_position} ELSE in_position
  /\ UNCHANGED ds402_interval

-----------------------------------------------------------------------------
(* A mutant of the operator below: a drive in SWITCH_ON_DISABLED is told   *)
(* to switch on at once.                                                   *)
MutControlWords ==
  CASE drive_state = "FAULT"              -> {"FAULT_RESET"}
    [] drive_state = "SWITCH_ON_DISABLED" -> {"SWITCH_ON"}
    [] drive_state = "READY_TO_SWITCH_ON" -> {"SWITCH_ON"}
    [] drive_state = "OPERATION_DISABLED" -> {"ENABLE_OP"}
    [] drive_state = "OPERATION_ENABLED"  -> {"ENABLE_OP"}
    [] drive_state = "QUICK_STOP"         -> {"DISABLE_VOLTAGE"}
    [] OTHER                              -> {}

(* tick_ds402(): the next control word on the way to OPERATION_ENABLED,    *)
(* none while no StatusWord was seen.                                      *)
ControlWords ==
  CASE drive_state = "FAULT"              -> {"FAULT_RESET"}
    [] drive_state = "SWITCH_ON_DISABLED" -> {"SHUTDOWN"}
    [] drive_state = "READY_TO_SWITCH_ON" -> {"SWITCH_ON"}
    [] drive_state = "OPERATION_DISABLED" -> {"ENABLE_OP"}
    [] drive_state = "OPERATION_ENABLED"  -> {"ENABLE_OP"}
    [] drive_state = "QUICK_STOP"         -> {"DISABLE_VOLTAGE"}
    [] OTHER                              -> {}

(* The control words a tick sends; nmt is the state update() has just left. *)
Ds402Sends(dt, nmt) ==
  IF nmt = "OPERATIONAL" /\ ds402_interval + dt >= DS402_MIN_INTERVAL
  THEN ControlWords ELSE {}

(* A mutant of the operator below: the timer is not restarted. *)
MutTickKeepsInterval(dt, nmt) ==
  /\ ds402_interval' = IF nmt # "OPERATIONAL" THEN ds402_interval ELSE ds402_interval + dt
  /\ IF Ds402Sends(dt, nmt) = {} THEN UNCHANGED power
     ELSE \E cw \in Ds402Sends(dt, nmt) : WriteRpdo1(cw)

TickDs402(dt, nmt) ==
  /\ ds402_interval' = IF nmt # "OPERATIONAL" THEN ds402_interval
                       ELSE IF ds402_interval + dt >= DS402_MIN_INTERVAL THEN 0
                       ELSE ds402_interval + dt
  /\ IF Ds402Sends(dt, nmt) = {} THEN UNCHANGED power
     ELSE \E cw \in Ds402Sends(dt, nmt) : WriteRpdo1(cw)

(* MotorDriver::update(dt), with the RTR of CANopenDriver::update(dt). *)
MotorUpdate(dt) ==
  /\ Update(dt)
  /\ rtr' = (rtr \/ (sock /\ NodeguardDue(dt)))
  /\ TickDs402(dt, nmt_state')
  /\ UNCHANGED <<drive_state, actual_position>>

=============================================================================
