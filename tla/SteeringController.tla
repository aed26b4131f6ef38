------------------------ MODULE SteeringController ------------------------
(***************************************************************************)
(* The steering controller (src/steering_controller.cpp): the motor driver *)
(* together with the absolute feedback, over one socket.  The feedback is  *)
(* the drive's analog input, asked for by an SDO in every cycle, or the    *)
(* TPDO1 of an encoder, which every SYNC triggers; either way it is 0 until *)
(* the first answer is drained: is_valid() and is_ready(), which nothing   *)
(* but the tools under test/ asks, are left out.                           *)
(*                                                                         *)
(* cycle_read() is two steps, Receive and UpdateDrivers, so that frames    *)
(* may arrive between its drain and its update.                            *)
(***************************************************************************)
EXTENDS MotorDriver

VARIABLE raw_position   \* get_position(): mV or encoder counts

controllerVars == <<motorVars, raw_position>>

ControllerTypeOK ==
  /\ MotorTypeOK
  /\ raw_position \in Int

ControllerInit ==
  /\ MotorInit
  /\ raw_position = 0

(* make_unique<SteeringController>. *)
NewController ==
  /\ NewMotor
  /\ raw_position' = 0

is_motor_enabled == drive_state = "OPERATION_ENABLED"

(* Mutants of the operator below: the NMT state, or the drive's, is not    *)
(* looked at.                                                              *)
MutFaultOfDriveOnly == drive_state = "FAULT"
MutFaultOfNmtOnly == nmt_state = "FAULT"

has_fault == nmt_state = "FAULT" \/ drive_state = "FAULT"

(* First half of cycle_read(): poll and SYNC, then drain the socket.  A    *)
(* closed socket takes neither write and yields no frame, and nobody looks *)
(* at the status of the read.                                              *)
Receive ==
  /\ sync' = sock
  /\ ProcessFrames
  /\ raw_position' \in IF in_feedback = {} THEN {raw_position} ELSE in_feedback
  /\ in_nmt' = {} /\ in_status' = {} /\ in_position' = {} /\ in_feedback' = {}
  /\ UNCHANGED <<sock, rtr, driveVars, columnVars>>

(* Second half: motor_.update(dt). *)
UpdateDrivers(dt) ==
  /\ MotorUpdate(dt)
  /\ UNCHANGED <<raw_position, sock, in_nmt, in_status, in_position, in_feedback, sync,
                 drive_nmt, setpoint, columnVars>>

(* set_target_position() and cycle_write(): the target goes out only while *)
(* the drive is believed to be enabled.                                    *)
CycleWrite(target) ==
  /\ IF is_motor_enabled THEN WriteRpdo21(target) ELSE UNCHANGED setpoint
  /\ UNCHANGED <<linkVars, drive_nmt, power, columnVars>>

(* A mutant of the operator below: the socket stays open. *)
MutShutdownKeepsSocket ==
  /\ WriteRpdo1("QUICK_STOP")
  /\ UNCHANGED <<linkVars, drive_nmt, setpoint, columnVars>>

(* shutdown(): QUICK_STOP, which may be lost, then the socket is closed. *)
Shutdown ==
  /\ WriteRpdo1("QUICK_STOP")
  /\ CloseSocket
  /\ UNCHANGED <<drive_nmt, setpoint, columnVars>>

=============================================================================
