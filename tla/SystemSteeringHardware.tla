---------------------- MODULE SystemSteeringHardware ----------------------
(***************************************************************************)
(* The ros2_control system component (src/system_steering_hardware.cpp):   *)
(* its lifecycle callbacks, read() and write(), driven by the controller   *)
(* manager and composed with the bus.                                      *)
(*                                                                         *)
(* The controller manager is external: it calls one callback at a time,    *)
(* read() and write() in INACTIVE and ACTIVE, and on_error() as soon as    *)
(* on_configure() or read() returns ERROR, after which the component is    *)
(* UNCONFIGURED.                                                           *)
(***************************************************************************)
EXTENDS SteeringController

CONSTANTS
  STEERING_ANGLE_RANGE,   \* steering_angle_range_
  READ_MULTIPLICITY, WRITE_MULTIPLICITY,   \* the effective ones
  READ_OFFSET, WRITE_OFFSET,
  ACTIVATE_DT,            \* kDt in ticks; read() has a period of one tick
  Commands,               \* what a controller may ask for, in rad
  NaN                     \* the command interface before anybody wrote to it

ASSUME HardwareAssumption ==
  /\ STEERING_ANGLE_RANGE \in Nat \ {0}
  /\ READ_MULTIPLICITY \in Nat \ {0} /\ WRITE_MULTIPLICITY \in Nat \ {0}
  /\ READ_OFFSET \in Int /\ WRITE_OFFSET \in Int
  /\ ACTIVATE_DT \in Nat \ {0}
  /\ Commands \subseteq Int
  /\ NaN \notin Int

VARIABLES
  lifecycle,           \* state the controller manager has the component in
  pc,                  \* where the callback under way is, "idle" if there is none
  steering_controller, \* steering_controller_ is not null
  read_counter, write_counter,
  hw_command,          \* hw_commands_[0]
  motor_count_offset,
  halted,    \* history: the program closed the socket after the last on_configure()
  anchored   \* history: what the last successful on_activate() had read was the truth

hardwareVars == <<steering_controller, read_counter, write_counter, hw_command,
                  motor_count_offset>>
historyVars  == <<halted, anchored>>
vars == <<controllerVars, busVars, lifecycle, pc, hardwareVars, historyVars>>

ConfigureStage == {"reset", "pre_op", "pdos", "disable_voltage", "shutdown", "switch_on",
                   "enable_op", "start", "encoder"}

ProgramCounter == {"idle", "read_update", "read_error", "act_update", "act_sleep",
                   "act_enabled"} \cup ConfigureStage

TypeOK ==
  /\ ControllerTypeOK
  /\ BusTypeOK
  /\ lifecycle \in {"unconfigured", "inactive", "active"}
  /\ pc \in ProgramCounter
  /\ steering_controller \in BOOLEAN
  /\ read_counter \in Int /\ write_counter \in Int
  /\ hw_command \in Int \cup {NaN}
  /\ motor_count_offset \in Int
  /\ halted \in BOOLEAN /\ anchored \in BOOLEAN

(* on_init() has returned. *)
Init ==
  /\ BusInit
  /\ ControllerInit
  /\ lifecycle = "unconfigured"
  /\ pc = "idle"
  /\ steering_controller = FALSE
  /\ read_counter = 0 /\ write_counter = 0
  /\ hw_command = NaN
  /\ motor_count_offset = 0
  /\ halted = FALSE /\ anchored = FALSE

-----------------------------------------------------------------------------
(* on_error(): shut down and drop the controller, if there is one.  What a *)
(* dropped controller believed is gone; nobody looks at it before          *)
(* OnConfigure makes a new one.                                            *)
DropController ==
  /\ steering_controller' = FALSE
  /\ NewController
  /\ read_counter' = 0 /\ write_counter' = 0
  /\ lifecycle' = "unconfigured"
  /\ pc' = "idle"
  /\ halted' = TRUE
  /\ UNCHANGED <<hw_command, motor_count_offset, anchored>>

OnError == Shutdown /\ DropController

-----------------------------------------------------------------------------
(* on_configure(): a new controller over a new socket. *)
OnConfigure ==
  /\ lifecycle = "unconfigured" /\ pc = "idle"
  /\ NewController
  /\ steering_controller' = TRUE
  /\ OpenSocket
  /\ pc' = "reset"
  /\ halted' = FALSE
  /\ UNCHANGED <<driveVars, columnVars, lifecycle, read_counter, write_counter, hw_command,
                 motor_count_offset, anchored>>

(* What every configuration step leaves alone. *)
ConfigureFrame ==
  UNCHANGED <<linkVars, setpoint, columnVars, drive_state, ds402_interval, actual_position,
              raw_position, hardwareVars, halted, anchored>>

(* NMT RESET_COMMUNICATION, then NMT ENTER_PRE_OPERATIONAL. *)
ConfigureReset ==
  /\ pc = "reset" /\ pc' = "pre_op"
  /\ WriteNmt("PRE_OPERATIONAL")
  /\ ConfigureFrame
  /\ UNCHANGED <<nodeVars, power, lifecycle>>

ConfigurePreOp ==
  /\ pc = "pre_op" /\ pc' = "pdos"
  /\ WriteNmt("PRE_OPERATIONAL")
  /\ nmt_state' = "PRE_OPERATIONAL"
  /\ ConfigureFrame
  /\ UNCHANGED <<nodeguard_elapsed, watchdog_elapsed, power, lifecycle>>

(* configure_pdos(), configure_nodeguard() and configure_mode(): SDOs that *)
(* change no state modelled here.                                          *)
ConfigurePdos ==
  /\ pc = "pdos" /\ pc' = "disable_voltage"
  /\ ConfigureFrame
  /\ UNCHANGED <<nodeVars, drive_nmt, power, lifecycle>>

(* The four control words of startup_sequence(); nobody looks at whether   *)
(* they could be written.                                                  *)
ConfigureControlWord ==
  \E step \in {<<"disable_voltage", "DISABLE_VOLTAGE", "shutdown">>,
               <<"shutdown", "SHUTDOWN", "switch_on">>,
               <<"switch_on", "SWITCH_ON", "enable_op">>,
               <<"enable_op", "ENABLE_OP", "start">>} :
    /\ pc = step[1] /\ pc' = step[3]
    /\ WriteSdoControlWord(step[2])
    /\ ConfigureFrame
    /\ UNCHANGED <<nodeVars, drive_nmt, lifecycle>>

(* NMT START, and the optimistic OPERATIONAL. *)
ConfigureStart ==
  /\ pc = "start" /\ pc' = "encoder"
  /\ WriteNmt("OPERATIONAL")
  /\ StartOptimistic
  /\ ConfigureFrame
  /\ UNCHANGED <<power, lifecycle>>

(* encoder_->configure(), if there is an encoder, and the end of init(). *)
ConfigureDone ==
  /\ pc = "encoder" /\ pc' = "idle"
  /\ lifecycle' = "inactive"
  /\ ConfigureFrame
  /\ UNCHANGED <<nodeVars, drive_nmt, power>>

(* The socket cannot be opened, or a write whose result is looked at       *)
(* fails: init() closes the socket, on_configure() drops the controller    *)
(* and returns ERROR, and on_error() finds nothing to shut down.           *)
ConfigureFails ==
  /\ "configure error" \in Mishaps
  /\ pc \in {"reset", "pre_op", "pdos", "start", "encoder"}
  /\ CloseSocket
  /\ DropController
  /\ UNCHANGED <<driveVars, columnVars>>

-----------------------------------------------------------------------------
(* A mutant of the operator below: the socket is opened again. *)
MutActivateReopens ==
  /\ lifecycle = "inactive" /\ pc = "idle"
  /\ pc' = "act_sleep"
  /\ OpenSocket
  /\ UNCHANGED <<controllerVars, driveVars, columnVars, lifecycle, hardwareVars, historyVars>>

(* on_activate(): cycle_read(kDt) until the motor is enabled or the        *)
(* deadline has passed.  The deadline is on the wall clock, so it may pass *)
(* after any number of iterations but the first, which starts 5 s before.  *)
OnActivate ==
  /\ lifecycle = "inactive" /\ pc = "idle"
  /\ pc' = "act_update"
  /\ Receive
  /\ UNCHANGED <<lifecycle, hardwareVars, historyVars>>

ActivateUpdate ==
  /\ pc = "act_update"
  /\ pc' = IF is_motor_enabled THEN "act_enabled" ELSE "act_sleep"
  /\ UpdateDrivers(ACTIVATE_DT)
  /\ UNCHANGED <<lifecycle, hardwareVars, historyVars>>

ActivateAgain ==
  /\ pc = "act_sleep" /\ pc' = "act_update"
  /\ Receive
  /\ UNCHANGED <<lifecycle, hardwareVars, historyVars>>

(* Timeout: on_activate() returns FAILURE and the component stays INACTIVE. *)
ActivateFails ==
  /\ pc = "act_sleep" /\ pc' = "idle"
  /\ UNCHANGED <<controllerVars, busVars, lifecycle, hardwareVars, historyVars>>

(* A mutant of the operator below: the offset is computed only the first   *)
(* time, with the command.                                                 *)
MutOffsetOnlyOnce ==
  /\ pc = "act_enabled" /\ pc' = "idle"
  /\ lifecycle' = "active"
  /\ read_counter' = READ_MULTIPLICITY - READ_OFFSET
  /\ write_counter' = WRITE_MULTIPLICITY - WRITE_OFFSET
  /\ LET init_rad == FeedbackToRad(raw_position)
     IN  IF hw_command = NaN
         THEN /\ motor_count_offset' = actual_position - RadToMotorCounts(init_rad)
              /\ hw_command' = init_rad
         ELSE UNCHANGED <<motor_count_offset, hw_command>>
  /\ anchored' = (raw_position = SensorValue(angle) /\ actual_position = MotorCounts)
  /\ UNCHANGED <<controllerVars, busVars, steering_controller, halted>>

(* The position the readings stand for becomes the origin of the commands, *)
(* and the command if there is none yet.                                   *)
ActivateSucceeds ==
  /\ pc = "act_enabled" /\ pc' = "idle"
  /\ lifecycle' = "active"
  /\ read_counter' = READ_MULTIPLICITY - READ_OFFSET
  /\ write_counter' = WRITE_MULTIPLICITY - WRITE_OFFSET
  /\ LET init_rad == FeedbackToRad(raw_position)
     IN  /\ motor_count_offset' = actual_position - RadToMotorCounts(init_rad)
         /\ hw_command' = IF hw_command = NaN THEN init_rad ELSE hw_command
  /\ anchored' = (raw_position = SensorValue(angle) /\ actual_position = MotorCounts)
  /\ UNCHANGED <<controllerVars, busVars, steering_controller, halted>>

-----------------------------------------------------------------------------
(* A mutant of the operator below: the controller is dropped as well. *)
MutDeactivateDropsController ==
  /\ lifecycle = "active" /\ pc = "idle"
  /\ lifecycle' = "inactive"
  /\ Shutdown
  /\ steering_controller' = FALSE
  /\ halted' = TRUE
  /\ UNCHANGED <<controllerVars, pc, read_counter, write_counter, hw_command,
                 motor_count_offset, anchored>>

(* on_deactivate(): the socket is closed, the controller kept. *)
OnDeactivate ==
  /\ lifecycle = "active" /\ pc = "idle"
  /\ lifecycle' = "inactive"
  /\ Shutdown
  /\ halted' = TRUE
  /\ UNCHANGED <<controllerVars, pc, hardwareVars, anchored>>

(* on_cleanup() is not overridden: the controller and its socket stay. *)
OnCleanup ==
  /\ lifecycle = "inactive" /\ pc = "idle"
  /\ lifecycle' = "unconfigured"
  /\ UNCHANGED <<controllerVars, busVars, pc, hardwareVars, historyVars>>

-----------------------------------------------------------------------------
(* read(). *)
Readable == lifecycle \in {"inactive", "active"} /\ pc = "idle"

ReadSkip ==
  /\ Readable
  /\ read_counter + 1 < READ_MULTIPLICITY
  /\ read_counter' = read_counter + 1
  /\ UNCHANGED <<controllerVars, busVars, lifecycle, pc, steering_controller, write_counter,
                 hw_command, motor_count_offset, historyVars>>

ReadReceive ==
  /\ Readable
  /\ read_counter + 1 >= READ_MULTIPLICITY
  /\ read_counter' = 0
  /\ pc' = "read_update"
  /\ Receive
  /\ UNCHANGED <<lifecycle, steering_controller, write_counter, hw_command,
                 motor_count_offset, historyVars>>

(* A mutant of the operator below: faults count in ACTIVE only. *)
MutReadFaultsInActive ==
  /\ pc = "read_update"
  /\ UpdateDrivers(1)
  /\ pc' = IF has_fault' /\ lifecycle = "active" THEN "read_error" ELSE "idle"
  /\ UNCHANGED <<lifecycle, hardwareVars, historyVars>>

ReadUpdate ==
  /\ pc = "read_update"
  /\ UpdateDrivers(1)
  /\ pc' = IF has_fault' THEN "read_error" ELSE "idle"
  /\ UNCHANGED <<lifecycle, hardwareVars, historyVars>>

(* read() has returned ERROR. *)
ReadError ==
  /\ pc = "read_error"
  /\ OnError

-----------------------------------------------------------------------------
(* write(). *)
Clamp(rad) ==
  IF rad < -STEERING_ANGLE_RANGE THEN -STEERING_ANGLE_RANGE
  ELSE IF rad > STEERING_ANGLE_RANGE THEN STEERING_ANGLE_RANGE ELSE rad

WriteSkip ==
  /\ Readable
  /\ write_counter + 1 < WRITE_MULTIPLICITY
  /\ write_counter' = write_counter + 1
  /\ UNCHANGED <<controllerVars, busVars, lifecycle, pc, steering_controller, read_counter,
                 hw_command, motor_count_offset, historyVars>>

WriteTarget ==
  /\ Readable
  /\ write_counter + 1 >= WRITE_MULTIPLICITY
  /\ write_counter' = 0
  /\ IF hw_command = NaN THEN UNCHANGED busVars
     ELSE CycleWrite(RadToMotorCounts(Clamp(hw_command)) + motor_count_offset)
  /\ UNCHANGED <<controllerVars, lifecycle, pc, steering_controller, read_counter,
                 hw_command, motor_count_offset, historyVars>>

(* A controller writes to the command interface while the component is     *)
(* ACTIVE.                                                                 *)
Command ==
  /\ lifecycle = "active" /\ pc = "idle"
  /\ hw_command' \in Commands
  /\ UNCHANGED <<controllerVars, busVars, lifecycle, pc, steering_controller, read_counter,
                 write_counter, motor_count_offset, historyVars>>

-----------------------------------------------------------------------------
Configuring ==
  \/ ConfigureReset
  \/ ConfigurePreOp
  \/ ConfigurePdos
  \/ ConfigureControlWord
  \/ ConfigureStart
  \/ ConfigureDone
  \/ ConfigureFails

Activating ==
  \/ ActivateUpdate
  \/ ActivateAgain
  \/ ActivateFails
  \/ ActivateSucceeds

Reading == ReadUpdate \/ ReadError

ControllerManager ==
  \/ OnConfigure \/ Configuring
  \/ OnActivate \/ Activating
  \/ OnDeactivate
  \/ OnCleanup
  \/ ReadSkip \/ ReadReceive \/ Reading
  \/ WriteSkip \/ WriteTarget
  \/ Command

Next ==
  \/ ControllerManager
  \/ BusNext /\ UNCHANGED <<controllerVars, lifecycle, pc, hardwareVars, historyVars>>

Spec == Init /\ [][Next]_vars

(* The manager's loop keeps calling read() between lifecycle calls, every  *)
(* callback that has started proceeds, and the clock reaches the deadline  *)
(* of on_activate().                                                       *)
Fairness ==
  /\ SF_vars(ReadSkip \/ ReadReceive)
  /\ WF_vars(Reading)
  /\ WF_vars(Configuring)
  /\ WF_vars(Activating)
  /\ SF_vars(ActivateFails)

FairSpec == Spec /\ Fairness

(* A StatusWord of the drive reaches the socket. *)
StatusArrives ==
  DriveReportsStatus /\ UNCHANGED <<controllerVars, lifecycle, pc, hardwareVars, historyVars>>

-----------------------------------------------------------------------------
(* read(), write() and on_activate() use steering_controller_ unguarded    *)
(* (system_steering_hardware.cpp:247, :328, :356): whenever they may run,  *)
(* it is there, whatever happened to the callbacks before.                 *)
ControllerPresent ==
  lifecycle # "unconfigured" \/ pc # "idle" => steering_controller

(* A drive that was shut down stays without torque until the component is  *)
(* configured again, although read() goes on running tick_ds402(), which   *)
(* would take a drive out of QUICK_STOP and back to OPERATION_ENABLED      *)
(* (steering_controller.cpp:56-60, motor_driver.cpp:257-260).              *)
StaysStopped ==
  [][halted /\ halted' /\ power # "OPERATION_ENABLED" => power' # "OPERATION_ENABLED"]_vars

(* Once on_activate() has read the truth, every target the drive takes is  *)
(* the motor count at which the column really is at the commanded, clamped *)
(* angle: whatever the motor encoder's origin, and also when the drive     *)
(* restarts meanwhile (system_steering_hardware.cpp:268-270 and :354-357). *)
AimsAtCommand ==
  [][anchored /\ lifecycle = "active" /\ setpoint' # setpoint
       => setpoint' = RadToMotorCounts(Clamp(hw_command)) + bias]_vars

(* After on_deactivate() the link stays closed, and the watchdog takes the *)
(* component down to UNCONFIGURED, however often it is activated again     *)
(* meanwhile: it cannot stay ACTIVE over a dead link (canopen_driver.cpp:  *)
(* 41-44, system_steering_hardware.cpp:330-336).                           *)
ClosedLinkTornDown ==
  (lifecycle # "unconfigured" /\ ~sock) ~> lifecycle = "unconfigured"

(* So does a drive that has left OPERATIONAL for good. *)
DeadDriveTornDown ==
  <>[](drive_nmt # "OPERATIONAL") => []<>(lifecycle = "unconfigured")

(* If of the StatusWords a drive sends again and again one arrives in the  *)
(* end, a drive in FAULT takes the component out of ACTIVE, whatever the   *)
(* frames in the socket said before, and although read() sends it a        *)
(* FAULT_RESET in the very cycle that reports it (motor_driver.cpp:        *)
(* 234-237, system_steering_hardware.cpp:328-337).                         *)
FaultEndsActive ==
  SF_vars(StatusArrives)
    => ((lifecycle = "active" /\ power = "FAULT") ~> lifecycle # "active")

-----------------------------------------------------------------------------
(* The abstract component: its phase is that of the manager, but for a     *)
(* configuration under way.                                                *)
Lifecycle == INSTANCE SteeringLifecycle WITH
  phase  <- IF pc \in ConfigureStage THEN "configuring" ELSE lifecycle,
  link   <- sock,
  torque <- power = "OPERATION_ENABLED",
  target <- setpoint

(* No interleaving of callbacks, frames and mishaps gives the drive torque *)
(* or a target over a closed link, opens the link outside on_configure()   *)
(* or leaves it open after on_deactivate() or on_error()                   *)
(* (system_steering_hardware.cpp:184-206, :289-315).                       *)
ImplementsLifecycle == Lifecycle!Spec

-----------------------------------------------------------------------------
(* What a comment of the repository says and the code does not do.         *)

(* system_steering_hardware.hpp:125-127: the offset that write() applies   *)
(* was computed by on_activate() from the initial reading.  write() also   *)
(* runs in INACTIVE, with the offset and command of an earlier activation. *)
TargetsUseFreshOffset ==
  [][anchored /\ lifecycle = "inactive" /\ setpoint' # setpoint
       => setpoint' = RadToMotorCounts(Clamp(hw_command)) + bias]_vars

=============================================================================
