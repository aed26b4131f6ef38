-------------------- MODULE SystemSteeringHardwareProofs --------------------
(***************************************************************************)
(* What holds of the steering hardware for every timing, multiplicity,     *)
(* calibration and set of mishaps.                                         *)
(***************************************************************************)
EXTENDS LinkTeardown, TLAPS

(* A configuration under way has left UNCONFIGURED behind only in pc. *)
ConfiguresUnconfigured == pc \in ConfigureStage => lifecycle = "unconfigured"

(* What the program stopped it also disconnected. *)
HaltedDisconnected == halted => sock = FALSE

ControlInv == ControllerPresent /\ ConfiguresUnconfigured /\ HaltedDisconnected

-----------------------------------------------------------------------------
LEMMA InitControl == Init => ControlInv
  BY DEF Init, BusInit, LinkDown, ControlInv, ControllerPresent, ConfiguresUnconfigured,
         HaltedDisconnected, ConfigureStage

(* No step of the bus opens or closes the socket. *)
LEMMA BusKeepsSocket == BusNext => sock' = sock
  BY DEF BusNext, DriveReportsStatus, DriveReportsPosition, SensorReports, DriveAnswersGuard,
         DriveFaults, DriveComesToRest, DriveLosesPower, DriveBoots, ColumnTurns, linkVars

LEMMA ConfiguringControl == ControlInv /\ Configuring => ControlInv'
  <1> SUFFICES ASSUME ControlInv, Configuring PROVE ControlInv'
    OBVIOUS
  <1> USE DEF ControlInv, ControllerPresent, ConfiguresUnconfigured, HaltedDisconnected,
              ConfigureStage, ConfigureFrame, hardwareVars, linkVars
  <1>1. CASE ConfigureReset
    BY <1>1 DEF ConfigureReset
  <1>2. CASE ConfigurePreOp
    BY <1>2 DEF ConfigurePreOp
  <1>3. CASE ConfigurePdos
    BY <1>3 DEF ConfigurePdos
  <1>4. CASE ConfigureControlWord
    BY <1>4 DEF ConfigureControlWord
  <1>5. CASE ConfigureStart
    BY <1>5 DEF ConfigureStart
  <1>6. CASE ConfigureDone
    BY <1>6 DEF ConfigureDone
  <1>7. CASE ConfigureFails
    BY <1>7 DEF ConfigureFails, CloseSocket, SetSocket, DropController
  <1> QED
    BY <1>1, <1>2, <1>3, <1>4, <1>5, <1>6, <1>7 DEF Configuring

LEMMA ActivatingControl == ControlInv /\ (OnActivate \/ Activating) => ControlInv'
  <1> SUFFICES ASSUME ControlInv, OnActivate \/ Activating PROVE ControlInv'
    OBVIOUS
  <1> USE DEF ControlInv, ControllerPresent, ConfiguresUnconfigured, HaltedDisconnected,
              ConfigureStage, hardwareVars, historyVars
  <1>1. CASE OnActivate
    BY <1>1 DEF OnActivate, Receive
  <1>2. CASE ActivateUpdate
    BY <1>2 DEF ActivateUpdate, UpdateDrivers
  <1>3. CASE ActivateAgain
    BY <1>3 DEF ActivateAgain, Receive
  <1>4. CASE ActivateFails
    BY <1>4 DEF ActivateFails, busVars, linkVars
  <1>5. CASE ActivateSucceeds
    BY <1>5 DEF ActivateSucceeds, busVars, linkVars
  <1> QED
    BY <1>1, <1>2, <1>3, <1>4, <1>5 DEF Activating

LEMMA CyclicControl ==
  ControlInv /\ (ReadSkip \/ ReadReceive \/ Reading \/ WriteSkip \/ WriteTarget \/ Command)
    => ControlInv'
  <1> SUFFICES ASSUME ControlInv,
                      ReadSkip \/ ReadReceive \/ Reading \/ WriteSkip \/ WriteTarget \/ Command
               PROVE  ControlInv'
    OBVIOUS
  <1> USE DEF ControlInv, ControllerPresent, ConfiguresUnconfigured, HaltedDisconnected,
              ConfigureStage, hardwareVars, historyVars, busVars, linkVars
  <1>1. CASE ReadSkip
    BY <1>1 DEF ReadSkip
  <1>2. CASE ReadReceive
    BY <1>2 DEF ReadReceive, Readable, Receive
  <1>3. CASE ReadUpdate
    BY <1>3 DEF ReadUpdate, UpdateDrivers
  <1>4. CASE ReadError
    BY <1>4 DEF ReadError, OnError, Shutdown, CloseSocket, SetSocket, DropController
  <1>5. CASE WriteSkip
    BY <1>5 DEF WriteSkip
  <1>6. CASE WriteTarget
    BY <1>6 DEF WriteTarget, CycleWrite
  <1>7. CASE Command
    BY <1>7 DEF Command
  <1> QED
    BY <1>1, <1>2, <1>3, <1>4, <1>5, <1>6, <1>7 DEF Reading

LEMMA NextControl == ControlInv /\ [Next]_vars => ControlInv'
  <1> SUFFICES ASSUME ControlInv, [Next]_vars PROVE ControlInv'
    OBVIOUS
  <1> USE DEF ControlInv, ControllerPresent, ConfiguresUnconfigured, HaltedDisconnected,
              ConfigureStage, hardwareVars, historyVars
  <1>1. CASE OnConfigure
    BY <1>1 DEF OnConfigure
  <1>2. CASE OnDeactivate
    BY <1>2 DEF OnDeactivate, Shutdown, CloseSocket, SetSocket
  <1>3. CASE OnCleanup
    BY <1>3 DEF OnCleanup, busVars, linkVars
  <1>4. CASE BusNext /\ UNCHANGED <<controllerVars, lifecycle, pc, hardwareVars, historyVars>>
    BY <1>4, BusKeepsSocket
  <1>5. CASE UNCHANGED vars
    BY <1>5 DEF vars, busVars, linkVars
  <1> QED
    BY <1>1, <1>2, <1>3, <1>4, <1>5, ConfiguringControl, ActivatingControl, CyclicControl
    DEF Next, ControllerManager

LEMMA ControlInvariant == Spec => []ControlInv
  BY InitControl, NextControl, PTL DEF Spec

(* read(), write() and on_activate() never meet a null controller          *)
(* (system_steering_hardware.cpp:247, :328, :356).                         *)
THEOREM ControllerIsPresent == Spec => []ControllerPresent
  <1>1. ControlInv => ControllerPresent
    BY DEF ControlInv
  <1> QED BY ControlInvariant, <1>1, PTL

-----------------------------------------------------------------------------
(* Over a closed socket no control word reaches the drive, *)
LEMMA ClosedSocketIsSilent ==
  ASSUME NEW cw, sock = FALSE, WriteRpdo1(cw) \/ WriteSdoControlWord(cw)
  PROVE  power' = power
  BY DEF WriteRpdo1, WriteSdoControlWord

(* and by itself the drive never goes to OPERATION_ENABLED. *)
LEMMA BusStaysStopped ==
  BusNext /\ power # "OPERATION_ENABLED" => power' # "OPERATION_ENABLED"
  BY DEF BusNext, DriveReportsStatus, DriveReportsPosition, SensorReports, DriveAnswersGuard,
         DriveFaults, DriveComesToRest, DriveLosesPower, DriveBoots, ColumnTurns, driveVars

(* The cyclic steps that may send a control word send it through a closed  *)
(* socket; the others leave the power stage alone.                         *)
LEMMA HaltedStepStaysStopped ==
  ControlInv /\ Next /\ halted /\ halted' /\ power # "OPERATION_ENABLED"
    => power' # "OPERATION_ENABLED"
  <1> SUFFICES ASSUME ControlInv, Next, halted, halted', power # "OPERATION_ENABLED"
               PROVE  power' # "OPERATION_ENABLED"
    OBVIOUS
  <1>1. sock = FALSE
    BY DEF ControlInv, HaltedDisconnected
  <1>2. ASSUME NEW dt, UpdateDrivers(dt) PROVE power' = power
    BY <1>1, <1>2, ClosedSocketIsSilent DEF UpdateDrivers, MotorUpdate, TickDs402
  <1>3. ASSUME Shutdown PROVE power' = power
    BY <1>1, <1>3, ClosedSocketIsSilent DEF Shutdown
  <1>4. ASSUME Configuring PROVE power' = power
    <2>1. CASE ConfigureControlWord
      BY <1>1, <2>1, ClosedSocketIsSilent DEF ConfigureControlWord
    <2>2. CASE ConfigureFails
      BY <2>2 DEF ConfigureFails, driveVars
    <2> QED
      BY <1>4, <2>1, <2>2 DEF Configuring, ConfigureReset, ConfigurePreOp, ConfigurePdos,
                              ConfigureStart, ConfigureDone
  <1>5. ASSUME OnActivate \/ Activating PROVE power' = power
    BY <1>2, <1>5 DEF Activating, OnActivate, ActivateUpdate, ActivateAgain, ActivateFails,
                      ActivateSucceeds, Receive, driveVars, busVars
  <1>6. ASSUME ReadSkip \/ ReadReceive \/ Reading PROVE power' = power
    BY <1>2, <1>3, <1>6 DEF Reading, ReadSkip, ReadReceive, ReadUpdate, ReadError, OnError,
                            Receive, driveVars, busVars
  <1>7. ASSUME WriteSkip \/ WriteTarget \/ Command PROVE power' = power
    BY <1>7 DEF WriteSkip, WriteTarget, CycleWrite, Command, driveVars, busVars
  <1>8. ASSUME OnConfigure \/ OnDeactivate \/ OnCleanup PROVE power' = power
    BY <1>3, <1>8 DEF OnConfigure, OnDeactivate, OnCleanup, driveVars, busVars
  <1> QED
    BY <1>4, <1>5, <1>6, <1>7, <1>8, BusStaysStopped DEF Next, ControllerManager

(* A drive that was shut down stays without torque until the next          *)
(* configuration, whatever read() goes on doing (steering_controller.cpp:  *)
(* 56-60, motor_driver.cpp:257-260).                                       *)
THEOREM StoppedDriveStaysStopped == Spec => StaysStopped
  <1>1. ControlInv /\ [Next]_vars
          => [halted /\ halted' /\ power # "OPERATION_ENABLED"
                => power' # "OPERATION_ENABLED"]_vars
    BY HaltedStepStaysStopped
  <1> QED BY ControlInvariant, <1>1, PTL DEF Spec, StaysStopped

-----------------------------------------------------------------------------
(* The calibration maps stay within the integers, and the map of the       *)
(* feedback undoes the sensor.                                             *)
LEMMA CountsType == \A rad \in Int : RadToMotorCounts(rad) \in Int
  BY CalibrationAssumption DEF RadToMotorCounts

LEMMA FeedbackType == \A raw \in Int : FeedbackToRad(raw) \in Int
  <1> SUFFICES ASSUME NEW raw \in Int PROVE FeedbackToRad(raw) \in Int
    OBVIOUS
  <1>1. CASE RAD_PER_UNIT = 1
    BY <1>1, CalibrationAssumption DEF FeedbackToRad
  <1>2. CASE RAD_PER_UNIT = -1
    BY <1>2, CalibrationAssumption DEF FeedbackToRad
  <1> QED BY <1>1, <1>2, CalibrationAssumption

LEMMA FeedbackUndoesSensor ==
  \A rad \in Int : SensorValue(rad) \in Int /\ FeedbackToRad(SensorValue(rad)) = rad
  <1> SUFFICES ASSUME NEW rad \in Int
               PROVE  SensorValue(rad) \in Int /\ FeedbackToRad(SensorValue(rad)) = rad
    OBVIOUS
  <1>0. FEEDBACK_ZERO \in Int
    BY CalibrationAssumption
  <1>1. CASE RAD_PER_UNIT = 1
    <2>1. SensorValue(rad) = FEEDBACK_ZERO + rad
      BY <1>0, <1>1 DEF SensorValue
    <2> QED BY <1>0, <1>1, <2>1 DEF FeedbackToRad
  <1>2. CASE RAD_PER_UNIT = -1
    <2>1. SensorValue(rad) = FEEDBACK_ZERO - rad
      BY <1>0, <1>2 DEF SensorValue
    <2>2. FeedbackToRad(SensorValue(rad)) = (FEEDBACK_ZERO - rad - FEEDBACK_ZERO) * (-1)
      BY <1>2, <2>1 DEF FeedbackToRad
    <2> QED BY <1>0, <2>1, <2>2
  <1> QED BY <1>1, <1>2, CalibrationAssumption

LEMMA ClampType == \A rad \in Int : Clamp(rad) \in Int
  BY HardwareAssumption DEF Clamp

(* The power stage stays within the CiA 402 states. *)
LEMMA PowerType ==
  ASSUME NEW cw, power \in PowerState
  PROVE  AfterControlWord(cw) \in PowerState
  BY DEF AfterControlWord, PowerState

-----------------------------------------------------------------------------
LEMMA InitType == Init => TypeOK
  <1> SUFFICES ASSUME Init PROVE TypeOK
    OBVIOUS
  <1> USE DEF Init, BusInit, LinkDown, ControllerInit, MotorInit, NodeInit
  <1>1. setpoint \in Int
    BY CalibrationAssumption, CountsType DEF MotorCounts
  <1>2. NodeTypeOK
    BY TimersAssumption DEF NodeTypeOK, NmtState
  <1>3. MotorTypeOK
    BY <1>2, Ds402Assumption DEF MotorTypeOK, DriveState
  <1>4. BusTypeOK
    BY <1>1, CalibrationAssumption DEF BusTypeOK, PowerState
  <1>5. {steering_controller, halted, anchored} \subseteq BOOLEAN
    BY Zenon
  <1>6. raw_position \in Int /\ read_counter \in Int /\ write_counter \in Int
    OBVIOUS
  <1> QED BY <1>3, <1>4, <1>5, <1>6, Zenon DEF TypeOK, ControllerTypeOK, ProgramCounter

(* A drained frame, an update and a new controller are well typed. *)
LEMMA NewControllerType == NewController => ControllerTypeOK'
  <1> SUFFICES ASSUME NewController PROVE ControllerTypeOK'
    OBVIOUS
  <1> QED
    BY TimersAssumption, Ds402Assumption
    DEF NewController, NewMotor, ControllerTypeOK, MotorTypeOK, NodeTypeOK, NmtState, DriveState

LEMMA ReceiveType ==
  ASSUME TypeOK, Receive
  PROVE  ControllerTypeOK' /\ BusTypeOK'
  <1> USE DEF TypeOK, ControllerTypeOK, MotorTypeOK, NodeTypeOK, BusTypeOK, Receive
  <1>1. NodeTypeOK'
    BY TimersAssumption DEF ProcessFrames, ProcessNmtHeartbeat, NmtState, nodeVars
  <1>2. drive_state' \in DriveState
    BY DEF ProcessFrames, Decoded
  <1>3. actual_position' \in Int /\ raw_position' \in Int /\ UNCHANGED ds402_interval
    BY DEF ProcessFrames
  <1>4. BusTypeOK'
    BY DEF driveVars, columnVars
  <1> QED BY <1>1, <1>2, <1>3, <1>4

LEMMA UpdateType ==
  ASSUME TypeOK, NEW dt \in Nat \ {0}, UpdateDrivers(dt)
  PROVE  ControllerTypeOK' /\ BusTypeOK'
  <1> USE DEF TypeOK, ControllerTypeOK, MotorTypeOK, NodeTypeOK, BusTypeOK, UpdateDrivers,
              MotorUpdate
  <1>1. NodeTypeOK'
    BY TimersAssumption DEF Update, NodeguardDue, SaturatedWatchdog, NmtState
  <1>2. ds402_interval' \in 0..(DS402_MIN_INTERVAL - 1)
    BY Ds402Assumption DEF TickDs402
  <1>3. power' \in PowerState
    BY PowerType DEF TickDs402, WriteRpdo1
  <1>4. rtr' \in BOOLEAN
    BY Zenon
  <1> QED BY <1>1, <1>2, <1>3, <1>4 DEF columnVars

LEMMA ShutdownType ==
  ASSUME TypeOK, Shutdown
  PROVE  BusTypeOK'
  <1>1. power' \in PowerState
    BY PowerType DEF TypeOK, BusTypeOK, Shutdown, WriteRpdo1
  <1> QED BY <1>1 DEF TypeOK, BusTypeOK, Shutdown, CloseSocket, SetSocket, columnVars

LEMMA BusType == TypeOK /\ BusNext => BusTypeOK'
  <1> SUFFICES ASSUME TypeOK, BusNext PROVE BusTypeOK'
    OBVIOUS
  <1> USE DEF TypeOK, BusTypeOK, linkVars, driveVars, columnVars
  <1>1. angle \in Int /\ RadToMotorCounts(angle) \in Int /\ SensorValue(angle) \in Int
    BY CalibrationAssumption, CountsType, FeedbackUndoesSensor
  <1>2. CASE DriveReportsStatus
    BY <1>2 DEF DriveReportsStatus
  <1>3. CASE DriveReportsPosition
    BY <1>1, <1>3 DEF DriveReportsPosition, MotorCounts
  <1>4. CASE SensorReports
    BY <1>1, <1>4 DEF SensorReports
  <1>5. CASE DriveAnswersGuard
    BY <1>5 DEF DriveAnswersGuard
  <1>6. CASE DriveFaults
    BY <1>6 DEF DriveFaults, PowerState
  <1>7. CASE DriveComesToRest
    BY <1>7 DEF DriveComesToRest, PowerState
  <1>8. CASE DriveLosesPower
    BY <1>8 DEF DriveLosesPower, PowerState, DriveNmt
  <1>9. CASE DriveBoots
    BY <1>1, <1>9 DEF DriveBoots, DriveNmt
  <1>10. CASE ColumnTurns
    BY <1>10 DEF ColumnTurns
  <1> QED
    BY <1>2, <1>3, <1>4, <1>5, <1>6, <1>7, <1>8, <1>9, <1>10 DEF BusNext

(* The Booleans that dropping the controller and moving the socket set.    *)
LEMMA DropBooleans == DropController => steering_controller' \in BOOLEAN /\ halted' \in BOOLEAN
  BY Zenon DEF DropController

LEMMA SocketBooleans ==
  ASSUME NEW open \in BOOLEAN, SetSocket(open)
  PROVE  sock' \in BOOLEAN /\ sync' \in BOOLEAN /\ rtr' \in BOOLEAN
  BY Zenon DEF SetSocket

LEMMA ConfigureFailsType == TypeOK /\ ConfigureFails => TypeOK'
  <1> SUFFICES ASSUME TypeOK, ConfigureFails PROVE TypeOK'
    OBVIOUS
  <1>1. sock' \in BOOLEAN /\ sync' \in BOOLEAN /\ rtr' \in BOOLEAN
    BY SocketBooleans DEF ConfigureFails, CloseSocket
  <1>2. BusTypeOK'
    BY <1>1
    DEF ConfigureFails, CloseSocket, SetSocket, TypeOK, BusTypeOK, driveVars, columnVars
  <1>3. ControllerTypeOK'
    BY NewControllerType DEF ConfigureFails, DropController
  <1>4. DropController
    BY DEF ConfigureFails
  <1> QED
    BY <1>2, <1>3, <1>4, DropBooleans, SMT DEF DropController, TypeOK, ProgramCounter

LEMMA ConfiguringType == TypeOK /\ Configuring => TypeOK'
  <1> SUFFICES ASSUME TypeOK, Configuring PROVE TypeOK'
    OBVIOUS
  <1> USE DEF TypeOK, ControllerTypeOK, MotorTypeOK, NodeTypeOK, BusTypeOK, ConfigureFrame,
              linkVars, driveVars, columnVars, controllerVars, motorVars, nodeVars, hardwareVars, historyVars, ConfigureStage, ProgramCounter
  <1>1. CASE ConfigureReset
    BY <1>1 DEF ConfigureReset, WriteNmt, DriveNmt
  <1>2. CASE ConfigurePreOp
    BY <1>2 DEF ConfigurePreOp, WriteNmt, DriveNmt, NmtState
  <1>3. CASE ConfigurePdos
    BY <1>3 DEF ConfigurePdos
  <1>4. CASE ConfigureControlWord
    <2>1. power' \in PowerState
      BY <1>4, PowerType DEF ConfigureControlWord, WriteSdoControlWord
    <2> QED BY <1>4, <2>1 DEF ConfigureControlWord
  <1>5. CASE ConfigureStart
    BY <1>5, TimersAssumption DEF ConfigureStart, WriteNmt, DriveNmt, StartOptimistic, NmtState
  <1>6. CASE ConfigureDone
    BY <1>6 DEF ConfigureDone
  <1>7. CASE ConfigureFails
    BY <1>7, ConfigureFailsType
  <1> QED
    BY <1>1, <1>2, <1>3, <1>4, <1>5, <1>6, <1>7 DEF Configuring

LEMMA ActivatingType == TypeOK /\ (OnActivate \/ Activating) => TypeOK'
  <1> SUFFICES ASSUME TypeOK, OnActivate \/ Activating PROVE TypeOK'
    OBVIOUS
  <1> USE DEF hardwareVars, historyVars, ProgramCounter
  <1>1. CASE OnActivate
    BY <1>1, ReceiveType DEF TypeOK, OnActivate
  <1>2. CASE ActivateUpdate
    BY <1>2, UpdateType, HardwareAssumption DEF TypeOK, ActivateUpdate
  <1>3. CASE ActivateAgain
    BY <1>3, ReceiveType DEF TypeOK, ActivateAgain
  <1>4. CASE ActivateFails
    BY <1>4
    DEF TypeOK, ControllerTypeOK, MotorTypeOK, NodeTypeOK, BusTypeOK, ActivateFails,
        busVars, linkVars, driveVars, columnVars, controllerVars, motorVars, nodeVars
  <1>5. CASE ActivateSucceeds
    <2>1. ControllerTypeOK' /\ BusTypeOK'
      BY <1>5
      DEF TypeOK, ControllerTypeOK, MotorTypeOK, NodeTypeOK, BusTypeOK, ActivateSucceeds,
          busVars, linkVars, driveVars, columnVars, controllerVars, motorVars, nodeVars
    <2>2. /\ FeedbackToRad(raw_position) \in Int
          /\ RadToMotorCounts(FeedbackToRad(raw_position)) \in Int
          /\ actual_position \in Int
      BY FeedbackType, CountsType DEF TypeOK, ControllerTypeOK, MotorTypeOK
    <2>3. /\ motor_count_offset' \in Int /\ hw_command' \in Int \cup {NaN}
          /\ read_counter' \in Int /\ write_counter' \in Int
      BY <1>5, <2>2, HardwareAssumption DEF TypeOK, ActivateSucceeds
    <2>4. anchored' \in BOOLEAN
      BY <1>5, Zenon DEF ActivateSucceeds
    <2> QED BY <1>5, <2>1, <2>3, <2>4 DEF TypeOK, ActivateSucceeds
  <1> QED
    BY <1>1, <1>2, <1>3, <1>4, <1>5 DEF Activating

LEMMA CyclicType ==
  TypeOK /\ (ReadSkip \/ ReadReceive \/ Reading \/ WriteSkip \/ WriteTarget \/ Command)
    => TypeOK'
  <1> SUFFICES ASSUME TypeOK,
                      ReadSkip \/ ReadReceive \/ Reading \/ WriteSkip \/ WriteTarget \/ Command
               PROVE  TypeOK'
    OBVIOUS
  <1> USE DEF hardwareVars, historyVars, ProgramCounter
  <1>1. ASSUME UNCHANGED controllerVars PROVE ControllerTypeOK'
    BY <1>1 DEF TypeOK, ControllerTypeOK, MotorTypeOK, NodeTypeOK, controllerVars, motorVars,
                nodeVars
  <1>2. ASSUME UNCHANGED busVars PROVE BusTypeOK'
    BY <1>2 DEF TypeOK, BusTypeOK, busVars, linkVars, driveVars, columnVars
  <1>3. CASE ReadSkip
    BY <1>1, <1>2, <1>3 DEF TypeOK, ReadSkip
  <1>4. CASE ReadReceive
    BY <1>4, ReceiveType DEF TypeOK, ReadReceive
  <1>5. CASE ReadUpdate
    BY <1>5, UpdateType DEF TypeOK, ReadUpdate
  <1>6. CASE ReadError
    BY <1>6, ShutdownType, NewControllerType, DropBooleans DEF TypeOK, ReadError, OnError, DropController
  <1>7. CASE WriteSkip
    BY <1>1, <1>2, <1>7 DEF TypeOK, WriteSkip
  <1>8. CASE WriteTarget
    <2>1. BusTypeOK'
      <3>1. CASE hw_command = NaN
        BY <1>2, <1>8, <3>1 DEF WriteTarget
      <3>2. CASE hw_command # NaN
        <4> DEFINE target == RadToMotorCounts(Clamp(hw_command)) + motor_count_offset
        <4>1. target \in Int
          <5>1. hw_command \in Int /\ motor_count_offset \in Int
            BY <3>2 DEF TypeOK
          <5> QED BY <5>1, ClampType, CountsType
        <4>2. CycleWrite(target)
          BY <1>8, <3>2 DEF WriteTarget
        <4> HIDE DEF target
        <4> QED
          BY <4>1, <4>2
          DEF TypeOK, BusTypeOK, CycleWrite, WriteRpdo21, linkVars, columnVars
      <3> QED BY <3>1, <3>2
    <2> QED BY <1>1, <1>8, <2>1 DEF TypeOK, WriteTarget
  <1>9. CASE Command
    BY <1>1, <1>2, <1>9, HardwareAssumption DEF TypeOK, Command
  <1> QED
    BY <1>3, <1>4, <1>5, <1>6, <1>7, <1>8, <1>9 DEF Reading

LEMMA NextType == TypeOK /\ [Next]_vars => TypeOK'
  <1> SUFFICES ASSUME TypeOK, [Next]_vars PROVE TypeOK'
    OBVIOUS
  <1> USE DEF hardwareVars, historyVars, ProgramCounter, ConfigureStage
  <1>1. ASSUME UNCHANGED controllerVars PROVE ControllerTypeOK'
    BY <1>1 DEF TypeOK, ControllerTypeOK, MotorTypeOK, NodeTypeOK, controllerVars, motorVars,
                nodeVars
  <1>2. ASSUME UNCHANGED busVars PROVE BusTypeOK'
    BY <1>2 DEF TypeOK, BusTypeOK, busVars, linkVars, driveVars, columnVars
  <1>3. CASE OnConfigure
    <2> USE <1>3 DEF OnConfigure
    <2>0. steering_controller' \in BOOLEAN /\ halted' \in BOOLEAN
      BY Zenon
    <2>1. ControllerTypeOK'
      BY NewControllerType
    <2>2. BusTypeOK'
      BY SocketBooleans DEF OpenSocket, SetSocket, TypeOK, BusTypeOK, driveVars, columnVars
    <2> QED BY <2>0, <2>1, <2>2 DEF TypeOK
  <1>4. CASE OnDeactivate
    BY <1>1, <1>4, ShutdownType DEF OnDeactivate, TypeOK
  <1>5. CASE OnCleanup
    BY <1>1, <1>2, <1>5 DEF OnCleanup, TypeOK
  <1>6. CASE BusNext /\ UNCHANGED <<controllerVars, lifecycle, pc, hardwareVars, historyVars>>
    BY <1>1, <1>6, BusType DEF TypeOK
  <1>7. CASE UNCHANGED vars
    BY <1>1, <1>2, <1>7 DEF TypeOK, vars
  <1> QED
    BY <1>3, <1>4, <1>5, <1>6, <1>7, ConfiguringType, ActivatingType, CyclicType DEF Next, ControllerManager

(* The specification keeps the types of its variables. *)
THEOREM TypeCorrect == Spec => []TypeOK
  BY InitType, NextType, PTL DEF Spec

-----------------------------------------------------------------------------
(* While the component is ACTIVE and the drive takes RPDOs, the offset is  *)
(* the bias it was computed from: the bias changes only when the drive     *)
(* boots, and then only a configuration makes it OPERATIONAL again.        *)
OffsetIsBias ==
  lifecycle = "active" /\ anchored /\ drive_nmt = "OPERATIONAL" => motor_count_offset = bias

AimInv == TypeOK /\ ControlInv /\ OffsetIsBias

LEMMA ActivationOffset ==
  TypeOK /\ ActivateSucceeds /\ anchored' => motor_count_offset' = bias
  <1> SUFFICES ASSUME TypeOK, ActivateSucceeds, anchored' PROVE motor_count_offset' = bias
    OBVIOUS
  <1>1. angle \in Int /\ bias \in Int
    BY CalibrationAssumption DEF TypeOK, BusTypeOK
  <1>2. raw_position = SensorValue(angle) /\ actual_position = MotorCounts
    BY DEF ActivateSucceeds
  <1>3. FeedbackToRad(raw_position) = angle
    BY <1>1, <1>2, FeedbackUndoesSensor
  <1>4. motor_count_offset' = actual_position - RadToMotorCounts(FeedbackToRad(raw_position))
    BY Zenon DEF ActivateSucceeds
  <1>5. RadToMotorCounts(FeedbackToRad(raw_position)) = RadToMotorCounts(angle)
    BY <1>3
  <1>6. actual_position = RadToMotorCounts(angle) + bias
    BY <1>2 DEF MotorCounts
  <1> QED
    BY <1>1, <1>4, <1>5, <1>6, CountsType

(* Every other step of the component keeps what OffsetIsBias speaks of, or *)
(* is not taken while ACTIVE.                                              *)
LEMMA HostKeepsOffset ==
  ControlInv /\ ControllerManager /\ ~ActivateSucceeds
    => \/ lifecycle' # "active"
       \/ UNCHANGED <<lifecycle, anchored, drive_nmt, motor_count_offset, bias>>
  <1> SUFFICES ASSUME ControlInv, ControllerManager, ~ActivateSucceeds
               PROVE  \/ lifecycle' # "active"
                      \/ UNCHANGED <<lifecycle, anchored, drive_nmt, motor_count_offset, bias>>
    OBVIOUS
  <1> USE DEF busVars, driveVars, columnVars, hardwareVars, historyVars, ConfigureFrame
  <1>1. CASE OnConfigure \/ OnDeactivate \/ OnCleanup
    BY <1>1 DEF OnConfigure, OnDeactivate, OnCleanup
  <1>2. CASE Configuring
    <2>1. ConfigureControlWord => pc \in ConfigureStage
      BY DEF ConfigureControlWord, ConfigureStage
    <2>2. pc \in ConfigureStage
      BY <1>2, <2>1
      DEF Configuring, ConfigureReset, ConfigurePreOp, ConfigurePdos, ConfigureStart,
          ConfigureDone, ConfigureFails, ConfigureStage
    <2>3. lifecycle = "unconfigured"
      BY <2>2 DEF ControlInv, ConfiguresUnconfigured
    <2> QED
      BY <1>2, <2>3
      DEF Configuring, ConfigureReset, ConfigurePreOp, ConfigurePdos, ConfigureControlWord,
          ConfigureStart, ConfigureDone, ConfigureFails, DropController
  <1>3. CASE OnActivate \/ Activating
    BY <1>3 DEF OnActivate, Activating, ActivateUpdate, ActivateAgain, ActivateFails, Receive,
                UpdateDrivers
  <1>4. CASE ReadSkip \/ ReadReceive \/ Reading
    BY <1>4 DEF ReadSkip, ReadReceive, Reading, ReadUpdate, ReadError, OnError, DropController,
                Receive, UpdateDrivers
  <1>5. CASE WriteSkip \/ WriteTarget \/ Command
    BY <1>5 DEF WriteSkip, WriteTarget, CycleWrite, Command
  <1> QED
    BY <1>1, <1>2, <1>3, <1>4, <1>5 DEF ControllerManager

LEMMA NextAim == AimInv /\ [Next]_vars => AimInv'
  <1> SUFFICES ASSUME AimInv, [Next]_vars PROVE OffsetIsBias'
    BY NextType, NextControl DEF AimInv
  <1> USE DEF AimInv, OffsetIsBias
  <1>1. CASE ActivateSucceeds
    BY <1>1, ActivationOffset DEF ActivateSucceeds, busVars, columnVars
  <1>2. CASE BusNext /\ UNCHANGED <<controllerVars, lifecycle, pc, hardwareVars, historyVars>>
    <2>1. drive_nmt' # "OPERATIONAL" \/ UNCHANGED <<drive_nmt, bias>>
      BY <1>2 DEF BusNext, DriveReportsStatus, DriveReportsPosition, SensorReports,
                  DriveAnswersGuard, DriveFaults, DriveComesToRest, DriveLosesPower, DriveBoots,
                  ColumnTurns, driveVars, columnVars
    <2> QED BY <1>2, <2>1 DEF hardwareVars, historyVars
  <1>3. CASE ControllerManager /\ ~ActivateSucceeds
    BY <1>3, HostKeepsOffset
  <1>4. CASE UNCHANGED vars
    BY <1>4 DEF vars, busVars, driveVars, columnVars, hardwareVars, historyVars
  <1> QED BY <1>1, <1>2, <1>3, <1>4 DEF Next

LEMMA AimInvariant == Spec => []AimInv
  <1>1. Init => OffsetIsBias
    BY DEF Init, OffsetIsBias
  <1>2. Init => AimInv
    BY <1>1, InitType, InitControl DEF AimInv
  <1> QED BY <1>2, NextAim, PTL DEF Spec

(* Only write() moves the setpoint, and only through an open socket to an  *)
(* OPERATIONAL drive.                                                      *)
LEMMA SetpointMoves ==
  Next /\ lifecycle = "active" /\ setpoint' # setpoint
    => /\ setpoint' = RadToMotorCounts(Clamp(hw_command)) + motor_count_offset
       /\ drive_nmt = "OPERATIONAL"
  <1> SUFFICES ASSUME Next, lifecycle = "active", setpoint' # setpoint
               PROVE  /\ setpoint' = RadToMotorCounts(Clamp(hw_command)) + motor_count_offset
                      /\ drive_nmt = "OPERATIONAL"
    OBVIOUS
  <1> USE DEF busVars, driveVars, columnVars, hardwareVars, historyVars, ConfigureFrame
  <1>1. CASE BusNext
    BY <1>1 DEF BusNext, DriveReportsStatus, DriveReportsPosition, SensorReports,
                DriveAnswersGuard, DriveFaults, DriveComesToRest, DriveLosesPower, DriveBoots,
                ColumnTurns
  <1>2. CASE OnConfigure \/ OnDeactivate \/ OnCleanup
    BY <1>2 DEF OnConfigure, OnDeactivate, OnCleanup, Shutdown
  <1>3. CASE Configuring
    <2>1. ~ConfigureControlWord
      BY DEF ConfigureControlWord
    <2> QED
      BY <1>3, <2>1
      DEF Configuring, ConfigureReset, ConfigurePreOp, ConfigurePdos, ConfigureStart,
          ConfigureDone, ConfigureFails
  <1>4. CASE OnActivate \/ Activating
    BY <1>4 DEF OnActivate, Activating, ActivateUpdate, ActivateAgain, ActivateFails,
                ActivateSucceeds, Receive, UpdateDrivers
  <1>5. CASE ReadSkip \/ ReadReceive \/ Reading
    BY <1>5 DEF ReadSkip, ReadReceive, Reading, ReadUpdate, ReadError, OnError, Shutdown,
                Receive, UpdateDrivers
  <1>6. CASE WriteSkip \/ Command
    BY <1>6 DEF WriteSkip, Command
  <1>7. CASE WriteTarget
    BY <1>7 DEF WriteTarget, CycleWrite, WriteRpdo21
  <1> QED
    BY <1>1, <1>2, <1>3, <1>4, <1>5, <1>6, <1>7 DEF Next, ControllerManager

(* Every target the drive takes while ACTIVE is the motor count at which   *)
(* the column is at the commanded, clamped angle, if on_activate() had     *)
(* read the truth (system_steering_hardware.cpp:268-270 and :354-357).     *)
THEOREM DriveAimsAtCommand == Spec => AimsAtCommand
  <1>1. AimInv /\ [Next]_vars
          => [anchored /\ lifecycle = "active" /\ setpoint' # setpoint
                => setpoint' = RadToMotorCounts(Clamp(hw_command)) + bias]_vars
    BY SetpointMoves DEF AimInv, OffsetIsBias
  <1> QED BY AimInvariant, <1>1, PTL DEF Spec, AimsAtCommand

-----------------------------------------------------------------------------
(* SystemSteeringHardware implements SteeringLifecycle: every step of it   *)
(* is a step of the abstract component or leaves it unchanged.             *)

(* Where a callback may be under way. *)
PhaseInv ==
  /\ lifecycle \in {"unconfigured", "inactive", "active"}
  /\ pc \in ConfigureStage => lifecycle = "unconfigured"
  /\ pc \in {"act_update", "act_sleep", "act_enabled"} => lifecycle = "inactive"
  /\ pc \in {"read_update", "read_error"} => lifecycle \in {"inactive", "active"}

(* The state of the abstract component. *)
Phase == IF pc \in ConfigureStage THEN "configuring" ELSE lifecycle
Torque == power = "OPERATION_ENABLED"

-----------------------------------------------------------------------------
LEMMA InitPhase == Init => PhaseInv
  BY DEF Init, PhaseInv, ConfigureStage

LEMMA NextPhase == PhaseInv /\ [Next]_vars => PhaseInv'
  <1> SUFFICES ASSUME PhaseInv, [Next]_vars PROVE PhaseInv'
    OBVIOUS
  <1> USE DEF PhaseInv, ConfigureStage
  <1>1. CASE OnConfigure
    BY <1>1 DEF OnConfigure
  <1>2. CASE ConfigureReset \/ ConfigurePreOp \/ ConfigurePdos \/ ConfigureStart
    BY <1>2 DEF ConfigureReset, ConfigurePreOp, ConfigurePdos, ConfigureStart
  <1>9. CASE ConfigureControlWord
    BY <1>9 DEF ConfigureControlWord
  <1>10. CASE ConfigureDone \/ ConfigureFails
    BY <1>10 DEF ConfigureDone, ConfigureFails, DropController
  <1>3. CASE OnActivate \/ Activating
    BY <1>3 DEF OnActivate, Activating, ActivateUpdate, ActivateAgain, ActivateFails,
                ActivateSucceeds
  <1>4. CASE OnDeactivate \/ OnCleanup
    BY <1>4 DEF OnDeactivate, OnCleanup
  <1>5. CASE ReadSkip \/ ReadReceive \/ Reading
    BY <1>5 DEF ReadSkip, ReadReceive, Reading, ReadUpdate, ReadError, Readable, OnError,
                DropController
  <1>6. CASE WriteSkip \/ WriteTarget \/ Command
    BY <1>6 DEF WriteSkip, WriteTarget, Command
  <1>7. CASE BusNext /\ UNCHANGED <<controllerVars, lifecycle, pc, hardwareVars, historyVars>>
    BY <1>7
  <1>8. CASE UNCHANGED vars
    BY <1>8 DEF vars
  <1> QED
    BY <1>1, <1>2, <1>3, <1>4, <1>5, <1>6, <1>7, <1>8, <1>9, <1>10
    DEF Next, ControllerManager, Configuring

LEMMA PhaseInvariant == Spec => []PhaseInv
  BY InitPhase, NextPhase, PTL DEF Spec

-----------------------------------------------------------------------------
(* What a step does to the abstract component, in three kinds: the power   *)
(* stage moves and nothing else,                                           *)
LEMMA TorqueStep ==
  ASSUME Phase' = Phase, sock' = sock, setpoint' = setpoint, power' # power => sock
  PROVE  [Lifecycle!Next]_Lifecycle!avars
  <1>1. Torque' => sock \/ Torque
    BY DEF Torque
  <1>2. CASE power' = power
    BY <1>2 DEF Lifecycle!avars, Phase
  <1>3. CASE power' # power
    BY <1>3 DEF Lifecycle!Next, Lifecycle!TorqueChanges, Phase
  <1> QED BY <1>2, <1>3

(* the drive loses its torque, *)
LEMMA TorqueLost ==
  ASSUME Phase' = Phase, sock' = sock, setpoint' = setpoint, ~Torque'
  PROVE  [Lifecycle!Next]_Lifecycle!avars
  BY DEF Lifecycle!Next, Lifecycle!TorqueChanges, Phase, Torque

(* or the component fails. *)
LEMMA FailStep ==
  ASSUME Phase # "unconfigured", Phase' = "unconfigured", sock' = FALSE, Torque' \in {Torque, FALSE},
         setpoint' = setpoint
  PROVE  [Lifecycle!Next]_Lifecycle!avars
  BY DEF Lifecycle!Next, Lifecycle!Fail, Phase, Torque

(* QUICK_STOP never gives torque. *)
LEMMA ShutdownTakesTorque ==
  Shutdown => /\ Torque' \in {Torque, FALSE}
              /\ sock' = FALSE
              /\ setpoint' = setpoint
  BY DEF Shutdown, WriteRpdo1, AfterControlWord, CloseSocket, SetSocket, Torque

(* What the drive does by itself takes torque or leaves it alone. *)
LEMMA BusTakesTorque ==
  BusNext => (power' = power \/ ~Torque') /\ setpoint' = setpoint
  BY DEF BusNext, DriveReportsStatus, DriveReportsPosition, SensorReports, DriveAnswersGuard,
         DriveFaults, DriveComesToRest, DriveLosesPower, DriveBoots, ColumnTurns, driveVars, Torque

LEMMA UpdateKeepsLink ==
  ASSUME NEW dt, UpdateDrivers(dt)
  PROVE  sock' = sock /\ setpoint' = setpoint /\ (power' # power => sock)
  BY DEF UpdateDrivers, MotorUpdate, TickDs402, WriteRpdo1

-----------------------------------------------------------------------------
LEMMA ConfiguringSimulates ==
  PhaseInv /\ (OnConfigure \/ Configuring) => [Lifecycle!Next]_Lifecycle!avars
  <1> SUFFICES ASSUME PhaseInv, OnConfigure \/ Configuring
               PROVE  [Lifecycle!Next]_Lifecycle!avars
    OBVIOUS
  <1>1. CASE OnConfigure
    BY <1>1 DEF OnConfigure, OpenSocket, SetSocket, driveVars, ConfigureStage,
                Lifecycle!Next, Lifecycle!Configure
  <1>2. CASE ConfigureReset \/ ConfigurePreOp \/ ConfigurePdos \/ ConfigureStart
    BY <1>2, TorqueStep
    DEF ConfigureReset, ConfigurePreOp, ConfigurePdos, ConfigureStart, ConfigureFrame, linkVars,
        ConfigureStage, Phase
  <1>3. CASE ConfigureControlWord
    BY <1>3, TorqueStep
    DEF ConfigureControlWord, WriteSdoControlWord, ConfigureFrame, linkVars, ConfigureStage, Phase
  <1>4. CASE ConfigureDone
    BY <1>4 DEF ConfigureDone, ConfigureFrame, linkVars, ConfigureStage,
                Lifecycle!Next, Lifecycle!Configured
  <1>5. CASE ConfigureFails
    BY <1>5, FailStep
    DEF ConfigureFails, DropController, CloseSocket, SetSocket, driveVars, ConfigureStage, Phase,
        Torque
  <1> QED BY <1>1, <1>2, <1>3, <1>4, <1>5 DEF Configuring

LEMMA ActivatingSimulates ==
  PhaseInv /\ (OnActivate \/ Activating) => [Lifecycle!Next]_Lifecycle!avars
  <1> SUFFICES ASSUME PhaseInv, OnActivate \/ Activating
               PROVE  [Lifecycle!Next]_Lifecycle!avars
    OBVIOUS
  <1>1. CASE OnActivate \/ ActivateAgain
    BY <1>1, TorqueStep DEF OnActivate, ActivateAgain, Receive, driveVars, Phase, ConfigureStage
  <1>2. CASE ActivateUpdate
    BY <1>2, TorqueStep, UpdateKeepsLink DEF ActivateUpdate, Phase, ConfigureStage
  <1>3. CASE ActivateFails
    BY <1>3, TorqueStep DEF ActivateFails, busVars, linkVars, driveVars, Phase, ConfigureStage
  <1>4. CASE ActivateSucceeds
    BY <1>4 DEF ActivateSucceeds, busVars, linkVars, driveVars, PhaseInv, ConfigureStage,
                Lifecycle!Next, Lifecycle!Activate
  <1> QED BY <1>1, <1>2, <1>3, <1>4 DEF Activating

LEMMA StoppingSimulates ==
  PhaseInv /\ (OnDeactivate \/ OnCleanup \/ ReadError) => [Lifecycle!Next]_Lifecycle!avars
  <1> SUFFICES ASSUME PhaseInv, OnDeactivate \/ OnCleanup \/ ReadError
               PROVE  [Lifecycle!Next]_Lifecycle!avars
    OBVIOUS
  <1>1. CASE OnDeactivate
    BY <1>1, ShutdownTakesTorque
    DEF OnDeactivate, ConfigureStage, Torque, Lifecycle!Next, Lifecycle!Deactivate
  <1>2. CASE OnCleanup
    BY <1>2 DEF OnCleanup, busVars, linkVars, driveVars, ConfigureStage,
                Lifecycle!Next, Lifecycle!Cleanup
  <1>3. CASE ReadError
    BY <1>3, FailStep, ShutdownTakesTorque
    DEF ReadError, OnError, DropController, PhaseInv, ConfigureStage, Phase
  <1> QED BY <1>1, <1>2, <1>3

LEMMA CyclicSimulates ==
  ReadSkip \/ ReadReceive \/ ReadUpdate \/ WriteSkip \/ WriteTarget \/ Command
    => [Lifecycle!Next]_Lifecycle!avars
  <1> SUFFICES ASSUME ReadSkip \/ ReadReceive \/ ReadUpdate \/ WriteSkip \/ WriteTarget \/ Command
               PROVE  [Lifecycle!Next]_Lifecycle!avars
    OBVIOUS
  <1>1. CASE ReadSkip \/ WriteSkip \/ Command
    BY <1>1, TorqueStep DEF ReadSkip, WriteSkip, Command, busVars, linkVars, driveVars, Phase
  <1>2. CASE ReadReceive
    BY <1>2, TorqueStep DEF ReadReceive, Readable, Receive, driveVars, Phase, ConfigureStage
  <1>3. CASE ReadUpdate
    BY <1>3, TorqueStep, UpdateKeepsLink DEF ReadUpdate, Phase, ConfigureStage
  <1>4. CASE WriteTarget
    <2>1. Phase' = Phase /\ sock' = sock /\ power' = power
      BY <1>4 DEF WriteTarget, CycleWrite, busVars, linkVars, driveVars, Phase
    <2>2. CASE setpoint' = setpoint
      BY <2>1, <2>2, TorqueStep
    <2>3. CASE setpoint' # setpoint
      <3>1. sock
        BY <1>4, <2>3 DEF WriteTarget, CycleWrite, WriteRpdo21, busVars, driveVars
      <3> QED
        BY <1>4, <2>1, <2>3, <3>1
        DEF WriteTarget, Readable, Phase, ConfigureStage, Lifecycle!Next, Lifecycle!TakeTarget
    <2> QED BY <2>2, <2>3
  <1> QED BY <1>1, <1>2, <1>3, <1>4

(* Every step of the steering hardware is one of the abstract component or *)
(* leaves it unchanged.                                                    *)
LEMMA StepSimulates == PhaseInv /\ [Next]_vars => [Lifecycle!Next]_Lifecycle!avars
  <1> SUFFICES ASSUME PhaseInv, [Next]_vars PROVE [Lifecycle!Next]_Lifecycle!avars
    OBVIOUS
  <1>1. CASE BusNext /\ UNCHANGED <<controllerVars, lifecycle, pc, hardwareVars, historyVars>>
    BY <1>1, TorqueStep, TorqueLost, BusTakesTorque, BusKeepsSocket DEF Phase
  <1>2. CASE UNCHANGED vars
    BY <1>2 DEF vars, busVars, linkVars, driveVars, Lifecycle!avars
  <1> QED
    BY <1>1, <1>2, ConfiguringSimulates, ActivatingSimulates, StoppingSimulates, CyclicSimulates
    DEF Next, ControllerManager, Reading

(* The component keeps the promise of SteeringLifecycle: no torque and no  *)
(* target over a closed link, no link but by on_configure(), none left     *)
(* after on_deactivate() and on_error() (system_steering_hardware.cpp:     *)
(* 184-206, :289-315).                                                     *)
THEOREM SystemImplementsLifecycle == Spec => ImplementsLifecycle
  <1>1. Init => Lifecycle!Init
    BY DEF Init, BusInit, LinkDown, Lifecycle!Init, ConfigureStage
  <1> QED
    BY <1>1, StepSimulates, PhaseInvariant, PTL DEF Spec, ImplementsLifecycle, Lifecycle!Spec

-----------------------------------------------------------------------------
(* A count above 0 is one of a configured component over a dead link.      *)
CountsDeadLink == dead_reads # 0 => LinkDead /\ lifecycle # "unconfigured"

(* Over a dead link the socket holds an OPERATIONAL answer only from before *)
(* the death, and no drain has been there since.                           *)
StaleAnswerIsOld ==
  LinkDead /\ 5 \in in_nmt => dead_reads <= (IF pc = "read_update" THEN 0 ELSE 1)

(* The watchdog counts every read over a dead link but the one that was    *)
(* under way.                                                              *)
WatchdogCoversReads == pc = "read_error" \/ dead_reads <= watchdog_elapsed + 1

TeardownInv ==
  /\ TypeOK /\ PhaseInv
  /\ dead_reads \in Nat
  /\ CountsDeadLink /\ StaleAnswerIsOld /\ WatchdogCoversReads
  /\ DeadLinkNoticed

LEMMA InitTeardown == Init /\ dead_reads = 0 => TeardownInv
  <1> SUFFICES ASSUME Init, dead_reads = 0 PROVE TeardownInv
    OBVIOUS
  <1>1. TypeOK /\ PhaseInv
    BY InitType, InitPhase
  <1>2. watchdog_elapsed = 0
    BY DEF Init, ControllerInit, MotorInit, NodeInit
  <1> QED
    BY <1>1, <1>2, TimersAssumption
    DEF TeardownInv, CountsDeadLink, StaleAnswerIsOld, WatchdogCoversReads, DeadLinkNoticed

(* A step after which nothing was counted. *)
LEMMA NothingCounted ==
  ASSUME TypeOK', PhaseInv', dead_reads' = 0
  PROVE  TeardownInv'
  <1>1. watchdog_elapsed' \in 0..NMT_TIMEOUT
    BY DEF TypeOK, ControllerTypeOK, MotorTypeOK, NodeTypeOK
  <1>2. CountsDeadLink' /\ StaleAnswerIsOld'
    BY DEF CountsDeadLink, StaleAnswerIsOld
  <1>3. WatchdogCoversReads'
    <2>1. \A elapsed \in 0..NMT_TIMEOUT : 0 <= elapsed + 1
      BY TimersAssumption
    <2> QED BY <1>1, <2>1, Zenon DEF WatchdogCoversReads
  <1>4. DeadLinkNoticed'
    BY TimersAssumption DEF DeadLinkNoticed
  <1> QED BY <1>2, <1>3, <1>4 DEF TeardownInv

(* The bus brings no OPERATIONAL drive back and no OPERATIONAL answer from *)
(* a dead one.                                                             *)
LEMMA BusStaysDead ==
  ASSUME TypeOK, BusNext
  PROVE  /\ LinkDead => LinkDead'
         /\ LinkDead' /\ 5 \in in_nmt' => 5 \in in_nmt
  <1> USE DEF LinkDead, linkVars, driveVars
  <1>1. CASE DriveAnswersGuard
    BY <1>1 DEF DriveAnswersGuard
  <1>2. CASE DriveLosesPower
    BY <1>2 DEF DriveLosesPower
  <1>3. CASE DriveBoots
    BY <1>3 DEF DriveBoots
  <1>4. CASE DriveReportsStatus \/ DriveReportsPosition \/ SensorReports
    BY <1>4 DEF DriveReportsStatus, DriveReportsPosition, SensorReports
  <1>5. CASE DriveFaults \/ DriveComesToRest \/ ColumnTurns
    <2>1. UNCHANGED <<in_nmt, drive_nmt>>
      BY <1>5 DEF DriveFaults, DriveComesToRest, ColumnTurns
    <2> QED BY <2>1, BusKeepsSocket
  <1> QED BY <1>1, <1>2, <1>3, <1>4, <1>5 DEF BusNext

(* A drain takes the answers out of the socket and resets the watchdog for *)
(* an OPERATIONAL one only.                                                *)
LEMMA ReceiveFeeds ==
  ASSUME TypeOK, Receive
  PROVE  /\ in_nmt' = {} /\ LinkDead' = LinkDead
         /\ watchdog_elapsed' = watchdog_elapsed \/ (5 \in in_nmt /\ watchdog_elapsed' = 0)
  <1>1. in_nmt' = {} /\ LinkDead' = LinkDead
    BY DEF Receive, driveVars, LinkDead
  <1>2. CASE in_nmt = {}
    BY <1>1, <1>2 DEF Receive, ProcessFrames, nodeVars
  <1>3. CASE in_nmt # {}
    <2>1. PICK state_byte \in in_nmt : ProcessNmtHeartbeat(state_byte)
      BY <1>3 DEF Receive, ProcessFrames
    <2>2. state_byte \in {5, 127}
      BY DEF TypeOK, BusTypeOK
    <2> QED
      BY <1>1, <2>1, <2>2 DEF ProcessNmtHeartbeat, HB_OPERATIONAL
  <1> QED BY <1>2, <1>3

LEMMA UpdateWatches ==
  ASSUME TypeOK, NEW dt \in Nat \ {0}, UpdateDrivers(dt)
  PROVE  /\ in_nmt' = in_nmt /\ LinkDead' = LinkDead
         /\ \/ watchdog_elapsed' = watchdog_elapsed + dt /\ watchdog_elapsed' < NMT_TIMEOUT
            \/ watchdog_elapsed' = NMT_TIMEOUT /\ has_fault'
  <1>1. watchdog_elapsed \in Int /\ NMT_TIMEOUT \in Nat
    BY TimersAssumption DEF TypeOK, ControllerTypeOK, MotorTypeOK, NodeTypeOK
  <1>2. Update(dt) /\ in_nmt' = in_nmt /\ LinkDead' = LinkDead
    BY DEF UpdateDrivers, MotorUpdate, LinkDead
  <1> QED
    BY <1>1, <1>2 DEF Update, SaturatedWatchdog, WatchdogExpires, has_fault

(* The steps that leave the link and the watchdog alone count nothing. *)
LEMMA QuietTeardown ==
  ASSUME TeardownInv, TypeOK', PhaseInv', CountReads,
         ~ReadCompletes, pc # "read_update", pc' # "read_update", pc # "read_error",
         UNCHANGED <<in_nmt, watchdog_elapsed>>, LinkDead' = LinkDead,
         lifecycle' = lifecycle \/ (lifecycle # "unconfigured" /\ lifecycle' # "unconfigured")
  PROVE  TeardownInv'
  <1> USE DEF TeardownInv
  <1>1. dead_reads' = 0 \/ dead_reads' = dead_reads
    BY DEF CountReads
  <1>2. CASE dead_reads' = 0
    BY <1>2, NothingCounted
  <1>3. CASE dead_reads' = dead_reads
    BY <1>3 DEF CountsDeadLink, StaleAnswerIsOld, WatchdogCoversReads, DeadLinkNoticed
  <1> QED BY <1>1, <1>2, <1>3

(* A step of the bus. *)
LEMMA BusTeardown ==
  ASSUME TeardownInv, TypeOK', PhaseInv', CountReads,
         BusNext, UNCHANGED <<controllerVars, lifecycle, pc, hardwareVars, historyVars>>
  PROVE  TeardownInv'
  <1> USE DEF TeardownInv
  <1>1. UNCHANGED <<pc, lifecycle, watchdog_elapsed>>
    BY DEF controllerVars, motorVars, nodeVars
  <1>2. dead_reads' = dead_reads
    BY <1>1 DEF CountReads, ReadCompletes, CountsDeadLink
  <1>3. CountsDeadLink' /\ WatchdogCoversReads' /\ DeadLinkNoticed'
    BY <1>1, <1>2, BusStaysDead DEF CountsDeadLink, WatchdogCoversReads, DeadLinkNoticed
  <1>4. StaleAnswerIsOld'
    BY <1>1, <1>2, BusStaysDead DEF StaleAnswerIsOld, CountsDeadLink
  <1> QED BY <1>2, <1>3, <1>4

(* A drain, of read() or of on_activate(). *)
LEMMA ReceiveTeardown ==
  ASSUME TeardownInv, TypeOK', PhaseInv', CountReads,
         Receive, pc \notin {"read_update", "read_error"}, lifecycle' = lifecycle
  PROVE  TeardownInv'
  <1> USE DEF TeardownInv
  <1>1. dead_reads' = dead_reads
    BY DEF CountReads, ReadCompletes, CountsDeadLink
  <1>2. CountsDeadLink' /\ StaleAnswerIsOld'
    BY <1>1, ReceiveFeeds DEF CountsDeadLink, StaleAnswerIsOld
  <1>3. dead_reads <= watchdog_elapsed + 1
    BY DEF WatchdogCoversReads
  <1>4. 5 \in in_nmt => dead_reads <= 1
    BY TimersAssumption DEF StaleAnswerIsOld, CountsDeadLink
  <1>5. WatchdogCoversReads'
    BY <1>1, <1>3, <1>4, ReceiveFeeds DEF WatchdogCoversReads
  <1>6. DeadLinkNoticed'
    BY <1>1 DEF DeadLinkNoticed
  <1> QED BY <1>1, <1>2, <1>5, <1>6

(* update(), in on_activate(). *)
LEMMA ActivateUpdateTeardown ==
  ASSUME TeardownInv, TypeOK', PhaseInv', CountReads, ActivateUpdate
  PROVE  TeardownInv'
  <1> USE DEF TeardownInv
  <1>1. pc = "act_update" /\ pc' \in {"act_enabled", "act_sleep"} /\ lifecycle' = lifecycle
    BY DEF ActivateUpdate
  <1>2. dead_reads' = dead_reads
    BY <1>1 DEF CountReads, ReadCompletes, CountsDeadLink
  <1>3. UpdateDrivers(ACTIVATE_DT) /\ ACTIVATE_DT \in Nat \ {0}
    BY HardwareAssumption DEF ActivateUpdate
  <1>4. in_nmt' = in_nmt /\ LinkDead' = LinkDead
    BY <1>3, UpdateWatches
  <1>5. CountsDeadLink' /\ StaleAnswerIsOld' /\ DeadLinkNoticed'
    BY <1>1, <1>2, <1>4 DEF CountsDeadLink, StaleAnswerIsOld, DeadLinkNoticed
  <1>6. watchdog_elapsed \in 0..NMT_TIMEOUT
    BY DEF TypeOK, ControllerTypeOK, MotorTypeOK, NodeTypeOK
  <1>7. WatchdogCoversReads'
    BY <1>1, <1>2, <1>3, <1>6, UpdateWatches, TimersAssumption DEF WatchdogCoversReads
  <1> QED BY <1>2, <1>5, <1>7

(* update(), in read(): the read that is counted is counted by the         *)
(* watchdog, or returns ERROR.                                             *)
LEMMA ReadUpdateTeardown ==
  ASSUME TeardownInv, TypeOK', PhaseInv', CountReads, ReadUpdate
  PROVE  TeardownInv'
  <1> USE DEF TeardownInv
  <1>1. /\ pc = "read_update" /\ lifecycle' = lifecycle
        /\ pc' = IF has_fault' THEN "read_error" ELSE "idle"
    BY DEF ReadUpdate
  <1>2. pc' # "read_update" /\ ReadCompletes
    BY <1>1 DEF ReadCompletes
  <1>3. dead_reads' = IF LinkDead /\ lifecycle # "unconfigured" THEN dead_reads + 1 ELSE 0
    BY <1>1, <1>2 DEF CountReads, Counted, CountsDeadLink, DeadLinkNoticed
  <1>4. /\ in_nmt' = in_nmt /\ LinkDead' = LinkDead
        /\ \/ watchdog_elapsed' = watchdog_elapsed + 1 /\ watchdog_elapsed' < NMT_TIMEOUT
           \/ watchdog_elapsed' = NMT_TIMEOUT /\ has_fault'
    BY UpdateWatches DEF ReadUpdate
  <1>5. CASE dead_reads' = 0
    BY <1>5, NothingCounted
  <1>6. CASE LinkDead /\ lifecycle # "unconfigured" /\ dead_reads' = dead_reads + 1
    <2>1. CountsDeadLink' /\ dead_reads' \in Nat
      BY <1>1, <1>4, <1>6 DEF CountsDeadLink
    <2>2. StaleAnswerIsOld'
      BY <1>1, <1>2, <1>4, <1>6 DEF StaleAnswerIsOld
    <2>3. dead_reads <= watchdog_elapsed + 1
      BY <1>1 DEF WatchdogCoversReads
    <2>4. CASE has_fault'
      BY <1>1, <2>1, <2>2, <2>4 DEF WatchdogCoversReads, DeadLinkNoticed
    <2>5. CASE watchdog_elapsed' = watchdog_elapsed + 1 /\ watchdog_elapsed' < NMT_TIMEOUT
      <3>1. watchdog_elapsed \in 0..NMT_TIMEOUT
        BY DEF TypeOK, ControllerTypeOK, MotorTypeOK, NodeTypeOK
      <3>2. WatchdogCoversReads' /\ DeadLinkNoticed'
        BY <1>6, <2>3, <2>5, <3>1, TimersAssumption DEF WatchdogCoversReads, DeadLinkNoticed
      <3> QED BY <2>1, <2>2, <3>2
    <2> QED BY <1>4, <2>4, <2>5
  <1> QED BY <1>3, <1>5, <1>6

(* What happens to a component that is UNCONFIGURED, or makes it so. *)
LEMMA UnconfiguredTeardown ==
  ASSUME TeardownInv, TypeOK', PhaseInv', CountReads,
         lifecycle' = "unconfigured" \/ (lifecycle = "unconfigured" /\ pc # "read_update")
  PROVE  TeardownInv'
  <1>1. dead_reads' = 0
    BY DEF TeardownInv, CountReads, ReadCompletes, CountsDeadLink
  <1> QED BY <1>1, NothingCounted

LEMMA ConfiguringTeardown ==
  ASSUME TeardownInv, TypeOK', PhaseInv', CountReads, OnConfigure \/ Configuring
  PROVE  TeardownInv'
  <1>1. CASE OnConfigure
    BY <1>1, UnconfiguredTeardown DEF OnConfigure
  <1>2. CASE Configuring
    <2>1. pc \in ConfigureStage
      <3>1. CASE ConfigureReset \/ ConfigurePreOp \/ ConfigurePdos \/ ConfigureStart
        BY <3>1 DEF ConfigureReset, ConfigurePreOp, ConfigurePdos, ConfigureStart, ConfigureStage
      <3>2. CASE ConfigureControlWord
        BY <3>2 DEF ConfigureControlWord, ConfigureStage
      <3>3. CASE ConfigureDone \/ ConfigureFails
        BY <3>3 DEF ConfigureDone, ConfigureFails, ConfigureStage
      <3> QED BY <1>2, <3>1, <3>2, <3>3 DEF Configuring
    <2> QED BY <2>1, UnconfiguredTeardown DEF TeardownInv, PhaseInv, ConfigureStage
  <1> QED BY <1>1, <1>2

(* on_deactivate() closes the socket, if it was not closed before. *)
LEMMA DeactivateTeardown ==
  ASSUME TeardownInv, TypeOK', PhaseInv', CountReads, OnDeactivate
  PROVE  TeardownInv'
  <1> USE DEF TeardownInv
  <1>1. /\ pc = "idle" /\ pc' = "idle" /\ lifecycle' = "inactive"
        /\ watchdog_elapsed' = watchdog_elapsed /\ in_nmt' = {} /\ sock' = FALSE
    BY DEF OnDeactivate, Shutdown, CloseSocket, SetSocket, controllerVars, motorVars, nodeVars
  <1>2. dead_reads' = dead_reads
    BY <1>1 DEF CountReads, ReadCompletes
  <1>3. LinkDead'
    BY <1>1 DEF LinkDead
  <1> QED
    BY <1>1, <1>2, <1>3 DEF CountsDeadLink, StaleAnswerIsOld, WatchdogCoversReads, DeadLinkNoticed

(* The steps that leave the link and the watchdog alone. *)
QuietStep ==
  \/ ActivateFails \/ ActivateSucceeds
  \/ ReadSkip \/ WriteSkip \/ WriteTarget \/ Command

LEMMA QuietSteps ==
  ASSUME QuietStep
  PROVE  /\ pc \notin {"read_update", "read_error"} /\ pc' # "read_update"
         /\ UNCHANGED <<in_nmt, watchdog_elapsed>> /\ LinkDead' = LinkDead
         /\ \/ lifecycle' = lifecycle
            \/ pc = "act_enabled" /\ lifecycle' = "active"
  <1> USE DEF controllerVars, motorVars, nodeVars, busVars, linkVars, driveVars, LinkDead, Readable
  <1>1. CASE ActivateFails
    BY <1>1 DEF ActivateFails
  <1>2. CASE ActivateSucceeds
    BY <1>2 DEF ActivateSucceeds
  <1>3. CASE ReadSkip
    BY <1>3 DEF ReadSkip
  <1>4. CASE WriteSkip
    BY <1>4 DEF WriteSkip
  <1>5. CASE WriteTarget
    BY <1>5 DEF WriteTarget, CycleWrite
  <1>6. CASE Command
    BY <1>6 DEF Command
  <1> QED BY <1>1, <1>2, <1>3, <1>4, <1>5, <1>6 DEF QuietStep

LEMMA NextTeardown == TeardownInv /\ [TeardownNext]_<<vars, dead_reads>> => TeardownInv'
  <1> SUFFICES ASSUME TeardownInv, [TeardownNext]_<<vars, dead_reads>> PROVE TeardownInv'
    OBVIOUS
  <1>1. TypeOK' /\ PhaseInv'
    BY NextType, NextPhase DEF TeardownInv, TeardownNext
  <1>2. CASE UNCHANGED <<vars, dead_reads>>
    BY <1>1, <1>2
    DEF TeardownInv, CountsDeadLink, StaleAnswerIsOld, WatchdogCoversReads, DeadLinkNoticed,
        LinkDead, vars, busVars, linkVars, driveVars, controllerVars, motorVars, nodeVars
  <1>3. CASE TeardownNext
    <2> USE <1>1, <1>3 DEF TeardownNext
    <2>1. CASE OnConfigure \/ Configuring
      BY <2>1, ConfiguringTeardown
    <2>2. CASE OnCleanup \/ ReadError
      BY <2>2, UnconfiguredTeardown DEF OnCleanup, ReadError, OnError, DropController
    <2>3. CASE OnActivate \/ ActivateAgain \/ ReadReceive
      BY <2>3, ReceiveTeardown DEF OnActivate, ActivateAgain, ReadReceive, Readable
    <2>4. CASE ActivateUpdate
      BY <2>4, ActivateUpdateTeardown
    <2>5. CASE ReadUpdate
      BY <2>5, ReadUpdateTeardown
    <2>6. CASE OnDeactivate
      BY <2>6, DeactivateTeardown
    <2>7. CASE QuietStep
      <3>1. lifecycle' = lifecycle \/ (lifecycle # "unconfigured" /\ lifecycle' # "unconfigured")
        BY <2>7, QuietSteps DEF TeardownInv, PhaseInv
      <3>2. ~ReadCompletes
        BY <2>7, QuietSteps DEF ReadCompletes
      <3> QED BY <2>7, <3>1, <3>2, QuietSteps, QuietTeardown
    <2>8. CASE BusNext /\ UNCHANGED <<controllerVars, lifecycle, pc, hardwareVars, historyVars>>
      BY <2>8, BusTeardown
    <2> QED
      BY <2>1, <2>2, <2>3, <2>4, <2>5, <2>6, <2>7, <2>8
      DEF Next, ControllerManager, Activating, Reading, QuietStep
  <1> QED BY <1>2, <1>3

(* Over a closed link, or with a drive that has left OPERATIONAL, at most  *)
(* NMT_TIMEOUT acting calls of read() return OK, whatever callbacks come   *)
(* between them and whatever is still in the socket (canopen_driver.cpp:   *)
(* 41-44, :189, system_steering_hardware.cpp:248, :326-337).               *)
THEOREM DeadLinkIsNoticed == TeardownSpec => []DeadLinkNoticed
  <1>1. TeardownInv => DeadLinkNoticed
    BY DEF TeardownInv
  <1> QED BY InitTeardown, NextTeardown, <1>1, PTL DEF TeardownSpec

=============================================================================
