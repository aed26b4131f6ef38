--------------------------- MODULE DriveEnabling ---------------------------
(***************************************************************************)
(* How a drive is brought to OPERATION_ENABLED: the loop of on_activate()  *)
(* (src/system_steering_hardware.cpp:246-252), which runs cycle_read() and *)
(* with it tick_ds402(), after a startup_sequence() that does not look at  *)
(* what became of its control words (src/motor_driver.cpp:198-208).  The   *)
(* drive may therefore be anywhere at the start, and it may fault again    *)
(* and again.  The deadline of 5 s is left out here: what the loop can     *)
(* reach is the question, not how soon.                                    *)
(***************************************************************************)
EXTENDS SteeringController

CONSTANT ACTIVATE_DT   \* kDt in ticks

ASSUME LoopAssumption == ACTIVATE_DT \in Nat \ {0} /\ ACTIVATE_DT < NMT_TIMEOUT

VARIABLE pc   \* "receive" or "update": which half of cycle_read() is next

vars == <<controllerVars, busVars, pc>>

(* startup_sequence() has sent NMT START, which the drive has followed; it *)
(* is in any power state, and so is its first StatusWord.                  *)
Init ==
  /\ nmt_state = "OPERATIONAL" /\ nodeguard_elapsed = 0 /\ watchdog_elapsed = 0
  /\ drive_state = "UNKNOWN" /\ ds402_interval = 0 /\ actual_position = 0
  /\ raw_position = 0
  /\ sock = TRUE
  /\ in_nmt = {} /\ in_status = {} /\ in_position = {} /\ in_feedback = {}
  /\ sync = FALSE /\ rtr = FALSE
  /\ drive_nmt = "OPERATIONAL"
  /\ power \in PowerState
  /\ angle \in Angles /\ bias \in Biases
  /\ setpoint = MotorCounts
  /\ pc = "receive"

Receives ==
  /\ pc = "receive" /\ pc' = "update"
  /\ Receive

Updates ==
  /\ pc = "update" /\ pc' = "receive"
  /\ UpdateDrivers(ACTIVATE_DT)

Drive == BusNext /\ UNCHANGED <<controllerVars, pc>>

Next == Receives \/ Updates \/ Drive

(* A control word that reaches the drive and moves it. *)
ControlWordArrives == Updates /\ power' # power

(* The loop goes on.  What is sent again and again arrives in the end: a   *)
(* StatusWord, a NodeGuard answer, a control word.  A drive that stops or  *)
(* reacts to a fault comes to rest.                                        *)
Fairness ==
  /\ WF_vars(Receives) /\ WF_vars(Updates)
  /\ SF_vars(ControlWordArrives)
  /\ SF_vars(DriveReportsStatus /\ UNCHANGED <<controllerVars, pc>>)
  /\ SF_vars(DriveAnswersGuard /\ UNCHANGED <<controllerVars, pc>>)
  /\ WF_vars(DriveComesToRest /\ UNCHANGED <<controllerVars, pc>>)

Spec == Init /\ [][Next]_vars /\ Fairness

-----------------------------------------------------------------------------
FaultsCease == <>[][~ DriveFaults]_vars

(* A drive that stops faulting ends up enabled, and believed to be:        *)
(* wherever the startup left it, also from FAULT_REACTION, which matches   *)
(* no mask and is taken for the state before, with StatusWords that are    *)
(* old when they are read and control words that are lost (motor_driver.   *)
(* cpp:225-268, :345-358).                                                 *)
DriveIsEnabled ==
  FaultsCease => <>[](power = "OPERATION_ENABLED" /\ drive_state = "OPERATION_ENABLED")

(* A fault is seen in the end, although the reaction to it is not, so that *)
(* tick_ds402() resets it (motor_driver.cpp:234-237).                      *)
FaultIsSeen == power = "FAULT_REACTION" ~> drive_state = "FAULT"

=============================================================================
