--------------------------- MODULE CANopenDriver ---------------------------
(***************************************************************************)
(* The base class of every CANopen node driver (src/canopen_driver.cpp):   *)
(* the NMT state the master believes the node to be in, the watchdog that  *)
(* declares FAULT when the node stays silent, and the timer of the         *)
(* NodeGuard RTR.  Time is counted in ticks; one tick is the dt of a cycle *)
(* in the modules that use this one.                                       *)
(*                                                                         *)
(* The C++ class is inherited, so this module has no specification of its  *)
(* own: NodeSupervision and HealthyLink put a node and a bus around it,    *)
(* MotorDriver extends it.                                                 *)
(***************************************************************************)
EXTENDS Integers

CONSTANTS
  NMT_TIMEOUT,       \* NMT_TIMEOUT_S in ticks
  NODEGUARD_PERIOD   \* NODEGUARD_PERIOD_S in ticks

ASSUME TimersAssumption ==
  /\ NMT_TIMEOUT \in Nat \ {0}
  /\ NODEGUARD_PERIOD \in Nat \ {0}

VARIABLES
  nmt_state,          \* what the master believes
  nodeguard_elapsed,  \* ticks since the last NodeGuard RTR
  watchdog_elapsed    \* ticks since the last OPERATIONAL answer

nodeVars == <<nmt_state, nodeguard_elapsed, watchdog_elapsed>>

NmtState == {"UNKNOWN", "PRE_OPERATIONAL", "OPERATIONAL", "STOPPED", "FAULT"}

NodeTypeOK ==
  /\ nmt_state \in NmtState
  /\ nodeguard_elapsed \in 0..(NODEGUARD_PERIOD - 1)
  /\ watchdog_elapsed \in 0..NMT_TIMEOUT

(* The constructor. *)
NodeInit ==
  /\ nmt_state = "UNKNOWN"
  /\ nodeguard_elapsed = 0
  /\ watchdog_elapsed = 0

-----------------------------------------------------------------------------
(* The state byte of a NodeGuard answer.  Bit 7 is the toggle bit, so every *)
(* state has two encodings; the boot-up byte 0 is one of the unknown ones.  *)
HB_OPERATIONAL     == {5, 133}
HB_STOPPED         == {4, 132}
HB_PRE_OPERATIONAL == {127, 255}
HB_BOOTUP          == 0

(* The watchdog counter saturates at NMT_TIMEOUT: it is only ever compared *)
(* with NMT_TIMEOUT, so larger values behave alike.                        *)
SaturatedWatchdog(elapsed) == IF elapsed >= NMT_TIMEOUT THEN NMT_TIMEOUT ELSE elapsed

(* A mutant of the operator below: one tick late. *)
MutNodeguardLate(dt) == nodeguard_elapsed + dt > NODEGUARD_PERIOD

NodeguardDue(dt) == nodeguard_elapsed + dt >= NODEGUARD_PERIOD

WatchdogExpires(dt) == watchdog_elapsed + dt >= NMT_TIMEOUT

(* Mutants of the operator below: the RTR timer is not restarted; only a   *)
(* node believed to be OPERATIONAL is supervised.                          *)
MutRtrTimerRuns(dt) ==
  /\ nodeguard_elapsed' = nodeguard_elapsed + dt
  /\ watchdog_elapsed' = SaturatedWatchdog(watchdog_elapsed + dt)
  /\ nmt_state' = IF WatchdogExpires(dt) THEN "FAULT" ELSE nmt_state

MutSupervisesOperationalOnly(dt) ==
  /\ nodeguard_elapsed' = IF NodeguardDue(dt) THEN 0 ELSE nodeguard_elapsed + dt
  /\ watchdog_elapsed' = SaturatedWatchdog(watchdog_elapsed + dt)
  /\ nmt_state' = IF nmt_state = "OPERATIONAL" /\ WatchdogExpires(dt) THEN "FAULT" ELSE nmt_state

(* update(dt).  The RTR itself is a write to the bus, which the modules    *)
(* that have a bus add under NodeguardDue; the timer is reset whether or   *)
(* not that write succeeds.                                                *)
Update(dt) ==
  /\ nodeguard_elapsed' = IF NodeguardDue(dt) THEN 0 ELSE nodeguard_elapsed + dt
  /\ watchdog_elapsed' = SaturatedWatchdog(watchdog_elapsed + dt)
  /\ nmt_state' = IF WatchdogExpires(dt) THEN "FAULT" ELSE nmt_state

(* A mutant of the operator below: any known answer feeds the watchdog.    *)
MutHeartbeatFedByAny(state_byte) ==
  /\ nmt_state' = CASE state_byte \in HB_OPERATIONAL     -> "OPERATIONAL"
                    [] state_byte \in HB_STOPPED         -> "STOPPED"
                    [] state_byte \in HB_PRE_OPERATIONAL -> "PRE_OPERATIONAL"
                    [] OTHER                             -> nmt_state
  /\ watchdog_elapsed' =
       IF state_byte \in HB_OPERATIONAL \cup HB_STOPPED \cup HB_PRE_OPERATIONAL
       THEN 0 ELSE watchdog_elapsed
  /\ UNCHANGED nodeguard_elapsed

(* Another one: a byte that is no state, such as a boot-up, is a fault.    *)
MutHeartbeatUnknownFaults(state_byte) ==
  /\ nmt_state' = CASE state_byte \in HB_OPERATIONAL     -> "OPERATIONAL"
                    [] state_byte \in HB_STOPPED         -> "STOPPED"
                    [] state_byte \in HB_PRE_OPERATIONAL -> "PRE_OPERATIONAL"
                    [] OTHER                             -> "FAULT"
  /\ watchdog_elapsed' = IF state_byte \in HB_OPERATIONAL THEN 0 ELSE watchdog_elapsed
  /\ UNCHANGED nodeguard_elapsed

(* Only an OPERATIONAL answer feeds the watchdog; a STOPPED or              *)
(* PRE_OPERATIONAL one updates the state alone; an unknown byte is ignored. *)
ProcessNmtHeartbeat(state_byte) ==
  /\ nmt_state' = CASE state_byte \in HB_OPERATIONAL     -> "OPERATIONAL"
                    [] state_byte \in HB_STOPPED         -> "STOPPED"
                    [] state_byte \in HB_PRE_OPERATIONAL -> "PRE_OPERATIONAL"
                    [] OTHER                             -> nmt_state
  /\ watchdog_elapsed' = IF state_byte \in HB_OPERATIONAL THEN 0 ELSE watchdog_elapsed
  /\ UNCHANGED nodeguard_elapsed

(* How both configure() methods end: an optimistic OPERATIONAL, the        *)
(* watchdog restarted so that the node has NMT_TIMEOUT to confirm it.      *)
StartOptimistic ==
  /\ nmt_state' = "OPERATIONAL"
  /\ watchdog_elapsed' = 0
  /\ UNCHANGED nodeguard_elapsed

=============================================================================
