---------------------------- MODULE HealthyLink ----------------------------
(***************************************************************************)
(* The other half of supervision: a node that stays OPERATIONAL must not   *)
(* be declared in FAULT because the bus is imperfect.  The bus loses up to *)
(* LOSSES NodeGuard exchanges in a row (the RTR or its answer), and an     *)
(* exchange it does not lose is drained within LATENCY updates.            *)
(*                                                                         *)
(* The assumption is the sizing rule the three timing constants of         *)
(* dzcante020l080_constants.hpp:168-181 have to satisfy.                   *)
(***************************************************************************)
EXTENDS CANopenDriver

CONSTANTS
  LOSSES,   \* consecutive NodeGuard exchanges the bus may lose
  LATENCY   \* updates that may pass before a surviving answer is drained

ASSUME SizingAssumption ==
  /\ LOSSES \in Nat
  /\ LATENCY \in Nat
  /\ LATENCY < NODEGUARD_PERIOD
  /\ (LOSSES + 1) * NODEGUARD_PERIOD + LATENCY < NMT_TIMEOUT

VARIABLES
  waiting,  \* an exchange is under way that is not lost yet
  age,      \* updates since its RTR was written
  missed    \* exchanges lost since the last answer was drained

vars == <<nmt_state, nodeguard_elapsed, watchdog_elapsed, waiting, age, missed>>

TypeOK ==
  /\ NodeTypeOK
  /\ waiting \in BOOLEAN
  /\ age \in 0..LATENCY
  /\ missed \in 0..LOSSES

(* configure() has just returned. *)
Init ==
  /\ nmt_state = "OPERATIONAL"
  /\ nodeguard_elapsed = 0
  /\ watchdog_elapsed = 0
  /\ waiting = FALSE
  /\ age = 0
  /\ missed = 0

-----------------------------------------------------------------------------
(* update(1) between two RTRs. *)
QuietCycle ==
  /\ ~NodeguardDue(1)
  /\ waiting => age < LATENCY
  /\ Update(1)
  /\ age' = IF waiting THEN age + 1 ELSE age
  /\ UNCHANGED <<waiting, missed>>

(* update(1) writes an RTR. *)
GuardCycle ==
  /\ NodeguardDue(1)
  /\ waiting => age < LATENCY
  /\ Update(1)
  /\ waiting' = TRUE
  /\ age' = 0
  /\ UNCHANGED missed

(* The RTR could not be written, or it or its answer is lost. *)
LoseExchange ==
  /\ waiting
  /\ missed < LOSSES
  /\ waiting' = FALSE
  /\ missed' = missed + 1
  /\ UNCHANGED <<nodeVars, age>>

(* The answer is drained. *)
AnswerDrained ==
  /\ waiting
  /\ \E state_byte \in HB_OPERATIONAL : ProcessNmtHeartbeat(state_byte)
  /\ waiting' = FALSE
  /\ missed' = 0
  /\ UNCHANGED age

Next ==
  \/ QuietCycle
  \/ GuardCycle
  \/ LoseExchange
  \/ AnswerDrained

Spec == Init /\ [][Next]_vars

-----------------------------------------------------------------------------
(* A live node behind a bus this lossy is never reported in FAULT: the     *)
(* watchdog of canopen_driver.cpp:41-44 does not outrun the RTRs of        *)
(* :33-37.                                                                 *)
NoFalseFault == nmt_state = "OPERATIONAL"

=============================================================================
