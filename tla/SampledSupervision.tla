------------------------- MODULE SampledSupervision -------------------------
(***************************************************************************)
(* The supervision of a node when read() acts in every MULTIPLICITY-th     *)
(* cycle only: it then passes the period of one cycle to cycle_read(), so  *)
(* the watchdog and the timer of the NodeGuard RTR count acting reads, not *)
(* cycles (system_steering_hardware.cpp:322-328).  One tick of the driver  *)
(* is the period of a cycle; the histories count all cycles.               *)
(***************************************************************************)
EXTENDS CANopenDriver

CONSTANT MULTIPLICITY   \* effective_read_multiplicity_

ASSUME MultiplicityAssumption == MULTIPLICITY \in Nat \ {0}

VARIABLES
  read_counter,
  up,         \* the node is OPERATIONAL
  answered,   \* its answer to the last RTR waits in the socket
  checked,    \* read() has just acted: has_fault() is asked here
  silence,    \* history: cycles since an answer was processed
  unguarded   \* history: cycles since the last RTR

vars == <<nodeVars, read_counter, up, answered, checked, silence, unguarded>>

(* The histories saturate where no property distinguishes more. *)
LongestSilence == NMT_TIMEOUT * MULTIPLICITY
Longer(n) == IF n >= LongestSilence THEN LongestSilence ELSE n + 1

TypeOK ==
  /\ NodeTypeOK
  /\ read_counter \in 0..(MULTIPLICITY - 1)
  /\ up \in BOOLEAN
  /\ answered \in BOOLEAN
  /\ checked \in BOOLEAN
  /\ silence \in Nat
  /\ unguarded \in Nat

(* on_configure() has returned: the driver is optimistic, the counters of  *)
(* on_init() are 0.                                                        *)
Init ==
  /\ nmt_state = "OPERATIONAL"
  /\ nodeguard_elapsed = 0
  /\ watchdog_elapsed = 0
  /\ read_counter = 0
  /\ up \in BOOLEAN
  /\ answered = FALSE
  /\ checked = FALSE
  /\ silence = 0
  /\ unguarded = 0

-----------------------------------------------------------------------------
ReadDue == read_counter + 1 >= MULTIPLICITY

ReadSkips ==
  /\ ~ReadDue
  /\ read_counter' = read_counter + 1
  /\ checked' = FALSE
  /\ silence' = Longer(silence)
  /\ unguarded' = unguarded + 1
  /\ UNCHANGED <<nodeVars, up, answered>>

(* cycle_read(): the drain finds the answer. *)
ReadDrains ==
  /\ ReadDue /\ answered
  /\ ProcessNmtHeartbeat(5)
  /\ answered' = FALSE
  /\ checked' = FALSE
  /\ silence' = 0
  /\ UNCHANGED <<read_counter, up, unguarded>>

(* A mutant of the operator below: the counter restarts before 0. *)
MutReadWaitsLonger ==
  /\ ReadDue /\ ~answered
  /\ read_counter' = -1
  /\ Update(1)
  /\ answered' \in IF NodeguardDue(1) /\ up THEN BOOLEAN ELSE {FALSE}
  /\ checked' = TRUE
  /\ silence' = Longer(silence)
  /\ unguarded' = IF NodeguardDue(1) THEN 0 ELSE unguarded + 1
  /\ UNCHANGED up

(* cycle_read(): the drain is over, update() with the period of one cycle. *)
(* A node that is up answers the RTR before the next read, unless one of   *)
(* the two is lost.                                                        *)
ReadUpdates ==
  /\ ReadDue /\ ~answered
  /\ read_counter' = 0
  /\ Update(1)
  /\ answered' \in IF NodeguardDue(1) /\ up THEN BOOLEAN ELSE {FALSE}
  /\ checked' = TRUE
  /\ silence' = Longer(silence)
  /\ unguarded' = IF NodeguardDue(1) THEN 0 ELSE unguarded + 1
  /\ UNCHANGED up

NodeChanges ==
  /\ up' = ~up
  /\ UNCHANGED <<nodeVars, read_counter, answered, checked, silence, unguarded>>

Next == ReadSkips \/ ReadDrains \/ ReadUpdates \/ NodeChanges

Spec == Init /\ [][Next]_vars

-----------------------------------------------------------------------------
(* A silent node is in FAULT after NMT_TIMEOUT acting reads: every timeout *)
(* is stretched by the multiplicity, and by no more                        *)
(* (system_steering_hardware.cpp:328, canopen_driver.cpp:41-44).           *)
SilenceDetected == checked /\ silence >= NMT_TIMEOUT * MULTIPLICITY => nmt_state = "FAULT"

(* So is the period of the RTR, and the life time of the drive (0x100C     *)
(* times 0x100D, 15 periods) must outlast NODEGUARD_PERIOD * MULTIPLICITY: *)
(* no two RTRs are further apart (canopen_driver.cpp:33-37).               *)
GuardsOnTime == unguarded <= NODEGUARD_PERIOD * MULTIPLICITY

=============================================================================
