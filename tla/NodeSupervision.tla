-------------------------- MODULE NodeSupervision --------------------------
(***************************************************************************)
(* One CANopen node watched by its driver over an unreliable bus: the      *)
(* master's cyclic part (drain the socket, then update) against a node     *)
(* that may stop, restart or be switched off, RTRs and answers that may be *)
(* lost, and answers that wait in the socket while the node already died,  *)
(* those among them that came in between the end of the drain and the      *)
(* update() after it.                                                      *)
(*                                                                         *)
(* The question is how long a dead node can go unnoticed.                  *)
(***************************************************************************)
EXTENDS CANopenDriver, Sequences

CONSTANT MaxRx   \* bound on the frames waiting in the socket

ASSUME MaxRxAssumption == MaxRx \in Nat \ {0}

VARIABLES
  node,      \* the real NMT state of the node, "OFF" when it is not there
  rtr,       \* an RTR is on its way to the node
  rx,        \* state bytes waiting in the socket
  drained,   \* the drain has found the socket empty, update() comes next
  checked,   \* the last thing the master did was update(): has_fault() is asked here
  outage     \* history: updates since the node was last OPERATIONAL

vars == <<nmt_state, nodeguard_elapsed, watchdog_elapsed,
          node, rtr, rx, drained, checked, outage>>

NodeReality == {"PRE_OPERATIONAL", "OPERATIONAL", "STOPPED", "OFF"}

StateBytes == HB_OPERATIONAL \cup HB_STOPPED \cup HB_PRE_OPERATIONAL

Bytes == StateBytes \cup {HB_BOOTUP}

(* The bytes with which a node in a given state answers. *)
AnswersOf(reality) ==
  CASE reality = "OPERATIONAL"     -> HB_OPERATIONAL
    [] reality = "STOPPED"         -> HB_STOPPED
    [] reality = "PRE_OPERATIONAL" -> HB_PRE_OPERATIONAL
    [] OTHER                       -> {}

(* History counters saturate where no property distinguishes more. *)
Count(n) == IF n > NMT_TIMEOUT THEN n ELSE n + 1

TypeOK ==
  /\ NodeTypeOK
  /\ node \in NodeReality
  /\ rtr \in BOOLEAN
  /\ rx \in Seq(Bytes)
  /\ drained \in BOOLEAN
  /\ checked \in BOOLEAN
  /\ outage \in 0..(NMT_TIMEOUT + 1)

(* configure() has just returned: the node was started and its driver      *)
(* believes it.                                                            *)
Init ==
  /\ nmt_state = "OPERATIONAL"
  /\ nodeguard_elapsed = 0
  /\ watchdog_elapsed = 0
  /\ node \in NodeReality
  /\ rtr = FALSE
  /\ rx = <<>>
  /\ drained = FALSE
  /\ checked = FALSE
  /\ outage = 0

-----------------------------------------------------------------------------
(* The master. *)

(* One frame of the drain: process_frame on the head of the socket.  The   *)
(* code reads all frames before it dispatches the first; what the nodes do *)
(* while it dispatches commutes with that, so it may as well come behind   *)
(* the end of the drain, as DrainEnds allows.                              *)
Drain ==
  /\ ~drained /\ rx # <<>>
  /\ ProcessNmtHeartbeat(Head(rx))
  /\ rx' = Tail(rx)
  /\ checked' = FALSE
  /\ UNCHANGED <<node, rtr, drained, outage>>

(* The drain ends: the socket has nothing more to read.  What arrives from *)
(* here on is left for the next cycle.                                     *)
DrainEnds ==
  /\ ~drained /\ rx = <<>>
  /\ drained' = TRUE
  /\ checked' = FALSE
  /\ UNCHANGED <<nodeVars, node, rtr, rx, outage>>

(* update(dt) with dt one tick.  The RTR may fail to be written. *)
Cycle ==
  /\ drained
  /\ Update(1)
  /\ rtr' \in IF NodeguardDue(1) THEN {rtr, TRUE} ELSE {rtr}
  /\ drained' = FALSE
  /\ checked' = TRUE
  /\ outage' = IF node = "OPERATIONAL" THEN 0 ELSE Count(outage)
  /\ UNCHANGED <<node, rx>>

-----------------------------------------------------------------------------
(* The node and the bus. *)

Answer ==
  /\ rtr
  /\ Len(rx) < MaxRx
  /\ \E b \in AnswersOf(node) : rx' = Append(rx, b)
  /\ rtr' = FALSE
  /\ UNCHANGED <<nodeVars, node, drained, checked, outage>>

LoseRtr ==
  /\ rtr
  /\ rtr' = FALSE
  /\ UNCHANGED <<nodeVars, node, rx, drained, checked, outage>>

(* The node stops, is switched off, or comes back.  One that boots reports *)
(* it and waits in PRE_OPERATIONAL until somebody starts it.               *)
NodeStops ==
  /\ node # "OFF"
  /\ node' \in {"STOPPED", "PRE_OPERATIONAL", "OFF"} \ {node}
  /\ UNCHANGED <<nodeVars, rtr, rx, drained, checked, outage>>

NodeBoots ==
  /\ node = "OFF"
  /\ node' = "PRE_OPERATIONAL"
  /\ rx' \in IF Len(rx) < MaxRx THEN {rx, Append(rx, HB_BOOTUP)} ELSE {rx}
  /\ UNCHANGED <<nodeVars, rtr, drained, checked, outage>>

(* Another master on the bus may start the node again (the tools under     *)
(* test/ broadcast NMT START).                                             *)
NodeStarted ==
  /\ node \in {"STOPPED", "PRE_OPERATIONAL"}
  /\ node' = "OPERATIONAL"
  /\ outage' = 0
  /\ UNCHANGED <<nodeVars, rtr, rx, drained, checked>>

Next ==
  \/ Drain
  \/ DrainEnds
  \/ Cycle
  \/ Answer
  \/ LoseRtr
  \/ NodeStops
  \/ NodeBoots
  \/ NodeStarted

Spec == Init /\ [][Next]_vars

-----------------------------------------------------------------------------
(* A node that has been out of OPERATIONAL for more than NMT_TIMEOUT        *)
(* updates is reported as FAULT by has_fault(), whatever it still answers  *)
(* (STOPPED, PRE_OPERATIONAL, a boot-up) and whatever answers from its     *)
(* better days were waiting in the socket when it died.  It is one more    *)
(* than the watchdog counts: the last OPERATIONAL answer may come in       *)
(* behind the drain, the node die, and the update() of that same cycle be  *)
(* the first of the outage, before the next drain restarts the watchdog    *)
(* (canopen_driver.cpp:41-44 against :183-192, steering_controller.cpp:    *)
(* 76-79).                                                                 *)
OutageDetected == checked /\ outage > NMT_TIMEOUT => nmt_state = "FAULT"

(* The failure detector of NodeMonitor: suspicion is FAULT. *)
Monitor == INSTANCE NodeMonitor WITH
  PATIENCE <- NMT_TIMEOUT + 1, up <- node = "OPERATIONAL", suspected <- nmt_state = "FAULT"

(* Each update() leaves a FAULT standing and declares one in every outage  *)
(* of more than NMT_TIMEOUT updates; only an answer takes it back, and an  *)
(* answer that does (STOPPED, PRE_OPERATIONAL) does not buy a dead node    *)
(* any time: canopen_driver.cpp:30-45 and :176-198.                        *)
ImplementsMonitor == Monitor!Spec

=============================================================================
