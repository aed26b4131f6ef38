------------------------- MODULE HealthyLinkProofs -------------------------
(***************************************************************************)
(* The sizing rule is sufficient for every period, timeout, loss count and *)
(* latency that satisfy it, not only for the values TLC was given.         *)
(***************************************************************************)
EXTENDS HealthyLink, TLAPS

(* Ticks the missed exchanges account for, and the most they may.          *)
Lost == missed * NODEGUARD_PERIOD
MaxLost == LOSSES * NODEGUARD_PERIOD

(* The watchdog never runs ahead of the exchanges that were missed and the *)
(* one under way, whose age the RTR timer measures.                        *)
WatchdogBounded ==
  /\ waiting  => watchdog_elapsed <= Lost + NODEGUARD_PERIOD + nodeguard_elapsed
  /\ ~waiting => watchdog_elapsed <= Lost + nodeguard_elapsed
  /\ waiting  => nodeguard_elapsed = age

IInv == TypeOK /\ WatchdogBounded /\ NoFalseFault

-----------------------------------------------------------------------------
(* The only products of the proof. *)
LEMMA Products ==
  ASSUME NEW p \in Nat, NEW k \in Nat, NEW m \in 0..k
  PROVE  /\ m * p \in Nat
         /\ (m + 1) * p = m * p + p
         /\ m * p <= k * p
         /\ (k + 1) * p = k * p + p
  <1>1. PICK d \in Nat : k = m + d
    <2>1. k - m \in Nat /\ k = m + (k - m)
      OBVIOUS
    <2> QED BY <2>1
  <1>2. (m + d) * p = m * p + d * p
    OBVIOUS
  <1>3. m * p \in Nat /\ d * p \in Nat
    OBVIOUS
  <1>4. (m + 1) * p = m * p + p /\ (k + 1) * p = k * p + p
    OBVIOUS
  <1> QED BY <1>1, <1>2, <1>3, <1>4

(* The sizing rule without products. *)
LEMMA Sizing ==
  /\ MaxLost \in Nat
  /\ MaxLost + NODEGUARD_PERIOD + LATENCY < NMT_TIMEOUT
  /\ LOSSES \in Nat
  /\ LATENCY \in Nat
  /\ LATENCY < NODEGUARD_PERIOD
  <1>1. LOSSES \in 0..LOSSES
    BY SizingAssumption
  <1>2. NODEGUARD_PERIOD \in Nat
    BY TimersAssumption
  <1>3. MaxLost \in Nat /\ (LOSSES + 1) * NODEGUARD_PERIOD = MaxLost + NODEGUARD_PERIOD
    BY <1>1, <1>2, Products, SizingAssumption DEF MaxLost
  <1> QED BY <1>3, SizingAssumption

LEMMA LostBounds ==
  ASSUME TypeOK
  PROVE  Lost \in Nat /\ Lost <= MaxLost
  <1>1. LOSSES \in Nat /\ missed \in 0..LOSSES /\ NODEGUARD_PERIOD \in Nat
    BY TimersAssumption, Sizing DEF TypeOK
  <1> QED BY <1>1, Products DEF Lost, MaxLost

(* Before an update the watchdog has room for one more tick. *)
LEMMA WatchdogHasRoom ==
  ASSUME IInv, waiting => age < LATENCY
  PROVE  ~WatchdogExpires(1)
  BY Sizing, LostBounds, TimersAssumption
  DEF IInv, TypeOK, NodeTypeOK, WatchdogBounded, WatchdogExpires

-----------------------------------------------------------------------------
LEMMA InitIInv == Init => IInv
  <1> SUFFICES ASSUME Init PROVE IInv
    OBVIOUS
  <1>1. waiting \in BOOLEAN
    BY Zenon DEF Init
  <1>2. TypeOK
    BY <1>1, TimersAssumption, Sizing DEF Init, TypeOK, NodeTypeOK, NmtState
  <1>3. Lost \in Nat
    BY <1>2, LostBounds
  <1> QED BY <1>2, <1>3 DEF Init, IInv, WatchdogBounded, NoFalseFault

LEMMA NextIInv == IInv /\ [Next]_vars => IInv'
  <1> SUFFICES ASSUME IInv, [Next]_vars PROVE IInv'
    OBVIOUS
  <1>0. Lost \in Nat /\ Lost <= MaxLost
    BY LostBounds DEF IInv
  <1> USE TimersAssumption, Sizing DEF IInv, TypeOK, NodeTypeOK, NmtState, NoFalseFault
  <1>1. CASE QuietCycle
    <2>1. /\ nodeguard_elapsed' = nodeguard_elapsed + 1
          /\ nodeguard_elapsed + 1 < NODEGUARD_PERIOD
          /\ watchdog_elapsed + 1 < NMT_TIMEOUT
          /\ watchdog_elapsed' = watchdog_elapsed + 1
          /\ UNCHANGED <<nmt_state, waiting, missed>>
          /\ waiting => age < LATENCY
          /\ age' = IF waiting THEN age + 1 ELSE age
      BY <1>1, WatchdogHasRoom
      DEF QuietCycle, Update, NodeguardDue, WatchdogExpires, SaturatedWatchdog
    <2>2. TypeOK'
      BY <2>1
    <2>3. Lost' = Lost
      BY <2>1 DEF Lost
    <2>4. WatchdogBounded'
      BY <1>0, <2>1, <2>3 DEF WatchdogBounded
    <2> QED BY <2>1, <2>2, <2>4
  <1>2. CASE GuardCycle
    <2>1. /\ nodeguard_elapsed' = 0
          /\ nodeguard_elapsed + 1 = NODEGUARD_PERIOD
          /\ watchdog_elapsed + 1 < NMT_TIMEOUT
          /\ watchdog_elapsed' = watchdog_elapsed + 1
          /\ UNCHANGED <<nmt_state, missed>>
          /\ waiting' = TRUE /\ age' = 0
          /\ waiting => age < LATENCY
      BY <1>2, WatchdogHasRoom
      DEF GuardCycle, Update, NodeguardDue, WatchdogExpires, SaturatedWatchdog
    <2>2. ~waiting
      BY <2>1 DEF WatchdogBounded
    <2>3. TypeOK'
      BY <2>1
    <2>4. Lost' = Lost
      BY <2>1 DEF Lost
    <2>5. WatchdogBounded'
      BY <1>0, <2>1, <2>2, <2>4 DEF WatchdogBounded
    <2> QED BY <2>1, <2>3, <2>5
  <1>3. CASE LoseExchange
    <2>1. /\ waiting /\ waiting' = FALSE
          /\ missed < LOSSES /\ missed' = missed + 1
          /\ UNCHANGED <<nmt_state, nodeguard_elapsed, watchdog_elapsed, age>>
      BY <1>3 DEF LoseExchange, nodeVars
    <2>2. Lost' = Lost + NODEGUARD_PERIOD
      BY <2>1, Products DEF Lost
    <2>3. WatchdogBounded'
      BY <1>0, <2>1, <2>2 DEF WatchdogBounded
    <2>4. waiting' \in BOOLEAN
      BY <2>1, Zenon
    <2>5. TypeOK'
      BY <2>1, <2>4
    <2> QED BY <2>1, <2>3, <2>5
  <1>4. CASE AnswerDrained
    <2>1. /\ nmt_state' = "OPERATIONAL" /\ watchdog_elapsed' = 0
          /\ waiting' = FALSE /\ missed' = 0
          /\ UNCHANGED <<nodeguard_elapsed, age>>
      BY <1>4 DEF AnswerDrained, ProcessNmtHeartbeat, HB_OPERATIONAL, HB_STOPPED,
                  HB_PRE_OPERATIONAL
    <2>2. NODEGUARD_PERIOD \in Nat /\ 0 * NODEGUARD_PERIOD = 0
      OBVIOUS
    <2>3. Lost' = 0
      BY <2>1, <2>2 DEF Lost
    <2>4. WatchdogBounded'
      BY <2>1, <2>3 DEF WatchdogBounded
    <2>5. waiting' \in BOOLEAN
      BY <2>1, Zenon
    <2>6. TypeOK'
      BY <2>1, <2>5
    <2> QED BY <2>1, <2>4, <2>6
  <1>5. CASE UNCHANGED vars
    BY <1>5 DEF vars, WatchdogBounded, Lost
  <1> QED BY <1>1, <1>2, <1>3, <1>4, <1>5 DEF Next

(* The specification keeps the types of its variables. *)
THEOREM TypeCorrect == Spec => []TypeOK
  <1>1. IInv => TypeOK
    BY DEF IInv
  <1> QED BY InitIInv, NextIInv, <1>1, PTL DEF Spec

(* A live node is never reported in FAULT, for every sizing that satisfies *)
(* SizingAssumption (canopen_driver.cpp:30-45 and :176-184).               *)
THEOREM LiveNodeNeverFaults == Spec => []NoFalseFault
  <1>1. IInv => NoFalseFault
    BY DEF IInv
  <1> QED BY InitIInv, NextIInv, <1>1, PTL DEF Spec

=============================================================================
