---------------------- MODULE SampledSupervisionProofs ----------------------
(***************************************************************************)
(* How far a multiplicity stretches the timers, for every timeout, period  *)
(* and multiplicity.                                                       *)
(***************************************************************************)
EXTENDS SampledSupervision, TLAPS

(* Each acting read accounts for MULTIPLICITY cycles of silence.           *)
WatchdogCoversSilence ==
  \/ watchdog_elapsed = NMT_TIMEOUT
  \/ silence <= watchdog_elapsed * MULTIPLICITY + read_counter

(* An expired watchdog leaves FAULT behind. *)
ExpiryReported == watchdog_elapsed = NMT_TIMEOUT => nmt_state = "FAULT"

(* The same for the timer of the RTR. *)
TimerCoversGap == unguarded <= nodeguard_elapsed * MULTIPLICITY + read_counter

(* After an acting read the next one is a whole multiplicity away. *)
CheckedAtZero == checked => read_counter = 0

IInv == /\ TypeOK
        /\ WatchdogCoversSilence
        /\ ExpiryReported
        /\ TimerCoversGap
        /\ CheckedAtZero

-----------------------------------------------------------------------------
LEMMA OneMorePeriod ==
  ASSUME NEW n \in Nat
  PROVE  /\ n * MULTIPLICITY \in Nat
         /\ (n + 1) * MULTIPLICITY = n * MULTIPLICITY + MULTIPLICITY
  BY MultiplicityAssumption

LEMMA MorePeriodsTakeLonger ==
  ASSUME NEW m \in Nat, NEW n \in Nat, m <= n
  PROVE  m * MULTIPLICITY <= n * MULTIPLICITY
  BY MultiplicityAssumption

LEMMA LongerIsOneMore ==
  ASSUME NEW n \in Nat
  PROVE  Longer(n) \in Nat /\ Longer(n) <= n + 1
<1>1. LongestSilence \in Nat
  BY TimersAssumption, MultiplicityAssumption DEF LongestSilence
<1> QED BY <1>1 DEF Longer

LEMMA InitHolds == Init => IInv
<1> SUFFICES ASSUME Init PROVE IInv
  OBVIOUS
<1> USE TimersAssumption, MultiplicityAssumption DEF Init
<1>1. 0 * MULTIPLICITY = 0
  OBVIOUS
<1>2. checked \in BOOLEAN /\ answered \in BOOLEAN
  BY Zenon
<1>3. TypeOK
  BY <1>2 DEF TypeOK, NodeTypeOK, NmtState
<1>4. WatchdogCoversSilence /\ TimerCoversGap
  BY <1>1 DEF WatchdogCoversSilence, TimerCoversGap
<1>5. ExpiryReported /\ CheckedAtZero
  BY DEF ExpiryReported, CheckedAtZero
<1> QED BY <1>3, <1>4, <1>5 DEF IInv

LEMMA NextKeeps == IInv /\ [Next]_vars => IInv'
<1> SUFFICES ASSUME IInv, [Next]_vars PROVE IInv'
  OBVIOUS
<1> USE TimersAssumption, MultiplicityAssumption
<1>1. CASE ReadSkips
  <2>1. /\ read_counter' = read_counter + 1 /\ read_counter + 1 < MULTIPLICITY
        /\ checked' = FALSE
        /\ silence' \in Nat /\ silence' <= silence + 1
        /\ unguarded' = unguarded + 1
        /\ UNCHANGED <<nmt_state, nodeguard_elapsed, watchdog_elapsed, up, answered>>
    BY <1>1, LongerIsOneMore DEF ReadSkips, ReadDue, nodeVars, IInv, TypeOK
  <2>2. watchdog_elapsed * MULTIPLICITY \in Nat /\ nodeguard_elapsed * MULTIPLICITY \in Nat
    BY OneMorePeriod DEF IInv, TypeOK, NodeTypeOK
  <2>3. checked' \in BOOLEAN
    BY <2>1, Zenon
  <2>4. TypeOK'
    BY <2>1, <2>3 DEF IInv, TypeOK, NodeTypeOK
  <2>5. WatchdogCoversSilence' /\ TimerCoversGap'
    BY <2>1, <2>2 DEF IInv, TypeOK, WatchdogCoversSilence, TimerCoversGap
  <2>6. ExpiryReported' /\ CheckedAtZero'
    BY <2>1 DEF IInv, ExpiryReported, CheckedAtZero
  <2> QED BY <2>4, <2>5, <2>6 DEF IInv
<1>2. CASE ReadDrains
  <2>1. /\ nmt_state' = "OPERATIONAL" /\ watchdog_elapsed' = 0
        /\ checked' = FALSE /\ answered' = FALSE
        /\ silence' = 0
        /\ UNCHANGED <<nodeguard_elapsed, read_counter, up, unguarded>>
    BY <1>2 DEF ReadDrains, ProcessNmtHeartbeat, HB_OPERATIONAL, HB_STOPPED,
                HB_PRE_OPERATIONAL
  <2>2. 0 * MULTIPLICITY = 0
    OBVIOUS
  <2>3. checked' \in BOOLEAN /\ answered' \in BOOLEAN
    BY <2>1, Zenon
  <2>4. TypeOK'
    BY <2>1, <2>3 DEF IInv, TypeOK, NodeTypeOK, NmtState
  <2>5. WatchdogCoversSilence' /\ TimerCoversGap'
    BY <2>1, <2>2 DEF IInv, TypeOK, WatchdogCoversSilence, TimerCoversGap
  <2>6. ExpiryReported' /\ CheckedAtZero'
    BY <2>1 DEF IInv, ExpiryReported, CheckedAtZero
  <2> QED BY <2>4, <2>5, <2>6 DEF IInv
<1>3. CASE ReadUpdates
  <2>1. /\ read_counter' = 0 /\ read_counter + 1 = MULTIPLICITY
        /\ checked' = TRUE
        /\ silence' \in Nat /\ silence' <= silence + 1
        /\ unguarded' = IF NodeguardDue(1) THEN 0 ELSE unguarded + 1
        /\ Update(1)
    BY <1>3, LongerIsOneMore DEF ReadUpdates, ReadDue, IInv, TypeOK
  <2>2. up' \in BOOLEAN /\ answered' \in BOOLEAN
    BY <1>3 DEF ReadUpdates, IInv, TypeOK
  <2>3. checked' \in BOOLEAN
    BY <2>1, Zenon
  <2>4. /\ watchdog_elapsed' = NMT_TIMEOUT /\ nmt_state' = "FAULT"
        \/ /\ watchdog_elapsed' = watchdog_elapsed + 1 /\ watchdog_elapsed' < NMT_TIMEOUT
           /\ nmt_state' = nmt_state
    BY <2>1 DEF Update, WatchdogExpires, SaturatedWatchdog, IInv, TypeOK, NodeTypeOK
  <2>5. /\ nodeguard_elapsed' = 0 /\ unguarded' = 0
        \/ /\ nodeguard_elapsed' = nodeguard_elapsed + 1
           /\ nodeguard_elapsed' < NODEGUARD_PERIOD
           /\ unguarded' = unguarded + 1
    BY <2>1 DEF Update, NodeguardDue, IInv, TypeOK, NodeTypeOK
  <2>6. TypeOK'
    BY <2>1, <2>2, <2>3, <2>4, <2>5 DEF IInv, TypeOK, NodeTypeOK, NmtState
  <2>7. WatchdogCoversSilence'
    <3>1. (watchdog_elapsed + 1) * MULTIPLICITY
            = watchdog_elapsed * MULTIPLICITY + MULTIPLICITY
          /\ watchdog_elapsed * MULTIPLICITY \in Nat
      BY OneMorePeriod DEF IInv, TypeOK, NodeTypeOK
    <3>2. CASE watchdog_elapsed' = NMT_TIMEOUT
      BY <3>2 DEF WatchdogCoversSilence
    <3>3. CASE watchdog_elapsed' = watchdog_elapsed + 1 /\ watchdog_elapsed' < NMT_TIMEOUT
      <4>1. silence <= watchdog_elapsed * MULTIPLICITY + read_counter
        BY <3>3 DEF IInv, WatchdogCoversSilence, TypeOK, NodeTypeOK
      <4>2. silence' <= watchdog_elapsed' * MULTIPLICITY + read_counter'
        BY <2>1, <3>1, <3>3, <4>1 DEF IInv, TypeOK
      <4> QED BY <4>2 DEF WatchdogCoversSilence
    <3> QED BY <2>4, <3>2, <3>3
  <2>8. TimerCoversGap'
    <3>1. (nodeguard_elapsed + 1) * MULTIPLICITY
            = nodeguard_elapsed * MULTIPLICITY + MULTIPLICITY
          /\ nodeguard_elapsed * MULTIPLICITY \in Nat
      BY OneMorePeriod DEF IInv, TypeOK, NodeTypeOK
    <3>2. 0 * MULTIPLICITY = 0
      OBVIOUS
    <3> QED
      BY <2>1, <2>5, <3>1, <3>2 DEF IInv, TypeOK, TimerCoversGap
  <2>9. ExpiryReported' /\ CheckedAtZero'
    BY <2>1, <2>4 DEF ExpiryReported, CheckedAtZero
  <2> QED BY <2>6, <2>7, <2>8, <2>9 DEF IInv
<1>4. CASE NodeChanges
  BY <1>4 DEF NodeChanges, nodeVars, IInv, TypeOK, NodeTypeOK, WatchdogCoversSilence,
              ExpiryReported, TimerCoversGap, CheckedAtZero
<1>5. CASE UNCHANGED vars
  BY <1>5 DEF vars, nodeVars, IInv, TypeOK, NodeTypeOK, WatchdogCoversSilence,
              ExpiryReported, TimerCoversGap, CheckedAtZero
<1> QED BY <1>1, <1>2, <1>3, <1>4, <1>5 DEF Next

LEMMA SilenceIsAccountedFor == Spec => []IInv
  BY InitHolds, NextKeeps, PTL DEF Spec

(* A node silent for NMT_TIMEOUT times the multiplicity is in FAULT.       *)
THEOREM SilentNodeIsDetected == Spec => []SilenceDetected
<1>1. IInv => SilenceDetected
  <2> SUFFICES ASSUME IInv, checked, silence >= NMT_TIMEOUT * MULTIPLICITY,
                      watchdog_elapsed # NMT_TIMEOUT
               PROVE  FALSE
    BY DEF SilenceDetected, IInv, ExpiryReported
  <2> USE TimersAssumption, MultiplicityAssumption
  <2>1. watchdog_elapsed \in Nat /\ watchdog_elapsed + 1 <= NMT_TIMEOUT
    BY DEF IInv, TypeOK, NodeTypeOK
  <2>2. silence <= watchdog_elapsed * MULTIPLICITY
    BY <2>1, OneMorePeriod DEF IInv, WatchdogCoversSilence, CheckedAtZero, TypeOK
  <2>3. (watchdog_elapsed + 1) * MULTIPLICITY <= NMT_TIMEOUT * MULTIPLICITY
    BY <2>1, MorePeriodsTakeLonger
  <2>4. (watchdog_elapsed + 1) * MULTIPLICITY = watchdog_elapsed * MULTIPLICITY + MULTIPLICITY
        /\ watchdog_elapsed * MULTIPLICITY \in Nat
    BY <2>1, OneMorePeriod
  <2>5. NMT_TIMEOUT * MULTIPLICITY \in Nat
    BY OneMorePeriod
  <2> QED BY <2>2, <2>3, <2>4, <2>5 DEF IInv, TypeOK
<1> QED BY <1>1, SilenceIsAccountedFor, PTL

(* RTRs are never further apart than a period times the multiplicity.      *)
THEOREM GuardsComeOnTime == Spec => []GuardsOnTime
<1>1. IInv => GuardsOnTime
  <2> SUFFICES ASSUME IInv PROVE GuardsOnTime
    OBVIOUS
  <2> USE TimersAssumption, MultiplicityAssumption
  <2>1. nodeguard_elapsed \in Nat /\ nodeguard_elapsed + 1 <= NODEGUARD_PERIOD
    BY DEF IInv, TypeOK, NodeTypeOK
  <2>2. (nodeguard_elapsed + 1) * MULTIPLICITY <= NODEGUARD_PERIOD * MULTIPLICITY
    BY <2>1, MorePeriodsTakeLonger
  <2>3. (nodeguard_elapsed + 1) * MULTIPLICITY
          = nodeguard_elapsed * MULTIPLICITY + MULTIPLICITY
        /\ nodeguard_elapsed * MULTIPLICITY \in Nat
    BY <2>1, OneMorePeriod
  <2>4. NODEGUARD_PERIOD * MULTIPLICITY \in Nat
    BY OneMorePeriod
  <2> QED BY <2>2, <2>3, <2>4 DEF IInv, TypeOK, TimerCoversGap, GuardsOnTime
<1> QED BY <1>1, SilenceIsAccountedFor, PTL

=============================================================================
