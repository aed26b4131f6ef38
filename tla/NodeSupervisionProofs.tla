----------------------- MODULE NodeSupervisionProofs -----------------------
(***************************************************************************)
(* A dead node is noticed by update NMT_TIMEOUT + 1 of its outage at the   *)
(* latest, for every timeout, RTR period and socket depth, and so, in an   *)
(* encoder, is a position that nobody reports any more.                    *)
(***************************************************************************)
EXTENDS EncoderFeedback, SequenceTheorems, TLAPS

(* Answers from before an outage are drained before its second update: a   *)
(* node that is out does not produce OPERATIONAL answers, so those that    *)
(* wait came in before the drain that precedes the first update, or behind *)
(* it.                                                                     *)
NoStaleAnswers ==
  /\ node = "OPERATIONAL" => outage = 0
  /\ \A i \in 1..Len(rx) : rx[i] \in HB_OPERATIONAL => outage <= IF drained THEN 0 ELSE 1

(* So from then on nothing restarts the watchdog, *)
WatchdogCoversOutage == outage <= watchdog_elapsed + 1

(* and an update with an expired watchdog leaves FAULT behind. *)
ExpiryReported == checked /\ watchdog_elapsed >= NMT_TIMEOUT => nmt_state = "FAULT"

IInv == TypeOK /\ NoStaleAnswers /\ WatchdogCoversOutage /\ ExpiryReported

-----------------------------------------------------------------------------
LEMMA InitIInv == Init => IInv
  <1> SUFFICES ASSUME Init PROVE IInv
    OBVIOUS
  <1>1. rtr \in BOOLEAN /\ drained \in BOOLEAN /\ checked \in BOOLEAN
    BY Zenon DEF Init
  <1>2. ~checked
    BY DEF Init
  <1> QED
    BY <1>1, <1>2, TimersAssumption
    DEF Init, IInv, TypeOK, NodeTypeOK, NmtState, NodeReality, NoStaleAnswers,
        WatchdogCoversOutage, ExpiryReported

(* Draining: the byte taken out is one of those waiting. *)
LEMMA DrainIInv == IInv /\ Drain => IInv'
  <1> SUFFICES ASSUME IInv, Drain PROVE IInv'
    OBVIOUS
  <1> USE DEF IInv, Drain, ProcessNmtHeartbeat
  <1>1. rx \in Seq(Bytes) /\ rx # <<>>
    BY DEF TypeOK
  <1>2. /\ Tail(rx) \in Seq(Bytes)
        /\ Len(Tail(rx)) = Len(rx) - 1
        /\ \A i \in 1..Len(Tail(rx)) : Tail(rx)[i] = rx[i + 1]
        /\ Head(rx) = rx[1]
        /\ Len(rx) \in Nat /\ Len(rx) >= 1
    BY <1>1
  <1>3. checked' \in BOOLEAN /\ rtr' \in BOOLEAN /\ drained' \in BOOLEAN /\ ~drained'
    BY Zenon DEF TypeOK
  <1>4. TypeOK'
    BY <1>2, <1>3, TimersAssumption DEF TypeOK, NodeTypeOK, NmtState
  <1>5. NoStaleAnswers'
    BY <1>2, <1>3 DEF NoStaleAnswers
  <1>6. WatchdogCoversOutage'
    <2>1. CASE Head(rx) \in HB_OPERATIONAL
      <3>1. outage <= 1
        BY <1>2, <2>1 DEF NoStaleAnswers
      <3> QED BY <2>1, <3>1 DEF WatchdogCoversOutage
    <2>2. CASE Head(rx) \notin HB_OPERATIONAL
      BY <2>2 DEF WatchdogCoversOutage
    <2> QED BY <2>1, <2>2
  <1>7. ExpiryReported'
    BY DEF ExpiryReported
  <1> QED BY <1>4, <1>5, <1>6, <1>7

(* The drain ends with nothing waiting. *)
LEMMA DrainEndsIInv == IInv /\ DrainEnds => IInv'
  <1> SUFFICES ASSUME IInv, DrainEnds PROVE IInv'
    OBVIOUS
  <1>1. checked' \in BOOLEAN /\ drained' \in BOOLEAN /\ ~checked'
    BY Zenon DEF DrainEnds
  <1> QED
    BY <1>1
    DEF DrainEnds, IInv, TypeOK, NodeTypeOK, nodeVars, NoStaleAnswers, WatchdogCoversOutage,
        ExpiryReported

(* What has come in behind the drain is of a node that was OPERATIONAL at  *)
(* the update before.                                                      *)
LEMMA CycleIInv == IInv /\ Cycle => IInv'
  <1> SUFFICES ASSUME IInv, Cycle PROVE IInv'
    OBVIOUS
  <1> USE TimersAssumption DEF IInv, Cycle, Update, SaturatedWatchdog, Count
  <1>1. rtr' \in BOOLEAN /\ checked' \in BOOLEAN /\ drained' \in BOOLEAN /\ ~drained'
    BY Zenon DEF TypeOK
  <1>2. TypeOK'
    BY <1>1 DEF TypeOK, NodeTypeOK, NmtState, NodeguardDue
  <1>3. NoStaleAnswers'
    BY <1>1 DEF NoStaleAnswers, TypeOK
  <1>4. WatchdogCoversOutage'
    BY DEF TypeOK, NodeTypeOK, WatchdogCoversOutage
  <1>5. ExpiryReported'
    BY DEF TypeOK, NodeTypeOK, ExpiryReported, WatchdogExpires
  <1> QED BY <1>2, <1>3, <1>4, <1>5

(* A frame that arrives is an OPERATIONAL answer only from a live node. *)
LEMMA ArrivalIInv ==
  ASSUME IInv, NEW b \in Bytes, rx' = Append(rx, b),
         b \in HB_OPERATIONAL => outage = 0,
         rtr' \in BOOLEAN, node' \in NodeReality, node' = "OPERATIONAL" => outage = 0,
         UNCHANGED <<nodeVars, drained, checked, outage>>
  PROVE  IInv'
  <1>1. /\ Append(rx, b) \in Seq(Bytes)
        /\ Len(Append(rx, b)) = Len(rx) + 1
        /\ \A i \in 1..Len(rx) : Append(rx, b)[i] = rx[i]
        /\ Append(rx, b)[Len(rx) + 1] = b
        /\ Len(rx) \in Nat
    BY DEF IInv, TypeOK
  <1>2. TypeOK'
    BY <1>1 DEF IInv, TypeOK, NodeTypeOK, nodeVars
  <1>3. NoStaleAnswers'
    <2>1. ASSUME NEW i \in 1..Len(rx'), rx'[i] \in HB_OPERATIONAL
          PROVE  outage <= IF drained THEN 0 ELSE 1
      <3>1. CASE i = Len(rx) + 1
        BY <1>1, <2>1, <3>1 DEF IInv, TypeOK
      <3>2. CASE i \in 1..Len(rx)
        BY <1>1, <2>1, <3>2 DEF IInv, NoStaleAnswers
      <3> QED BY <1>1, <3>1, <3>2
    <2> QED BY <2>1 DEF NoStaleAnswers
  <1>4. WatchdogCoversOutage' /\ ExpiryReported'
    BY DEF IInv, WatchdogCoversOutage, ExpiryReported, nodeVars
  <1> QED BY <1>2, <1>3, <1>4 DEF IInv

LEMMA AnswerIInv == IInv /\ Answer => IInv'
  <1> SUFFICES ASSUME IInv, Answer PROVE IInv'
    OBVIOUS
  <1>1. PICK b \in AnswersOf(node) : rx' = Append(rx, b)
    BY DEF Answer
  <1>2. b \in Bytes
    BY <1>1 DEF AnswersOf, Bytes, StateBytes
  <1>3. b \in HB_OPERATIONAL => outage = 0
    BY <1>1 DEF AnswersOf, IInv, NoStaleAnswers, HB_OPERATIONAL, HB_STOPPED,
                HB_PRE_OPERATIONAL
  <1>4. rtr' \in BOOLEAN
    BY Zenon DEF Answer
  <1>5. /\ node' \in NodeReality /\ (node' = "OPERATIONAL" => outage = 0)
        /\ UNCHANGED <<nodeVars, drained, checked, outage>>
    BY DEF Answer, IInv, TypeOK, NoStaleAnswers
  <1> QED BY <1>1, <1>2, <1>3, <1>4, <1>5, ArrivalIInv

LEMMA NodeBootsIInv == IInv /\ NodeBoots => IInv'
  <1> SUFFICES ASSUME IInv, NodeBoots PROVE IInv'
    OBVIOUS
  <1>1. /\ node' = "PRE_OPERATIONAL" /\ node' \in NodeReality
        /\ UNCHANGED <<nodeVars, rtr, drained, checked, outage>>
    BY DEF NodeBoots, NodeReality
  <1>2. CASE rx' = rx
    BY <1>1, <1>2
    DEF IInv, TypeOK, NodeTypeOK, NoStaleAnswers, WatchdogCoversOutage, ExpiryReported, nodeVars
  <1>3. CASE rx' = Append(rx, HB_BOOTUP)
    <2>1. HB_BOOTUP \in Bytes /\ HB_BOOTUP \notin HB_OPERATIONAL
      BY DEF Bytes, HB_BOOTUP, HB_OPERATIONAL
    <2>2. rtr' \in BOOLEAN
      BY <1>1 DEF IInv, TypeOK
    <2> QED BY <1>1, <1>3, <2>1, <2>2, ArrivalIInv
  <1> QED BY <1>2, <1>3 DEF NodeBoots

(* The remaining steps leave the socket and the master alone. *)
LEMMA EnvironmentIInv == IInv /\ (LoseRtr \/ NodeStops \/ NodeStarted) => IInv'
  <1> SUFFICES ASSUME IInv, LoseRtr \/ NodeStops \/ NodeStarted PROVE IInv'
    OBVIOUS
  <1>1. CASE LoseRtr
    <2>1. rtr' \in BOOLEAN
      BY <1>1, Zenon DEF LoseRtr
    <2> QED BY <1>1, <2>1
      DEF LoseRtr, IInv, TypeOK, NodeTypeOK, NoStaleAnswers, WatchdogCoversOutage,
          ExpiryReported, nodeVars
  <1>2. CASE NodeStops
    BY <1>2
    DEF NodeStops, NodeReality, IInv, TypeOK, NodeTypeOK, NoStaleAnswers,
        WatchdogCoversOutage, ExpiryReported, nodeVars
  <1>3. CASE NodeStarted
    BY <1>3, TimersAssumption
    DEF NodeStarted, NodeReality, IInv, TypeOK, NodeTypeOK, NoStaleAnswers,
        WatchdogCoversOutage, ExpiryReported, nodeVars
  <1> QED BY <1>1, <1>2, <1>3

LEMMA NextIInv == IInv /\ [Next]_vars => IInv'
  <1> SUFFICES ASSUME IInv, [Next]_vars PROVE IInv'
    OBVIOUS
  <1>1. CASE UNCHANGED vars
    BY <1>1
    DEF vars, IInv, TypeOK, NodeTypeOK, NoStaleAnswers, WatchdogCoversOutage, ExpiryReported
  <1> QED
    BY <1>1, DrainIInv, DrainEndsIInv, CycleIInv, AnswerIInv, NodeBootsIInv, EnvironmentIInv DEF Next

-----------------------------------------------------------------------------
(* The specification keeps the types of its variables. *)
THEOREM TypeCorrect == Spec => []TypeOK
  <1>1. IInv => TypeOK
    BY DEF IInv
  <1> QED BY InitIInv, NextIInv, <1>1, PTL DEF Spec

(* has_fault() sees FAULT at the latest at update NMT_TIMEOUT + 1 after    *)
(* the node left OPERATIONAL (canopen_driver.cpp:41-44 and :176-198,       *)
(* steering_controller.cpp:76-79).                                         *)
THEOREM DeadNodeIsDetected == Spec => []OutageDetected
  <1>1. IInv => OutageDetected
    BY TimersAssumption
    DEF IInv, TypeOK, NodeTypeOK, WatchdogCoversOutage, ExpiryReported, OutageDetected
  <1> QED BY InitIInv, NextIInv, <1>1, PTL DEF Spec

-----------------------------------------------------------------------------
(* What a step of the supervision is to the monitor. *)
Suspected == nmt_state = "FAULT"
Up == node = "OPERATIONAL"

LEMMA HearOrStutter ==
  ASSUME node' = node, outage' = outage, Suspected' => Suspected
  PROVE  [Monitor!Next]_Monitor!avars
  <1>1. CASE Suspected' = Suspected
    BY <1>1 DEF Monitor!avars, Suspected
  <1>2. CASE Suspected /\ ~Suspected'
    BY <1>2 DEF Monitor!Next, Monitor!Hear, Suspected
  <1> QED BY <1>1, <1>2 DEF Suspected

(* A drained byte never declares FAULT. *)
LEMMA DrainSimulates == Drain \/ DrainEnds => [Monitor!Next]_Monitor!avars
  <1> SUFFICES ASSUME Drain \/ DrainEnds PROVE [Monitor!Next]_Monitor!avars
    OBVIOUS
  <1>1. Suspected' => Suspected
    BY DEF Drain, DrainEnds, nodeVars, ProcessNmtHeartbeat, Suspected
  <1> QED BY <1>1, HearOrStutter DEF Drain, DrainEnds

(* update() keeps a FAULT, and declares it as the outage is long enough:   *)
(* the watchdog has run through all of it but the first update.            *)
LEMMA CycleSimulates == IInv /\ Cycle => [Monitor!Next]_Monitor!avars
  <1> SUFFICES ASSUME IInv, Cycle PROVE [Monitor!Next]_Monitor!avars
    OBVIOUS
  <1>1. IInv'
    BY CycleIInv
  <1>2. checked'
    BY DEF Cycle
  <1>3. outage' >= NMT_TIMEOUT + 1 => Suspected'
    <2>1. \A o \in 0..(NMT_TIMEOUT + 1), w \in 0..NMT_TIMEOUT :
            o <= w + 1 /\ o >= NMT_TIMEOUT + 1 => w >= NMT_TIMEOUT
      BY TimersAssumption
    <2>2. /\ outage' \in 0..(NMT_TIMEOUT + 1) /\ watchdog_elapsed' \in 0..NMT_TIMEOUT
          /\ outage' <= watchdog_elapsed' + 1
      BY <1>1, Zenon DEF IInv, TypeOK, NodeTypeOK, WatchdogCoversOutage
    <2>3. outage' >= NMT_TIMEOUT + 1 => watchdog_elapsed' >= NMT_TIMEOUT
      BY <2>1, <2>2, Zenon
    <2> QED
      BY <1>1, <1>2, <2>3, Zenon DEF IInv, ExpiryReported, Suspected
  <1>4. Suspected => Suspected'
    BY DEF Cycle, Update, Suspected
  <1>5. outage' = IF Up THEN 0
                ELSE IF outage >= NMT_TIMEOUT + 1 THEN NMT_TIMEOUT + 1 ELSE outage + 1
    BY TimersAssumption DEF Cycle, Count, Up, IInv, TypeOK
  <1>6. Suspected' \in BOOLEAN /\ Up' = Up
    BY DEF Cycle, Suspected, Up
  <1> QED
    BY <1>3, <1>4, <1>5, <1>6 DEF Monitor!Next, Monitor!Check, Suspected, Up

(* The node and the bus move without the master. *)
LEMMA NodeSimulates ==
  IInv /\ (Answer \/ LoseRtr \/ NodeStops \/ NodeBoots \/ NodeStarted)
    => [Monitor!Next]_Monitor!avars
  <1> SUFFICES ASSUME IInv, Answer \/ LoseRtr \/ NodeStops \/ NodeBoots \/ NodeStarted
               PROVE  [Monitor!Next]_Monitor!avars
    OBVIOUS
  <1>1. CASE Answer \/ LoseRtr \/ NodeBoots
    BY <1>1 DEF Answer, LoseRtr, NodeBoots, nodeVars, Monitor!avars
  <1>2. CASE NodeStops
    BY <1>2 DEF NodeStops, nodeVars, Monitor!avars, Monitor!Next, Monitor!GoDown
  <1>3. CASE NodeStarted
    BY <1>3 DEF NodeStarted, nodeVars, Monitor!Next, Monitor!ComeUp
  <1> QED BY <1>1, <1>2, <1>3

(* The supervision of a node is the failure detector of NodeMonitor        *)
(* (canopen_driver.cpp:30-45 and :176-198): a FAULT stands until an answer *)
(* takes it back, and in an outage every update() declares it again.       *)
THEOREM SupervisionImplementsMonitor == Spec => ImplementsMonitor
  <1>1. Init => Monitor!Init
    BY DEF Init, Monitor!Init
  <1>2. IInv /\ [Next]_vars => [Monitor!Next]_Monitor!avars
    <2> SUFFICES ASSUME IInv, [Next]_vars PROVE [Monitor!Next]_Monitor!avars
      OBVIOUS
    <2>1. CASE UNCHANGED vars
      BY <2>1 DEF vars, Monitor!avars
    <2> QED BY <2>1, DrainSimulates, CycleSimulates, NodeSimulates DEF Next
  <1> QED
    BY InitIInv, NextIInv, <1>1, <1>2, PTL DEF Spec, ImplementsMonitor, Monitor!Spec

-----------------------------------------------------------------------------
(* How old the position may be.  While the encoder lives, a SYNC that it   *)
(* answers brings a new one, so the age is the number of SYNCs it has left *)
(* unanswered; a report that waits in the socket is at the latest the      *)
(* answer to the last SYNC but one, and the drain in progress will take    *)
(* it; and once the encoder is dead, every cycle adds as much to the       *)
(* watchdog as to the age, unless an OPERATIONAL answer waits, which is    *)
(* drained no later than a report.                                         *)
ToBeDrained == reading /\ ~drained

AgeOfLive ==
  reports = <<>> /\ node = "OPERATIONAL" => age <= IF synced THEN losses + 1 ELSE 0

AgeOfReported == reports # <<>> => age <= LOSSES + 1 + (IF ToBeDrained THEN 1 ELSE 0)

AgeOfAnswered ==
  reports = <<>> /\ node # "OPERATIONAL"
    => \A i \in 1..Len(rx) : rx[i] \in HB_OPERATIONAL
         => age <= LOSSES + 1 + (IF ToBeDrained THEN 1 ELSE 0)

AgeOfDead ==
  reports = <<>> /\ node # "OPERATIONAL" /\ watchdog_elapsed < NMT_TIMEOUT
    => age <= LOSSES + 1 + watchdog_elapsed + (IF reading THEN 1 ELSE 0)

DrainedInRead == drained => reading

CheckedBetweenReads == ~reading => checked \/ age = 0

AgeInv ==
  /\ IInv /\ FeedbackTypeOK
  /\ AgeOfLive /\ AgeOfReported /\ AgeOfAnswered /\ AgeOfDead
  /\ DrainedInRead /\ CheckedBetweenReads

LEMMA InitAge == EncoderInit => AgeInv
  <1> SUFFICES ASSUME EncoderInit PROVE AgeInv
    OBVIOUS
  <1>1. IInv
    BY InitIInv DEF EncoderInit
  <1>2. FeedbackTypeOK
    <2>1. valid \in BOOLEAN /\ reading \in BOOLEAN /\ synced \in BOOLEAN
      BY Zenon DEF EncoderInit
    <2> QED
      BY <2>1, EncoderAssumption, TimersAssumption DEF EncoderInit, FeedbackTypeOK, Oldest
  <1>3. ~drained
    BY DEF EncoderInit, Init
  <1> QED
    BY <1>1, <1>2, <1>3, EncoderAssumption
    DEF EncoderInit, Init, AgeInv, AgeOfLive, AgeOfReported, AgeOfAnswered, AgeOfDead,
        DrainedInRead, CheckedBetweenReads, IInv, TypeOK, NodeTypeOK

(* One SYNC more, of which a live encoder has missed the last or has not,  *)
(* and with it a drain that is to come.                                    *)
LEMMA SendSyncAge == AgeInv /\ SendSync => AgeInv'
  <1> SUFFICES ASSUME AgeInv, SendSync PROVE AgeInv'
    OBVIOUS
  <1> USE EncoderAssumption, TimersAssumption DEF AgeInv, SendSync, FeedbackTypeOK
  <1>1. IInv'
    BY NextIInv
  <1>2. age' \in 0..Oldest /\ age' <= age + 1
    BY DEF Older, Oldest
  <1>3. losses' \in 0..LOSSES
    OBVIOUS
  <1>4. FeedbackTypeOK'
    BY <1>2, <1>3
  <1>5. reading' /\ ~reading /\ ~drained /\ ~drained'
    BY DEF DrainedInRead, vars
  <1>6. AgeOfLive' /\ AgeOfReported' /\ AgeOfDead' /\ DrainedInRead' /\ CheckedBetweenReads'
    BY <1>2, <1>5
    DEF vars, AgeOfLive, AgeOfReported, AgeOfDead, DrainedInRead, CheckedBetweenReads,
        ToBeDrained, IInv, TypeOK, NodeTypeOK
  <1>7. AgeOfAnswered'
    BY <1>2, <1>5 DEF vars, AgeOfAnswered, ToBeDrained, IInv, TypeOK
  <1> QED BY <1>1, <1>4, <1>6, <1>7

(* The drain leaves no report older than itself. *)
LEMMA DrainReportAge == AgeInv /\ DrainReport => AgeInv'
  <1> SUFFICES ASSUME AgeInv, DrainReport PROVE AgeInv'
    OBVIOUS
  <1> USE EncoderAssumption, TimersAssumption DEF AgeInv, DrainReport, FeedbackTypeOK
  <1>1. IInv'
    BY NextIInv
  <1>2. Head(reports) \in Int /\ Tail(reports) \in Seq(Positions)
    BY HeadTailProperties
  <1>3. FeedbackTypeOK'
    BY <1>2 DEF Oldest
  <1>4. AgeOfLive' /\ AgeOfReported' /\ AgeOfDead' /\ DrainedInRead' /\ CheckedBetweenReads'
    BY DEF vars, AgeOfLive, AgeOfReported, AgeOfDead, DrainedInRead, CheckedBetweenReads,
           IInv, TypeOK, NodeTypeOK
  <1>5. AgeOfAnswered'
    BY DEF vars, AgeOfAnswered, IInv, TypeOK
  <1> QED BY <1>1, <1>3, <1>4, <1>5

(* A drained OPERATIONAL answer restarts the watchdog while the age is     *)
(* still within that of a report; any other answer leaves both alone.      *)
LEMMA DrainAnswerAge == AgeInv /\ DrainAnswer => AgeInv'
  <1> SUFFICES ASSUME AgeInv, DrainAnswer PROVE AgeInv'
    OBVIOUS
  <1> USE EncoderAssumption, TimersAssumption DEF AgeInv, DrainAnswer, FeedbackTypeOK
  <1>1. IInv'
    BY NextIInv DEF Next
  <1>2. FeedbackTypeOK'
    BY DEF feedbackVars
  <1>3. /\ reading /\ ~drained
        /\ UNCHANGED <<reading, synced, reports, losses, age, node>>
        /\ drained' = drained
    BY DEF Drain, feedbackVars
  <1>4. /\ rx \in Seq(Bytes) /\ rx # <<>> /\ rx' = Tail(rx)
    BY DEF Drain, IInv, TypeOK
  <1>5. /\ Len(Tail(rx)) = Len(rx) - 1
        /\ \A i \in 1..Len(Tail(rx)) : Tail(rx)[i] = rx[i + 1]
        /\ Head(rx) = rx[1]
        /\ Len(rx) \in Nat /\ Len(rx) >= 1
    BY <1>4
  <1>6. AgeOfLive' /\ AgeOfReported' /\ DrainedInRead' /\ CheckedBetweenReads'
    BY <1>3 DEF AgeOfLive, AgeOfReported, DrainedInRead, CheckedBetweenReads, ToBeDrained
  <1>7. AgeOfAnswered'
    BY <1>3, <1>4, <1>5 DEF AgeOfAnswered, ToBeDrained
  <1>8. AgeOfDead'
    <2>1. CASE Head(rx) \in HB_OPERATIONAL
      <3>1. reports = <<>> /\ node # "OPERATIONAL" => age <= LOSSES + 2
        BY <1>3, <1>5, <2>1 DEF AgeOfAnswered, ToBeDrained
      <3>2. watchdog_elapsed' = 0
        BY <2>1 DEF Drain, ProcessNmtHeartbeat
      <3> QED BY <1>3, <3>1, <3>2 DEF AgeOfDead
    <2>2. CASE Head(rx) \notin HB_OPERATIONAL
      <3>1. watchdog_elapsed' = watchdog_elapsed
        BY <2>2 DEF Drain, ProcessNmtHeartbeat
      <3> QED BY <1>3, <3>1 DEF AgeOfDead
    <2> QED BY <2>1, <2>2
  <1> QED BY <1>1, <1>2, <1>6, <1>7, <1>8

(* The drain ends when neither reports nor answers wait. *)
LEMMA DrainEndAge == AgeInv /\ DrainLeavesNothing => AgeInv'
  <1> SUFFICES ASSUME AgeInv, DrainLeavesNothing PROVE AgeInv'
    OBVIOUS
  <1> USE EncoderAssumption, TimersAssumption DEF AgeInv, DrainLeavesNothing, FeedbackTypeOK
  <1>1. IInv'
    BY NextIInv DEF Next
  <1>2. FeedbackTypeOK'
    BY DEF feedbackVars
  <1>3. /\ reading /\ reading' /\ reports = <<>> /\ rx' = <<>>
        /\ UNCHANGED <<synced, reports, losses, age, node, watchdog_elapsed>>
    BY DEF DrainEnds, feedbackVars, nodeVars
  <1>4. /\ AgeOfLive' /\ AgeOfReported' /\ AgeOfAnswered' /\ AgeOfDead'
        /\ DrainedInRead' /\ CheckedBetweenReads'
    BY <1>3
    DEF AgeOfLive, AgeOfReported, AgeOfAnswered, AgeOfDead, DrainedInRead, CheckedBetweenReads
  <1> QED BY <1>1, <1>2, <1>4

(* update(): the watchdog of a dead encoder counts one more.  What has     *)
(* come in behind the drain is as young as what the drain left nothing of. *)
LEMMA UpdateEncoderAge == AgeInv /\ UpdateEncoder => AgeInv'
  <1> SUFFICES ASSUME AgeInv, UpdateEncoder PROVE AgeInv'
    OBVIOUS
  <1> USE EncoderAssumption, TimersAssumption DEF AgeInv, UpdateEncoder, FeedbackTypeOK
  <1>1. IInv'
    BY NextIInv DEF Next
  <1>2. /\ checked' /\ drained /\ ~drained' /\ reading /\ ~reading'
        /\ node' = node /\ rx' = rx
        /\ watchdog_elapsed' = SaturatedWatchdog(watchdog_elapsed + 1)
    BY DEF Cycle, Update
  <1>3. AgeOfLive' /\ AgeOfReported' /\ DrainedInRead' /\ CheckedBetweenReads'
    BY <1>2 DEF AgeOfLive, AgeOfReported, DrainedInRead, CheckedBetweenReads, ToBeDrained
  <1>4. AgeOfAnswered'
    BY <1>2 DEF AgeOfAnswered, ToBeDrained
  <1>5. AgeOfDead'
    BY <1>2 DEF AgeOfDead, SaturatedWatchdog, IInv, TypeOK, NodeTypeOK
  <1> QED BY <1>1, <1>3, <1>4, <1>5

(* A live encoder answers the last SYNC. *)
LEMMA ReportAge == AgeInv /\ Report => AgeInv'
  <1> SUFFICES ASSUME AgeInv, Report PROVE AgeInv'
    OBVIOUS
  <1> USE EncoderAssumption, TimersAssumption DEF AgeInv, Report, FeedbackTypeOK
  <1>1. IInv'
    BY NextIInv
  <1>2. reports' \in Seq(Positions) /\ reports' # <<>>
    BY AppendProperties
  <1>3. /\ AgeOfLive' /\ AgeOfReported' /\ AgeOfAnswered' /\ AgeOfDead'
        /\ DrainedInRead' /\ CheckedBetweenReads'
    BY <1>2
    DEF vars, AgeOfLive, AgeOfReported, AgeOfAnswered, AgeOfDead, DrainedInRead,
        CheckedBetweenReads, ToBeDrained, IInv, TypeOK
  <1> QED BY <1>1, <1>2, <1>3

(* The rest of it: the node answers, and only a live one OPERATIONAL, or   *)
(* stops.                                                                  *)
LEMMA NodeAge == AgeInv /\ (Turn \/ NodeMoves) => AgeInv'
  <1> SUFFICES ASSUME AgeInv, Turn \/ NodeMoves PROVE AgeInv'
    OBVIOUS
  <1> USE EncoderAssumption, TimersAssumption DEF AgeInv, FeedbackTypeOK
  <1>1. IInv'
    BY NextIInv DEF Next, Turn, NodeMoves
  <1>2. FeedbackTypeOK'
    BY DEF Turn, NodeMoves, feedbackVars
  <1>3. /\ UNCHANGED <<reading, synced, reports, losses, age, watchdog_elapsed>>
        /\ drained' = drained /\ checked' = checked
        /\ node' = "OPERATIONAL" => node = "OPERATIONAL"
    BY DEF Turn, NodeMoves, feedbackVars, vars, Answer, LoseRtr, NodeStops, NodeBoots, nodeVars
  <1>4. AgeOfLive' /\ AgeOfReported' /\ AgeOfDead' /\ DrainedInRead' /\ CheckedBetweenReads'
    BY <1>3
    DEF AgeOfLive, AgeOfReported, AgeOfDead, DrainedInRead, CheckedBetweenReads, ToBeDrained,
        IInv, TypeOK, NodeTypeOK
  <1>5. AgeOfAnswered'
    <2>1. CASE node = "OPERATIONAL"
      BY <1>3, <2>1 DEF AgeOfLive, AgeOfAnswered, ToBeDrained
    <2>2. ASSUME node # "OPERATIONAL",
                 NEW i \in 1..Len(rx'), rx'[i] \in HB_OPERATIONAL
          PROVE  i \in 1..Len(rx) /\ rx[i] \in HB_OPERATIONAL
      <3>1. rx \in Seq(Bytes) /\ Len(rx) \in Nat
        BY DEF IInv, TypeOK
      <3>2. rx' = rx \/ \E b \in Bytes : b \notin HB_OPERATIONAL /\ rx' = Append(rx, b)
        BY <2>2
        DEF Turn, NodeMoves, vars, Answer, LoseRtr, NodeStops, NodeBoots, AnswersOf, Bytes,
            StateBytes, HB_OPERATIONAL, HB_STOPPED, HB_PRE_OPERATIONAL, HB_BOOTUP
      <3>3. CASE rx' = rx
        BY <2>2, <3>3
      <3>4. ASSUME NEW b \in Bytes, b \notin HB_OPERATIONAL, rx' = Append(rx, b)
            PROVE  i \in 1..Len(rx) /\ rx[i] \in HB_OPERATIONAL
        <4>1. /\ Len(Append(rx, b)) = Len(rx) + 1
              /\ Append(rx, b)[Len(rx) + 1] = b
              /\ \A k \in 1..Len(rx) : Append(rx, b)[k] = rx[k]
          BY <3>1
        <4>2. i \in 1..(Len(rx) + 1) /\ i # Len(rx) + 1
          BY <2>2, <3>4, <4>1
        <4>3. i \in 1..Len(rx)
          BY <3>1, <4>2
        <4> QED BY <2>2, <3>4, <4>1, <4>3
      <3> QED BY <3>2, <3>3, <3>4
    <2>3. CASE node # "OPERATIONAL"
      BY <1>3, <2>2, <2>3 DEF AgeOfAnswered, ToBeDrained
    <2> QED BY <2>1, <2>3
  <1> QED BY <1>1, <1>2, <1>4, <1>5

LEMMA NextAge == AgeInv /\ [EncoderNext]_<<vars, feedbackVars>> => AgeInv'
  <1> SUFFICES ASSUME AgeInv, [EncoderNext]_<<vars, feedbackVars>> PROVE AgeInv'
    OBVIOUS
  <1>1. CASE UNCHANGED <<vars, feedbackVars>>
    <2>1. IInv'
      BY <1>1, NextIInv DEF AgeInv
    <2> QED
      BY <1>1, <2>1
      DEF AgeInv, vars, feedbackVars, FeedbackTypeOK, AgeOfLive, AgeOfReported, AgeOfAnswered,
          AgeOfDead, DrainedInRead, CheckedBetweenReads, ToBeDrained
  <1> QED
    BY <1>1, SendSyncAge, DrainReportAge, DrainAnswerAge, DrainEndAge, UpdateEncoderAge,
       ReportAge, NodeAge
    DEF EncoderNext

(* A position that nobody reports any more is one of an encoder in FAULT,  *)
(* at the latest NMT_TIMEOUT cycles after the losses stop explaining its   *)
(* age (encoder_driver.cpp:105-132, canopen_driver.cpp:30-45).             *)
THEOREM StalePositionIsNoticed == EncoderSpec => []StalePositionIsKnown
  <1>1. AgeInv => StalePositionIsKnown
    <2> SUFFICES ASSUME AgeInv, ~reading, age > NMT_TIMEOUT + LOSSES
                 PROVE  nmt_state = "FAULT"
      BY DEF StalePositionIsKnown
    <2> USE EncoderAssumption, TimersAssumption DEF AgeInv, FeedbackTypeOK, IInv, TypeOK
    <2>1. reports = <<>>
      BY DEF AgeOfReported, ToBeDrained
    <2>2. node # "OPERATIONAL"
      BY <2>1 DEF AgeOfLive
    <2>3. watchdog_elapsed >= NMT_TIMEOUT
      BY <2>1, <2>2 DEF AgeOfDead, NodeTypeOK
    <2>4. checked
      BY DEF CheckedBetweenReads
    <2> QED
      BY <2>3, <2>4 DEF ExpiryReported
  <1> QED BY InitAge, NextAge, <1>1, PTL DEF EncoderSpec

=============================================================================
