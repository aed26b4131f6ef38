---------------------------- MODULE NodeMonitor ----------------------------
(***************************************************************************)
(* What a node driver promises of the node it watches: a failure detector  *)
(* that may err by suspecting a live node, and that suspects a dead one    *)
(* after PATIENCE checks at the latest, at every check, however often an   *)
(* answer talked it out of it in between.  NodeSupervision implements it.  *)
(***************************************************************************)
EXTENDS Naturals

CONSTANT PATIENCE   \* checks a node may be down before it must be suspected

VARIABLES
  up,          \* the node does its work
  suspected,   \* the master believes it does not
  outage       \* checks since it last did, at most PATIENCE

avars == <<up, suspected, outage>>

Init ==
  /\ up \in BOOLEAN
  /\ suspected = FALSE
  /\ outage = 0

(* A suspicion, founded or not, is not withdrawn by a check. *)
Check ==
  /\ outage' = IF up THEN 0 ELSE IF outage >= PATIENCE THEN PATIENCE ELSE outage + 1
  /\ suspected' \in BOOLEAN
  /\ suspected \/ outage' >= PATIENCE => suspected'
  /\ UNCHANGED up

(* It is withdrawn when the node is heard of, alive or not. *)
Hear ==
  /\ suspected /\ suspected' = FALSE
  /\ UNCHANGED <<up, outage>>

GoDown ==
  /\ up /\ up' = FALSE
  /\ UNCHANGED <<suspected, outage>>

ComeUp ==
  /\ ~up /\ up' = TRUE
  /\ outage' = 0
  /\ UNCHANGED suspected

Next == Check \/ Hear \/ GoDown \/ ComeUp

Spec == Init /\ [][Next]_avars

=============================================================================
