----------------------------- MODULE CanChannel -----------------------------
(***************************************************************************)
(* What a CAN interface promises to the drivers above it: while it is      *)
(* open, the frames of the bus wait in an inbox and are delivered in the   *)
(* order in which they came, each of them at most once; what is not        *)
(* delivered before the interface closes is gone.  A frame may be lost,    *)
(* none is made up, repeated or overtaken.  SocketCAN implements it.       *)
(***************************************************************************)
EXTENDS Sequences, SequencesExt

CONSTANT Frame

VARIABLES
  open,       \* the interface listens to the bus
  inbox,      \* frames heard and not delivered yet
  delivered   \* history: the frames the drivers were given

avars == <<open, inbox, delivered>>

Init ==
  /\ open = FALSE
  /\ inbox = <<>>
  /\ delivered = <<>>

Open ==
  /\ ~open /\ open' = TRUE
  /\ UNCHANGED <<inbox, delivered>>

Close ==
  /\ open /\ open' = FALSE
  /\ inbox' = <<>>
  /\ UNCHANGED delivered

Arrive ==
  /\ open
  /\ \E f \in Frame : inbox' = Append(inbox, f)
  /\ UNCHANGED <<open, delivered>>

Lose ==
  /\ \E i \in 1..Len(inbox) : inbox' = RemoveAt(inbox, i)
  /\ UNCHANGED <<open, delivered>>

(* One call of read() delivers the oldest frames, usually all of them. *)
Deliver ==
  /\ open
  /\ \E n \in 1..Len(inbox) :
       /\ delivered' = delivered \o SubSeq(inbox, 1, n)
       /\ inbox' = SubSeq(inbox, n + 1, Len(inbox))
  /\ UNCHANGED open

Next == Open \/ Close \/ Arrive \/ Lose \/ Deliver

Spec == Init /\ [][Next]_avars

=============================================================================
