-------------------------- MODULE EncoderFeedback --------------------------
(***************************************************************************)
(* The encoder's node driver (src/encoder_driver.cpp): a supervised node   *)
(* whose TPDO1 carries a position, in answer to the SYNC at the beginning  *)
(* of every cycle_read().  The position has no age of its own and          *)
(* is_valid() never becomes false again, so the watchdog that the driver   *)
(* inherits is all that tells a position from one that the encoder         *)
(* reported before it died.                                                *)
(*                                                                         *)
(* The two kinds of frames have a queue each: the drain reads both to the  *)
(* end, and no frame of one kind changes what one of the other does.  What *)
(* comes in after that waits for the next drain.                           *)
(***************************************************************************)
EXTENDS NodeSupervision

CONSTANTS
  Positions,   \* what the encoder may report, in counts
  LOSSES       \* reports the bus loses in a row

ASSUME EncoderAssumption == Positions \subseteq Int /\ LOSSES \in Nat

VARIABLES
  raw_position, valid,
  reading,     \* cycle_read() is between its SYNC and its update()
  synced,      \* a SYNC went out that the encoder has not answered
  reports,     \* positions waiting in the socket
  position,    \* where the shaft of the encoder is
  losses,      \* history: SYNCs in a row that a live encoder did not answer in time
  age          \* history: SYNCs since the position that is known was drained

feedbackVars == <<raw_position, valid, reading, synced, reports, position, losses, age>>

Oldest == NMT_TIMEOUT + LOSSES + 2
Older(n) == IF n >= Oldest THEN Oldest ELSE n + 1

FeedbackTypeOK ==
  /\ raw_position \in Int /\ valid \in BOOLEAN
  /\ reading \in BOOLEAN /\ synced \in BOOLEAN
  /\ reports \in Seq(Positions)
  /\ position \in Positions
  /\ losses \in 0..LOSSES
  /\ age \in 0..Oldest

(* EncoderDriver::configure() has returned. *)
EncoderInit ==
  /\ Init
  /\ raw_position = 0 /\ valid = FALSE
  /\ reading = FALSE /\ synced = FALSE
  /\ reports = <<>>
  /\ position \in Positions
  /\ losses = 0
  /\ age = 0

-----------------------------------------------------------------------------
(* cycle_read(): the SYNC.  One that the encoder has not answered by now   *)
(* it will not answer, or its answer was lost.                             *)
SendSync ==
  /\ ~reading /\ reading' = TRUE
  /\ synced /\ node = "OPERATIONAL" => losses < LOSSES
  /\ losses' = IF synced /\ node = "OPERATIONAL" THEN losses + 1 ELSE 0
  /\ synced' = TRUE
  /\ age' = Older(age)
  /\ UNCHANGED <<vars, raw_position, valid, reports, position>>

(* The drain: process_frame() for a NodeGuard answer, and for a TPDO1. *)
DrainAnswer ==
  /\ reading
  /\ Drain
  /\ UNCHANGED feedbackVars

DrainReport ==
  /\ reading /\ ~drained /\ reports # <<>>
  /\ raw_position' = Head(reports) /\ valid' = TRUE
  /\ reports' = Tail(reports)
  /\ age' = 0
  /\ UNCHANGED <<vars, reading, synced, position, losses>>

DrainLeavesNothing ==
  /\ reading /\ reports = <<>>
  /\ DrainEnds
  /\ UNCHANGED feedbackVars

(* encoder_->update(dt). *)
UpdateEncoder ==
  /\ reading /\ reading' = FALSE
  /\ Cycle
  /\ UNCHANGED <<raw_position, valid, synced, reports, position, losses, age>>

-----------------------------------------------------------------------------
Report ==
  /\ node = "OPERATIONAL" /\ synced
  /\ Len(reports) < MaxRx
  /\ reports' = Append(reports, position)
  /\ synced' = FALSE
  /\ UNCHANGED <<vars, raw_position, valid, reading, position, losses, age>>

Turn ==
  /\ position' \in Positions
  /\ UNCHANGED <<vars, raw_position, valid, reading, synced, reports, losses, age>>

(* The encoder answers, dies and boots as any node does.  Only             *)
(* on_configure() starts one, so one that has left OPERATIONAL stays out.  *)
NodeMoves ==
  /\ Answer \/ LoseRtr \/ NodeStops \/ NodeBoots
  /\ UNCHANGED feedbackVars

EncoderNext ==
  \/ SendSync \/ DrainAnswer \/ DrainReport \/ DrainLeavesNothing \/ UpdateEncoder
  \/ Report \/ Turn \/ NodeMoves

EncoderSpec == EncoderInit /\ [][EncoderNext]_<<vars, feedbackVars>>

-----------------------------------------------------------------------------
(* After an update() the position that is known was drained at most LOSSES *)
(* cycles ago and one more, or the encoder is in FAULT at the latest       *)
(* NMT_TIMEOUT cycles after that; reports and OPERATIONAL answers may      *)
(* still be in the socket when the encoder dies, or have come in behind    *)
(* the drain of the cycle in which it does, and it may answer              *)
(* PRE_OPERATIONAL afterwards (encoder_driver.cpp:105-132,                 *)
(* canopen_driver.cpp:30-45).                                              *)
StalePositionIsKnown ==
  ~reading /\ age > NMT_TIMEOUT + LOSSES => nmt_state = "FAULT"

=============================================================================
