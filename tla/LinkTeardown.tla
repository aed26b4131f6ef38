---------------------------- MODULE LinkTeardown ----------------------------
(***************************************************************************)
(* SystemSteeringHardware with a count of the acting calls of read() that  *)
(* a configured component has survived over a link that is gone: the       *)
(* socket is closed, or the drive has left OPERATIONAL.  Neither comes     *)
(* back before the next on_configure().                                    *)
(***************************************************************************)
EXTENDS SystemSteeringHardware

VARIABLE dead_reads   \* history: acting calls of read() completed over a dead link

LinkDead == ~sock \/ drive_nmt # "OPERATIONAL"

(* The step that completes an acting read(), with or without an error. *)
ReadCompletes == pc = "read_update" /\ pc' # "read_update"

(* The count ends where it has exceeded the bound. *)
Counted(n) == IF n > NMT_TIMEOUT THEN n ELSE n + 1

CountReads ==
  dead_reads' = IF lifecycle' = "unconfigured" THEN 0
                ELSE IF ReadCompletes /\ LinkDead THEN Counted(dead_reads)
                ELSE dead_reads

TeardownNext == Next /\ CountReads

TeardownSpec == Init /\ dead_reads = 0 /\ [][TeardownNext]_<<vars, dead_reads>>

-----------------------------------------------------------------------------
(* Over a dead link at most NMT_TIMEOUT acting calls of read() return OK,  *)
(* in INACTIVE and ACTIVE, whatever is activated and deactivated between   *)
(* them and whatever the drive and the socket still answer: the next one   *)
(* returns ERROR.  It is one more than the watchdog counts, since the last *)
(* OPERATIONAL answer may have come in behind the drain of a read() that   *)
(* was still under way when the drive died (canopen_driver.cpp:41-44, :189, *)
(* steering_controller.cpp:76-79, system_steering_hardware.cpp:248,        *)
(* :326-337).                                                              *)
DeadLinkNoticed == dead_reads > NMT_TIMEOUT => pc = "read_error"

=============================================================================
