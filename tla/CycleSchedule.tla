--------------------------- MODULE CycleSchedule ---------------------------
(***************************************************************************)
(* In which cycles of the controller manager read() and write() act, as    *)
(* on_init() reads the timing parameters of the URDF, on_activate() sets   *)
(* the counters and read(), write() and on_error() go on with them         *)
(* (src/system_steering_hardware.cpp).                                     *)
(*                                                                         *)
(* The controller manager is external: a cycle is a read() and then a      *)
(* write(), in INACTIVE and ACTIVE, and lifecycle callbacks come between   *)
(* two cycles.                                                             *)
(***************************************************************************)
EXTENDS Integers

CONSTANTS
  Parameters,   \* the timing parameters a URDF may have
  MAX_CYCLES    \* bound on the cycles of one activation

ASSUME ParametersAssumption ==
  /\ Parameters \subseteq
       [controller_manager_frequency_hz : Int, hardware_sample_frequency_hz : Int,
        read_multiplicity : Int, write_multiplicity : Int,
        read_offset : Int, write_offset : Int]
  /\ MAX_CYCLES \in Nat

VARIABLES
  urdf,       \* the parameters of this component
  lifecycle,  \* "loaded", "rejected", "unconfigured", "inactive" or "active"
  turn,       \* what the manager calls next, "read" or "write"
  effective_read_multiplicity, effective_write_multiplicity,
  read_counter, write_counter,
  reads, writes,          \* history: calls since on_activate()
  last_read, last_write   \* history: the last of these calls that acted, 0 if none did

ratioVars   == <<urdf, effective_read_multiplicity, effective_write_multiplicity>>
readVars    == <<read_counter, reads, last_read>>
writeVars   == <<write_counter, writes, last_write>>
vars == <<ratioVars, readVars, writeVars, lifecycle, turn>>

TypeOK ==
  /\ urdf \in Parameters
  /\ lifecycle \in {"loaded", "rejected", "unconfigured", "inactive", "active"}
  /\ turn \in {"read", "write"}
  /\ effective_read_multiplicity \in Int /\ effective_write_multiplicity \in Int
  /\ read_counter \in Int /\ write_counter \in Int
  /\ reads \in Nat /\ writes \in Nat
  /\ last_read \in Nat /\ last_write \in Nat

(* Before on_init(). *)
Init ==
  /\ urdf \in Parameters
  /\ lifecycle = "loaded"
  /\ turn = "read"
  /\ effective_read_multiplicity = 1 /\ effective_write_multiplicity = 1
  /\ read_counter = 0 /\ write_counter = 0
  /\ reads = 0 /\ writes = 0
  /\ last_read = 0 /\ last_write = 0

-----------------------------------------------------------------------------
(* on_init(). *)
Rejects(p) ==
  \/ p.controller_manager_frequency_hz <= 0
  \/ p.hardware_sample_frequency_hz <= 0
  \/ p.read_multiplicity <= 0
  \/ p.write_multiplicity <= 0

(* The cast to int cuts the fraction off. *)
FrequencyRatio(p) ==
  LET ratio == p.controller_manager_frequency_hz \div p.hardware_sample_frequency_hz
  IN  IF ratio < 1 THEN 1 ELSE ratio

OnInitRejects ==
  /\ lifecycle = "loaded"
  /\ Rejects(urdf)
  /\ lifecycle' = "rejected"
  /\ UNCHANGED <<ratioVars, readVars, writeVars, turn>>

OnInit ==
  /\ lifecycle = "loaded"
  /\ ~Rejects(urdf)
  /\ lifecycle' = "unconfigured"
  /\ effective_read_multiplicity' = urdf.read_multiplicity * FrequencyRatio(urdf)
  /\ effective_write_multiplicity' = urdf.write_multiplicity * FrequencyRatio(urdf)
  /\ read_counter' = 0 /\ write_counter' = 0
  /\ UNCHANGED <<urdf, turn, reads, last_read, writes, last_write>>

(* The manager has nothing to do with a component that on_init() refused. *)
Refused ==
  /\ lifecycle = "rejected"
  /\ UNCHANGED vars

OnConfigure ==
  /\ lifecycle = "unconfigured"
  /\ lifecycle' = "inactive"
  /\ UNCHANGED <<ratioVars, readVars, writeVars, turn>>

-----------------------------------------------------------------------------
(* A mutant of the operator below: the counters go on from where they were. *)
MutActivateKeepsCounters ==
  /\ lifecycle = "inactive" /\ turn = "read"
  /\ lifecycle' = "active"
  /\ reads' = 0 /\ last_read' = 0
  /\ writes' = 0 /\ last_write' = 0
  /\ UNCHANGED <<ratioVars, turn, read_counter, write_counter>>

(* Another one: the offset of write() counts from 0, that of read() from 1. *)
MutWriteOffsetFromZero ==
  /\ lifecycle = "inactive" /\ turn = "read"
  /\ lifecycle' = "active"
  /\ read_counter' = effective_read_multiplicity - urdf.read_offset
  /\ write_counter' = effective_write_multiplicity - urdf.write_offset + 1
  /\ reads' = 0 /\ last_read' = 0
  /\ writes' = 0 /\ last_write' = 0
  /\ UNCHANGED <<ratioVars, turn>>

OnActivate ==
  /\ lifecycle = "inactive" /\ turn = "read"
  /\ lifecycle' = "active"
  /\ read_counter' = effective_read_multiplicity - urdf.read_offset
  /\ write_counter' = effective_write_multiplicity - urdf.write_offset
  /\ reads' = 0 /\ last_read' = 0
  /\ writes' = 0 /\ last_write' = 0
  /\ UNCHANGED <<ratioVars, turn>>

OnDeactivate ==
  /\ lifecycle = "active" /\ turn = "read"
  /\ lifecycle' = "inactive"
  /\ UNCHANGED <<ratioVars, readVars, writeVars, turn>>

-----------------------------------------------------------------------------
CallsRead ==
  /\ lifecycle \in {"inactive", "active"} /\ turn = "read"
  /\ lifecycle = "active" => reads < MAX_CYCLES

CallsWrite == lifecycle \in {"inactive", "active"} /\ turn = "write"

(* The histories look at ACTIVE only. *)
Counted == IF lifecycle = "active" THEN 1 ELSE 0

ReadSkips ==
  /\ CallsRead
  /\ read_counter + 1 < effective_read_multiplicity
  /\ read_counter' = read_counter + 1
  /\ turn' = "write"
  /\ reads' = reads + Counted
  /\ UNCHANGED <<ratioVars, last_read, writeVars, lifecycle>>

ReadActs ==
  /\ CallsRead
  /\ read_counter + 1 >= effective_read_multiplicity
  /\ read_counter' = 0
  /\ turn' = "write"
  /\ reads' = reads + Counted
  /\ last_read' = IF lifecycle = "active" THEN reads' ELSE last_read
  /\ UNCHANGED <<ratioVars, writeVars, lifecycle>>

(* A read that acts may find a fault: on_error(), and write() is not called. *)
ReadFaults ==
  /\ CallsRead
  /\ read_counter + 1 >= effective_read_multiplicity
  /\ read_counter' = 0 /\ write_counter' = 0
  /\ lifecycle' = "unconfigured"
  /\ UNCHANGED <<ratioVars, turn, reads, last_read, writes, last_write>>

WriteSkips ==
  /\ CallsWrite
  /\ write_counter + 1 < effective_write_multiplicity
  /\ write_counter' = write_counter + 1
  /\ turn' = "read"
  /\ writes' = writes + Counted
  /\ UNCHANGED <<ratioVars, last_write, readVars, lifecycle>>

WriteActs ==
  /\ CallsWrite
  /\ write_counter + 1 >= effective_write_multiplicity
  /\ write_counter' = 0
  /\ turn' = "read"
  /\ writes' = writes + Counted
  /\ last_write' = IF lifecycle = "active" THEN writes' ELSE last_write
  /\ UNCHANGED <<ratioVars, readVars, lifecycle>>

Next ==
  \/ OnInitRejects \/ OnInit \/ Refused
  \/ OnConfigure \/ OnActivate \/ OnDeactivate
  \/ ReadSkips \/ ReadActs \/ ReadFaults
  \/ WriteSkips \/ WriteActs

Spec == Init /\ [][Next]_vars

-----------------------------------------------------------------------------
(* The call after on_activate() in which an offset takes effect: a counter *)
(* is counted before it is compared, so 0 and 1 are the same.              *)
First(offset) == IF offset > 1 THEN offset ELSE 1

(* The next call is to act. *)
Due(calls, last, multiplicity, offset) ==
  IF last = 0 THEN calls >= First(offset) ELSE calls = last + multiplicity

(* After every activation, whatever state the counters were left in by the *)
(* INACTIVE cycles, an error or an earlier activation, read() acts in the  *)
(* call its offset names and then in every effective_read_multiplicity_-th *)
(* one, no earlier and no later, and so does write()                       *)
(* (system_steering_hardware.cpp:264-265, :322-326, :348-352).             *)
ActsOnSchedule ==
  [][/\ reads' = reads + 1 =>
          (last_read' = reads' <=> Due(reads', last_read, effective_read_multiplicity,
                                       urdf.read_offset))
     /\ writes' = writes + 1 =>
          (last_write' = writes' <=> Due(writes', last_write, effective_write_multiplicity,
                                         urdf.write_offset))]_vars

(* Offsets that take effect in two different cycles of a common period.    *)
Staggers(p) ==
  /\ p.read_multiplicity = p.write_multiplicity
  /\ First(p.read_offset) # First(p.write_offset)
  /\ First(p.read_offset) <= effective_read_multiplicity
  /\ First(p.write_offset) <= effective_read_multiplicity

ActTogether == last_read # 0 /\ last_read = last_write

(* What the offsets are for: with equal multiplicities and offsets of 1    *)
(* and more that differ within the period, no cycle both reads and writes  *)
(* (system_steering_hardware.cpp:263).                                     *)
Staggered == lifecycle = "active" /\ Staggers(urdf) => ~ActTogether

=============================================================================
