-------------------------- MODULE MCCycleSchedule --------------------------
(* Timing parameters for TLC, ratios below, at and between whole numbers    *)
(* and values on_init() refuses among them.                                 *)
EXTENDS CycleSchedule

Timings(managers, samples, multiplicities, offsets) ==
  [controller_manager_frequency_hz : managers, hardware_sample_frequency_hz : samples,
   read_multiplicity : multiplicities, write_multiplicity : multiplicities,
   read_offset : offsets, write_offset : offsets]

(* Ratios 1/2, 3/2 and 2, with a frequency and a multiplicity of 0. *)
SmallTimings ==
  Timings({100, 300}, {200}, {1, 2, 3}, {-1, 0, 1, 2, 4})
    \cup Timings({0, 400}, {200}, {0, 2}, {0, 1, 3})

=============================================================================
