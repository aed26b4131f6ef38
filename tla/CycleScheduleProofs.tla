------------------------ MODULE CycleScheduleProofs ------------------------
(***************************************************************************)
(* For every frequency, multiplicity and offset: read() and write() act on *)
(* schedule, and offsets of 1 and more keep them apart.                    *)
(***************************************************************************)
EXTENDS CycleSchedule, TLAPS

(* What on_init() leaves of the parameters. *)
RatioOK ==
  lifecycle \notin {"loaded", "rejected"} =>
    /\ effective_read_multiplicity >= 1 /\ effective_write_multiplicity >= 1
    /\ urdf.read_multiplicity = urdf.write_multiplicity
         => effective_read_multiplicity = effective_write_multiplicity

(* A counter is where the calls since the last acting one put it. *)
InPhase(counter, calls, last, multiplicity, offset) ==
  IF last = 0
  THEN calls < First(offset) /\ counter = multiplicity - offset + calls
  ELSE last <= calls /\ counter = calls - last /\ counter < multiplicity

ReadInPhase ==
  lifecycle = "active" => InPhase(read_counter, reads, last_read, effective_read_multiplicity,
                                  urdf.read_offset)

WriteInPhase ==
  lifecycle = "active" => InPhase(write_counter, writes, last_write,
                                  effective_write_multiplicity, urdf.write_offset)

(* A cycle is a read() and then a write(). *)
Alternates ==
  lifecycle = "active" => reads = writes + (IF turn = "write" THEN 1 ELSE 0)

(* The distance between the offsets, kept modulo the period. *)
Distance == First(urdf.read_offset) - First(urdf.write_offset)

KeepsDistance ==
  lifecycle = "active" /\ Staggers(urdf) =>
    /\ last_read # 0 /\ last_write = 0 => last_read = First(urdf.read_offset)
    /\ last_write # 0 /\ last_read = 0 => last_write = First(urdf.write_offset)
    /\ last_read # 0 /\ last_write # 0 =>
         last_read - last_write \in {Distance, Distance + effective_read_multiplicity,
                                     Distance - effective_read_multiplicity}

IInv == TypeOK /\ RatioOK /\ ReadInPhase /\ WriteInPhase /\ Alternates /\ KeepsDistance

-----------------------------------------------------------------------------
LEMMA ParametersAreIntegers ==
  ASSUME TypeOK
  PROVE  /\ urdf.read_offset \in Int /\ urdf.write_offset \in Int
         /\ urdf.read_multiplicity \in Int /\ urdf.write_multiplicity \in Int
         /\ urdf.controller_manager_frequency_hz \in Int
         /\ urdf.hardware_sample_frequency_hz \in Int
  BY ParametersAssumption DEF TypeOK

LEMMA FirstIsPositive ==
  ASSUME NEW offset \in Int
  PROVE  First(offset) \in Nat /\ First(offset) >= 1 /\ First(offset) >= offset
  BY DEF First

LEMMA TypesStay == TypeOK /\ [Next]_vars => TypeOK'
<1> SUFFICES ASSUME TypeOK, [Next]_vars PROVE TypeOK'
  OBVIOUS
<1> USE ParametersAreIntegers DEF TypeOK
<1>1. CASE OnInitRejects
  BY <1>1 DEF OnInitRejects, ratioVars, readVars, writeVars
<1>2. CASE OnInit
  <2>1. FrequencyRatio(urdf) \in Int
    <3>1. urdf.hardware_sample_frequency_hz > 0
      BY <1>2 DEF OnInit, Rejects
    <3> QED BY <3>1 DEF FrequencyRatio
  <2>2. /\ effective_read_multiplicity' \in Int
        /\ effective_write_multiplicity' \in Int
    BY <1>2, <2>1 DEF OnInit
  <2> QED BY <1>2, <2>2 DEF OnInit
<1>3. CASE Refused
  BY <1>3 DEF Refused, vars, ratioVars, readVars, writeVars
<1>4. CASE OnConfigure
  BY <1>4 DEF OnConfigure, ratioVars, readVars, writeVars
<1>5. CASE OnActivate
  BY <1>5 DEF OnActivate, ratioVars
<1>6. CASE OnDeactivate
  BY <1>6 DEF OnDeactivate, ratioVars, readVars, writeVars
<1>7. CASE ReadSkips
  BY <1>7 DEF ReadSkips, ratioVars, writeVars, Counted
<1>8. CASE ReadActs
  BY <1>8 DEF ReadActs, ratioVars, writeVars, Counted
<1>9. CASE ReadFaults
  BY <1>9 DEF ReadFaults, ratioVars
<1>10. CASE WriteSkips
  BY <1>10 DEF WriteSkips, ratioVars, readVars, Counted
<1>11. CASE WriteActs
  BY <1>11 DEF WriteActs, ratioVars, readVars, Counted
<1>12. CASE UNCHANGED vars
  BY <1>12 DEF vars, ratioVars, readVars, writeVars
<1> QED
  BY <1>1, <1>2, <1>3, <1>4, <1>5, <1>6, <1>7, <1>8, <1>9, <1>10, <1>11, <1>12 DEF Next

(* The steps that end outside ACTIVE, or change nothing that counts. *)
LEMMA QuietStepsKeepPhase ==
  ASSUME IInv, TypeOK',
         OnInitRejects \/ OnInit \/ Refused \/ OnConfigure \/ OnDeactivate \/ ReadFaults
           \/ UNCHANGED vars
  PROVE  RatioOK' /\ ReadInPhase' /\ WriteInPhase' /\ Alternates' /\ KeepsDistance'
<1>1. CASE OnInitRejects \/ OnConfigure \/ OnDeactivate \/ ReadFaults
  <2>1. lifecycle' # "active" /\ lifecycle' \in {"rejected", "unconfigured", "inactive"}
    BY <1>1 DEF OnInitRejects, OnConfigure, OnDeactivate, ReadFaults
  <2>2. RatioOK'
    <3>1. CASE OnInitRejects
      BY <3>1 DEF OnInitRejects, RatioOK
    <3>2. CASE OnConfigure \/ OnDeactivate \/ ReadFaults
      BY <3>2 DEF OnConfigure, OnDeactivate, ReadFaults, CallsRead, ratioVars, IInv, RatioOK
    <3> QED BY <1>1, <3>1, <3>2
  <2> QED BY <2>1, <2>2 DEF ReadInPhase, WriteInPhase, Alternates, KeepsDistance
<1>2. CASE OnInit
  <2>1. lifecycle' = "unconfigured"
    BY <1>2 DEF OnInit
  <2>2. RatioOK'
    <3> DEFINE ratio == FrequencyRatio(urdf)
    <3>1. /\ urdf.read_multiplicity \in Int /\ urdf.read_multiplicity >= 1
          /\ urdf.write_multiplicity \in Int /\ urdf.write_multiplicity >= 1
      BY <1>2, ParametersAreIntegers DEF IInv, OnInit, Rejects
    <3>2. ratio \in Int /\ ratio >= 1
      <4>1. urdf.hardware_sample_frequency_hz > 0
        BY <1>2, ParametersAreIntegers DEF IInv, OnInit, Rejects
      <4> QED BY <4>1, ParametersAreIntegers DEF IInv, FrequencyRatio
    <3>3. /\ effective_read_multiplicity' = urdf.read_multiplicity * ratio
          /\ effective_write_multiplicity' = urdf.write_multiplicity * ratio
          /\ urdf' = urdf
      BY <1>2 DEF OnInit
    <3> HIDE DEF ratio
    <3>4. /\ urdf.read_multiplicity * ratio >= 1
          /\ urdf.write_multiplicity * ratio >= 1
      BY <3>1, <3>2
    <3> QED BY <3>3, <3>4 DEF RatioOK
  <2> QED BY <2>1, <2>2 DEF ReadInPhase, WriteInPhase, Alternates, KeepsDistance
<1>3. CASE Refused \/ UNCHANGED vars
  BY <1>3 DEF Refused, vars, ratioVars, readVars, writeVars, IInv, RatioOK, ReadInPhase,
              WriteInPhase, Alternates, KeepsDistance, InPhase, Staggers, Distance, First
<1> QED BY <1>1, <1>2, <1>3

LEMMA ActivationKeepsPhase ==
  ASSUME IInv, TypeOK', OnActivate
  PROVE  RatioOK' /\ ReadInPhase' /\ WriteInPhase' /\ Alternates' /\ KeepsDistance'
<1> USE ParametersAreIntegers DEF IInv, TypeOK
<1>1. RatioOK'
  BY DEF OnActivate, ratioVars, RatioOK
<1>2. ReadInPhase' /\ WriteInPhase'
  <2>1. InPhase(effective_read_multiplicity - urdf.read_offset, 0, 0,
                effective_read_multiplicity, urdf.read_offset)
    BY DEF InPhase, First
  <2>2. InPhase(effective_write_multiplicity - urdf.write_offset, 0, 0,
                effective_write_multiplicity, urdf.write_offset)
    BY DEF InPhase, First
  <2> QED BY <2>1, <2>2 DEF OnActivate, ratioVars, ReadInPhase, WriteInPhase
<1>3. Alternates' /\ KeepsDistance'
  BY DEF OnActivate, Alternates, KeepsDistance
<1> QED BY <1>1, <1>2, <1>3

(* A counted call acts exactly when it is due, and leaves the counter in   *)
(* phase.                                                                  *)
LEMMA CallKeepsPhase ==
  ASSUME NEW counter \in Int, NEW calls \in Nat, NEW last \in Nat, NEW multiplicity \in Int,
         NEW offset \in Int, multiplicity >= 1,
         InPhase(counter, calls, last, multiplicity, offset)
  PROVE  /\ counter + 1 >= multiplicity <=> Due(calls + 1, last, multiplicity, offset)
         /\ counter + 1 < multiplicity
              => InPhase(counter + 1, calls + 1, last, multiplicity, offset)
         /\ InPhase(0, calls + 1, calls + 1, multiplicity, offset)
  BY DEF InPhase, Due, First

(* What a call of read() in ACTIVE does, whether it acts or not. *)
LEMMA ReadCalls ==
  ASSUME IInv, ReadSkips \/ ReadActs, lifecycle = "active"
  PROVE  /\ reads' = reads + 1
         /\ last_read' = IF Due(reads + 1, last_read, effective_read_multiplicity,
                                urdf.read_offset)
                         THEN reads + 1 ELSE last_read
         /\ InPhase(read_counter', reads', last_read', effective_read_multiplicity,
                    urdf.read_offset)
<1> DEFINE due == Due(reads + 1, last_read, effective_read_multiplicity, urdf.read_offset)
           acts == read_counter + 1 >= effective_read_multiplicity
<1>1. /\ acts <=> due
      /\ ~acts => InPhase(read_counter + 1, reads + 1, last_read,
                          effective_read_multiplicity, urdf.read_offset)
      /\ InPhase(0, reads + 1, reads + 1, effective_read_multiplicity, urdf.read_offset)
  BY ParametersAreIntegers, CallKeepsPhase DEF IInv, TypeOK, RatioOK, ReadInPhase
<1>2. CASE ReadSkips
  <2>1. ~acts /\ read_counter' = read_counter + 1 /\ reads' = reads + 1
        /\ last_read' = last_read
    BY <1>2 DEF ReadSkips, Counted, IInv, TypeOK
  <2> HIDE DEF due, acts
  <2> QED BY <1>1, <2>1 DEF due, acts
<1>3. CASE ReadActs
  <2>1. acts /\ read_counter' = 0 /\ reads' = reads + 1 /\ last_read' = reads + 1
    BY <1>3 DEF ReadActs, Counted, IInv, TypeOK
  <2> QED BY <1>1, <2>1
<1> QED BY <1>2, <1>3

LEMMA WriteCalls ==
  ASSUME IInv, WriteSkips \/ WriteActs, lifecycle = "active"
  PROVE  /\ writes' = writes + 1
         /\ last_write' = IF Due(writes + 1, last_write, effective_write_multiplicity,
                                 urdf.write_offset)
                          THEN writes + 1 ELSE last_write
         /\ InPhase(write_counter', writes', last_write', effective_write_multiplicity,
                    urdf.write_offset)
<1> DEFINE due == Due(writes + 1, last_write, effective_write_multiplicity, urdf.write_offset)
           acts == write_counter + 1 >= effective_write_multiplicity
<1>1. /\ acts <=> due
      /\ ~acts => InPhase(write_counter + 1, writes + 1, last_write,
                          effective_write_multiplicity, urdf.write_offset)
      /\ InPhase(0, writes + 1, writes + 1, effective_write_multiplicity, urdf.write_offset)
  BY ParametersAreIntegers, CallKeepsPhase DEF IInv, TypeOK, RatioOK, WriteInPhase
<1>2. CASE WriteSkips
  <2>1. ~acts /\ write_counter' = write_counter + 1 /\ writes' = writes + 1
        /\ last_write' = last_write
    BY <1>2 DEF WriteSkips, Counted, IInv, TypeOK
  <2> HIDE DEF due, acts
  <2> QED BY <1>1, <2>1 DEF due, acts
<1>3. CASE WriteActs
  <2>1. acts /\ write_counter' = 0 /\ writes' = writes + 1 /\ last_write' = writes + 1
    BY <1>3 DEF WriteActs, Counted, IInv, TypeOK
  <2> QED BY <1>1, <2>1
<1> QED BY <1>2, <1>3

(* read() moves last_read on by a period, or sets it for the first time;   *)
(* the write of its cycle is still to come.                                *)
LEMMA ReadKeepsPhase ==
  ASSUME IInv, TypeOK', ReadSkips \/ ReadActs
  PROVE  RatioOK' /\ ReadInPhase' /\ WriteInPhase' /\ Alternates' /\ KeepsDistance'
<1>1. /\ UNCHANGED <<urdf, effective_read_multiplicity, effective_write_multiplicity,
                     write_counter, writes, last_write, lifecycle>>
      /\ turn = "read" /\ turn' = "write"
  BY DEF ReadSkips, ReadActs, CallsRead, ratioVars, writeVars
<1>2. RatioOK'
  BY <1>1 DEF IInv, RatioOK
<1>3. CASE lifecycle # "active"
  BY <1>1, <1>2, <1>3 DEF ReadInPhase, WriteInPhase, Alternates, KeepsDistance
<1>4. CASE lifecycle = "active"
  <2> DEFINE ro == First(urdf.read_offset)
             wo == First(urdf.write_offset)
             period == effective_read_multiplicity
  <2>1. ReadInPhase' /\ WriteInPhase'
    BY <1>1, <1>4, ReadCalls DEF IInv, ReadInPhase, WriteInPhase
  <2>2. Alternates'
    BY <1>1, <1>4, ReadCalls DEF IInv, TypeOK, Alternates
  <2>3. ASSUME Staggers(urdf)' PROVE
          /\ last_read' # 0 /\ last_write = 0 => last_read' = ro
          /\ last_write # 0 /\ last_read' = 0 => last_write = wo
          /\ last_read' # 0 /\ last_write # 0 =>
               last_read' - last_write \in {ro - wo, ro - wo + period, ro - wo - period}
    <3>1. /\ Staggers(urdf)
          /\ effective_write_multiplicity = period
          /\ period \in Int /\ period >= 1
      BY <1>1, <1>4, <2>3 DEF IInv, TypeOK, RatioOK, Staggers
    <3>2. ro \in Nat /\ wo \in Nat /\ ro >= 1 /\ wo >= 1
      BY ParametersAreIntegers, FirstIsPositive DEF IInv
    <3>3. ro # wo /\ ro <= period /\ wo <= period
      BY <3>1 DEF Staggers
    <3>4. /\ last_read # 0 /\ last_write = 0 => last_read = ro
          /\ last_write # 0 /\ last_read = 0 => last_write = wo
          /\ last_read # 0 /\ last_write # 0 =>
               last_read - last_write \in {ro - wo, ro - wo + period, ro - wo - period}
      BY <1>4, <3>1 DEF IInv, KeepsDistance, Distance
    <3>5. /\ reads \in Nat /\ writes \in Nat /\ last_read \in Nat /\ last_write \in Nat
          /\ reads = writes
      BY <1>1, <1>4 DEF IInv, TypeOK, Alternates
    <3>6. /\ last_write = 0 => writes < wo
          /\ last_write # 0 => last_write <= writes /\ writes - last_write < period
      BY <1>4, <3>1 DEF IInv, WriteInPhase, InPhase
    <3>7. /\ last_read = 0 => reads < ro
          /\ last_read # 0 => last_read <= reads
      BY <1>4 DEF IInv, ReadInPhase, InPhase
    <3>8. \/ last_read' = last_read
          \/ last_read = 0 /\ reads + 1 >= ro /\ last_read' = reads + 1
          \/ last_read # 0 /\ reads + 1 = last_read + period /\ last_read' = reads + 1
      BY <1>4, ReadCalls DEF Due
    <3> HIDE DEF ro, wo, period
    <3> QED BY <3>1, <3>2, <3>3, <3>4, <3>5, <3>6, <3>7, <3>8
  <2>4. KeepsDistance'
    BY <1>1, <2>3 DEF KeepsDistance, Distance, First
  <2> QED BY <1>2, <2>1, <2>2, <2>4
<1> QED BY <1>3, <1>4

(* The same for write(); the read of its cycle has been counted.           *)
LEMMA WriteKeepsPhase ==
  ASSUME IInv, TypeOK', WriteSkips \/ WriteActs
  PROVE  RatioOK' /\ ReadInPhase' /\ WriteInPhase' /\ Alternates' /\ KeepsDistance'
<1>1. /\ UNCHANGED <<urdf, effective_read_multiplicity, effective_write_multiplicity,
                     read_counter, reads, last_read, lifecycle>>
      /\ turn = "write" /\ turn' = "read"
  BY DEF WriteSkips, WriteActs, CallsWrite, ratioVars, readVars
<1>2. RatioOK'
  BY <1>1 DEF IInv, RatioOK
<1>3. CASE lifecycle # "active"
  BY <1>1, <1>2, <1>3 DEF ReadInPhase, WriteInPhase, Alternates, KeepsDistance
<1>4. CASE lifecycle = "active"
  <2> DEFINE ro == First(urdf.read_offset)
             wo == First(urdf.write_offset)
             period == effective_read_multiplicity
  <2>1. ReadInPhase' /\ WriteInPhase'
    BY <1>1, <1>4, WriteCalls DEF IInv, ReadInPhase, WriteInPhase
  <2>2. Alternates'
    <3>1. reads = writes + 1 /\ writes' = writes + 1
      BY <1>1, <1>4, WriteCalls DEF IInv, Alternates
    <3> QED BY <1>1, <3>1 DEF IInv, TypeOK, Alternates
  <2>3. ASSUME Staggers(urdf)' PROVE
          /\ last_read # 0 /\ last_write' = 0 => last_read = ro
          /\ last_write' # 0 /\ last_read = 0 => last_write' = wo
          /\ last_read # 0 /\ last_write' # 0 =>
               last_read - last_write' \in {ro - wo, ro - wo + period, ro - wo - period}
    <3>1. /\ Staggers(urdf)
          /\ effective_write_multiplicity = period
          /\ period \in Int /\ period >= 1
      BY <1>1, <1>4, <2>3 DEF IInv, TypeOK, RatioOK, Staggers
    <3>2. ro \in Nat /\ wo \in Nat /\ ro >= 1 /\ wo >= 1
      BY ParametersAreIntegers, FirstIsPositive DEF IInv
    <3>3. ro # wo /\ ro <= period /\ wo <= period
      BY <3>1 DEF Staggers
    <3>4. /\ last_read # 0 /\ last_write = 0 => last_read = ro
          /\ last_write # 0 /\ last_read = 0 => last_write = wo
          /\ last_read # 0 /\ last_write # 0 =>
               last_read - last_write \in {ro - wo, ro - wo + period, ro - wo - period}
      BY <1>4, <3>1 DEF IInv, KeepsDistance, Distance
    <3>5. /\ reads \in Nat /\ writes \in Nat /\ last_read \in Nat /\ last_write \in Nat
          /\ reads = writes + 1
      BY <1>1, <1>4 DEF IInv, TypeOK, Alternates
    <3>6. /\ last_read = 0 => reads < ro
          /\ last_read # 0 => last_read <= reads /\ reads - last_read < period
      BY <1>4 DEF IInv, ReadInPhase, InPhase
    <3>7. /\ last_write = 0 => writes < wo
          /\ last_write # 0 => last_write <= writes
      BY <1>4 DEF IInv, WriteInPhase, InPhase
    <3>8. \/ last_write' = last_write
          \/ last_write = 0 /\ writes + 1 >= wo /\ last_write' = writes + 1
          \/ last_write # 0 /\ writes + 1 = last_write + period /\ last_write' = writes + 1
      BY <1>4, <3>1, WriteCalls DEF Due
    <3> HIDE DEF ro, wo, period
    <3> QED BY <3>1, <3>2, <3>3, <3>4, <3>5, <3>6, <3>7, <3>8
  <2>4. KeepsDistance'
    BY <1>1, <2>3 DEF KeepsDistance, Distance, First
  <2> QED BY <1>2, <2>1, <2>2, <2>4
<1> QED BY <1>3, <1>4

-----------------------------------------------------------------------------
LEMMA InitKeepsPhase == Init => IInv
  BY DEF Init, IInv, TypeOK, RatioOK, ReadInPhase, WriteInPhase, Alternates, KeepsDistance

LEMMA NextKeepsPhase == IInv /\ [Next]_vars => IInv'
<1> SUFFICES ASSUME IInv, [Next]_vars PROVE IInv'
  OBVIOUS
<1>1. TypeOK'
  BY TypesStay DEF IInv
<1>2. RatioOK' /\ ReadInPhase' /\ WriteInPhase' /\ Alternates' /\ KeepsDistance'
  <2>1. CASE OnActivate
    BY <1>1, <2>1, ActivationKeepsPhase
  <2>2. CASE ReadSkips \/ ReadActs
    BY <1>1, <2>2, ReadKeepsPhase
  <2>3. CASE WriteSkips \/ WriteActs
    BY <1>1, <2>3, WriteKeepsPhase
  <2>4. CASE OnInitRejects \/ OnInit \/ Refused \/ OnConfigure \/ OnDeactivate \/ ReadFaults
             \/ UNCHANGED vars
    BY <1>1, <2>4, QuietStepsKeepPhase
  <2> QED BY <2>1, <2>2, <2>3, <2>4 DEF Next
<1> QED BY <1>1, <1>2 DEF IInv

LEMMA PhaseIsKept == Spec => []IInv
  BY InitKeepsPhase, NextKeepsPhase, PTL DEF Spec

(* The schedule keeps its types, whatever the URDF says.                   *)
THEOREM TypeCorrect == Spec => []TypeOK
<1>1. IInv => TypeOK
  BY DEF IInv
<1> QED BY <1>1, PhaseIsKept, PTL

(* Offsets of 1 and more that differ within a common period: no cycle      *)
(* after an activation both reads and writes.                              *)
THEOREM OffsetsKeepApart == Spec => []Staggered
<1>1. IInv => Staggered
  <2> SUFFICES ASSUME IInv, lifecycle = "active", Staggers(urdf), ActTogether
               PROVE  FALSE
    BY DEF Staggered
  <2>1. /\ First(urdf.read_offset) \in Nat /\ First(urdf.read_offset) >= 1
        /\ First(urdf.write_offset) \in Nat /\ First(urdf.write_offset) >= 1
    BY ParametersAreIntegers, FirstIsPositive DEF IInv
  <2>2. effective_read_multiplicity \in Int /\ last_read \in Nat
    BY DEF IInv, TypeOK
  <2>3. last_read - last_write = 0
    BY <2>2 DEF ActTogether
  <2>4. 0 \in {Distance, Distance + effective_read_multiplicity,
               Distance - effective_read_multiplicity}
    BY <2>3 DEF IInv, KeepsDistance, ActTogether
  <2> QED BY <2>1, <2>2, <2>4 DEF Staggers, Distance
<1> QED BY <1>1, PhaseIsKept, PTL

(* After every activation, read() and write() act in the calls that their  *)
(* offsets and multiplicities name, and in no other.                       *)
THEOREM CallsActOnSchedule == Spec => ActsOnSchedule
<1> DEFINE Schedule ==
      /\ reads' = reads + 1 =>
           (last_read' = reads' <=> Due(reads', last_read, effective_read_multiplicity,
                                        urdf.read_offset))
      /\ writes' = writes + 1 =>
           (last_write' = writes' <=> Due(writes', last_write, effective_write_multiplicity,
                                          urdf.write_offset))
<1>1. IInv /\ [Next]_vars => [Schedule]_vars
  <2> SUFFICES ASSUME IInv, [Next]_vars PROVE Schedule
    OBVIOUS
  <2> USE DEF IInv, TypeOK
  <2>1. CASE lifecycle = "active" /\ (ReadSkips \/ ReadActs)
    <3>1. reads' = reads + 1 /\ writes' = writes /\ last_read <= reads
      BY <2>1, ReadCalls DEF ReadSkips, ReadActs, writeVars, ReadInPhase, InPhase
    <3>2. last_read' = reads' <=> Due(reads', last_read, effective_read_multiplicity,
                                      urdf.read_offset)
      BY <2>1, <3>1, ReadCalls
    <3> QED BY <3>1, <3>2
  <2>2. CASE lifecycle = "active" /\ (WriteSkips \/ WriteActs)
    <3>1. writes' = writes + 1 /\ reads' = reads /\ last_write <= writes
      BY <2>2, WriteCalls DEF WriteSkips, WriteActs, readVars, WriteInPhase, InPhase
    <3>2. last_write' = writes' <=> Due(writes', last_write, effective_write_multiplicity,
                                        urdf.write_offset)
      BY <2>2, <3>1, WriteCalls
    <3> QED BY <3>1, <3>2
  <2>3. CASE lifecycle # "active" /\ (ReadSkips \/ ReadActs \/ WriteSkips \/ WriteActs)
    <3>1. reads' = reads /\ writes' = writes
      BY <2>3 DEF ReadSkips, ReadActs, WriteSkips, WriteActs, readVars, writeVars, Counted
    <3> QED BY <3>1
  <2>4. CASE OnActivate
    BY <2>4 DEF OnActivate
  <2>5. CASE OnInitRejects \/ OnInit \/ Refused \/ OnConfigure \/ OnDeactivate \/ ReadFaults
             \/ UNCHANGED vars
    BY <2>5 DEF OnInitRejects, OnInit, Refused, OnConfigure, OnDeactivate, ReadFaults, vars,
                readVars, writeVars
  <2> QED BY <2>1, <2>2, <2>3, <2>4, <2>5 DEF Next
<1>2. Spec => [][Schedule]_vars
  BY <1>1, PhaseIsKept, PTL DEF Spec
<1> QED BY <1>2 DEF ActsOnSchedule

=============================================================================
