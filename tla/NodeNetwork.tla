---------------------------- MODULE NodeNetwork ----------------------------
(***************************************************************************)
(* The frames between the drivers and their nodes: what configure() of     *)
(* both drivers writes into the object dictionaries of the drive and of    *)
(* the encoder, which COB-ID each node therefore reports under, and what   *)
(* process_frame() of each driver makes of every frame that arrives        *)
(* (src/motor_driver.cpp, src/encoder_driver.cpp, src/canopen_driver.cpp,  *)
(* dzcante020l080_constants.hpp).  The numbers that PDOs, NodeGuard and    *)
(* analog answers carry are bytes; what an SDO says about an object is a   *)
(* record.                                                                 *)
(*                                                                         *)
(* The nodes are modelled from what src/ writes to them: an object takes a *)
(* value only in the size it has, and a node that has missed a write goes  *)
(* on under the standard COB-ID that the comments of the code mention.     *)
(* When a write fails visibly, configure() gives up and nothing here goes  *)
(* on, so only writes that get lost are modelled.                          *)
(***************************************************************************)
EXTENDS Integers, Sequences

CONSTANTS
  Networks,        \* arguments of SteeringController's constructor
  Positions,       \* 32-bit numbers: positions and targets
  Readings,        \* 16-bit numbers: the analog input
  StatusFlags,     \* bits of a StatusWord that do not tell the state
  StateBytes,      \* what a node may answer to NodeGuard
  OrderedWords,    \* control words to send
  MaxFrames,       \* frames in the socket
  MaxLost          \* frames the bus loses

VARIABLES
  network,              \* the node ids and the pin
  step,                 \* how many frames of Script have been sent
  running, od,          \* of each node: is it OPERATIONAL, its object dictionary
  taken, ordered,       \* last control word and target: what the drive took, what was sent
  lost,                 \* frames lost so far
  socket,               \* frames received and not drained, each with what its sender meant
  motor_nmt_state, drive_state, actual_position, analog_inputs_mv, analog_input_valid,
  encoder_nmt_state, raw_position, valid

motorVars   == <<motor_nmt_state, drive_state, actual_position, analog_inputs_mv,
                 analog_input_valid>>
encoderVars == <<encoder_nmt_state, raw_position, valid>>
deviceVars  == <<running, od>>
orderVars   == <<taken, ordered>>
vars == <<network, step, deviceVars, orderVars, lost, socket, motorVars, encoderVars>>

-----------------------------------------------------------------------------
(* dzcante020l080_constants.hpp. *)
COB_NMT_REQUEST       == 0       \* 0x000
COB_RPDO1_BASE        == 384     \* 0x180
COB_RPDO21_BASE       == 640     \* 0x280
COB_TPDO1_BASE        == 1184    \* 0x4A0
COB_TPDO21_BASE       == 1024    \* 0x400
COB_ENC_TPDO1_BASE    == 384     \* 0x180
COB_SDO_RESPONSE_BASE == 1408    \* 0x580
COB_SDO_REQUEST_BASE  == 1536    \* 0x600
COB_NODEGUARD_BASE    == 1792    \* 0x700

NMT_START_REMOTE_NODE     == 1
NMT_ENTER_PRE_OPERATIONAL == 128
NMT_RESET_COMMUNICATION   == 130

(* Objects: index and subindex. *)
CobId(comm)        == <<comm, 1>>
Transmission(comm) == <<comm, 2>>
RPDO1_COMM  == 5120    \* 0x1400
RPDO21_COMM == 5140    \* 0x1414
TPDO1_COMM  == 6144    \* 0x1800
TPDO21_COMM == 6164    \* 0x1814
GuardTime   == <<4108, 0>>     \* 0x100C
LifeFactor  == <<4109, 0>>     \* 0x100D
ModesOfOp   == <<24672, 0>>    \* 0x6060
ControlWord == <<24640, 0>>    \* 0x6040
SDO_IDX_ANALOG_INPUT == 8218   \* 0x201A

-----------------------------------------------------------------------------
(* Little-endian bytes, and numbers of them. *)
INT32_MAX  == 2147483647
INT32_MIN  == -INT32_MAX - 1
INT16_MAX  == 32767
INT16_MIN  == -INT16_MAX - 1
UINT16_MAX == 65535

Int32  == INT32_MIN..INT32_MAX
Int16  == INT16_MIN..INT16_MAX
Word16 == 0..UINT16_MAX

Bytes2(n) == <<n % 256, (n \div 256) % 256>>
Bytes4(n) == <<n % 256, (n \div 256) % 256, (n \div 65536) % 256, (n \div 16777216) % 256>>
Signed(b) == IF b >= 128 THEN b - 256 ELSE b
Word(lo, hi) == lo + 256 * hi
Int16Of(d) == d[1] + 256 * Signed(d[2])
Int32Of(d) == d[1] + 256 * d[2] + 65536 * d[3] + 16777216 * Signed(d[4])

(* sw & 0x4F and sw & 0x6F. *)
MaskSod(sw)   == (sw % 16) + 64 * ((sw \div 64) % 2)
MaskState(sw) == (sw % 16) + 32 * ((sw \div 32) % 4)

ASSUME NetworkAssumption ==
  /\ Networks \subseteq [motor : 1..127, encoder : 0..127, pin : 0..255]
  /\ \A n \in Networks : n.motor # n.encoder
  /\ Positions \subseteq Int32
  /\ Readings \subseteq Int16
  /\ StatusFlags \subseteq {flags \in Word16 : MaskState(flags) = 0}
  /\ StateBytes \subseteq 0..255
  /\ OrderedWords \subseteq Word16
  /\ MaxFrames \in Nat /\ MaxLost \in Nat

Frame(cob, data) == [cob |-> cob, rtr |-> FALSE, data |-> data]

(* send_nmt(), send_sdo_write(), send_sdo_read(). *)
NmtFrame(id, command) == Frame(COB_NMT_REQUEST, <<command, id>>)

SdoWrite(id, object, value, size) ==
  Frame(COB_SDO_REQUEST_BASE + id, [object |-> object, value |-> value, size |-> size])

SdoRead(id, object) == Frame(COB_SDO_REQUEST_BASE + id, [object |-> object])

-----------------------------------------------------------------------------
(* What configure() sends, in order. *)
Motor   == network.motor
Encoder == network.encoder
HasEncoder == Encoder # 0
AnalogPin == IF network.pin < 3 THEN network.pin ELSE 0

(* The COB-ID of a PDO, and when it is sent or taken. *)
ConfigurePdo(id, comm, cob_base, transmission_type) ==
  <<SdoWrite(id, CobId(comm), cob_base + id, 4),
    SdoWrite(id, Transmission(comm), transmission_type, 1)>>

(* A mutant of the operator below: the two TPDOs are swapped. *)
MutConfigurePdos ==
  ConfigurePdo(Motor, RPDO1_COMM, COB_RPDO1_BASE, 255)
    \o ConfigurePdo(Motor, RPDO21_COMM, COB_RPDO21_BASE, 255)
    \o ConfigurePdo(Motor, TPDO1_COMM, COB_TPDO21_BASE, 10)
    \o ConfigurePdo(Motor, TPDO21_COMM, COB_TPDO1_BASE, 1)

ConfigurePdos ==
  ConfigurePdo(Motor, RPDO1_COMM, COB_RPDO1_BASE, 255)
    \o ConfigurePdo(Motor, RPDO21_COMM, COB_RPDO21_BASE, 255)
    \o ConfigurePdo(Motor, TPDO1_COMM, COB_TPDO1_BASE, 10)
    \o ConfigurePdo(Motor, TPDO21_COMM, COB_TPDO21_BASE, 1)

ConfigureNodeguard(id) ==
  <<SdoWrite(id, GuardTime, 200, 2), SdoWrite(id, LifeFactor, 15, 1)>>

ConfigureMode == <<SdoWrite(Motor, ModesOfOp, 1, 1)>>

(* DISABLE_VOLTAGE, SHUTDOWN, SWITCH_ON, ENABLE_OP, then NMT START. *)
StartupSequence ==
  <<SdoWrite(Motor, ControlWord, 0, 2), SdoWrite(Motor, ControlWord, 6, 2),
    SdoWrite(Motor, ControlWord, 7, 2), SdoWrite(Motor, ControlWord, 15, 2),
    NmtFrame(Motor, NMT_START_REMOTE_NODE)>>

Reset(id) ==
  <<NmtFrame(id, NMT_RESET_COMMUNICATION), NmtFrame(id, NMT_ENTER_PRE_OPERATIONAL)>>

MotorScript ==
  Reset(Motor) \o ConfigurePdos \o ConfigureNodeguard(Motor) \o ConfigureMode \o StartupSequence

ConfigureTpdo == ConfigurePdo(Encoder, TPDO1_COMM, COB_ENC_TPDO1_BASE, 1)

EncoderScript ==
  Reset(Encoder) \o ConfigureTpdo \o ConfigureNodeguard(Encoder)
    \o <<NmtFrame(Encoder, NMT_START_REMOTE_NODE)>>

Script == MotorScript \o (IF HasEncoder THEN EncoderScript ELSE <<>>)

Configured == step = Len(Script)

-----------------------------------------------------------------------------
(* The nodes. *)
Node == {"motor", "encoder"}
Id(n) == IF n = "motor" THEN Motor ELSE Encoder

(* What a node has, with the size of each in bytes. *)
Pdo(n) == IF n = "motor" THEN {RPDO1_COMM, RPDO21_COMM, TPDO1_COMM, TPDO21_COMM}
          ELSE {TPDO1_COMM}
Object(n) ==
  {CobId(comm) : comm \in Pdo(n)} \cup {Transmission(comm) : comm \in Pdo(n)}
    \cup {GuardTime, LifeFactor, ModesOfOp, ControlWord}

SizeOf(object) ==
  CASE object \in {CobId(comm) : comm \in Pdo("motor")} -> 4
    [] object \in {GuardTime, ControlWord}             -> 2
    [] OTHER                                           -> 1

(* The dictionary of a node after a reset of its communication: the COB-IDs *)
(* of the standard, PDOs sent or taken when something happens, no guarding. *)
StandardCobId(id, comm) ==
  CASE comm = TPDO1_COMM -> 384 + id [] comm = TPDO21_COMM -> 640 + id
    [] comm = RPDO1_COMM -> 512 + id [] comm = RPDO21_COMM -> 768 + id

Defaults(n) ==
  [object \in Object(n) |->
     IF object[2] = 1 THEN StandardCobId(Id(n), object[1])
     ELSE IF object[2] = 2 THEN 255 ELSE 0]

(* What a node makes of a frame on the bus. *)
NmtTo(n, f) == f.cob = COB_NMT_REQUEST /\ f.data[2] \in {0, Id(n)}

WritesTo(n, f) ==
  /\ f.cob = COB_SDO_REQUEST_BASE + Id(n)
  /\ f.data.object \in Object(n) /\ SizeOf(f.data.object) = f.data.size

RunningAfter(n, f) ==
  IF NmtTo(n, f) THEN f.data[1] = NMT_START_REMOTE_NODE ELSE running[n]

OdAfter(n, f) ==
  IF NmtTo(n, f) /\ f.data[1] = NMT_RESET_COMMUNICATION THEN Defaults(n)
  ELSE IF WritesTo(n, f) THEN [od[n] EXCEPT ![f.data.object] = f.data.value]
  ELSE od[n]

(* What the drive takes from a frame on the bus as its RPDOs. *)
TakenAs(comm, f) == running["motor"] /\ f.cob = od["motor"][CobId(comm)]

Takes(f) ==
  [word   |-> IF TakenAs(RPDO1_COMM, f) THEN Word(f.data[1], f.data[2]) ELSE taken.word,
   target |-> IF TakenAs(RPDO21_COMM, f) THEN Int32Of(f.data) ELSE taken.target]

(* A frame of the program's on the bus, or lost. *)
Transmit(f) ==
  \/ /\ running' = [n \in Node |-> RunningAfter(n, f)]
     /\ od' = [n \in Node |-> OdAfter(n, f)]
     /\ taken' = Takes(f)
     /\ UNCHANGED lost
  \/ /\ lost < MaxLost
     /\ lost' = lost + 1
     /\ UNCHANGED <<deviceVars, taken>>

-----------------------------------------------------------------------------
Init ==
  /\ network \in Networks
  /\ step = 0
  /\ running = [n \in Node |-> FALSE]
  /\ od = [n \in Node |-> Defaults(n)]
  /\ taken = [word |-> 0, target |-> 0] /\ ordered = taken
  /\ lost = 0
  /\ socket = <<>>
  /\ motor_nmt_state = "UNKNOWN" /\ drive_state = "UNKNOWN" /\ actual_position = 0
  /\ analog_inputs_mv = [pin \in 0..2 |-> 0] /\ analog_input_valid = FALSE
  /\ encoder_nmt_state = "UNKNOWN" /\ raw_position = 0 /\ valid = FALSE

(* SteeringController::init(): the next frame of both configure()s. *)
Configure ==
  /\ step < Len(Script)
  /\ step' = step + 1
  /\ Transmit(Script[step + 1])
  /\ motor_nmt_state' = CASE step' = 2                -> "PRE_OPERATIONAL"
                          [] step' = Len(MotorScript) -> "OPERATIONAL"
                          [] OTHER                    -> motor_nmt_state
  /\ encoder_nmt_state' = CASE step' = Len(MotorScript) + 2         -> "PRE_OPERATIONAL"
                            [] HasEncoder /\ step' = Len(Script)    -> "OPERATIONAL"
                            [] OTHER                                -> encoder_nmt_state
  /\ UNCHANGED <<network, ordered, socket, drive_state, actual_position, analog_inputs_mv,
                 analog_input_valid, raw_position, valid>>

(* A mutant of the operator below: the two upper bytes are left out. *)
MutTargetBytes(counts) == Bytes2(counts) \o <<0, 0>>

TargetBytes(counts) == Bytes4(counts)

(* send_control_word_pdo() and set_target_position(). *)
SendControlWord ==
  /\ Configured
  /\ \E cw \in OrderedWords :
       /\ ordered' = [ordered EXCEPT !.word = cw]
       /\ Transmit(Frame(COB_RPDO1_BASE + Motor, Bytes2(cw)))
  /\ UNCHANGED <<network, step, socket, motorVars, encoderVars>>

SendTarget ==
  /\ Configured
  /\ \E counts \in Positions :
       /\ ordered' = [ordered EXCEPT !.target = counts]
       /\ Transmit(Frame(COB_RPDO21_BASE + Motor, TargetBytes(counts)))
  /\ UNCHANGED <<network, step, socket, motorVars, encoderVars>>

-----------------------------------------------------------------------------
(* What the nodes send, and what they mean by it. *)
Means(n, kind, value, state, f) ==
  [from |-> n, kind |-> kind, value |-> value, state |-> state, frame |-> f]

(* The bits that tell the state, as CiA 402 has them. *)
StatePattern ==
  [NOT_READY_TO_SWITCH_ON |-> 0, SWITCH_ON_DISABLED |-> 64, READY_TO_SWITCH_ON |-> 33,
   OPERATION_DISABLED |-> 35, OPERATION_ENABLED |-> 39, QUICK_STOP |-> 7,
   FAULT_REACTION |-> 15, FAULT |-> 8]

(* In some of them QUICK_STOP's bit 5 may be either. *)
StatusWords(state) ==
  {StatePattern[state] + bit5 + flags :
     bit5 \in IF state \in {"NOT_READY_TO_SWITCH_ON", "SWITCH_ON_DISABLED", "FAULT_REACTION",
                           "FAULT"} THEN {0, 32} ELSE {0},
     flags \in StatusFlags}

(* Every other node hears the frame; a socket that is full drops it. *)
Reports(item) ==
  /\ Len(socket) < MaxFrames
  /\ socket' = Append(socket, item)
  /\ taken' = IF item.from = "motor" THEN taken ELSE Takes(item.frame)
  /\ UNCHANGED <<network, step, deviceVars, ordered, lost, motorVars, encoderVars>>

(* A PDO answers a SYNC if its transmission type says so. *)
Synchronous(n, comm) == running[n] /\ od[n][Transmission(comm)] \in 1..240

(* And has the COB-ID that the dictionary says. *)
TPdo(n, comm, data) == Frame(od[n][CobId(comm)], data)

DriveReportsStatus ==
  /\ Configured /\ Synchronous("motor", TPDO1_COMM)
  /\ \E state \in DOMAIN StatePattern : \E sw \in StatusWords(state) :
       Reports(Means("motor", "status", 0, state, TPdo("motor", TPDO1_COMM, Bytes2(sw))))

DriveReportsPosition ==
  /\ Configured /\ Synchronous("motor", TPDO21_COMM)
  /\ \E counts \in Positions :
       Reports(Means("motor", "position", counts, "",
                     TPdo("motor", TPDO21_COMM, Bytes4(counts))))

EncoderReports ==
  /\ Configured /\ HasEncoder /\ Synchronous("encoder", TPDO1_COMM)
  /\ \E counts \in Positions :
       Reports(Means("encoder", "encoder", counts, "",
                     TPdo("encoder", TPDO1_COMM, Bytes4(counts))))

(* A PDO with a shorter mapping than the code expects. *)
ReportsShort ==
  /\ Configured
  /\ \E n \in Node :
       /\ n = "encoder" => HasEncoder
       /\ Synchronous(n, TPDO1_COMM)
       /\ Reports(Means(n, "short", 0, "", TPdo(n, TPDO1_COMM, <<39>>)))

NodeAnswersGuard ==
  /\ \E n \in Node, state_byte \in StateBytes :
       /\ n = "encoder" => HasEncoder
       /\ Reports(Means(n, "nmt", state_byte, "",
                        Frame(COB_NODEGUARD_BASE + Id(n), <<state_byte>>)))

(* What a node answers to an SDO. *)
SdoAnswer(id, command, object, data) ==
  Frame(COB_SDO_RESPONSE_BASE + id, [command |-> command, object |-> object, data |-> data])

(* poll_analog_input(): the request, and the drive's answer to it. *)
DriveAnswersPoll ==
  /\ Configured /\ ~HasEncoder
  /\ LET request == SdoRead(Motor, <<SDO_IDX_ANALOG_INPUT, AnalogPin + 1>>)
     IN  \E raw \in Readings :
           Reports(Means("motor", "analog", raw, "",
                         SdoAnswer(Motor, "upload", request.data.object, Bytes2(raw))))

(* The answer to a write, an abort, or an answer to a read that is one     *)
(* byte short.                                                             *)
SdoData(command) == IF command = "upload" THEN <<6>> ELSE <<6, 2>>

NodeAnswersSdo ==
  \E n \in Node, command \in {"download", "abort", "upload"} :
    /\ n = "encoder" => HasEncoder
    /\ Reports(Means(n, "sdo", 0, "",
                     SdoAnswer(Id(n), command, <<SDO_IDX_ANALOG_INPUT, 1>>, SdoData(command))))

(* The COB-IDs the drivers look for. *)
ListenedTo ==
  {COB_TPDO1_BASE + Motor, COB_TPDO21_BASE + Motor, COB_SDO_RESPONSE_BASE + Motor,
   COB_NODEGUARD_BASE + Motor}
    \cup (IF HasEncoder THEN {COB_ENC_TPDO1_BASE + Encoder, COB_NODEGUARD_BASE + Encoder}
          ELSE {})

(* A remote frame has a length and no data: its bytes are 0. *)
RemoteData(cob, dlc) ==
  IF cob = COB_SDO_RESPONSE_BASE + Motor
  THEN [command |-> "none", object |-> <<0, 0>>, data |-> <<>>]
  ELSE IF dlc = 0 THEN <<>> ELSE <<0, 0, 0, 0>>

(* Another master, or another program on this host, asks a node for one of *)
(* these frames, with the length that frame has or with none.              *)
RemoteFrame ==
  /\ Len(socket) < MaxFrames
  /\ \E cob \in ListenedTo, dlc \in {0, 4} :
       socket' = Append(socket,
         Means("other", "request", dlc, "",
               [cob |-> cob, rtr |-> TRUE, data |-> RemoteData(cob, dlc)]))
  /\ UNCHANGED <<network, step, deviceVars, orderVars, lost, motorVars, encoderVars>>

-----------------------------------------------------------------------------
(* The drivers. *)
Quotient(n, d) == IF n < 0 THEN -((-n) \div d) ELSE n \div d

(* update_motor_state(). *)
Decoded(sw) ==
  CASE MaskSod(sw) = 64   -> "SWITCH_ON_DISABLED"
    [] MaskState(sw) = 33 -> "READY_TO_SWITCH_ON"
    [] MaskState(sw) = 35 -> "OPERATION_DISABLED"
    [] MaskState(sw) = 39 -> "OPERATION_ENABLED"
    [] MaskState(sw) = 7  -> "QUICK_STOP"
    [] MaskSod(sw) = 8    -> "FAULT"
    [] OTHER              -> drive_state

(* process_nmt_heartbeat(), the state alone. *)
NmtHeard(state_byte, old) ==
  CASE state_byte \in {5, 133}   -> "OPERATIONAL"
    [] state_byte \in {4, 132}   -> "STOPPED"
    [] state_byte \in {127, 255} -> "PRE_OPERATIONAL"
    [] OTHER                     -> old

(* process_sdo_response(); a frame of six bytes has two of data. *)
ReadsAnalog(data) ==
  /\ data.command = "upload" /\ Len(data.data) >= 2
  /\ data.object[1] = SDO_IDX_ANALOG_INPUT /\ data.object[2] \in 1..3

Narrowed(n) == ((n + 32768) % 65536) - 32768

Millivolts(raw) == Narrowed(Quotient(raw * 20000, 16384))

ProcessSdoResponse(data) ==
  IF ReadsAnalog(data)
  THEN /\ analog_inputs_mv' =
            [analog_inputs_mv EXCEPT ![data.object[2] - 1] = Millivolts(Int16Of(data.data))]
       /\ analog_input_valid' = TRUE
       /\ UNCHANGED <<motor_nmt_state, drive_state, actual_position>>
  ELSE UNCHANGED motorVars

(* process_tpdo1(), process_tpdo21(). *)
ProcessTpdo1(data) ==
  /\ drive_state' = IF Len(data) < 2 THEN drive_state ELSE Decoded(Word(data[1], data[2]))
  /\ UNCHANGED <<motor_nmt_state, actual_position, analog_inputs_mv, analog_input_valid>>

ProcessTpdo21(data) ==
  /\ actual_position' = IF Len(data) < 4 THEN actual_position ELSE Int32Of(data)
  /\ UNCHANGED <<motor_nmt_state, drive_state, analog_inputs_mv, analog_input_valid>>

(* A mutant of the operator below: any NodeGuard answer is the motor's.    *)
MutMotorProcessFrame(f) ==
  CASE f.cob = COB_TPDO1_BASE + Motor        -> ProcessTpdo1(f.data)
    [] f.cob = COB_TPDO21_BASE + Motor       -> ProcessTpdo21(f.data)
    [] f.cob = COB_SDO_RESPONSE_BASE + Motor -> ProcessSdoResponse(f.data)
    [] f.cob >= COB_NODEGUARD_BASE /\ ~f.rtr /\ Len(f.data) >= 1
         -> /\ motor_nmt_state' = NmtHeard(f.data[1], motor_nmt_state)
            /\ UNCHANGED <<drive_state, actual_position, analog_inputs_mv, analog_input_valid>>
    [] OTHER -> UNCHANGED motorVars

(* MotorDriver::process_frame(): only NodeGuard looks at the RTR flag. *)
MotorProcessFrame(f) ==
  CASE f.cob = COB_TPDO1_BASE + Motor        -> ProcessTpdo1(f.data)
    [] f.cob = COB_TPDO21_BASE + Motor       -> ProcessTpdo21(f.data)
    [] f.cob = COB_SDO_RESPONSE_BASE + Motor -> ProcessSdoResponse(f.data)
    [] f.cob = COB_NODEGUARD_BASE + Motor /\ ~f.rtr /\ Len(f.data) >= 1
         -> /\ motor_nmt_state' = NmtHeard(f.data[1], motor_nmt_state)
            /\ UNCHANGED <<drive_state, actual_position, analog_inputs_mv, analog_input_valid>>
    [] OTHER -> UNCHANGED motorVars

(* EncoderDriver::process_frame() and process_tpdo1(). *)
EncoderProcessFrame(f) ==
  CASE f.cob = COB_ENC_TPDO1_BASE + Encoder /\ Len(f.data) >= 4
         -> /\ raw_position' = Int32Of(f.data)
            /\ valid' = TRUE
            /\ UNCHANGED encoder_nmt_state
    [] f.cob = COB_NODEGUARD_BASE + Encoder /\ ~f.rtr /\ Len(f.data) >= 1
         -> /\ encoder_nmt_state' = NmtHeard(f.data[1], encoder_nmt_state)
            /\ UNCHANGED <<raw_position, valid>>
    [] OTHER -> UNCHANGED encoderVars

(* receive_frames(): one frame of the drain, to both drivers. *)
ReceiveFrame ==
  /\ Configured
  /\ socket # <<>>
  /\ socket' = Tail(socket)
  /\ MotorProcessFrame(Head(socket).frame)
  /\ IF HasEncoder THEN EncoderProcessFrame(Head(socket).frame) ELSE UNCHANGED encoderVars
  /\ UNCHANGED <<network, step, deviceVars, orderVars, lost>>

Next ==
  \/ Configure
  \/ SendControlWord \/ SendTarget
  \/ DriveReportsStatus \/ DriveReportsPosition \/ EncoderReports \/ ReportsShort
  \/ NodeAnswersGuard \/ DriveAnswersPoll \/ NodeAnswersSdo
  \/ RemoteFrame
  \/ ReceiveFrame

Spec == Init /\ [][Next]_vars

-----------------------------------------------------------------------------
Meant == Head(socket)

(* A reading whose millivolts fit an int16_t, 32.7 V either way. *)
Representable(raw) == -26844 < raw /\ raw < 26844

(* Two numbers less than one millivolt apart, in units of 1/16384 mV. *)
WithinOne(x, y) == x - y < 16384 /\ y - x < 16384

(* The seven bits of a NodeGuard answer, as CiA 301 has them. *)
NodeStates ==
  [code \in {4, 5, 127} |-> CASE code = 4 -> "STOPPED" [] code = 5 -> "OPERATIONAL"
                              [] code = 127 -> "PRE_OPERATIONAL"]

(* What a driver makes of the frame it drains is what its sender meant. *)
MeantIsHeard ==
  CASE Meant.kind = "status" ->
         drive_state' = IF Meant.state \in {"FAULT_REACTION", "NOT_READY_TO_SWITCH_ON"}
                        THEN drive_state ELSE Meant.state
    [] Meant.kind = "position" -> actual_position' = Meant.value
    [] Meant.kind = "encoder"  -> raw_position' = Meant.value /\ valid'
    [] Meant.kind = "analog"   ->
         /\ analog_input_valid'
         /\ Representable(Meant.value) =>
              WithinOne(analog_inputs_mv'[AnalogPin] * 16384, Meant.value * 20000)
    [] Meant.kind = "nmt" /\ Meant.value % 128 \in DOMAIN NodeStates ->
         NodeStates[Meant.value % 128] =
           IF Meant.from = "motor" THEN motor_nmt_state' ELSE encoder_nmt_state'
    [] OTHER -> UNCHANGED <<motorVars, encoderVars>>

(* A remote frame for the frame with this COB-ID, with the length of it. *)
Asks(cob) == Meant.kind = "request" /\ Meant.frame.cob = cob /\ Meant.value = 4

(* Only what is known of its sender changes, and only by what tells of it; *)
(* or a remote frame for a position is taken for the position 0.           *)
OnlyOwnersChange ==
  /\ encoderVars' # encoderVars =>
       \/ Meant.from = "encoder" /\ Meant.kind \in {"encoder", "nmt"}
       \/ /\ HasEncoder /\ Asks(COB_ENC_TPDO1_BASE + Encoder)
          /\ raw_position' = 0 /\ valid' /\ UNCHANGED encoder_nmt_state
  /\ motorVars' # motorVars =>
       \/ Meant.from = "motor" /\ Meant.kind \in {"status", "position", "analog", "nmt"}
       \/ /\ Asks(COB_TPDO21_BASE + Motor)
          /\ actual_position' = 0
          /\ UNCHANGED <<motor_nmt_state, drive_state, analog_inputs_mv, analog_input_valid>>

(* Once both nodes are configured and no write was lost on the way, every  *)
(* frame they send means to its driver what they meant: the state of the   *)
(* power stage, to the bit, in spite of two masks and flags that come and  *)
(* go; positions of either sign; millivolts to one unit; NMT states with   *)
(* and without the toggle bit (motor_driver.cpp:122-165, :272-358,         *)
(* encoder_driver.cpp:72-86, :105-132).                                    *)
HeardAsSent ==
  [][lost = 0 /\ Len(socket') < Len(socket) /\ Meant.from \in Node => MeantIsHeard]_vars

(* Whatever was lost, a frame changes only what is known of the node that  *)
(* sent it, and only what it is about: not the other node, and no short    *)
(* PDO or SDO answer.  Remote frames, which no node sends, change nothing  *)
(* but for two: the drivers strip the RTR flag before they compare COB-IDs *)
(* and look at it for NodeGuard alone, so a remote frame for a TPDO that   *)
(* carries a position is taken for a report of position 0, and makes valid *)
(* an encoder that has not reported yet; one for the StatusWord is a word  *)
(* 0, which matches no mask (motor_driver.cpp:272-310, :344-358,           *)
(* encoder_driver.cpp:105-132, steering_controller.cpp:149-154).           *)
EachFrameItsOwner == [][Len(socket') < Len(socket) => OnlyOwnersChange]_vars

(* The drive takes the control words and targets it is sent, byte for      *)
(* byte, and takes nothing else for one: not the encoder's position, whose *)
(* COB-ID has the same base as the control word (motor_driver.cpp:103-113, *)
(* :369-377, dzcante020l080_constants.hpp:194-197).                        *)
DriveTakesWhatIsSent == lost = 0 => taken = ordered

=============================================================================
