------------------------- MODULE NodeNetworkProofs -------------------------
(***************************************************************************)
(* What the drivers and their nodes mean by a frame is the same, for every *)
(* node id, pin, position, reading, flag, NodeGuard byte, number of frames *)
(* in the socket and number of frames lost.                                *)
(*                                                                         *)
(* The invariant says which COB-IDs the drive's dictionary can have, what  *)
(* of configure() is in force while nothing was lost, and that everything  *)
(* in the socket was sent under one of those COB-IDs.                      *)
(***************************************************************************)
EXTENDS NodeNetwork, SequenceTheorems, TLAPS

(* Two nodes have two ids; every id is the size of a byte without its top  *)
(* bit, which is what keeps the COB-IDs of different frames apart.         *)
LEMMA Ids ==
  ASSUME network \in Networks
  PROVE  /\ Motor \in Int /\ 1 <= Motor /\ Motor <= 127
         /\ Encoder \in Int /\ 0 <= Encoder /\ Encoder <= 127
         /\ Motor # Encoder
         /\ AnalogPin \in 0..2
<1>1. /\ network \in [motor : 1..127, encoder : 0..127, pin : 0..255]
      /\ network.motor # network.encoder
  BY NetworkAssumption
<1>2. network.motor \in 1..127 /\ network.encoder \in 0..127 /\ network.pin \in 0..255
  BY <1>1
<1>3. AnalogPin \in 0..2
  BY <1>2, SMT DEF AnalogPin
<1> QED BY <1>1, <1>2, <1>3, SMT DEF Motor, Encoder

(* Script, frame by frame. *)
LEMMA MotorScriptIs ==
  /\ Len(MotorScript) = 18
  /\ MotorScript[1] = NmtFrame(Motor, NMT_RESET_COMMUNICATION)
  /\ MotorScript[2] = NmtFrame(Motor, NMT_ENTER_PRE_OPERATIONAL)
  /\ MotorScript[3] = SdoWrite(Motor, CobId(RPDO1_COMM), COB_RPDO1_BASE + Motor, 4)
  /\ MotorScript[4] = SdoWrite(Motor, Transmission(RPDO1_COMM), 255, 1)
  /\ MotorScript[5] = SdoWrite(Motor, CobId(RPDO21_COMM), COB_RPDO21_BASE + Motor, 4)
  /\ MotorScript[6] = SdoWrite(Motor, Transmission(RPDO21_COMM), 255, 1)
  /\ MotorScript[7] = SdoWrite(Motor, CobId(TPDO1_COMM), COB_TPDO1_BASE + Motor, 4)
  /\ MotorScript[8] = SdoWrite(Motor, Transmission(TPDO1_COMM), 10, 1)
  /\ MotorScript[9] = SdoWrite(Motor, CobId(TPDO21_COMM), COB_TPDO21_BASE + Motor, 4)
  /\ MotorScript[10] = SdoWrite(Motor, Transmission(TPDO21_COMM), 1, 1)
  /\ MotorScript[11] = SdoWrite(Motor, GuardTime, 200, 2)
  /\ MotorScript[12] = SdoWrite(Motor, LifeFactor, 15, 1)
  /\ MotorScript[13] = SdoWrite(Motor, ModesOfOp, 1, 1)
  /\ MotorScript[14] = SdoWrite(Motor, ControlWord, 0, 2)
  /\ MotorScript[15] = SdoWrite(Motor, ControlWord, 6, 2)
  /\ MotorScript[16] = SdoWrite(Motor, ControlWord, 7, 2)
  /\ MotorScript[17] = SdoWrite(Motor, ControlWord, 15, 2)
  /\ MotorScript[18] = NmtFrame(Motor, NMT_START_REMOTE_NODE)
  BY SMT DEF MotorScript, Reset, ConfigurePdos, ConfigurePdo, ConfigureNodeguard, ConfigureMode,
             StartupSequence

LEMMA EncoderScriptIs ==
  /\ Len(EncoderScript) = 7
  /\ EncoderScript[1] = NmtFrame(Encoder, NMT_RESET_COMMUNICATION)
  /\ EncoderScript[2] = NmtFrame(Encoder, NMT_ENTER_PRE_OPERATIONAL)
  /\ EncoderScript[3] = SdoWrite(Encoder, CobId(TPDO1_COMM), COB_ENC_TPDO1_BASE + Encoder, 4)
  /\ EncoderScript[4] = SdoWrite(Encoder, Transmission(TPDO1_COMM), 1, 1)
  /\ EncoderScript[5] = SdoWrite(Encoder, GuardTime, 200, 2)
  /\ EncoderScript[6] = SdoWrite(Encoder, LifeFactor, 15, 1)
  /\ EncoderScript[7] = NmtFrame(Encoder, NMT_START_REMOTE_NODE)
  BY SMT DEF EncoderScript, Reset, ConfigureTpdo, ConfigurePdo, ConfigureNodeguard

LEMMA ScriptIs ==
  /\ Len(Script) = IF HasEncoder THEN 25 ELSE 18
  /\ \A i \in 1..18 : Script[i] = MotorScript[i]
  /\ HasEncoder => \A i \in 1..7 : Script[i + 18] = EncoderScript[i]
<1>1. CASE ~HasEncoder
  <2>1. Script = MotorScript \o <<>>
    BY <1>1 DEF Script
  <2>2. MotorScript \o <<>> = MotorScript
    BY SMT DEF MotorScript, Reset, ConfigurePdos, ConfigurePdo, ConfigureNodeguard, ConfigureMode,
             StartupSequence
  <2> QED BY <1>1, <2>1, <2>2, MotorScriptIs
<1>2. CASE HasEncoder
  <2>1. Script = MotorScript \o EncoderScript
    BY <1>2 DEF Script
  <2>2. Len(MotorScript \o EncoderScript) = 25
    BY SMT DEF MotorScript, Reset, ConfigurePdos, ConfigurePdo, ConfigureNodeguard, ConfigureMode,
             StartupSequence, EncoderScript, ConfigureTpdo
  <2>3. \A i \in 1..18 : (MotorScript \o EncoderScript)[i] = MotorScript[i]
    BY SMT DEF MotorScript, Reset, ConfigurePdos, ConfigurePdo, ConfigureNodeguard, ConfigureMode,
             StartupSequence, EncoderScript, ConfigureTpdo
  <2>4. \A i \in 1..7 : (MotorScript \o EncoderScript)[i + 18] = EncoderScript[i]
    BY SMT DEF MotorScript, Reset, ConfigurePdos, ConfigurePdo, ConfigureNodeguard, ConfigureMode,
             StartupSequence, EncoderScript, ConfigureTpdo
  <2> QED BY <1>2, <2>1, <2>2, <2>3, <2>4
<1> QED BY <1>1, <1>2

(* The COB-ID that configure() writes for a PDO, and the frame of Script that does. *)
ConfiguredCobId(id, comm) ==
  CASE comm = RPDO1_COMM  -> COB_RPDO1_BASE + id
    [] comm = RPDO21_COMM -> COB_RPDO21_BASE + id
    [] comm = TPDO1_COMM  -> COB_TPDO1_BASE + id
    [] comm = TPDO21_COMM -> COB_TPDO21_BASE + id

WrittenAt(comm) ==
  CASE comm = RPDO1_COMM -> 3 [] comm = RPDO21_COMM -> 5
    [] comm = TPDO1_COMM -> 7 [] comm = TPDO21_COMM -> 9

Others == {Transmission(comm) : comm \in Pdo("motor")}
            \cup {GuardTime, LifeFactor, ModesOfOp, ControlWord}

LEMMA Pdos ==
  /\ Pdo("motor") = {RPDO1_COMM, RPDO21_COMM, TPDO1_COMM, TPDO21_COMM}
  /\ Pdo("encoder") = {TPDO1_COMM}
  BY DEF Pdo

LEMMA PdosDiffer ==
  /\ RPDO1_COMM # RPDO21_COMM /\ RPDO1_COMM # TPDO1_COMM /\ RPDO1_COMM # TPDO21_COMM
  /\ RPDO21_COMM # TPDO1_COMM /\ RPDO21_COMM # TPDO21_COMM /\ TPDO1_COMM # TPDO21_COMM
  BY SMT DEF RPDO1_COMM, RPDO21_COMM, TPDO1_COMM, TPDO21_COMM

LEMMA CobIds ==
  /\ \A comm \in Pdo("motor") : CobId(comm) \in Object("motor")
  /\ CobId(TPDO1_COMM) \in Object("encoder")
  /\ \A c, d : CobId(c) = CobId(d) => c = d
  /\ \A c : CobId(c) \notin Others
<1>1. \A c : CobId(c) \notin Others
  BY SMT DEF CobId, Others, Transmission, GuardTime, LifeFactor, ModesOfOp, ControlWord
<1>2. CobId(TPDO1_COMM) \in Object("encoder")
  BY Pdos DEF Object
<1>3. \A comm \in Pdo("motor") : CobId(comm) \in Object("motor")
  BY DEF Object
<1> QED BY <1>1, <1>2, <1>3 DEF CobId

LEMMA CobIdSize == ASSUME NEW comm \in Pdo("motor") PROVE SizeOf(CobId(comm)) = 4
<1>1. CobId(comm) \in {CobId(c) : c \in Pdo("motor")}
  OBVIOUS
<1>2. CobId(comm) \notin {GuardTime, ControlWord}
  BY CobIds DEF Others
<1> QED BY <1>1, <1>2, Zenon DEF SizeOf

LEMMA ConfiguredIs ==
  ASSUME NEW id
  PROVE  /\ ConfiguredCobId(id, RPDO1_COMM) = COB_RPDO1_BASE + id /\ WrittenAt(RPDO1_COMM) = 3
         /\ ConfiguredCobId(id, RPDO21_COMM) = COB_RPDO21_BASE + id /\ WrittenAt(RPDO21_COMM) = 5
         /\ ConfiguredCobId(id, TPDO1_COMM) = COB_TPDO1_BASE + id /\ WrittenAt(TPDO1_COMM) = 7
         /\ ConfiguredCobId(id, TPDO21_COMM) = COB_TPDO21_BASE + id /\ WrittenAt(TPDO21_COMM) = 9
  BY PdosDiffer DEF ConfiguredCobId, WrittenAt

LEMMA StandardIs ==
  ASSUME NEW id
  PROVE  /\ StandardCobId(id, RPDO1_COMM) = 512 + id
         /\ StandardCobId(id, RPDO21_COMM) = 768 + id
         /\ StandardCobId(id, TPDO1_COMM) = 384 + id
         /\ StandardCobId(id, TPDO21_COMM) = 640 + id
  BY PdosDiffer DEF StandardCobId

LEMMA OthersAre ==
  /\ GuardTime \in Others /\ LifeFactor \in Others /\ ModesOfOp \in Others /\ ControlWord \in Others
  /\ \A comm \in Pdo("motor") : Transmission(comm) \in Others
  BY DEF Others

-----------------------------------------------------------------------------
(* What the k-th frame is that the drive is sent; what a frame is that the encoder is sent. *)
IsMotorFrame(k, f) ==
  \/ k = 1 /\ f = NmtFrame(Motor, NMT_RESET_COMMUNICATION)
  \/ k = 2 /\ f = NmtFrame(Motor, NMT_ENTER_PRE_OPERATIONAL)
  \/ k = 18 /\ f = NmtFrame(Motor, NMT_START_REMOTE_NODE)
  \/ \E comm \in Pdo("motor") :
       k = WrittenAt(comm) /\ f = SdoWrite(Motor, CobId(comm), ConfiguredCobId(Motor, comm), 4)
  \/ /\ k \in (4..17) \ {5, 7, 9}
     /\ \E object \in Others : \E value, size : f = SdoWrite(Motor, object, value, size)

IsEncoderFrame(f) ==
  \/ \E command : f = NmtFrame(Encoder, command)
  \/ f = SdoWrite(Encoder, CobId(TPDO1_COMM), COB_ENC_TPDO1_BASE + Encoder, 4)
  \/ \E object \in Others : \E value, size : f = SdoWrite(Encoder, object, value, size)

LEMMA MotorFrames ==
  ASSUME NEW k \in 1..18
  PROVE  IsMotorFrame(k, Script[k])
<1>1. Script[k] = MotorScript[k]
  BY ScriptIs
<1>2. CASE k \in {1, 2, 18}
  BY <1>1, <1>2, MotorScriptIs DEF IsMotorFrame
<1>3. CASE k \in {3, 5, 7, 9}
  BY <1>1, <1>3, MotorScriptIs, ConfiguredIs, Pdos DEF IsMotorFrame
<1>4. CASE k \in (4..17) \ {5, 7, 9}
  <2>1. \E object \in Others : \E value, size : MotorScript[k] = SdoWrite(Motor, object, value, size)
    BY <1>4, MotorScriptIs, OthersAre, Pdos
  <2> QED BY <1>1, <1>4, <2>1 DEF IsMotorFrame
<1> QED BY <1>2, <1>3, <1>4

LEMMA EncoderFrames ==
  ASSUME HasEncoder, NEW k \in 19..25
  PROVE  IsEncoderFrame(Script[k])
<1>1. Script[k] = EncoderScript[k - 18]
  <2>1. k - 18 \in 1..7 /\ (k - 18) + 18 = k
    OBVIOUS
  <2> QED BY <2>1, ScriptIs
<1>2. k - 18 \in {1, 2, 3, 4, 5, 6, 7}
  OBVIOUS
<1>3. IsEncoderFrame(EncoderScript[k - 18])
  BY <1>2, EncoderScriptIs, OthersAre, Pdos DEF IsEncoderFrame
<1> QED BY <1>1, <1>3

-----------------------------------------------------------------------------
(* What each kind of frame does to a node. *)
LEMMA NodeIds ==
  ASSUME network \in Networks
  PROVE  /\ Id("motor") = Motor /\ Id("encoder") = Encoder
         /\ \A n \in Node : Id(n) \in Int /\ Id(n) >= 0 /\ Id(n) <= 127
  BY Ids DEF Id, Node

LEMMA NmtEffect ==
  ASSUME network \in Networks, NEW n \in Node, NEW id, NEW command
  PROVE  LET f == NmtFrame(id, command)
         IN  /\ id \in {0, Id(n)} => RunningAfter(n, f) = (command = NMT_START_REMOTE_NODE)
             /\ id \notin {0, Id(n)} => RunningAfter(n, f) = running[n]
             /\ OdAfter(n, f) =
                  IF id \in {0, Id(n)} /\ command = NMT_RESET_COMMUNICATION
                  THEN Defaults(n) ELSE od[n]
<1> DEFINE f == NmtFrame(id, command)
<1>1. f.cob = 0 /\ f.data[1] = command /\ f.data[2] = id
  BY DEF NmtFrame, Frame, COB_NMT_REQUEST
<1>2. ~WritesTo(n, f)
  BY <1>1, NodeIds, SMT DEF WritesTo, COB_SDO_REQUEST_BASE
<1>3. NmtTo(n, f) <=> id \in {0, Id(n)}
  BY <1>1 DEF NmtTo, COB_NMT_REQUEST
<1> HIDE DEF f
<1>4. id \in {0, Id(n)} => RunningAfter(n, f) = (command = NMT_START_REMOTE_NODE)
  BY <1>1, <1>3, Zenon DEF RunningAfter
<1>5. id \notin {0, Id(n)} => RunningAfter(n, f) = running[n]
  BY <1>3, Zenon DEF RunningAfter
<1>6. OdAfter(n, f) = IF id \in {0, Id(n)} /\ command = NMT_RESET_COMMUNICATION
                      THEN Defaults(n) ELSE od[n]
  BY <1>1, <1>2, <1>3, Zenon DEF OdAfter
<1> QED BY <1>4, <1>5, <1>6, Zenon DEF f

LEMMA SdoEffect ==
  ASSUME network \in Networks, NEW n \in Node, NEW id \in Int, id >= 0,
         NEW object, NEW value, NEW size
  PROVE  LET f == SdoWrite(id, object, value, size)
         IN  /\ RunningAfter(n, f) = running[n]
             /\ OdAfter(n, f) =
                  IF id = Id(n) /\ object \in Object(n) /\ SizeOf(object) = size
                  THEN [od[n] EXCEPT ![object] = value] ELSE od[n]
<1> DEFINE f == SdoWrite(id, object, value, size)
<1>1. /\ f.cob = 1536 + id /\ f.data.object = object /\ f.data.value = value
      /\ f.data.size = size
  BY DEF SdoWrite, Frame, COB_SDO_REQUEST_BASE
<1>2. ~NmtTo(n, f)
  BY <1>1, SMT DEF NmtTo, COB_NMT_REQUEST
<1>3. f.cob = COB_SDO_REQUEST_BASE + Id(n) <=> id = Id(n)
  BY <1>1, NodeIds, SMT DEF COB_SDO_REQUEST_BASE
<1> HIDE DEF f
<1>4. WritesTo(n, f) <=> id = Id(n) /\ object \in Object(n) /\ SizeOf(object) = size
  BY <1>1, <1>3, Zenon DEF WritesTo
<1>5. /\ RunningAfter(n, f) = running[n]
      /\ OdAfter(n, f) = IF id = Id(n) /\ object \in Object(n) /\ SizeOf(object) = size
                         THEN [od[n] EXCEPT ![object] = value] ELSE od[n]
  BY <1>1, <1>2, <1>4, Zenon DEF RunningAfter, OdAfter
<1> QED BY <1>5 DEF f

LEMMA PdoEffect ==
  ASSUME network \in Networks, NEW n \in Node, NEW cob \in Int, 0 < cob, cob < 1536, NEW data
  PROVE  RunningAfter(n, Frame(cob, data)) = running[n] /\ OdAfter(n, Frame(cob, data)) = od[n]
<1> DEFINE f == Frame(cob, data)
<1>1. f.cob = cob
  BY DEF Frame
<1> HIDE DEF f
<1>2. ~NmtTo(n, f) /\ ~WritesTo(n, f)
  BY <1>1, NodeIds, SMT DEF NmtTo, WritesTo, COB_NMT_REQUEST, COB_SDO_REQUEST_BASE
<1>3. RunningAfter(n, f) = running[n]
  BY <1>2, Zenon DEF RunningAfter
<1>4. OdAfter(n, f) = od[n]
  BY <1>2, SMT DEF OdAfter
<1> QED BY <1>3, <1>4, Zenon DEF f

-----------------------------------------------------------------------------
(* The dictionaries: of the drive every COB-ID is the standard's or the one *)
(* that configure() writes; the encoder's are the same.                     *)
DictionaryInv ==
  /\ \A n \in Node : DOMAIN od[n] = Object(n)
  /\ \A comm \in Pdo("motor") :
       od["motor"][CobId(comm)] \in {StandardCobId(Motor, comm), ConfiguredCobId(Motor, comm)}
  /\ od["encoder"][CobId(TPDO1_COMM)] = COB_ENC_TPDO1_BASE + Encoder

LEMMA DefaultsAre ==
  /\ \A n \in Node : DOMAIN Defaults(n) = Object(n)
  /\ \A comm \in Pdo("motor") : Defaults("motor")[CobId(comm)] = StandardCobId(Motor, comm)
  /\ Defaults("encoder")[CobId(TPDO1_COMM)] = COB_ENC_TPDO1_BASE + Encoder
<1>1. \A n \in Node : DOMAIN Defaults(n) = Object(n)
  BY DEF Defaults
<1>2. \A c : CobId(c)[1] = c /\ CobId(c)[2] = 1
  BY DEF CobId
<1>3. \A n \in Node : \A c : CobId(c) \in Object(n) =>
        Defaults(n)[CobId(c)] = StandardCobId(Id(n), c)
  BY <1>2, Zenon DEF Defaults
<1>4. Id("motor") = Motor /\ Id("encoder") = Encoder
  BY DEF Id
<1>5. StandardCobId(Encoder, TPDO1_COMM) = COB_ENC_TPDO1_BASE + Encoder
  BY StandardIs DEF COB_ENC_TPDO1_BASE
<1>6. "motor" \in Node /\ "encoder" \in Node
  BY DEF Node
<1> QED BY <1>1, <1>3, <1>4, <1>5, <1>6, CobIds

(* What the k-th frame of Script leaves of the drive's dictionary, and whether it runs. *)
MotorAfter(k, dict, runs) ==
  /\ DOMAIN dict = Object("motor")
  /\ \A comm \in Pdo("motor") :
       dict[CobId(comm)] = IF k = 1 THEN StandardCobId(Motor, comm)
                           ELSE IF k = WrittenAt(comm) THEN ConfiguredCobId(Motor, comm)
                           ELSE od["motor"][CobId(comm)]
  /\ runs = IF k \in {1, 2} THEN FALSE ELSE IF k = 18 THEN TRUE ELSE running["motor"]

EncoderAfter(dict) ==
  /\ DOMAIN dict = Object("encoder")
  /\ dict[CobId(TPDO1_COMM)] = COB_ENC_TPDO1_BASE + Encoder

LEMMA MotorAfterScript ==
  ASSUME network \in Networks, DictionaryInv, NEW k \in 1..Len(Script)
  PROVE  MotorAfter(k, OdAfter("motor", Script[k]), RunningAfter("motor", Script[k]))
<1> SUFFICES ASSUME NEW f, f = Script[k]
             PROVE  MotorAfter(k, OdAfter("motor", f), RunningAfter("motor", f))
  OBVIOUS
<1>0. /\ "motor" \in Node /\ Id("motor") = Motor
      /\ DOMAIN od["motor"] = Object("motor")
      /\ Motor \in Int /\ Motor >= 1 /\ Motor # Encoder /\ Encoder \in Int /\ Encoder >= 0
      /\ k \in Int /\ k >= 1 /\ (HasEncoder => k <= 25) /\ (~HasEncoder => k <= 18)
  BY NodeIds, Ids, ScriptIs DEF Node, DictionaryInv
<1>w. \A comm \in Pdo("motor") : WrittenAt(comm) \in {3, 5, 7, 9}
  BY ConfiguredIs, Pdos
<1>k. /\ NMT_RESET_COMMUNICATION # NMT_START_REMOTE_NODE
      /\ NMT_ENTER_PRE_OPERATIONAL # NMT_START_REMOTE_NODE
      /\ NMT_ENTER_PRE_OPERATIONAL # NMT_RESET_COMMUNICATION
  BY SMT DEF NMT_RESET_COMMUNICATION, NMT_START_REMOTE_NODE, NMT_ENTER_PRE_OPERATIONAL
<1>1. ASSUME k = 1, f = NmtFrame(Motor, NMT_RESET_COMMUNICATION)
      PROVE  MotorAfter(k, OdAfter("motor", f), RunningAfter("motor", f))
  <2>0. Motor \in {0, Id("motor")}
    BY <1>0
  <2>a. OdAfter("motor", f) = Defaults("motor")
    BY <1>0, <1>1, <1>k, <2>0, NmtEffect
  <2>c. RunningAfter("motor", NmtFrame(Motor, NMT_RESET_COMMUNICATION))
          = (NMT_RESET_COMMUNICATION = NMT_START_REMOTE_NODE)
    BY <1>0, <2>0, NmtEffect
  <2>b. RunningAfter("motor", f) = (NMT_RESET_COMMUNICATION = NMT_START_REMOTE_NODE)
    BY <1>1, <2>c, Zenon
  <2>1. OdAfter("motor", f) = Defaults("motor") /\ RunningAfter("motor", f) = FALSE
    BY <1>k, <2>a, <2>b, Zenon
  <2>2. MotorAfter(k, Defaults("motor"), FALSE)
    BY <1>0, <1>1, DefaultsAre DEF MotorAfter
  <2> QED BY <2>1, <2>2
<1>2. ASSUME k = 2, f = NmtFrame(Motor, NMT_ENTER_PRE_OPERATIONAL)
      PROVE  MotorAfter(k, OdAfter("motor", f), RunningAfter("motor", f))
  <2>0. Motor \in {0, Id("motor")}
    BY <1>0
  <2>a. OdAfter("motor", f) = od["motor"]
    BY <1>0, <1>2, <1>k, <2>0, NmtEffect
  <2>c. RunningAfter("motor", NmtFrame(Motor, NMT_ENTER_PRE_OPERATIONAL))
          = (NMT_ENTER_PRE_OPERATIONAL = NMT_START_REMOTE_NODE)
    BY <1>0, <2>0, NmtEffect
  <2>b. RunningAfter("motor", f) = (NMT_ENTER_PRE_OPERATIONAL = NMT_START_REMOTE_NODE)
    BY <1>2, <2>c, Zenon
  <2>1. OdAfter("motor", f) = od["motor"] /\ RunningAfter("motor", f) = FALSE
    BY <1>k, <2>a, <2>b, Zenon
  <2>2. MotorAfter(k, od["motor"], FALSE)
    BY <1>0, <1>2, <1>w DEF MotorAfter
  <2> QED BY <2>1, <2>2
<1>3. ASSUME k = 18, f = NmtFrame(Motor, NMT_START_REMOTE_NODE)
      PROVE  MotorAfter(k, OdAfter("motor", f), RunningAfter("motor", f))
  <2>0. Motor \in {0, Id("motor")}
    BY <1>0
  <2>a. OdAfter("motor", f) = od["motor"]
    BY <1>0, <1>3, <1>k, <2>0, NmtEffect
  <2>c. RunningAfter("motor", NmtFrame(Motor, NMT_START_REMOTE_NODE))
          = (NMT_START_REMOTE_NODE = NMT_START_REMOTE_NODE)
    BY <1>0, <2>0, NmtEffect
  <2>b. RunningAfter("motor", f) = (NMT_START_REMOTE_NODE = NMT_START_REMOTE_NODE)
    BY <1>3, <2>c, Zenon
  <2>1. OdAfter("motor", f) = od["motor"] /\ RunningAfter("motor", f) = TRUE
    BY <1>k, <2>a, <2>b, Zenon
  <2>2. MotorAfter(k, od["motor"], TRUE)
    BY <1>0, <1>3, <1>w DEF MotorAfter
  <2> QED BY <2>1, <2>2
<1>4. ASSUME NEW comm \in Pdo("motor"), k = WrittenAt(comm),
             f = SdoWrite(Motor, CobId(comm), ConfiguredCobId(Motor, comm), 4)
      PROVE  MotorAfter(k, OdAfter("motor", f), RunningAfter("motor", f))
  <2>1. /\ OdAfter("motor", f) = [od["motor"] EXCEPT ![CobId(comm)] = ConfiguredCobId(Motor, comm)]
        /\ RunningAfter("motor", f) = running["motor"]
    BY <1>0, <1>4, CobIds, CobIdSize, SdoEffect
  <2>2. \A other \in Pdo("motor") : other # comm => WrittenAt(other) # WrittenAt(comm)
    BY ConfiguredIs, Pdos
  <2>3. k \notin {1, 2} /\ k # 18 /\ k # 1
    BY <1>4, <1>w
  <2> SUFFICES ASSUME NEW dict,
                      dict = [od["motor"] EXCEPT ![CobId(comm)] = ConfiguredCobId(Motor, comm)]
               PROVE  MotorAfter(k, dict, running["motor"])
    BY <2>1
  <2>4. \A other \in Pdo("motor") :
          dict[CobId(other)] = IF other = comm THEN ConfiguredCobId(Motor, comm)
                               ELSE od["motor"][CobId(other)]
    BY <1>0, CobIds, Zenon
  <2>5. DOMAIN dict = Object("motor")
    BY <1>0
  <2> QED BY <1>4, <2>2, <2>3, <2>4, <2>5 DEF MotorAfter
<1>5. ASSUME k \in (4..17) \ {5, 7, 9}, NEW object \in Others, NEW value, NEW size,
             f = SdoWrite(Motor, object, value, size)
      PROVE  MotorAfter(k, OdAfter("motor", f), RunningAfter("motor", f))
  <2>1. /\ \/ OdAfter("motor", f) = [od["motor"] EXCEPT ![object] = value]
           \/ OdAfter("motor", f) = od["motor"]
        /\ RunningAfter("motor", f) = running["motor"]
    BY <1>0, <1>5, SdoEffect
  <2> SUFFICES ASSUME NEW dict,
                      dict = [od["motor"] EXCEPT ![object] = value] \/ dict = od["motor"]
               PROVE  MotorAfter(k, dict, running["motor"])
    BY <2>1
  <2>2. \A comm \in Pdo("motor") : CobId(comm) # object /\ CobId(comm) \in Object("motor")
    BY CobIds
  <2>3. \A comm \in Pdo("motor") : dict[CobId(comm)] = od["motor"][CobId(comm)]
    BY <1>0, <2>2
  <2>4. DOMAIN dict = Object("motor")
    BY <1>0
  <2>5. k # 1 /\ k \notin {1, 2} /\ k # 18 /\ k \notin {3, 5, 7, 9}
    BY <1>5
  <2>6. \A comm \in Pdo("motor") : k # WrittenAt(comm)
    BY <1>w, <2>5
  <2> QED BY <2>3, <2>4, <2>5, <2>6, Zenon DEF MotorAfter
<1>6. CASE k \in 1..18
  <2>1. IsMotorFrame(k, f)
    BY <1>6, MotorFrames
  <2> QED BY <2>1, <1>1, <1>2, <1>3, <1>4, <1>5, Zenon DEF IsMotorFrame
<1>7. CASE k > 18
  <2>1. HasEncoder /\ k \in 19..25
    BY <1>0, <1>7
  <2>2. Encoder \notin {0, Motor}
    BY <1>0, <2>1 DEF HasEncoder
  <2>3. OdAfter("motor", f) = od["motor"] /\ RunningAfter("motor", f) = running["motor"]
    <3>1. ASSUME NEW command, f = NmtFrame(Encoder, command)
          PROVE  OdAfter("motor", f) = od["motor"] /\ RunningAfter("motor", f) = running["motor"]
      <4>1. Encoder \notin {0, Id("motor")}
        BY <1>0, <2>2
      <4> QED BY <1>0, <4>1, <3>1, NmtEffect
    <3>2. ASSUME NEW object, NEW value, NEW size, f = SdoWrite(Encoder, object, value, size)
          PROVE  OdAfter("motor", f) = od["motor"] /\ RunningAfter("motor", f) = running["motor"]
      <4>1. Encoder # Id("motor")
        BY <1>0, <2>2
      <4>2. /\ OdAfter("motor", SdoWrite(Encoder, object, value, size)) = od["motor"]
            /\ RunningAfter("motor", SdoWrite(Encoder, object, value, size)) = running["motor"]
        BY <1>0, <4>1, SdoEffect
      <4> QED BY <3>2, <4>2, Zenon
    <3>3. IsEncoderFrame(f)
      BY <2>1, EncoderFrames
    <3> QED BY <3>1, <3>2, <3>3, Zenon DEF IsEncoderFrame
  <2>4. k \notin {1, 2, 3, 5, 7, 9, 18} /\ k # 1 /\ k # 18 /\ k \notin {1, 2}
    BY <1>0, <1>7
  <2>5. MotorAfter(k, od["motor"], running["motor"])
    BY <1>0, <1>w, <2>4 DEF MotorAfter
  <2> QED BY <2>3, <2>5
<1>8. k \in 1..18 \/ k > 18
  BY <1>0
<1> QED BY <1>6, <1>7, <1>8

LEMMA EncoderAfterScript ==
  ASSUME network \in Networks, DictionaryInv, NEW k \in 1..Len(Script)
  PROVE  EncoderAfter(OdAfter("encoder", Script[k]))
<1> SUFFICES ASSUME NEW f, f = Script[k]
             PROVE  EncoderAfter(OdAfter("encoder", f))
  OBVIOUS
<1>0. /\ "encoder" \in Node /\ Id("encoder") = Encoder
      /\ DOMAIN od["encoder"] = Object("encoder")
      /\ od["encoder"][CobId(TPDO1_COMM)] = COB_ENC_TPDO1_BASE + Encoder
      /\ Motor \in Int /\ Motor >= 1 /\ Motor # Encoder /\ Encoder \in Int /\ Encoder >= 0
      /\ k \in Int /\ k >= 1 /\ (HasEncoder => k <= 25) /\ (~HasEncoder => k <= 18)
  BY NodeIds, Ids, ScriptIs DEF Node, DictionaryInv
<1>1. ASSUME NEW id \in Int, id >= 0, NEW command, f = NmtFrame(id, command)
      PROVE  EncoderAfter(OdAfter("encoder", f))
  <2>1. OdAfter("encoder", f) \in {Defaults("encoder"), od["encoder"]}
    BY <1>0, <1>1, NmtEffect
  <2>2. EncoderAfter(Defaults("encoder")) /\ EncoderAfter(od["encoder"])
    BY <1>0, DefaultsAre DEF EncoderAfter
  <2> QED BY <2>1, <2>2
<1>2. ASSUME NEW id \in Int, id >= 0, NEW object, NEW value, NEW size,
             f = SdoWrite(id, object, value, size),
             id = Encoder /\ object = CobId(TPDO1_COMM) => value = COB_ENC_TPDO1_BASE + Encoder
      PROVE  EncoderAfter(OdAfter("encoder", f))
  <2>1. \/ OdAfter("encoder", f) = od["encoder"]
        \/ id = Encoder /\ OdAfter("encoder", f) = [od["encoder"] EXCEPT ![object] = value]
    BY <1>0, <1>2, SdoEffect
  <2> SUFFICES ASSUME NEW dict,
                      \/ dict = od["encoder"]
                      \/ id = Encoder /\ dict = [od["encoder"] EXCEPT ![object] = value]
               PROVE  EncoderAfter(dict)
    BY <2>1
  <2>2. CobId(TPDO1_COMM) \in Object("encoder")
    BY CobIds
  <2> QED BY <1>0, <1>2, <2>2 DEF EncoderAfter
<1>3. CASE k \in 1..18
  <2>1. \A command : f = NmtFrame(Motor, command) => EncoderAfter(OdAfter("encoder", f))
    BY <1>0, <1>1
  <2>2. \A object, value, size :
          f = SdoWrite(Motor, object, value, size) => EncoderAfter(OdAfter("encoder", f))
    BY <1>0, <1>2
  <2>3. IsMotorFrame(k, f)
    BY <1>3, MotorFrames
  <2> QED BY <2>1, <2>2, <2>3, Zenon DEF IsMotorFrame
<1>4. CASE k > 18
  <2>1. HasEncoder /\ k \in 19..25
    BY <1>0, <1>4
  <2>2. \A command : f = NmtFrame(Encoder, command) => EncoderAfter(OdAfter("encoder", f))
    BY <1>0, <1>1
  <2>3. \A object \in Others : \A value, size :
          f = SdoWrite(Encoder, object, value, size) => EncoderAfter(OdAfter("encoder", f))
    BY <1>0, <1>2, CobIds
  <2>4. f = SdoWrite(Encoder, CobId(TPDO1_COMM), COB_ENC_TPDO1_BASE + Encoder, 4)
          => EncoderAfter(OdAfter("encoder", f))
    BY <1>0, <1>2
  <2>5. IsEncoderFrame(f)
    BY <2>1, EncoderFrames
  <2> QED BY <2>2, <2>3, <2>4, <2>5, Zenon DEF IsEncoderFrame
<1>5. k \in 1..18 \/ k > 18
  BY <1>0
<1> QED BY <1>3, <1>4, <1>5

-----------------------------------------------------------------------------
(* Bytes and numbers. *)
LEMMA ByteAndRest ==
  ASSUME NEW n \in Int
  PROVE  n = 256 * (n \div 256) + (n % 256) /\ n % 256 \in 0..255 /\ n \div 256 \in Int
  BY SMT

LEMMA Rests ==
  ASSUME NEW n \in Int
  PROVE  (n \div 256) \div 256 = n \div 65536 /\ (n \div 65536) \div 256 = n \div 16777216
  BY SMT

LEMMA TopByte ==
  ASSUME NEW q \in Int
  PROVE  /\ q \in 0..255 => q % 256 = q
         /\ q \in -128..127 => q % 256 = IF q < 0 THEN q + 256 ELSE q
  BY SMT

LEMMA SignedTop ==
  ASSUME NEW q \in -128..127
  PROVE  Signed(q % 256) = q
<1>1. q \in Int
  OBVIOUS
<1>2. q % 256 = IF q < 0 THEN q + 256 ELSE q
  BY <1>1, TopByte
<1> QED
  BY <1>2, SMT DEF Signed

(* The ranges, without their members. *)
LEMMA Ranges ==
  /\ \A n : n \in Word16 <=> n \in Int /\ 0 <= n /\ n <= 65535
  /\ \A n : n \in Int16 <=> n \in Int /\ -32768 <= n /\ n <= 32767
  /\ \A n : n \in Int32 <=> n \in Int /\ -2147483648 <= n /\ n <= 2147483647
<1>1. /\ INT32_MAX \in Int /\ INT32_MIN \in Int /\ INT16_MAX \in Int /\ INT16_MIN \in Int
      /\ UINT16_MAX \in Int
  BY SMT DEF INT32_MAX, INT32_MIN, INT16_MAX, INT16_MIN, UINT16_MAX
<1>2. /\ \A n : n \in Word16 <=> n \in Int /\ 0 <= n /\ n <= UINT16_MAX
      /\ \A n : n \in Int16 <=> n \in Int /\ INT16_MIN <= n /\ n <= INT16_MAX
      /\ \A n : n \in Int32 <=> n \in Int /\ INT32_MIN <= n /\ n <= INT32_MAX
  BY <1>1, SMT DEF Word16, Int16, Int32
<1> QED
  BY <1>2, SMT DEF INT32_MAX, INT32_MIN, INT16_MAX, INT16_MIN, UINT16_MAX

LEMMA WordOfBytes == ASSUME NEW n \in Word16 PROVE Word(Bytes2(n)[1], Bytes2(n)[2]) = n
<1>0. n \in Int /\ n >= 0 /\ n <= 65535
  BY Ranges
<1> DEFINE q == n \div 256
<1>1. Bytes2(n)[1] = n % 256 /\ Bytes2(n)[2] = q % 256
  BY DEF Bytes2
<1>2. q \in Int /\ n = 256*q + (n % 256) /\ n % 256 \in 0..255
  BY <1>0, ByteAndRest
<1> HIDE DEF q
<1>3. q \in 0..255
  BY <1>0, <1>2, SMT
<1>4. q % 256 = q
  BY <1>2, <1>3, TopByte
<1> QED BY <1>0, <1>1, <1>2, <1>4, SMT DEF Word

LEMMA Int16OfBytes == ASSUME NEW n \in Int16 PROVE Int16Of(Bytes2(n)) = n
<1>0. n \in Int /\ n >= -32768 /\ n <= 32767
  BY Ranges, SMT
<1> DEFINE q == n \div 256
<1>1. Bytes2(n)[1] = n % 256 /\ Bytes2(n)[2] = q % 256
  BY DEF Bytes2
<1>2. q \in Int /\ n = 256*q + (n % 256) /\ n % 256 \in 0..255
  BY <1>0, ByteAndRest
<1> HIDE DEF q
<1>3. q \in -128..127
  BY <1>0, <1>2, SMT
<1>4. Signed(q % 256) = q
  BY <1>3, SignedTop
<1>5. Int16Of(Bytes2(n)) = (n % 256) + 256 * q
  BY <1>1, <1>4 DEF Int16Of
<1> QED BY <1>0, <1>2, <1>5, SMT

LEMMA Int32OfBytes == ASSUME NEW n \in Int32 PROVE Int32Of(Bytes4(n)) = n
<1>0. n \in Int /\ n >= -2147483648 /\ n <= 2147483647
  BY Ranges, SMT
<1> DEFINE q1 == n \div 256
           q2 == n \div 65536
           q3 == n \div 16777216
<1>1. /\ Bytes4(n)[1] = n % 256 /\ Bytes4(n)[2] = q1 % 256
      /\ Bytes4(n)[3] = q2 % 256 /\ Bytes4(n)[4] = q3 % 256
  BY SMT DEF Bytes4
<1>2. q1 \in Int /\ n = 256*q1 + (n % 256) /\ n % 256 \in 0..255
  BY <1>0, ByteAndRest
<1>3. q2 \in Int /\ q1 = 256*q2 + (q1 % 256) /\ q1 % 256 \in 0..255
  BY <1>0, <1>2, ByteAndRest, Rests, SMT
<1>4. q3 \in Int /\ q2 = 256*q3 + (q2 % 256) /\ q2 % 256 \in 0..255
  BY <1>0, <1>3, ByteAndRest, Rests, SMT
<1> HIDE DEF q1, q2, q3
<1>5. q3 \in -128..127
  BY <1>0, <1>2, <1>3, <1>4, SMT
<1>6. Signed(q3 % 256) = q3
  BY <1>5, SignedTop
<1> QED BY <1>0, <1>1, <1>2, <1>3, <1>4, <1>6, SMT DEF Int32Of

(* A mask keeps the bits of the state and drops the flags. *)
LEMMA MaskSplit ==
  ASSUME NEW f \in Int
  PROVE  /\ f = 16 * (f \div 16) + (f % 16) /\ f % 16 \in 0..15
         /\ f = 32 * (f \div 32) + (f % 32) /\ f % 32 \in 0..31
         /\ f = 64 * (f \div 64) + (f % 64) /\ f % 64 \in 0..63
         /\ f \div 16 \in Int /\ f \div 32 \in Int /\ f \div 64 \in Int
  BY SMT

LEMMA FlagsForm ==
  ASSUME NEW f \in Int, MaskState(f) = 0
  PROVE  \E h \in Int, m \in {0, 1} : f = 128 * h + 16 * m
<1> DEFINE a == f \div 16
           b == f \div 32
<1>1. f % 16 = 0 /\ b % 4 = 0
  BY SMT DEF MaskState
<1>2. f = 16 * a /\ a \in Int
  BY <1>1, MaskSplit, SMT
<1>3. b \in Int /\ 32 * b <= f /\ f < 32 * b + 32
  BY SMT
<1> HIDE DEF a, b
<1>4. PICK h \in Int : b = 4 * h
  <2>1. b = 4 * (b \div 4) /\ b \div 4 \in Int
    BY <1>1, <1>3, SMT
  <2> QED BY <2>1
<1>5. a = 8 * h \/ a = 8 * h + 1
  BY <1>2, <1>3, <1>4, SMT
<1> QED BY <1>2, <1>4, <1>5, SMT

LEMMA Masks ==
  ASSUME NEW f \in Int, MaskState(f) = 0, NEW p \in Int, 0 <= p, p <= 127, p % 32 < 16
  PROVE  /\ MaskState(p + f) = MaskState(p)
         /\ MaskSod(p + f) = MaskSod(p)
<1>1. PICK h \in Int, m \in {0, 1} : f = 128 * h + 16 * m
  BY FlagsForm
<1>2. p \in Int /\ 0 <= p /\ p <= 127
  OBVIOUS
<1> DEFINE s == p + f
<1>3. s \in Int /\ s = 128 * h + 16 * m + p
  BY <1>1, <1>2, SMT
<1> HIDE DEF s
<1>4. PICK c \in 0..3, d \in 0..15 : p = 32 * c + d
  <2>1. p = 32 * (p \div 32) + (p % 32) /\ p % 32 \in 0..15 /\ p \div 32 \in 0..3
    BY <1>2, SMT
  <2> QED BY <2>1
<1>5. s % 16 = d /\ p % 16 = d
  BY <1>2, <1>3, <1>4, SMT
<1>6. s \div 32 = 4 * h + c /\ p \div 32 = c
  BY <1>2, <1>3, <1>4, SMT
<1>7. (4 * h + c) % 4 = c /\ c % 4 = c
  BY SMT
<1>8. MaskState(s) = MaskState(p)
  BY <1>5, <1>6, <1>7 DEF MaskState
<1>9. (s \div 64) = 2 * h + (c \div 2) /\ p \div 64 = c \div 2 /\ c \div 2 \in {0, 1}
  BY <1>2, <1>3, <1>4, SMT
<1>10. (2 * h + (c \div 2)) % 2 = (c \div 2) /\ (c \div 2) % 2 = c \div 2
  BY <1>9, SMT
<1>11. MaskSod(s) = MaskSod(p)
  BY <1>5, <1>9, <1>10 DEF MaskSod
<1> QED BY <1>8, <1>11 DEF s

-----------------------------------------------------------------------------
(* The parts of the invariant; DriveTakesWhatIsSent is one more. *)
IsOrder(order) == order = [word |-> order.word, target |-> order.target]

NumbersInv ==
  /\ network \in Networks
  /\ step \in Nat /\ lost \in Nat
  /\ IsOrder(taken) /\ IsOrder(ordered)
  /\ DOMAIN analog_inputs_mv = 0..2

(* What of configure() has been sent, and nothing lost, is in force. *)
InForceInv ==
  lost = 0 =>
    /\ \A comm \in Pdo("motor") :
         step >= WrittenAt(comm) => od["motor"][CobId(comm)] = ConfiguredCobId(Motor, comm)
    /\ step >= 18 => running["motor"]

LEMMA DictionaryKept ==
  ASSUME DictionaryInv, network' = network, \A n \in Node : od'[n] = od[n]
  PROVE  DictionaryInv'
<1>1. Motor' = Motor /\ Encoder' = Encoder
  BY DEF Motor, Encoder
<1>2. "motor" \in Node /\ "encoder" \in Node
  BY DEF Node
<1> QED BY <1>1, <1>2 DEF DictionaryInv

LEMMA InForceKept ==
  ASSUME InForceInv, network' = network, step' = step, lost' = lost,
         od'["motor"] = od["motor"], running'["motor"] = running["motor"]
  PROVE  InForceInv'
<1>1. Motor' = Motor
  BY DEF Motor
<1> QED BY <1>1 DEF InForceInv

(* An answered or lost frame of configure(). *)
LEMMA DictionaryConfigured ==
  ASSUME NumbersInv, DictionaryInv, step < Len(Script), network' = network,
         \A n \in Node : od'[n] = OdAfter(n, Script[step + 1])
  PROVE  DictionaryInv'
<1> DEFINE k == step + 1
<1>1. k \in 1..Len(Script) /\ network \in Networks
  BY ScriptIs DEF NumbersInv
<1> HIDE DEF k
<1>2. Motor' = Motor /\ Encoder' = Encoder
  BY DEF Motor, Encoder
<1>3. MotorAfter(k, od'["motor"], RunningAfter("motor", Script[k]))
  BY <1>1, MotorAfterScript DEF Node, k
<1>4. EncoderAfter(od'["encoder"])
  BY <1>1, EncoderAfterScript DEF Node, k
<1>5. DOMAIN od'["motor"] = Object("motor") /\ DOMAIN od'["encoder"] = Object("encoder")
      /\ od'["encoder"][CobId(TPDO1_COMM)] = COB_ENC_TPDO1_BASE + Encoder
  BY <1>3, <1>4, Zenon DEF MotorAfter, EncoderAfter
<1>6. \A comm \in Pdo("motor") :
        od'["motor"][CobId(comm)] \in {StandardCobId(Motor, comm), ConfiguredCobId(Motor, comm)}
  BY <1>3 DEF MotorAfter, DictionaryInv
<1> QED BY <1>2, <1>5, <1>6 DEF DictionaryInv, Node

LEMMA InForceConfigured ==
  ASSUME NumbersInv, DictionaryInv, InForceInv, step < Len(Script), network' = network,
         step' = step + 1, lost' = lost,
         od'["motor"] = OdAfter("motor", Script[step + 1]),
         running'["motor"] = RunningAfter("motor", Script[step + 1])
  PROVE  InForceInv'
<1> SUFFICES ASSUME lost = 0 PROVE InForceInv'
  BY DEF InForceInv
<1> DEFINE k == step + 1
<1>1. k \in 1..Len(Script) /\ network \in Networks /\ step \in Int
  BY ScriptIs DEF NumbersInv
<1>2. MotorAfter(k, od'["motor"], running'["motor"])
  BY <1>1, MotorAfterScript
<1>3. Motor' = Motor /\ step' = k
  BY DEF Motor
<1>4. ASSUME NEW comm \in Pdo("motor"), k >= WrittenAt(comm)
      PROVE  od'["motor"][CobId(comm)] = ConfiguredCobId(Motor, comm)
  <2>1. WrittenAt(comm) \in {3, 5, 7, 9}
    BY ConfiguredIs, Pdos
  <2>2. k # 1
    BY <1>4, <2>1
  <2>3. od'["motor"][CobId(comm)] = IF k = WrittenAt(comm) THEN ConfiguredCobId(Motor, comm)
                                    ELSE od["motor"][CobId(comm)]
    BY <1>2, <2>2, Zenon DEF MotorAfter
  <2>4. k # WrittenAt(comm) => step >= WrittenAt(comm)
    BY <1>1, <1>4, <2>1
  <2>5. k # WrittenAt(comm) => od["motor"][CobId(comm)] = ConfiguredCobId(Motor, comm)
    BY <2>4 DEF InForceInv
  <2> QED BY <2>3, <2>5, Zenon
<1>5. ASSUME k >= 18 PROVE running'["motor"]
  <2>1. k \notin {1, 2} /\ (k # 18 => step >= 18)
    BY <1>1, <1>5
  <2>2. running'["motor"] = IF k = 18 THEN TRUE ELSE running["motor"]
    BY <1>2, <2>1, Zenon DEF MotorAfter
  <2>3. k # 18 => running["motor"]
    BY <2>1 DEF InForceInv
  <2> QED BY <2>2, <2>3, Zenon
<1> HIDE DEF k
<1> QED BY <1>3, <1>4, <1>5 DEF InForceInv

-----------------------------------------------------------------------------
(* The numbers that the proofs below compare COB-IDs by. *)
LEMMA RpdoCobs ==
  ASSUME DictionaryInv
  PROVE  /\ od["motor"][CobId(RPDO1_COMM)] \in {512 + Motor, 384 + Motor}
         /\ od["motor"][CobId(RPDO21_COMM)] \in {768 + Motor, 640 + Motor}
         /\ od["motor"][CobId(TPDO1_COMM)] \in {384 + Motor, 1184 + Motor}
         /\ od["motor"][CobId(TPDO21_COMM)] \in {640 + Motor, 1024 + Motor}
  BY ConfiguredIs, StandardIs, Pdos
  DEF DictionaryInv, COB_RPDO1_BASE, COB_RPDO21_BASE, COB_TPDO1_BASE, COB_TPDO21_BASE

LEMMA NotTaken ==
  ASSUME NumbersInv, DictionaryInv, NEW f,
         f.cob \notin {512 + Motor, 384 + Motor, 768 + Motor, 640 + Motor}
  PROVE  Takes(f) = taken
<1>1. ~TakenAs(RPDO1_COMM, f) /\ ~TakenAs(RPDO21_COMM, f)
  BY RpdoCobs DEF TakenAs
<1> QED BY <1>1, Zenon DEF Takes, NumbersInv, IsOrder

LEMMA ScriptNotTaken ==
  ASSUME NumbersInv, DictionaryInv, NEW k \in 1..Len(Script)
  PROVE  Takes(Script[k]) = taken
<1>0. /\ Motor \in Int /\ Motor >= 1 /\ Motor <= 127 /\ Encoder \in Int /\ Encoder >= 0
      /\ k \in Int /\ (HasEncoder => k <= 25) /\ (~HasEncoder => k <= 18)
  BY Ids, ScriptIs DEF NumbersInv
<1>1. k \in 1..18 \/ (HasEncoder /\ k \in 19..25)
  BY <1>0
<1>2. IsMotorFrame(k, Script[k]) \/ IsEncoderFrame(Script[k])
  BY <1>1, MotorFrames, EncoderFrames
<1>3. \A id, command : NmtFrame(id, command).cob = 0
  BY DEF NmtFrame, Frame, COB_NMT_REQUEST
<1>4. \A id, object, value, size : SdoWrite(id, object, value, size).cob = 1536 + id
  BY DEF SdoWrite, Frame, COB_SDO_REQUEST_BASE
<1>5. Script[k].cob \in {0, 1536 + Motor, 1536 + Encoder}
  <2>1. \A f : IsMotorFrame(k, f) => f.cob \in {0, 1536 + Motor}
    BY <1>3, <1>4 DEF IsMotorFrame
  <2>2. \A f : IsEncoderFrame(f) => f.cob \in {0, 1536 + Encoder}
    BY <1>3, <1>4 DEF IsEncoderFrame
  <2> QED BY <1>2, <2>1, <2>2
<1>6. Script[k].cob \notin {512 + Motor, 384 + Motor, 768 + Motor, 640 + Motor}
  BY <1>0, <1>5
<1> QED BY <1>6, NotTaken

(* After configure() all of it is in force. *)
LEMMA ConfiguredInForce ==
  ASSUME NumbersInv, InForceInv, Configured, lost = 0
  PROVE  /\ running["motor"]
         /\ od["motor"][CobId(RPDO1_COMM)] = 384 + Motor
         /\ od["motor"][CobId(RPDO21_COMM)] = 640 + Motor
         /\ od["motor"][CobId(TPDO1_COMM)] = 1184 + Motor
         /\ od["motor"][CobId(TPDO21_COMM)] = 1024 + Motor
<1>1. step \in Int /\ step >= 18
  BY ScriptIs DEF NumbersInv, Configured
<1>2. running["motor"]
  BY <1>1 DEF InForceInv
<1>3. \A comm \in Pdo("motor") : step >= WrittenAt(comm)
  BY <1>1, ConfiguredIs, Pdos
<1>4. \A comm \in Pdo("motor") : od["motor"][CobId(comm)] = ConfiguredCobId(Motor, comm)
  BY <1>3, Zenon DEF InForceInv
<1>5. /\ ConfiguredCobId(Motor, RPDO1_COMM) = 384 + Motor
      /\ ConfiguredCobId(Motor, RPDO21_COMM) = 640 + Motor
      /\ ConfiguredCobId(Motor, TPDO1_COMM) = 1184 + Motor
      /\ ConfiguredCobId(Motor, TPDO21_COMM) = 1024 + Motor
  BY ConfiguredIs DEF COB_RPDO1_BASE, COB_RPDO21_BASE, COB_TPDO1_BASE, COB_TPDO21_BASE
<1> QED BY <1>2, <1>4, <1>5, Pdos

(* Everything a control word does that reaches the drive; likewise a target. *)
LEMMA WordTaken ==
  ASSUME NumbersInv, DictionaryInv, InForceInv, Configured, lost = 0, NEW cw \in Word16
  PROVE  Takes(Frame(COB_RPDO1_BASE + Motor, Bytes2(cw))) = [word |-> cw, target |-> taken.target]
<1> DEFINE f == Frame(COB_RPDO1_BASE + Motor, Bytes2(cw))
<1>0. Motor \in Int /\ Motor >= 1 /\ step >= 18
  BY Ids, ScriptIs DEF NumbersInv, Configured
<1>1. f.cob = 384 + Motor /\ f.data = Bytes2(cw)
  BY DEF Frame, COB_RPDO1_BASE
<1> HIDE DEF f
<1>2. running["motor"] /\ od["motor"][CobId(RPDO1_COMM)] = 384 + Motor
  BY ConfiguredInForce
<1>3. TakenAs(RPDO1_COMM, f)
  BY <1>1, <1>2 DEF TakenAs
<1>4. ~TakenAs(RPDO21_COMM, f)
  BY <1>0, <1>1, RpdoCobs DEF TakenAs
<1>5. Word(f.data[1], f.data[2]) = cw
  BY <1>1, WordOfBytes
<1>6. Takes(f) = [word |-> cw, target |-> taken.target]
  BY <1>3, <1>4, <1>5, Zenon DEF Takes
<1> QED BY <1>6 DEF f

LEMMA TargetTaken ==
  ASSUME NumbersInv, DictionaryInv, InForceInv, Configured, lost = 0, NEW counts \in Int32
  PROVE  Takes(Frame(COB_RPDO21_BASE + Motor, TargetBytes(counts)))
           = [word |-> taken.word, target |-> counts]
<1> DEFINE f == Frame(COB_RPDO21_BASE + Motor, TargetBytes(counts))
<1>0. Motor \in Int /\ Motor >= 1 /\ step >= 18
  BY Ids, ScriptIs DEF NumbersInv, Configured
<1>1. f.cob = 640 + Motor /\ f.data = Bytes4(counts)
  BY DEF Frame, COB_RPDO21_BASE, TargetBytes
<1> HIDE DEF f
<1>2. running["motor"] /\ od["motor"][CobId(RPDO21_COMM)] = 640 + Motor
  BY ConfiguredInForce
<1>3. TakenAs(RPDO21_COMM, f)
  BY <1>1, <1>2 DEF TakenAs
<1>4. ~TakenAs(RPDO1_COMM, f)
  BY <1>0, <1>1, RpdoCobs DEF TakenAs
<1>5. Int32Of(f.data) = counts
  BY <1>1, Int32OfBytes
<1>6. Takes(f) = [word |-> taken.word, target |-> counts]
  BY <1>3, <1>4, <1>5, Zenon DEF Takes
<1> QED BY <1>6 DEF f

-----------------------------------------------------------------------------
(* What can be in the socket: what each node sends, and under which COB-IDs. *)
StatusOf(state, cob) ==
  {Means("motor", "status", 0, state, Frame(cob, Bytes2(sw))) : sw \in StatusWords(state)}

StatusMessages(cob) == UNION {StatusOf(state, cob) : state \in DOMAIN StatePattern}

PositionMessages(cob) ==
  {Means("motor", "position", counts, "", Frame(cob, Bytes4(counts))) : counts \in Positions}

EncoderMessages(cob) ==
  {Means("encoder", "encoder", counts, "", Frame(cob, Bytes4(counts))) : counts \in Positions}

ShortMessage(from, cob) == Means(from, "short", 0, "", Frame(cob, <<39>>))

NmtMessages(from, cob) ==
  {Means(from, "nmt", state_byte, "", Frame(cob, <<state_byte>>)) : state_byte \in StateBytes}

SdoMessages(from, id) ==
  {Means(from, "sdo", 0, "",
         SdoAnswer(id, command, <<SDO_IDX_ANALOG_INPUT, 1>>, SdoData(command))) :
     command \in {"download", "abort", "upload"}}

AnalogMessages(motor, pin) ==
  {Means("motor", "analog", raw, "",
         SdoAnswer(motor, "upload", <<SDO_IDX_ANALOG_INPUT, pin + 1>>, Bytes2(raw))) :
     raw \in Readings}

Request(cob, dlc) ==
  Means("other", "request", dlc, "",
        [cob |-> cob, rtr |-> TRUE, data |-> RemoteData(cob, dlc)])

Requests ==
  {Request(cob, 0) : cob \in ListenedTo} \cup {Request(cob, 4) : cob \in ListenedTo}

MotorMessages(motor, pin, tpdo1, tpdo21) ==
  StatusMessages(tpdo1) \cup PositionMessages(tpdo21) \cup {ShortMessage("motor", tpdo1)}
    \cup NmtMessages("motor", COB_NODEGUARD_BASE + motor) \cup SdoMessages("motor", motor)
    \cup AnalogMessages(motor, pin)

EncodersMessages(encoder) ==
  EncoderMessages(COB_ENC_TPDO1_BASE + encoder)
    \cup {ShortMessage("encoder", COB_ENC_TPDO1_BASE + encoder)}
    \cup NmtMessages("encoder", COB_NODEGUARD_BASE + encoder) \cup SdoMessages("encoder", encoder)

Messages(motor, encoder, pin, tpdo1, tpdo21) ==
  MotorMessages(motor, pin, tpdo1, tpdo21)
    \cup (IF encoder # 0 THEN EncodersMessages(encoder) ELSE {})

(* Under the COB-IDs that configure() writes, and under those of the standard. *)
Clean == Messages(Motor, Encoder, AnalogPin, 1184 + Motor, 1024 + Motor) \cup Requests
Any   == Clean \cup Messages(Motor, Encoder, AnalogPin, 384 + Motor, 640 + Motor)

SocketInv ==
  /\ socket \in Seq(Any)
  /\ lost = 0 => socket \in Seq(Clean)

LEMMA InStatus ==
  ASSUME NEW cob, NEW m
  PROVE  m \in StatusMessages(cob) <=>
           \E state \in DOMAIN StatePattern : \E sw \in StatusWords(state) :
             m = Means("motor", "status", 0, state, Frame(cob, Bytes2(sw)))
<1>1. m \in StatusMessages(cob) <=> \E state \in DOMAIN StatePattern : m \in StatusOf(state, cob)
  BY Zenon DEF StatusMessages
<1>2. \A state : m \in StatusOf(state, cob) <=>
        \E sw \in StatusWords(state) :
          m = Means("motor", "status", 0, state, Frame(cob, Bytes2(sw)))
  BY Zenon DEF StatusOf
<1> QED BY <1>1, <1>2, Zenon

LEMMA InPosition ==
  ASSUME NEW cob, NEW m
  PROVE  m \in PositionMessages(cob) <=>
           \E counts \in Positions :
             m = Means("motor", "position", counts, "", Frame(cob, Bytes4(counts)))
  BY Zenon DEF PositionMessages

LEMMA InEncoder ==
  ASSUME NEW cob, NEW m
  PROVE  m \in EncoderMessages(cob) <=>
           \E counts \in Positions :
             m = Means("encoder", "encoder", counts, "", Frame(cob, Bytes4(counts)))
  BY Zenon DEF EncoderMessages

LEMMA InNmt ==
  ASSUME NEW from, NEW cob, NEW m
  PROVE  m \in NmtMessages(from, cob) <=>
           \E state_byte \in StateBytes :
             m = Means(from, "nmt", state_byte, "", Frame(cob, <<state_byte>>))
  BY Zenon DEF NmtMessages

LEMMA InSdo ==
  ASSUME NEW from, NEW id, NEW m
  PROVE  m \in SdoMessages(from, id) <=>
           \E command \in {"download", "abort", "upload"} :
             m = Means(from, "sdo", 0, "",
                       SdoAnswer(id, command, <<SDO_IDX_ANALOG_INPUT, 1>>, SdoData(command)))
  BY Zenon DEF SdoMessages

LEMMA InAnalog ==
  ASSUME NEW motor, NEW pin, NEW m
  PROVE  m \in AnalogMessages(motor, pin) <=>
           \E raw \in Readings :
             m = Means("motor", "analog", raw, "",
                       SdoAnswer(motor, "upload", <<SDO_IDX_ANALOG_INPUT, pin + 1>>, Bytes2(raw)))
  BY Zenon DEF AnalogMessages

LEMMA InRequests ==
  \A m : m \in Requests <=> \E cob \in ListenedTo, dlc \in {0, 4} : m = Request(cob, dlc)
<1>1. \A m : m \in Requests <=>
        \E cob \in ListenedTo : m = Request(cob, 0) \/ m = Request(cob, 4)
  BY Zenon DEF Requests
<1> QED BY <1>1

(* The parts of a message. *)
LEMMA FrameParts ==
  /\ \A cob, data : Frame(cob, data).cob = cob
  /\ \A cob, data : Frame(cob, data).rtr = FALSE
  /\ \A cob, data : Frame(cob, data).data = data
  BY DEF Frame

LEMMA StatusParts ==
  \A cob : \A m \in StatusMessages(cob) :
    /\ m.from = "motor" /\ m.kind = "status"
    /\ m.state \in DOMAIN StatePattern
    /\ \E sw \in StatusWords(m.state) : m.frame = Frame(cob, Bytes2(sw))
<1> SUFFICES ASSUME NEW cob, NEW m \in StatusMessages(cob)
             PROVE  /\ m.from = "motor" /\ m.kind = "status"
                    /\ m.state \in DOMAIN StatePattern
                    /\ \E sw \in StatusWords(m.state) : m.frame = Frame(cob, Bytes2(sw))
  OBVIOUS
<1>1. PICK state \in DOMAIN StatePattern : \E sw \in StatusWords(state) :
        m = Means("motor", "status", 0, state, Frame(cob, Bytes2(sw)))
  BY InStatus, Zenon
<1>2. PICK sw \in StatusWords(state) :
        m = Means("motor", "status", 0, state, Frame(cob, Bytes2(sw)))
  BY <1>1
<1> QED BY <1>2 DEF Means

LEMMA PositionParts ==
  \A cob : \A m \in PositionMessages(cob) :
    /\ m.from = "motor" /\ m.kind = "position" /\ m.value \in Positions
    /\ m.frame = Frame(cob, Bytes4(m.value))
<1> SUFFICES ASSUME NEW cob, NEW m \in PositionMessages(cob)
             PROVE  /\ m.from = "motor" /\ m.kind = "position" /\ m.value \in Positions
                    /\ m.frame = Frame(cob, Bytes4(m.value))
  OBVIOUS
<1>1. PICK counts \in Positions :
        m = Means("motor", "position", counts, "", Frame(cob, Bytes4(counts)))
  BY InPosition, Zenon
<1> QED BY <1>1 DEF Means

LEMMA EncoderParts ==
  \A cob : \A m \in EncoderMessages(cob) :
    /\ m.from = "encoder" /\ m.kind = "encoder" /\ m.value \in Positions
    /\ m.frame = Frame(cob, Bytes4(m.value))
<1> SUFFICES ASSUME NEW cob, NEW m \in EncoderMessages(cob)
             PROVE  /\ m.from = "encoder" /\ m.kind = "encoder" /\ m.value \in Positions
                    /\ m.frame = Frame(cob, Bytes4(m.value))
  OBVIOUS
<1>1. PICK counts \in Positions :
        m = Means("encoder", "encoder", counts, "", Frame(cob, Bytes4(counts)))
  BY InEncoder, Zenon
<1> QED BY <1>1 DEF Means

LEMMA ShortParts ==
  \A from, cob :
    /\ ShortMessage(from, cob).from = from /\ ShortMessage(from, cob).kind = "short"
    /\ ShortMessage(from, cob).frame = Frame(cob, <<39>>)
  BY DEF ShortMessage, Means

LEMMA NmtParts ==
  \A from, cob : \A m \in NmtMessages(from, cob) :
    /\ m.from = from /\ m.kind = "nmt" /\ m.value \in StateBytes
    /\ m.frame = Frame(cob, <<m.value>>)
<1> SUFFICES ASSUME NEW from, NEW cob, NEW m \in NmtMessages(from, cob)
             PROVE  /\ m.from = from /\ m.kind = "nmt" /\ m.value \in StateBytes
                    /\ m.frame = Frame(cob, <<m.value>>)
  OBVIOUS
<1>1. PICK state_byte \in StateBytes :
        m = Means(from, "nmt", state_byte, "", Frame(cob, <<state_byte>>))
  BY Zenon DEF NmtMessages
<1> QED BY <1>1 DEF Means

LEMMA SdoParts ==
  \A from, id : \A m \in SdoMessages(from, id) :
    /\ m.from = from /\ m.kind = "sdo"
    /\ \E command \in {"download", "abort", "upload"} :
         m.frame = SdoAnswer(id, command, <<SDO_IDX_ANALOG_INPUT, 1>>, SdoData(command))
<1> SUFFICES ASSUME NEW from, NEW id, NEW m \in SdoMessages(from, id)
             PROVE  /\ m.from = from /\ m.kind = "sdo"
                    /\ \E command \in {"download", "abort", "upload"} :
                         m.frame = SdoAnswer(id, command, <<SDO_IDX_ANALOG_INPUT, 1>>,
                                             SdoData(command))
  OBVIOUS
<1>1. PICK command \in {"download", "abort", "upload"} :
        m = Means(from, "sdo", 0, "",
                  SdoAnswer(id, command, <<SDO_IDX_ANALOG_INPUT, 1>>, SdoData(command)))
  BY Zenon DEF SdoMessages
<1> QED BY <1>1 DEF Means

LEMMA AnalogParts ==
  \A motor, pin : \A m \in AnalogMessages(motor, pin) :
    /\ m.from = "motor" /\ m.kind = "analog" /\ m.value \in Readings
    /\ m.frame = SdoAnswer(motor, "upload", <<SDO_IDX_ANALOG_INPUT, pin + 1>>, Bytes2(m.value))
<1> SUFFICES ASSUME NEW motor, NEW pin, NEW m \in AnalogMessages(motor, pin)
             PROVE  /\ m.from = "motor" /\ m.kind = "analog" /\ m.value \in Readings
                    /\ m.frame = SdoAnswer(motor, "upload", <<SDO_IDX_ANALOG_INPUT, pin + 1>>,
                                           Bytes2(m.value))
  OBVIOUS
<1>1. PICK raw \in Readings :
        m = Means("motor", "analog", raw, "",
                  SdoAnswer(motor, "upload", <<SDO_IDX_ANALOG_INPUT, pin + 1>>, Bytes2(raw)))
  BY Zenon DEF AnalogMessages
<1> QED BY <1>1 DEF Means

LEMMA RequestParts ==
  \A cob, dlc :
    /\ Request(cob, dlc).from = "other" /\ Request(cob, dlc).kind = "request"
    /\ Request(cob, dlc).value = dlc
    /\ Request(cob, dlc).frame.cob = cob /\ Request(cob, dlc).frame.rtr = TRUE
    /\ Request(cob, dlc).frame.data = RemoteData(cob, dlc)
  BY DEF Request, Means

LEMMA SameMessages ==
  ASSUME network' = network
  PROVE  Clean' = Clean /\ Any' = Any
<1>1. Motor' = Motor /\ Encoder' = Encoder /\ AnalogPin' = AnalogPin
  BY DEF Motor, Encoder, AnalogPin
<1>2. ListenedTo' = ListenedTo
  BY <1>1, Zenon DEF ListenedTo, HasEncoder
<1>4. Requests' = Requests
  <2>1. \A cob : Request(cob, 0)' = Request(cob, 0) /\ Request(cob, 4)' = Request(cob, 4)
    BY <1>1 DEF Request, Means, RemoteData
  <2> QED BY <1>2, <2>1, Zenon DEF Requests
<1> QED BY <1>1, <1>4 DEF Clean, Any

LEMMA SocketKept ==
  ASSUME SocketInv, network' = network, socket' = socket, lost' = 0 => lost = 0
  PROVE  SocketInv'
  BY SameMessages DEF SocketInv

LEMMA SocketAppended ==
  ASSUME SocketInv, network' = network, lost' = lost, NEW item, item \in Any,
         lost = 0 => item \in Clean, socket' = Append(socket, item)
  PROVE  SocketInv' /\ Len(socket') = Len(socket) + 1
<1>1. Append(socket, item) \in Seq(Any) /\ Len(Append(socket, item)) = Len(socket) + 1
  BY AppendProperties DEF SocketInv
<1>2. lost = 0 => Append(socket, item) \in Seq(Clean)
  BY AppendProperties DEF SocketInv
<1> QED BY <1>1, <1>2, SameMessages DEF SocketInv

LEMMA SocketDrained ==
  ASSUME SocketInv, network' = network, lost' = lost, socket # <<>>, socket' = Tail(socket)
  PROVE  SocketInv' /\ Head(socket) \in Any /\ (lost = 0 => Head(socket) \in Clean)
<1>1. Tail(socket) \in Seq(Any) /\ Head(socket) \in Any
  BY HeadTailProperties DEF SocketInv
<1>2. lost = 0 => Tail(socket) \in Seq(Clean) /\ Head(socket) \in Clean
  BY HeadTailProperties DEF SocketInv
<1> QED BY <1>1, <1>2, SameMessages DEF SocketInv

-----------------------------------------------------------------------------
(* The inductive invariant. *)
NetInv ==
  NumbersInv /\ DictionaryInv /\ InForceInv /\ SocketInv /\ DriveTakesWhatIsSent

(* A frame that only the nodes and the socket see. *)
LEMMA ReportsInv ==
  ASSUME NetInv, NEW item, Reports(item), item \in Any, lost = 0 => item \in Clean,
         item.from = "motor"
           \/ item.frame.cob \notin {512 + Motor, 384 + Motor, 768 + Motor, 640 + Motor}
  PROVE  NetInv' /\ Len(socket') = Len(socket) + 1
<1>1. taken' = taken
  BY NotTaken DEF NetInv, Reports
<1>2. /\ network' = network /\ step' = step /\ running' = running /\ od' = od
      /\ ordered' = ordered /\ lost' = lost /\ analog_inputs_mv' = analog_inputs_mv
  BY DEF Reports, deviceVars, motorVars
<1>3. SocketInv' /\ Len(socket') = Len(socket) + 1
  BY <1>2, SocketAppended DEF Reports, NetInv
<1>4. DictionaryInv'
  BY <1>2, DictionaryKept DEF NetInv
<1>5. InForceInv'
  BY <1>2, InForceKept DEF NetInv
<1>6. NumbersInv' /\ DriveTakesWhatIsSent'
  BY <1>1, <1>2 DEF NetInv, NumbersInv, IsOrder, DriveTakesWhatIsSent
<1> QED BY <1>3, <1>4, <1>5, <1>6 DEF NetInv

LEMMA InitInv == Init => NetInv
<1> SUFFICES ASSUME Init PROVE NetInv
  OBVIOUS
<1>1. NumbersInv /\ DriveTakesWhatIsSent
  BY DEF Init, NumbersInv, IsOrder, DriveTakesWhatIsSent
<1>2. od["motor"] = Defaults("motor") /\ od["encoder"] = Defaults("encoder")
  BY DEF Init, Node
<1>3. DictionaryInv
  BY <1>2, DefaultsAre DEF DictionaryInv, Node
<1>4. InForceInv
  <2>1. step = 0 /\ \A comm \in Pdo("motor") : WrittenAt(comm) \in {3, 5, 7, 9}
    BY ConfiguredIs, Pdos DEF Init
  <2> QED BY <2>1 DEF InForceInv
<1>5. SocketInv
  BY DEF Init, SocketInv
<1> QED BY <1>1, <1>3, <1>4, <1>5 DEF NetInv

LEMMA ConfigureInv == NetInv /\ Configure => NetInv'
<1> SUFFICES ASSUME NetInv, Configure PROVE NetInv'
  OBVIOUS
<1> USE DEF NetInv
<1>1. /\ step < Len(Script) /\ step' = step + 1 /\ Transmit(Script[step + 1])
      /\ network' = network /\ ordered' = ordered /\ socket' = socket
      /\ analog_inputs_mv' = analog_inputs_mv
  BY DEF Configure
<1>2. step + 1 \in 1..Len(Script)
  BY <1>1, ScriptIs DEF NumbersInv
<1>3. CASE /\ running' = [n \in Node |-> RunningAfter(n, Script[step + 1])]
           /\ od' = [n \in Node |-> OdAfter(n, Script[step + 1])]
           /\ taken' = Takes(Script[step + 1]) /\ lost' = lost
  <2>1. taken' = taken
    BY <1>2, <1>3, ScriptNotTaken
  <2>2. DictionaryInv'
    BY <1>1, <1>3, DictionaryConfigured
  <2>3. /\ od'["motor"] = OdAfter("motor", Script[step + 1])
        /\ running'["motor"] = RunningAfter("motor", Script[step + 1])
    BY <1>3 DEF Node
  <2>4. InForceInv'
    BY <1>1, <1>3, <2>3, InForceConfigured
  <2>5. SocketInv'
    BY <1>1, <1>3, SocketKept
  <2>6. NumbersInv' /\ DriveTakesWhatIsSent'
    BY <1>1, <1>3, <2>1 DEF NumbersInv, IsOrder, DriveTakesWhatIsSent
  <2> QED BY <2>2, <2>4, <2>5, <2>6
<1>4. CASE lost' = lost + 1 /\ UNCHANGED <<deviceVars, taken>>
  <2>1. running' = running /\ od' = od /\ taken' = taken /\ lost' # 0 /\ lost' \in Nat
    BY <1>4 DEF deviceVars, NumbersInv
  <2>2. DictionaryInv'
    BY <1>1, <2>1, DictionaryKept
  <2>3. SocketInv'
    BY <1>1, <2>1, SocketKept
  <2>4. InForceInv' /\ NumbersInv' /\ DriveTakesWhatIsSent'
    BY <1>1, <2>1 DEF InForceInv, NumbersInv, IsOrder, DriveTakesWhatIsSent
  <2> QED BY <2>2, <2>3, <2>4
<1> QED BY <1>1, <1>3, <1>4 DEF Transmit

(* Of a PDO to the drive only taken may change. *)
LEMMA OrderInv ==
  ASSUME NetInv, Configured, NEW cob \in {384 + Motor, 640 + Motor}, NEW data,
         Transmit(Frame(cob, data)), IsOrder(ordered'),
         lost = 0 => Takes(Frame(cob, data)) = ordered',
         UNCHANGED <<network, step, socket, motorVars, encoderVars>>
  PROVE  NetInv'
<1> USE DEF NetInv
<1>0. cob \in Int /\ 0 < cob /\ cob < 1536 /\ network \in Networks
  BY Ids DEF NumbersInv
<1>1. /\ network' = network /\ step' = step /\ socket' = socket
      /\ analog_inputs_mv' = analog_inputs_mv
  BY DEF motorVars
<1>2. CASE /\ running' = [n \in Node |-> RunningAfter(n, Frame(cob, data))]
           /\ od' = [n \in Node |-> OdAfter(n, Frame(cob, data))]
           /\ taken' = Takes(Frame(cob, data)) /\ lost' = lost
  <2>1. \A n \in Node : od'[n] = od[n] /\ running'[n] = running[n]
    BY <1>0, <1>2, PdoEffect
  <2>2. DictionaryInv' /\ InForceInv'
    BY <1>1, <1>2, <2>1, DictionaryKept, InForceKept DEF Node
  <2>3. SocketInv'
    BY <1>1, <1>2, SocketKept
  <2>4. IsOrder(taken')
    BY <1>2 DEF IsOrder, Takes
  <2>5. NumbersInv' /\ DriveTakesWhatIsSent'
    BY <1>1, <1>2, <2>4 DEF NumbersInv, IsOrder, DriveTakesWhatIsSent
  <2> QED BY <2>2, <2>3, <2>5
<1>3. CASE lost' = lost + 1 /\ UNCHANGED <<deviceVars, taken>>
  <2>1. running' = running /\ od' = od /\ taken' = taken /\ lost' # 0 /\ lost' \in Nat
    BY <1>3 DEF deviceVars, NumbersInv
  <2>2. DictionaryInv'
    BY <1>1, <2>1, DictionaryKept
  <2>3. SocketInv'
    BY <1>1, <2>1, SocketKept
  <2>4. InForceInv' /\ NumbersInv' /\ DriveTakesWhatIsSent'
    BY <1>1, <2>1 DEF InForceInv, NumbersInv, IsOrder, DriveTakesWhatIsSent
  <2> QED BY <2>2, <2>3, <2>4
<1> QED BY <1>2, <1>3 DEF Transmit

LEMMA SendControlWordInv == NetInv /\ SendControlWord => NetInv'
<1> SUFFICES ASSUME NetInv, SendControlWord PROVE NetInv'
  OBVIOUS
<1>1. PICK cw \in OrderedWords :
        /\ ordered' = [ordered EXCEPT !.word = cw]
        /\ Transmit(Frame(COB_RPDO1_BASE + Motor, Bytes2(cw)))
  BY DEF SendControlWord
<1>2. cw \in Word16 /\ COB_RPDO1_BASE + Motor = 384 + Motor
  BY NetworkAssumption DEF COB_RPDO1_BASE
<1>3. ordered' = [word |-> cw, target |-> ordered.target]
  BY <1>1 DEF NetInv, NumbersInv, IsOrder
<1>4. lost = 0 => Takes(Frame(384 + Motor, Bytes2(cw))) = ordered'
  BY <1>2, <1>3, WordTaken DEF NetInv, DriveTakesWhatIsSent, SendControlWord
<1>5. IsOrder(ordered')
  BY <1>3 DEF IsOrder
<1> QED BY <1>1, <1>2, <1>4, <1>5, OrderInv DEF SendControlWord

LEMMA SendTargetInv == NetInv /\ SendTarget => NetInv'
<1> SUFFICES ASSUME NetInv, SendTarget PROVE NetInv'
  OBVIOUS
<1>1. PICK counts \in Positions :
        /\ ordered' = [ordered EXCEPT !.target = counts]
        /\ Transmit(Frame(COB_RPDO21_BASE + Motor, TargetBytes(counts)))
  BY DEF SendTarget
<1>2. counts \in Int32 /\ COB_RPDO21_BASE + Motor = 640 + Motor
  BY NetworkAssumption DEF COB_RPDO21_BASE
<1>3. ordered' = [word |-> ordered.word, target |-> counts]
  BY <1>1 DEF NetInv, NumbersInv, IsOrder
<1>4. lost = 0 => Takes(Frame(640 + Motor, TargetBytes(counts))) = ordered'
  BY <1>2, <1>3, TargetTaken DEF NetInv, DriveTakesWhatIsSent, SendTarget
<1>5. IsOrder(ordered')
  BY <1>3 DEF IsOrder
<1> QED BY <1>1, <1>2, <1>4, <1>5, OrderInv DEF SendTarget

-----------------------------------------------------------------------------
(* What the nodes send is in Any, and in Clean while nothing was lost. *)
Sent(item) == item \in Any /\ (lost = 0 => item \in Clean)

LEMMA MotorMessagesAre ==
  ASSUME NEW tpdo1, NEW tpdo21
  PROVE  MotorMessages(Motor, AnalogPin, tpdo1, tpdo21)
           \subseteq Messages(Motor, Encoder, AnalogPin, tpdo1, tpdo21)
  BY DEF Messages

LEMMA SendsTpdo1 ==
  ASSUME NEW cob \in {384 + Motor, 1184 + Motor}, lost = 0 => cob = 1184 + Motor,
         NEW item \in StatusMessages(cob) \cup {ShortMessage("motor", cob)}
  PROVE  Sent(item)
<1>1. \A tpdo21 : item \in MotorMessages(Motor, AnalogPin, cob, tpdo21)
  BY Zenon DEF MotorMessages
<1>2. \A tpdo21 : item \in Messages(Motor, Encoder, AnalogPin, cob, tpdo21)
  BY <1>1, MotorMessagesAre, Zenon
<1> QED BY <1>2 DEF Sent, Any, Clean

LEMMA SendsTpdo21 ==
  ASSUME NEW cob \in {640 + Motor, 1024 + Motor}, lost = 0 => cob = 1024 + Motor,
         NEW item \in PositionMessages(cob)
  PROVE  Sent(item)
<1>1. \A tpdo1 : item \in MotorMessages(Motor, AnalogPin, tpdo1, cob)
  BY Zenon DEF MotorMessages
<1>2. \A tpdo1 : item \in Messages(Motor, Encoder, AnalogPin, tpdo1, cob)
  BY <1>1, MotorMessagesAre, Zenon
<1> QED BY <1>2 DEF Sent, Any, Clean

LEMMA SendsOther ==
  ASSUME NEW item \in NmtMessages("motor", COB_NODEGUARD_BASE + Motor)
                        \cup SdoMessages("motor", Motor) \cup AnalogMessages(Motor, AnalogPin)
  PROVE  Sent(item)
<1>1. \A tpdo1, tpdo21 : item \in MotorMessages(Motor, AnalogPin, tpdo1, tpdo21)
  BY Zenon DEF MotorMessages
<1>2. \A tpdo1, tpdo21 : item \in Messages(Motor, Encoder, AnalogPin, tpdo1, tpdo21)
  BY <1>1, MotorMessagesAre, Zenon
<1> QED BY <1>2 DEF Sent, Any, Clean

LEMMA EncoderSends ==
  ASSUME HasEncoder, NEW item \in EncodersMessages(Encoder)
  PROVE  Sent(item)
<1>1. \A t1, t21 : item \in Messages(Motor, Encoder, AnalogPin, t1, t21)
  BY Zenon DEF Messages, HasEncoder
<1> QED BY <1>1 DEF Sent, Any, Clean

LEMMA EncoderNotTaken ==
  ASSUME NumbersInv, NEW item \in EncodersMessages(Encoder)
  PROVE  item.frame.cob \notin {512 + Motor, 384 + Motor, 768 + Motor, 640 + Motor}
<1>1. ASSUME item \in EncoderMessages(COB_ENC_TPDO1_BASE + Encoder)
      PROVE  item.frame.cob = COB_ENC_TPDO1_BASE + Encoder
  BY <1>1, EncoderParts, FrameParts
<1>2. ASSUME item = ShortMessage("encoder", COB_ENC_TPDO1_BASE + Encoder)
      PROVE  item.frame.cob = COB_ENC_TPDO1_BASE + Encoder
  BY <1>2, ShortParts, FrameParts
<1>3. ASSUME item \in NmtMessages("encoder", COB_NODEGUARD_BASE + Encoder)
      PROVE  item.frame.cob = COB_NODEGUARD_BASE + Encoder
  <2>1. item.frame = Frame(COB_NODEGUARD_BASE + Encoder, <<item.value>>)
    BY <1>3, NmtParts, Zenon
  <2> QED BY <2>1, FrameParts
<1>4. ASSUME item \in SdoMessages("encoder", Encoder)
      PROVE  item.frame.cob = COB_SDO_RESPONSE_BASE + Encoder
  <2>1. PICK command \in {"download", "abort", "upload"} :
          item.frame = SdoAnswer(Encoder, command, <<SDO_IDX_ANALOG_INPUT, 1>>, SdoData(command))
    BY <1>4, SdoParts
  <2> QED BY <2>1, FrameParts, Zenon DEF SdoAnswer
<1>5. item.frame.cob \in {COB_ENC_TPDO1_BASE + Encoder, COB_NODEGUARD_BASE + Encoder,
                          COB_SDO_RESPONSE_BASE + Encoder}
  BY <1>1, <1>2, <1>3, <1>4, Zenon DEF EncodersMessages
<1>6. item.frame.cob \in {384 + Encoder, 1792 + Encoder, 1408 + Encoder}
  BY <1>5, SMT DEF COB_ENC_TPDO1_BASE, COB_NODEGUARD_BASE, COB_SDO_RESPONSE_BASE
<1> QED BY <1>6, Ids DEF NumbersInv

LEMMA MotorReports ==
  ASSUME NetInv, NEW item, Reports(item), Sent(item), item.from = "motor"
  PROVE  NetInv' /\ Len(socket') = Len(socket) + 1
  BY ReportsInv DEF Sent

LEMMA EncoderReportsOwn ==
  ASSUME NetInv, HasEncoder, NEW item, Reports(item), item \in EncodersMessages(Encoder)
  PROVE  NetInv' /\ Len(socket') = Len(socket) + 1
<1>1. Sent(item)
  BY EncoderSends
<1>2. item.frame.cob \notin {512 + Motor, 384 + Motor, 768 + Motor, 640 + Motor}
  BY EncoderNotTaken DEF NetInv
<1> QED BY <1>1, <1>2, ReportsInv DEF Sent

(* The COB-IDs under which the nodes report. *)
LEMMA ReportCobs ==
  ASSUME NetInv, Configured
  PROVE  /\ od["motor"][CobId(TPDO1_COMM)] \in {384 + Motor, 1184 + Motor}
         /\ lost = 0 => od["motor"][CobId(TPDO1_COMM)] = 1184 + Motor
         /\ od["motor"][CobId(TPDO21_COMM)] \in {640 + Motor, 1024 + Motor}
         /\ lost = 0 => od["motor"][CobId(TPDO21_COMM)] = 1024 + Motor
  BY RpdoCobs, ConfiguredInForce DEF NetInv

LEMMA EncoderCob ==
  ASSUME NetInv
  PROVE  od["encoder"][CobId(TPDO1_COMM)] = COB_ENC_TPDO1_BASE + Encoder
  BY DEF NetInv, DictionaryInv

LEMMA DriveReportsStatusInv ==
  NetInv /\ DriveReportsStatus => NetInv' /\ Len(socket') = Len(socket) + 1
<1> SUFFICES ASSUME NetInv, DriveReportsStatus PROVE NetInv' /\ Len(socket') = Len(socket) + 1
  OBVIOUS
<1> DEFINE cob == od["motor"][CobId(TPDO1_COMM)]
<1>a. PICK state \in DOMAIN StatePattern : \E sw \in StatusWords(state) :
        Reports(Means("motor", "status", 0, state, TPdo("motor", TPDO1_COMM, Bytes2(sw))))
  BY DEF DriveReportsStatus
<1>1. PICK sw \in StatusWords(state) :
        Reports(Means("motor", "status", 0, state, TPdo("motor", TPDO1_COMM, Bytes2(sw))))
  BY <1>a
<1> DEFINE item == Means("motor", "status", 0, state, Frame(cob, Bytes2(sw)))
<1>2. Reports(item)
  BY <1>1 DEF TPdo
<1>3. item \in StatusMessages(cob) /\ item.from = "motor"
  <2>1. item \in StatusMessages(cob)
    BY InStatus, Zenon
  <2>2. item.from = "motor"
    BY DEF Means
  <2> QED BY <2>1, <2>2
<1> HIDE DEF item, cob
<1>4. cob \in {384 + Motor, 1184 + Motor} /\ (lost = 0 => cob = 1184 + Motor)
  BY ReportCobs DEF cob, DriveReportsStatus
<1>5. Sent(item)
  BY <1>3, <1>4, SendsTpdo1
<1> QED BY <1>2, <1>3, <1>5, MotorReports

LEMMA DriveReportsPositionInv ==
  NetInv /\ DriveReportsPosition => NetInv' /\ Len(socket') = Len(socket) + 1
<1> SUFFICES ASSUME NetInv, DriveReportsPosition PROVE NetInv' /\ Len(socket') = Len(socket) + 1
  OBVIOUS
<1> DEFINE cob == od["motor"][CobId(TPDO21_COMM)]
<1>1. PICK counts \in Positions :
        Reports(Means("motor", "position", counts, "", TPdo("motor", TPDO21_COMM, Bytes4(counts))))
  BY DEF DriveReportsPosition
<1> DEFINE item == Means("motor", "position", counts, "", Frame(cob, Bytes4(counts)))
<1>2. Reports(item)
  BY <1>1 DEF TPdo
<1>3. item \in PositionMessages(cob) /\ item.from = "motor"
  <2>1. item \in PositionMessages(cob)
    BY InPosition, Zenon
  <2>2. item.from = "motor"
    BY DEF Means
  <2> QED BY <2>1, <2>2
<1> HIDE DEF item, cob
<1>4. cob \in {640 + Motor, 1024 + Motor} /\ (lost = 0 => cob = 1024 + Motor)
  BY ReportCobs DEF cob, DriveReportsPosition
<1>5. Sent(item)
  BY <1>3, <1>4, SendsTpdo21
<1> QED BY <1>2, <1>3, <1>5, MotorReports

LEMMA EncoderReportsInv == NetInv /\ EncoderReports => NetInv' /\ Len(socket') = Len(socket) + 1
<1> SUFFICES ASSUME NetInv, EncoderReports PROVE NetInv' /\ Len(socket') = Len(socket) + 1
  OBVIOUS
<1>1. PICK counts \in Positions :
        Reports(Means("encoder", "encoder", counts, "",
                      TPdo("encoder", TPDO1_COMM, Bytes4(counts))))
  BY DEF EncoderReports
<1> DEFINE item == Means("encoder", "encoder", counts, "",
                         Frame(COB_ENC_TPDO1_BASE + Encoder, Bytes4(counts)))
<1>2. Reports(item)
  BY <1>1, EncoderCob DEF TPdo
<1>3. item \in EncoderMessages(COB_ENC_TPDO1_BASE + Encoder)
  BY InEncoder, Zenon
<1>4. item \in EncodersMessages(Encoder)
  BY <1>3, Zenon DEF EncodersMessages
<1> HIDE DEF item
<1> QED BY <1>2, <1>4, EncoderReportsOwn DEF EncoderReports

LEMMA ReportsShortInv == NetInv /\ ReportsShort => NetInv' /\ Len(socket') = Len(socket) + 1
<1> SUFFICES ASSUME NetInv, ReportsShort PROVE NetInv' /\ Len(socket') = Len(socket) + 1
  OBVIOUS
<1>1. PICK n \in Node : /\ n = "encoder" => HasEncoder
                        /\ Reports(Means(n, "short", 0, "", TPdo(n, TPDO1_COMM, <<39>>)))
  BY DEF ReportsShort
<1>2. CASE n = "motor"
  <2> DEFINE cob == od["motor"][CobId(TPDO1_COMM)]
             item == Means("motor", "short", 0, "", Frame(cob, <<39>>))
  <2>2. Reports(item)
    BY <1>1, <1>2 DEF TPdo
  <2>3. item = ShortMessage("motor", cob) /\ item.from = "motor"
    BY DEF ShortMessage, Means
  <2> HIDE DEF item, cob
  <2>4. cob \in {384 + Motor, 1184 + Motor} /\ (lost = 0 => cob = 1184 + Motor)
    BY ReportCobs DEF cob, ReportsShort
  <2>5. Sent(item)
    BY <2>3, <2>4, SendsTpdo1
  <2> QED BY <2>2, <2>3, <2>5, MotorReports
<1>3. CASE n = "encoder"
  <2> DEFINE item == ShortMessage("encoder", COB_ENC_TPDO1_BASE + Encoder)
  <2>1. Reports(item)
    BY <1>1, <1>3, EncoderCob DEF TPdo, ShortMessage
  <2>2. item \in EncodersMessages(Encoder)
    BY DEF EncodersMessages
  <2> HIDE DEF item
  <2> QED BY <1>1, <1>3, <2>1, <2>2, EncoderReportsOwn
<1> QED BY <1>2, <1>3 DEF Node

LEMMA NodeAnswersGuardInv ==
  NetInv /\ NodeAnswersGuard => NetInv' /\ Len(socket') = Len(socket) + 1
<1> SUFFICES ASSUME NetInv, NodeAnswersGuard PROVE NetInv' /\ Len(socket') = Len(socket) + 1
  OBVIOUS
<1>1. PICK n \in Node, state_byte \in StateBytes :
        /\ n = "encoder" => HasEncoder
        /\ Reports(Means(n, "nmt", state_byte, "",
                         Frame(COB_NODEGUARD_BASE + Id(n), <<state_byte>>)))
  BY DEF NodeAnswersGuard
<1> DEFINE item == Means(n, "nmt", state_byte, "",
                         Frame(COB_NODEGUARD_BASE + Id(n), <<state_byte>>))
<1>2. Reports(item)
  BY <1>1
<1>3. item \in NmtMessages(n, COB_NODEGUARD_BASE + Id(n)) /\ item.from = n
  <2>1. item \in NmtMessages(n, COB_NODEGUARD_BASE + Id(n))
    BY InNmt, Zenon
  <2>2. item.from = n
    BY DEF Means
  <2> QED BY <2>1, <2>2
<1> HIDE DEF item
<1>4. CASE n = "motor"
  <2>1. Sent(item)
    BY <1>3, <1>4, SendsOther DEF Id
  <2> QED BY <1>2, <1>3, <1>4, <2>1, MotorReports
<1>5. CASE n = "encoder"
  <2>1. item \in EncodersMessages(Encoder)
    BY <1>3, <1>5 DEF EncodersMessages, Id
  <2> QED BY <1>1, <1>2, <1>5, <2>1, EncoderReportsOwn
<1> QED BY <1>4, <1>5 DEF Node

LEMMA NodeAnswersSdoInv ==
  NetInv /\ NodeAnswersSdo => NetInv' /\ Len(socket') = Len(socket) + 1
<1> SUFFICES ASSUME NetInv, NodeAnswersSdo PROVE NetInv' /\ Len(socket') = Len(socket) + 1
  OBVIOUS
<1>1. PICK n \in Node, command \in {"download", "abort", "upload"} :
        /\ n = "encoder" => HasEncoder
        /\ Reports(Means(n, "sdo", 0, "",
                     SdoAnswer(Id(n), command, <<SDO_IDX_ANALOG_INPUT, 1>>, SdoData(command))))
  BY DEF NodeAnswersSdo
<1> DEFINE item == Means(n, "sdo", 0, "",
                         SdoAnswer(Id(n), command, <<SDO_IDX_ANALOG_INPUT, 1>>, SdoData(command)))
<1>2. Reports(item)
  BY <1>1
<1>3. item \in SdoMessages(n, Id(n)) /\ item.from = n
  <2>1. item \in SdoMessages(n, Id(n))
    BY InSdo, Zenon
  <2>2. item.from = n
    BY DEF Means
  <2> QED BY <2>1, <2>2
<1> HIDE DEF item
<1>4. CASE n = "motor"
  <2>1. Sent(item)
    BY <1>3, <1>4, SendsOther DEF Id
  <2> QED BY <1>2, <1>3, <1>4, <2>1, MotorReports
<1>5. CASE n = "encoder"
  <2>1. item \in EncodersMessages(Encoder)
    BY <1>3, <1>5 DEF EncodersMessages, Id
  <2> QED BY <1>1, <1>2, <1>5, <2>1, EncoderReportsOwn
<1> QED BY <1>4, <1>5 DEF Node

LEMMA DriveAnswersPollInv ==
  NetInv /\ DriveAnswersPoll => NetInv' /\ Len(socket') = Len(socket) + 1
<1> SUFFICES ASSUME NetInv, DriveAnswersPoll PROVE NetInv' /\ Len(socket') = Len(socket) + 1
  OBVIOUS
<1>1. SdoRead(Motor, <<SDO_IDX_ANALOG_INPUT, AnalogPin + 1>>).data.object
        = <<SDO_IDX_ANALOG_INPUT, AnalogPin + 1>>
  BY DEF SdoRead, Frame
<1>2. PICK raw \in Readings :
        Reports(Means("motor", "analog", raw, "",
          SdoAnswer(Motor, "upload",
            SdoRead(Motor, <<SDO_IDX_ANALOG_INPUT, AnalogPin + 1>>).data.object, Bytes2(raw))))
  BY DEF DriveAnswersPoll
<1> DEFINE item == Means("motor", "analog", raw, "",
                     SdoAnswer(Motor, "upload", <<SDO_IDX_ANALOG_INPUT, AnalogPin + 1>>,
                               Bytes2(raw)))
<1>3. Reports(item)
  BY <1>1, <1>2, Zenon
<1>4. item \in AnalogMessages(Motor, AnalogPin) /\ item.from = "motor"
  <2>1. item \in AnalogMessages(Motor, AnalogPin)
    BY InAnalog, Zenon
  <2>2. item.from = "motor"
    BY DEF Means
  <2> QED BY <2>1, <2>2
<1> HIDE DEF item
<1>5. Sent(item)
  BY <1>4, SendsOther
<1> QED BY <1>3, <1>4, <1>5, MotorReports

LEMMA RemoteFrameInv == NetInv /\ RemoteFrame => NetInv' /\ Len(socket') = Len(socket) + 1
<1> SUFFICES ASSUME NetInv, RemoteFrame PROVE NetInv' /\ Len(socket') = Len(socket) + 1
  OBVIOUS
<1>1. PICK cob \in ListenedTo, dlc \in {0, 4} : socket' = Append(socket, Request(cob, dlc))
  BY Zenon DEF RemoteFrame, Request
<1> DEFINE item == Request(cob, dlc)
<1>2. item \in Requests
  BY InRequests
<1> HIDE DEF item
<1>3. Sent(item)
  BY <1>2 DEF Sent, Any, Clean
<1>4. /\ network' = network /\ step' = step /\ running' = running /\ od' = od
      /\ ordered' = ordered /\ taken' = taken /\ lost' = lost
      /\ analog_inputs_mv' = analog_inputs_mv
  BY DEF RemoteFrame, deviceVars, orderVars, motorVars
<1>5. SocketInv' /\ Len(socket') = Len(socket) + 1
  BY <1>1, <1>3, <1>4, SocketAppended DEF NetInv, Sent, item
<1>6. DictionaryInv'
  BY <1>4, DictionaryKept DEF NetInv
<1>7. InForceInv'
  BY <1>4, InForceKept DEF NetInv
<1>8. NumbersInv' /\ DriveTakesWhatIsSent'
  BY <1>4 DEF NetInv, NumbersInv, IsOrder, DriveTakesWhatIsSent
<1> QED BY <1>5, <1>6, <1>7, <1>8 DEF NetInv

-----------------------------------------------------------------------------
(* What the drivers read in the numbers. *)
LEMMA StatusWordIs ==
  ASSUME NEW state \in DOMAIN StatePattern, NEW sw \in StatusWords(state)
  PROVE  /\ sw \in Word16
         /\ \E p \in 0..127 :
              /\ MaskState(sw) = MaskState(p) /\ MaskSod(sw) = MaskSod(p)
              /\ \/ p = StatePattern[state]
                 \/ /\ p = StatePattern[state] + 32
                    /\ state \in {"NOT_READY_TO_SWITCH_ON", "SWITCH_ON_DISABLED",
                                  "FAULT_REACTION", "FAULT"}
<1>1. PICK bit5 \in {0, 32} : \E flags \in StatusFlags :
        /\ sw = StatePattern[state] + bit5 + flags
        /\ bit5 = 32 => state \in {"NOT_READY_TO_SWITCH_ON", "SWITCH_ON_DISABLED",
                                   "FAULT_REACTION", "FAULT"}
  BY DEF StatusWords
<1>2. PICK flags \in StatusFlags : sw = StatePattern[state] + bit5 + flags
  BY <1>1
<1>3. flags \in Int /\ flags >= 0 /\ flags <= 65535 /\ MaskState(flags) = 0
  BY NetworkAssumption, Ranges
<1> DEFINE p == StatePattern[state] + bit5
<1>4. p \in Int /\ 0 <= p /\ p <= 127 /\ p % 32 < 16
  BY <1>1 DEF StatePattern
<1>5. p = StatePattern[state] \/ p = StatePattern[state] + 32
  BY <1>1 DEF StatePattern
<1>6. sw = p + flags
  BY <1>2
<1> HIDE DEF p
<1>7. MaskState(sw) = MaskState(p) /\ MaskSod(sw) = MaskSod(p)
  <2>1. MaskState(p + flags) = MaskState(p) /\ MaskSod(p + flags) = MaskSod(p)
    BY <1>3, <1>4, Masks
  <2> QED BY <1>6, <2>1
<1>8. sw \in Word16
  <2>1. PICK h \in Int, m \in {0, 1} : flags = 128 * h + 16 * m
    BY <1>3, FlagsForm
  <2>2. sw \in Int /\ 0 <= sw /\ sw <= 65535
    BY <1>3, <1>4, <1>6, <2>1
  <2> QED BY <2>2, Ranges
<1>9. p = StatePattern[state] + 32 =>
        state \in {"NOT_READY_TO_SWITCH_ON", "SWITCH_ON_DISABLED", "FAULT_REACTION", "FAULT"}
  BY <1>1 DEF p, StatePattern
<1> QED BY <1>4, <1>5, <1>7, <1>8, <1>9

(* Every state that has a pattern of its own is told from the others by the *)
(* two masks; the other two leave what is known as it is.                   *)
LEMMA StateDecoded ==
  ASSUME NEW state \in DOMAIN StatePattern, NEW sw \in StatusWords(state)
  PROVE  Decoded(sw) = IF state \in {"FAULT_REACTION", "NOT_READY_TO_SWITCH_ON"}
                       THEN drive_state ELSE state
<1>1. PICK p \in 0..127 :
        /\ MaskState(sw) = MaskState(p) /\ MaskSod(sw) = MaskSod(p)
        /\ \/ p = StatePattern[state]
           \/ /\ p = StatePattern[state] + 32
              /\ state \in {"NOT_READY_TO_SWITCH_ON", "SWITCH_ON_DISABLED",
                            "FAULT_REACTION", "FAULT"}
  BY StatusWordIs
<1>2. CASE state = "NOT_READY_TO_SWITCH_ON"
  <2>1. p \in {0, 32}
    BY <1>1, <1>2 DEF StatePattern
  <2>2. MaskState(p) \in {0, 32} /\ MaskSod(p) = 0
    BY <2>1 DEF MaskState, MaskSod
  <2> QED BY <1>1, <1>2, <2>2 DEF Decoded
<1>3. CASE state = "SWITCH_ON_DISABLED"
  <2>1. p \in {64, 96}
    BY <1>1, <1>3 DEF StatePattern
  <2>2. MaskState(p) \in {64, 96} /\ MaskSod(p) = 64
    BY <2>1 DEF MaskState, MaskSod
  <2> QED BY <1>1, <1>3, <2>2 DEF Decoded
<1>4. CASE state = "READY_TO_SWITCH_ON"
  <2>1. p = 33
    BY <1>1, <1>4 DEF StatePattern
  <2>2. MaskState(p) = 33 /\ MaskSod(p) = 1
    BY <2>1 DEF MaskState, MaskSod
  <2> QED BY <1>1, <1>4, <2>2 DEF Decoded
<1>5. CASE state = "OPERATION_DISABLED"
  <2>1. p = 35
    BY <1>1, <1>5 DEF StatePattern
  <2>2. MaskState(p) = 35 /\ MaskSod(p) = 3
    BY <2>1 DEF MaskState, MaskSod
  <2> QED BY <1>1, <1>5, <2>2 DEF Decoded
<1>6. CASE state = "OPERATION_ENABLED"
  <2>1. p = 39
    BY <1>1, <1>6 DEF StatePattern
  <2>2. MaskState(p) = 39 /\ MaskSod(p) = 7
    BY <2>1 DEF MaskState, MaskSod
  <2> QED BY <1>1, <1>6, <2>2 DEF Decoded
<1>7. CASE state = "QUICK_STOP"
  <2>1. p = 7
    BY <1>1, <1>7 DEF StatePattern
  <2>2. MaskState(p) = 7 /\ MaskSod(p) = 7
    BY <2>1 DEF MaskState, MaskSod
  <2> QED BY <1>1, <1>7, <2>2 DEF Decoded
<1>8. CASE state = "FAULT_REACTION"
  <2>1. p \in {15, 47}
    BY <1>1, <1>8 DEF StatePattern
  <2>2. MaskState(p) \in {15, 47} /\ MaskSod(p) = 15
    BY <2>1 DEF MaskState, MaskSod
  <2> QED BY <1>1, <1>8, <2>2 DEF Decoded
<1>9. CASE state = "FAULT"
  <2>1. p \in {8, 40}
    BY <1>1, <1>9 DEF StatePattern
  <2>2. MaskState(p) \in {8, 40} /\ MaskSod(p) = 8
    BY <2>1 DEF MaskState, MaskSod
  <2> QED BY <1>1, <1>9, <2>2 DEF Decoded
<1> QED BY <1>2, <1>3, <1>4, <1>5, <1>6, <1>7, <1>8, <1>9 DEF StatePattern

(* One millivolt either way, as long as it fits. *)
LEMMA QuotientIs ==
  ASSUME NEW n \in Int
  PROVE  /\ Quotient(n, 16384) \in Int
         /\ WithinOne(Quotient(n, 16384) * 16384, n)
         /\ n >= 0 => Quotient(n, 16384) * 16384 <= n
         /\ n < 0 => Quotient(n, 16384) * 16384 >= n
<1>1. CASE n >= 0
  <2>1. n \div 16384 \in Int /\ (n \div 16384) * 16384 <= n /\ n < (n \div 16384) * 16384 + 16384
    BY SMT
  <2> QED BY <1>1, <2>1, SMT DEF Quotient, WithinOne
<1>2. CASE n < 0
  <2> DEFINE k == -n
  <2>0. k \in Int
    OBVIOUS
  <2>1. k \div 16384 \in Int /\ (k \div 16384) * 16384 <= k /\ k < (k \div 16384) * 16384 + 16384
    BY <2>0, SMT
  <2>2. Quotient(n, 16384) = -(k \div 16384)
    BY <1>2 DEF Quotient
  <2> DEFINE q == k \div 16384
  <2> HIDE DEF q
  <2>3. q \in Int /\ q * 16384 <= -n /\ -n < q * 16384 + 16384 /\ Quotient(n, 16384) = -q
    BY <2>1, <2>2 DEF q
  <2> QED BY <1>2, <2>3, SMT DEF WithinOne
<1> QED BY <1>1, <1>2

LEMMA MillivoltsAre ==
  ASSUME NEW raw \in Int16, Representable(raw)
  PROVE  WithinOne(Millivolts(raw) * 16384, raw * 20000)
<1>1. raw \in Int /\ -26844 < raw /\ raw < 26844
  BY Ranges DEF Representable
<1> DEFINE n == raw * 20000
           q == Quotient(n, 16384)
<1>2. n \in Int /\ -536860000 <= n /\ n <= 536860000
  BY <1>1
<1>3. /\ q \in Int /\ WithinOne(q * 16384, n)
      /\ n >= 0 => q * 16384 <= n
      /\ n < 0 => q * 16384 >= n
  BY <1>2, QuotientIs
<1>4. Millivolts(raw) = Narrowed(q)
  BY DEF Millivolts
<1> HIDE DEF n, q
<1>5. -32768 <= q /\ q <= 32767
  BY <1>2, <1>3, SMT DEF WithinOne
<1>6. (q + 32768) % 65536 = q + 32768
  BY <1>3, <1>5, SMT
<1>7. Narrowed(q) = q
  BY <1>3, <1>6, SMT DEF Narrowed
<1> QED BY <1>3, <1>4, <1>7 DEF n

(* With the toggle bit and without. *)
LEMMA NmtStateHeard ==
  ASSUME NEW b \in StateBytes, NEW old
  PROVE  NmtHeard(b, old) = IF b % 128 \in DOMAIN NodeStates THEN NodeStates[b % 128] ELSE old
<1>0. b \in 0..255
  BY NetworkAssumption
<1>1. b % 128 = IF b < 128 THEN b ELSE b - 128
  BY <1>0, SMT
<1>2. /\ b % 128 = 4 <=> b \in {4, 132}
      /\ b % 128 = 5 <=> b \in {5, 133}
      /\ b % 128 = 127 <=> b \in {127, 255}
  BY <1>0, <1>1, SMT
<1> QED BY <1>2 DEF NmtHeard, NodeStates

-----------------------------------------------------------------------------
(* One frame of the drain, to both drivers. *)
Drain(f) ==
  /\ MotorProcessFrame(f)
  /\ IF HasEncoder THEN EncoderProcessFrame(f) ELSE UNCHANGED encoderVars

LEMMA Lengths ==
  \A n : /\ Len(Bytes2(n)) = 2 /\ Len(Bytes4(n)) = 4
  BY SMT DEF Bytes2, Bytes4

LEMMA CobsDiffer ==
  ASSUME NumbersInv
  PROVE  /\ COB_TPDO1_BASE + Motor = 1184 + Motor /\ COB_TPDO21_BASE + Motor = 1024 + Motor
         /\ COB_SDO_RESPONSE_BASE + Motor = 1408 + Motor
         /\ COB_SDO_RESPONSE_BASE + Encoder = 1408 + Encoder
         /\ COB_NODEGUARD_BASE + Motor = 1792 + Motor
         /\ COB_NODEGUARD_BASE + Encoder = 1792 + Encoder
         /\ COB_ENC_TPDO1_BASE + Encoder = 384 + Encoder
         /\ Motor \in Int /\ Encoder \in Int
         /\ 1 <= Motor /\ Motor <= 127 /\ 0 <= Encoder /\ Encoder <= 127 /\ Motor # Encoder
  BY Ids DEF NumbersInv, COB_TPDO1_BASE, COB_TPDO21_BASE, COB_SDO_RESPONSE_BASE,
             COB_NODEGUARD_BASE, COB_ENC_TPDO1_BASE

LEMMA MotorIgnores ==
  ASSUME NumbersInv, NEW f, Drain(f),
         f.cob \notin {1184 + Motor, 1024 + Motor, 1408 + Motor}, f.cob # 1792 + Motor \/ f.rtr
  PROVE  motorVars' = motorVars
<1>1. MotorProcessFrame(f)
  BY DEF Drain
<1> QED BY <1>1, CobsDiffer DEF MotorProcessFrame

LEMMA MotorTpdo1 ==
  ASSUME NumbersInv, NEW f, Drain(f), f.cob = 1184 + Motor
  PROVE  ProcessTpdo1(f.data)
<1>1. MotorProcessFrame(f)
  BY DEF Drain
<1> QED BY <1>1, CobsDiffer DEF MotorProcessFrame

LEMMA MotorTpdo21 ==
  ASSUME NumbersInv, NEW f, Drain(f), f.cob = 1024 + Motor
  PROVE  ProcessTpdo21(f.data)
<1>1. MotorProcessFrame(f)
  BY DEF Drain
<1> QED BY <1>1, CobsDiffer DEF MotorProcessFrame

LEMMA MotorSdo ==
  ASSUME NumbersInv, NEW f, Drain(f), f.cob = 1408 + Motor
  PROVE  ProcessSdoResponse(f.data)
<1>1. MotorProcessFrame(f)
  BY DEF Drain
<1> QED BY <1>1, CobsDiffer DEF MotorProcessFrame

LEMMA MotorNmt ==
  ASSUME NumbersInv, NEW f, Drain(f), f.cob = 1792 + Motor, ~f.rtr, Len(f.data) >= 1
  PROVE  /\ motor_nmt_state' = NmtHeard(f.data[1], motor_nmt_state)
         /\ UNCHANGED <<drive_state, actual_position, analog_inputs_mv, analog_input_valid>>
<1>1. MotorProcessFrame(f)
  BY DEF Drain
<1> QED BY <1>1, CobsDiffer DEF MotorProcessFrame

LEMMA EncoderIgnores ==
  ASSUME NumbersInv, NEW f, Drain(f),
         f.cob # 384 + Encoder \/ Len(f.data) < 4, f.cob # 1792 + Encoder \/ f.rtr
  PROVE  encoderVars' = encoderVars
<1>1. IF HasEncoder THEN EncoderProcessFrame(f) ELSE UNCHANGED encoderVars
  BY DEF Drain
<1>2. ~(Len(f.data) < 4 /\ Len(f.data) >= 4)
  OBVIOUS
<1> QED BY <1>1, CobsDiffer DEF EncoderProcessFrame

LEMMA EncoderTpdo1 ==
  ASSUME NumbersInv, HasEncoder, NEW f, Drain(f), f.cob = 384 + Encoder, Len(f.data) = 4
  PROVE  raw_position' = Int32Of(f.data) /\ valid' = TRUE /\ UNCHANGED encoder_nmt_state
<1>1. EncoderProcessFrame(f)
  BY DEF Drain
<1> QED BY <1>1, CobsDiffer DEF EncoderProcessFrame

LEMMA EncoderNmt ==
  ASSUME NumbersInv, HasEncoder, NEW f, Drain(f), f.cob = 1792 + Encoder, ~f.rtr,
         Len(f.data) >= 1
  PROVE  /\ encoder_nmt_state' = NmtHeard(f.data[1], encoder_nmt_state)
         /\ UNCHANGED <<raw_position, valid>>
<1>1. EncoderProcessFrame(f)
  BY DEF Drain
<1> QED BY <1>1, CobsDiffer DEF EncoderProcessFrame

-----------------------------------------------------------------------------
(* What the drain makes of the frames of each kind. *)
Settled == OnlyOwnersChange /\ DOMAIN analog_inputs_mv' = 0..2

LEMMA NothingHeard ==
  ASSUME NumbersInv, motorVars' = motorVars, encoderVars' = encoderVars
  PROVE  Settled
  BY DEF NumbersInv, Settled, OnlyOwnersChange, motorVars

LEMMA StatusDrained ==
  ASSUME NumbersInv, Drain(Meant.frame), NEW cob \in {384 + Motor, 1184 + Motor},
         Meant \in StatusMessages(cob)
  PROVE  Settled /\ (cob = 1184 + Motor => MeantIsHeard)
<1>1. Meant.from = "motor" /\ Meant.kind = "status" /\ Meant.state \in DOMAIN StatePattern
  BY StatusParts
<1>2. PICK sw \in StatusWords(Meant.state) : Meant.frame = Frame(cob, Bytes2(sw))
  BY StatusParts
<1>3. Meant.frame.cob = cob /\ Meant.frame.data = Bytes2(sw)
  BY <1>2, FrameParts
<1>4. encoderVars' = encoderVars
  BY <1>3, CobsDiffer, EncoderIgnores
<1>5. CASE cob = 384 + Motor
  <2>1. motorVars' = motorVars
    BY <1>3, <1>5, CobsDiffer, MotorIgnores
  <2>2. cob # 1184 + Motor
    BY <1>5, CobsDiffer
  <2> QED BY <1>4, <2>1, <2>2, NothingHeard
<1>6. CASE cob = 1184 + Motor
  <2>1. ProcessTpdo1(Bytes2(sw))
    BY <1>3, <1>6, MotorTpdo1
  <2>2. Word(Bytes2(sw)[1], Bytes2(sw)[2]) = sw
    BY <1>1, StatusWordIs, WordOfBytes
  <2>3. drive_state' = Decoded(sw) /\ analog_inputs_mv' = analog_inputs_mv
    BY <2>1, <2>2, Lengths DEF ProcessTpdo1
  <2>4. MeantIsHeard
    BY <1>1, <2>3, StateDecoded DEF MeantIsHeard
  <2>5. Settled
    BY <1>1, <1>4, <2>3 DEF Settled, OnlyOwnersChange, NumbersInv
  <2> QED BY <2>4, <2>5
<1> QED BY <1>5, <1>6

LEMMA PositionDrained ==
  ASSUME NumbersInv, Drain(Meant.frame), NEW cob \in {640 + Motor, 1024 + Motor},
         Meant \in PositionMessages(cob)
  PROVE  Settled /\ (cob = 1024 + Motor => MeantIsHeard)
<1>1. /\ Meant.from = "motor" /\ Meant.kind = "position" /\ Meant.value \in Positions
      /\ Meant.frame = Frame(cob, Bytes4(Meant.value))
  BY PositionParts
<1>2. Meant.frame.cob = cob /\ Meant.frame.data = Bytes4(Meant.value)
  BY <1>1, FrameParts
<1>3. encoderVars' = encoderVars
  BY <1>2, CobsDiffer, EncoderIgnores
<1>4. CASE cob = 640 + Motor
  <2>1. motorVars' = motorVars
    BY <1>2, <1>4, CobsDiffer, MotorIgnores
  <2>2. cob # 1024 + Motor
    BY <1>4, CobsDiffer
  <2> QED BY <1>3, <2>1, <2>2, NothingHeard
<1>5. CASE cob = 1024 + Motor
  <2>1. ProcessTpdo21(Bytes4(Meant.value))
    BY <1>2, <1>5, MotorTpdo21
  <2>2. Int32Of(Bytes4(Meant.value)) = Meant.value
    BY <1>1, NetworkAssumption, Int32OfBytes
  <2>3. actual_position' = Meant.value /\ analog_inputs_mv' = analog_inputs_mv
    <3>1. Len(Bytes4(Meant.value)) = 4
      BY Lengths
    <3> QED BY <2>1, <2>2, <3>1 DEF ProcessTpdo21
  <2>4. MeantIsHeard
    BY <1>1, <2>3 DEF MeantIsHeard
  <2>5. Settled
    BY <1>1, <1>3, <2>3 DEF Settled, OnlyOwnersChange, NumbersInv
  <2> QED BY <2>4, <2>5
<1> QED BY <1>4, <1>5

LEMMA MotorShortDrained ==
  ASSUME NumbersInv, Drain(Meant.frame), NEW cob \in {384 + Motor, 1184 + Motor},
         Meant = ShortMessage("motor", cob)
  PROVE  Settled /\ MeantIsHeard
<1>1. Meant.kind = "short" /\ Meant.frame = Frame(cob, <<39>>)
  BY ShortParts
<1>2. Meant.frame.cob = cob /\ Meant.frame.data = <<39>>
  BY <1>1, FrameParts
<1>3. encoderVars' = encoderVars
  BY <1>2, CobsDiffer, EncoderIgnores
<1>4. motorVars' = motorVars
  <2>1. CASE cob = 384 + Motor
    BY <1>2, <2>1, CobsDiffer, MotorIgnores
  <2>2. CASE cob = 1184 + Motor
    <3>1. ProcessTpdo1(<<39>>)
      BY <1>2, <2>2, MotorTpdo1
    <3> QED BY <3>1 DEF ProcessTpdo1, motorVars
  <2> QED BY <2>1, <2>2
<1> QED BY <1>1, <1>3, <1>4, NothingHeard DEF MeantIsHeard

LEMMA MotorNmtDrained ==
  ASSUME NumbersInv, Drain(Meant.frame),
         Meant \in NmtMessages("motor", COB_NODEGUARD_BASE + Motor)
  PROVE  Settled /\ MeantIsHeard
<1>1. /\ Meant.from = "motor" /\ Meant.kind = "nmt" /\ Meant.value \in StateBytes
      /\ Meant.frame = Frame(1792 + Motor, <<Meant.value>>)
  BY NmtParts, CobsDiffer
<1>2. /\ Meant.frame.cob = 1792 + Motor /\ Meant.frame.data = <<Meant.value>>
      /\ Meant.frame.rtr = FALSE
  BY <1>1, FrameParts
<1>3. encoderVars' = encoderVars
  BY <1>2, CobsDiffer, EncoderIgnores
<1>4. /\ motor_nmt_state' = NmtHeard(Meant.value, motor_nmt_state)
      /\ UNCHANGED <<drive_state, actual_position, analog_inputs_mv, analog_input_valid>>
  <2>1. Len(Meant.frame.data) >= 1 /\ Meant.frame.data[1] = Meant.value
    BY <1>2
  <2>2. ~Meant.frame.rtr
    BY <1>2
  <2>3. Meant.frame.cob = 1792 + Motor
    BY <1>2
  <2> QED BY <2>1, <2>2, <2>3, MotorNmt
<1>5. motor_nmt_state' = IF Meant.value % 128 \in DOMAIN NodeStates
                         THEN NodeStates[Meant.value % 128] ELSE motor_nmt_state
  <2>1. NmtHeard(Meant.value, motor_nmt_state)
          = IF Meant.value % 128 \in DOMAIN NodeStates
            THEN NodeStates[Meant.value % 128] ELSE motor_nmt_state
    BY <1>1, NmtStateHeard
  <2> QED BY <1>4, <2>1, Zenon
<1>6. MeantIsHeard
  BY <1>1, <1>3, <1>4, <1>5 DEF MeantIsHeard, motorVars
<1>7. Settled
  BY <1>1, <1>3, <1>4 DEF Settled, OnlyOwnersChange, NumbersInv
<1> QED BY <1>6, <1>7

LEMMA MotorSdoDrained ==
  ASSUME NumbersInv, Drain(Meant.frame), Meant \in SdoMessages("motor", Motor)
  PROVE  Settled /\ MeantIsHeard
<1>1. Meant.kind = "sdo"
  BY SdoParts
<1>2. PICK command \in {"download", "abort", "upload"} :
        Meant.frame = SdoAnswer(Motor, command, <<SDO_IDX_ANALOG_INPUT, 1>>, SdoData(command))
  BY SdoParts
<1>3. /\ Meant.frame.cob = 1408 + Motor /\ Meant.frame.data.command = command
      /\ Meant.frame.data.data = SdoData(command)
  BY <1>2, CobsDiffer DEF SdoAnswer, Frame
<1>4. encoderVars' = encoderVars
  BY <1>3, CobsDiffer, EncoderIgnores
<1>5. motorVars' = motorVars
  <2>1. ProcessSdoResponse(Meant.frame.data)
    BY <1>3, MotorSdo
  <2>2. SdoData("upload") = <<6>> /\ Len(<<6>>) = 1
    BY DEF SdoData
  <2>3. ASSUME command = "upload" PROVE Len(Meant.frame.data.data) = 1
    <3>1. Meant.frame.data.data = <<6>>
      BY <1>3, <2>2, <2>3
    <3> QED BY <2>2, <3>1, Zenon
  <2>4. ~(1 >= 2)
    OBVIOUS
  <2>5. ~ReadsAnalog(Meant.frame.data)
    BY <1>3, <2>3, <2>4, Zenon DEF ReadsAnalog
  <2> QED BY <2>1, <2>5 DEF ProcessSdoResponse
<1> QED BY <1>1, <1>4, <1>5, NothingHeard DEF MeantIsHeard

LEMMA AnalogDrained ==
  ASSUME NumbersInv, Drain(Meant.frame), Meant \in AnalogMessages(Motor, AnalogPin)
  PROVE  Settled /\ MeantIsHeard
<1>1. /\ Meant.from = "motor" /\ Meant.kind = "analog" /\ Meant.value \in Readings
      /\ Meant.frame = SdoAnswer(Motor, "upload", <<SDO_IDX_ANALOG_INPUT, AnalogPin + 1>>,
                                 Bytes2(Meant.value))
  BY AnalogParts
<1>2. /\ Meant.frame.cob = 1408 + Motor /\ Meant.frame.data.command = "upload"
      /\ Meant.frame.data.object = <<SDO_IDX_ANALOG_INPUT, AnalogPin + 1>>
      /\ Meant.frame.data.data = Bytes2(Meant.value)
  BY <1>1, CobsDiffer DEF SdoAnswer, Frame
<1>3. encoderVars' = encoderVars
  BY <1>2, CobsDiffer, EncoderIgnores
<1>4. AnalogPin \in 0..2
  BY Ids DEF NumbersInv
<1>5. /\ analog_inputs_mv' = [analog_inputs_mv EXCEPT ![AnalogPin] = Millivolts(Meant.value)]
      /\ analog_input_valid' = TRUE
  <2>1. ProcessSdoResponse(Meant.frame.data)
    BY <1>2, MotorSdo
  <2>2. /\ Meant.frame.data.object[1] = SDO_IDX_ANALOG_INPUT
        /\ Meant.frame.data.object[2] = AnalogPin + 1
    BY <1>2
  <2>3. Len(Meant.frame.data.data) >= 2
    <3>1. Len(Bytes2(Meant.value)) >= 2
      BY Lengths
    <3> QED BY <1>2, <3>1, Zenon
  <2>4. ReadsAnalog(Meant.frame.data) /\ Meant.frame.data.object[2] - 1 = AnalogPin
    BY <1>2, <1>4, <2>2, <2>3 DEF ReadsAnalog
  <2>5. Int16Of(Meant.frame.data.data) = Meant.value
    BY <1>1, <1>2, NetworkAssumption, Int16OfBytes
  <2> QED BY <2>1, <2>4, <2>5 DEF ProcessSdoResponse
<1>6. analog_inputs_mv'[AnalogPin] = Millivolts(Meant.value) /\ DOMAIN analog_inputs_mv' = 0..2
  BY <1>4, <1>5 DEF NumbersInv
<1>7. Representable(Meant.value) =>
        WithinOne(analog_inputs_mv'[AnalogPin] * 16384, Meant.value * 20000)
  BY <1>1, <1>6, NetworkAssumption, MillivoltsAre
<1>8. MeantIsHeard
  BY <1>1, <1>5, <1>7 DEF MeantIsHeard
<1>9. Settled
  BY <1>1, <1>3, <1>6 DEF Settled, OnlyOwnersChange
<1> QED BY <1>8, <1>9

(* A remote frame: two of them are positions to the drivers. *)
LEMMA MotorRequestDrained ==
  ASSUME NumbersInv, NEW f, Drain(f), NEW cob, NEW dlc \in {0, 4},
         f.cob = cob, f.rtr, f.data = RemoteData(cob, dlc), cob # 1024 + Motor \/ dlc = 0
  PROVE  motorVars' = motorVars
<1>1. CASE cob = 1184 + Motor
  <2>1. ProcessTpdo1(f.data) /\ cob # COB_SDO_RESPONSE_BASE + Motor
    BY <1>1, CobsDiffer, MotorTpdo1
  <2>2. f.data = <<>> \/ f.data = <<0, 0, 0, 0>>
    BY <2>1 DEF RemoteData
  <2>3. Len(<<>>) = 0 /\ <<0, 0, 0, 0>>[1] = 0 /\ <<0, 0, 0, 0>>[2] = 0
    OBVIOUS
  <2>4. Decoded(Word(0, 0)) = drive_state
    BY DEF Decoded, Word, MaskSod, MaskState
  <2>5. drive_state' = drive_state
    BY <2>1, <2>2, <2>3, <2>4 DEF ProcessTpdo1
  <2> QED BY <2>1, <2>5 DEF ProcessTpdo1, motorVars
<1>2. CASE cob = 1024 + Motor
  <2>1. ProcessTpdo21(f.data) /\ cob # COB_SDO_RESPONSE_BASE + Motor
    BY <1>2, CobsDiffer, MotorTpdo21
  <2>2. f.data = <<>> /\ Len(<<>>) = 0
    BY <1>2, <2>1 DEF RemoteData
  <2> QED BY <2>1, <2>2 DEF ProcessTpdo21, motorVars
<1>3. CASE cob = 1408 + Motor
  <2>1. ProcessSdoResponse(f.data) /\ cob = COB_SDO_RESPONSE_BASE + Motor
    BY <1>3, CobsDiffer, MotorSdo
  <2>2. ~ReadsAnalog(f.data)
    BY <2>1 DEF RemoteData, ReadsAnalog
  <2> QED BY <2>1, <2>2 DEF ProcessSdoResponse
<1>4. CASE cob \notin {1184 + Motor, 1024 + Motor, 1408 + Motor}
  BY <1>4, MotorIgnores
<1> QED BY <1>1, <1>2, <1>3, <1>4

LEMMA RequestDrained ==
  ASSUME NumbersInv, Drain(Meant.frame), NEW cob \in ListenedTo, NEW dlc \in {0, 4},
         Meant = Request(cob, dlc)
  PROVE  Settled
<1>1. /\ Meant.kind = "request" /\ Meant.value = dlc
      /\ Meant.frame.cob = cob /\ Meant.frame.rtr /\ Meant.frame.data = RemoteData(cob, dlc)
  BY RequestParts
<1>2. CASE cob = 1024 + Motor /\ dlc = 4
  <2>1. encoderVars' = encoderVars
    BY <1>1, <1>2, CobsDiffer, EncoderIgnores
  <2>2. ProcessTpdo21(RemoteData(cob, dlc))
    BY <1>1, <1>2, MotorTpdo21
  <2>3. RemoteData(cob, dlc) = <<0, 0, 0, 0>>
    BY <1>2, CobsDiffer DEF RemoteData
  <2>4. Len(<<0, 0, 0, 0>>) = 4 /\ Int32Of(<<0, 0, 0, 0>>) = 0
    BY DEF Int32Of, Signed
  <2>5. /\ actual_position' = 0
        /\ UNCHANGED <<motor_nmt_state, drive_state, analog_inputs_mv, analog_input_valid>>
    BY <2>2, <2>3, <2>4 DEF ProcessTpdo21
  <2>6. Asks(COB_TPDO21_BASE + Motor)
    BY <1>1, <1>2, CobsDiffer DEF Asks
  <2> QED BY <2>1, <2>5, <2>6 DEF Settled, OnlyOwnersChange, NumbersInv
<1>3. CASE HasEncoder /\ cob = 384 + Encoder /\ dlc = 4
  <2>1. motorVars' = motorVars
    BY <1>1, <1>3, CobsDiffer, MotorIgnores
  <2>2. RemoteData(cob, dlc) = <<0, 0, 0, 0>>
    BY <1>3, CobsDiffer DEF RemoteData
  <2>3. Len(<<0, 0, 0, 0>>) = 4 /\ Int32Of(<<0, 0, 0, 0>>) = 0
    BY DEF Int32Of, Signed
  <2>4. raw_position' = 0 /\ valid' = TRUE /\ UNCHANGED encoder_nmt_state
    <3>1. Meant.frame.data = <<0, 0, 0, 0>>
      BY <1>1, <2>2
    <3>2. Len(Meant.frame.data) = 4
      BY <2>3, <3>1, Zenon
    <3>3. Int32Of(Meant.frame.data) = 0
      BY <2>3, <3>1, Zenon
    <3>4. /\ HasEncoder /\ Meant.frame.cob = 384 + Encoder
          /\ raw_position' = Int32Of(Meant.frame.data) /\ valid' = TRUE
          /\ UNCHANGED encoder_nmt_state
      <4>1. HasEncoder /\ Meant.frame.cob = 384 + Encoder
        BY <1>1, <1>3
      <4> QED BY <3>2, <4>1, EncoderTpdo1, Zenon
    <3> QED BY <3>3, <3>4
  <2>5. Asks(COB_ENC_TPDO1_BASE + Encoder)
    BY <1>1, <1>3, CobsDiffer DEF Asks
  <2> QED BY <1>3, <2>1, <2>4, <2>5 DEF Settled, OnlyOwnersChange, NumbersInv, motorVars
<1>4. CASE ~(cob = 1024 + Motor /\ dlc = 4) /\ ~(HasEncoder /\ cob = 384 + Encoder /\ dlc = 4)
  <2>1. motorVars' = motorVars
    BY <1>1, <1>4, MotorRequestDrained
  <2>2. encoderVars' = encoderVars
    <3>1. CASE cob = 384 + Encoder /\ dlc = 0
      <4>1. RemoteData(cob, dlc) = <<>> /\ Len(<<>>) = 0
        BY <3>1, CobsDiffer DEF RemoteData
      <4> QED BY <1>1, <3>1, <4>1, EncoderIgnores
    <3>2. CASE cob # 384 + Encoder
      BY <1>1, <3>2, EncoderIgnores
    <3>3. CASE ~HasEncoder
      BY <3>3 DEF Drain
    <3> QED BY <1>4, <3>1, <3>2, <3>3
  <2> QED BY <2>1, <2>2, NothingHeard
<1> QED BY <1>2, <1>3, <1>4

LEMMA EncoderDrained ==
  ASSUME NumbersInv, HasEncoder, Drain(Meant.frame),
         Meant \in EncoderMessages(COB_ENC_TPDO1_BASE + Encoder)
  PROVE  Settled /\ MeantIsHeard
<1>1. /\ Meant.from = "encoder" /\ Meant.kind = "encoder" /\ Meant.value \in Positions
      /\ Meant.frame = Frame(384 + Encoder, Bytes4(Meant.value))
  BY EncoderParts, CobsDiffer
<1>2. /\ Meant.frame.cob = 384 + Encoder /\ Meant.frame.data = Bytes4(Meant.value)
      /\ Len(Meant.frame.data) = 4
  BY <1>1, FrameParts, Lengths
<1>3. motorVars' = motorVars
  BY <1>2, CobsDiffer, MotorIgnores
<1>4. raw_position' = Meant.value /\ valid' = TRUE
  <2>1. Int32Of(Bytes4(Meant.value)) = Meant.value
    BY <1>1, NetworkAssumption, Int32OfBytes
  <2> QED BY <1>2, <2>1, EncoderTpdo1
<1>5. MeantIsHeard
  BY <1>1, <1>4 DEF MeantIsHeard
<1>6. Settled
  BY <1>1, <1>3 DEF Settled, OnlyOwnersChange, NumbersInv, motorVars
<1> QED BY <1>5, <1>6

LEMMA EncoderShortDrained ==
  ASSUME NumbersInv, Drain(Meant.frame),
         Meant = ShortMessage("encoder", COB_ENC_TPDO1_BASE + Encoder)
  PROVE  Settled /\ MeantIsHeard
<1>1. Meant.kind = "short" /\ Meant.frame = Frame(384 + Encoder, <<39>>)
  BY ShortParts, CobsDiffer
<1>2. Meant.frame.cob = 384 + Encoder /\ Meant.frame.data = <<39>>
  BY <1>1, FrameParts
<1>3. encoderVars' = encoderVars
  <2>1. \A data : data = <<39>> => Len(data) < 4
    OBVIOUS
  <2>2. Len(Meant.frame.data) < 4
    BY <1>2, <2>1, Zenon
  <2>3. Meant.frame.cob # 1792 + Encoder
    BY <1>2, CobsDiffer
  <2> QED BY <2>2, <2>3, EncoderIgnores
<1>4. motorVars' = motorVars
  BY <1>2, CobsDiffer, MotorIgnores
<1> QED BY <1>1, <1>3, <1>4, NothingHeard DEF MeantIsHeard

LEMMA EncoderNmtDrained ==
  ASSUME NumbersInv, HasEncoder, Drain(Meant.frame),
         Meant \in NmtMessages("encoder", COB_NODEGUARD_BASE + Encoder)
  PROVE  Settled /\ MeantIsHeard
<1>1. /\ Meant.from = "encoder" /\ Meant.kind = "nmt" /\ Meant.value \in StateBytes
      /\ Meant.frame = Frame(1792 + Encoder, <<Meant.value>>)
  BY NmtParts, CobsDiffer
<1>2. /\ Meant.frame.cob = 1792 + Encoder /\ Meant.frame.data = <<Meant.value>>
      /\ Meant.frame.rtr = FALSE
  BY <1>1, FrameParts
<1>3. motorVars' = motorVars
  BY <1>2, CobsDiffer, MotorIgnores
<1>4. /\ encoder_nmt_state' = NmtHeard(Meant.value, encoder_nmt_state)
      /\ UNCHANGED <<raw_position, valid>>
  <2>1. Len(Meant.frame.data) >= 1 /\ Meant.frame.data[1] = Meant.value
    BY <1>2
  <2>2. ~Meant.frame.rtr
    BY <1>2
  <2>3. Meant.frame.cob = 1792 + Encoder
    BY <1>2
  <2> QED BY <2>1, <2>2, <2>3, EncoderNmt
<1>5. encoder_nmt_state' = IF Meant.value % 128 \in DOMAIN NodeStates
                           THEN NodeStates[Meant.value % 128] ELSE encoder_nmt_state
  <2>1. NmtHeard(Meant.value, encoder_nmt_state)
          = IF Meant.value % 128 \in DOMAIN NodeStates
            THEN NodeStates[Meant.value % 128] ELSE encoder_nmt_state
    BY <1>1, NmtStateHeard
  <2> QED BY <1>4, <2>1, Zenon
<1>6. MeantIsHeard
  BY <1>1, <1>3, <1>4, <1>5 DEF MeantIsHeard, encoderVars
<1>7. Settled
  BY <1>1, <1>3 DEF Settled, OnlyOwnersChange, NumbersInv, motorVars
<1> QED BY <1>6, <1>7

LEMMA EncoderSdoDrained ==
  ASSUME NumbersInv, Drain(Meant.frame), Meant \in SdoMessages("encoder", Encoder)
  PROVE  Settled /\ MeantIsHeard
<1>1. Meant.kind = "sdo"
  BY SdoParts
<1>2. PICK command \in {"download", "abort", "upload"} :
        Meant.frame = SdoAnswer(Encoder, command, <<SDO_IDX_ANALOG_INPUT, 1>>, SdoData(command))
  BY SdoParts
<1>3. Meant.frame.cob = 1408 + Encoder
  BY <1>2, CobsDiffer DEF SdoAnswer, Frame
<1>4. motorVars' = motorVars /\ encoderVars' = encoderVars
  BY <1>3, CobsDiffer, MotorIgnores, EncoderIgnores
<1> QED BY <1>1, <1>4, NothingHeard DEF MeantIsHeard

(* Whatever is first in the socket. *)
LEMMA MotorMessagesDrained ==
  ASSUME NumbersInv, Drain(Meant.frame),
         NEW tpdo1 \in {384 + Motor, 1184 + Motor}, NEW tpdo21 \in {640 + Motor, 1024 + Motor},
         Meant \in MotorMessages(Motor, AnalogPin, tpdo1, tpdo21)
  PROVE  Settled /\ (tpdo1 = 1184 + Motor /\ tpdo21 = 1024 + Motor => MeantIsHeard)
<1>1. \/ Meant \in StatusMessages(tpdo1)
      \/ Meant \in PositionMessages(tpdo21)
      \/ Meant = ShortMessage("motor", tpdo1)
      \/ Meant \in NmtMessages("motor", COB_NODEGUARD_BASE + Motor)
      \/ Meant \in SdoMessages("motor", Motor)
      \/ Meant \in AnalogMessages(Motor, AnalogPin)
  BY Zenon DEF MotorMessages
<1> QED BY <1>1, StatusDrained, PositionDrained, MotorShortDrained, MotorNmtDrained,
           MotorSdoDrained, AnalogDrained

LEMMA EncodersMessagesDrained ==
  ASSUME NumbersInv, HasEncoder, Drain(Meant.frame), Meant \in EncodersMessages(Encoder)
  PROVE  Settled /\ MeantIsHeard
<1>1. \/ Meant \in EncoderMessages(COB_ENC_TPDO1_BASE + Encoder)
      \/ Meant = ShortMessage("encoder", COB_ENC_TPDO1_BASE + Encoder)
      \/ Meant \in NmtMessages("encoder", COB_NODEGUARD_BASE + Encoder)
      \/ Meant \in SdoMessages("encoder", Encoder)
  BY Zenon DEF EncodersMessages
<1> QED BY <1>1, EncoderDrained, EncoderShortDrained, EncoderNmtDrained, EncoderSdoDrained

LEMMA AnyDrained ==
  ASSUME NumbersInv, Drain(Meant.frame), Meant \in Any
  PROVE  Settled /\ (Meant \in Clean /\ Meant.from \in Node => MeantIsHeard)
<1>1. ASSUME NEW tpdo1 \in {384 + Motor, 1184 + Motor},
             NEW tpdo21 \in {640 + Motor, 1024 + Motor},
             Meant \in Messages(Motor, Encoder, AnalogPin, tpdo1, tpdo21)
      PROVE  Settled /\ (tpdo1 = 1184 + Motor /\ tpdo21 = 1024 + Motor => MeantIsHeard)
  <2>1. \/ Meant \in MotorMessages(Motor, AnalogPin, tpdo1, tpdo21)
        \/ HasEncoder /\ Meant \in EncodersMessages(Encoder)
    BY <1>1 DEF Messages, HasEncoder
  <2> QED BY <2>1, MotorMessagesDrained, EncodersMessagesDrained
<1>2. Meant \in Requests => Settled /\ Meant.from \notin Node
  <2> SUFFICES ASSUME Meant \in Requests PROVE Settled /\ Meant.from \notin Node
    OBVIOUS
  <2>1. PICK cob \in ListenedTo, dlc \in {0, 4} : Meant = Request(cob, dlc)
    BY InRequests
  <2> QED BY <2>1, RequestDrained, RequestParts DEF Node
<1>3. Meant \in Clean => Settled /\ (Meant.from \in Node => MeantIsHeard)
  BY <1>1, <1>2 DEF Clean
<1>4. Meant \in Any => Settled
  BY <1>1, <1>3 DEF Any
<1> QED BY <1>3, <1>4

-----------------------------------------------------------------------------
LEMMA ReceiveFrameInv ==
  NetInv /\ ReceiveFrame =>
    NetInv' /\ OnlyOwnersChange /\ (lost = 0 /\ Meant.from \in Node => MeantIsHeard)
<1> SUFFICES ASSUME NetInv, ReceiveFrame
             PROVE  /\ NetInv' /\ OnlyOwnersChange
                    /\ lost = 0 /\ Meant.from \in Node => MeantIsHeard
  OBVIOUS
<1>1. /\ network' = network /\ step' = step /\ running' = running /\ od' = od
      /\ ordered' = ordered /\ taken' = taken /\ lost' = lost
      /\ socket # <<>> /\ socket' = Tail(socket)
  BY DEF ReceiveFrame, deviceVars, orderVars
<1>2. SocketInv' /\ Meant \in Any /\ (lost = 0 => Meant \in Clean)
  BY <1>1, SocketDrained DEF NetInv, Meant
<1>3. Drain(Meant.frame)
  BY DEF ReceiveFrame, Drain, Meant
<1>4. Settled /\ (Meant \in Clean /\ Meant.from \in Node => MeantIsHeard)
  BY <1>2, <1>3, AnyDrained DEF NetInv
<1>5. DictionaryInv'
  BY <1>1, DictionaryKept DEF NetInv
<1>6. InForceInv'
  BY <1>1, InForceKept DEF NetInv
<1>7. NumbersInv' /\ DriveTakesWhatIsSent'
  BY <1>1, <1>4 DEF NetInv, NumbersInv, IsOrder, DriveTakesWhatIsSent, Settled
<1> QED BY <1>2, <1>4, <1>5, <1>6, <1>7 DEF NetInv, Settled

(* Every other step adds to the socket or leaves it alone. *)
LEMMA OtherStepInv ==
  ASSUME NetInv, Next, ~ReceiveFrame
  PROVE  NetInv' /\ ~(Len(socket') < Len(socket))
<1>1. Len(socket) \in Nat
  BY DEF NetInv, SocketInv
<1>2. ASSUME socket' = socket PROVE ~(Len(socket') < Len(socket))
  BY <1>1, <1>2
<1>3. ASSUME Len(socket') = Len(socket) + 1 PROVE ~(Len(socket') < Len(socket))
  BY <1>1, <1>3
<1>4. CASE Configure \/ SendControlWord \/ SendTarget
  <2>1. socket' = socket
    BY <1>4 DEF Configure, SendControlWord, SendTarget
  <2> QED BY <1>2, <1>4, <2>1, ConfigureInv, SendControlWordInv, SendTargetInv
<1>5. CASE DriveReportsStatus \/ DriveReportsPosition \/ EncoderReports \/ ReportsShort
  BY <1>3, <1>5, DriveReportsStatusInv, DriveReportsPositionInv, EncoderReportsInv,
     ReportsShortInv
<1>6. CASE NodeAnswersGuard \/ DriveAnswersPoll \/ NodeAnswersSdo \/ RemoteFrame
  BY <1>3, <1>6, NodeAnswersGuardInv, DriveAnswersPollInv, NodeAnswersSdoInv, RemoteFrameInv
<1> QED BY <1>4, <1>5, <1>6 DEF Next

LEMMA StutterInv == NetInv /\ UNCHANGED vars => NetInv' /\ ~(Len(socket') < Len(socket))
<1> SUFFICES ASSUME NetInv, UNCHANGED vars PROVE NetInv' /\ ~(Len(socket') < Len(socket))
  OBVIOUS
<1>1. /\ network' = network /\ step' = step /\ running' = running /\ od' = od
      /\ ordered' = ordered /\ taken' = taken /\ lost' = lost /\ socket' = socket
      /\ analog_inputs_mv' = analog_inputs_mv
  BY DEF vars, deviceVars, orderVars, motorVars
<1>2. DictionaryInv' /\ InForceInv' /\ SocketInv'
  BY <1>1, DictionaryKept, InForceKept, SocketKept DEF NetInv
<1>3. NumbersInv' /\ DriveTakesWhatIsSent'
  BY <1>1 DEF NetInv, NumbersInv, IsOrder, DriveTakesWhatIsSent
<1>4. Len(socket) \in Nat
  BY DEF NetInv, SocketInv
<1> QED BY <1>1, <1>2, <1>3, <1>4 DEF NetInv

LEMMA NextInv ==
  NetInv /\ [Next]_vars =>
    /\ NetInv'
    /\ Len(socket') < Len(socket) =>
         OnlyOwnersChange /\ (lost = 0 /\ Meant.from \in Node => MeantIsHeard)
  BY ReceiveFrameInv, OtherStepInv, StutterInv

(* The invariant of the frames on the bus, in the dictionaries and in the   *)
(* socket (motor_driver.cpp:122-165, encoder_driver.cpp:72-86).             *)
THEOREM NetworkInvariant == Spec => []NetInv
<1>1. Init => NetInv
  BY InitInv
<1>2. NetInv /\ [Next]_vars => NetInv'
  BY NextInv
<1> QED BY <1>1, <1>2, PTL DEF Spec

(* While no frame of the program's is lost, the control word and the target *)
(* that the drive took last are the last ones sent (motor_driver.cpp:       *)
(* 103-113, :369-377).                                                      *)
THEOREM OrdersAreTaken == Spec => []DriveTakesWhatIsSent
<1>1. NetInv => DriveTakesWhatIsSent
  BY DEF NetInv
<1> QED BY <1>1, NetworkInvariant, PTL

(* Every frame drained means to its driver what its sender meant, if none   *)
(* of configure() was lost (motor_driver.cpp:272-358).                      *)
THEOREM FramesAreHeardAsSent == Spec => HeardAsSent
<1>1. NetInv /\ [Next]_vars =>
        [lost = 0 /\ Len(socket') < Len(socket) /\ Meant.from \in Node => MeantIsHeard]_vars
  BY NextInv
<1> QED BY <1>1, NetworkInvariant, PTL DEF Spec, HeardAsSent

(* Whatever was lost, a frame changes only what is known of its sender, and *)
(* only what it tells of; a remote frame, which has no sender among the     *)
(* nodes, changes nothing, except that one for a position is taken for the  *)
(* position 0 (motor_driver.cpp:272-310, encoder_driver.cpp:105-132).       *)
THEOREM FramesChangeTheirOwnersOnly == Spec => EachFrameItsOwner
<1>1. NetInv /\ [Next]_vars => [Len(socket') < Len(socket) => OnlyOwnersChange]_vars
  BY NextInv
<1> QED BY <1>1, NetworkInvariant, PTL DEF Spec, EachFrameItsOwner
=============================================================================
