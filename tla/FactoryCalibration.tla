-------------------------- MODULE FactoryCalibration --------------------------
(***************************************************************************)
(* The factory calibration of a Meow motor (src/meow_motor/calibration.rs, *)
(* read_factory_calibration in manager.rs): object 0x4001 is uploaded sub- *)
(* index by subindex and judged against the identity of the motor, while   *)
(* the device behind the node id may restart, be swapped or fall silent.   *)
(*                                                                         *)
(* A U32 is the pair <<low half, high half>>: the code takes words apart   *)
(* into halves.  A half-precision value is an integer multiple of 2^-17,   *)
(* the step of its subnormals.  CRC and encoding are computed bit by bit.  *)
(***************************************************************************)
EXTENDS Integers, Sequences, SequencesExt, FiniteSetsExt

CONSTANTS
  Devices,     \* motors that may answer under the node id
  IdentityOf,  \* their 0x1018: [Devices -> [vendor, product, revision, serial]]
  Areas,       \* what their 0x4001 may hold: [Devices -> SUBSET Area]
  Nothing,     \* no value
  MaxEpoch     \* bound on device sessions in a behaviour

MaxU16 == 65535
U16 == 0 .. MaxU16
Zero32 == <<0, 0>>
Lo(w) == w[1]
Hi(w) == w[2]
IsU32(w) == w \in Seq(U16) /\ Len(w) = 2

WordCount == 7
ManifestUpperV1 == 262     \* format_version 1, payload_words 6

(* The answer to an upload: bytes, or an abort because there is no such     *)
(* object or subindex.                                                      *)
Bytes(n, d) == [found |-> TRUE, len |-> n, data |-> d]
Absent      == [found |-> FALSE, len |-> 0, data |-> Zero32]
IsArea(a)   ==
  /\ DOMAIN a = 0 .. WordCount
  /\ \A i \in 0 .. WordCount :
       /\ DOMAIN a[i] = {"found", "len", "data"}
       /\ a[i].found \in BOOLEAN /\ a[i].len \in Nat /\ IsU32(a[i].data)

ASSUME DevicesAssumption ==
  /\ DOMAIN IdentityOf = Devices
  /\ \A d \in Devices : /\ DOMAIN IdentityOf[d] = {"vendor", "product", "revision", "serial"}
                         /\ \A f \in DOMAIN IdentityOf[d] : IsU32(IdentityOf[d][f])
  /\ \A d, e \in Devices : IdentityOf[d] = IdentityOf[e] => d = e
ASSUME AreasAssumption ==
  DOMAIN Areas = Devices /\ \A d \in Devices : \A a \in Areas[d] : IsArea(a)
ASSUME NothingIsNoDevice == Nothing \notin Devices
ASSUME CalibrationBounds == MaxEpoch \in Nat

-----------------------------------------------------------------------------
(* CRC16/CCITT-FALSE over the transcript.                                   *)

Bits == <<0, 1, 2, 3, 4, 5, 6, 7>>

XorBytes(m, n) ==
  FoldLeft(LAMBDA sum, i : IF (m \div 2^i) % 2 = (n \div 2^i) % 2 THEN sum ELSE sum + 2^i,
           0, Bits)

(* XOR of a CRC with a byte shifted into its upper half *)
XorUpper(crc, byte) == XorBytes(crc \div 256, byte) * 256 + (crc % 256)

(* crc << 1, and the polynomial 0x1021 for the bit that falls out *)
ShiftOut(crc) ==
  LET shifted == (2 * crc) % 65536
  IN  IF crc < 32768 THEN shifted
      ELSE XorBytes(shifted \div 256, 16) * 256 + XorBytes(shifted % 256, 33)

(* What the upper half of the register becomes in eight shifts; they are    *)
(* linear, so that the lower half just moves up.                            *)
EightShifts == [upper \in 0 .. 255 |->
                 FoldLeft(LAMBDA crc, i : ShiftOut(crc), upper * 256, Bits)]

TakeByte(byte) ==
  [crc \in U16 |-> XorUpper(EightShifts[XorBytes(crc \div 256, byte)], crc % 256)]

Crc16(start, bytes) == FoldLeft(LAMBDA crc, byte : TakeByte(byte)[crc], start, bytes)

LittleEndian(halves) ==
  FlattenSeq([i \in 1 .. Len(halves) |-> <<halves[i] % 256, halves[i] \div 256>>])

(* "hex-meow/0x4001/crc/v1" and a NUL *)
CrcDomain == <<104, 101, 120, 45, 109, 101, 111, 119, 47, 48, 120, 52, 48, 48, 49,
               47, 99, 114, 99, 47, 118, 49, 0>>

AfterDomain == Crc16(65535, CrcDomain)

(* Revision number and first word take no part. *)
FactoryCrc16(identity, words) ==
  LET transcript == LittleEndian(FlattenSeq(
        <<identity.vendor, identity.product, identity.serial>> \o Tail(words)
        \o <<<<ManifestUpperV1>>>>))
  IN  Crc16(AfterDomain, transcript)

-----------------------------------------------------------------------------
(* e4m11: a sign, four bits of exponent (bias 7), eleven of fraction.       *)

Negative(raw) == raw >= 32768
Exponent(raw) == (raw \div 2048) % 16
Fraction(raw) == raw % 2048

(* No reserved exponent and no negative zero *)
Canonical(raw) ==
  Exponent(raw) # 15 /\ ~(Exponent(raw) = 0 /\ Fraction(raw) = 0 /\ Negative(raw))

\* Steps a unit of the fraction weighs; each exponent doubles it.
Weight == <<1, 2, 4, 8, 16, 32, 64, 128, 256, 512, 1024, 2048, 4096, 8192, 16384>>

DecodeE4m11(raw) ==
  LET magnitude == IF Exponent(raw) = 0 THEN Fraction(raw)
                   ELSE Weight[Exponent(raw)] * (2048 + Fraction(raw))
  IN  IF Negative(raw) THEN -magnitude ELSE magnitude

-----------------------------------------------------------------------------
(* The verdict on seven words.                                              *)

Missing(reason, words) == [reason |-> reason, words |-> words]

(* Mutant: a CRC there is will do. *)
CrcPresent(identity, words) == Lo(words[1]) # 0

CrcAgrees(identity, words) == Lo(words[1]) = FactoryCrc16(identity, words)

NoFriction(words) == \A i \in 5 .. 7 : words[i] = Zero32

(* Halves in the order the code decodes them, with their subindex *)
TorqueHalves(words)   == <<<<4, Lo(words[4])>>, <<4, Hi(words[4])>>>>
FrictionHalves(words) ==
  <<<<5, Lo(words[5])>>, <<5, Hi(words[5])>>, <<6, Lo(words[6])>>,
    <<6, Hi(words[6])>>, <<7, Lo(words[7])>>>>

HalfChecks(halves) ==
  [i \in 1 .. Len(halves) |->
     [ok |-> Canonical(halves[i][2]), reason |-> <<"NonCanonicalE4m11", halves[i][1]>>]]

Check(ok, reason) == <<[ok |-> ok, reason |-> <<reason>>]>>

TorqueChecks(words) ==
  HalfChecks(TorqueHalves(words))
  \o Check(DecodeE4m11(Lo(words[4])) > 0 /\ DecodeE4m11(Hi(words[4])) >= 0,
           "TorqueGroupInvalid")

(* The temperature alone may be zero or negative. *)
FrictionChecks(words) ==
  LET halves == FrictionHalves(words)
  IN  HalfChecks(halves)
      \o Check(\A i \in 1 .. 5 : DecodeE4m11(halves[i][2]) > 0, "FrictionGroupInvalid")
      \o HalfChecks(<<<<7, Hi(words[7])>>>>)

Checks(identity, words) ==
  Check(Hi(words[1]) = ManifestUpperV1, "NotV1")
  \o Check(CrcAgrees(identity, words), "CrcMismatch")
  \o Check(~(words[2] = Zero32 /\ words[3] = Zero32), "ZeroToken")
  \o TorqueChecks(words)
  \o (IF NoFriction(words) THEN <<>> ELSE FrictionChecks(words))

(* decode_factory_words: the first check that fails is the reason, and the  *)
(* words are kept either way.                                               *)
DecodeFactoryWords(identity, words) ==
  LET checks == Checks(identity, words)
      failed == {i \in DOMAIN checks : ~checks[i].ok}
  IN  IF failed # {} THEN Missing(checks[Min(failed)].reason, words)
      ELSE [reason   |-> <<"Valid">>, words |-> words,
            factor   |-> DecodeE4m11(Lo(words[4])),
            rmse     |-> DecodeE4m11(Hi(words[4])),
            friction |-> IF NoFriction(words) THEN Nothing
                         ELSE [i \in 1 .. 6 |-> IF i = 6 THEN DecodeE4m11(Hi(words[7]))
                                 ELSE DecodeE4m11(FrictionHalves(words)[i][2])]]

(* Only the reason is <<"Valid">> when a calibration was found. *)
IsValid(v) == v.reason = <<"Valid">>

-----------------------------------------------------------------------------
VARIABLES
  area,      \* what each device holds in 0x4001
  powered, who,  \* the device under the node id
  booted,    \* no session has begun since it booted: its Boot-Up is under
             \* way, or lost
  epoch, known,  \* MotorEntryInner: session_epoch, identity (of which device)
  pc, token, \* the call: where it is, and its IdentityToken [epoch, device]
  words,     \* the words it has read
  verdict    \* its verdict, or Nothing

deviceVars == <<area, powered, who, booted>>
entryVars  == <<epoch, known>>
callVars   == <<pc, token, words, verdict>>
calibrationVars == <<deviceVars, entryVars, callVars>>

NoToken == [epoch |-> 0, device |-> Nothing]

(* One area for every device *)
Contents ==
  LET held == Areas
  IN  {f \in [Devices -> UNION {held[d] : d \in Devices}] : \A d \in Devices : f[d] \in held[d]}

CalibrationInit ==
  /\ area \in Contents
  /\ powered = TRUE /\ who \in Devices /\ booted = FALSE
  /\ epoch = 0 /\ known = Nothing
  /\ pc = "idle" /\ token = NoToken /\ words = <<>> /\ verdict = Nothing

(* The device restarts, or another one takes its place; of several Boot-Ups *)
(* in flight the last one counts.                                           *)
PowerOff ==
  /\ powered /\ epoch + (IF booted THEN 1 ELSE 0) < MaxEpoch
  /\ powered' = FALSE
  /\ UNCHANGED <<area, who, booted, entryVars, callVars>>

PowerOn ==
  /\ ~powered
  /\ powered' = TRUE /\ who' \in Devices /\ booted' = TRUE
  /\ UNCHANGED <<area, entryVars, callVars>>

(* invalidate_session, on the Boot-Up or after silence.  Where the Boot-Up  *)
(* is lost, ReceiveBootUp is the silence that is noticed at last, if ever.  *)
InvalidateSession == epoch' = epoch + 1 /\ known' = Nothing

ReceiveBootUp ==
  /\ booted
  /\ InvalidateSession
  /\ booted' = FALSE
  /\ UNCHANGED <<area, powered, who, callVars>>

GoOffline ==
  /\ epoch + (IF booted THEN 1 ELSE 0) < MaxEpoch
  /\ InvalidateSession
  /\ UNCHANGED <<deviceVars, callVars>>

(* identify_and_cache, which shares the node's operation slot with the call.*)
(* An identity read before a Boot-Up that is still in flight may be the     *)
(* previous device's.                                                       *)
Identify ==
  /\ pc = "idle" /\ powered
  /\ known' \in IF booted THEN Devices ELSE {who}
  /\ UNCHANGED <<epoch, deviceVars, callVars>>

-----------------------------------------------------------------------------
(* read_factory_calibration and read_from_device                            *)

TokenMatches == token.epoch = epoch /\ token.device = known

StartRead ==
  /\ pc \in {"idle", "returned"} /\ known # Nothing
  /\ pc' = "highest" /\ token' = [epoch |-> epoch, device |-> known]
  /\ words' = <<>> /\ verdict' = Nothing
  /\ UNCHANGED <<deviceVars, entryVars>>

Answer(subindex) == area[who][subindex]

(* An answer that ends the read: there is nothing to keep. *)
EndWith(reason) ==
  /\ verdict' = Missing(reason, Nothing) /\ pc' = "check" /\ UNCHANGED words

ReadHighest ==
  /\ pc = "highest" /\ powered
  /\ LET answer == Answer(0)
     IN  \/ ~answer.found /\ EndWith(<<"ObjectAbsent">>)
         \/ answer.found /\ answer.len # 1 /\ EndWith(<<"WrongLength", 0>>)
         \/ /\ answer.found /\ answer.len = 1 /\ Lo(answer.data) < WordCount
            /\ EndWith(<<"TooFewSubIndices">>)
         \/ /\ answer.found /\ answer.len = 1 /\ Lo(answer.data) >= WordCount
            /\ pc' = "words" /\ UNCHANGED <<words, verdict>>
  /\ UNCHANGED <<token, deviceVars, entryVars>>

ReadWord ==
  /\ pc = "words" /\ powered
  /\ LET subindex == Len(words) + 1
         answer   == Answer(subindex)
     IN  \/ ~answer.found /\ EndWith(<<"SubIndexAbsent", subindex>>)
         \/ answer.found /\ answer.len # 4 /\ EndWith(<<"WrongLength", subindex>>)
         \/ /\ answer.found /\ answer.len = 4
            /\ words' = Append(words, answer.data)
            /\ IF subindex < WordCount THEN UNCHANGED <<pc, verdict>>
               ELSE /\ pc' = "check"
                    /\ verdict' = DecodeFactoryWords(IdentityOf[token.device], words')
  /\ UNCHANGED <<token, deviceVars, entryVars>>

EndCall == pc' = "idle" /\ token' = NoToken /\ words' = <<>> /\ verdict' = Nothing

(* Mutant: the verdict goes out unchecked. *)
CheckNothing == pc = "check"

(* ensure_identity_token after the last upload *)
SessionStillHolds == pc = "check" /\ TokenMatches

ReturnVerdict ==
  /\ SessionStillHolds
  /\ pc' = "returned"
  /\ UNCHANGED <<token, words, verdict, deviceVars, entryVars>>

(* A failed upload, another session at the end, or a dropped future *)
CallFails ==
  /\ pc \in {"highest", "words", "check"}
  /\ EndCall
  /\ UNCHANGED <<deviceVars, entryVars>>

(* The caller has the result. *)
CallDone ==
  /\ pc = "returned"
  /\ EndCall
  /\ UNCHANGED <<deviceVars, entryVars>>

CalibrationNext ==
  \/ PowerOff \/ PowerOn \/ ReceiveBootUp \/ GoOffline \/ Identify
  \/ StartRead \/ ReadHighest \/ ReadWord \/ ReturnVerdict \/ CallFails \/ CallDone

CalibrationSpec == CalibrationInit /\ [][CalibrationNext]_calibrationVars

-----------------------------------------------------------------------------
(* Properties.                                                              *)

RestartPending == ~powered \/ booted

(* An area that answers all eight uploads, and its words.                   *)
HighestOk(a) == a[0].found /\ a[0].len = 1 /\ Lo(a[0].data) >= WordCount
WordOk(a, i) == a[i].found /\ a[i].len = 4
Complete(a)  == HighestOk(a) /\ \A i \in 1 .. WordCount : WordOk(a, i)
WordsOf(a)   == [i \in 1 .. WordCount |-> a[i].data]

(* What a complete calibration of device d is, said without the code: seven *)
(* words of four bytes under a v1 manifest with d's CRC, a token, a torque  *)
(* group, and a friction group that is wholly absent or wholly there.       *)
Positive(raw) == Canonical(raw) /\ ~Negative(raw) /\ raw # 0

Calibrated(a, d) ==
  LET w == WordsOf(a)
  IN  /\ Complete(a)
      /\ w[1] = <<FactoryCrc16(IdentityOf[d], w), ManifestUpperV1>>
      /\ \E i \in {2, 3} : w[i] # Zero32
      /\ Positive(Lo(w[4])) /\ (Positive(Hi(w[4])) \/ Hi(w[4]) = 0)
      /\ \/ \A i \in 5 .. 7 : w[i] = Zero32
         \/ /\ Positive(Lo(w[5])) /\ Positive(Hi(w[5])) /\ Positive(Lo(w[6]))
            /\ Positive(Hi(w[6])) /\ Positive(Lo(w[7])) /\ Canonical(Hi(w[7]))

(* A verdict that is returned is the truth about the device of the session, *)
(* complete or nothing, and so are the words kept for a backup -- however   *)
(* sessions changed while the eight objects were read, unless the device    *)
(* is gone and its successor has not been noticed.                          *)
VerdictIsTrue ==
  [][pc = "check" /\ pc' = "returned" /\ ~RestartPending =>
       /\ known = who
       /\ IsValid(verdict) <=> Calibrated(area[who], who)
       /\ verdict.words # Nothing =>
            verdict.words = WordsOf(area[who])]_calibrationVars

(* A calibration that is accepted was issued for the motor it is reported   *)
(* for: no mixture of two motors' words and no other motor's area passes,   *)
(* even while a swap is still unnoticed.                                    *)
ValidIsIssued ==
  verdict # Nothing /\ IsValid(verdict) =>
    \E a \in Areas[token.device] : verdict.words = WordsOf(a) /\ Calibrated(a, token.device)

(* What ValidIsIssued asks of the data: of all the words that a read may    *)
(* put together from the areas of several motors, one from each upload,     *)
(* those that carry d's CRC are the words of one of d's own areas.  Sixteen *)
(* bits cannot promise it; it is to be checked of the data at hand.         *)
Mixtures ==
  {[i \in 1 .. WordCount |-> mix[1][mix[2][i]][i].data] :
     mix \in {cf \in Contents \X [1 .. WordCount -> Devices] :
                \A i \in 1 .. WordCount : WordOk(cf[1][cf[2][i]], i)}}

CodesTellApart ==
  \A w \in Mixtures, d \in Devices :
    Lo(w[1]) = FactoryCrc16(IdentityOf[d], w) =>
      \E a \in Areas[d] : Complete(a) /\ w = WordsOf(a)
=============================================================================
