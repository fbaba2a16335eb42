------------------------- MODULE MCFactoryCalibration -------------------------
(* Instances of FactoryCalibration for TLC. *)
EXTENDS FactoryCalibration, TLC

CONSTANTS a, b

Vendor == <<25976, 104>>    \* 0x0068_6578
Token  == <<<<52719, 35243>>, <<17767, 291>>>>

(* Two motors of one model. *)
MCIdentity ==
  [d \in {a, b} |-> [vendor |-> Vendor, product |-> <<48248, 27748>>, revision |-> <<0, 2>>,
                     serial |-> IF d = a THEN <<46234, 273>> ELSE <<46235, 273>>]]

Torque == <<14336, 7373>>                                          \* 1.0 and 0.1
WithFriction == <<<<12288, 12288>>, <<10240, 10240>>, <<14336, 23680>>>> \* 0.5, 0.25, 1.0, 25.0
Frost == <<<<12288, 12288>>, <<10240, 10240>>, <<14336, 47104>>>>    \* -1.0 degrees
NoGroup == <<Zero32, Zero32, Zero32>>

Payload(t, torque, friction) == t \o <<torque>> \o friction

(* Words with the CRC that binds them to d *)
Sealed(d, upper, payload) ==
  <<<<FactoryCrc16(MCIdentity[d], <<Zero32>> \o payload), upper>>>> \o payload

Holds(w) == [i \in 0 .. 7 |-> IF i = 0 THEN Bytes(1, <<7, 0>>) ELSE Bytes(4, w[i])]
Full(d)  == Sealed(d, 262, Payload(Token, Torque, WithFriction))
Plain(d) == Sealed(d, 262, Payload(Token, Torque, NoGroup))

MCAreas ==
  b :> {Holds(Full(b)), Holds(Full(a))} @@
  a :> {Holds(Full(a)), Holds(Plain(a)), Holds(Full(b)),
     Holds(Sealed(a, 262, Payload(Token, Torque, Frost))),
     [i \in 0 .. 7 |-> Absent],
     [Holds(Full(a)) EXCEPT ![0] = Bytes(1, <<6, 0>>)],
     [Holds(Full(a)) EXCEPT ![0] = Bytes(2, <<7, 0>>)],
     [Holds(Full(a)) EXCEPT ![6] = Absent],
     [Holds(Full(a)) EXCEPT ![7] = Bytes(2, <<14336, 0>>)],
     Holds(Sealed(a, 518, Payload(Token, Torque, WithFriction))),
     Holds([Full(a) EXCEPT ![5] = <<12288, 12289>>]),
     Holds(Sealed(a, 262, Payload(<<Zero32, Zero32>>, Torque, WithFriction))),
     Holds(Sealed(a, 262, Payload(Token, <<0, 7373>>, WithFriction))),
     Holds(Sealed(a, 262, Payload(Token, <<14336, 47104>>, WithFriction))),
     Holds(Sealed(a, 262, Payload(Token, <<14336, 30720>>, WithFriction))),
     Holds(Sealed(a, 262, Payload(Token, Torque, <<Zero32, <<10240, 10240>>, <<14336, 0>>>>))),
     Holds(Sealed(a, 262, Payload(Token, Torque, <<Zero32, Zero32, <<0, 23680>>>>))),
     Holds(Sealed(a, 262, Payload(Token, Torque,
             <<<<12288, 12288>>, <<10240, 10240>>, <<14336, 32768>>>>)))}

(* The frozen values of the tests of calibration.rs *)
ASSUME FrozenCrc == Lo(Full(a)[1]) = 11813 /\ Lo(Plain(a)[1]) = 25010
ASSUME FrozenE4m11 ==
  /\ DecodeE4m11(0) = 0 /\ DecodeE4m11(1) = 1
  /\ DecodeE4m11(12288) = 2^16 /\ DecodeE4m11(14336) = 2^17
  /\ DecodeE4m11(16384) = 2^18 /\ DecodeE4m11(10240) = 2^15
  /\ DecodeE4m11(23680) = 25 * 2^17 /\ DecodeE4m11(47104) = -(2^17)
  /\ DecodeE4m11(30719) = 4095 * 2^13
  /\ \A raw \in {30720, 63488, 32768} : ~Canonical(raw)

(* No mixture of these motors' words passes for a motor that does not hold it. *)
ASSUME CodesOfTheseMotors == CodesTellApart

(* Each value has one encoding, and a larger code is a larger value. *)
ASSUME OneEncoding ==
  \A raw \in 0 .. 30718 :
    /\ DecodeE4m11(raw) < DecodeE4m11(raw + 1)
    /\ DecodeE4m11(raw + 32768) = -DecodeE4m11(raw)
=============================================================================
