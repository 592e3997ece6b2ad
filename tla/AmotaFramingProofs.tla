------------------------- MODULE AmotaFramingProofs -------------------------
(***************************************************************************)
(* Proofs about AmotaFraming, for packets of every length that the two     *)
(* bytes of the length field can carry and for BLE writes of every size.   *)
(***************************************************************************)
EXTENDS AmotaFraming, TLAPS

-----------------------------------------------------------------------------
(* The length field.                                                       *)

\* Two bytes, low byte first, carry any number below 2^16.
LEMMA TwoBytes ==
  ASSUME NEW n \in Nat, n < 65536
  PROVE  (n % 256) + 256 * ((n \div 256) % 256) = n
  OBVIOUS

\* plen is the length of a packet that is sent.
LengthOK == \E len \in 0..MaxDataLength : plen = PacketLength(len)

\* The receiver reads the packet's length from the packet's first two bytes.
LEMMA AnnouncedIsLength ==
  ASSUME LengthOK
  PROVE  Announced = plen
<1>1. PICK len \in 0..MaxDataLength : plen = PacketLength(len)
  BY DEF LengthOK
<1>2. DataLength(plen) = len
  BY <1>1, SizesAssumption, FramingAssumption DEF DataLength, PacketLength
<1>3. len + CrcSizeInPkt \in Nat /\ len + CrcSizeInPkt < 65536
  BY SizesAssumption, FramingAssumption
<1>4. Announced = HeaderSizeInPkt + ((len + CrcSizeInPkt) % 256)
                    + 256 * (((len + CrcSizeInPkt) \div 256) % 256)
  BY <1>2 DEF Announced, LengthField
<1> DEFINE n == len + CrcSizeInPkt
<1>5. (n % 256) + 256 * ((n \div 256) % 256) = n
  BY <1>3, TwoBytes
<1>6. /\ n % 256 \in Int /\ 256 * ((n \div 256) % 256) \in Int
      /\ HeaderSizeInPkt \in Int /\ plen = HeaderSizeInPkt + n
  BY <1>1, <1>3, SizesAssumption DEF PacketLength
<1> HIDE DEF n
<1> QED
  BY <1>4, <1>5, <1>6 DEF n

-----------------------------------------------------------------------------
(* The inductive invariant.                                                *)

\* As long as something is left, only full frames have gone out, none of which
\* was waited for.
MidPacket == idx < plen => awaited = {} /\ packets = 0

\* With the last frame the packet is complete, and no other frame has been waited
\* for.
AtEnd == idx = plen => packets = 1 /\ awaited \subseteq {plen}

FramingInv == TypeOK /\ LengthOK /\ got = idx /\ MidPacket /\ AtEnd

LEMMA FramingInit == Init => FramingInv
<1> SUFFICES ASSUME Init PROVE FramingInv
  OBVIOUS
<1>1. PICK len \in 0..MaxDataLength : plen = PacketLength(len)
  BY DEF Init
<1>2. plen \in Nat /\ plen > 0
  BY <1>1, SizesAssumption, FramingAssumption DEF PacketLength
<1> QED
  BY <1>1, <1>2
  DEF Init, FramingInv, TypeOK, LengthOK, MidPacket, AtEnd

LEMMA FramingStep == FramingInv /\ [Next]_vars => FramingInv'
<1> SUFFICES ASSUME FramingInv, [Next]_vars PROVE FramingInv'
  OBVIOUS
<1>1. CASE UNCHANGED vars
  BY <1>1
  DEF vars, FramingInv, TypeOK, LengthOK, PacketLength, MidPacket, AtEnd
<1>2. CASE SendFrame
  <2> DEFINE size == FrameLen(plen, idx)
  <2>1. /\ plen \in Nat /\ idx \in Nat /\ idx < plen /\ plen' = plen
        /\ got = idx /\ awaited = {} /\ packets = 0
        /\ MaxPayload \in Nat \ {0}
    BY <1>2, SizesAssumption DEF SendFrame, FramingInv, TypeOK, MidPacket
  <2>2. idx' = idx + size /\ got' = idx'
    BY <1>2, <2>1 DEF SendFrame
  <2>3. Announced = plen
    BY AnnouncedIsLength DEF FramingInv
  <2>4. /\ packets' = IF idx' >= plen THEN 1 ELSE 0
        /\ awaited' = IF NeedsResponse(plen, idx) THEN {idx'} ELSE {}
    BY <1>2, <2>1, <2>2, <2>3 DEF SendFrame
  <2>5. CASE plen - idx > MaxPayload
    <3>1. size = MaxPayload /\ ~NeedsResponse(plen, idx)
      BY <2>1, <2>5 DEF FrameLen, NeedsResponse
    <3>2. idx' \in Nat /\ idx' < plen
      BY <2>1, <2>2, <2>5, <3>1
    <3> QED
      BY <2>1, <2>2, <2>4, <3>1, <3>2
      DEF FramingInv, TypeOK, LengthOK, PacketLength, MidPacket, AtEnd
  <2>6. CASE plen - idx <= MaxPayload
    <3>1. size = plen - idx /\ idx' = plen
      BY <2>1, <2>2, <2>6 DEF FrameLen
    <3> QED
      BY <2>1, <2>2, <2>4, <3>1
      DEF FramingInv, TypeOK, LengthOK, PacketLength, MidPacket, AtEnd
  <2> QED
    BY <2>1, <2>5, <2>6
<1> QED
  BY <1>1, <1>2 DEF Next

-----------------------------------------------------------------------------
(* The theorems.                                                           *)

\* The inductive invariant holds in every state of every behaviour.
THEOREM FramingInvariant == Spec => []FramingInv
  BY FramingInit, FramingStep, PTL DEF Spec

\* sendPacket stays inside its packet.
THEOREM FramingTypeCorrect == Spec => []TypeOK
  BY FramingInvariant, PTL DEF FramingInv

\* sendOneFrame waits for the device at the end of a packet only, whatever the
\* lengths of the packet and of a BLE write are.
THEOREM NoWaitBeforeTheEnd == Spec => []NoWaitMidPacket
<1>1. FramingInv => NoWaitMidPacket
  BY DEF FramingInv, TypeOK, MidPacket, AtEnd, NoWaitMidPacket
<1> QED
  BY <1>1, FramingInvariant, PTL

\* The length field tells the receiver the packet's end: it finds it complete
\* with its last frame, never before and never twice.
THEOREM CompleteOnce == Spec => []CompleteWithLastFrame
<1>1. FramingInv => CompleteWithLastFrame
  BY DEF FramingInv, TypeOK, MidPacket, AtEnd, CompleteWithLastFrame
<1> QED
  BY <1>1, FramingInvariant, PTL

=============================================================================
