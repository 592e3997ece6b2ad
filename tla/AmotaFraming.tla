---------------------------- MODULE AmotaFraming ----------------------------
(***************************************************************************)
(* sendPacket alone: one packet, its data length chosen at the start, is   *)
(* cut into frames and every frame handed to sendOneFrame in order.  The   *)
(* receiver only sees the frames; it takes a packet for complete when the  *)
(* bytes it has collected reach the length that the first two announce.    *)
(***************************************************************************)
EXTENDS AmotaProtocol

CONSTANT MaxDataLength   \* the longest data field that is sent

\* The length field has two bytes.  sendFwData reads at most 4096 bytes of data.
ASSUME FramingAssumption ==
  MaxDataLength \in Nat /\ MaxDataLength + CrcSizeInPkt < 65536

VARIABLES
  plen,      \* the length of the packet being sent
  idx,       \* sendPacket's idx: bytes handed over so far
  got,       \* bytes the receiver has collected
  packets,   \* packets the receiver has found complete
  awaited    \* the values of got at which the sender waited for a response

vars == <<plen, idx, got, packets, awaited>>

\* The length of the packet as its length field announces it.
Announced ==
  LET field == LengthField(DataLength(plen))
  IN HeaderSizeInPkt + field[1] + 256 * field[2]

Init ==
  /\ plen \in {PacketLength(len) : len \in 0..MaxDataLength}
  /\ idx = 0
  /\ got = 0
  /\ packets = 0
  /\ awaited = {}

SendFrame ==
  /\ idx < plen
  /\ got' = got + FrameLen(plen, idx)
  /\ packets' = IF got' >= Announced THEN packets + 1 ELSE packets
  /\ idx' = idx + FrameLen(plen, idx)
  /\ awaited' = IF NeedsResponse(plen, idx)
                THEN awaited \union {got + FrameLen(plen, idx)}
                ELSE awaited
  /\ UNCHANGED plen

Next == SendFrame

Spec == Init /\ [][Next]_vars /\ WF_vars(SendFrame)

-----------------------------------------------------------------------------

TypeOK ==
  /\ plen \in Nat
  /\ idx \in 0..plen
  /\ got \in Nat
  /\ packets \in Nat
  /\ awaited \subseteq Nat

\* The sender never waits for a device response before the device can have the
\* whole packet: a response awaited mid-packet would never come, and every such
\* frame would cost the 3 s timeout of waitCmdResponse.
NoWaitMidPacket == awaited \subseteq {plen}

\* The receiver finds the packet complete with its last frame and not before, and
\* finds only one.
CompleteWithLastFrame == packets = IF idx = plen THEN 1 ELSE 0

\* The receiver has exactly the packet's bytes when sendPacket returns, and
\* sendPacket does return.
PacketDelivered == <>(idx = plen /\ got = plen)

=============================================================================
