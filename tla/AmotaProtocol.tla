--------------------------- MODULE AmotaProtocol ---------------------------
(***************************************************************************)
(* The AMOTA wire protocol as the Android service builds it: the sizes of  *)
(* AmotaConstants.kt, the packet that sendOtaCmd assembles                 *)
(*                                                                         *)
(*      | length : 2 | command : 1 | data : len | CRC32 of the data : 4 |  *)
(*                                                                         *)
(* and the frames that sendPacket cuts it into.  A packet is abstracted to *)
(* its command and its length; a frame to the index of its first byte in   *)
(* the packet.                                                             *)
(***************************************************************************)
EXTENDS Integers

CONSTANTS
  FwHeaderSize,     (* bytes of the image header read from the file (48)    *)
  FwPacketSize,     (* AMOTA_FW_PACKET_SIZE: bytes read per data packet     *)
  MaxPayload,       (* MAXIMUM_APP_PAYLOAD: bytes per BLE write             *)
  HeaderSizeInPkt,  (* AMOTA_HEADER_SIZE_IN_PKT: length and command fields  *)
  CrcSizeInPkt      (* AMOTA_CRC_SIZE_IN_PKT                                *)

ASSUME SizesAssumption ==
  /\ FwHeaderSize \in Nat \ {0}
  /\ FwPacketSize \in Nat \ {0}
  /\ MaxPayload \in Nat \ {0}
  /\ HeaderSizeInPkt \in Nat \ {0}
  /\ CrcSizeInPkt \in Nat

HEADER == "AMOTA_CMD_FW_HEADER"
DATA   == "AMOTA_CMD_FW_DATA"
VERIFY == "AMOTA_CMD_FW_VERIFY"
RESET  == "AMOTA_CMD_FW_RESET"
MAX    == "AMOTA_CMD_MAX"
UNKNOWN == "AMOTA_CMD_UNKNOWN"

AmotaCmd == {HEADER, DATA, VERIFY, RESET, MAX, UNKNOWN}

amOtaCmd2Byte(c) ==
  CASE c = HEADER -> 1
    [] c = DATA   -> 2
    [] c = VERIFY -> 3
    [] c = RESET  -> 4
    [] c = MAX    -> 5
    [] OTHER      -> 0

byte2OtaCmd(b) ==
  CASE b = 1 -> HEADER
    [] b = 2 -> DATA
    [] b = 3 -> VERIFY
    [] b = 4 -> RESET
    [] b = 5 -> MAX
    [] OTHER -> UNKNOWN

\* The UPGRADE_STATUS values the Android service posts.
AmotaStatus ==
  {"UPGRADE_SUCCESS", "CRC_ERROR", "INVALID_HEADER_INFO",
   "INVALID_PACKAGE_LENGTH", "UNKNOWN_ERROR", "FILE_READ_ERROR",
   "CMD_SEND_ERROR", "UPGRADING", "UPGRADE_STOP"}

-----------------------------------------------------------------------------

\* The length of the packet that carries len bytes of data.
PacketLength(len) == HeaderSizeInPkt + len + CrcSizeInPkt

\* Mutants: the checksum is not counted; the low byte is not cut off.
LengthFieldOfData(len) == <<len % 256, (len \div 256) % 256>>
LengthFieldWide(len) ==
  <<len + CrcSizeInPkt, ((len + CrcSizeInPkt) \div 256) % 256>>

\* The length field of the packet: what follows the command, low byte first.
LengthField(len) ==
  <<(len + CrcSizeInPkt) % 256, ((len + CrcSizeInPkt) \div 256) % 256>>

\* The data bytes of a packet of length plen.
DataLength(plen) == plen - HeaderSizeInPkt - CrcSizeInPkt

\* Mutants: every frame is a full one; the last frame loses a byte.
FrameLenUncapped(plen, idx) == MaxPayload
FrameLenCutsLast(plen, idx) ==
  IF plen - idx > MaxPayload THEN MaxPayload ELSE plen - idx - 1

\* The length of the frame that starts at byte idx of a packet.
FrameLen(plen, idx) ==
  IF plen - idx > MaxPayload THEN MaxPayload ELSE plen - idx

\* Mutant: every frame is waited for.
NeedsResponseAlways(plen, idx) == FrameLen(plen, idx) <= MaxPayload

\* The frames of a packet that the sender waits for a device response after:
\* those shorter than a full BLE write.
NeedsResponse(plen, idx) == FrameLen(plen, idx) < MaxPayload

\* Nothing of the packet is left after this frame.
IsLastFrame(plen, idx) == idx + FrameLen(plen, idx) = plen

\* The status posted when a command could not be sent.
SendErrorStatus(c) ==
  CASE c = HEADER -> "INVALID_HEADER_INFO"
    [] c = DATA   -> "INVALID_PACKAGE_LENGTH"
    [] c = VERIFY -> "CMD_SEND_ERROR"
    [] OTHER      -> "UNKNOWN_ERROR"

=============================================================================
