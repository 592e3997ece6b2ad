------------------------------ MODULE AmOtaApi ------------------------------
(***************************************************************************)
(* amOtaApi, the library that carries out an upgrade for the iOS plugin,   *)
(* and the device it talks to.  The library is a binary: its operations,   *)
(* state and messages are those its headers declare (amOtaApi.h, amOta.h   *)
(* and amOtaCtrl.h), and what they leave open is left open here.           *)
(*                                                                         *)
(* The module has no next-state relation.  Each operation is an action     *)
(* over the variables of the library that a caller conjoins with its own.  *)
(* Everything happens on the main queue: _ENABLE_SUB_THREAD is 0.          *)
(***************************************************************************)
EXTENDS Integers, Sequences, FiniteSets

CONSTANTS
  Peripheral,
  NoPeripheral,   (* nil                                                    *)
  HeaderLength,   (* mdfBinRaw: the bytes of meta data ahead of the image   *)
  Resume,         (* the byte counters a header may be answered with        *)
  Refusals        (* the error statuses the device may answer with          *)

eLoadFileResult == {"OTA_FW_ERROR", "OTA_FW_NO_ERROR"}

eAmotaEnableResult == {"OTA_CONFIRM_FALSE", "OTA_CONFIRM_TRUE"}

eAmotaStatus ==
  {"SUCCESS", "CRC_ERROR", "INVALID_HEADER_INFO", "INVALID_PKT_LENGTH",
   "INSUFFICIENT_BUFFER", "INSUFFICIENT_FLASH", "UNKNOWN_ERROR", "STATUS_MAX"}

eAmotaUserCmd == {"CMD_VERIFY", "CMD_RESET"}

ePauseReq == {"PAUSE_NONE", "PAUSE_REQ", "PAUSE_RESUME", "PAUSE_FILE_RELOADED"}

\* The plugin never asks for a reset, so FW_RESET and STATE_RESET do not occur.
eAmotaCommand ==
  {"UNKNOWN", "FW_HEADER", "FW_DATA", "FW_VERIFY", "FW_RESET", "CMD_MAX"}

eAmotaState ==
  {"IDLE", "HEADER", "DATA_START", "DATA_CARRYING", "DATA_END", "VERIFY",
   "STATE_RESET", "STATE_MAX"}

ASSUME LibraryAssumption ==
  /\ NoPeripheral \notin Peripheral
  /\ HeaderLength \in Nat
  /\ Resume \subseteq Nat /\ 0 \in Resume
  /\ Refusals \subseteq eAmotaStatus \ {"SUCCESS"}

VARIABLES
  \* amOtaCtrl.
  amPeri,             \* the peripheral enabled last, or that of the transfer
  wrChar,             \* the peripheral whose write characteristic is known
  masterState,
  brickLength,
  amFwTotalDataSize,
  masterPkgs,         \* bytes of the image sent
  serverPkgs,         \* bytes the device says it has
  ePause,
  \* What CoreBluetooth will deliver, in order.
  mainQueue,
  \* The device.
  intact,             \* the bytes given to amOtaStart are an image
  received,           \* bytes of it the device has
  verified            \* it has checked the whole image

ctrl == <<amPeri, wrChar, masterState, brickLength, amFwTotalDataSize,
          masterPkgs, serverPkgs, ePause>>
remote == <<intact, received, verified>>
transfer == <<masterState, amFwTotalDataSize, masterPkgs, serverPkgs>>

-----------------------------------------------------------------------------

LibInit ==
  /\ amPeri = NoPeripheral
  /\ wrChar = NoPeripheral
  /\ masterState = "IDLE"
  /\ brickLength = 0
  /\ amFwTotalDataSize = 0
  /\ masterPkgs = 0
  /\ serverPkgs = 0
  /\ ePause = "PAUSE_NONE"
  /\ mainQueue = <<>>
  /\ intact = FALSE
  /\ received = 0
  /\ verified = FALSE

\* A callback of peripheral p.  Only an answer carries a command, a status and
\* the byte counter.
Callback(e, p) ==
  [ev |-> e, peri |-> p, cmd |-> "FW_HEADER", status |-> "SUCCESS",
   counter |-> 0]

\* aMotaEnableConfirmNoti, with its eAmotaEnableResult in place of a status.
ConfirmNoti(p, result) == [Callback("confirm", p) EXCEPT !.status = result]

Response(p, c, s, n) ==
  [ev |-> "value", peri |-> p, cmd |-> c, status |-> s, counter |-> n]

\* Queue q with the device's answer s to command c, unless the packet was written
\* with another peripheral's characteristic and never got there.
Answered(q, p, c, s, n) ==
  IF wrChar = p THEN Append(q, Response(p, c, s, n)) ELSE q

-----------------------------------------------------------------------------
(* What the application calls.                                             *)

\* Registers the peripheral and has its services discovered.
amOtaEnable(p) ==
  /\ amPeri' = p
  /\ wrChar' = NoPeripheral
  /\ mainQueue' = Append(mainQueue, Callback("services", p))
  /\ UNCHANGED <<transfer, brickLength, ePause, remote>>

\* A copy of the queue that the header packet's answer goes into.
SendHeader(q, p, n) ==
  \/ \E c \in {r \in Resume : r <= n} :
       /\ received' = c
       /\ mainQueue' = Answered(q, p, "FW_HEADER", "SUCCESS", c)
  \/ \E s \in Refusals :
       /\ received' = 0
       /\ mainQueue' = Answered(q, p, "FW_HEADER", s, 0)

amOtaSetupBrickSize(size) == brickLength' = size

\* OTA_FW_NO_ERROR: the header goes out.  good tells whether the len bytes at
\* the address passed are the image that was loaded there.
LoadFile(p, len, good, size) ==
  /\ p # NoPeripheral
  /\ len > HeaderLength
  /\ amPeri' = p
  /\ masterState' = "HEADER"
  /\ amOtaSetupBrickSize(size)
  /\ amFwTotalDataSize' = len - HeaderLength
  /\ masterPkgs' = 0
  /\ serverPkgs' = 0
  /\ ePause' = "PAUSE_NONE"
  /\ intact' = good
  /\ verified' = FALSE
  /\ SendHeader(mainQueue, p, len - HeaderLength)
  /\ UNCHANGED wrChar

\* OTA_FW_ERROR: nothing to send, nobody to send it to, or not an image.
LoadFails(p, len, good, size) ==
  /\ p = NoPeripheral \/ len <= HeaderLength \/ ~good
  /\ amOtaSetupBrickSize(size)
  /\ UNCHANGED <<amPeri, wrChar, transfer, ePause, mainQueue, remote>>

\* amOtaStart with its result, after amOtaSetupBrickSize.
amOtaStart(p, len, good, size, result) ==
  \/ result = "OTA_FW_NO_ERROR" /\ LoadFile(p, len, good, size)
  \/ result = "OTA_FW_ERROR" /\ LoadFails(p, len, good, size)

\* What a pause without a peripheral does is not said.
amOtaPause(p, req) ==
  \/ ePause' = req
  \/ p = NoPeripheral /\ UNCHANGED ePause

-----------------------------------------------------------------------------
(* What the device and CoreBluetooth bring back.                           *)

\* The characteristics for write and notify have been found, or not.
WriteChar(p, result) ==
  wrChar' = IF result = "OTA_CONFIRM_TRUE" THEN p ELSE NoPeripheral

\* bleDiscoveredCharToOtaApiNoti for the peripheral that was enabled.
CharsDiscovered(q, p) ==
  \/ /\ amPeri = p
     /\ \E result \in eAmotaEnableResult :
          /\ WriteChar(p, result)
          /\ mainQueue' = Append(q, ConfirmNoti(p, result))
  \/ amPeri # p /\ mainQueue' = q /\ UNCHANGED wrChar

\* The verify command.  The device finds an error in anything but the whole image.
SendVerify(q) ==
  LET ok == intact /\ received = amFwTotalDataSize IN
  /\ masterState' = "VERIFY"
  /\ verified' = ok
  /\ mainQueue' = Answered(q, amPeri, "FW_VERIFY",
                           IF ok THEN "SUCCESS" ELSE "CRC_ERROR", 0)
  /\ UNCHANGED <<masterPkgs, received>>

\* Mutant: the last brick is a full one.
SendBrickUncapped(q, n) ==
  /\ masterPkgs' = n + brickLength
  /\ masterState' = IF masterPkgs' >= amFwTotalDataSize
                    THEN "DATA_END" ELSE "DATA_CARRYING"
  /\ received' = received + brickLength
  /\ mainQueue' = Answered(q, amPeri, "FW_DATA", "SUCCESS", received')
  /\ UNCHANGED verified

\* The brick behind the first n bytes of the image.
SendBrick(q, n) ==
  LET rest == amFwTotalDataSize - n
      size == IF rest < brickLength THEN rest ELSE brickLength
  IN
  /\ masterPkgs' = n + size
  /\ masterState' = IF size = rest THEN "DATA_END" ELSE "DATA_CARRYING"
  /\ \/ /\ received' = received + size
        /\ mainQueue' = Answered(q, amPeri, "FW_DATA", "SUCCESS", received')
     \/ \E s \in Refusals :
          /\ received' = received
          /\ mainQueue' = Answered(q, amPeri, "FW_DATA", s, received)
  /\ UNCHANGED verified

\* Nothing is left to send, and verify is left to who calls amOtaFwVerify.
LeaveVerify(q) ==
  /\ masterState' = "DATA_END"
  /\ mainQueue' = q
  /\ UNCHANGED <<masterPkgs, received, verified>>

\* The next packet when the device has n bytes.  A pause only holds back bricks.
\* When all bricks are out, the library verifies the image itself or leaves it to
\* the user.  amOta.h lists verify as the client's next step (104) and only the
\* reset as the application's; amOtaApi.h has both as commands of the user.
SendNext(q, n) ==
  \/ n >= amFwTotalDataSize /\ (SendVerify(q) \/ LeaveVerify(q))
  \/ /\ n < amFwTotalDataSize
     /\ ePause \in {"PAUSE_NONE", "PAUSE_RESUME"}
     /\ SendBrick(q, n)
  \/ /\ n < amFwTotalDataSize
     /\ ePause \notin {"PAUSE_NONE", "PAUSE_RESUME"}
     /\ mainQueue' = q
     /\ UNCHANGED <<masterState, masterPkgs, received, verified>>

GiveUp(q) ==
  /\ masterState' = "IDLE"
  /\ mainQueue' = q
  /\ UNCHANGED <<masterPkgs, received, verified>>

\* Peripheral p is gone: none of its callbacks comes any more, and the others
\* keep their order.
LinkLost(p) ==
  LET kept == {i \in 1..Len(mainQueue) : mainQueue[i].peri # p}
      n == Cardinality(kept)
  IN \E f \in [1..n -> kept] :
       /\ \A i, k \in 1..n : i < k => f[i] < f[k]
       /\ mainQueue' = [i \in 1..n |-> mainQueue[f[i]]]

\* The answers the library's state awaits.
Awaits(c) ==
  \/ c = "FW_HEADER" /\ masterState = "HEADER"
  \/ c = "FW_DATA" /\ masterState \in {"DATA_CARRYING", "DATA_END"}
  \/ c = "FW_VERIFY" /\ masterState = "VERIFY"

\* bleUpdateValueCharToOtaApiNoti with answer a, q being the rest of the queue.
\* Which method of the delegate it ends in is Delegate(a).
UpdateValue(q, a) ==
  /\ Awaits(a.cmd)
  /\ serverPkgs' = IF a.cmd = "FW_VERIFY" THEN serverPkgs ELSE a.counter
  /\ IF a.status = "SUCCESS" /\ a.cmd # "FW_VERIFY"
     THEN SendNext(q, a.counter)
     ELSE GiveUp(q)
  /\ UNCHANGED <<amPeri, wrChar, brickLength, amFwTotalDataSize, intact>>

\* Answer a was the last before verify, and verify was left to the user.
VerifyLeft(a) == a.counter >= amFwTotalDataSize /\ masterState' = "DATA_END"

Delegate(a) ==
  CASE a.cmd = "FW_HEADER" -> "didAmOtaFwHeaderRsp"
    [] a.cmd = "FW_DATA"   -> "didAmOtaFwDataRsp"
    [] OTHER               -> "didAmOtaUserCmdRsp"

\* The user command that didAmOtaUserCmdRsp is told of.
UserCmd(a) == IF a.cmd = "FW_VERIFY" THEN "CMD_VERIFY" ELSE "CMD_RESET"

\* What the main queue may hold: the callbacks of CoreBluetooth, the library's
\* notification and the answers of the device.
Discovery ==
  [ev : {"services", "chars"}, peri : Peripheral, cmd : {"FW_HEADER"},
   status : {"SUCCESS"}, counter : {0}]

Confirmation ==
  [ev : {"confirm"}, peri : Peripheral, cmd : {"FW_HEADER"},
   status : eAmotaEnableResult, counter : {0}]

Notification ==
  [ev : {"value"}, peri : Peripheral, cmd : eAmotaCommand,
   status : eAmotaStatus, counter : Nat]

Message == Discovery \union Confirmation \union Notification

LibTypeOK ==
  /\ amPeri \in Peripheral \union {NoPeripheral}
  /\ wrChar \in Peripheral \union {NoPeripheral}
  /\ masterState \in eAmotaState
  /\ brickLength \in Nat
  /\ amFwTotalDataSize \in Nat
  /\ masterPkgs \in 0..amFwTotalDataSize
  /\ serverPkgs \in Nat
  /\ ePause \in ePauseReq
  /\ mainQueue \in Seq(Message)
  /\ intact \in BOOLEAN
  /\ received \in Nat
  /\ verified \in BOOLEAN

=============================================================================
