---------------------------- MODULE AmotaSystem ----------------------------
(***************************************************************************)
(* The Android service closed with the two parties it talks to:            *)
(*                                                                         *)
(*   the application, which writes every frame of the OTA_CMD_HANDLE event *)
(*   to the BLE link, calls otaCmdGattReply when the write completes and   *)
(*   otaCmdResponse when the device notifies, and which the user makes     *)
(*   start and stop upgrades;                                              *)
(*                                                                         *)
(*   the device, which assembles the frames into packets and answers each  *)
(*   one: a header with the bytes it already has of that image, data with  *)
(*   success, verify with the result of checking the whole image.          *)
(*                                                                         *)
(* Neither is in this repository: the application is modelled from the     *)
(* channel the service offers it, the device from what the service expects *)
(* of it.  Both keep their order, and may lose what they carry.            *)
(***************************************************************************)
EXTENDS AmotaService, Sequences, FiniteSets

CONSTANTS
  Stored,      (* what the device may hold of the image when the app starts *)
  MaxLosses,   (* bound: writes, replies and answers that get lost          *)
  MayStop      (* whether the user stops upgrades                           *)

ASSUME SystemAssumption ==
  Stored \subseteq Nat /\ MaxLosses \in Nat /\ MayStop \in BOOLEAN

VARIABLES
  wire,        \* frames posted and not yet written
  replies,     \* completed writes whose otaCmdGattReply is to come
  answers,     \* notifications of the device that are to come
  losses,
  rx,          \* the device: bytes it has of the packet under way
  image,       \* the file whose header it accepted last
  stored,      \* the bytes it has of that file's image
  intact,      \* they are the image's first bytes, in order
  verified     \* the file whose whole image it has checked

device == <<rx, image, stored, intact, verified>>
links == <<wire, replies, answers, losses>>
sysVars == <<vars, links, device>>

SysInit ==
  /\ Init
  /\ wire = <<>> /\ replies = 0 /\ answers = <<>> /\ losses = 0
  /\ rx = 0
  /\ image \in DOMAIN Firmware
  /\ stored \in {n \in Stored : n <= Declared(image)}
  /\ intact = TRUE
  /\ verified = NoPath

-----------------------------------------------------------------------------
(* The device.                                                             *)

Answer(c, ok, off) ==
  answers' = Append(answers, [cmd |-> c, ok |-> ok, off |-> off])

\* A header for the image it has part of is answered with what it has, or with
\* zero; any other starts an image afresh.
HandleHeader(f) ==
  /\ image' = f.file
  /\ \/ f.file = image /\ UNCHANGED <<stored, intact>>
     \/ stored' = 0 /\ intact' = TRUE
  /\ verified' = NoPath
  /\ Answer(HEADER, TRUE, stored')

\* The device appends what it gets; it cannot tell where the data belongs.
HandleData(f) ==
  /\ stored' = stored + DataLength(f.plen)
  /\ intact' = (intact /\ f.file = image /\ f.at = stored)
  /\ Answer(DATA, TRUE, 0)
  /\ UNCHANGED <<image, verified>>

\* After a failed check the device has nothing to resume from.
HandleVerify(f) ==
  LET valid == intact /\ stored = Declared(image) IN
  /\ verified' = IF valid THEN image ELSE NoPath
  /\ stored' = IF valid THEN stored ELSE 0
  /\ intact' = TRUE
  /\ Answer(VERIFY, valid, 0)
  /\ UNCHANGED image

HandlePacket(f) ==
  \/ f.cmd = HEADER /\ HandleHeader(f)
  \/ f.cmd = DATA /\ HandleData(f)
  \/ f.cmd = VERIFY /\ HandleVerify(f)

\* A frame that does not continue the packet under way spoils it.
Receive(f) ==
  \/ /\ f.idx # rx
     /\ rx' = 0
     /\ Answer(f.cmd, FALSE, 0)
     /\ UNCHANGED <<image, stored, intact, verified>>
  \/ /\ f.idx = rx
     /\ ~IsLastFrame(f.plen, f.idx)
     /\ rx' = rx + FrameLen(f.plen, f.idx)
     /\ UNCHANGED <<answers, image, stored, intact, verified>>
  \/ /\ f.idx = rx
     /\ IsLastFrame(f.plen, f.idx)
     /\ rx' = 0
     /\ HandlePacket(f)

-----------------------------------------------------------------------------
(* The application and the links.                                          *)

\* The write of the oldest frame completes.
AppWrites ==
  /\ wire # <<>>
  /\ Receive(Head(wire))
  /\ wire' = Tail(wire)
  /\ replies' = replies + 1
  /\ UNCHANGED <<vars, losses>>

\* otaCmdGattReply, which does nothing when the service has no semaphore.
AppConfirms ==
  /\ replies > 0
  /\ \/ CmdGattReplayArrived
     \/ main = "idle" /\ cmdGattReplySemaphore = NoJob /\ UNCHANGED vars
  /\ replies' = replies - 1
  /\ UNCHANGED <<wire, answers, losses, device>>

AppNotifies ==
  /\ answers # <<>>
  /\ LET a == Head(answers) IN OtaCmdResponse(a.cmd, a.ok, a.off)
  /\ answers' = Tail(answers)
  /\ UNCHANGED <<wire, replies, losses, device>>

\* A frame, a completion or a notification is lost.
Lose ==
  /\ losses < MaxLosses
  /\ losses' = losses + 1
  /\ \/ wire # <<>> /\ wire' = Tail(wire) /\ UNCHANGED <<replies, answers>>
     \/ replies > 0 /\ replies' = replies - 1 /\ UNCHANGED <<wire, answers>>
     \/ /\ answers # <<>>
        /\ answers' = Tail(answers)
        /\ UNCHANGED <<wire, replies>>
  /\ UNCHANGED <<vars, device>>

User ==
  /\ (\E p \in Path : AmOtaStart(p)) \/ (MayStop /\ AmOtaStop)
  /\ UNCHANGED <<links, device>>

\* The frame that job j posts, with the place of its data in the image.
Frame(j) ==
  [cmd |-> cmd[j], plen |-> plen[j], idx |-> idx[j], file |-> file[j],
   at |-> pos[j] - DataLength(plen[j]) - FwHeaderSize]

JobPosts(j) ==
  /\ PostFrame(j)
  /\ wire' = Append(wire, Frame(j))
  /\ UNCHANGED <<replies, answers, losses, device>>

JobRuns(j) ==
  JobPosts(j) \/ (JobContinues(j) /\ UNCHANGED <<links, device>>)

MainRuns == MainContinues /\ UNCHANGED <<links, device>>

SysNext ==
  \/ AppWrites \/ AppConfirms \/ AppNotifies \/ Lose \/ User
  \/ MainRuns \/ \E j \in Job : JobRuns(j)

SysSpec == SysInit /\ [][SysNext]_sysVars

\* Besides the threads of the service, the links deliver what they do not lose.
FairSysSpec ==
  /\ SysSpec
  /\ WF_sysVars(MainRuns)
  /\ \A j \in Job : WF_sysVars(JobRuns(j))
  /\ WF_sysVars(AppWrites) /\ WF_sysVars(AppConfirms) /\ WF_sysVars(AppNotifies)

-----------------------------------------------------------------------------
(* Properties.                                                             *)

SysTypeOK ==
  /\ TypeOK
  /\ \A i \in 1..Len(wire) :
       /\ wire[i].cmd \in {HEADER, DATA, VERIFY}
       /\ wire[i].idx < wire[i].plen
       /\ wire[i].file \in DOMAIN Firmware
       /\ wire[i].at \in Int
  /\ replies \in Nat
  /\ \A i \in 1..Len(answers) :
       answers[i] \in [cmd : {HEADER, DATA, VERIFY}, ok : BOOLEAN, off : Nat]
  /\ losses \in 0..MaxLosses
  /\ rx \in Nat
  /\ image \in DOMAIN Firmware
  /\ stored \in Nat
  /\ intact \in BOOLEAN
  /\ verified \in DOMAIN Firmware \union {NoPath}

\* Every packet so far, of every upgrade, had its answer waited for and got it.
AllAnswered == expired = {} /\ unwaited = {}

\* No stop has begun since job j was launched.
NotStopped(j) == otaJob = j /\ ~Stopping

\* UPGRADE_SUCCESS is sound as long as every wait was answered: the device has
\* checked the whole image of the file, the one the application asked for.
SuccessIsVerified ==
  \A j \in Job : pc[j] = "succeed" /\ AllAnswered => verified = file[j]

\* No read of job j has thrown: sendFwData would count the packet before again.
ReadsWell(j) == ~ReadMayFail /\ fileInputStream = j

\* The device's image and the stream stay aligned: each time round the loop of
\* sendFwData the device holds exactly the bytes of the image that were read,
\* across both reads of fileOffset and the skip in the file; offset counts them.
InStep ==
  \A j \in Job :
    pc[j] = "loop" /\ AllAnswered /\ NotStopped(j) =>
      /\ pos[j] = FwHeaderSize + stored
      /\ intact
      /\ ReadsWell(j) => offset[j] = stored

\* The answers that let the service go on, still to be delivered.
Granting == {i \in DOMAIN answers : answers[i].ok}

\* Answers and packets pair up: while no answer was missed, at most one packet
\* has an answer that is not used yet, and when the next packet is begun no
\* frame or answer is left, not even one that refuses a frame.
OneAnswerAtMost ==
  \A j \in Job :
    InUpgrade(j) /\ AllAnswered /\ NotStopped(j) =>
      /\ respPermits[j] + Cardinality(Granting) <= 1
      /\ pc[j] \in {"setOffset", "initData", "loop", "readData", "succeed"} =>
           respPermits[j] + Len(answers) + Len(wire) = 0

\* The progress posted stays within 100 per cent, and a full image ends at 100:
\* each round of sendFwData ends at or before the size the header declares, for
\* a file that is no longer than that.
ProgressInRange ==
  \A j \in Job :
    /\ pc[j] = "loop" /\ AllAnswered /\ NotStopped(j) /\ ReadsWell(j)
    /\ Length(file[j]) <= FwHeaderSize + Declared(file[j])
    => offset[j] <= fw[j]

\* On links that lose nothing, with no stop, an upgrade whose header has gone
\* out to a device that holds no part of it ends in success at both ends, in
\* whatever order replies and answers arrive, timeouts included.
UpgradeCompletes ==
  \A j \in Job :
    LET begun == pc[j] = "post" /\ cmd[j] = HEADER /\ stored = 0 IN
    /\ begun ~> pc[j] = "succeed"
    /\ begun ~> verified = file[j]

-----------------------------------------------------------------------------
(* What the comments of AmOtaService.kt say, where the code does otherwise. *)

\* Line 480: "@return Boolean 是否收到有效响应", sendVerifyCmd returns whether it has
\* received a valid response: past it, even when no wait for a response has run
\* out, the device has checked the image.
VerifyAnsweredInTime ==
  \A j \in Job : pc[j] = "succeed" /\ expired = {} => verified = file[j]

=============================================================================
