---------------------------- MODULE AmotaService ----------------------------
(***************************************************************************)
(* AmOtaService.kt, the Android side of the plugin.                        *)
(*                                                                         *)
(* Two kinds of thread share the fields of the one AmOtaService instance,  *)
(* without a lock: the main thread, which runs the calls that arrive over  *)
(* the method channel (amOtaStart, amOtaStop, cmdGattReplayArrived,        *)
(* otaCmdResponse), one at a time, and the IO threads that run one         *)
(* coroutine (a job) per accepted start.  Every step below is one access   *)
(* to the shared fields, or several that no other thread can tell apart.   *)
(* A response too short for what otaCmdResponse reads of it throws before  *)
(* anything is assigned (142, 150, 158): no step, like a lost response.    *)
(* The n-th accepted start creates job n and the semaphores numbered n.    *)
(*                                                                         *)
(* The application and the device are not here: the calls are open, and    *)
(* the frames a job posts leave the module.  AmotaSystem closes it.        *)
(***************************************************************************)
EXTENDS AmotaProtocol

CONSTANTS
  Path,        (* the file paths an application may pass                   *)
  NoPath,      (* the empty path amOtaStop leaves in filePath              *)
  Firmware,    (* the files that exist: path -> [length, declared]         *)
  Offsets,     (* the resume offsets a header response may carry           *)
  MaxStarts,   (* bound: accepted starts                                   *)
  MaxPermits,  (* bound: permits the calls pile up on one semaphore        *)
  ReadMayFail  (* whether reading or skipping in the file may throw        *)

ASSUME ServiceAssumption ==
  /\ NoPath \notin Path
  /\ DOMAIN Firmware \subseteq Path
  /\ \A p \in DOMAIN Firmware :
       /\ Firmware[p].length \in Nat
       /\ Firmware[p].declared \in Int
  /\ Offsets \subseteq Nat
  /\ MaxStarts \in Nat
  /\ MaxPermits \in Nat \ {0}
  /\ ReadMayFail \in BOOLEAN

Job == 1..MaxStarts
NoJob == 0           \* Kotlin's null, for a job, a semaphore or a stream

VARIABLES
  \* The main thread, and what only it writes.
  main,                   \* the statement the current call has reached
  starts,                 \* accepted starts so far
  scopeActive,            \* coroutineScope has not been cancelled
  cancelled,              \* the jobs whose Job is cancelled
  otaJob,
  filePath,
  fileOffset,
  cmdGattReplySemaphore,
  cmdResponseSemaphore,
  \* Written by both sides.
  isOtaUpgrading,
  gattPermits,            \* permits of each cmdGattReplySemaphore
  respPermits,            \* permits of each cmdResponseSemaphore
  \* Written by the jobs.
  fileInputStream,        \* the job that opened the stream in the field
  fileSize,
  \* The local state of each job.
  pc,
  file,                   \* the file its stream reads
  pos,                    \* bytes of the file read or skipped
  cmd, plen, idx,         \* the packet it is sending, and sendPacket's idx
  sem,                    \* the semaphore it blocks on
  fw, offset, ret,        \* fwDataSize, offset and ret of sendFwData
  exn,                    \* the status a caught exception will post
  \* What an observer has seen.
  status,                 \* the last UPGRADE_STATUS posted
  heard,                  \* the starts a terminal status followed
  strays,                 \* frames posted since a stop cancelled the job
  unwaited,               \* jobs that did not wait for a packet's answer
  expired,                \* jobs whose wait may have ended without an answer
  late                    \* jobs waiting since amOtaStop had released their
                          \* semaphore, and not yet dropped it

mainVars == <<main, starts, scopeActive, cancelled, otaJob, filePath,
              fileOffset, cmdGattReplySemaphore, cmdResponseSemaphore>>
permits == <<gattPermits, respPermits>>
stream == <<fileInputStream, fileSize, file, pos>>
packet == <<cmd, plen, idx>>
loopVars == <<fw, offset, ret>>
observed == <<status, heard, strays, unwaited, expired, late>>
jobVars == <<stream, pc, packet, sem, loopVars, exn>>

vars == <<mainVars, isOtaUpgrading, permits, jobVars, observed>>

-----------------------------------------------------------------------------

Length(p) == IF p \in DOMAIN Firmware THEN Firmware[p].length ELSE 0
Declared(p) == IF p \in DOMAIN Firmware THEN Firmware[p].declared ELSE 0

Goto(j, l) == pc' = [pc EXCEPT ![j] = l]

\* semaphore?.release()
Release(p, s) == IF s = NoJob THEN p ELSE [p EXCEPT ![s] = @ + 1]

\* mainEventSend(UPGRADE_STATUS, s).  Main looper messages are delivered in the
\* order they are posted, so the order of the posts is what the app observes.
PostStatus(s) == status' = s

\* The same, for the status that ends job j's upgrade.
PostOutcome(j, s) ==
  /\ PostStatus(s)
  /\ heard' = heard \union {j}

\* The statements of amOtaStop up to the one that cancels the jobs.
StopTypes ==
  {"stopOffset", "stopFreeGatt", "stopDropGatt", "stopFreeResp",
   "stopDropResp", "stopFlag", "stopCancel"}

\* A stop has begun that has not cancelled the jobs yet.
Stopping == main \in StopTypes

\* What is left to read of the stream that job s opened.
Remaining(s) == Length(file[s]) - pos[s]

Init ==
  /\ main = "idle"
  /\ starts = 0
  /\ scopeActive = TRUE
  /\ cancelled = {}
  /\ otaJob = NoJob
  /\ filePath = NoPath
  /\ fileOffset = 0
  /\ cmdGattReplySemaphore = NoJob
  /\ cmdResponseSemaphore = NoJob
  /\ isOtaUpgrading = FALSE
  /\ gattPermits = [j \in Job |-> 0]
  /\ respPermits = [j \in Job |-> 0]
  /\ fileInputStream = NoJob
  /\ fileSize = 0
  /\ pc = [j \in Job |-> "none"]
  /\ file = [j \in Job |-> NoPath]
  /\ pos = [j \in Job |-> 0]
  /\ cmd = [j \in Job |-> UNKNOWN]
  /\ plen = [j \in Job |-> 0]
  /\ idx = [j \in Job |-> 0]
  /\ sem = [j \in Job |-> NoJob]
  /\ fw = [j \in Job |-> 0]
  /\ offset = [j \in Job |-> 0]
  /\ ret = [j \in Job |-> 0]
  /\ exn = [j \in Job |-> "UNKNOWN_ERROR"]
  /\ status = "none"
  /\ heard = {}
  /\ strays = 0
  /\ unwaited = {}
  /\ expired = {}
  /\ late = {}

-----------------------------------------------------------------------------
(* The main thread.                                                        *)

\* amOtaStart up to coroutineScope.launch.  A start while isOtaUpgrading is set
\* is refused and changes nothing.  launch on a cancelled scope yields a job
\* that is already cancelled and never runs.
AmOtaStart(p) ==
  LET n == starts + 1 IN
  /\ main = "idle"
  /\ ~isOtaUpgrading
  /\ starts < MaxStarts
  /\ starts' = n
  /\ filePath' = p
  /\ fileOffset' = 0
  /\ cmdGattReplySemaphore' = n
  /\ cmdResponseSemaphore' = n
  /\ otaJob' = n
  /\ IF scopeActive
     THEN Goto(n, "ready") /\ UNCHANGED cancelled
     ELSE Goto(n, "done") /\ cancelled' = cancelled \union {n}
  /\ strays' = 0
  /\ main' = "startFlag"
  /\ UNCHANGED <<scopeActive, isOtaUpgrading, permits, stream, packet, sem,
                 loopVars, exn, status, heard, unwaited, expired, late>>

\* Mutant: the assignment of the flag is forgotten.
StartForgetsFlag ==
  /\ main = "startFlag"
  /\ main' = "startPost"
  /\ UNCHANGED <<starts, scopeActive, cancelled, otaJob, filePath, fileOffset,
                 cmdGattReplySemaphore, cmdResponseSemaphore, isOtaUpgrading,
                 permits, jobVars, observed>>

\* isOtaUpgrading = true: the job is already running.
StartSetsFlag ==
  /\ main = "startFlag"
  /\ isOtaUpgrading' = TRUE
  /\ main' = "startPost"
  /\ UNCHANGED <<starts, scopeActive, cancelled, otaJob, filePath, fileOffset,
                 cmdGattReplySemaphore, cmdResponseSemaphore, permits, jobVars,
                 observed>>

StartPosts ==
  /\ main = "startPost"
  /\ PostStatus("UPGRADING")
  /\ main' = "idle"
  /\ UNCHANGED <<starts, scopeActive, cancelled, otaJob, filePath, fileOffset,
                 cmdGattReplySemaphore, cmdResponseSemaphore, isOtaUpgrading,
                 permits, jobVars, heard, strays, unwaited, expired, late>>

\* amOtaStop runs alongside the job, which reads each field once per frame: every
\* statement is a step.  First filePath = "".
BeginStop ==
  /\ filePath' = NoPath
  /\ main' = "stopOffset"
  /\ UNCHANGED <<fileOffset, cmdGattReplySemaphore, cmdResponseSemaphore,
                 permits>>

AmOtaStop ==
  /\ main = "idle"
  /\ BeginStop
  /\ UNCHANGED <<starts, scopeActive, cancelled, otaJob, isOtaUpgrading,
                 jobVars, observed>>

StopClearsOffset ==
  /\ main = "stopOffset"
  /\ fileOffset' = 0
  /\ main' = "stopFreeGatt"
  /\ UNCHANGED <<starts, scopeActive, cancelled, otaJob, filePath,
                 cmdGattReplySemaphore, cmdResponseSemaphore, isOtaUpgrading,
                 permits, jobVars, observed>>

\* Mutant: the semaphore is dropped without a release.
StopForgetsRelease ==
  /\ main = "stopFreeGatt"
  /\ main' = "stopDropGatt"
  /\ UNCHANGED <<starts, scopeActive, cancelled, otaJob, filePath, fileOffset,
                 cmdGattReplySemaphore, cmdResponseSemaphore, isOtaUpgrading,
                 permits, jobVars, observed>>

\* A job that waits is woken.  It may be back, waiting on the same semaphore,
\* before the next statement.
StopReleasesGatt ==
  /\ main = "stopFreeGatt"
  /\ gattPermits' = Release(gattPermits, cmdGattReplySemaphore)
  /\ main' = "stopDropGatt"
  /\ UNCHANGED <<starts, scopeActive, cancelled, otaJob, filePath, fileOffset,
                 cmdGattReplySemaphore, cmdResponseSemaphore, isOtaUpgrading,
                 respPermits, jobVars, observed>>

StopDropsGatt ==
  /\ main = "stopDropGatt"
  /\ cmdGattReplySemaphore' = NoJob
  /\ main' = "stopFreeResp"
  /\ UNCHANGED <<starts, scopeActive, cancelled, otaJob, filePath, fileOffset,
                 cmdResponseSemaphore, isOtaUpgrading, permits, jobVars,
                 observed>>

StopReleasesResponse ==
  /\ main = "stopFreeResp"
  /\ respPermits' = Release(respPermits, cmdResponseSemaphore)
  /\ main' = "stopDropResp"
  /\ UNCHANGED <<starts, scopeActive, cancelled, otaJob, filePath, fileOffset,
                 cmdGattReplySemaphore, cmdResponseSemaphore, isOtaUpgrading,
                 gattPermits, jobVars, observed>>

StopDropsResponse ==
  /\ main = "stopDropResp"
  /\ cmdResponseSemaphore' = NoJob
  /\ main' = "stopFlag"
  /\ UNCHANGED <<starts, scopeActive, cancelled, otaJob, filePath, fileOffset,
                 cmdGattReplySemaphore, isOtaUpgrading, permits, jobVars,
                 observed>>

\* Mutant: the flag is left set.
StopForgetsFlag ==
  /\ main = "stopFlag"
  /\ main' = "stopCancel"
  /\ UNCHANGED <<starts, scopeActive, cancelled, otaJob, filePath, fileOffset,
                 cmdGattReplySemaphore, cmdResponseSemaphore, isOtaUpgrading,
                 permits, jobVars, observed>>

StopClearsFlag ==
  /\ main = "stopFlag"
  /\ isOtaUpgrading' = FALSE
  /\ main' = "stopCancel"
  /\ UNCHANGED <<starts, scopeActive, cancelled, otaJob, filePath, fileOffset,
                 cmdGattReplySemaphore, cmdResponseSemaphore, permits, jobVars,
                 observed>>

\* Mutant: only the job is cancelled, and the scope lives on.
StopCancelsJobOnly ==
  /\ main = "stopCancel"
  /\ cancelled' = cancelled \union ({otaJob} \ {NoJob})
  /\ otaJob' = NoJob
  /\ main' = "stopPost"
  /\ UNCHANGED <<starts, scopeActive, filePath, fileOffset,
                 cmdGattReplySemaphore, cmdResponseSemaphore, isOtaUpgrading,
                 permits, jobVars, observed>>

\* coroutineScope.cancel() cancels every job of the scope, for good: the scope
\* is a val and no later launch can run in it.
StopCancels ==
  /\ main = "stopCancel"
  /\ scopeActive' = FALSE
  /\ cancelled' = cancelled \union {j \in Job : pc[j] \notin {"none", "done"}}
  /\ otaJob' = NoJob
  /\ main' = "stopPost"
  /\ UNCHANGED <<starts, filePath, fileOffset, cmdGattReplySemaphore,
                 cmdResponseSemaphore, isOtaUpgrading, permits, jobVars,
                 observed>>

StopPosts ==
  /\ main = "stopPost"
  /\ PostStatus("UPGRADE_STOP")
  /\ heard' = heard \union 1..starts
  /\ main' = "idle"
  /\ UNCHANGED <<starts, scopeActive, cancelled, otaJob, filePath, fileOffset,
                 cmdGattReplySemaphore, cmdResponseSemaphore, isOtaUpgrading,
                 permits, jobVars, strays, unwaited, expired, late>>

\* Mutant: the wrong semaphore is released.
GattReplyReleasesResponse ==
  /\ main = "idle"
  /\ cmdResponseSemaphore # NoJob
  /\ respPermits[cmdResponseSemaphore] < MaxPermits
  /\ respPermits' = Release(respPermits, cmdResponseSemaphore)
  /\ UNCHANGED <<mainVars, isOtaUpgrading, gattPermits, jobVars, observed>>

\* cmdGattReplayArrived: the app reports that its BLE write has completed.
CmdGattReplayArrived ==
  /\ main = "idle"
  /\ cmdGattReplySemaphore # NoJob
  /\ gattPermits[cmdGattReplySemaphore] < MaxPermits
  /\ gattPermits' = Release(gattPermits, cmdGattReplySemaphore)
  /\ UNCHANGED <<mainVars, isOtaUpgrading, respPermits, jobVars, observed>>

\* otaCmdResponse for command c, an error byte that is zero iff ok, and the
\* offset off that a header response carries.
ResponseUnknown(c) ==
  /\ main = "idle"
  /\ c = UNKNOWN
  /\ BeginStop
  /\ UNCHANGED <<starts, scopeActive, cancelled, otaJob, isOtaUpgrading,
                 jobVars, observed>>

\* Mutant: the error byte is not looked at.
ErrorTakenAsOk(c) ==
  /\ main = "idle"
  /\ c # UNKNOWN
  /\ respPermits' = Release(respPermits, cmdResponseSemaphore)
  /\ UNCHANGED <<mainVars, isOtaUpgrading, gattPermits, jobVars, observed>>

ResponseError(c) ==
  /\ main = "idle"
  /\ c # UNKNOWN
  /\ PostStatus("CRC_ERROR")
  /\ BeginStop
  /\ UNCHANGED <<starts, scopeActive, cancelled, otaJob, isOtaUpgrading,
                 jobVars, heard, strays, unwaited, expired, late>>

\* MAX falls into the else branch and releases nothing.
ResponseOk(c, off) ==
  /\ main = "idle"
  /\ c \in {HEADER, DATA, VERIFY, RESET}
  /\ cmdResponseSemaphore # NoJob =>
       respPermits[cmdResponseSemaphore] < MaxPermits
  /\ fileOffset' = IF c = HEADER THEN off ELSE fileOffset
  /\ respPermits' = Release(respPermits, cmdResponseSemaphore)
  /\ UNCHANGED <<main, starts, scopeActive, cancelled, otaJob, filePath,
                 cmdGattReplySemaphore, cmdResponseSemaphore, isOtaUpgrading,
                 gattPermits, jobVars, observed>>

OtaCmdResponse(c, ok, off) ==
  \/ ResponseUnknown(c)
  \/ ~ok /\ ResponseError(c)
  \/ ok /\ ResponseOk(c, off)

MainContinues ==
  \/ StartSetsFlag \/ StartPosts
  \/ StopClearsOffset \/ StopReleasesGatt \/ StopDropsGatt
  \/ StopReleasesResponse \/ StopDropsResponse
  \/ StopClearsFlag \/ StopCancels \/ StopPosts

-----------------------------------------------------------------------------
(* The jobs: startOtaUpdate and what it calls, on an IO thread.            *)

\* The exception propagates to startOtaUpdate, which will post s.
Throw(j, s) ==
  /\ exn' = [exn EXCEPT ![j] = s]
  /\ Goto(j, "catch")

\* sendOtaCmd, up to its call of sendPacket.
BeginPacket(j, c, len) ==
  /\ cmd' = [cmd EXCEPT ![j] = c]
  /\ plen' = [plen EXCEPT ![j] = PacketLength(len)]
  /\ idx' = [idx EXCEPT ![j] = 0]
  /\ Goto(j, "check")

\* A coroutine cancelled before it is dispatched never runs its body.
NeverRuns(j) ==
  /\ pc[j] = "ready"
  /\ j \in cancelled
  /\ Goto(j, "done")
  /\ UNCHANGED <<mainVars, isOtaUpgrading, permits, stream, packet, sem,
                 loopVars, exn, observed>>

\* Once it is dispatched, a cancellation is noticed in delay only.
Dispatch(j) ==
  /\ pc[j] = "ready"
  /\ j \notin cancelled
  /\ Goto(j, "open")
  /\ UNCHANGED <<mainVars, isOtaUpgrading, permits, stream, packet, sem,
                 loopVars, exn, observed>>

\* FileInputStream(filePath) of a path that names no file throws: also of the
\* empty path that a stop has left.
OpenFails(j) ==
  /\ pc[j] = "open"
  /\ filePath \notin DOMAIN Firmware
  /\ Throw(j, "FILE_READ_ERROR")
  /\ UNCHANGED <<mainVars, isOtaUpgrading, permits, stream, packet, sem,
                 loopVars, observed>>

\* An empty file is reported, and the job returns with isOtaUpgrading set.
OpenFile(j) ==
  /\ pc[j] = "open"
  /\ filePath \in DOMAIN Firmware
  /\ file' = [file EXCEPT ![j] = filePath]
  /\ pos' = [pos EXCEPT ![j] = 0]
  /\ fileInputStream' = j
  /\ fileSize' = Length(filePath)
  /\ IF Length(filePath) = 0
     THEN PostOutcome(j, "FILE_READ_ERROR") /\ Goto(j, "finally")
     ELSE Goto(j, "readHeader") /\ UNCHANGED <<status, heard>>
  /\ UNCHANGED <<mainVars, isOtaUpgrading, permits, packet, sem, loopVars, exn,
                 strays, unwaited, expired, late>>

\* sendFwHeader reads from the stream in the shared field, which another job's
\* finally block may have nulled: fileInputStream!! then throws.
ReadHeader(j) ==
  LET s == fileInputStream IN
  /\ pc[j] = "readHeader"
  /\ s # NoJob
  /\ IF Remaining(s) < FwHeaderSize
     THEN /\ pos' = [pos EXCEPT ![s] = Length(file[s])]
          /\ Goto(j, "failed")
          /\ UNCHANGED <<fileSize, packet>>
     ELSE /\ pos' = [pos EXCEPT ![s] = @ + FwHeaderSize]
          /\ fileSize' = Declared(file[s])
          /\ BeginPacket(j, HEADER, FwHeaderSize)
  /\ UNCHANGED <<mainVars, isOtaUpgrading, permits, fileInputStream, file, sem,
                 loopVars, exn, observed>>

HeaderThrows(j) ==
  /\ pc[j] = "readHeader"
  /\ \/ fileInputStream = NoJob /\ Throw(j, "UNKNOWN_ERROR")
     \/ ReadMayFail /\ fileInputStream # NoJob /\ Throw(j, "FILE_READ_ERROR")
  /\ UNCHANGED <<mainVars, isOtaUpgrading, permits, stream, packet, sem,
                 loopVars, observed>>

-----------------------------------------------------------------------------
(* sendPacket and sendOneFrame.                                            *)

\* sendOneFrame's guard.
CheckFlag(j) ==
  /\ pc[j] = "check"
  /\ Goto(j, IF isOtaUpgrading THEN "post" ELSE "cmdFailed")
  /\ UNCHANGED <<mainVars, isOtaUpgrading, permits, stream, packet, sem,
                 loopVars, exn, observed>>

\* sendOtaCmd posts an error status whether or not the upgrade was stopped: its
\* `if (!isOtaUpgrading) { false }` returns nothing.
SendFails(j) ==
  /\ pc[j] = "cmdFailed"
  /\ PostOutcome(j, SendErrorStatus(cmd[j]))
  /\ IF cmd[j] = DATA
     THEN ret' = [ret EXCEPT ![j] = -1] /\ Goto(j, "dataRet")
     ELSE Goto(j, "failed") /\ UNCHANGED ret
  /\ UNCHANGED <<mainVars, isOtaUpgrading, permits, stream, packet, sem, fw,
                 offset, exn, strays, unwaited, expired, late>>

\* mainEventSend(OTA_CMD_HANDLE, frame): the frame leaves for the application.
PostFrame(j) ==
  /\ pc[j] = "post"
  /\ Goto(j, "gattEnter")
  /\ strays' = IF otaJob = NoJob THEN strays + 1 ELSE strays
  /\ UNCHANGED <<mainVars, isOtaUpgrading, permits, stream, packet, sem,
                 loopVars, exn, status, heard, unwaited, expired, late>>

\* Past waitCmdGattReply, whatever it returned: only a frame shorter than
\* MaxPayload waits for the device as well.
AfterGatt(j) ==
  /\ Goto(j, IF NeedsResponse(plen[j], idx[j]) THEN "respEnter" ELSE "delay")
  /\ unwaited' = IF /\ IsLastFrame(plen[j], idx[j])
                    /\ ~NeedsResponse(plen[j], idx[j])
                 THEN unwaited \union {j}
                 ELSE unwaited

\* waitCmdGattReply reads the field once and blocks on what it read; a null
\* semaphore does not block.
GattEnter(j) ==
  /\ pc[j] = "gattEnter"
  /\ IF cmdGattReplySemaphore = NoJob
     THEN AfterGatt(j) /\ UNCHANGED <<sem, late>>
     ELSE /\ sem' = [sem EXCEPT ![j] = cmdGattReplySemaphore]
          /\ late' = IF main = "stopDropGatt" THEN late \union {j} ELSE late
          /\ Goto(j, "gattWait")
          /\ UNCHANGED unwaited
  /\ UNCHANGED <<mainVars, isOtaUpgrading, permits, stream, packet, loopVars,
                 exn, status, heard, strays, expired>>

GattAcquire(j) ==
  /\ pc[j] = "gattWait"
  /\ gattPermits[sem[j]] > 0
  /\ gattPermits' = [gattPermits EXCEPT ![sem[j]] = @ - 1]
  /\ sem' = [sem EXCEPT ![j] = NoJob]
  /\ late' = late \ {j}
  /\ AfterGatt(j)
  /\ UNCHANGED <<mainVars, isOtaUpgrading, respPermits, stream, packet,
                 loopVars, exn, status, heard, strays, expired>>

GattTimeout(j) ==
  /\ pc[j] = "gattWait"
  /\ gattPermits[sem[j]] = 0
  /\ sem' = [sem EXCEPT ![j] = NoJob]
  /\ late' = late \ {j}
  /\ AfterGatt(j)
  /\ UNCHANGED <<mainVars, isOtaUpgrading, permits, stream, packet, loopVars,
                 exn, status, heard, strays, expired>>

\* waitCmdResponse: the same, on the other semaphore.
RespEnter(j) ==
  /\ pc[j] = "respEnter"
  /\ IF cmdResponseSemaphore = NoJob
     THEN /\ Goto(j, "delay")
          /\ expired' = expired \union {j}
          /\ UNCHANGED <<sem, late>>
     ELSE /\ sem' = [sem EXCEPT ![j] = cmdResponseSemaphore]
          /\ late' = IF main = "stopDropResp" THEN late \union {j} ELSE late
          /\ Goto(j, "respWait")
          /\ UNCHANGED expired
  /\ UNCHANGED <<mainVars, isOtaUpgrading, permits, stream, packet, loopVars,
                 exn, status, heard, strays, unwaited>>

\* While amOtaStop runs, and on a semaphore it has dropped, the permit may be its
\* release: such a wait does not count as answered.
RespAcquire(j) ==
  /\ pc[j] = "respWait"
  /\ respPermits[sem[j]] > 0
  /\ respPermits' = [respPermits EXCEPT ![sem[j]] = @ - 1]
  /\ expired' = IF sem[j] = cmdResponseSemaphore /\ ~Stopping
                THEN expired ELSE expired \union {j}
  /\ sem' = [sem EXCEPT ![j] = NoJob]
  /\ late' = late \ {j}
  /\ Goto(j, "delay")
  /\ UNCHANGED <<mainVars, isOtaUpgrading, gattPermits, stream, packet,
                 loopVars, exn, status, heard, strays, unwaited>>

\* The wait's result is not used: a timeout counts as an answer.
RespTimeout(j) ==
  /\ pc[j] = "respWait"
  /\ respPermits[sem[j]] = 0
  /\ sem' = [sem EXCEPT ![j] = NoJob]
  /\ late' = late \ {j}
  /\ expired' = expired \union {j}
  /\ Goto(j, "delay")
  /\ UNCHANGED <<mainVars, isOtaUpgrading, permits, stream, packet, loopVars,
                 exn, status, heard, strays, unwaited>>

\* delay() is the only point where a cancelled job notices: it throws.  Inside
\* sendFwData the exception is swallowed and ret keeps its old value.
DelayCancelled(j) ==
  /\ pc[j] = "delay"
  /\ j \in cancelled
  /\ IF cmd[j] = DATA
     THEN Goto(j, "dataRet") /\ UNCHANGED exn
     ELSE Throw(j, "UNKNOWN_ERROR")
  /\ UNCHANGED <<mainVars, isOtaUpgrading, permits, stream, packet, sem,
                 loopVars, observed>>

\* Mutant: the loop of sendPacket runs while idx <= len.
NextFrameAtEnd(j) ==
  /\ pc[j] = "delay"
  /\ j \notin cancelled
  /\ idx' = [idx EXCEPT ![j] = @ + FrameLen(plen[j], @)]
  /\ Goto(j, "check")
  /\ UNCHANGED <<mainVars, isOtaUpgrading, permits, stream, cmd, plen, sem,
                 loopVars, exn, observed>>

NextFrame(j) ==
  /\ pc[j] = "delay"
  /\ j \notin cancelled
  /\ ~IsLastFrame(plen[j], idx[j])
  /\ idx' = [idx EXCEPT ![j] = @ + FrameLen(plen[j], @)]
  /\ Goto(j, "check")
  /\ UNCHANGED <<mainVars, isOtaUpgrading, permits, stream, cmd, plen, sem,
                 loopVars, exn, observed>>

\* Mutant: a data packet returns its whole length instead of that of its data.
PacketDoneCountsAll(j) ==
  /\ pc[j] = "delay"
  /\ j \notin cancelled
  /\ IsLastFrame(plen[j], idx[j])
  /\ ret' = [ret EXCEPT ![j] = plen[j]]
  /\ Goto(j, CASE cmd[j] = HEADER -> "setOffset"
               [] cmd[j] = DATA -> "dataRet"
               [] OTHER -> "succeed")
  /\ UNCHANGED <<mainVars, isOtaUpgrading, permits, stream, packet, sem, fw,
                 offset, exn, observed>>

\* The packet is out and sendOtaCmd returns true.
PacketDone(j) ==
  /\ pc[j] = "delay"
  /\ j \notin cancelled
  /\ IsLastFrame(plen[j], idx[j])
  /\ \/ cmd[j] = HEADER /\ Goto(j, "setOffset") /\ UNCHANGED ret
     \/ /\ cmd[j] = DATA
        /\ ret' = [ret EXCEPT ![j] = DataLength(plen[j])]
        /\ Goto(j, "dataRet")
     \/ cmd[j] = VERIFY /\ Goto(j, "succeed") /\ UNCHANGED ret
  /\ UNCHANGED <<mainVars, isOtaUpgrading, permits, stream, packet, sem, fw,
                 offset, exn, observed>>

-----------------------------------------------------------------------------
(* setFileOffset and sendFwData.                                           *)

\* Mutant: the stream is not moved to the resume point.
SkipForgotten(j) ==
  /\ pc[j] = "setOffset"
  /\ Goto(j, "initData")
  /\ UNCHANGED <<mainVars, isOtaUpgrading, permits, stream, packet, sem,
                 loopVars, exn, observed>>

\* skip() may go past the end of the file.
SetFileOffset(j) ==
  /\ pc[j] = "setOffset"
  /\ fileOffset > 0 => fileInputStream # NoJob
  /\ pos' = IF fileOffset > 0
            THEN [pos EXCEPT ![fileInputStream] = @ + fileOffset]
            ELSE pos
  /\ Goto(j, "initData")
  /\ UNCHANGED <<mainVars, isOtaUpgrading, permits, fileInputStream, fileSize,
                 file, packet, sem, loopVars, exn, observed>>

SkipThrows(j) ==
  /\ pc[j] = "setOffset"
  /\ fileOffset > 0
  /\ \/ fileInputStream = NoJob /\ Throw(j, "UNKNOWN_ERROR")
     \/ ReadMayFail /\ fileInputStream # NoJob /\ Throw(j, "FILE_READ_ERROR")
  /\ UNCHANGED <<mainVars, isOtaUpgrading, permits, stream, packet, sem,
                 loopVars, observed>>

\* The locals of sendFwData: fileOffset is read a second time.
InitData(j) ==
  /\ pc[j] = "initData"
  /\ fw' = [fw EXCEPT ![j] = fileSize]
  /\ offset' = [offset EXCEPT ![j] = fileOffset]
  /\ ret' = [ret EXCEPT ![j] = -1]
  /\ Goto(j, "loop")
  /\ UNCHANGED <<mainVars, isOtaUpgrading, permits, stream, packet, sem, exn,
                 observed>>

\* The loop condition; past the loop, sendVerifyCmd.
LoopTest(j) ==
  /\ pc[j] = "loop"
  /\ IF offset[j] < fw[j]
     THEN Goto(j, "readData") /\ UNCHANGED packet
     ELSE BeginPacket(j, VERIFY, 0)
  /\ UNCHANGED <<mainVars, isOtaUpgrading, permits, stream, sem, loopVars, exn,
                 observed>>

\* sentFwDataPacket: up to FwPacketSize bytes, or -1 at the end of the file.
ReadData(j) ==
  LET s == fileInputStream IN
  /\ pc[j] = "readData"
  /\ s # NoJob
  /\ IF Remaining(s) <= 0
     THEN /\ ret' = [ret EXCEPT ![j] = -1]
          /\ Goto(j, "dataRet")
          /\ UNCHANGED <<pos, packet>>
     ELSE LET n == IF Remaining(s) < FwPacketSize
                   THEN Remaining(s) ELSE FwPacketSize
          IN /\ pos' = [pos EXCEPT ![s] = @ + n]
             /\ BeginPacket(j, DATA, n)
             /\ UNCHANGED ret
  /\ UNCHANGED <<mainVars, isOtaUpgrading, permits, fileInputStream, fileSize,
                 file, sem, fw, offset, exn, observed>>

\* A throwing read is caught inside the loop: ret keeps the value it had.
ReadThrows(j) ==
  /\ pc[j] = "readData"
  /\ fileInputStream = NoJob \/ ReadMayFail
  /\ Goto(j, "dataRet")
  /\ UNCHANGED <<mainVars, isOtaUpgrading, permits, stream, packet, sem,
                 loopVars, exn, observed>>

\* What the loop makes of ret.
DataFails(j) ==
  /\ pc[j] = "dataRet"
  /\ ret[j] < 0
  /\ IF isOtaUpgrading
     THEN PostOutcome(j, "INVALID_PACKAGE_LENGTH")
     ELSE UNCHANGED <<status, heard>>
  /\ Goto(j, "failed")
  /\ UNCHANGED <<mainVars, isOtaUpgrading, permits, stream, packet, sem,
                 loopVars, exn, strays, unwaited, expired, late>>

\* Mutants: the offset stays behind; a failed read is not told apart; the offset
\* advances by full packets.
DataStays(j) ==
  /\ pc[j] = "dataRet"
  /\ ret[j] >= 0
  /\ Goto(j, "loop")
  /\ UNCHANGED <<mainVars, isOtaUpgrading, permits, stream, packet, sem,
                 loopVars, exn, observed>>

DataAdvancesAlways(j) ==
  /\ pc[j] = "dataRet"
  /\ offset' = [offset EXCEPT ![j] = @ + ret[j]]
  /\ Goto(j, "loop")
  /\ UNCHANGED <<mainVars, isOtaUpgrading, permits, stream, packet, sem, fw,
                 ret, exn, observed>>

DataAdvancesByPacket(j) ==
  /\ pc[j] = "dataRet"
  /\ ret[j] >= 0
  /\ offset' = [offset EXCEPT ![j] = @ + FwPacketSize]
  /\ Goto(j, "loop")
  /\ UNCHANGED <<mainVars, isOtaUpgrading, permits, stream, packet, sem, fw,
                 ret, exn, observed>>

DataAdvances(j) ==
  /\ pc[j] = "dataRet"
  /\ ret[j] >= 0
  /\ offset' = [offset EXCEPT ![j] = @ + ret[j]]
  /\ Goto(j, "loop")
  /\ UNCHANGED <<mainVars, isOtaUpgrading, permits, stream, packet, sem, fw,
                 ret, exn, status, heard, strays, unwaited, expired, late>>

-----------------------------------------------------------------------------
(* The ends of startOtaUpdate.                                             *)

\* isOtaUpgrading stays set after a success.
Succeed(j) ==
  /\ pc[j] = "succeed"
  /\ PostOutcome(j, "UPGRADE_SUCCESS")
  /\ Goto(j, "finally")
  /\ UNCHANGED <<mainVars, isOtaUpgrading, permits, stream, packet, sem,
                 loopVars, exn, strays, unwaited, expired, late>>

\* One of the three calls returned false.
Fail(j) ==
  /\ pc[j] = "failed"
  /\ isOtaUpgrading' = FALSE
  /\ Goto(j, "finally")
  /\ UNCHANGED <<mainVars, permits, stream, packet, sem, loopVars, exn,
                 observed>>

Catch(j) ==
  /\ pc[j] = "catch"
  /\ isOtaUpgrading' = FALSE
  /\ Goto(j, "report")
  /\ UNCHANGED <<mainVars, permits, stream, packet, sem, loopVars, exn,
                 observed>>

\* Mutant: the exception is only logged.
ReportForgotten(j) ==
  /\ pc[j] = "report"
  /\ Goto(j, "finally")
  /\ UNCHANGED <<mainVars, isOtaUpgrading, permits, stream, packet, sem,
                 loopVars, exn, observed>>

Report(j) ==
  /\ pc[j] = "report"
  /\ PostOutcome(j, exn[j])
  /\ Goto(j, "finally")
  /\ UNCHANGED <<mainVars, isOtaUpgrading, permits, stream, packet, sem,
                 loopVars, exn, strays, unwaited, expired, late>>

\* The finally block nulls the shared field, whosever stream it holds.  The
\* job's locals are gone with the coroutine.
Finally(j) ==
  /\ pc[j] = "finally"
  /\ fileInputStream' = NoJob
  /\ pos' = [pos EXCEPT ![j] = 0]
  /\ cmd' = [cmd EXCEPT ![j] = UNKNOWN]
  /\ plen' = [plen EXCEPT ![j] = 0]
  /\ idx' = [idx EXCEPT ![j] = 0]
  /\ fw' = [fw EXCEPT ![j] = 0]
  /\ offset' = [offset EXCEPT ![j] = 0]
  /\ ret' = [ret EXCEPT ![j] = 0]
  /\ exn' = [exn EXCEPT ![j] = "UNKNOWN_ERROR"]
  /\ Goto(j, "done")
  /\ UNCHANGED <<mainVars, isOtaUpgrading, permits, fileSize, file, sem,
                 observed>>

\* Every step of a job but the one that hands a frame out of the module.
JobContinues(j) ==
  \/ NeverRuns(j) \/ Dispatch(j) \/ OpenFails(j) \/ OpenFile(j)
  \/ ReadHeader(j) \/ HeaderThrows(j)
  \/ CheckFlag(j) \/ SendFails(j)
  \/ GattEnter(j) \/ GattAcquire(j) \/ GattTimeout(j)
  \/ RespEnter(j) \/ RespAcquire(j) \/ RespTimeout(j)
  \/ DelayCancelled(j) \/ NextFrame(j) \/ PacketDone(j)
  \/ SetFileOffset(j) \/ SkipThrows(j) \/ InitData(j) \/ LoopTest(j)
  \/ ReadData(j) \/ ReadThrows(j) \/ DataFails(j) \/ DataAdvances(j)
  \/ Succeed(j) \/ Fail(j) \/ Catch(j) \/ Report(j) \/ Finally(j)

JobStep(j) == PostFrame(j) \/ JobContinues(j)

\* Any caller: the application and the device are unconstrained.
Call ==
  \/ \E p \in Path : AmOtaStart(p)
  \/ AmOtaStop
  \/ CmdGattReplayArrived
  \/ \E c \in AmotaCmd, ok \in BOOLEAN, off \in Offsets :
       OtaCmdResponse(c, ok, off)

Next == Call \/ MainContinues \/ \E j \in Job : JobStep(j)

Spec == Init /\ [][Next]_vars

\* The dispatchers run every runnable job, and both tryAcquire calls return
\* within their timeout; the callers promise nothing.
FairSpec ==
  /\ Spec
  /\ WF_vars(MainContinues)
  /\ \A j \in Job : WF_vars(JobStep(j))

-----------------------------------------------------------------------------
(* Properties.                                                             *)

PcTypes ==
  {"none", "ready", "open", "readHeader", "check", "cmdFailed", "post",
   "gattEnter", "gattWait", "respEnter", "respWait", "delay", "setOffset",
   "initData", "loop", "readData", "dataRet", "succeed", "failed", "catch",
   "report", "finally", "done"}

MainTypes ==
  {"idle", "startFlag", "startPost", "stopPost"} \union StopTypes

TypeOK ==
  /\ main \in MainTypes
  /\ starts \in 0..MaxStarts
  /\ scopeActive \in BOOLEAN
  /\ cancelled \subseteq Job
  /\ otaJob \in Job \union {NoJob}
  /\ filePath \in Path \union {NoPath}
  /\ fileOffset \in Nat
  /\ cmdGattReplySemaphore \in Job \union {NoJob}
  /\ cmdResponseSemaphore \in Job \union {NoJob}
  /\ isOtaUpgrading \in BOOLEAN
  /\ gattPermits \in [Job -> Nat]
  /\ respPermits \in [Job -> Nat]
  /\ fileInputStream \in Job \union {NoJob}
  /\ fileSize \in Int
  /\ pc \in [Job -> PcTypes]
  /\ file \in [Job -> Path \union {NoPath}]
  /\ pos \in [Job -> Nat]
  /\ cmd \in [Job -> AmotaCmd]
  /\ plen \in [Job -> Nat]
  /\ idx \in [Job -> Nat]
  /\ sem \in [Job -> Job \union {NoJob}]
  /\ fw \in [Job -> Int]
  /\ offset \in [Job -> Nat]
  /\ ret \in [Job -> Int]
  /\ exn \in [Job -> AmotaStatus]
  /\ status \in AmotaStatus \union {"none"}
  /\ heard \subseteq Job
  /\ strays \in Nat
  /\ unwaited \subseteq Job
  /\ expired \subseteq Job
  /\ late \subseteq Job

\* A job that may still read the file, post frames or write isOtaUpgrading.
InUpgrade(j) == pc[j] \notin {"none", "report", "finally", "done"}

\* Two upgrades never run at once.  Nothing but the flag isOtaUpgrading, which
\* both threads read and write without a lock, keeps two coroutines apart.
AtMostOneJob == \A i, j \in Job : InUpgrade(i) /\ InUpgrade(j) => i = j

\* Where a job reads no stream, before it has opened its file and after a throw.
NoStream == {"ready", "open", "catch"}

\* A job never reads through another upgrade's file stream: the shared field
\* holds its own stream, or null if an older job has just cleared it.
OwnStream ==
  \A j \in Job : InUpgrade(j) /\ pc[j] \notin NoStream =>
    fileInputStream \in {j, NoJob}

\* amOtaStop wakes the job: one that blocks on a semaphore the service has dropped
\* finds a permit, so a stop is not held up by the 3 s timeouts.  The job that
\* comes back to wait after the release and before the drop is the exception: it
\* waits in vain.
StopWakesJob ==
  \A j \in Job \ late :
    /\ /\ pc[j] = "gattWait"
       /\ sem[j] # cmdGattReplySemaphore \/ main = "stopDropGatt"
       => gattPermits[sem[j]] > 0
    /\ /\ pc[j] = "respWait"
       /\ sem[j] # cmdResponseSemaphore \/ main = "stopDropResp"
       => respPermits[sem[j]] > 0

\* From the moment amOtaStop has cancelled the job to the next accepted start,
\* at most one more frame reaches the device.
AtMostOneStray == strays <= 1

\* Every upgrade that ran reports how it ended, unless the file was too short to
\* hold a header, which startOtaUpdate only logs.
EndIsReported ==
  \A j \in Job :
    /\ pc[j] = "done" /\ j \notin cancelled
    /\ ~Stopping /\ main # "stopPost"
    /\ ~(Length(file[j]) \in 1..(FwHeaderSize - 1))
    => j \in heard

\* The conjuncts that make AtMostOneJob, OwnStream, StopWakesJob and
\* AtMostOneStray inductive.

\* Jobs exist only for the accepted starts.
NotStarted == \A j \in Job : j > starts => pc[j] = "none"

\* While a job runs in a live scope, isOtaUpgrading keeps new starts out, except
\* where amOtaStart and amOtaStop are half way.
FlagHeld ==
  scopeActive /\ (\E j \in Job : InUpgrade(j)) =>
    isOtaUpgrading \/ main \in {"startFlag", "stopCancel"}

\* The same for a job that finds a semaphore to wait on, cancelled or not.
SemaphoreHeld ==
  /\ cmdGattReplySemaphore # NoJob \/ cmdResponseSemaphore # NoJob
  /\ \E j \in Job : InUpgrade(j)
  => isOtaUpgrading \/ main = "startFlag"

\* Both semaphores come and go together, but for two statements of amOtaStop,
\* which drops them before it clears the flag.
SemaphoresPaired ==
  /\ IF main \in {"stopFreeResp", "stopDropResp"}
     THEN cmdGattReplySemaphore = NoJob
     ELSE cmdGattReplySemaphore = cmdResponseSemaphore
  /\ main \in {"stopFlag", "stopCancel", "stopPost"} =>
       cmdResponseSemaphore = NoJob

\* A job blocks on a semaphore that exists.
WaitsOnSemaphore ==
  \A j \in Job : pc[j] \in {"gattWait", "respWait"} => sem[j] \in Job

\* Once amOtaStop has reset it, the flag stays FALSE until the next start.
StopHolds ==
  /\ otaJob = NoJob \/ main = "stopCancel" => ~isOtaUpgrading
  /\ main = "startFlag" => otaJob # NoJob

\* The one stray frame is one whose guard had passed before the stop.
StrayPassedGuard ==
  /\ otaJob # NoJob => strays = 0
  /\ strays = 1 => \A j \in Job : pc[j] # "post"

\* The program points of sendOtaCmd, from its call of sendPacket on.
Sending ==
  {"check", "cmdFailed", "post", "gattEnter", "gattWait", "respEnter",
   "respWait", "delay"}

\* The frame a job is sending starts inside its packet: no frame is empty, and
\* none runs past the end.
FrameInPacket == \A j \in Job : pc[j] \in Sending => idx[j] < plen[j]

\* A stop that drops the job also cancels the scope.
StopCloses == otaJob = NoJob => ~scopeActive \/ starts = 0

\* The inductive invariant.
IInv ==
  /\ TypeOK
  /\ NotStarted /\ FlagHeld /\ SemaphoreHeld /\ SemaphoresPaired
  /\ WaitsOnSemaphore /\ StopHolds /\ StrayPassedGuard /\ FrameInPacket
  /\ StopCloses
  /\ AtMostOneJob /\ OwnStream /\ StopWakesJob /\ AtMostOneStray

\* The upgrade under way.
Owner ==
  IF \E j \in Job : InUpgrade(j)
  THEN CHOOSE j \in Job : InUpgrade(j) ELSE NoJob

Promise == INSTANCE AmotaOneUpgrade WITH
  Max <- MaxStarts, granted <- starts, owner <- Owner,
  closed <- ~scopeActive, stray <- strays

\* The service implements the abstract specification of its upgrades, through
\* every interleaving of the two threads: each start begins at most one upgrade,
\* while none is under way, and a stop is final.
KeepsPromise == Promise!Spec

\* Every job comes to an end, whatever the application and the device do or fail
\* to do: all waits time out and sendFwData makes progress or gives up.
JobTerminates == \A j \in Job : pc[j] = "ready" ~> pc[j] = "done"

-----------------------------------------------------------------------------
(* What the comments of AmOtaService.kt say, where the code does otherwise. *)

\* Line 49: "OTA升级状态标志（true表示升级正在进行中）", the flag is TRUE while an
\* upgrade is under way, so not once the last one has reported its success.
FlagMeansUpgrading ==
  isOtaUpgrading /\ status = "UPGRADE_SUCCESS" =>
    main # "idle" \/ \E j \in Job : InUpgrade(j)

\* Line 83: "3. 启动协程执行升级任务", an accepted start launches a coroutine that
\* executes the upgrade.
StartLaunchesJob == [][starts' # starts => pc'[starts'] = "ready"]_vars

=============================================================================
