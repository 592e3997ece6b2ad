------------------------- MODULE AmotaSystemProofs --------------------------
(***************************************************************************)
(* Proofs about AmotaSystem: that a success is a verified image, and that  *)
(* answers, image, stream and progress keep in step with the packets, for  *)
(* every value of the constants: packets of any number of frames, any      *)
(* files, losses and starts.                                               *)
(***************************************************************************)
EXTENDS AmotaSystem, AmotaServiceProofs, SequenceTheorems, FiniteSetTheorems

-----------------------------------------------------------------------------
(* The inductive invariant.                                                *)

\* No stop has begun.  A stop lasts, as the scope stays cancelled.
Unstopped == scopeActive /\ ~Stopping

\* While this holds, what the device has and what the service counts agree.
Clean == AllAnswered /\ Unstopped

Quiet == wire = <<>> /\ answers = <<>>

Frames ==
  [cmd : {HEADER, DATA, VERIFY}, plen : Nat, idx : Nat, file : DOMAIN Firmware,
   at : Int]

Notices == [cmd : {HEADER, DATA, VERIFY}, ok : BOOLEAN, off : Nat]

\* What is in flight is well formed.
LinksOK ==
  /\ wire \in Seq(Frames)
  /\ \A i \in 1..Len(wire) :
       /\ wire[i].idx < wire[i].plen
       /\ wire[i].plen >= HeaderSizeInPkt + CrcSizeInPkt
  /\ answers \in Seq(Notices)
  /\ replies \in Nat
  /\ losses \in 0..MaxLosses
  /\ rx \in Nat

DeviceOK ==
  /\ image \in DOMAIN Firmware
  /\ stored \in Nat
  /\ intact \in BOOLEAN
  /\ verified \in DOMAIN Firmware \union {NoPath}

\* A job past the opening reads a file that exists; past the header it knows the
\* declared size; what it sends is one of the three commands, of a full packet.
FileKnown(j) ==
  /\ pc[j] \notin NoStream => file[j] \in DOMAIN Firmware
  /\ pc[j] \notin {"ready", "open", "readHeader", "failed", "catch"} =>
       fileSize = Declared(file[j]) /\ Length(file[j]) >= FwHeaderSize
  /\ pc[j] \in Sending =>
       /\ cmd[j] \in {HEADER, DATA, VERIFY}
       /\ plen[j] >= HeaderSizeInPkt + CrcSizeInPkt
  /\ pc[j] \in {"loop", "readData", "dataRet"}
     \/ (pc[j] \in Sending /\ cmd[j] # HEADER) => fw[j] = Declared(file[j])

JobFile == \A j \in Job : InUpgrade(j) => FileKnown(j)

\* The fields hold the job and its semaphores while no stop has begun, and those of
\* another or none once a stop has cancelled it.
OwnsFields ==
  \A j \in Job : InUpgrade(j) =>
    IF Unstopped THEN otaJob = j /\ cmdResponseSemaphore = j
    ELSE Stopping \/ (otaJob # j /\ cmdResponseSemaphore # j)

WaitsOnOwn ==
  \A j \in Job :
    Unstopped /\ pc[j] \in {"gattWait", "respWait"} => sem[j] = j

OnlyStopsCancel == cancelled # {} => ~scopeActive

\* Semaphores that no start has created yet have no permits.
FreshPermits ==
  \A j \in Job :
    pc[j] = "none" => respPermits[j] = 0 /\ cmdResponseSemaphore # j

ServiceOK ==
  JobFile /\ OwnsFields /\ WaitsOnOwn /\ OnlyStopsCancel /\ FreshPermits

\* No more of the image is stored than the file holds.
Fits(p) == Length(p) <= FwHeaderSize + Declared(p)
CleanDevice ==
  Clean => intact /\ (Fits(image) => stored <= Declared(image))

\* Nothing is in flight when no upgrade runs, or while amOtaStart has not set the
\* flag.
QuietBetween ==
  /\ Clean /\ (\A j \in Job : ~InUpgrade(j)) => Quiet
  /\ Clean /\ main = "startFlag" => Quiet

\* Up to where job j has posted the packet it sends.
SentTo(j) ==
  idx[j] + (IF pc[j] \in {"check", "post"} THEN 0 ELSE FrameLen(plen[j], idx[j]))

\* What is on the wire is of that packet, in order and without overlap.
OnWire(j) ==
  /\ \A i \in 1..Len(wire) :
       /\ wire[i].cmd = cmd[j] /\ wire[i].plen = plen[j]
       /\ wire[i].file = file[j]
       /\ wire[i].at = pos[j] - DataLength(plen[j]) - FwHeaderSize
       /\ wire[i].idx + FrameLen(plen[j], wire[i].idx) <= SentTo(j)
  /\ \A i, k \in 1..Len(wire) : i < k =>
       wire[i].idx + FrameLen(plen[j], wire[i].idx) <= wire[k].idx

\* The packet of job j is on its way, no answer grants it, and the device is as
\* it was when the packet was begun.
Unanswered(j) ==
  /\ respPermits[j] = 0
  /\ OnWire(j)
  /\ \A i \in 1..Len(answers) : ~answers[i].ok
  /\ cmd[j] = HEADER => pos[j] = FwHeaderSize
  /\ cmd[j] # HEADER => image = file[j]
  /\ cmd[j] = DATA =>
       /\ pos[j] = FwHeaderSize + stored + DataLength(plen[j])
       /\ pos[j] <= Length(file[j])
       /\ ReadsWell(j) => offset[j] = stored

\* The device has accepted the packet of job j.
Accepted(j) ==
  /\ IsLastFrame(plen[j], idx[j])
  /\ wire = <<>>
  /\ image = file[j]
  /\ cmd[j] = HEADER => pos[j] = FwHeaderSize
  /\ cmd[j] = DATA =>
       /\ pos[j] = FwHeaderSize + stored
       /\ ReadsWell(j) => offset[j] + DataLength(plen[j]) = stored
  /\ cmd[j] = VERIFY => verified = file[j]

\* Its answer is on its way, behind refusals of frames, or lost, or has released
\* the semaphore.
Answered(j) ==
  /\ Accepted(j)
  /\ \/ /\ respPermits[j] = 0
        /\ \A i \in 1..Len(answers) : answers[i].ok =>
             /\ i = Len(answers)
             /\ answers[i].cmd = cmd[j]
             /\ cmd[j] = HEADER => answers[i].off = stored
     \/ /\ respPermits[j] = 1
        /\ answers = <<>>
        /\ cmd[j] = HEADER => fileOffset = stored

\* Its answer has been taken.
Settled(j) ==
  /\ Accepted(j)
  /\ answers = <<>> /\ respPermits[j] = 0
  /\ cmd[j] = HEADER => fileOffset = stored

Resting ==
  {"ready", "open", "readHeader", "cmdFailed", "failed", "catch", "setOffset",
   "initData", "loop", "readData", "dataRet", "succeed"}

\* Between two packets.
AtRest(j) ==
  /\ Quiet /\ respPermits[j] = 0
  /\ pc[j] = "cmdFailed" => cmd[j] = HEADER
  /\ pc[j] \in {"setOffset", "initData", "loop", "readData", "dataRet"} =>
       image = file[j]
  /\ pc[j] = "setOffset" => pos[j] = FwHeaderSize
  /\ pc[j] \in {"setOffset", "initData"} => fileOffset = stored
  /\ pc[j] \in {"initData", "loop", "readData", "dataRet"} =>
       pos[j] = FwHeaderSize + stored
  /\ pc[j] \in {"loop", "readData"} /\ ReadsWell(j) => offset[j] = stored
  /\ pc[j] = "dataRet" /\ ret[j] >= 0 /\ ReadsWell(j) =>
       offset[j] + ret[j] = stored

Phase(j) ==
  /\ pc[j] \in Resting => AtRest(j)
  /\ pc[j] \in {"check", "post"} => Unanswered(j)
  /\ pc[j] \in {"gattEnter", "gattWait", "respEnter", "respWait"} =>
       Unanswered(j) \/ Answered(j)
  /\ pc[j] = "delay" =>
       IF IsLastFrame(plen[j], idx[j]) THEN Settled(j) ELSE Unanswered(j)

InPhase == Clean => \A j \in Job : InUpgrade(j) => Phase(j)

\* A job that will report success, or does, was not stopped before the answer to
\* its verify packet; a stop after it changes nothing.
Verified(j) == wire = <<>> /\ verified = file[j]
KeepsVerified ==
  \A j \in Job :
    /\ AllAnswered
    /\ \/ pc[j] = "succeed"
       \/ /\ pc[j] = "delay" /\ j \notin cancelled
          /\ cmd[j] = VERIFY /\ IsLastFrame(plen[j], idx[j])
    => Verified(j)

\* The service's own invariants, which hold in the system as well.
ServiceInv == IInv /\ ReportInv /\ ServiceOK

\* What holds of the two ends together.
BothEnds == CleanDevice /\ QuietBetween /\ InPhase /\ KeepsVerified

SysInv == ServiceInv /\ LinksOK /\ DeviceOK /\ BothEnds

-----------------------------------------------------------------------------
(* The steps of a job.                                                     *)

\* A job in its upgrade is alone in it.
LEMMA OnlyUpgrade ==
  ASSUME IInv, NEW j \in Job, InUpgrade(j), JobStep(j), NEW k \in Job, k # j
  PROVE  ~InUpgrade(k) /\ ~InUpgrade(k)'
<1>1. JobEffect(j)
  BY JobStepEffect DEF IInv
<1> QED
  BY <1>1 DEF IInv, AtMostOneJob, JobEffect, InUpgrade

\* It reads its own stream, while it has one.
LEMMA ReadsOwn ==
  ASSUME IInv, NEW j \in Job, InUpgrade(j), pc[j] \notin NoStream
  PROVE  fileInputStream \in {j, NoJob}
  BY DEF IInv, OwnStream

LEMMA JobKeepsFile ==
  ASSUME IInv, NEW j \in Job, InUpgrade(j), FileKnown(j), JobStep(j)
  PROVE  InUpgrade(j)' => FileKnown(j)'
<1> SUFFICES ASSUME InUpgrade(j)' PROVE FileKnown(j)'
  OBVIOUS
<1>1. TypeOK
  BY DEF IInv
<1> USE <1>1, ReadsOwn DEF TypeOK, mainVars, permits, stream, packet, loopVars,
      observed, jobVars, Goto, InUpgrade, FileKnown, Sending, HEADER, DATA,
      VERIFY, UNKNOWN, NoStream
<1>2. CASE NeverRuns(j)
  BY <1>2 DEF NeverRuns
<1>3. CASE OpenFails(j)
  BY <1>3 DEF OpenFails, Throw
<1>4. CASE OpenFile(j)
  BY <1>4, FileTypes DEF OpenFile, PostOutcome
<1>5. CASE ReadHeader(j)
  BY <1>5, FileTypes, SizesAssumption DEF ReadHeader, BeginPacket, Remaining,
     PacketLength
<1>6. CASE HeaderThrows(j)
  BY <1>6 DEF HeaderThrows, Throw
<1>7. CASE CheckFlag(j)
  BY <1>7 DEF CheckFlag
<1>8. CASE SendFails(j)
  BY <1>8 DEF SendFails, PostOutcome
<1>9. CASE PostFrame(j)
  BY <1>9 DEF PostFrame
<1>10. CASE GattEnter(j)
  BY <1>10 DEF GattEnter, AfterGatt
<1>11. CASE GattAcquire(j)
  BY <1>11 DEF GattAcquire, AfterGatt
<1>12. CASE GattTimeout(j)
  BY <1>12 DEF GattTimeout, AfterGatt
<1>13. CASE RespEnter(j)
  BY <1>13 DEF RespEnter
<1>14. CASE RespAcquire(j)
  BY <1>14 DEF RespAcquire
<1>15. CASE RespTimeout(j)
  BY <1>15 DEF RespTimeout
<1>16. CASE DelayCancelled(j)
  BY <1>16 DEF DelayCancelled, Throw
<1>17. CASE NextFrame(j)
  BY <1>17 DEF NextFrame
<1>18. CASE PacketDone(j)
  BY <1>18 DEF PacketDone
<1>19. CASE SetFileOffset(j)
  BY <1>19 DEF SetFileOffset
<1>20. CASE SkipThrows(j)
  BY <1>20 DEF SkipThrows, Throw
<1>21. CASE InitData(j)
  BY <1>21 DEF InitData
<1>22. CASE LoopTest(j)
  BY <1>22, SizesAssumption DEF LoopTest, BeginPacket, PacketLength
<1>23. CASE ReadData(j)
  BY <1>23, FileTypes, SizesAssumption DEF ReadData, BeginPacket, Remaining,
     PacketLength
<1>24. CASE ReadThrows(j)
  BY <1>24 DEF ReadThrows
<1>25. CASE DataFails(j)
  BY <1>25 DEF DataFails, PostOutcome
<1>26. CASE DataAdvances(j)
  BY <1>26 DEF DataAdvances
<1>27. CASE Succeed(j)
  BY <1>27 DEF Succeed, PostOutcome
<1>28. CASE Fail(j)
  BY <1>28 DEF Fail
<1>29. CASE Catch(j)
  BY <1>29 DEF Catch
<1>30. CASE Report(j)
  BY <1>30 DEF Report, PostOutcome
<1>31. CASE Finally(j)
  BY <1>31 DEF Finally
<1>32. CASE Dispatch(j)
  BY <1>32 DEF Dispatch
<1> QED
  BY <1>2, <1>3, <1>4, <1>5, <1>6, <1>7, <1>8, <1>9, <1>10, <1>11, <1>12,
     <1>13, <1>14, <1>15, <1>16, <1>17, <1>18, <1>19, <1>20, <1>21, <1>22,
     <1>23, <1>24, <1>25, <1>26, <1>27, <1>28, <1>29, <1>30, <1>31, <1>32 DEF JobStep,
     JobContinues

\* What its steps do to answers and permits: what was missed stays missed, and it
\* takes a permit only of the semaphore it blocks on.
JobTakes(j) ==
  /\ pc'[j] # "none"
  /\ AllAnswered' => AllAnswered
  /\ \/ respPermits' = respPermits
     \/ /\ pc[j] = "respWait"
        /\ respPermits[sem[j]] > 0
        /\ respPermits' = [respPermits EXCEPT ![sem[j]] = @ - 1]

LEMMA JobStepTakes ==
  ASSUME TypeOK, NEW j \in Job, JobStep(j)
  PROVE  JobTakes(j)
<1> USE DEF TypeOK, mainVars, permits, stream, packet, loopVars, observed,
            jobVars, Goto, JobTakes, AllAnswered
<1>1. CASE NeverRuns(j)
  BY <1>1 DEF NeverRuns
<1>2. CASE OpenFails(j)
  BY <1>2 DEF OpenFails, Throw
<1>3. CASE OpenFile(j)
  BY <1>3 DEF OpenFile, PostOutcome
<1>4. CASE ReadHeader(j)
  BY <1>4 DEF ReadHeader, BeginPacket, Remaining
<1>5. CASE HeaderThrows(j)
  BY <1>5 DEF HeaderThrows, Throw
<1>6. CASE CheckFlag(j)
  BY <1>6 DEF CheckFlag
<1>7. CASE SendFails(j)
  BY <1>7 DEF SendFails, PostOutcome
<1>8. CASE PostFrame(j)
  BY <1>8 DEF PostFrame
<1>9. CASE GattEnter(j)
  BY <1>9 DEF GattEnter, AfterGatt
<1>10. CASE GattAcquire(j)
  BY <1>10 DEF GattAcquire, AfterGatt
<1>11. CASE GattTimeout(j)
  BY <1>11 DEF GattTimeout, AfterGatt
<1>12. CASE RespEnter(j)
  BY <1>12 DEF RespEnter
<1>13. CASE RespAcquire(j)
  BY <1>13 DEF RespAcquire
<1>14. CASE RespTimeout(j)
  BY <1>14 DEF RespTimeout
<1>15. CASE DelayCancelled(j)
  BY <1>15 DEF DelayCancelled, Throw
<1>16. CASE NextFrame(j)
  BY <1>16 DEF NextFrame
<1>17. CASE PacketDone(j)
  BY <1>17 DEF PacketDone
<1>18. CASE SetFileOffset(j)
  BY <1>18 DEF SetFileOffset
<1>19. CASE SkipThrows(j)
  BY <1>19 DEF SkipThrows, Throw
<1>20. CASE InitData(j)
  BY <1>20 DEF InitData
<1>21. CASE LoopTest(j)
  BY <1>21 DEF LoopTest, BeginPacket
<1>22. CASE ReadData(j)
  BY <1>22 DEF ReadData, BeginPacket, Remaining
<1>23. CASE ReadThrows(j)
  BY <1>23 DEF ReadThrows
<1>24. CASE DataFails(j)
  BY <1>24 DEF DataFails, PostOutcome
<1>25. CASE DataAdvances(j)
  BY <1>25 DEF DataAdvances
<1>26. CASE Succeed(j)
  BY <1>26 DEF Succeed, PostOutcome
<1>27. CASE Fail(j)
  BY <1>27 DEF Fail
<1>28. CASE Catch(j)
  BY <1>28 DEF Catch
<1>29. CASE Report(j)
  BY <1>29 DEF Report, PostOutcome
<1>30. CASE Finally(j)
  BY <1>30 DEF Finally
<1>31. CASE Dispatch(j)
  BY <1>31 DEF Dispatch
<1> QED
  BY <1>1, <1>2, <1>3, <1>4, <1>5, <1>6, <1>7, <1>8, <1>9, <1>10, <1>11, <1>12,
     <1>13, <1>14, <1>15, <1>16, <1>17, <1>18, <1>19, <1>20, <1>21, <1>22,
     <1>23, <1>24, <1>25, <1>26, <1>27, <1>28, <1>29, <1>30, <1>31 DEF JobStep,
     JobContinues

\* The jobs past their upgrade.
LEMMA JobEnds ==
  ASSUME IInv, NEW j \in Job, ~InUpgrade(j), JobStep(j)
  PROVE  Report(j) \/ Finally(j)
<1> USE DEF InUpgrade
<1>1. CASE NeverRuns(j)
  BY <1>1 DEF NeverRuns
<1>2. CASE OpenFails(j)
  BY <1>2 DEF OpenFails, Throw
<1>3. CASE OpenFile(j)
  BY <1>3 DEF OpenFile, PostOutcome
<1>4. CASE ReadHeader(j)
  BY <1>4 DEF ReadHeader, BeginPacket, Remaining
<1>5. CASE HeaderThrows(j)
  BY <1>5 DEF HeaderThrows, Throw
<1>6. CASE CheckFlag(j)
  BY <1>6 DEF CheckFlag
<1>7. CASE SendFails(j)
  BY <1>7 DEF SendFails, PostOutcome
<1>8. CASE PostFrame(j)
  BY <1>8 DEF PostFrame
<1>9. CASE GattEnter(j)
  BY <1>9 DEF GattEnter, AfterGatt
<1>10. CASE GattAcquire(j)
  BY <1>10 DEF GattAcquire, AfterGatt
<1>11. CASE GattTimeout(j)
  BY <1>11 DEF GattTimeout, AfterGatt
<1>12. CASE RespEnter(j)
  BY <1>12 DEF RespEnter
<1>13. CASE RespAcquire(j)
  BY <1>13 DEF RespAcquire
<1>14. CASE RespTimeout(j)
  BY <1>14 DEF RespTimeout
<1>15. CASE DelayCancelled(j)
  BY <1>15 DEF DelayCancelled, Throw
<1>16. CASE NextFrame(j)
  BY <1>16 DEF NextFrame
<1>17. CASE PacketDone(j)
  BY <1>17 DEF PacketDone
<1>18. CASE SetFileOffset(j)
  BY <1>18 DEF SetFileOffset
<1>19. CASE SkipThrows(j)
  BY <1>19 DEF SkipThrows, Throw
<1>20. CASE InitData(j)
  BY <1>20 DEF InitData
<1>21. CASE LoopTest(j)
  BY <1>21 DEF LoopTest, BeginPacket
<1>22. CASE ReadData(j)
  BY <1>22 DEF ReadData, BeginPacket, Remaining
<1>23. CASE ReadThrows(j)
  BY <1>23 DEF ReadThrows
<1>24. CASE DataFails(j)
  BY <1>24 DEF DataFails, PostOutcome
<1>25. CASE DataAdvances(j)
  BY <1>25 DEF DataAdvances
<1>26. CASE Succeed(j)
  BY <1>26 DEF Succeed, PostOutcome
<1>27. CASE Fail(j)
  BY <1>27 DEF Fail
<1>28. CASE Catch(j)
  BY <1>28 DEF Catch
<1>29. CASE Dispatch(j)
  BY <1>29 DEF Dispatch
<1> QED
  BY <1>1, <1>2, <1>3, <1>4, <1>5, <1>6, <1>7, <1>8, <1>9, <1>10, <1>11, <1>12,
     <1>13, <1>14, <1>15, <1>16, <1>17, <1>18, <1>19, <1>20, <1>21, <1>22,
     <1>23, <1>24, <1>25, <1>26, <1>27, <1>28, <1>29 DEF JobStep, JobContinues

LEMMA JobKeepsService ==
  ASSUME IInv, ServiceOK, NEW j \in Job, JobStep(j)
  PROVE  ServiceOK'
<1>1. TypeOK /\ JobEffect(j) /\ JobTakes(j)
  BY JobStepEffect, JobStepTakes DEF IInv
<1>2. JobFile'
  <2>1. CASE InUpgrade(j)
    BY <2>1, OnlyUpgrade, JobKeepsFile DEF ServiceOK, JobFile
  <2>2. CASE ~InUpgrade(j)
    <3>1. \A k \in Job : InUpgrade(k)' => k # j /\ InUpgrade(k)
      BY <1>1, <2>2 DEF JobEffect, InUpgrade
    <3>2. ASSUME NEW k \in Job, k # j
          PROVE  /\ file'[k] = file[k] /\ cmd'[k] = cmd[k] /\ plen'[k] = plen[k]
                 /\ fw'[k] = fw[k] /\ pc'[k] = pc[k] /\ fileSize' = fileSize
      BY <1>1, <2>2, <3>2, JobEnds
      DEF TypeOK, Report, Finally, Goto, stream, packet, loopVars
    <3> QED
      BY <3>1, <3>2 DEF ServiceOK, JobFile, FileKnown
  <2> QED
    BY <2>1, <2>2
<1>3. (Unstopped' <=> Unstopped) /\ (Stopping' <=> Stopping)
  BY <1>1 DEF JobEffect, mainVars, Unstopped, Stopping
<1>4. OwnsFields'
  BY <1>1, <1>3
  DEF ServiceOK, OwnsFields, NotStopped, JobEffect, mainVars, InUpgrade
<1>5. WaitsOnOwn'
  BY <1>1, <1>3
  DEF ServiceOK, WaitsOnOwn, OwnsFields, NotStopped, JobEffect, mainVars,
      InUpgrade, IInv, SemaphoresPaired
<1>6. OnlyStopsCancel'
  BY <1>1 DEF ServiceOK, OnlyStopsCancel, JobEffect, mainVars
<1>7. FreshPermits'
  <2> SUFFICES ASSUME NEW k \in Job, pc'[k] = "none"
               PROVE  respPermits'[k] = 0 /\ cmdResponseSemaphore' # k
    BY DEF FreshPermits
  <2>1. pc[k] = "none" /\ respPermits[k] = 0 /\ cmdResponseSemaphore # k
    BY <1>1 DEF JobEffect, JobTakes, ServiceOK, FreshPermits
  <2> QED
    BY <1>1, <2>1 DEF TypeOK, JobEffect, JobTakes, mainVars
<1> QED
  BY <1>2, <1>4, <1>5, <1>6, <1>7 DEF ServiceOK

-----------------------------------------------------------------------------
(* The steps of the main thread.                                           *)

LEMMA StartKeepsService ==
  ASSUME IInv, ServiceOK, NEW p \in Path, AmOtaStart(p)
  PROVE  ServiceOK'
<1> DEFINE n == starts + 1
<1> USE DEF IInv, TypeOK, ServiceOK, AmOtaStart, stream, packet, loopVars, Goto,
            permits
<1>1. n \in Job /\ n > starts
  BY StartsAreJobs
<1>2. /\ pc[n] = "none" /\ \A j \in Job : j # n => pc'[j] = pc[j]
      /\ pc'[n] = IF scopeActive THEN "ready" ELSE "done"
  BY <1>1 DEF NotStarted
<1>3. scopeActive => \A j \in Job : ~InUpgrade(j)
  BY DEF FlagHeld
<1>4. JobFile'
  BY <1>2 DEF JobFile, FileKnown, NoStream, InUpgrade, Sending
<1>5. OwnsFields'
  BY <1>1, <1>2, <1>3
  DEF OwnsFields, NotStopped, Unstopped, Stopping, StopTypes, InUpgrade
<1>6. WaitsOnOwn'
  BY <1>1, <1>2, <1>3 DEF WaitsOnOwn, Unstopped, Stopping, StopTypes, InUpgrade
<1>7. OnlyStopsCancel' /\ FreshPermits'
  BY <1>1, <1>2 DEF OnlyStopsCancel, FreshPermits
<1> QED
  BY <1>4, <1>5, <1>6, <1>7

LEMMA BeginStopKeepsService ==
  ASSUME TypeOK, ServiceOK, BeginStop, 
         UNCHANGED <<scopeActive, cancelled, otaJob, jobVars>>
  PROVE  ServiceOK'
<1> USE DEF TypeOK, ServiceOK, BeginStop, jobVars, stream, packet, loopVars,
            permits
<1>1. JobFile'
  BY DEF JobFile, FileKnown, NoStream, InUpgrade
<1>2. NoJob \notin Job
  BY StartsAreJobs
<1>3. OwnsFields' /\ WaitsOnOwn' /\ OnlyStopsCancel'
  BY <1>2 DEF OwnsFields, WaitsOnOwn, OnlyStopsCancel, Unstopped, Stopping, StopTypes, InUpgrade
<1>4. FreshPermits'
  BY <1>2 DEF FreshPermits
<1> QED
  BY <1>1, <1>3, <1>4

LEMMA ReleaseKeepsService ==
  ASSUME TypeOK, ServiceOK,
         \/ respPermits' = Release(respPermits, cmdResponseSemaphore)
         \/ respPermits' = respPermits,
         UNCHANGED <<main, scopeActive, cancelled, otaJob, cmdResponseSemaphore,
                     jobVars>>
  PROVE  ServiceOK'
<1> USE DEF TypeOK, ServiceOK, jobVars, stream, packet, loopVars
<1>1. JobFile'
  BY DEF JobFile, FileKnown, NoStream, InUpgrade
<1>2. OwnsFields' /\ WaitsOnOwn' /\ OnlyStopsCancel'
  BY DEF OwnsFields, NotStopped, WaitsOnOwn, OnlyStopsCancel, Unstopped,
         Stopping, InUpgrade
<1>3. FreshPermits'
  BY DEF FreshPermits, Release
<1> QED
  BY <1>1, <1>2, <1>3

LEMMA MainKeepsService ==
  ASSUME IInv, ServiceOK, MainContinues
  PROVE  ServiceOK'
<1> USE DEF IInv, ServiceOK, JobFile, FileKnown, OwnsFields, NotStopped,
            WaitsOnOwn, OnlyStopsCancel, FreshPermits, Unstopped, Stopping, StopTypes, InUpgrade,
            jobVars, stream, packet, loopVars, permits, NoStream
<1>1. CASE StartSetsFlag
  BY <1>1 DEF StartSetsFlag
<1>2. CASE StartPosts
  BY <1>2 DEF StartPosts
<1>3. CASE StopClearsFlag
  BY <1>3 DEF StopClearsFlag
<1>4. CASE StopCancels
  BY <1>4, StartsAreJobs DEF StopCancels, SemaphoresPaired, TypeOK
<1>5. CASE StopPosts
  BY <1>5 DEF StopPosts
<1>6. CASE StopClearsOffset \/ StopReleasesGatt \/ StopDropsGatt
  BY <1>6 DEF StopClearsOffset, StopReleasesGatt, StopDropsGatt
<1>7. CASE StopReleasesResponse
  BY <1>7 DEF StopReleasesResponse, Release, TypeOK
<1>8. CASE StopDropsResponse
  BY <1>8, StartsAreJobs DEF StopDropsResponse, TypeOK
<1> QED
  BY <1>1, <1>2, <1>3, <1>4, <1>5, <1>6, <1>7, <1>8 DEF MainContinues

-----------------------------------------------------------------------------
(* The service in the system: its own invariants hold there as well.       *)

\* The answer to be delivered next.
LEMMA FirstAnswer ==
  ASSUME LinksOK, answers # <<>>
  PROVE  /\ Head(answers).cmd \in AmotaCmd \ {UNKNOWN}
         /\ Head(answers).cmd \in {HEADER, DATA, VERIFY}
         /\ Head(answers).ok \in BOOLEAN
         /\ Head(answers).off \in Nat
         /\ Head(answers) = answers[1]
         /\ Len(answers) \in Nat /\ Len(answers) > 0
<1>1. answers \in Seq(Notices)
  BY DEF LinksOK
<1>2. Head(answers) \in Notices
  BY <1>1, HeadTailProperties
<1>3. Len(answers) \in Nat /\ Len(answers) > 0
  BY <1>1, LenProperties, EmptySeq
<1>4. Head(answers) = answers[1]
  BY <1>1
<1> QED
  BY <1>2, <1>3, <1>4 DEF AmotaCmd, HEADER, DATA, VERIFY, UNKNOWN, Notices

\* A step of the system is one of the service, which an answer may take with an
\* offset of the device's, or none.
ServiceStep ==
  \/ [Next]_vars
  \/ \E c \in {HEADER, DATA, VERIFY}, ok \in BOOLEAN, off \in Nat :
       OtaCmdResponse(c, ok, off)

LEMMA SystemSteps ==
  ASSUME LinksOK, [SysNext]_sysVars
  PROVE  ServiceStep
<1>1. CASE AppWrites \/ Lose \/ UNCHANGED sysVars
  BY <1>1 DEF AppWrites, Lose, sysVars, ServiceStep
<1>2. CASE AppConfirms \/ User \/ MainRuns
  BY <1>2 DEF AppConfirms, User, MainRuns, ServiceStep, Next, Call
<1>3. CASE AppNotifies
  BY <1>3, FirstAnswer DEF AppNotifies, ServiceStep
<1>4. ASSUME NEW j \in Job, JobRuns(j) PROVE ServiceStep
  BY <1>4 DEF JobRuns, JobPosts, ServiceStep, Next, JobStep
<1> QED
  BY <1>1, <1>2, <1>3, <1>4 DEF SysNext

LEMMA ServiceKept ==
  ASSUME ServiceInv, ServiceStep
  PROVE  ServiceInv'
<1> USE DEF ServiceInv
<1>1. TypeOK
  BY DEF IInv
<1>2. ASSUME NEW c \in {HEADER, DATA, VERIFY}, NEW ok \in BOOLEAN,
             NEW off \in Nat, OtaCmdResponse(c, ok, off)
      PROVE  ServiceInv'
  <2>1. c \in AmotaCmd
    BY DEF AmotaCmd
  <2>2. IInv' /\ ReportInv'
    BY <1>2, <2>1, ResponsePreserves, ReportResponse
  <2>3. ServiceOK'
    BY <1>1, <1>2, BeginStopKeepsService, ReleaseKeepsService
    DEF OtaCmdResponse, ResponseUnknown, ResponseError, ResponseOk
  <2> QED
    BY <2>2, <2>3
<1>3. ASSUME [Next]_vars PROVE ServiceInv'
  <2>1. IInv' /\ ReportInv'
    BY <1>3, InvStep, ReportStep
  <2> SUFFICES ServiceOK'
    BY <2>1
  <2>2. CASE Call
    <3>1. ASSUME NEW p \in Path, AmOtaStart(p) PROVE ServiceOK'
      BY <3>1, StartKeepsService
    <3>2. CASE AmOtaStop
      BY <1>1, <3>2, BeginStopKeepsService DEF AmOtaStop
    <3>3. CASE CmdGattReplayArrived
      BY <1>1, <3>3, ReleaseKeepsService DEF CmdGattReplayArrived, mainVars
    <3>4. ASSUME NEW c \in AmotaCmd, NEW ok \in BOOLEAN, NEW off \in Offsets,
                 OtaCmdResponse(c, ok, off)
          PROVE  ServiceOK'
      BY <1>1, <3>4, BeginStopKeepsService, ReleaseKeepsService
      DEF OtaCmdResponse, ResponseUnknown, ResponseError, ResponseOk
    <3> QED
      BY <2>2, <3>1, <3>2, <3>3, <3>4 DEF Call
  <2>3. CASE MainContinues
    BY <2>3, MainKeepsService
  <2>4. ASSUME NEW j \in Job, JobStep(j) PROVE ServiceOK'
    BY <2>4, JobKeepsService
  <2>5. CASE UNCHANGED vars
    BY <2>5
    DEF vars, mainVars, permits, jobVars, stream, packet, loopVars, ServiceOK,
        JobFile, FileKnown, OwnsFields, NotStopped, WaitsOnOwn, OnlyStopsCancel,
        FreshPermits, Unstopped, Stopping, NoStream, InUpgrade
  <2> QED
    BY <1>3, <2>2, <2>3, <2>4, <2>5 DEF Next
<1> QED
  BY <1>2, <1>3 DEF ServiceStep

\* What was missed stays missed, and a stop lasts.
LEMMA CleanLasts ==
  ASSUME ServiceInv, ServiceStep
  PROVE  (AllAnswered' => AllAnswered) /\ (Clean' => Clean)
<1> USE DEF Clean, AllAnswered, Unstopped, Stopping, StopTypes
<1>1. TypeOK
  BY DEF ServiceInv, IInv
<1>2. ASSUME NEW j \in Job, JobStep(j)
      PROVE  (AllAnswered' => AllAnswered) /\ (Clean' => Clean)
  BY <1>1, <1>2, JobStepTakes, JobStepEffect
  DEF ServiceInv, IInv, JobTakes, JobEffect, mainVars
<1>3. ASSUME NEW p \in Path, AmOtaStart(p)
      PROVE  (AllAnswered' => AllAnswered) /\ (Clean' => Clean)
  BY <1>3 DEF AmOtaStart
<1>4. CASE AmOtaStop \/ CmdGattReplayArrived
  BY <1>4 DEF AmOtaStop, BeginStop, CmdGattReplayArrived, mainVars, observed
<1>5. ASSUME NEW c, NEW ok, NEW off, OtaCmdResponse(c, ok, off)
      PROVE  (AllAnswered' => AllAnswered) /\ (Clean' => Clean)
  BY <1>5
  DEF OtaCmdResponse, ResponseUnknown, ResponseError, ResponseOk, BeginStop,
      observed
<1>6. CASE MainContinues
  BY <1>6
  DEF MainContinues, StartSetsFlag, StartPosts, StopClearsOffset,
      StopReleasesGatt, StopDropsGatt, StopReleasesResponse, StopDropsResponse,
      StopClearsFlag, StopCancels, StopPosts, observed
<1>7. CASE UNCHANGED vars
  BY <1>7 DEF vars, mainVars, observed
<1> QED
  BY <1>2, <1>3, <1>4, <1>5, <1>6, <1>7 DEF ServiceStep, Next, Call

-----------------------------------------------------------------------------
(* Types of the links and the device.                                      *)

\* The oldest frame on the wire.
LEMMA FirstFrame ==
  ASSUME LinksOK, wire # <<>>
  PROVE  /\ Head(wire).cmd \in {HEADER, DATA, VERIFY}
         /\ Head(wire).plen \in Nat /\ Head(wire).idx \in Nat
         /\ Head(wire).idx < Head(wire).plen
         /\ DataLength(Head(wire).plen) \in Nat
         /\ Head(wire).file \in DOMAIN Firmware
         /\ Head(wire).at \in Int
         /\ Head(wire) = wire[1] /\ 1 \in 1..Len(wire)
         /\ Len(wire) \in Nat /\ Len(wire) > 0
<1>1. wire \in Seq(Frames)
  BY DEF LinksOK
<1>2. Head(wire) \in Frames
  BY <1>1, HeadTailProperties
<1>3. Head(wire) = wire[1]
  BY <1>1
<1>4. Len(wire) \in Nat /\ Len(wire) > 0
  BY <1>1, LenProperties, EmptySeq
<1>5. /\ wire[1].idx < wire[1].plen
      /\ wire[1].plen >= HeaderSizeInPkt + CrcSizeInPkt
  BY <1>4 DEF LinksOK
<1>6. wire[1].plen \in Nat /\ wire[1].idx \in Nat
  BY <1>2, <1>3 DEF Frames
<1>7. DataLength(wire[1].plen) \in Nat
  BY <1>5, <1>6, SizesAssumption DEF DataLength
<1> QED
  BY <1>2, <1>3, <1>4, <1>5, <1>6, <1>7 DEF Frames

\* A queue that loses its first element keeps the others as they were.
LEMMA ShorterWire ==
  ASSUME LinksOK, wire # <<>>, wire' = Tail(wire)
  PROVE  /\ wire' \in Seq(Frames)
         /\ Len(wire') = Len(wire) - 1
         /\ \A i \in 1..Len(wire') : i + 1 \in 1..Len(wire) /\ wire'[i] = wire[i + 1]
<1>1. wire \in Seq(Frames)
  BY DEF LinksOK
<1>2. /\ wire' \in Seq(Frames)
      /\ Len(wire') = Len(wire) - 1
      /\ \A i \in 1..Len(wire') : wire'[i] = wire[i + 1]
  BY <1>1, HeadTailProperties
<1>3. Len(wire) \in Nat
  BY <1>1, LenProperties
<1> QED
  BY <1>2, <1>3

LEMMA ShorterAnswers ==
  ASSUME LinksOK, answers # <<>>, answers' = Tail(answers)
  PROVE  /\ answers' \in Seq(Notices)
         /\ Len(answers') = Len(answers) - 1
         /\ \A i \in 1..Len(answers') :
              i + 1 \in 1..Len(answers) /\ answers'[i] = answers[i + 1]
<1>1. answers \in Seq(Notices)
  BY DEF LinksOK
<1>2. /\ answers' \in Seq(Notices)
      /\ Len(answers') = Len(answers) - 1
      /\ \A i \in 1..Len(answers') : answers'[i] = answers[i + 1]
  BY <1>1, HeadTailProperties
<1>3. Len(answers) \in Nat
  BY <1>1, LenProperties
<1> QED
  BY <1>2, <1>3

LEMMA LongerAnswers ==
  ASSUME LinksOK, NEW c \in {HEADER, DATA, VERIFY}, NEW ok \in BOOLEAN,
         NEW off \in Nat, Answer(c, ok, off)
  PROVE  /\ answers' \in Seq(Notices)
         /\ Len(answers') = Len(answers) + 1
         /\ \A i \in 1..Len(answers) : answers'[i] = answers[i]
         /\ answers'[Len(answers')] = [cmd |-> c, ok |-> ok, off |-> off]
<1> DEFINE a == [cmd |-> c, ok |-> ok, off |-> off]
<1>1. answers \in Seq(Notices) /\ a \in Notices
  BY DEF LinksOK, Notices
<1>2. answers' = Append(answers, a)
  BY DEF Answer
<1> HIDE DEF a
<1>3. /\ answers' \in Seq(Notices)
      /\ Len(answers') = Len(answers) + 1
      /\ \A i \in 1..Len(answers) : answers'[i] = answers[i]
      /\ answers'[Len(answers) + 1] = a
  BY <1>1, <1>2, AppendProperties
<1> QED
  BY <1>3 DEF a

\* The frame a job posts.
LEMMA PostedFrame ==
  ASSUME IInv, ServiceOK, NEW j \in Job, pc[j] = "post"
  PROVE  /\ Frame(j) \in Frames
         /\ idx[j] < plen[j]
         /\ plen[j] >= HeaderSizeInPkt + CrcSizeInPkt
<1>1. /\ cmd[j] \in {HEADER, DATA, VERIFY} /\ file[j] \in DOMAIN Firmware
      /\ plen[j] >= HeaderSizeInPkt + CrcSizeInPkt
  BY DEF ServiceOK, JobFile, FileKnown, NoStream, InUpgrade, Sending
<1>2. idx[j] < plen[j]
  BY DEF IInv, FrameInPacket, Sending
<1>3. plen[j] \in Nat /\ idx[j] \in Nat /\ pos[j] \in Nat
  BY DEF IInv, TypeOK
<1>4. pos[j] - DataLength(plen[j]) - FwHeaderSize \in Int
  BY <1>3, SizesAssumption DEF DataLength
<1> QED
  BY <1>1, <1>2, <1>3, <1>4 DEF Frame, Frames

LEMMA LongerWire ==
  ASSUME IInv, ServiceOK, LinksOK, NEW j \in Job, pc[j] = "post",
         wire' = Append(wire, Frame(j))
  PROVE  /\ wire' \in Seq(Frames)
         /\ Len(wire') = Len(wire) + 1
         /\ \A i \in 1..Len(wire) : wire'[i] = wire[i]
         /\ wire'[Len(wire')] = Frame(j)
<1>1. wire \in Seq(Frames) /\ Frame(j) \in Frames
  BY PostedFrame DEF LinksOK
<1>2. /\ wire' \in Seq(Frames)
      /\ Len(wire') = Len(wire) + 1
      /\ \A i \in 1..Len(wire) : wire'[i] = wire[i]
      /\ wire'[Len(wire) + 1] = Frame(j)
  BY <1>1, AppendProperties
<1> QED
  BY <1>2

LEMMA WritesKeepLinks ==
  ASSUME LinksOK, DeviceOK, AppWrites
  PROVE  LinksOK' /\ DeviceOK'
<1> DEFINE f == Head(wire)
<1>1. wire # <<>> /\ Receive(f) /\ wire' = Tail(wire)
  BY DEF AppWrites
<1>2. /\ f.cmd \in {HEADER, DATA, VERIFY}
      /\ f.plen \in Nat /\ f.idx \in Nat /\ f.idx < f.plen
      /\ DataLength(f.plen) \in Nat
      /\ f.file \in DOMAIN Firmware
  BY <1>1, FirstFrame
<1>3. FrameLen(f.plen, f.idx) \in Nat
  BY <1>2, FrameBounds
<1> HIDE DEF f
<1>4. /\ wire' \in Seq(Frames)
      /\ \A i \in 1..Len(wire') : /\ wire'[i].idx < wire'[i].plen
                                  /\ wire'[i].plen >= HeaderSizeInPkt + CrcSizeInPkt
  BY <1>1, ShorterWire DEF LinksOK
<1>5. replies' \in Nat /\ losses' \in 0..MaxLosses
  BY DEF AppWrites, LinksOK
<1>6. CASE f.idx # rx /\ rx' = 0 /\ Answer(f.cmd, FALSE, 0)
             /\ UNCHANGED <<image, stored, intact, verified>>
  BY <1>2, <1>4, <1>5, <1>6, LongerAnswers DEF LinksOK, DeviceOK
<1>7. CASE /\ rx' = rx + FrameLen(f.plen, f.idx)
           /\ UNCHANGED <<answers, image, stored, intact, verified>>
  BY <1>3, <1>4, <1>5, <1>7 DEF LinksOK, DeviceOK
<1>8. CASE rx' = 0 /\ HandlePacket(f)
  <2>1. CASE HandleHeader(f)
    <3>1. stored' \in Nat /\ DeviceOK'
      <4>1. /\ image' = f.file /\ verified' = NoPath
            /\ \/ stored' = stored /\ intact' = intact
               \/ stored' = 0 /\ intact' = TRUE
        BY <2>1 DEF HandleHeader
      <4>2. stored' \in Nat
        BY <4>1 DEF DeviceOK
      <4>3. intact' \in BOOLEAN
        BY <4>1 DEF DeviceOK
      <4>4. image' \in DOMAIN Firmware /\ verified' \in {NoPath}
        BY <1>2, <4>1
      <4> QED
        BY <4>2, <4>3, <4>4 DEF DeviceOK
    <3>2. answers' \in Seq(Notices)
      BY <2>1, <3>1, LongerAnswers DEF HandleHeader
    <3> QED
      BY <1>4, <1>5, <1>8, <3>1, <3>2 DEF LinksOK
  <2>2. CASE HandleData(f)
    <3>1. stored' \in Nat /\ DeviceOK'
      BY <1>2, <2>2 DEF HandleData, DeviceOK
    <3>2. answers' \in Seq(Notices)
      BY <2>2, LongerAnswers DEF HandleData
    <3> QED
      BY <1>4, <1>5, <1>8, <3>1, <3>2 DEF LinksOK
  <2>3. CASE HandleVerify(f)
    <3>1. stored' \in Nat /\ DeviceOK'
      BY <1>2, <2>3 DEF HandleVerify, DeviceOK
    <3>2. answers' \in Seq(Notices)
      BY <2>3, LongerAnswers DEF HandleVerify, DeviceOK
    <3> QED
      BY <1>4, <1>5, <1>8, <3>1, <3>2 DEF LinksOK
  <2> QED
    BY <1>8, <2>1, <2>2, <2>3 DEF HandlePacket
<1> QED
  BY <1>1, <1>6, <1>7, <1>8 DEF Receive

LEMMA LinksKept ==
  ASSUME ServiceInv, LinksOK, DeviceOK, [SysNext]_sysVars
  PROVE  LinksOK' /\ DeviceOK'
<1>1. CASE AppWrites
  BY <1>1, WritesKeepLinks
<1>2. CASE AppConfirms
  BY <1>2 DEF AppConfirms, device, LinksOK, DeviceOK
<1>3. CASE AppNotifies
  BY <1>3, ShorterAnswers DEF AppNotifies, device, LinksOK, DeviceOK
<1>4. CASE Lose
  <2>1. DeviceOK' /\ rx' = rx
    BY <1>4 DEF Lose, device, DeviceOK
  <2>2. losses' \in 0..MaxLosses
    BY <1>4, SystemAssumption DEF Lose, LinksOK
  <2>3. CASE wire # <<>> /\ wire' = Tail(wire) /\ UNCHANGED <<replies, answers>>
    BY <2>1, <2>2, <2>3, ShorterWire DEF LinksOK
  <2>4. CASE replies > 0 /\ replies' = replies - 1 /\ UNCHANGED <<wire, answers>>
    BY <2>1, <2>2, <2>4 DEF LinksOK
  <2>5. CASE /\ answers # <<>> /\ answers' = Tail(answers)
             /\ UNCHANGED <<wire, replies>>
    BY <2>1, <2>2, <2>5, ShorterAnswers DEF LinksOK
  <2> QED
    BY <1>4, <2>3, <2>4, <2>5 DEF Lose
<1>5. CASE User \/ MainRuns \/ UNCHANGED sysVars
  BY <1>5 DEF User, MainRuns, sysVars, links, device, LinksOK, DeviceOK
<1>6. ASSUME NEW j \in Job, JobRuns(j)
      PROVE  LinksOK' /\ DeviceOK'
  <2>1. CASE JobPosts(j)
    <3>1. /\ pc[j] = "post" /\ wire' = Append(wire, Frame(j))
          /\ UNCHANGED <<replies, answers, losses, device>>
      BY <2>1 DEF JobPosts, PostFrame
    <3>2. DeviceOK' /\ rx' = rx
      BY <3>1 DEF device, DeviceOK
    <3>3. wire' \in Seq(Frames)
      BY <3>1, LongerWire DEF ServiceInv
    <3>4. \A i \in 1..Len(wire') :
            /\ wire'[i].idx < wire'[i].plen
            /\ wire'[i].plen >= HeaderSizeInPkt + CrcSizeInPkt
      <4>1. /\ Len(wire') = Len(wire) + 1 /\ wire'[Len(wire')] = Frame(j)
            /\ \A i \in 1..Len(wire) : wire'[i] = wire[i]
        BY <3>1, LongerWire DEF ServiceInv
      <4>2. /\ Frame(j).idx < Frame(j).plen
            /\ Frame(j).plen >= HeaderSizeInPkt + CrcSizeInPkt
        BY <3>1, PostedFrame DEF ServiceInv, Frame
      <4>3. Len(wire) \in Nat
        BY LenProperties DEF LinksOK
      <4> QED
        BY <4>1, <4>2, <4>3 DEF LinksOK
    <3> QED
      BY <3>1, <3>2, <3>3, <3>4 DEF LinksOK
  <2>2. CASE UNCHANGED <<links, device>>
    BY <2>2 DEF links, device, LinksOK, DeviceOK
  <2> QED
    BY <1>6, <2>1, <2>2 DEF JobRuns
<1> QED
  BY <1>1, <1>2, <1>3, <1>4, <1>5, <1>6 DEF SysNext

-----------------------------------------------------------------------------
(* The device gets a frame.                                                *)

\* The frame is of the packet under way, and the device has not accepted that.
LEMMA FrameIsOfPacket ==
  ASSUME SysInv, Clean, NEW j \in Job, InUpgrade(j), wire # <<>>
  PROVE  /\ Unanswered(j)
         /\ pc[j] \in Sending
         /\ pc[j] = "delay" => ~IsLastFrame(plen[j], idx[j])
         /\ Head(wire).cmd = cmd[j] /\ Head(wire).plen = plen[j]
         /\ Head(wire).file = file[j]
         /\ Head(wire).at = pos[j] - DataLength(plen[j]) - FwHeaderSize
         /\ Head(wire).idx + FrameLen(plen[j], Head(wire).idx) <= SentTo(j)
<1>1. Phase(j)
  BY DEF SysInv, BothEnds, InPhase
<1>2. pc[j] \notin Resting
  BY <1>1 DEF Phase, AtRest, Quiet
<1>3. pc[j] \in PcTypes
  BY DEF SysInv, ServiceInv, IInv, TypeOK
<1>4. pc[j] \in Sending \ {"cmdFailed"}
  BY <1>2, <1>3 DEF Resting, PcTypes, InUpgrade, Sending
<1>5. Unanswered(j) /\ (pc[j] = "delay" => ~IsLastFrame(plen[j], idx[j]))
  BY <1>1, <1>4 DEF Phase, Answered, Settled, Accepted, Sending
<1>6. 1 \in 1..Len(wire) /\ Head(wire) = wire[1]
  BY FirstFrame DEF SysInv
<1> QED
  BY <1>4, <1>5, <1>6 DEF Unanswered, OnWire

\* If it is the last of its packet, then it is the last on the wire, and the job
\* has posted the packet and waits.
LEMMA LastFrameIsLast ==
  ASSUME SysInv, Clean, NEW j \in Job, InUpgrade(j), wire # <<>>,
         IsLastFrame(Head(wire).plen, Head(wire).idx)
  PROVE  /\ Len(wire) = 1
         /\ IsLastFrame(plen[j], idx[j])
         /\ pc[j] \in {"gattEnter", "gattWait", "respEnter", "respWait"}
<1> DEFINE i == Head(wire).idx
<1>1. /\ Unanswered(j) /\ pc[j] \in Sending
      /\ pc[j] = "delay" => ~IsLastFrame(plen[j], idx[j])
      /\ i + FrameLen(plen[j], i) = plen[j]
      /\ plen[j] <= SentTo(j)
  BY FrameIsOfPacket DEF IsLastFrame
<1>2. plen[j] \in Nat /\ idx[j] \in Nat /\ idx[j] < plen[j]
  BY <1>1 DEF SysInv, ServiceInv, IInv, TypeOK, FrameInPacket
<1>3. /\ FrameLen(plen[j], idx[j]) \in Nat
      /\ idx[j] + FrameLen(plen[j], idx[j]) <= plen[j]
  BY <1>2, FrameBounds
<1>4. pc[j] \notin {"check", "post"}
  BY <1>1, <1>2 DEF SentTo
<1>5. IsLastFrame(plen[j], idx[j])
  BY <1>1, <1>2, <1>3, <1>4 DEF SentTo, IsLastFrame
<1>6. pc[j] # "cmdFailed"
  <2>1. Phase(j)
    BY DEF SysInv, BothEnds, InPhase
  <2> QED
    BY <2>1 DEF Phase, Resting, AtRest, Quiet
<1>7. Len(wire) = 1
  <2>1. Len(wire) \in Nat /\ Len(wire) > 0 /\ Head(wire) = wire[1]
    BY FirstFrame DEF SysInv
  <2>2. ASSUME Len(wire) # 1 PROVE FALSE
    <3>1. 1 \in 1..Len(wire) /\ 2 \in 1..Len(wire)
      <4>1. \A n \in Nat : n > 0 /\ n # 1 => 1 \in 1..n /\ 2 \in 1..n
        OBVIOUS
      <4> QED
        BY <2>1, <2>2, <4>1, Zenon
    <3>2. wire[1].idx + FrameLen(plen[j], wire[1].idx) <= wire[2].idx
      BY <1>1, <3>1 DEF Unanswered, OnWire
    <3>3. wire[2].idx < wire[2].plen /\ wire[2].plen = plen[j]
      BY <1>1, <3>1 DEF Unanswered, OnWire, SysInv, LinksOK
    <3>4. wire[2].idx \in Nat
      <4>1. wire[2] \in Frames
        BY <3>1, ElementOfSeq DEF SysInv, LinksOK
      <4> QED
        BY <4>1 DEF Frames
    <3> QED
      BY <1>1, <1>2, <2>1, <3>2, <3>3, <3>4
  <2> QED
    BY <2>2
<1> QED
  BY <1>1, <1>4, <1>5, <1>6, <1>7 DEF Sending

\* What a step that leaves the service alone leaves alone.
LEMMA ServiceStays ==
  ASSUME UNCHANGED vars, NEW j \in Job
  PROVE  /\ UNCHANGED <<main, scopeActive, cancelled, pc, file, pos, cmd, plen, idx,
                        sem, fw, offset, ret, respPermits, fileOffset, fileSize,
                        fileInputStream, unwaited, expired, otaJob,
                        cmdResponseSemaphore>>
         /\ InUpgrade(j)' <=> InUpgrade(j)
         /\ ReadsWell(j)' <=> ReadsWell(j)
         /\ Clean' <=> Clean
         /\ AllAnswered' <=> AllAnswered
         /\ SentTo(j)' = SentTo(j)
  BY DEF vars, mainVars, permits, jobVars, stream, packet, loopVars, observed,
         InUpgrade, ReadsWell, Clean, AllAnswered, Unstopped, Stopping, SentTo

\* The rest of the wire is as it was, and so is what a refusal adds to.
LEMMA WireShrinks ==
  ASSUME SysInv, NEW j \in Job, wire # <<>>, wire' = Tail(wire), OnWire(j),
         UNCHANGED vars
  PROVE  OnWire(j)'
<1>1. /\ Len(wire') = Len(wire) - 1
      /\ \A i \in 1..Len(wire') : i + 1 \in 1..Len(wire) /\ wire'[i] = wire[i + 1]
  BY ShorterWire DEF SysInv
<1>2. Len(wire) \in Nat
  BY LenProperties DEF SysInv, LinksOK
<1>3. /\ UNCHANGED <<cmd, plen, file, pos>>
      /\ SentTo(j)' = SentTo(j)
  BY ServiceStays
<1>4. \A i \in 1..Len(wire') :
        /\ wire'[i].cmd = cmd[j] /\ wire'[i].plen = plen[j]
        /\ wire'[i].file = file[j]
        /\ wire'[i].at = pos[j] - DataLength(plen[j]) - FwHeaderSize
        /\ wire'[i].idx + FrameLen(plen[j], wire'[i].idx) <= SentTo(j)
  BY <1>1 DEF OnWire
<1>5. \A i, k \in 1..Len(wire') : i < k =>
        wire'[i].idx + FrameLen(plen[j], wire'[i].idx) <= wire'[k].idx
  <2> SUFFICES ASSUME NEW i \in 1..Len(wire'), NEW k \in 1..Len(wire'), i < k
               PROVE  wire'[i].idx + FrameLen(plen[j], wire'[i].idx)
                        <= wire'[k].idx
    OBVIOUS
  <2>1. i + 1 \in 1..Len(wire) /\ k + 1 \in 1..Len(wire) /\ i + 1 < k + 1
    BY <1>1, <1>2
  <2>2. wire[i + 1].idx + FrameLen(plen[j], wire[i + 1].idx) <= wire[k + 1].idx
    BY <2>1 DEF OnWire
  <2> QED
    BY <1>1, <2>2
<1> QED
  BY <1>3, <1>4, <1>5 DEF OnWire

\* A packet that is not accepted yet stays so while its frames are lost, refused
\* or kept by the device.
LEMMA StaysUnanswered ==
  ASSUME SysInv, NEW j \in Job, Unanswered(j), UNCHANGED vars,
         OnWire(j)',
         \A i \in 1..Len(answers') : ~answers'[i].ok,
         image' = image,
         cmd[j] # VERIFY => stored' = stored
  PROVE  Unanswered(j)'
  BY ServiceStays DEF Unanswered, DATA, VERIFY

LEMMA Refused ==
  ASSUME SysInv, NEW j \in Job, Unanswered(j),
         NEW c \in {HEADER, DATA, VERIFY}, Answer(c, FALSE, 0)
  PROVE  \A i \in 1..Len(answers') : ~answers'[i].ok
<1>1. /\ Len(answers') = Len(answers) + 1
      /\ \A i \in 1..Len(answers) : answers'[i] = answers[i]
      /\ answers'[Len(answers')] = [cmd |-> c, ok |-> FALSE, off |-> 0]
  BY LongerAnswers DEF SysInv
<1>2. Len(answers) \in Nat
  BY LenProperties DEF SysInv, LinksOK
<1> SUFFICES ASSUME NEW i \in 1..Len(answers') PROVE ~answers'[i].ok
  OBVIOUS
<1>3. CASE i = Len(answers')
  BY <1>1, <1>3
<1>4. CASE i # Len(answers')
  <2>1. i \in 1..Len(answers)
    BY <1>1, <1>2, <1>4
  <2> QED
    BY <1>1, <2>1 DEF Unanswered
<1> QED
  BY <1>3, <1>4

LEMMA Granted ==
  ASSUME SysInv, NEW j \in Job, Unanswered(j),
         NEW c \in {HEADER, DATA, VERIFY}, NEW off \in Nat, Answer(c, TRUE, off)
  PROVE  \A i \in 1..Len(answers') : answers'[i].ok =>
           /\ i = Len(answers')
           /\ answers'[i].cmd = c /\ answers'[i].off = off
<1>1. /\ Len(answers') = Len(answers) + 1
      /\ \A i \in 1..Len(answers) : answers'[i] = answers[i]
      /\ answers'[Len(answers')] = [cmd |-> c, ok |-> TRUE, off |-> off]
  BY LongerAnswers DEF SysInv
<1>2. Len(answers) \in Nat
  BY LenProperties DEF SysInv, LinksOK
<1> SUFFICES ASSUME NEW i \in 1..Len(answers'), answers'[i].ok
             PROVE  /\ i = Len(answers')
                    /\ answers'[i].cmd = c /\ answers'[i].off = off
  OBVIOUS
<1>3. ASSUME i # Len(answers') PROVE FALSE
  <2>1. i \in 1..Len(answers)
    BY <1>1, <1>2, <1>3
  <2> QED
    BY <1>1, <2>1 DEF Unanswered
<1> QED
  BY <1>1, <1>3

\* A packet that is waited for, accepted or not.
LEMMA WaitsInPhase ==
  ASSUME NEW j \in Job, pc[j] \in {"gattEnter", "gattWait", "respEnter", "respWait"},
         pc' = pc, Unanswered(j)' \/ Answered(j)'
  PROVE  Phase(j)'
  BY DEF Phase, Resting

LEMMA SendsInPhase ==
  ASSUME NEW j \in Job, pc[j] \in Sending \ {"cmdFailed"},
         pc[j] = "delay" => ~IsLastFrame(plen[j], idx[j]),
         UNCHANGED <<pc, plen, idx>>, Unanswered(j)'
  PROVE  Phase(j)'
  BY DEF Phase, Resting, Sending

LEMMA ReceiveInPhase ==
  ASSUME SysInv, Clean, AppWrites, NEW j \in Job, InUpgrade(j)
  PROVE  /\ Phase(j)'
         /\ intact'
         /\ Fits(image') => stored' <= Declared(image')
<1> DEFINE f == Head(wire)
<1>1. wire # <<>> /\ Receive(f) /\ wire' = Tail(wire) /\ UNCHANGED vars
  BY DEF AppWrites
<1>2. /\ Unanswered(j) /\ pc[j] \in Sending
      /\ pc[j] = "delay" => ~IsLastFrame(plen[j], idx[j])
      /\ f.cmd = cmd[j] /\ f.plen = plen[j] /\ f.file = file[j]
      /\ f.at = pos[j] - DataLength(plen[j]) - FwHeaderSize
  BY <1>1, FrameIsOfPacket
<1>3. /\ UNCHANGED <<pc, file, pos, cmd, plen, idx, offset, respPermits>>
      /\ ReadsWell(j)' <=> ReadsWell(j)
  BY <1>1, ServiceStays
<1>4. /\ cmd[j] \in {HEADER, DATA, VERIFY} /\ DataLength(plen[j]) \in Nat
      /\ f.cmd \in {HEADER, DATA, VERIFY}
  BY <1>1, <1>2, FirstFrame DEF SysInv
<1>5. /\ stored \in Nat /\ intact /\ pos[j] \in Nat /\ offset[j] \in Nat
      /\ Fits(image) => stored <= Declared(image)
  BY DEF SysInv, DeviceOK, BothEnds, CleanDevice, ServiceInv, IInv, TypeOK
<1>6. Length(file[j]) >= FwHeaderSize
  BY <1>2 DEF SysInv, ServiceInv, ServiceOK, JobFile, FileKnown, Sending
<1>7. Length(file[j]) \in Nat /\ Declared(file[j]) \in Int /\ FwHeaderSize \in Nat
  BY FileTypes, SizesAssumption
<1>8. OnWire(j)'
  BY <1>1, <1>2, WireShrinks DEF Unanswered
<1>9. pc[j] # "cmdFailed"
  BY <1>1 DEF SysInv, BothEnds, InPhase, Phase, Resting, AtRest, Quiet
<1> HIDE DEF f
<1>10. CASE /\ Answer(f.cmd, FALSE, 0)
            /\ UNCHANGED <<image, stored, intact, verified>>
  <2>1. Unanswered(j)'
    BY <1>1, <1>2, <1>4, <1>8, <1>10, Refused, StaysUnanswered
  <2> QED
    BY <1>2, <1>3, <1>5, <1>9, <1>10, <2>1, SendsInPhase
<1>11. CASE UNCHANGED <<answers, image, stored, intact, verified>>
  <2>1. Unanswered(j)'
    BY <1>1, <1>2, <1>8, <1>11, StaysUnanswered DEF Unanswered
  <2> QED
    BY <1>2, <1>3, <1>5, <1>9, <1>11, <2>1, SendsInPhase
<1>12. CASE IsLastFrame(f.plen, f.idx) /\ HandlePacket(f)
  <2>1. /\ IsLastFrame(plen[j], idx[j])
        /\ pc[j] \in {"gattEnter", "gattWait", "respEnter", "respWait"}
        /\ Len(wire) = 1
    BY <1>1, <1>12, LastFrameIsLast DEF f
  <2>2. wire' = <<>>
    <3>1. wire' \in Seq(Frames) /\ Len(wire') = 0
      BY <1>1, <2>1, ShorterWire DEF SysInv
    <3> QED
      BY <3>1, EmptySeq
  <2>3. CASE f.cmd = HEADER /\ HandleHeader(f)
    <3>1. /\ cmd[j] = HEADER /\ image' = file[j]
          /\ \/ stored' = stored /\ intact' = intact /\ image' = image
             \/ stored' = 0 /\ intact' = TRUE
      BY <1>2, <2>3 DEF HandleHeader
    <3>2. stored' \in Nat /\ intact'
      <4>1. stored' \in {stored, 0}
        BY <3>1, Zenon
      <4>2. stored' \in Nat
        BY <1>5, <4>1
      <4>3. intact'
        BY <1>5, <3>1, Zenon
      <4> QED
        BY <4>2, <4>3
    <3>3. Answer(HEADER, TRUE, stored')
      BY <2>3 DEF HandleHeader
    <3>4. \A i \in 1..Len(answers') : answers'[i].ok =>
            i = Len(answers') /\ answers'[i].cmd = HEADER
              /\ answers'[i].off = stored'
      BY <1>2, <3>2, <3>3, Granted
    <3>5. Accepted(j)'
      BY <1>2, <1>3, <2>1, <2>2, <3>1
      DEF Accepted, Unanswered, HEADER, DATA, VERIFY
    <3>6. Answered(j)'
      BY <1>2, <1>3, <3>1, <3>4, <3>5 DEF Answered, Unanswered
    <3>7. Fits(image') => stored' <= Declared(image')
      <4>1. CASE stored' = stored /\ image' = image
        BY <1>5, <4>1
      <4>2. CASE stored' = 0
        BY <1>6, <1>7, <3>1, <4>2 DEF Fits
      <4> QED
        BY <3>1, <4>1, <4>2
    <3> QED
      BY <1>3, <2>1, <3>2, <3>6, <3>7, WaitsInPhase
  <2>4. CASE f.cmd = DATA /\ HandleData(f)
    <3>1. /\ cmd[j] = DATA /\ image = file[j]
          /\ pos[j] = FwHeaderSize + stored + DataLength(plen[j])
          /\ pos[j] <= Length(file[j])
          /\ ReadsWell(j) => offset[j] = stored
      BY <1>2, <2>4 DEF Unanswered, HEADER, DATA
    <3>2. f.at = stored
      BY <1>2, <1>4, <1>5, <1>7, <3>1
    <3>3. /\ stored' = stored + DataLength(plen[j])
          /\ intact' = (intact /\ f.file = image /\ f.at = stored)
          /\ UNCHANGED <<image, verified>>
          /\ Answer(DATA, TRUE, 0)
      BY <1>2, <2>4 DEF HandleData
    <3>4. intact'
      BY <1>2, <1>5, <3>1, <3>2, <3>3
    <3>5. \A i \in 1..Len(answers') : answers'[i].ok =>
            i = Len(answers') /\ answers'[i].cmd = DATA
      BY <1>2, <3>3, Granted
    <3>6. /\ pos[j] = FwHeaderSize + stored'
          /\ ReadsWell(j) => offset[j] + DataLength(plen[j]) = stored'
      BY <1>4, <1>5, <1>7, <3>1, <3>3
    <3>7. Accepted(j)'
      BY <1>3, <2>1, <2>2, <3>1, <3>3, <3>6
      DEF Accepted, HEADER, DATA, VERIFY
    <3>8. Answered(j)'
      BY <1>2, <1>3, <3>1, <3>5, <3>7 DEF Answered, Unanswered, HEADER, DATA
    <3>9. Fits(image') => stored' <= Declared(image')
      BY <1>4, <1>5, <1>7, <3>1, <3>3 DEF Fits
    <3> QED
      BY <1>3, <2>1, <3>4, <3>8, <3>9, WaitsInPhase
  <2>5. CASE f.cmd = VERIFY /\ HandleVerify(f)
    <3> DEFINE valid == intact /\ stored = Declared(image)
    <3>1. cmd[j] = VERIFY /\ image = file[j]
      BY <1>2, <2>5 DEF Unanswered, HEADER, VERIFY
    <3>2. intact' /\ image' = image
      BY <2>5 DEF HandleVerify
    <3>3. CASE valid
      <4>1. /\ verified' = image /\ stored' = stored
            /\ Answer(VERIFY, TRUE, 0)
        BY <2>5, <3>3 DEF HandleVerify
      <4>2. \A i \in 1..Len(answers') : answers'[i].ok =>
              i = Len(answers') /\ answers'[i].cmd = VERIFY
        BY <1>2, <4>1, Granted
      <4>3. Accepted(j)'
        BY <1>3, <2>1, <2>2, <3>1, <3>2, <4>1
        DEF Accepted, HEADER, DATA, VERIFY
      <4>4. Answered(j)'
        BY <1>2, <1>3, <3>1, <4>2, <4>3
        DEF Answered, Unanswered, HEADER, VERIFY
      <4> QED
        BY <1>3, <1>5, <2>1, <3>2, <4>1, <4>4, WaitsInPhase
    <3>4. CASE ~valid
      <4>1. stored' = 0 /\ Answer(VERIFY, FALSE, 0)
        BY <2>5, <3>4 DEF HandleVerify
      <4>2. Unanswered(j)'
        BY <1>1, <1>2, <1>8, <3>1, <3>2, <4>1, Refused, StaysUnanswered
      <4>3. Fits(image') => stored' <= Declared(image')
        BY <1>6, <1>7, <3>1, <3>2, <4>1 DEF Fits
      <4> QED
        BY <1>3, <2>1, <3>2, <4>2, <4>3, WaitsInPhase
    <3> QED
      BY <3>3, <3>4
  <2> QED
    BY <1>12, <2>3, <2>4, <2>5 DEF HandlePacket
<1> QED
  BY <1>1, <1>10, <1>11, <1>12 DEF Receive

-----------------------------------------------------------------------------
(* The steps of the links and of the main thread keep both ends in step.   *)

\* What neither end notices.
LEMMA BothEndsStay ==
  ASSUME BothEnds, Clean' => Clean, AllAnswered' => AllAnswered,
         main' = main \/ main' # "startFlag", cancelled \subseteq cancelled',
         UNCHANGED <<wire, answers, image, stored, intact, verified, pc, file, pos,
                     cmd, plen, idx, offset, ret, respPermits, fileOffset,
                     fileInputStream>>
  PROVE  BothEnds'
<1>1. CleanDevice' /\ QuietBetween'
  BY DEF BothEnds, CleanDevice, QuietBetween, Quiet, InUpgrade, Fits
<1>2. InPhase'
  BY DEF BothEnds, InPhase, InUpgrade, Phase, AtRest, Quiet, Unanswered, Answered,
         Settled, Accepted, OnWire, SentTo, ReadsWell
<1>3. KeepsVerified'
  BY DEF BothEnds, KeepsVerified, Verified
<1> QED
  BY <1>1, <1>2, <1>3 DEF BothEnds

\* A stop, after which only a verified image matters.
LEMMA BothEndsStop ==
  ASSUME BothEnds, ~Clean', AllAnswered' => AllAnswered,
         cancelled \subseteq cancelled',
         UNCHANGED <<wire, verified, pc, cmd, plen, idx, file>>
  PROVE  BothEnds'
<1>1. CleanDevice' /\ QuietBetween' /\ InPhase'
  BY DEF CleanDevice, QuietBetween, InPhase
<1>2. KeepsVerified'
  BY DEF BothEnds, KeepsVerified, Verified
<1> QED
  BY <1>1, <1>2 DEF BothEnds

\* As long as something is on the wire no upgrade is done, or between packets.
LEMMA BusyWire ==
  ASSUME BothEnds, wire # <<>>, UNCHANGED vars
  PROVE  KeepsVerified' /\ QuietBetween'
<1>1. UNCHANGED <<main, cancelled, pc, cmd, plen, idx>>
  BY DEF vars, mainVars, jobVars, packet
<1>2. (AllAnswered' <=> AllAnswered) /\ (Clean' <=> Clean)
  BY DEF vars, mainVars, observed, AllAnswered, Clean, Unstopped, Stopping
<1>3. KeepsVerified'
  BY <1>1, <1>2 DEF BothEnds, KeepsVerified, Verified
<1>4. QuietBetween'
  BY <1>1, <1>2 DEF BothEnds, QuietBetween, Quiet, InUpgrade
<1> QED
  BY <1>3, <1>4

LEMMA WritesKeepEnds ==
  ASSUME SysInv, AppWrites
  PROVE  BothEnds'
<1>1. wire # <<>> /\ UNCHANGED vars
  BY DEF AppWrites
<1>2. Clean' <=> Clean
  BY <1>1 DEF vars, mainVars, observed, AllAnswered, Clean, Unstopped, Stopping
<1>3. KeepsVerified' /\ QuietBetween'
  BY <1>1, BusyWire DEF SysInv
<1>4. InPhase'
  BY <1>1, <1>2, ServiceStays, ReceiveInPhase DEF InPhase
<1>5. CleanDevice'
  <2> SUFFICES ASSUME Clean
               PROVE  intact' /\ (Fits(image') => stored' <= Declared(image'))
    BY <1>2 DEF CleanDevice, Fits
  <2>1. PICK j \in Job : InUpgrade(j)
    BY <1>1 DEF SysInv, BothEnds, QuietBetween, Quiet
  <2> QED
    BY <2>1, ReceiveInPhase
<1> QED
  BY <1>3, <1>4, <1>5 DEF BothEnds

LEMMA ConfirmsKeepEnds ==
  ASSUME SysInv, AppConfirms
  PROVE  BothEnds'
<1>1. /\ UNCHANGED <<wire, answers, device>>
      /\ UNCHANGED <<mainVars, jobVars, observed, respPermits>>
  BY DEF AppConfirms, CmdGattReplayArrived, vars, permits
<1>2. (AllAnswered' <=> AllAnswered) /\ (Clean' <=> Clean)
  BY <1>1 DEF mainVars, observed, AllAnswered, Clean, Unstopped, Stopping
<1> QED
  BY <1>1, <1>2, BothEndsStay
  DEF SysInv, device, mainVars, jobVars, stream, packet, loopVars

\* A lost frame.
LEMMA LostFrame ==
  ASSUME SysInv, wire # <<>>, wire' = Tail(wire),
         UNCHANGED <<answers, vars, device>>
  PROVE  BothEnds'
<1>1. /\ Clean' <=> Clean
      /\ UNCHANGED <<image, stored, intact, verified>>
  BY DEF vars, mainVars, observed, AllAnswered, Clean, Unstopped, Stopping, device
<1>2. KeepsVerified' /\ QuietBetween'
  BY BusyWire DEF SysInv
<1>3. CleanDevice'
  BY <1>1 DEF SysInv, BothEnds, CleanDevice, Fits
<1>4. ASSUME Clean, NEW j \in Job, InUpgrade(j)
      PROVE  Phase(j)'
  <2>1. /\ Unanswered(j) /\ pc[j] \in Sending
        /\ pc[j] = "delay" => ~IsLastFrame(plen[j], idx[j])
    BY <1>4, FrameIsOfPacket
  <2>2. pc[j] # "cmdFailed"
    BY <1>4 DEF SysInv, BothEnds, InPhase, Phase, Resting, AtRest, Quiet
  <2>3. OnWire(j)'
    BY <2>1, WireShrinks DEF Unanswered
  <2>4. Unanswered(j)'
    BY <1>1, <2>1, <2>3, StaysUnanswered DEF Unanswered
  <2> QED
    BY <2>1, <2>2, <2>4, ServiceStays, SendsInPhase
<1> QED
  BY <1>1, <1>2, <1>3, <1>4, ServiceStays DEF BothEnds, InPhase

\* A lost answer.
LEMMA LostAnswer ==
  ASSUME SysInv, answers # <<>>, answers' = Tail(answers),
         UNCHANGED <<wire, vars, device>>
  PROVE  BothEnds'
<1>1. UNCHANGED <<image, stored, intact, verified>>
  BY DEF device
<1>2. /\ Clean' <=> Clean
      /\ AllAnswered' <=> AllAnswered
      /\ UNCHANGED <<main, pc, cmd, plen, idx, cancelled, file>>
  BY DEF vars, mainVars, observed, AllAnswered, Clean, Unstopped, Stopping, jobVars, packet,
         stream
<1>3. CleanDevice' /\ QuietBetween' /\ KeepsVerified'
  BY <1>1, <1>2
  DEF SysInv, BothEnds, CleanDevice, Fits, QuietBetween, Quiet, KeepsVerified,
      Verified, InUpgrade
<1>4. /\ Len(answers') = Len(answers) - 1
      /\ \A i \in 1..Len(answers') :
           i + 1 \in 1..Len(answers) /\ answers'[i] = answers[i + 1]
      /\ Len(answers) \in Nat
  BY ShorterAnswers, LenProperties DEF SysInv, LinksOK
<1>5. ASSUME Clean, NEW j \in Job, InUpgrade(j)
      PROVE  Phase(j)'
  <2>1. Phase(j) /\ pc[j] \notin Resting /\ ~Settled(j)
    BY <1>5 DEF SysInv, BothEnds, InPhase, Phase, AtRest, Quiet, Settled
  <2>2. /\ UNCHANGED <<pc, file, pos, cmd, plen, idx, offset, respPermits,
                       fileOffset>>
        /\ SentTo(j)' = SentTo(j)
        /\ ReadsWell(j)' <=> ReadsWell(j)
    BY ServiceStays
  <2>3. ASSUME Unanswered(j) PROVE Unanswered(j)'
    <3>1. \A i \in 1..Len(answers') : ~answers'[i].ok
      BY <1>4, <2>3 DEF Unanswered
    <3>2. OnWire(j)'
      BY <2>2, <2>3 DEF Unanswered, OnWire
    <3> QED
      BY <1>1, <2>3, <3>1, <3>2, StaysUnanswered
  <2>4. ASSUME Answered(j) PROVE Answered(j)'
    <3>1. Accepted(j)'
      BY <1>1, <2>2, <2>4 DEF Answered, Accepted
    <3>2. respPermits[j] = 0
      BY <2>4 DEF Answered
    <3>3. \A i \in 1..Len(answers') : answers'[i].ok =>
            /\ i = Len(answers')
            /\ answers'[i].cmd = cmd[j]
            /\ cmd[j] = HEADER => answers'[i].off = stored
      <4> SUFFICES ASSUME NEW i \in 1..Len(answers'), answers'[i].ok
                   PROVE  /\ i = Len(answers')
                          /\ answers'[i].cmd = cmd[j]
                          /\ cmd[j] = HEADER => answers'[i].off = stored
        OBVIOUS
      <4>1. i + 1 \in 1..Len(answers) /\ answers[i + 1].ok
            /\ answers'[i] = answers[i + 1]
        BY <1>4
      <4>2. /\ i + 1 = Len(answers) /\ answers[i + 1].cmd = cmd[j]
            /\ cmd[j] = HEADER => answers[i + 1].off = stored
        BY <2>4, <3>2, <4>1 DEF Answered
      <4>3. i = Len(answers')
        <5>1. Len(answers') = Len(answers) - 1 /\ Len(answers) \in Nat
          BY <1>4
        <5>2. i + 1 = Len(answers)
          BY <4>2
        <5>3. i \in Int
          OBVIOUS
        <5>4. (i + 1) - 1 = i
          BY <5>3
        <5> QED
          BY <5>1, <5>2, <5>4, Zenon
      <4> QED
        BY <4>1, <4>2, <4>3
    <3> QED
      BY <1>1, <2>2, <3>1, <3>2, <3>3 DEF Answered
  <2> QED
    BY <2>1, <2>2, <2>3, <2>4 DEF Phase
<1>6. InPhase'
  BY <1>2, <1>5 DEF InPhase, InUpgrade
<1> QED
  BY <1>3, <1>6 DEF BothEnds

LEMMA LoseKeepEnds ==
  ASSUME SysInv, Lose
  PROVE  BothEnds'
<1>1. UNCHANGED <<vars, device>>
  BY DEF Lose
<1>2. CASE wire # <<>> /\ wire' = Tail(wire) /\ UNCHANGED <<replies, answers>>
  BY <1>1, <1>2, LostFrame
<1>3. CASE answers # <<>> /\ answers' = Tail(answers) /\ UNCHANGED <<wire, replies>>
  BY <1>1, <1>3, LostAnswer
<1>4. CASE UNCHANGED <<wire, answers>>
  <2>1. (AllAnswered' <=> AllAnswered) /\ (Clean' <=> Clean)
    BY <1>1 DEF vars, mainVars, observed, AllAnswered, Clean, Unstopped, Stopping
  <2> QED
    BY <1>1, <1>4, <2>1, BothEndsStay
    DEF SysInv, device, vars, mainVars, jobVars, stream, packet, loopVars, permits
<1> QED
  BY <1>2, <1>3, <1>4 DEF Lose

\* An answer reaches the service: an error begins a stop, and a good one is that
\* of the packet that is waited for.
LEMMA NotifiesKeepEnds ==
  ASSUME SysInv, AppNotifies
  PROVE  BothEnds'
<1> DEFINE a == Head(answers)
<1>1. /\ answers # <<>> /\ OtaCmdResponse(a.cmd, a.ok, a.off)
      /\ answers' = Tail(answers) /\ UNCHANGED <<wire, device>>
  BY DEF AppNotifies
<1>2. /\ a.cmd \in {HEADER, DATA, VERIFY} /\ a.cmd \in AmotaCmd \ {UNKNOWN}
      /\ a.off \in Nat /\ a = answers[1]
      /\ Len(answers) \in Nat /\ Len(answers) > 0
  BY <1>1, FirstAnswer DEF SysInv
<1>3. /\ Len(answers') = Len(answers) - 1
      /\ answers' \in Seq(Notices)
  BY <1>1, ShorterAnswers DEF SysInv
<1>4. UNCHANGED <<image, stored, intact, verified>>
  BY <1>1 DEF device
<1> HIDE DEF a
<1>5. CASE ResponseError(a.cmd)
  <2>1. /\ ~Clean' /\ (AllAnswered' <=> AllAnswered)
        /\ UNCHANGED <<pc, cmd, plen, idx, file, cancelled>>
    BY <1>5
    DEF ResponseError, BeginStop, Clean, Unstopped, Stopping, StopTypes,
        AllAnswered, jobVars, packet, stream
  <2> QED
    BY <1>1, <1>4, <2>1, BothEndsStop DEF SysInv
<1>6. CASE a.ok /\ ResponseOk(a.cmd, a.off)
  <2>1. /\ UNCHANGED <<main, otaJob, cancelled, cmdResponseSemaphore, scopeActive>>
        /\ UNCHANGED <<pc, file, pos, cmd, plen, idx, offset, ret, unwaited,
                       expired, fileInputStream>>
        /\ fileOffset' = IF a.cmd = HEADER THEN a.off ELSE fileOffset
        /\ respPermits' = Release(respPermits, cmdResponseSemaphore)
    BY <1>6
    DEF ResponseOk, jobVars, packet, stream, loopVars, observed
  <2>2. (AllAnswered' <=> AllAnswered) /\ (Clean' <=> Clean)
    BY <2>1 DEF Clean, AllAnswered, Unstopped, Stopping
  <2>3. CleanDevice' /\ KeepsVerified'
    BY <1>1, <1>4, <2>1, <2>2
    DEF SysInv, BothEnds, CleanDevice, Fits, KeepsVerified, Verified
  <2>4. ASSUME Clean, NEW j \in Job, InUpgrade(j)
        PROVE  Phase(j)' /\ answers' = <<>>
    <3>1. Phase(j) /\ pc[j] \notin Resting /\ ~Settled(j)
      BY <1>1, <2>4 DEF SysInv, BothEnds, InPhase, Phase, AtRest, Quiet, Settled
    <3>2. ~Unanswered(j)
      BY <1>2, <1>6 DEF Unanswered
    <3>3. /\ pc[j] \in {"gattEnter", "gattWait", "respEnter", "respWait"}
          /\ Answered(j)
      <4>1. pc[j] \in PcTypes
        BY DEF SysInv, ServiceInv, IInv, TypeOK
      <4> QED
        BY <2>4, <3>1, <3>2, <4>1 DEF Phase, Resting, PcTypes, InUpgrade
    <3>4. /\ respPermits[j] = 0 /\ 1 = Len(answers)
          /\ a.cmd = cmd[j]
          /\ cmd[j] = HEADER => a.off = stored
      <4>1. 1 \in 1..Len(answers) /\ answers[1].ok
        BY <1>2, <1>6
      <4> QED
        BY <1>1, <1>2, <3>3, <4>1 DEF Answered
    <3>5. answers' = <<>>
      <4>1. Len(answers') = 0
        <5>1. Len(answers') = Len(answers) - 1
          BY <1>3
        <5>2. Len(answers) = 1
          BY <3>4
        <5> QED
          BY <5>1, <5>2
      <4> QED
        BY <1>3, <4>1, EmptySeq
    <3>6. cmdResponseSemaphore = j /\ j # NoJob
      BY <2>4, StartsAreJobs
      DEF Clean, SysInv, ServiceInv, ServiceOK, OwnsFields, NotStopped, IInv, TypeOK
    <3>7. respPermits'[j] = 1
      BY <2>1, <3>4, <3>6 DEF Release, SysInv, ServiceInv, IInv, TypeOK
    <3>8. Accepted(j)'
      BY <1>1, <1>4, <2>1, <3>3 DEF Answered, Accepted, ReadsWell
    <3>9. Answered(j)'
      BY <1>4, <2>1, <3>4, <3>5, <3>7, <3>8 DEF Answered
    <3> QED
      BY <2>1, <3>3, <3>5, <3>9, WaitsInPhase
  <2>5. InPhase'
    BY <2>1, <2>2, <2>4 DEF InPhase, InUpgrade
  <2>6. QuietBetween'
    BY <1>1, <2>1, <2>2
    DEF SysInv, BothEnds, QuietBetween, Quiet, InUpgrade
  <2> QED
    BY <2>3, <2>5, <2>6 DEF BothEnds
<1> QED
  BY <1>1, <1>2, <1>5, <1>6 DEF OtaCmdResponse, ResponseUnknown

\* A new job begins with nothing in flight and semaphores of its own.
LEMMA StartKeepsEnds ==
  ASSUME SysInv, NEW p \in Path, AmOtaStart(p), UNCHANGED <<links, device>>
  PROVE  BothEnds'
<1> DEFINE n == starts + 1
<1>1. /\ n \in Job /\ n > starts
      /\ UNCHANGED <<wire, answers, image, stored, intact, verified>>
  BY StartsAreJobs DEF links, device, SysInv, ServiceInv, IInv, TypeOK, AmOtaStart
<1>2. /\ pc[n] = "none" /\ \A j \in Job : j # n => pc'[j] = pc[j]
      /\ pc'[n] = IF scopeActive THEN "ready" ELSE "done"
  BY <1>1 DEF SysInv, ServiceInv, IInv, NotStarted, TypeOK, AmOtaStart, Goto
<1>3. /\ Unstopped' <=> scopeActive
      /\ AllAnswered' <=> AllAnswered
      /\ Clean' => Clean /\ \A j \in Job : ~InUpgrade(j)
  BY DEF AmOtaStart, Clean, Unstopped, Stopping, StopTypes, AllAnswered, SysInv,
         ServiceInv, IInv, FlagHeld
<1>4. Clean' => Quiet /\ Quiet'
  BY <1>1, <1>3 DEF SysInv, BothEnds, QuietBetween, Quiet
<1>5. CleanDevice' /\ QuietBetween'
  BY <1>1, <1>3, <1>4
  DEF SysInv, BothEnds, CleanDevice, Fits, QuietBetween
<1>6. InPhase'
  <2> SUFFICES ASSUME Clean', NEW j \in Job, InUpgrade(j)'
               PROVE  Phase(j)'
    BY DEF InPhase
  <2>1. j = n /\ pc'[n] = "ready"
    BY <1>2, <1>3 DEF InUpgrade
  <2>2. respPermits'[n] = 0
    BY <1>1, <1>2
    DEF AmOtaStart, permits, SysInv, ServiceInv, ServiceOK, FreshPermits
  <2> QED
    BY <1>4, <2>1, <2>2 DEF Phase, AtRest
<1>7. KeepsVerified'
  <2> SUFFICES ASSUME NEW j \in Job, AllAnswered',
                      \/ pc'[j] = "succeed"
                      \/ /\ pc'[j] = "delay" /\ j \notin cancelled'
                         /\ cmd'[j] = VERIFY /\ IsLastFrame(plen'[j], idx'[j])
               PROVE  Verified(j)'
    BY DEF KeepsVerified
  <2>1. j # n /\ pc'[j] = pc[j]
    BY <1>1, <1>2
  <2>2. UNCHANGED <<cmd, plen, idx, file>> /\ cancelled \subseteq cancelled'
    BY DEF AmOtaStart, packet, stream
  <2> QED
    BY <1>1, <1>3, <2>1, <2>2
    DEF SysInv, BothEnds, KeepsVerified, Verified
<1> QED
  BY <1>5, <1>6, <1>7 DEF BothEnds

LEMMA UserKeepsEnds ==
  ASSUME SysInv, User
  PROVE  BothEnds'
<1>1. UNCHANGED <<links, device>>
  BY DEF User
<1>2. ASSUME NEW p \in Path, AmOtaStart(p) PROVE BothEnds'
  BY <1>1, <1>2, StartKeepsEnds
<1>3. CASE AmOtaStop
  <2>1. /\ ~Clean' /\ (AllAnswered' <=> AllAnswered)
        /\ UNCHANGED <<pc, cmd, plen, idx, file, cancelled>>
    BY <1>3
    DEF AmOtaStop, BeginStop, Clean, Unstopped, Stopping, StopTypes,
        AllAnswered, jobVars, packet, stream, observed
  <2> QED
    BY <1>1, <2>1, BothEndsStop DEF SysInv, links, device
<1> QED
  BY <1>2, <1>3 DEF User

LEMMA MainKeepsEnds ==
  ASSUME SysInv, MainRuns
  PROVE  BothEnds'
<1>1. UNCHANGED <<wire, answers, image, stored, intact, verified>>
  BY DEF MainRuns, links, device
<1>2. CASE StartSetsFlag \/ StartPosts \/ StopPosts
  <2>1. /\ Clean' => Clean
        /\ AllAnswered' => AllAnswered
        /\ main' # "startFlag"
        /\ UNCHANGED <<cancelled, pc, file, pos, cmd, plen, idx, offset, ret,
                       respPermits, fileOffset, fileInputStream>>
    BY <1>2
    DEF StartSetsFlag, StartPosts, StopPosts, Clean, Unstopped, Stopping,
        StopTypes, AllAnswered, jobVars, packet, stream, loopVars, permits, observed
  <2> QED
    BY <1>1, <2>1, BothEndsStay DEF SysInv
<1>3. CASE \/ StopClearsOffset \/ StopReleasesGatt \/ StopDropsGatt
           \/ StopReleasesResponse \/ StopDropsResponse
           \/ StopClearsFlag \/ StopCancels
  <2>1. /\ ~Clean'
        /\ AllAnswered' => AllAnswered
        /\ cancelled \subseteq cancelled'
        /\ UNCHANGED <<pc, cmd, plen, idx, file>>
    BY <1>3
    DEF StopClearsOffset, StopReleasesGatt, StopDropsGatt, StopReleasesResponse,
        StopDropsResponse, StopClearsFlag, StopCancels, Clean, Unstopped,
        Stopping, StopTypes, AllAnswered, jobVars, packet, stream, observed
  <2> QED
    BY <1>1, <2>1, BothEndsStop DEF SysInv
<1> QED
  BY <1>2, <1>3 DEF MainRuns, MainContinues

-----------------------------------------------------------------------------
(* The steps of the jobs keep both ends in step.                           *)

ends == <<wire, answers, device>>

\* Where a job that was not stopped stands.
LEMMA UpgradeFacts ==
  ASSUME SysInv, Clean, NEW j \in Job, InUpgrade(j)
  PROVE  /\ Phase(j) /\ FileKnown(j)
         /\ cmdResponseSemaphore = j /\ cmdGattReplySemaphore = j /\ j # NoJob
         /\ cancelled = {}
         /\ isOtaUpgrading \/ (main = "startFlag" /\ Quiet /\ AtFirstFrame(j))
         /\ pc[j] \in {"gattWait", "respWait"} => sem[j] = j
<1>1. Unstopped /\ IInv /\ ServiceOK /\ RunsAhead
  BY DEF SysInv, ServiceInv, Clean, ReportInv
<1>2. Phase(j) /\ FileKnown(j)
  BY <1>1 DEF SysInv, BothEnds, InPhase, ServiceOK, JobFile
<1>3. cmdResponseSemaphore = j /\ cmdGattReplySemaphore = j /\ j # NoJob
  BY <1>1, StartsAreJobs
  DEF ServiceOK, OwnsFields, Unstopped, Stopping, StopTypes, IInv,
      SemaphoresPaired, TypeOK
<1>4. cancelled = {}
  BY <1>1 DEF ServiceOK, OnlyStopsCancel, Unstopped, Stopping
<1>5. isOtaUpgrading \/ main = "startFlag"
  BY <1>1 DEF IInv, FlagHeld, Unstopped, Stopping, StopTypes
<1>6. main = "startFlag" => Quiet /\ AtFirstFrame(j)
  BY <1>1 DEF RunsAhead, Unstopped, Stopping, SysInv, BothEnds, QuietBetween
<1>7. pc[j] \in {"gattWait", "respWait"} => sem[j] = j
  BY <1>1 DEF ServiceOK, WaitsOnOwn
<1> QED
  BY <1>2, <1>3, <1>4, <1>5, <1>6, <1>7

\* A step inside the sending of a packet that leaves what it relates alone.
LEMMA PacketStays ==
  ASSUME NEW j \in Job, UNCHANGED ends,
         UNCHANGED <<file, pos, cmd, plen, idx, offset, respPermits, fileOffset,
                     fileInputStream>>,
         pc'[j] \in {"check", "post"} <=> pc[j] \in {"check", "post"}
  PROVE  (Unanswered(j)' <=> Unanswered(j)) /\ (Answered(j)' <=> Answered(j))
<1>1. SentTo(j)' = SentTo(j)
  BY DEF SentTo
<1>2. ReadsWell(j)' <=> ReadsWell(j)
  BY DEF ReadsWell
<1> QED
  BY <1>1, <1>2
  DEF Unanswered, Answered, Accepted, OnWire, ends, device

\* A packet that is begun is not answered.
LEMMA BegunUnanswered ==
  ASSUME NEW j \in Job, Quiet', respPermits'[j] = 0,
         cmd'[j] = HEADER => pos'[j] = FwHeaderSize,
         cmd'[j] # HEADER => image' = file'[j],
         cmd'[j] = DATA =>
           /\ pos'[j] = FwHeaderSize + stored' + DataLength(plen'[j])
           /\ pos'[j] <= Length(file'[j])
           /\ ReadsWell(j)' => offset'[j] = stored'
  PROVE  Unanswered(j)'
<1>1. wire' = <<>> /\ answers' = <<>>
  BY DEF Quiet
<1>2. 1..Len(wire') = {} /\ 1..Len(answers') = {}
  BY <1>1
<1> QED
  BY <1>2 DEF Unanswered, OnWire

\* The frame joins those of its packet that are on the wire.
LEMMA PostInPhase ==
  ASSUME SysInv, Clean, NEW j \in Job, JobPosts(j)
  PROVE  Phase(j)'
<1>1. /\ pc[j] = "post" /\ InUpgrade(j) /\ pc' = [pc EXCEPT ![j] = "gattEnter"]
      /\ UNCHANGED <<file, pos, cmd, plen, idx, offset, respPermits, answers,
                     image, stored, fileInputStream>>
      /\ wire' = Append(wire, Frame(j))
  BY DEF JobPosts, PostFrame, Goto, InUpgrade, stream, packet, loopVars, permits,
         device
<1>2. pc'[j] = "gattEnter"
  BY <1>1 DEF SysInv, ServiceInv, IInv, TypeOK
<1>3. Unanswered(j)
  BY <1>1, UpgradeFacts DEF Phase
<1>4. /\ Len(wire') = Len(wire) + 1
      /\ \A i \in 1..Len(wire) : wire'[i] = wire[i]
      /\ wire'[Len(wire')] = Frame(j)
  BY <1>1, LongerWire DEF SysInv, ServiceInv
<1>5. Len(wire) \in Nat
  BY LenProperties DEF SysInv, LinksOK
<1>6. /\ plen[j] \in Nat /\ idx[j] \in Nat /\ FrameLen(plen[j], idx[j]) \in Nat
      /\ SentTo(j) = idx[j]
      /\ SentTo(j)' = idx[j] + FrameLen(plen[j], idx[j])
  <2>1. plen[j] \in Nat /\ idx[j] \in Nat /\ idx[j] < plen[j]
    BY <1>1, PostedFrame DEF SysInv, ServiceInv, IInv, TypeOK
  <2>2. FrameLen(plen[j], idx[j]) \in Nat
    BY <2>1, FrameBounds
  <2>3. SentTo(j) = idx[j] /\ SentTo(j)' = idx[j] + FrameLen(plen[j], idx[j])
    BY <1>1, <1>2, <2>1 DEF SentTo
  <2> QED
    BY <2>1, <2>2, <2>3
<1>7. \A i \in 1..Len(wire) :
        wire[i].idx \in Nat /\ FrameLen(plen[j], wire[i].idx) \in Nat
  <2> SUFFICES ASSUME NEW i \in 1..Len(wire)
               PROVE  wire[i].idx \in Nat /\ FrameLen(plen[j], wire[i].idx) \in Nat
    OBVIOUS
  <2>1. wire[i] \in Frames /\ wire[i].idx < wire[i].plen
    BY ElementOfSeq DEF SysInv, LinksOK
  <2>2. wire[i].idx \in Nat /\ wire[i].plen = plen[j]
    BY <1>3, <2>1 DEF Frames, Unanswered, OnWire
  <2> QED
    BY <1>6, <2>1, <2>2, FrameBounds
<1>8. OnWire(j)'
  <2>1. ASSUME NEW i \in 1..Len(wire')
        PROVE  \/ i \in 1..Len(wire) /\ wire'[i] = wire[i]
               \/ i = Len(wire') /\ wire'[i] = Frame(j)
    BY <1>4, <1>5
  <2>2. ASSUME NEW i \in 1..Len(wire')
        PROVE  /\ wire'[i].cmd = cmd[j] /\ wire'[i].plen = plen[j]
               /\ wire'[i].file = file[j]
               /\ wire'[i].at = pos[j] - DataLength(plen[j]) - FwHeaderSize
               /\ wire'[i].idx + FrameLen(plen[j], wire'[i].idx) <= SentTo(j)'
    <3>1. CASE i \in 1..Len(wire) /\ wire'[i] = wire[i]
      BY <1>3, <1>6, <1>7, <3>1 DEF Unanswered, OnWire
    <3>2. CASE wire'[i] = Frame(j)
      BY <1>6, <3>2 DEF Frame
    <3> QED
      BY <2>1, <3>1, <3>2
  <2>3. ASSUME NEW i \in 1..Len(wire'), NEW k \in 1..Len(wire'), i < k
        PROVE  wire'[i].idx + FrameLen(plen[j], wire'[i].idx) <= wire'[k].idx
    <3>1. i \in 1..Len(wire) /\ wire'[i] = wire[i]
      BY <1>4, <1>5, <2>3
    <3>2. CASE k \in 1..Len(wire) /\ wire'[k] = wire[k]
      BY <1>3, <2>3, <3>1, <3>2 DEF Unanswered, OnWire
    <3>3. CASE wire'[k] = Frame(j)
      BY <1>3, <1>6, <3>1, <3>3 DEF Unanswered, OnWire, Frame
    <3> QED
      BY <2>1, <3>2, <3>3
  <2> QED
    BY <1>1, <2>2, <2>3 DEF OnWire
<1>9. Unanswered(j)'
  <2>1. ReadsWell(j)' <=> ReadsWell(j)
    BY <1>1 DEF ReadsWell
  <2> QED
    BY <1>1, <1>3, <1>8, <2>1 DEF Unanswered
<1> QED
  BY <1>2, <1>9 DEF Phase, Resting

\* The steps from a program point between two packets.
LEMMA RestInPhase ==
  ASSUME SysInv, Clean, NEW j \in Job, InUpgrade(j), pc[j] \in Resting,
         JobContinues(j), InUpgrade(j)', UNCHANGED <<links, device>>
  PROVE  Phase(j)'
<1>1. /\ AtRest(j) /\ FileKnown(j)
      /\ isOtaUpgrading \/ main = "startFlag"
      /\ cancelled = {}
  BY UpgradeFacts DEF Phase
<1>2. /\ Quiet' /\ Quiet /\ respPermits[j] = 0
      /\ UNCHANGED <<image, stored>>
  BY <1>1 DEF AtRest, Quiet, links, device
<1>3. TypeOK /\ stored \in Nat
  BY DEF SysInv, ServiceInv, IInv, DeviceOK
<1>4. pc[j] \notin NoStream => fileInputStream \in {j, NoJob}
  BY ReadsOwn DEF SysInv, ServiceInv
<1>5. FwHeaderSize \in Nat /\ FwPacketSize \in Nat \ {0} /\ NoJob \notin Job
  BY SizesAssumption, StartsAreJobs DEF TypeOK, SysInv, ServiceInv, IInv
<1> SUFFICES \/ pc'[j] \in Resting /\ AtRest(j)'
             \/ pc'[j] = "check" /\ Unanswered(j)'
  BY DEF Phase, Resting
<1>6. CASE OpenFails(j)
  BY <1>2, <1>3, <1>6
  DEF OpenFails, Throw, Goto, TypeOK, permits, Resting, AtRest
<1>7. CASE OpenFile(j)
  BY <1>2, <1>3, <1>7
  DEF OpenFile, Goto, TypeOK, permits, Resting, AtRest, InUpgrade
<1>8. CASE ReadHeader(j)
  <2> DEFINE s == fileInputStream
  <2>1. pc[j] = "readHeader" /\ s = j /\ pos[j] = 0 /\ respPermits' = respPermits
    BY <1>4, <1>8
    DEF ReadHeader, NoStream, permits, SysInv, ServiceInv, ReportInv,
        ReadsFromStart
  <2>2. CASE Remaining(s) < FwHeaderSize
    <3>1. pc'[j] = "failed"
      BY <1>3, <1>8, <2>2 DEF ReadHeader, Goto, TypeOK
    <3> QED
      BY <1>2, <2>1, <3>1 DEF Resting, AtRest
  <2>3. CASE ~(Remaining(s) < FwHeaderSize)
    <3>1. pc'[j] = "check" /\ cmd'[j] = HEADER /\ pos'[j] = FwHeaderSize
      BY <1>3, <1>5, <1>8, <2>1, <2>3
      DEF ReadHeader, BeginPacket, Goto, TypeOK
    <3>2. Unanswered(j)'
      BY <1>2, <2>1, <3>1, BegunUnanswered DEF HEADER, DATA
    <3> QED
      BY <3>1, <3>2
  <2> QED
    BY <2>2, <2>3
<1>9. CASE HeaderThrows(j)
  BY <1>2, <1>3, <1>9
  DEF HeaderThrows, Throw, Goto, TypeOK, permits, Resting, AtRest
<1>10. CASE SendFails(j)
  <2>1. pc[j] = "cmdFailed" /\ cmd[j] = HEADER
    BY <1>1, <1>10 DEF SendFails, AtRest
  <2> QED
    BY <1>2, <1>3, <1>10, <2>1
    DEF SendFails, Goto, TypeOK, permits, Resting, AtRest, HEADER, DATA
<1>11. CASE SetFileOffset(j)
  <2>1. /\ pc[j] = "setOffset" /\ image = file[j] /\ pos[j] = FwHeaderSize
        /\ fileOffset = stored
    BY <1>1, <1>11 DEF SetFileOffset, AtRest
  <2>2. /\ pc'[j] = "initData" /\ respPermits' = respPermits
        /\ UNCHANGED <<file, fileOffset>>
    BY <1>3, <1>11 DEF SetFileOffset, Goto, TypeOK, permits, mainVars
  <2>3. pos'[j] = FwHeaderSize + stored
    BY <1>3, <1>4, <1>5, <1>11, <2>1 DEF SetFileOffset, NoStream, TypeOK
  <2> QED
    BY <1>2, <2>1, <2>2, <2>3 DEF Resting, AtRest
<1>12. CASE SkipThrows(j)
  BY <1>2, <1>3, <1>12
  DEF SkipThrows, Throw, Goto, TypeOK, permits, Resting, AtRest
<1>13. CASE InitData(j)
  <2>1. /\ image = file[j] /\ fileOffset = stored
        /\ pos[j] = FwHeaderSize + stored
    BY <1>1, <1>13 DEF InitData, AtRest
  <2>2. /\ pc'[j] = "loop" /\ offset'[j] = fileOffset
        /\ UNCHANGED <<respPermits, file, pos>>
    BY <1>3, <1>13 DEF InitData, Goto, TypeOK, permits, stream
  <2> QED
    BY <1>2, <2>1, <2>2 DEF Resting, AtRest
<1>14. CASE LoopTest(j)
  <2>1. /\ image = file[j] /\ pos[j] = FwHeaderSize + stored
        /\ ReadsWell(j) => offset[j] = stored
    BY <1>1, <1>14 DEF LoopTest, AtRest
  <2>2. /\ UNCHANGED <<respPermits, file, pos, offset>>
        /\ ReadsWell(j)' <=> ReadsWell(j)
        /\ \/ pc'[j] = "readData"
           \/ pc'[j] = "check" /\ cmd'[j] = VERIFY
    BY <1>3, <1>14
    DEF LoopTest, BeginPacket, Goto, TypeOK, permits, stream, loopVars, ReadsWell
  <2>3. CASE pc'[j] = "readData"
    BY <1>2, <2>1, <2>2, <2>3 DEF Resting, AtRest
  <2>4. CASE pc'[j] = "check" /\ cmd'[j] = VERIFY
    BY <1>2, <2>1, <2>2, <2>4, BegunUnanswered DEF HEADER, DATA, VERIFY
  <2> QED
    BY <2>2, <2>3, <2>4
<1>15. CASE ReadData(j)
  <2> DEFINE s == fileInputStream
  <2>1. /\ pc[j] = "readData" /\ s = j /\ respPermits' = respPermits
        /\ image = file[j] /\ pos[j] = FwHeaderSize + stored
        /\ ReadsWell(j) => offset[j] = stored
        /\ UNCHANGED <<file, offset, fileInputStream>>
    BY <1>1, <1>4, <1>15 DEF ReadData, AtRest, permits, NoStream
  <2>2. CASE Remaining(s) <= 0
    <3>1. pc'[j] = "dataRet" /\ ret'[j] = -1 /\ pos' = pos
      BY <1>3, <1>15, <2>2 DEF ReadData, Goto, TypeOK
    <3>2. ~(ret'[j] >= 0)
      BY <3>1
    <3> QED
      BY <1>2, <2>1, <3>1, <3>2 DEF Resting, AtRest
  <2>3. CASE ~(Remaining(s) <= 0)
    <3> DEFINE n == IF Remaining(s) < FwPacketSize
                    THEN Remaining(s) ELSE FwPacketSize
    <3>1. Remaining(j) = Length(file[j]) - pos[j] /\ Remaining(j) \in Int
      BY <1>3, FileTypes DEF Remaining, TypeOK
    <3>2. n \in Nat /\ n <= Remaining(j)
      BY <1>5, <2>1, <2>3, <3>1
    <3>3. /\ pc'[j] = "check" /\ cmd'[j] = DATA /\ pos'[j] = pos[j] + n
          /\ plen'[j] = PacketLength(n)
      BY <1>3, <1>15, <2>1, <2>3 DEF ReadData, BeginPacket, Goto, TypeOK
    <3> HIDE DEF n
    <3>4. DataLength(plen'[j]) = n
      BY <3>2, <3>3, SizesAssumption DEF DataLength, PacketLength
    <3>5. /\ pos'[j] = FwHeaderSize + stored + n
          /\ pos'[j] <= Length(file[j])
      BY <1>3, <1>5, <2>1, <3>1, <3>2, <3>3, FileTypes DEF TypeOK
    <3>6. ReadsWell(j)' <=> ReadsWell(j)
      BY <2>1 DEF ReadsWell
    <3> QED
      BY <1>2, <2>1, <3>3, <3>4, <3>5, <3>6, BegunUnanswered
      DEF HEADER, DATA, VERIFY
  <2> QED
    BY <2>2, <2>3
<1>16. CASE ReadThrows(j)
  <2>1. image = file[j] /\ pos[j] = FwHeaderSize + stored
    BY <1>1, <1>16 DEF ReadThrows, AtRest
  <2>2. pc'[j] = "dataRet" /\ UNCHANGED <<respPermits, file, pos>>
    BY <1>3, <1>16 DEF ReadThrows, Goto, TypeOK, permits, stream
  <2>3. ~ReadsWell(j)'
    BY <1>5, <1>16 DEF ReadThrows, ReadsWell, stream
  <2> QED
    BY <1>2, <2>1, <2>2, <2>3 DEF Resting, AtRest
<1>17. CASE DataFails(j)
  BY <1>2, <1>3, <1>17
  DEF DataFails, Goto, TypeOK, permits, Resting, AtRest
<1>18. CASE DataAdvances(j)
  <2>1. /\ image = file[j] /\ pos[j] = FwHeaderSize + stored
        /\ ReadsWell(j) => offset[j] + ret[j] = stored
    BY <1>1, <1>18 DEF DataAdvances, AtRest
  <2>2. /\ pc'[j] = "loop" /\ offset'[j] = offset[j] + ret[j]
        /\ UNCHANGED <<respPermits, file, pos>>
        /\ ReadsWell(j)' <=> ReadsWell(j)
    BY <1>3, <1>18 DEF DataAdvances, Goto, TypeOK, permits, stream, ReadsWell
  <2> QED
    BY <1>2, <2>1, <2>2 DEF Resting, AtRest
<1>21. CASE Dispatch(j)
  BY <1>2, <1>3, <1>21
  DEF Dispatch, Goto, TypeOK, permits, Resting, AtRest
<1>19. CASE NeverRuns(j) \/ Succeed(j) \/ Fail(j) \/ Catch(j) \/ Report(j)
            \/ Finally(j)
  BY <1>3, <1>19
  DEF NeverRuns, Succeed, Fail, Catch, Report, Finally, Goto, TypeOK, InUpgrade
<1>20. CASE \/ CheckFlag(j) \/ GattEnter(j) \/ GattAcquire(j) \/ GattTimeout(j)
            \/ RespEnter(j) \/ RespAcquire(j) \/ RespTimeout(j)
            \/ DelayCancelled(j) \/ NextFrame(j) \/ PacketDone(j)
  BY <1>20
  DEF CheckFlag, GattEnter, GattAcquire, GattTimeout, RespEnter, RespAcquire,
      RespTimeout, DelayCancelled, NextFrame, PacketDone, Resting
<1> QED
  BY <1>6, <1>7, <1>8, <1>9, <1>10, <1>11, <1>12, <1>13, <1>14, <1>15, <1>16,
     <1>17, <1>18, <1>19, <1>20, <1>21 DEF JobContinues

\* What a wait's end does: the last frame that is not waited for is noticed.
LEMMA AfterGattGoes ==
  ASSUME TypeOK, NEW j \in Job, AfterGatt(j)
  PROVE  \/ pc'[j] = "respEnter"
         \/ pc'[j] = "delay" /\ (AllAnswered' => ~IsLastFrame(plen[j], idx[j]))
  BY DEF AfterGatt, Goto, TypeOK, AllAnswered

\* The steps from a program point inside the sending of a packet.
LEMMA SendInPhase ==
  ASSUME SysInv, Clean, Clean', NEW j \in Job, pc[j] \in Sending \ {"cmdFailed"},
         JobContinues(j), UNCHANGED <<links, device>>
  PROVE  Phase(j)'
<1>1. /\ Phase(j) /\ FileKnown(j) /\ InUpgrade(j)
      /\ cmdResponseSemaphore = j /\ cmdGattReplySemaphore = j /\ j # NoJob
      /\ cancelled = {}
      /\ isOtaUpgrading \/ (main = "startFlag" /\ Quiet /\ AtFirstFrame(j))
      /\ pc[j] \in {"gattWait", "respWait"} => sem[j] = j
  BY UpgradeFacts DEF InUpgrade, Sending
<1>2. /\ UNCHANGED ends /\ UNCHANGED <<image, stored>>
      /\ Quiet' <=> Quiet
  BY DEF ends, links, device, Quiet
<1>3. TypeOK /\ AllAnswered'
  BY DEF SysInv, ServiceInv, IInv, Clean
<1>4. CASE CheckFlag(j)
  <2>1. /\ pc[j] = "check" /\ Unanswered(j)
        /\ pc'[j] = IF isOtaUpgrading THEN "post" ELSE "cmdFailed"
        /\ UNCHANGED <<file, pos, cmd, plen, idx, offset, respPermits, fileOffset,
                       fileInputStream>>
    BY <1>1, <1>3, <1>4
    DEF CheckFlag, Phase, Goto, TypeOK, stream, packet, loopVars, permits,
        mainVars
  <2>2. CASE isOtaUpgrading
    <3>1. pc'[j] = "post"
      BY <2>1, <2>2
    <3>2. Unanswered(j)'
      BY <1>2, <2>1, <3>1, PacketStays
    <3> QED
      BY <3>1, <3>2 DEF Phase, Resting
  <2>3. CASE ~isOtaUpgrading
    <3>1. Quiet /\ cmd[j] = HEADER
      BY <1>1, <2>1, <2>3 DEF AtFirstFrame
    <3>2. pc'[j] = "cmdFailed" /\ respPermits[j] = 0
      BY <2>1, <2>3 DEF Unanswered
    <3> QED
      BY <1>2, <2>1, <3>1, <3>2 DEF Phase, Resting, AtRest
  <2> QED
    BY <2>2, <2>3
<1>5. CASE GattEnter(j)
  <2>1. /\ pc[j] = "gattEnter" /\ pc'[j] = "gattWait"
        /\ UNCHANGED <<file, pos, cmd, plen, idx, offset, respPermits, fileOffset,
                       fileInputStream>>
    BY <1>1, <1>3, <1>5
    DEF GattEnter, Goto, TypeOK, stream, packet, loopVars, permits, mainVars
  <2> QED
    BY <1>1, <1>2, <2>1, PacketStays DEF Phase, Resting
<1>6. CASE GattAcquire(j) \/ GattTimeout(j)
  <2>1. /\ pc[j] = "gattWait" /\ AfterGatt(j)
        /\ UNCHANGED <<file, pos, cmd, plen, idx, offset, respPermits, fileOffset,
                       fileInputStream>>
    BY <1>6
    DEF GattAcquire, GattTimeout, stream, packet, loopVars, permits, mainVars
  <2>2. Unanswered(j) \/ Answered(j)
    BY <1>1, <2>1 DEF Phase
  <2>3. CASE pc'[j] = "respEnter"
    BY <1>2, <2>1, <2>2, <2>3, PacketStays DEF Phase, Resting
  <2>4. CASE pc'[j] = "delay" /\ ~IsLastFrame(plen[j], idx[j])
    <3>1. Unanswered(j)
      BY <2>2, <2>4 DEF Answered, Accepted
    <3>2. Unanswered(j)'
      BY <1>2, <2>1, <2>4, <3>1, PacketStays
    <3> QED
      BY <2>1, <2>4, <3>2 DEF Phase, Resting
  <2> QED
    BY <1>3, <2>1, <2>3, <2>4, AfterGattGoes
<1>7. CASE RespEnter(j)
  <2>1. /\ pc[j] = "respEnter" /\ pc'[j] = "respWait"
        /\ UNCHANGED <<file, pos, cmd, plen, idx, offset, respPermits, fileOffset,
                       fileInputStream>>
    BY <1>1, <1>3, <1>7
    DEF RespEnter, Goto, TypeOK, stream, packet, loopVars, permits, mainVars
  <2> QED
    BY <1>1, <1>2, <2>1, PacketStays DEF Phase, Resting
<1>8. CASE RespAcquire(j)
  <2>1. /\ pc[j] = "respWait" /\ pc'[j] = "delay" /\ respPermits[j] > 0
        /\ respPermits'[j] = respPermits[j] - 1
        /\ UNCHANGED <<file, pos, cmd, plen, idx, offset, fileOffset,
                       fileInputStream>>
    BY <1>1, <1>3, <1>8
    DEF RespAcquire, Goto, TypeOK, stream, packet, loopVars, mainVars
  <2>2. /\ Accepted(j) /\ respPermits[j] = 1 /\ answers = <<>>
        /\ cmd[j] = HEADER => fileOffset = stored
    <3>1. respPermits[j] # 0
      BY <2>1
    <3> QED
      BY <1>1, <2>1, <3>1 DEF Phase, Unanswered, Answered
  <2>3. Accepted(j)' /\ answers' = <<>> /\ IsLastFrame(plen'[j], idx'[j])
    BY <1>2, <2>1, <2>2 DEF Accepted, ReadsWell, ends, device
  <2>4. respPermits'[j] = 0
    BY <2>1, <2>2
  <2>5. Settled(j)'
    BY <1>2, <2>1, <2>2, <2>3, <2>4 DEF Settled
  <2> QED
    BY <2>1, <2>3, <2>5 DEF Phase, Resting
<1>9. CASE RespTimeout(j) \/ DelayCancelled(j)
  BY <1>1, <1>3, <1>9 DEF RespTimeout, DelayCancelled, AllAnswered
<1>10. CASE NextFrame(j)
  <2>1. /\ pc[j] = "delay" /\ pc'[j] = "check" /\ Unanswered(j)
        /\ idx'[j] = idx[j] + FrameLen(plen[j], idx[j])
        /\ UNCHANGED <<file, pos, cmd, plen, offset, respPermits, fileInputStream>>
    BY <1>1, <1>3, <1>10
    DEF NextFrame, Phase, Goto, TypeOK, stream, loopVars, permits
  <2>2. SentTo(j)' = SentTo(j)
    <3>1. idx'[j] \in Nat
      BY <1>3, <1>10, TypeStep
      DEF SysInv, ServiceInv, IInv, Next, JobStep, TypeOK
    <3> QED
      BY <2>1, <3>1 DEF SentTo
  <2>3. OnWire(j)' /\ (ReadsWell(j)' <=> ReadsWell(j))
    BY <1>2, <2>1, <2>2 DEF Unanswered, OnWire, ReadsWell, ends
  <2>4. Unanswered(j)'
    BY <1>2, <2>1, <2>3 DEF Unanswered, ends, device
  <2> QED
    BY <2>1, <2>4 DEF Phase, Resting
<1>11. CASE PacketDone(j)
  <2>1. /\ pc[j] = "delay" /\ Settled(j)
        /\ UNCHANGED <<file, pos, cmd, plen, offset, respPermits, fileOffset,
                       fileInputStream>>
        /\ \/ cmd[j] = HEADER /\ pc'[j] = "setOffset"
           \/ cmd[j] = DATA /\ pc'[j] = "dataRet" /\ ret'[j] = DataLength(plen[j])
           \/ cmd[j] = VERIFY /\ pc'[j] = "succeed"
    BY <1>1, <1>3, <1>11
    DEF PacketDone, Phase, Goto, TypeOK, stream, packet, loopVars, permits,
        mainVars
  <2>2. Quiet' /\ respPermits'[j] = 0 /\ (ReadsWell(j)' <=> ReadsWell(j))
    BY <1>2, <2>1 DEF Settled, Accepted, Quiet, ReadsWell
  <2>3. CASE cmd[j] = HEADER /\ pc'[j] = "setOffset"
    BY <1>2, <2>1, <2>2, <2>3
    DEF Settled, Accepted, Phase, Resting, AtRest, HEADER, DATA, VERIFY
  <2>4. CASE cmd[j] = DATA /\ pc'[j] = "dataRet" /\ ret'[j] = DataLength(plen[j])
    BY <1>2, <2>1, <2>2, <2>4
    DEF Settled, Accepted, Phase, Resting, AtRest, HEADER, DATA, VERIFY
  <2>5. CASE cmd[j] = VERIFY /\ pc'[j] = "succeed"
    BY <2>2, <2>5 DEF Phase, Resting, AtRest
  <2> QED
    BY <2>1, <2>3, <2>4, <2>5
<1> QED
  <2>1. CASE \/ CheckFlag(j) \/ GattEnter(j) \/ GattAcquire(j) \/ GattTimeout(j)
             \/ RespEnter(j) \/ RespAcquire(j) \/ RespTimeout(j)
             \/ DelayCancelled(j) \/ NextFrame(j) \/ PacketDone(j)
    BY <1>4, <1>5, <1>6, <1>7, <1>8, <1>9, <1>10, <1>11, <2>1
  <2>2. CASE \/ NeverRuns(j) \/ Dispatch(j) \/ OpenFails(j) \/ OpenFile(j)
             \/ ReadHeader(j) \/ HeaderThrows(j) \/ SendFails(j)
             \/ SetFileOffset(j) \/ SkipThrows(j) \/ InitData(j) \/ LoopTest(j)
             \/ ReadData(j) \/ ReadThrows(j) \/ DataFails(j) \/ DataAdvances(j)
             \/ Succeed(j) \/ Fail(j) \/ Catch(j) \/ Report(j) \/ Finally(j)
    BY <2>2
    DEF NeverRuns, Dispatch, OpenFails, OpenFile, ReadHeader, HeaderThrows, SendFails,
        SetFileOffset, SkipThrows, InitData, LoopTest, ReadData, ReadThrows,
        DataFails, DataAdvances, Succeed, Fail, Catch, Report, Finally, Sending
  <2> QED
    BY <2>1, <2>2 DEF JobContinues

\* When the wait for the answer to a verify packet ends with one, the device has
\* checked the image: amOtaStop's release of the semaphore is told apart, as a stop
\* is under way or has dropped the semaphore.
LEMMA VerifyAnswered ==
  ASSUME SysInv, NEW j \in Job, RespAcquire(j), AllAnswered', j \notin cancelled,
         cmd[j] = VERIFY
  PROVE  Verified(j)
<1>1. TypeOK /\ pc[j] = "respWait" /\ respPermits[sem[j]] > 0
  BY DEF RespAcquire, SysInv, ServiceInv, IInv
<1>2. sem[j] = cmdResponseSemaphore /\ sem[j] # NoJob
  BY <1>1, StartsAreJobs
  DEF RespAcquire, AllAnswered, TypeOK, SysInv, ServiceInv, IInv, WaitsOnSemaphore
<1>3. Unstopped
  <2>1. scopeActive
    BY <1>1 DEF SysInv, ServiceInv, ReportInv, ScopeCancels
  <2>2. ~Stopping
    BY <1>1 DEF RespAcquire, AllAnswered, TypeOK
  <2> QED
    BY <2>1, <2>2 DEF Unstopped, Stopping
<1>4. Clean
  <2>1. AllAnswered
    BY <1>1, JobStepTakes DEF JobStep, JobContinues, JobTakes
  <2> QED
    BY <1>3, <2>1 DEF Clean
<1>5. Phase(j) /\ sem[j] = j
  BY <1>1, <1>4, UpgradeFacts DEF InUpgrade
<1>6. Answered(j)
  <2>1. respPermits[j] # 0
    BY <1>1, <1>5
  <2> QED
    BY <1>1, <1>5, <2>1 DEF Phase, Unanswered
<1> QED
  BY <1>6 DEF Answered, Accepted, Verified

LEMMA JobKeepsVerified ==
  ASSUME SysInv, NEW j \in Job, JobStep(j), InUpgrade(j),
         pc[j] = "post" \/ wire' = wire, verified' = verified
  PROVE  KeepsVerified'
<1>1. TypeOK /\ UNCHANGED cancelled /\ JobTakes(j)
  BY JobStepEffect, JobStepTakes
  DEF SysInv, ServiceInv, IInv, JobEffect, mainVars
<1> SUFFICES ASSUME NEW k \in Job, AllAnswered',
                    \/ pc'[k] = "succeed"
                    \/ /\ pc'[k] = "delay" /\ k \notin cancelled
                       /\ cmd'[k] = VERIFY /\ IsLastFrame(plen'[k], idx'[k])
             PROVE  Verified(k)'
  BY <1>1 DEF KeepsVerified
<1>2. AllAnswered
  BY <1>1 DEF JobTakes
<1>3. k = j
  BY OnlyUpgrade DEF InUpgrade, SysInv, ServiceInv
<1> SUFFICES Verified(j)'
  BY <1>3
<1>4. CASE PacketDone(j)
  <2>1. /\ pc[j] = "delay" /\ j \notin cancelled /\ cmd[j] = VERIFY
        /\ IsLastFrame(plen[j], idx[j]) /\ file' = file
    BY <1>1, <1>3, <1>4 DEF PacketDone, Goto, TypeOK, stream
  <2> QED
    BY <1>2, <2>1 DEF SysInv, BothEnds, KeepsVerified, Verified
<1>5. CASE RespAcquire(j)
  <2>1. /\ pc[j] = "respWait" /\ cmd[j] = VERIFY /\ j \notin cancelled
        /\ UNCHANGED <<file, cmd>>
    BY <1>1, <1>3, <1>5 DEF RespAcquire, Goto, TypeOK, stream, packet
  <2> QED
    BY <1>5, <2>1, VerifyAnswered DEF Verified
<1>6. CASE GattEnter(j) \/ GattAcquire(j) \/ GattTimeout(j)
  <2>1. /\ UNCHANGED packet
        /\ pc'[j] # "gattWait" => AfterGatt(j)
    BY <1>1, <1>6
    DEF GattEnter, GattAcquire, GattTimeout, Goto, TypeOK, packet
  <2> QED
    BY <1>1, <1>3, <2>1, AfterGattGoes DEF packet
<1>7. CASE RespEnter(j) \/ RespTimeout(j)
  BY <1>1, <1>3, <1>7 DEF RespEnter, RespTimeout, Goto, TypeOK, AllAnswered
<1>8. CASE CheckFlag(j) \/ PostFrame(j) \/ SendFails(j) \/ NextFrame(j)
  BY <1>1, <1>3, <1>8
  DEF CheckFlag, PostFrame, SendFails, NextFrame, Goto, TypeOK
<1>9. CASE \/ NeverRuns(j) \/ Dispatch(j) \/ OpenFails(j) \/ OpenFile(j) \/ ReadHeader(j)
           \/ HeaderThrows(j) \/ DelayCancelled(j)
  BY <1>1, <1>3, <1>9
  DEF NeverRuns, Dispatch, OpenFails, OpenFile, ReadHeader, HeaderThrows, DelayCancelled,
      Throw, BeginPacket, Goto, TypeOK
<1>10. CASE \/ SetFileOffset(j) \/ SkipThrows(j) \/ InitData(j) \/ LoopTest(j)
            \/ ReadData(j) \/ ReadThrows(j) \/ DataFails(j) \/ DataAdvances(j)
  BY <1>1, <1>3, <1>10
  DEF SetFileOffset, SkipThrows, InitData, LoopTest, ReadData, ReadThrows,
      DataFails, DataAdvances, Throw, BeginPacket, Goto, TypeOK
<1>11. CASE Succeed(j) \/ Fail(j) \/ Catch(j) \/ Report(j) \/ Finally(j)
  BY <1>1, <1>3, <1>11
  DEF Succeed, Fail, Catch, Report, Finally, Goto, TypeOK
<1> QED
  BY <1>4, <1>5, <1>6, <1>7, <1>8, <1>9, <1>10, <1>11 DEF JobStep, JobContinues

\* A job leaves its upgrade between two packets.
LEMMA LeavesAtRest ==
  ASSUME SysInv, NEW j \in Job, InUpgrade(j), JobStep(j), ~InUpgrade(j)'
  PROVE  pc[j] \in Resting
<1>1. TypeOK
  BY DEF SysInv, ServiceInv, IInv
<1>2. CASE \/ NeverRuns(j) \/ Dispatch(j) \/ OpenFile(j) \/ Succeed(j) \/ Fail(j) \/ Catch(j)
           \/ Report(j) \/ Finally(j)
  BY <1>2
  DEF NeverRuns, Dispatch, OpenFile, Succeed, Fail, Catch, Report, Finally, Resting,
      InUpgrade
<1>3. CASE \/ CheckFlag(j) \/ PostFrame(j) \/ SendFails(j) \/ NextFrame(j)
           \/ GattEnter(j) \/ GattAcquire(j) \/ GattTimeout(j) \/ RespEnter(j)
           \/ RespAcquire(j) \/ RespTimeout(j) \/ DelayCancelled(j)
           \/ PacketDone(j)
  BY <1>1, <1>3
  DEF CheckFlag, PostFrame, SendFails, NextFrame, GattEnter, GattAcquire,
      GattTimeout, AfterGatt, RespEnter, RespAcquire, RespTimeout,
      DelayCancelled, PacketDone, Throw, Goto, TypeOK, InUpgrade
<1>4. CASE \/ OpenFails(j) \/ ReadHeader(j) \/ HeaderThrows(j)
           \/ SetFileOffset(j) \/ SkipThrows(j) \/ InitData(j) \/ LoopTest(j)
           \/ ReadData(j) \/ ReadThrows(j) \/ DataFails(j) \/ DataAdvances(j)
  BY <1>1, <1>4
  DEF OpenFails, ReadHeader, HeaderThrows, SetFileOffset, SkipThrows, InitData,
      LoopTest, ReadData, ReadThrows, DataFails, DataAdvances, Throw,
      BeginPacket, Goto, TypeOK, InUpgrade
<1> QED
  BY <1>2, <1>3, <1>4 DEF JobStep, JobContinues

\* The steps after the upgrade: no other job sees them, unless it loses a stream
\* that it has not the use of.
LEMMA JobEndKeepsEnds ==
  ASSUME SysInv, NEW j \in Job, ~InUpgrade(j), JobStep(j),
         UNCHANGED <<links, device>>, Clean' => Clean
  PROVE  BothEnds'
<1>1. TypeOK /\ JobTakes(j) /\ (Report(j) \/ Finally(j))
  BY JobStepTakes, JobEnds DEF SysInv, ServiceInv, IInv
<1>2. UNCHANGED <<wire, answers, image, stored, intact, verified>>
  BY DEF links, device
<1>3. /\ UNCHANGED <<main, cancelled, file, respPermits, fileOffset>>
      /\ AllAnswered' => AllAnswered
      /\ pc'[j] \in {"finally", "done"}
      /\ \A k \in Job : InUpgrade(k)' <=> InUpgrade(k)
      /\ fileInputStream' \in {fileInputStream, NoJob}
  BY <1>1
  DEF Report, Finally, JobTakes, Goto, TypeOK, InUpgrade, mainVars, permits,
      stream
<1>4. ASSUME NEW k \in Job, k # j
      PROVE  /\ pc'[k] = pc[k] /\ pos'[k] = pos[k] /\ cmd'[k] = cmd[k]
             /\ plen'[k] = plen[k] /\ idx'[k] = idx[k]
             /\ offset'[k] = offset[k] /\ ret'[k] = ret[k]
  BY <1>1, <1>4
  DEF Report, Finally, Goto, TypeOK, stream, packet, loopVars
<1>5. CleanDevice' /\ QuietBetween'
  BY <1>2, <1>3 DEF SysInv, BothEnds, CleanDevice, Fits, QuietBetween, Quiet
<1>6. ASSUME Clean', NEW k \in Job, InUpgrade(k)'
      PROVE  Phase(k)'
  <2>1. k # j /\ InUpgrade(k) /\ Phase(k)
    BY <1>3, <1>6 DEF SysInv, BothEnds, InPhase
  <2>2. ReadsWell(k)' => ReadsWell(k)
    BY <1>3, StartsAreJobs DEF ReadsWell, TypeOK, SysInv, ServiceInv, IInv
  <2>3. SentTo(k)' = SentTo(k)
    BY <1>4, <2>1 DEF SentTo
  <2>4. Accepted(k) => Accepted(k)'
    BY <1>2, <1>3, <1>4, <2>1, <2>2 DEF Accepted
  <2>5. Unanswered(k) => Unanswered(k)'
    BY <1>2, <1>3, <1>4, <2>1, <2>2, <2>3 DEF Unanswered, OnWire
  <2>6. /\ Answered(k) => Answered(k)'
        /\ Settled(k) => Settled(k)'
    BY <1>2, <1>3, <1>4, <2>1, <2>4 DEF Answered, Settled
  <2>7. AtRest(k) => AtRest(k)'
    BY <1>2, <1>3, <1>4, <2>1, <2>2 DEF AtRest, Quiet
  <2> QED
    BY <1>4, <2>1, <2>5, <2>6, <2>7 DEF Phase
<1>7. KeepsVerified'
  <2> SUFFICES ASSUME NEW k \in Job, AllAnswered',
                      \/ pc'[k] = "succeed"
                      \/ /\ pc'[k] = "delay" /\ k \notin cancelled'
                         /\ cmd'[k] = VERIFY /\ IsLastFrame(plen'[k], idx'[k])
               PROVE  Verified(k)'
    BY DEF KeepsVerified
  <2>1. k # j
    BY <1>3
  <2> QED
    BY <1>2, <1>3, <1>4, <2>1 DEF SysInv, BothEnds, KeepsVerified, Verified
<1> QED
  BY <1>5, <1>6, <1>7 DEF BothEnds, InPhase

LEMMA JobKeepsEnds ==
  ASSUME SysInv, NEW j \in Job, JobRuns(j), Clean' => Clean
  PROVE  BothEnds'
<1>1. JobStep(j)
  BY DEF JobRuns, JobPosts, JobStep
<1>2. CASE ~InUpgrade(j)
  <2>1. UNCHANGED <<links, device>>
    BY <1>2 DEF JobRuns, JobPosts, PostFrame, InUpgrade
  <2> QED
    BY <1>1, <1>2, <2>1, JobEndKeepsEnds
<1>3. CASE InUpgrade(j)
  <2>1. /\ UNCHANGED <<main, image, stored, intact, verified>>
        /\ pc[j] = "post" \/ wire' = wire
    BY <1>1, JobStepEffect
    DEF JobRuns, JobPosts, PostFrame, links, device, SysInv, ServiceInv, IInv,
        JobEffect, mainVars
  <2>2. CleanDevice'
    BY <2>1 DEF SysInv, BothEnds, CleanDevice, Fits
  <2>3. KeepsVerified'
    BY <1>1, <1>3, <2>1, JobKeepsVerified
  <2>4. ASSUME NEW k \in Job, k # j PROVE ~InUpgrade(k)'
    BY <1>1, <1>3, <2>4, OnlyUpgrade DEF SysInv, ServiceInv
  <2>5. ASSUME Clean', InUpgrade(j)' PROVE Phase(j)'
    <3>1. CASE JobPosts(j)
      BY <2>5, <3>1, PostInPhase
    <3>2. CASE JobContinues(j) /\ UNCHANGED <<links, device>>
      <4>1. pc[j] \in Resting \/ pc[j] \in Sending \ {"cmdFailed"}
        BY <1>3
        DEF SysInv, ServiceInv, IInv, TypeOK, PcTypes, Resting, Sending, InUpgrade
      <4> QED
        BY <1>3, <2>5, <3>2, <4>1, RestInPhase, SendInPhase
    <3> QED
      BY <3>1, <3>2 DEF JobRuns
  <2>6. InPhase'
    BY <2>4, <2>5 DEF InPhase
  <2>7. QuietBetween'
    <3> SUFFICES ASSUME Clean', ~InUpgrade(j)' \/ main = "startFlag"
                 PROVE  Quiet'
      BY <2>1 DEF QuietBetween
    <3>1. Clean
      OBVIOUS
    <3>2. Quiet /\ pc[j] # "post"
      <4>1. CASE ~InUpgrade(j)'
        <5>1. pc[j] \in Resting
          BY <1>1, <1>3, <4>1, LeavesAtRest
        <5> QED
          BY <1>3, <3>1, <5>1, UpgradeFacts DEF Phase, AtRest, Resting
      <4>2. CASE main = "startFlag"
        BY <1>3, <3>1, <4>2, UpgradeFacts
        DEF SysInv, ServiceInv, ReportInv, RunsAhead, AtFirstFrame,
            BeforeFirstFrame, Clean, Unstopped, Stopping, BothEnds, QuietBetween
      <4> QED
        BY <4>1, <4>2
    <3> QED
      BY <3>2 DEF JobRuns, JobPosts, PostFrame, links, Quiet
  <2> QED
    BY <2>2, <2>3, <2>6, <2>7 DEF BothEnds
<1> QED
  BY <1>2, <1>3

-----------------------------------------------------------------------------
(* The theorems.                                                           *)

LEMMA SysInvInit == SysInit => SysInv
<1> SUFFICES ASSUME SysInit PROVE SysInv
  OBVIOUS
<1>1. Init
  BY DEF SysInit
<1>2. IInv /\ ReportInv
  BY <1>1, InvInit, ReportInit
<1>3. /\ \A j \in Job : pc[j] = "none" /\ ~InUpgrade(j)
      /\ cancelled = {} /\ cmdResponseSemaphore = NoJob /\ main = "idle"
      /\ \A j \in Job : respPermits[j] = 0
  BY <1>1 DEF Init, InUpgrade
<1>4. ServiceOK
  <2>1. NoJob \notin Job
    BY <1>2, StartsAreJobs DEF IInv, TypeOK
  <2>2. JobFile /\ OwnsFields /\ WaitsOnOwn
    BY <1>3 DEF JobFile, OwnsFields, WaitsOnOwn
  <2>3. OnlyStopsCancel /\ FreshPermits
    BY <1>3, <2>1 DEF OnlyStopsCancel, FreshPermits
  <2> QED
    BY <2>2, <2>3 DEF ServiceOK
<1>5. LinksOK
  <2>1. wire = <<>> /\ answers = <<>> /\ replies = 0 /\ losses = 0 /\ rx = 0
    BY DEF SysInit
  <2>2. <<>> \in Seq(Frames) /\ <<>> \in Seq(Notices) /\ 1..Len(<<>>) = {}
    OBVIOUS
  <2> QED
    BY <2>1, <2>2, SystemAssumption DEF LinksOK
<1>6. DeviceOK /\ stored <= Declared(image) /\ intact
  BY SystemAssumption DEF SysInit, DeviceOK
<1>7. BothEnds
  BY <1>3, <1>6
  DEF BothEnds, CleanDevice, QuietBetween, Quiet, InPhase, KeepsVerified, SysInit
<1> QED
  BY <1>2, <1>4, <1>5, <1>6, <1>7 DEF SysInv, ServiceInv

LEMMA SysInvStep == SysInv /\ [SysNext]_sysVars => SysInv'
<1> SUFFICES ASSUME SysInv, [SysNext]_sysVars PROVE SysInv'
  OBVIOUS
<1>1. ServiceStep
  BY SystemSteps DEF SysInv
<1>2. ServiceInv' /\ LinksOK' /\ DeviceOK' /\ (Clean' => Clean)
  BY <1>1, ServiceKept, LinksKept, CleanLasts DEF SysInv
<1>3. CASE AppWrites \/ AppConfirms \/ AppNotifies \/ Lose \/ User \/ MainRuns
  BY <1>2, <1>3, WritesKeepEnds, ConfirmsKeepEnds, NotifiesKeepEnds,
     LoseKeepEnds, UserKeepsEnds, MainKeepsEnds
  DEF SysInv
<1>4. ASSUME NEW j \in Job, JobRuns(j) PROVE SysInv'
  BY <1>2, <1>4, JobKeepsEnds DEF SysInv
<1>5. CASE UNCHANGED sysVars
  <2>1. /\ UNCHANGED ends /\ UNCHANGED <<image, stored, intact, verified>>
        /\ UNCHANGED vars
    BY <1>5 DEF sysVars, links, device, ends
  <2>2. (AllAnswered' <=> AllAnswered) /\ (Clean' <=> Clean)
    BY <2>1 DEF vars, mainVars, observed, AllAnswered, Clean, Unstopped, Stopping
  <2>3. BothEnds'
    BY <2>1, <2>2, BothEndsStay
    DEF SysInv, ends, vars, mainVars, jobVars, stream, packet, loopVars, permits
  <2> QED
    BY <1>2, <2>3 DEF SysInv
<1> QED
  BY <1>3, <1>4, <1>5 DEF SysNext

\* The inductive invariant of the service, the device and the links between them.
THEOREM SystemInvariant == SysSpec => []SysInv
<1>1. SysInit => SysInv
  BY SysInvInit
<1>2. SysInv /\ [SysNext]_sysVars => SysInv'
  BY SysInvStep
<1> QED
  BY <1>1, <1>2, PTL DEF SysSpec

LEMMA SysTypes == SysInv => SysTypeOK
<1> SUFFICES ASSUME SysInv PROVE SysTypeOK
  OBVIOUS
<1>1. TypeOK /\ LinksOK /\ DeviceOK
  BY DEF SysInv, ServiceInv, IInv
<1>2. ASSUME NEW i \in 1..Len(wire)
      PROVE  /\ wire[i].cmd \in {HEADER, DATA, VERIFY}
             /\ wire[i].idx < wire[i].plen
             /\ wire[i].file \in DOMAIN Firmware
             /\ wire[i].at \in Int
  <2>1. wire[i] \in Frames
    BY <1>1, ElementOfSeq DEF LinksOK
  <2> QED
    BY <1>1, <2>1 DEF LinksOK, Frames
<1>3. ASSUME NEW i \in 1..Len(answers)
      PROVE  answers[i] \in [cmd : {HEADER, DATA, VERIFY}, ok : BOOLEAN, off : Nat]
  BY <1>1, ElementOfSeq DEF LinksOK, Notices
<1> QED
  BY <1>1, <1>2, <1>3 DEF SysTypeOK, LinksOK, DeviceOK

\* Every value stays in its range, and every frame on its way to the device starts
\* inside its packet.
THEOREM SystemTypeCorrect == SysSpec => []SysTypeOK
  BY SystemInvariant, SysTypes, PTL

\* When the service reports UPGRADE_SUCCESS, and no wait ran out on the way, the
\* device has checked the whole image of the file that was asked for: whatever was
\* lost before, and whenever amOtaStop comes.
THEOREM SuccessMeansVerified == SysSpec => []SuccessIsVerified
<1>1. SysInv => SuccessIsVerified
  BY DEF SysInv, BothEnds, KeepsVerified, Verified, SuccessIsVerified
<1> QED
  BY <1>1, SystemInvariant, PTL

\* No stop since the launch of job j means none at all.
LEMMA NotStoppedIsUnstopped ==
  ASSUME SysInv, NEW j \in Job, InUpgrade(j), AllAnswered, NotStopped(j)
  PROVE  Clean /\ Phase(j) /\ FileKnown(j)
<1>1. Clean
  BY DEF SysInv, ServiceInv, ServiceOK, OwnsFields, NotStopped, Clean
<1> QED
  BY <1>1, UpgradeFacts

\* Every round of sendFwData begins with the device at the byte where the stream
\* stands: fileOffset, read twice, and the skip in the file agree with the answer
\* to the header.
THEOREM StaysInStep == SysSpec => []InStep
<1>1. SysInv => InStep
  <2> SUFFICES ASSUME SysInv, NEW j \in Job, pc[j] = "loop", AllAnswered,
                      NotStopped(j)
               PROVE  /\ pos[j] = FwHeaderSize + stored
                      /\ intact
                      /\ ReadsWell(j) => offset[j] = stored
    BY DEF InStep
  <2>1. Clean /\ Phase(j)
    BY NotStoppedIsUnstopped DEF InUpgrade
  <2>2. AtRest(j) /\ intact
    BY <2>1 DEF Phase, Resting, SysInv, BothEnds, CleanDevice
  <2> QED
    BY <2>2 DEF AtRest
<1> QED
  BY <1>1, SystemInvariant, PTL

\* If only the last answer may grant, then one does at most.
LEMMA GrantingCount ==
  ASSUME LinksOK, \A i \in 1..Len(answers) : answers[i].ok => i = Len(answers)
  PROVE  /\ Cardinality(Granting) \in {0, 1}
         /\ (\A i \in 1..Len(answers) : ~answers[i].ok) =>
              Cardinality(Granting) = 0
<1>1. DOMAIN answers = 1..Len(answers)
  BY DEF LinksOK
<1>2. Granting = {} \/ Granting = {Len(answers)}
  BY <1>1 DEF Granting
<1>3. (\A i \in 1..Len(answers) : ~answers[i].ok) => Granting = {}
  BY <1>1 DEF Granting
<1>4. Cardinality({}) = 0 /\ Cardinality({Len(answers)}) = 1
  BY FS_EmptySet, FS_Singleton
<1> QED
  BY <1>2, <1>3, <1>4

\* At most one granting answer is on its way or waits in the semaphore, so no
\* packet can take that of an earlier one, and none is left when the next begins.
THEOREM AnswersPairUp == SysSpec => []OneAnswerAtMost
<1>1. SysInv => OneAnswerAtMost
  <2> SUFFICES ASSUME SysInv, NEW j \in Job, InUpgrade(j), AllAnswered,
                      NotStopped(j)
               PROVE  /\ respPermits[j] + Cardinality(Granting) <= 1
                      /\ pc[j] \in {"setOffset", "initData", "loop", "readData",
                                    "succeed"} =>
                           respPermits[j] + Len(answers) + Len(wire) = 0
    BY DEF OneAnswerAtMost
  <2>1. Clean /\ Phase(j) /\ LinksOK
    BY NotStoppedIsUnstopped DEF SysInv
  <2>2. 1..Len(<<>>) = {} /\ Len(<<>>) = 0
    OBVIOUS
  <2>3. CASE AtRest(j)
    <3>1. respPermits[j] = 0 /\ answers = <<>> /\ wire = <<>>
      BY <2>3 DEF AtRest, Quiet
    <3>2. Cardinality(Granting) = 0
      BY <2>1, <2>2, <3>1, GrantingCount
    <3> QED
      BY <2>2, <3>1, <3>2
  <2>4. CASE pc[j] \notin Resting /\ (Unanswered(j) \/ Answered(j) \/ Settled(j))
    <3>1. CASE Unanswered(j)
      <4>1. respPermits[j] = 0 /\ \A i \in 1..Len(answers) : ~answers[i].ok
        BY <3>1 DEF Unanswered
      <4>2. Cardinality(Granting) = 0
        BY <2>1, <4>1, GrantingCount
      <4> QED
        BY <2>4, <4>1, <4>2 DEF Resting
    <3>2. CASE /\ respPermits[j] = 0
               /\ \A i \in 1..Len(answers) : answers[i].ok => i = Len(answers)
      BY <2>1, <2>4, <3>2, GrantingCount DEF Resting
    <3>3. CASE respPermits[j] \in {0, 1} /\ answers = <<>>
      <4>1. Cardinality(Granting) = 0
        BY <2>1, <2>2, <3>3, GrantingCount
      <4> QED
        BY <2>4, <3>3, <4>1 DEF Resting
    <3> QED
      BY <2>4, <3>1, <3>2, <3>3 DEF Answered, Settled
  <2> QED
    BY <2>1, <2>3, <2>4
    DEF Phase, SysInv, ServiceInv, IInv, TypeOK, PcTypes, Resting, InUpgrade
<1> QED
  BY <1>1, SystemInvariant, PTL

\* sendFwData never counts past the declared size of a file that is no longer than
\* that, so the progress stays within 100 per cent, resumed or not.
THEOREM ProgressBounded == SysSpec => []ProgressInRange
<1>1. SysInv => ProgressInRange
  <2> SUFFICES ASSUME SysInv, NEW j \in Job, pc[j] = "loop", AllAnswered,
                      NotStopped(j), ReadsWell(j), Fits(file[j])
               PROVE  offset[j] <= fw[j]
    BY DEF ProgressInRange, Fits
  <2>1. Clean /\ Phase(j) /\ FileKnown(j)
    BY NotStoppedIsUnstopped DEF InUpgrade
  <2>2. offset[j] = stored /\ image = file[j]
    BY <2>1 DEF Phase, Resting, AtRest
  <2>3. stored <= Declared(file[j])
    BY <2>1, <2>2 DEF SysInv, BothEnds, CleanDevice
  <2>4. fw[j] = Declared(file[j])
    BY <2>1 DEF FileKnown
  <2> QED
    BY <2>2, <2>3, <2>4
<1> QED
  BY <1>1, SystemInvariant, PTL

=============================================================================
