------------------------- MODULE AmotaServiceProofs -------------------------
(***************************************************************************)
(* Proofs about AmotaService: its type invariant and the safety of the     *)
(* single flight, of the shared stream, of the wake-up by amOtaStop and of *)
(* what a stopped job still sends, for every value of the constants.       *)
(***************************************************************************)
EXTENDS AmotaService, TLAPS


-----------------------------------------------------------------------------
(* Frames.                                                                 *)

\* sendPacket's cut: a frame that starts inside its packet is not empty and ends
\* inside it, and what follows a frame that is not the last starts inside it.
LEMMA FrameBounds ==
  ASSUME NEW plen_ \in Nat, NEW idx_ \in Nat, idx_ < plen_
  PROVE  /\ FrameLen(plen_, idx_) \in Nat
         /\ FrameLen(plen_, idx_) > 0
         /\ idx_ + FrameLen(plen_, idx_) <= plen_
         /\ ~IsLastFrame(plen_, idx_) => idx_ + FrameLen(plen_, idx_) < plen_
  BY SizesAssumption DEF FrameLen, IsLastFrame

\* Only the last frame of a packet is waited for: sendOneFrame never waits for
\* the device while the device cannot have the whole packet.
THEOREM WaitOnlyAtPacketEnd ==
  ASSUME NEW plen_ \in Nat, NEW idx_ \in Nat, idx_ < plen_,
         NeedsResponse(plen_, idx_)
  PROVE  IsLastFrame(plen_, idx_)
  BY SizesAssumption DEF FrameLen, IsLastFrame, NeedsResponse

\* Every packet has at least one frame.
LEMMA PacketNotEmpty ==
  ASSUME NEW len \in Nat
  PROVE  PacketLength(len) \in Nat /\ PacketLength(len) > 0
  BY SizesAssumption DEF PacketLength

\* What is read from a file is counted by naturals, whatever the path.
LEMMA FileTypes ==
  ASSUME NEW p
  PROVE  Length(p) \in Nat /\ Declared(p) \in Int
  BY ServiceAssumption DEF Length, Declared

-----------------------------------------------------------------------------
(* Types.                                                                  *)

\* The numbers of the accepted starts are job numbers, and so is the next one's.
LEMMA StartsAreJobs ==
  ASSUME starts \in 0..MaxStarts
  PROVE  /\ 1..starts \subseteq Job
         /\ starts < MaxStarts =>
              starts + 1 \in Job /\ starts + 1 \in 0..MaxStarts
         /\ NoJob \notin Job
  BY ServiceAssumption DEF Job, NoJob

LEMMA TypeInit == Init => TypeOK
<1> SUFFICES ASSUME Init PROVE TypeOK
  OBVIOUS
<1>1. 0 \in 0..MaxStarts
  BY ServiceAssumption
<1>2. pc \in [Job -> PcTypes] /\ main \in MainTypes
  BY DEF Init, PcTypes, MainTypes, StopTypes
<1>3. cmd \in [Job -> AmotaCmd]
  BY DEF Init, AmotaCmd
<1>4. exn \in [Job -> AmotaStatus]
  BY DEF Init, AmotaStatus
<1>5. /\ gattPermits \in [Job -> Nat] /\ respPermits \in [Job -> Nat]
      /\ pos \in [Job -> Nat] /\ plen \in [Job -> Nat] /\ idx \in [Job -> Nat]
      /\ fw \in [Job -> Int] /\ offset \in [Job -> Nat] /\ ret \in [Job -> Int]
  BY DEF Init
<1>6. /\ file \in [Job -> Path \union {NoPath}]
      /\ sem \in [Job -> Job \union {NoJob}]
  BY DEF Init
<1>7. /\ scopeActive \in BOOLEAN /\ isOtaUpgrading \in BOOLEAN
      /\ cancelled \subseteq Job /\ heard \subseteq Job
      /\ unwaited \subseteq Job /\ expired \subseteq Job
      /\ late \subseteq Job
  BY DEF Init
<1> QED
  BY <1>1, <1>2, <1>3, <1>4, <1>5, <1>6, <1>7 DEF Init, TypeOK

\* An answer is taken whatever resume offset it carries.
LEMMA ResponseTypes ==
  ASSUME TypeOK, NEW c \in AmotaCmd, NEW ok \in BOOLEAN, NEW off \in Nat,
         OtaCmdResponse(c, ok, off)
  PROVE  TypeOK'
  BY DEF TypeOK, permits, stream, packet, loopVars, observed, jobVars,
         OtaCmdResponse, ResponseUnknown, ResponseError, ResponseOk, BeginStop,
         Release, PostStatus, AmotaStatus, MainTypes, StopTypes

LEMMA TypeStep ==
  TypeOK /\ FrameInPacket /\ WaitsOnSemaphore /\ [Next]_vars => TypeOK'
<1> SUFFICES ASSUME TypeOK, FrameInPacket, WaitsOnSemaphore, [Next]_vars
             PROVE  TypeOK'
  OBVIOUS
<1> USE DEF TypeOK, mainVars, permits, stream, packet, loopVars, observed,
            jobVars, Goto, PcTypes
<1>1. ASSUME NEW p \in Path, AmOtaStart(p) PROVE TypeOK'
  BY <1>1, StartsAreJobs DEF AmOtaStart, MainTypes
<1>2. CASE AmOtaStop
  BY <1>2 DEF AmOtaStop, BeginStop, MainTypes, StopTypes
<1>3. CASE CmdGattReplayArrived
  BY <1>3 DEF CmdGattReplayArrived, Release
<1>4. ASSUME NEW c \in AmotaCmd, NEW ok \in BOOLEAN, NEW off \in Offsets,
            OtaCmdResponse(c, ok, off)
     PROVE  TypeOK'
  BY <1>4, ResponseTypes, ServiceAssumption
<1>5. CASE StartSetsFlag
  BY <1>5 DEF StartSetsFlag, MainTypes
<1>6. CASE StartPosts
  BY <1>6 DEF StartPosts, MainTypes, PostStatus, AmotaStatus
<1>7. CASE StopClearsFlag
  BY <1>7 DEF StopClearsFlag, MainTypes, StopTypes
<1>8. CASE StopCancels
  BY <1>8 DEF StopCancels, MainTypes, StopTypes
<1>9. CASE StopPosts
  BY <1>9, StartsAreJobs DEF StopPosts, MainTypes, PostStatus, AmotaStatus
<1>10. ASSUME NEW j \in Job, NeverRuns(j) PROVE TypeOK'
  BY <1>10 DEF NeverRuns
<1>11. ASSUME NEW j \in Job, OpenFails(j) PROVE TypeOK'
  BY <1>11 DEF OpenFails, Throw, AmotaStatus
<1>12. ASSUME NEW j \in Job, OpenFile(j) PROVE TypeOK'
  BY <1>12, FileTypes DEF OpenFile, PostOutcome, PostStatus, AmotaStatus
<1>13. ASSUME NEW j \in Job, ReadHeader(j) PROVE TypeOK'
  BY <1>13, FileTypes, PacketNotEmpty, SizesAssumption
  DEF ReadHeader, BeginPacket, Remaining, AmotaCmd, HEADER, DATA, VERIFY,
      UNKNOWN
<1>14. ASSUME NEW j \in Job, HeaderThrows(j) PROVE TypeOK'
  BY <1>14 DEF HeaderThrows, Throw, AmotaStatus
<1>15. ASSUME NEW j \in Job, CheckFlag(j) PROVE TypeOK'
  BY <1>15 DEF CheckFlag
<1>16. ASSUME NEW j \in Job, SendFails(j) PROVE TypeOK'
  BY <1>16 DEF SendFails, PostOutcome, PostStatus, SendErrorStatus, AmotaStatus
<1>17. ASSUME NEW j \in Job, PostFrame(j) PROVE TypeOK'
  BY <1>17 DEF PostFrame
<1>18. ASSUME NEW j \in Job, GattEnter(j) PROVE TypeOK'
  BY <1>18 DEF GattEnter, AfterGatt
<1>19. ASSUME NEW j \in Job, GattAcquire(j) PROVE TypeOK'
  BY <1>19 DEF GattAcquire, AfterGatt, WaitsOnSemaphore
<1>20. ASSUME NEW j \in Job, GattTimeout(j) PROVE TypeOK'
  BY <1>20 DEF GattTimeout, AfterGatt
<1>21. ASSUME NEW j \in Job, RespEnter(j) PROVE TypeOK'
  BY <1>21 DEF RespEnter
<1>22. ASSUME NEW j \in Job, RespAcquire(j) PROVE TypeOK'
  BY <1>22 DEF RespAcquire, WaitsOnSemaphore
<1>23. ASSUME NEW j \in Job, RespTimeout(j) PROVE TypeOK'
  BY <1>23 DEF RespTimeout
<1>24. ASSUME NEW j \in Job, DelayCancelled(j) PROVE TypeOK'
  BY <1>24 DEF DelayCancelled, Throw, AmotaStatus
<1>25. ASSUME NEW j \in Job, NextFrame(j) PROVE TypeOK'
  BY <1>25, FrameBounds DEF NextFrame, FrameInPacket, Sending
<1>26. ASSUME NEW j \in Job, PacketDone(j) PROVE TypeOK'
  BY <1>26, SizesAssumption DEF PacketDone, DataLength
<1>27. ASSUME NEW j \in Job, SetFileOffset(j) PROVE TypeOK'
  BY <1>27 DEF SetFileOffset
<1>28. ASSUME NEW j \in Job, SkipThrows(j) PROVE TypeOK'
  BY <1>28 DEF SkipThrows, Throw, AmotaStatus
<1>29. ASSUME NEW j \in Job, InitData(j) PROVE TypeOK'
  BY <1>29 DEF InitData
<1>30. ASSUME NEW j \in Job, LoopTest(j) PROVE TypeOK'
  BY <1>30, FileTypes, PacketNotEmpty, SizesAssumption
  DEF LoopTest, BeginPacket, AmotaCmd, HEADER, DATA, VERIFY, UNKNOWN
<1>31. ASSUME NEW j \in Job, ReadData(j) PROVE TypeOK'
  BY <1>31, FileTypes, PacketNotEmpty, SizesAssumption
  DEF ReadData, BeginPacket, Remaining, AmotaCmd, HEADER, DATA, VERIFY, UNKNOWN
<1>32. ASSUME NEW j \in Job, ReadThrows(j) PROVE TypeOK'
  BY <1>32 DEF ReadThrows
<1>33. ASSUME NEW j \in Job, DataFails(j) PROVE TypeOK'
  BY <1>33 DEF DataFails, PostOutcome, PostStatus, AmotaStatus
<1>34. ASSUME NEW j \in Job, DataAdvances(j) PROVE TypeOK'
  BY <1>34 DEF DataAdvances
<1>35. ASSUME NEW j \in Job, Succeed(j) PROVE TypeOK'
  BY <1>35 DEF Succeed, PostOutcome, PostStatus, AmotaStatus
<1>36. ASSUME NEW j \in Job, Fail(j) PROVE TypeOK'
  BY <1>36 DEF Fail
<1>37. ASSUME NEW j \in Job, Catch(j) PROVE TypeOK'
  BY <1>37 DEF Catch
<1>38. ASSUME NEW j \in Job, Report(j) PROVE TypeOK'
  BY <1>38 DEF Report, PostOutcome, PostStatus, AmotaStatus
<1>39. ASSUME NEW j \in Job, Finally(j) PROVE TypeOK'
  BY <1>39 DEF Finally, AmotaStatus, AmotaCmd, HEADER, DATA, VERIFY, UNKNOWN
<1>40. ASSUME NEW j \in Job, Dispatch(j) PROVE TypeOK'
  BY <1>40 DEF Dispatch
<1>41. CASE StopClearsOffset
  BY <1>41 DEF StopClearsOffset, MainTypes, StopTypes
<1>42. CASE StopReleasesGatt
  BY <1>42 DEF StopReleasesGatt, Release, MainTypes, StopTypes
<1>43. CASE StopDropsGatt
  BY <1>43 DEF StopDropsGatt, MainTypes, StopTypes
<1>44. CASE StopReleasesResponse
  BY <1>44 DEF StopReleasesResponse, Release, MainTypes, StopTypes
<1>45. CASE StopDropsResponse
  BY <1>45 DEF StopDropsResponse, MainTypes, StopTypes
<1>46. CASE UNCHANGED vars
  BY <1>46 DEF vars
<1> QED
  BY <1>1, <1>2, <1>3, <1>4, <1>5, <1>6, <1>7, <1>8, <1>9, <1>10, <1>11, <1>12,
     <1>13, <1>14, <1>15, <1>16, <1>17, <1>18, <1>19, <1>20, <1>21, <1>22,
     <1>23, <1>24, <1>25, <1>26, <1>27, <1>28, <1>29, <1>30, <1>31, <1>32,
     <1>33, <1>34, <1>35, <1>36, <1>37, <1>38, <1>39, <1>40,
     <1>41, <1>42, <1>43, <1>44, <1>45, <1>46
  DEF Next, Call, MainContinues, JobStep, JobContinues

-----------------------------------------------------------------------------
(* What a step of a job may do to the state the invariants relate.         *)

\* Only the job that ends its upgrade clears the flag; a job blocks on the
\* semaphore of the field; it posts a frame it has checked the flag for.
JobEffect(j) ==
  /\ UNCHANGED mainVars
  /\ \A k \in Job \ {j} : /\ pc'[k] = pc[k] /\ sem'[k] = sem[k]
                          /\ idx'[k] = idx[k] /\ plen'[k] = plen[k]
                          /\ k \in late' => k \in late
                          /\ k \in late => k \in late'
  /\ pc[j] # "none"
  /\ InUpgrade(j)' => InUpgrade(j)
  /\ \/ isOtaUpgrading' = isOtaUpgrading
     \/ ~isOtaUpgrading' /\ InUpgrade(j) /\ ~InUpgrade(j)'
  /\ pc'[j] = "gattWait" =>
       /\ sem'[j] = cmdGattReplySemaphore /\ cmdGattReplySemaphore # NoJob
       /\ main = "stopDropGatt" => j \in late'
  /\ pc'[j] = "respWait" =>
       /\ sem'[j] = cmdResponseSemaphore /\ cmdResponseSemaphore # NoJob
       /\ main = "stopDropResp" => j \in late'
  /\ pc'[j] \in Sending => idx'[j] < plen'[j]
  /\ pc'[j] = "post" => isOtaUpgrading
  /\ IF pc[j] = "post" /\ otaJob = NoJob
     THEN strays' = strays + 1 ELSE strays' = strays
  /\ pc[j] = "post" => pc'[j] = "gattEnter"
  /\ fileInputStream' \in {fileInputStream, NoJob} \/ fileInputStream' = j
  /\ InUpgrade(j)' /\ pc[j] \in NoStream /\ pc'[j] \notin NoStream =>
       fileInputStream' = j
  /\ ~InUpgrade(j) => fileInputStream' \in {fileInputStream, NoJob}
  /\ ~InUpgrade(j) => UNCHANGED permits

LEMMA JobStepEffect ==
  ASSUME TypeOK, FrameInPacket, NEW j \in Job, JobStep(j)
  PROVE  JobEffect(j)
<1> USE DEF TypeOK, mainVars, permits, stream, packet, loopVars, observed,
            jobVars, Goto, JobEffect, InUpgrade, Sending, NoStream
<1>1. CASE NeverRuns(j)
  BY <1>1 DEF NeverRuns
<1>2. CASE OpenFails(j)
  BY <1>2 DEF OpenFails, Throw
<1>3. CASE OpenFile(j)
  BY <1>3 DEF OpenFile, PostOutcome, PostStatus
<1>4. CASE ReadHeader(j)
  BY <1>4, PacketNotEmpty, SizesAssumption
  DEF ReadHeader, BeginPacket, Remaining
<1>5. CASE HeaderThrows(j)
  BY <1>5 DEF HeaderThrows, Throw
<1>6. CASE CheckFlag(j)
  BY <1>6 DEF CheckFlag, FrameInPacket
<1>7. CASE SendFails(j)
  BY <1>7 DEF SendFails, PostOutcome
<1>8. CASE PostFrame(j)
  BY <1>8 DEF PostFrame, FrameInPacket
<1>9. CASE GattEnter(j)
  BY <1>9 DEF GattEnter, AfterGatt, FrameInPacket
<1>10. CASE GattAcquire(j)
  BY <1>10 DEF GattAcquire, AfterGatt, FrameInPacket
<1>11. CASE GattTimeout(j)
  BY <1>11 DEF GattTimeout, AfterGatt, FrameInPacket
<1>12. CASE RespEnter(j)
  BY <1>12 DEF RespEnter, FrameInPacket
<1>13. CASE RespAcquire(j)
  BY <1>13 DEF RespAcquire, FrameInPacket
<1>14. CASE RespTimeout(j)
  BY <1>14 DEF RespTimeout, FrameInPacket
<1>15. CASE DelayCancelled(j)
  BY <1>15 DEF DelayCancelled, Throw
<1>16. CASE NextFrame(j)
  BY <1>16, FrameBounds DEF NextFrame, FrameInPacket
<1>17. CASE PacketDone(j)
  BY <1>17 DEF PacketDone
<1>18. CASE SetFileOffset(j)
  BY <1>18 DEF SetFileOffset
<1>19. CASE SkipThrows(j)
  BY <1>19 DEF SkipThrows, Throw
<1>20. CASE InitData(j)
  BY <1>20 DEF InitData
<1>21. CASE LoopTest(j)
  BY <1>21, PacketNotEmpty DEF LoopTest, BeginPacket
<1>22. CASE ReadData(j)
  BY <1>22, FileTypes, PacketNotEmpty, SizesAssumption
  DEF ReadData, BeginPacket, Remaining
<1>23. CASE ReadThrows(j)
  BY <1>23 DEF ReadThrows
<1>24. CASE DataFails(j)
  BY <1>24 DEF DataFails
<1>25. CASE DataAdvances(j)
  BY <1>25 DEF DataAdvances
<1>26. CASE Succeed(j)
  BY <1>26 DEF Succeed
<1>27. CASE Fail(j)
  BY <1>27 DEF Fail
<1>28. CASE Catch(j)
  BY <1>28 DEF Catch
<1>29. CASE Report(j)
  BY <1>29 DEF Report
<1>30. CASE Finally(j)
  BY <1>30 DEF Finally
<1>31. CASE Dispatch(j)
  BY <1>31 DEF Dispatch
<1> QED
  BY <1>1, <1>2, <1>3, <1>4, <1>5, <1>6, <1>7, <1>8, <1>9, <1>10, <1>11, <1>12,
     <1>13, <1>14, <1>15, <1>16, <1>17, <1>18, <1>19, <1>20, <1>21, <1>22,
     <1>23, <1>24, <1>25, <1>26, <1>27, <1>28, <1>29, <1>30,
     <1>31
  DEF JobStep, JobContinues

-----------------------------------------------------------------------------
(* The inductive invariant.                                                *)

LEMMA InvInit == Init => IInv
  BY TypeInit
  DEF Init, IInv, NotStarted, FlagHeld, SemaphoreHeld, SemaphoresPaired,
      WaitsOnSemaphore, StopHolds, StrayPassedGuard, FrameInPacket, Sending,
      AtMostOneJob, OwnStream, NoStream, StopWakesJob, AtMostOneStray,
      InUpgrade, StopCloses

LEMMA JobPreserves ==
  ASSUME IInv, NEW j \in Job, JobStep(j)
  PROVE  IInv'
<1>1. TypeOK /\ JobEffect(j)
  BY JobStepEffect DEF IInv
<1>2. TypeOK'
  BY TypeStep DEF IInv, Next
<1>3. NotStarted'
  BY <1>1 DEF IInv, NotStarted, JobEffect, mainVars
<1>4. AtMostOneJob'
  BY <1>1 DEF IInv, AtMostOneJob, JobEffect, InUpgrade
<1>5. FlagHeld'
  BY <1>1 DEF IInv, FlagHeld, AtMostOneJob, JobEffect, InUpgrade, mainVars
<1>6. SemaphoreHeld'
  BY <1>1 DEF IInv, SemaphoreHeld, AtMostOneJob, JobEffect, InUpgrade, mainVars
<1>7. SemaphoresPaired'
  BY <1>1 DEF IInv, SemaphoresPaired, JobEffect, mainVars
<1>8. WaitsOnSemaphore'
  BY <1>1 DEF IInv, WaitsOnSemaphore, TypeOK, JobEffect
<1>9. StopHolds' /\ StopCloses'
  BY <1>1 DEF IInv, StopHolds, StopCloses, JobEffect, mainVars
<1>10. StrayPassedGuard' /\ AtMostOneStray'
  BY <1>1 DEF IInv, StrayPassedGuard, AtMostOneStray, StopHolds, AtMostOneJob,
              InUpgrade, TypeOK, JobEffect, mainVars
<1>11. FrameInPacket'
  BY <1>1 DEF IInv, FrameInPacket, JobEffect
<1>12. OwnStream'
  BY <1>1 DEF IInv, OwnStream, NoStream, AtMostOneJob, InUpgrade, JobEffect
<1>13. StopWakesJob'
  <2> SUFFICES ASSUME NEW k \in Job, k \notin late'
               PROVE  /\ /\ pc'[k] = "gattWait"
                         /\ \/ sem'[k] # cmdGattReplySemaphore
                            \/ main = "stopDropGatt"
                         => gattPermits'[sem'[k]] > 0
                      /\ /\ pc'[k] = "respWait"
                         /\ \/ sem'[k] # cmdResponseSemaphore
                            \/ main = "stopDropResp"
                         => respPermits'[sem'[k]] > 0
    BY <1>1 DEF StopWakesJob, JobEffect, mainVars
  <2>1. CASE k = j
    BY <1>1, <2>1 DEF JobEffect
  <2>2. CASE k # j /\ InUpgrade(j)
    BY <1>1, <2>2 DEF IInv, AtMostOneJob, InUpgrade, JobEffect
  <2>3. CASE k # j /\ ~InUpgrade(j)
    BY <1>1, <2>3 DEF IInv, StopWakesJob, JobEffect, permits
  <2> QED
    BY <2>1, <2>2, <2>3
<1> QED
  BY <1>2, <1>3, <1>4, <1>5, <1>6, <1>7, <1>8, <1>9, <1>10, <1>11, <1>12, <1>13
  DEF IInv

\* amOtaStart finds no job in its upgrade while the scope is alive, and leaves
\* the old semaphores to no job that still needs a release of theirs.
LEMMA StartPreserves ==
  ASSUME IInv, NEW p \in Path, AmOtaStart(p), TypeOK'
  PROVE  IInv'
<1> DEFINE n == starts + 1
<1> USE DEF IInv, TypeOK, AmOtaStart, stream, packet, loopVars, jobVars, Goto
<1>1. n \in Job /\ n > starts /\ n # NoJob /\ starts \in Nat
  BY StartsAreJobs, ServiceAssumption DEF Job, NoJob
<1>2. pc[n] = "none" /\ \A j \in Job : j # n => pc'[j] = pc[j]
  BY <1>1 DEF NotStarted
<1>3. pc'[n] \in {"ready", "done"} /\ (pc'[n] = "ready" => scopeActive)
  BY <1>1
<1>4. NotStarted'
  BY <1>1, <1>2, ServiceAssumption DEF NotStarted, Job
<1>5. scopeActive => \A j \in Job : ~InUpgrade(j)
  BY DEF FlagHeld
<1>6. AtMostOneJob'
  BY <1>2, <1>3, <1>5 DEF AtMostOneJob, InUpgrade
<1>7. FlagHeld' /\ SemaphoreHeld' /\ SemaphoresPaired'
  BY DEF FlagHeld, SemaphoreHeld, SemaphoresPaired
<1>8. WaitsOnSemaphore' /\ FrameInPacket'
  BY <1>2, <1>3 DEF WaitsOnSemaphore, FrameInPacket, Sending
<1>9. StopHolds' /\ StrayPassedGuard' /\ AtMostOneStray' /\ StopCloses'
  BY <1>1 DEF StopHolds, StrayPassedGuard, AtMostOneStray, StopCloses
<1>10. OwnStream'
  BY <1>2, <1>3 DEF OwnStream, NoStream, InUpgrade
<1>11. StopWakesJob'
  <2> SUFFICES ASSUME NEW j \in Job, j \notin late,
                      pc'[j] \in {"gattWait", "respWait"}
               PROVE  /\ pc[j] = "gattWait" => gattPermits[sem[j]] > 0
                      /\ pc[j] = "respWait" => respPermits[sem[j]] > 0
    BY <1>2, <1>3 DEF StopWakesJob, permits
  <2>1. pc[j] \in {"gattWait", "respWait"} /\ InUpgrade(j) /\ sem[j] # NoJob
    BY <1>2, <1>3, StartsAreJobs DEF WaitsOnSemaphore, InUpgrade
  <2>2. cmdGattReplySemaphore = NoJob /\ cmdResponseSemaphore = NoJob
    BY <2>1 DEF SemaphoreHeld, SemaphoresPaired
  <2> QED
    BY <2>1, <2>2 DEF StopWakesJob
<1> QED
  BY <1>4, <1>6, <1>7, <1>8, <1>9, <1>10, <1>11

\* The first statement of amOtaStop.
LEMMA BeginStopPreserves ==
  ASSUME IInv, main = "idle", BeginStop, TypeOK',
         UNCHANGED <<starts, scopeActive, otaJob, isOtaUpgrading, jobVars,
                     strays, late>>
  PROVE  IInv'
<1> USE DEF IInv, TypeOK, BeginStop, stream, packet, loopVars, jobVars, permits
<1>1. /\ NotStarted' /\ FlagHeld' /\ SemaphoreHeld' /\ SemaphoresPaired'
      /\ AtMostOneJob' /\ OwnStream'
  BY DEF NotStarted, FlagHeld, SemaphoreHeld, SemaphoresPaired, AtMostOneJob,
         OwnStream, NoStream, InUpgrade
<1>2. WaitsOnSemaphore' /\ FrameInPacket' /\ StopWakesJob'
  BY DEF WaitsOnSemaphore, FrameInPacket, StopWakesJob
<1>3. StopHolds' /\ StrayPassedGuard' /\ AtMostOneStray' /\ StopCloses'
  BY DEF StopHolds, StrayPassedGuard, AtMostOneStray, StopCloses
<1> QED
  BY <1>1, <1>2, <1>3

\* A call that only releases semaphores of the fields disturbs nothing.
LEMMA ReleasePreserves ==
  ASSUME IInv, TypeOK',
         \/ gattPermits' = Release(gattPermits, cmdGattReplySemaphore)
         \/ gattPermits' = gattPermits,
         \/ respPermits' = Release(respPermits, cmdResponseSemaphore)
         \/ respPermits' = respPermits,
         UNCHANGED <<main, starts, scopeActive, otaJob, cmdGattReplySemaphore,
                     cmdResponseSemaphore, isOtaUpgrading, jobVars, strays,
                     late>>
  PROVE  IInv'
<1> USE DEF IInv, TypeOK, stream, packet, loopVars, jobVars
<1>1. /\ NotStarted' /\ FlagHeld' /\ SemaphoreHeld' /\ SemaphoresPaired'
      /\ AtMostOneJob' /\ OwnStream'
  BY DEF NotStarted, FlagHeld, SemaphoreHeld, SemaphoresPaired, AtMostOneJob,
         OwnStream, NoStream, InUpgrade
<1>2. WaitsOnSemaphore' /\ FrameInPacket'
  BY DEF WaitsOnSemaphore, FrameInPacket
<1>3. StopHolds' /\ StrayPassedGuard' /\ AtMostOneStray' /\ StopCloses'
  BY DEF StopHolds, StrayPassedGuard, AtMostOneStray, StopCloses
<1>4. StopWakesJob'
  BY DEF StopWakesJob, WaitsOnSemaphore, Release
<1> QED
  BY <1>1, <1>2, <1>3, <1>4

\* An answer only begins a stop or releases the semaphore.
LEMMA ResponsePreserves ==
  ASSUME IInv, NEW c \in AmotaCmd, NEW ok \in BOOLEAN, NEW off \in Nat,
         OtaCmdResponse(c, ok, off)
  PROVE  IInv'
<1>1. TypeOK'
  BY ResponseTypes DEF IInv
<1>2. CASE ResponseUnknown(c)
  BY <1>1, <1>2, BeginStopPreserves DEF ResponseUnknown, observed
<1>3. CASE ResponseError(c)
  BY <1>1, <1>3, BeginStopPreserves DEF ResponseError
<1>4. CASE ResponseOk(c, off)
  BY <1>1, <1>4, ReleasePreserves DEF ResponseOk, observed
<1> QED
  BY <1>2, <1>3, <1>4 DEF OtaCmdResponse

\* The statements of amOtaStop up to the flag: what a blocked job needs is there
\* before the semaphore it blocks on is dropped.
LEMMA StopPreserves ==
  ASSUME IInv, TypeOK',
         \/ StopClearsOffset \/ StopReleasesGatt \/ StopDropsGatt
         \/ StopReleasesResponse \/ StopDropsResponse
  PROVE  IInv'
<1> USE DEF IInv, TypeOK, stream, packet, loopVars, jobVars, observed, permits,
            StopClearsOffset, StopReleasesGatt, StopDropsGatt,
            StopReleasesResponse, StopDropsResponse
<1>1. NotStarted' /\ FlagHeld' /\ AtMostOneJob' /\ OwnStream'
  BY DEF NotStarted, FlagHeld, AtMostOneJob, OwnStream, NoStream, InUpgrade
<1>2. SemaphoreHeld' /\ SemaphoresPaired'
  BY DEF SemaphoreHeld, SemaphoresPaired, InUpgrade
<1>3. WaitsOnSemaphore' /\ FrameInPacket'
  BY DEF WaitsOnSemaphore, FrameInPacket
<1>4. StopHolds' /\ StrayPassedGuard' /\ AtMostOneStray' /\ StopCloses'
  BY DEF StopHolds, StrayPassedGuard, AtMostOneStray, StopCloses
<1>5. StopWakesJob'
  <2>1. CASE StopClearsOffset
    BY <2>1 DEF StopWakesJob
  <2>2. CASE StopReleasesGatt
    BY <2>2, StartsAreJobs DEF StopWakesJob, WaitsOnSemaphore, Release
  <2>3. CASE StopDropsGatt
    BY <2>3 DEF StopWakesJob
  <2>4. CASE StopReleasesResponse
    BY <2>4, StartsAreJobs DEF StopWakesJob, WaitsOnSemaphore, Release
  <2>5. CASE StopDropsResponse
    BY <2>5 DEF StopWakesJob
  <2> QED
    BY <2>1, <2>2, <2>3, <2>4, <2>5
<1> QED
  BY <1>1, <1>2, <1>3, <1>4, <1>5

\* The rest of amOtaStart and amOtaStop.
LEMMA MainPreserves ==
  ASSUME IInv, MainContinues, TypeOK'
  PROVE  IInv'
<1> USE DEF IInv, TypeOK, stream, packet, loopVars, jobVars, observed, permits
<1>1. CASE StartSetsFlag
  BY <1>1 DEF StartSetsFlag, NotStarted, FlagHeld, SemaphoreHeld,
     SemaphoresPaired, WaitsOnSemaphore, StopHolds, StrayPassedGuard,
     FrameInPacket, AtMostOneJob, OwnStream, NoStream, StopWakesJob, AtMostOneStray,
     InUpgrade, StopCloses
<1>2. CASE StartPosts
  BY <1>2 DEF StartPosts, NotStarted, FlagHeld, SemaphoreHeld,
     SemaphoresPaired, WaitsOnSemaphore, StopHolds, StrayPassedGuard,
     FrameInPacket, AtMostOneJob, OwnStream, NoStream, StopWakesJob, AtMostOneStray,
     InUpgrade, StopCloses
<1>3. CASE StopClearsFlag
  BY <1>3 DEF StopClearsFlag, NotStarted, FlagHeld, SemaphoreHeld,
     SemaphoresPaired, WaitsOnSemaphore, StopHolds, StrayPassedGuard,
     FrameInPacket, AtMostOneJob, OwnStream, NoStream, StopWakesJob, AtMostOneStray,
     InUpgrade, StopCloses
<1>4. CASE StopCancels
  <2> USE <1>4 DEF StopCancels
  <2>1. /\ NotStarted' /\ FlagHeld' /\ SemaphoreHeld' /\ SemaphoresPaired'
        /\ WaitsOnSemaphore' /\ FrameInPacket' /\ AtMostOneJob' /\ OwnStream'
        /\ StopWakesJob'
    BY DEF NotStarted, FlagHeld, SemaphoreHeld, SemaphoresPaired, AtMostOneJob,
           WaitsOnSemaphore, FrameInPacket, OwnStream, NoStream, StopWakesJob, InUpgrade
  <2>2. StopHolds' /\ AtMostOneStray' /\ StopCloses'
    BY DEF StopHolds, AtMostOneStray, StopCloses
  <2>3. StrayPassedGuard'
    BY DEF StrayPassedGuard
  <2> QED
    BY <2>1, <2>2, <2>3
<1>5. CASE StopPosts
  BY <1>5 DEF StopPosts, NotStarted, FlagHeld, SemaphoreHeld,
     SemaphoresPaired, WaitsOnSemaphore, StopHolds, StrayPassedGuard,
     FrameInPacket, AtMostOneJob, OwnStream, NoStream, StopWakesJob, AtMostOneStray,
     InUpgrade, StopCloses
<1> QED
  BY <1>1, <1>2, <1>3, <1>4, <1>5, StopPreserves DEF MainContinues

LEMMA InvStep == IInv /\ [Next]_vars => IInv'
<1> SUFFICES ASSUME IInv, [Next]_vars PROVE IInv'
  OBVIOUS
<1>1. TypeOK'
  BY TypeStep DEF IInv
<1>2. ASSUME NEW p \in Path, AmOtaStart(p) PROVE IInv'
  BY <1>1, <1>2, StartPreserves
<1>3. CASE AmOtaStop
  BY <1>1, <1>3, BeginStopPreserves DEF AmOtaStop, observed
<1>4. CASE CmdGattReplayArrived
  BY <1>1, <1>4, ReleasePreserves DEF CmdGattReplayArrived, mainVars, observed
<1>5. ASSUME NEW c \in AmotaCmd, NEW ok \in BOOLEAN, NEW off \in Offsets,
             OtaCmdResponse(c, ok, off)
      PROVE  IInv'
  BY <1>5, ResponsePreserves, ServiceAssumption
<1>6. CASE MainContinues
  BY <1>1, <1>6, MainPreserves
<1>7. ASSUME NEW j \in Job, JobStep(j) PROVE IInv'
  BY <1>7, JobPreserves
<1>8. CASE UNCHANGED vars
  BY <1>1, <1>8
  DEF vars, mainVars, permits, stream, packet, loopVars, jobVars, observed,
      IInv, NoStream,
      NotStarted, FlagHeld, SemaphoreHeld, SemaphoresPaired, WaitsOnSemaphore,
      StopHolds, StrayPassedGuard, FrameInPacket, AtMostOneJob, OwnStream,
      StopWakesJob, AtMostOneStray, InUpgrade, StopCloses
<1> QED
  BY <1>2, <1>3, <1>4, <1>5, <1>6, <1>7, <1>8 DEF Next, Call

-----------------------------------------------------------------------------
(* The service implements AmotaOneUpgrade.                                 *)

\* Owner is the job in its upgrade, which is the only one.
LEMMA OwnerOfJob ==
  ASSUME AtMostOneJob, NEW j \in Job, InUpgrade(j)
  PROVE  Owner = j
  BY DEF AtMostOneJob, Owner

LEMMA OwnerOfNone ==
  ASSUME \A j \in Job : ~InUpgrade(j)
  PROVE  Owner = NoJob
  BY DEF Owner

\* While no program counter moves, the owner stays.
LEMMA OwnerStays ==
  ASSUME pc' = pc
  PROVE  Owner' = Owner
  BY DEF Owner, InUpgrade

LEMMA PromiseInit == Init => Promise!Init
<1> SUFFICES ASSUME Init PROVE Promise!Init
  OBVIOUS
<1>1. Owner = NoJob
  BY OwnerOfNone DEF Init, InUpgrade
<1> QED
  BY <1>1 DEF Init, Promise!Init, Promise!None, NoJob

\* An accepted start finds no upgrade, or a closed service.
LEMMA StartKeeps ==
  ASSUME IInv, IInv', NEW p \in Path, AmOtaStart(p)
  PROVE  Promise!Next
<1> USE DEF IInv, TypeOK
<1>1. PICK n \in Job : n = starts + 1 /\ n # NoJob /\ starts < MaxStarts
  BY StartsAreJobs, ServiceAssumption DEF Job, NoJob, AmOtaStart
<1>2. pc[n] = "none" /\ \A j \in Job : j # n => pc'[j] = pc[j]
  BY <1>1, ServiceAssumption DEF NotStarted, AmOtaStart, Goto
<1>3. /\ starts' = n /\ strays' = 0 /\ scopeActive' = scopeActive
      /\ main = "idle" /\ ~isOtaUpgrading
  BY <1>1 DEF AmOtaStart
<1>4. CASE scopeActive
  <2>1. \A j \in Job : ~InUpgrade(j)
    BY <1>3, <1>4 DEF FlagHeld
  <2>2. Owner = NoJob
    BY <2>1, OwnerOfNone
  <2>3. pc'[n] = "ready"
    BY <1>1, <1>4 DEF AmOtaStart, Goto
  <2>4. InUpgrade(n)'
    BY <2>3 DEF InUpgrade
  <2>5. Owner' = n
    <3>1. \A j \in Job : InUpgrade(j)' => j = n
      BY <1>1, <2>4 DEF AtMostOneJob
    <3> QED
      BY <1>1, <2>4, <3>1 DEF Owner
  <2> QED
    BY <1>1, <1>3, <1>4, <2>2, <2>5
    DEF Promise!Next, Promise!Grant, Promise!None, NoJob
<1>5. CASE ~scopeActive
  <2>1. pc'[n] = "done"
    BY <1>1, <1>5 DEF AmOtaStart, Goto
  <2>2. \A j \in Job : InUpgrade(j)' <=> InUpgrade(j)
    BY <1>2, <2>1 DEF InUpgrade
  <2>3. Owner' = Owner
    BY <2>2 DEF Owner
  <2> QED
    BY <1>1, <1>3, <1>5, <2>3 DEF Promise!Next, Promise!GrantNothing
<1> QED
  BY <1>4, <1>5

\* A step of a job ends its upgrade, sends the one stray frame, or shows nothing.
LEMMA JobKeeps ==
  ASSUME IInv, IInv', NEW j \in Job, JobStep(j)
  PROVE  Promise!Next \/ UNCHANGED Promise!vars
<1> USE DEF IInv, TypeOK
<1>1. JobEffect(j)
  BY JobStepEffect
<1>2. /\ starts' = starts /\ scopeActive' = scopeActive /\ otaJob' = otaJob
      /\ \A k \in Job \ {j} : InUpgrade(k)' <=> InUpgrade(k)
      /\ InUpgrade(j)' => InUpgrade(j)
  BY <1>1 DEF JobEffect, mainVars, InUpgrade
<1>3. CASE pc[j] = "post"
  <2>1. InUpgrade(j) /\ InUpgrade(j)'
    BY <1>1, <1>3 DEF JobEffect, InUpgrade
  <2>2. Owner = j /\ Owner' = j
    <3>1. Owner = j
      BY <2>1, OwnerOfJob
    <3>2. \A k \in Job : InUpgrade(k)' => k = j
      BY <2>1 DEF AtMostOneJob
    <3>3. Owner' = j
      BY <2>1, <3>2 DEF Owner
    <3> QED
      BY <3>1, <3>3
  <2>3. CASE otaJob = NoJob
    <3>1. strays = 0 /\ strays' = 1
      BY <1>1, <1>3, <2>3 DEF JobEffect, StrayPassedGuard, AtMostOneStray
    <3>2. starts # 0
      <4>1. ~(j > starts)
        BY <1>3 DEF NotStarted
      <4>2. j \in Nat /\ j > 0
        BY ServiceAssumption DEF Job
      <4> QED
        BY <4>1, <4>2
    <3>3. ~scopeActive
      BY <2>3, <3>2 DEF StopCloses
    <3>4. j # NoJob
      BY ServiceAssumption DEF Job, NoJob
    <3> QED
      BY <1>2, <2>2, <3>1, <3>3, <3>4
      DEF Promise!Next, Promise!Stray, Promise!None, NoJob
  <2>4. CASE otaJob # NoJob
    BY <1>1, <1>2, <1>3, <2>2, <2>4 DEF JobEffect, Promise!vars
  <2> QED
    BY <2>3, <2>4
<1>4. CASE pc[j] # "post"
  <2>1. strays' = strays
    BY <1>1, <1>4 DEF JobEffect
  <2>2. CASE InUpgrade(j)' <=> InUpgrade(j)
    <3>1. \A k \in Job : InUpgrade(k)' <=> InUpgrade(k)
      BY <1>2, <2>2
    <3>2. Owner' = Owner
      BY <3>1 DEF Owner
    <3> QED
      BY <1>2, <2>1, <3>2 DEF Promise!vars
  <2>3. CASE InUpgrade(j) /\ ~InUpgrade(j)'
    <3>1. Owner = j /\ j # NoJob
      BY <2>3, OwnerOfJob, ServiceAssumption DEF Job, NoJob
    <3>2. \A k \in Job : ~InUpgrade(k)'
      BY <1>2, <2>3 DEF AtMostOneJob
    <3>3. Owner' = NoJob
      BY <3>2 DEF Owner
    <3> QED
      BY <1>2, <2>1, <3>1, <3>3
      DEF Promise!Next, Promise!Finish, Promise!None, NoJob
  <2> QED
    BY <1>2, <2>2, <2>3
<1> QED
  BY <1>3, <1>4

LEMMA PromiseStep ==
  IInv /\ IInv' /\ [Next]_vars => Promise!Next \/ UNCHANGED Promise!vars
<1> SUFFICES ASSUME IInv, IInv', [Next]_vars
             PROVE  Promise!Next \/ UNCHANGED Promise!vars
  OBVIOUS
<1> USE DEF jobVars, observed, mainVars, Promise!vars
<1>1. ASSUME NEW p \in Path, AmOtaStart(p)
      PROVE  Promise!Next
  BY <1>1, StartKeeps
<1>2. ASSUME NEW j \in Job, JobStep(j)
      PROVE  Promise!Next \/ UNCHANGED Promise!vars
  BY <1>2, JobKeeps
<1>3. CASE AmOtaStop \/ CmdGattReplayArrived
  BY <1>3, OwnerStays DEF AmOtaStop, CmdGattReplayArrived
<1>4. ASSUME NEW c \in AmotaCmd, NEW ok \in BOOLEAN, NEW off \in Offsets,
             OtaCmdResponse(c, ok, off)
      PROVE  UNCHANGED Promise!vars
  BY <1>4, OwnerStays
  DEF OtaCmdResponse, ResponseUnknown, ResponseError, ResponseOk
<1>5. CASE \/ StartSetsFlag \/ StartPosts
           \/ StopClearsOffset \/ StopReleasesGatt \/ StopDropsGatt
           \/ StopReleasesResponse \/ StopDropsResponse
           \/ StopClearsFlag \/ StopPosts
  BY <1>5, OwnerStays
  DEF StartSetsFlag, StartPosts, StopClearsOffset, StopReleasesGatt,
      StopDropsGatt, StopReleasesResponse, StopDropsResponse, StopClearsFlag,
      StopPosts
<1>6. CASE StopCancels
  BY <1>6, OwnerStays DEF StopCancels, Promise!Next, Promise!Close
<1>7. CASE UNCHANGED vars
  BY <1>7, OwnerStays DEF vars
<1> QED
  BY <1>1, <1>2, <1>3, <1>4, <1>5, <1>6, <1>7 DEF Next, Call, MainContinues

-----------------------------------------------------------------------------
(* Every upgrade reports how it ended.                                     *)

\* The end of job j's upgrade was posted, or a stop will post its own, or the job
\* was cancelled, or its file is too short to hold a header.
Told(j) ==
  \/ j \in heard \/ j \in cancelled \/ Stopping \/ main = "stopPost"
  \/ Length(file[j]) \in 1..(FwHeaderSize - 1)

\* EndIsReported, from the statement on that ends the upgrade without a post.
TellsInTime ==
  \A j \in Job : pc[j] \in {"failed", "finally", "done"} => Told(j)

\* A job that is left when the scope is cancelled, or launched after, is cancelled.
ScopeCancels ==
  ~scopeActive =>
    \A j \in Job : pc[j] \notin {"none", "done"} => j \in cancelled

\* The program points before the first frame, which a job does not pass while
\* isOtaUpgrading is not set.
BeforeFirstFrame ==
  {"ready", "open", "readHeader", "check", "cmdFailed", "failed", "catch"}

AtFirstFrame(j) ==
  /\ pc[j] \in BeforeFirstFrame
  /\ pc[j] \in {"check", "cmdFailed"} => cmd[j] = HEADER

\* The job that runs ahead of amOtaStart's assignment of the flag.
RunsAhead ==
  main = "startFlag" =>
    /\ ~isOtaUpgrading
    /\ scopeActive => \A j \in Job : InUpgrade(j) => AtFirstFrame(j)

\* A file that was opened has bytes, and its header is its first.
ReadsFromStart ==
  \A j \in Job : pc[j] = "readHeader" => pos[j] = 0 /\ Length(file[j]) # 0

\* The inductive invariant, on top of IInv.
ReportInv == TellsInTime /\ ScopeCancels /\ RunsAhead /\ ReadsFromStart

\* What a step of job j does to the state that ReportInv relates.
ReportEffect(j) ==
  /\ UNCHANGED mainVars
  /\ heard \subseteq heard'
  /\ isOtaUpgrading' => isOtaUpgrading
  /\ pc[j] # "none" /\ pc[j] # "done"
  /\ \A k \in Job \ {j} : /\ pc'[k] = pc[k] /\ cmd'[k] = cmd[k]
                          /\ file'[k] = file[k]
                          /\ pc[k] = "readHeader" => pos'[k] = pos[k]
  /\ pc[j] # "open" => file'[j] = file[j]
  /\ pc'[j] \in {"failed", "finally", "done"} =>
       \/ j \in heard'
       \/ j \in cancelled
       \/ pc[j] \in {"failed", "finally"}
       \/ pc[j] = "readHeader" /\ Length(file[j]) - pos[j] < FwHeaderSize
       \/ pc[j] = "dataRet" /\ ~isOtaUpgrading
  /\ pc'[j] = "readHeader" => pos'[j] = 0 /\ Length(file'[j]) # 0
  /\ ~isOtaUpgrading /\ AtFirstFrame(j) /\ InUpgrade(j)' => AtFirstFrame(j)'
  /\ InUpgrade(j)' => InUpgrade(j)

LEMMA JobStepReports ==
  ASSUME TypeOK, AtMostOneJob, OwnStream, NEW j \in Job, JobStep(j)
  PROVE  ReportEffect(j)
<1>1. \A k \in Job \ {j} : InUpgrade(j) => pc[k] # "readHeader"
  BY DEF AtMostOneJob, InUpgrade
<1>2. pc[j] = "readHeader" => fileInputStream \in {j, NoJob}
  BY DEF OwnStream, NoStream, InUpgrade
<1> USE DEF TypeOK, mainVars, permits, stream, packet, loopVars, observed,
            jobVars, Goto, ReportEffect, AtFirstFrame, BeforeFirstFrame,
            InUpgrade, PostOutcome, Throw, BeginPacket
<1>3. CASE NeverRuns(j)
  BY <1>1, <1>2, <1>3 DEF NeverRuns
<1>4. CASE OpenFails(j)
  BY <1>1, <1>2, <1>4 DEF OpenFails
<1>5. CASE OpenFile(j)
  BY <1>1, <1>2, <1>5, FileTypes DEF OpenFile
<1>6. CASE ReadHeader(j)
  BY <1>1, <1>2, <1>6 DEF ReadHeader, Remaining
<1>7. CASE HeaderThrows(j)
  BY <1>1, <1>2, <1>7 DEF HeaderThrows
<1>8. CASE CheckFlag(j)
  BY <1>1, <1>2, <1>8 DEF CheckFlag
<1>9. CASE SendFails(j)
  BY <1>1, <1>2, <1>9 DEF SendFails, HEADER, DATA
<1>10. CASE PostFrame(j)
  BY <1>1, <1>2, <1>10 DEF PostFrame
<1>11. CASE GattEnter(j)
  BY <1>1, <1>2, <1>11 DEF GattEnter, AfterGatt
<1>12. CASE GattAcquire(j)
  BY <1>1, <1>2, <1>12 DEF GattAcquire, AfterGatt
<1>13. CASE GattTimeout(j)
  BY <1>1, <1>2, <1>13 DEF GattTimeout, AfterGatt
<1>14. CASE RespEnter(j)
  BY <1>1, <1>2, <1>14 DEF RespEnter
<1>15. CASE RespAcquire(j)
  BY <1>1, <1>2, <1>15 DEF RespAcquire
<1>16. CASE RespTimeout(j)
  BY <1>1, <1>2, <1>16 DEF RespTimeout
<1>17. CASE DelayCancelled(j)
  BY <1>1, <1>2, <1>17 DEF DelayCancelled
<1>18. CASE NextFrame(j)
  BY <1>1, <1>2, <1>18 DEF NextFrame
<1>19. CASE PacketDone(j)
  BY <1>1, <1>2, <1>19 DEF PacketDone
<1>20. CASE SetFileOffset(j)
  BY <1>1, <1>2, <1>20 DEF SetFileOffset
<1>21. CASE SkipThrows(j)
  BY <1>1, <1>2, <1>21 DEF SkipThrows
<1>22. CASE InitData(j)
  BY <1>1, <1>2, <1>22 DEF InitData
<1>23. CASE LoopTest(j)
  BY <1>1, <1>2, <1>23 DEF LoopTest
<1>24. CASE ReadData(j)
  BY <1>1, <1>2, <1>24 DEF ReadData
<1>25. CASE ReadThrows(j)
  BY <1>1, <1>2, <1>25 DEF ReadThrows
<1>26. CASE DataFails(j)
  BY <1>1, <1>2, <1>26 DEF DataFails
<1>27. CASE DataAdvances(j)
  BY <1>1, <1>2, <1>27 DEF DataAdvances
<1>28. CASE Succeed(j)
  BY <1>1, <1>2, <1>28 DEF Succeed
<1>29. CASE Fail(j)
  BY <1>1, <1>2, <1>29 DEF Fail
<1>30. CASE Catch(j)
  BY <1>1, <1>2, <1>30 DEF Catch
<1>31. CASE Report(j)
  BY <1>1, <1>2, <1>31 DEF Report
<1>32. CASE Finally(j)
  BY <1>1, <1>2, <1>32 DEF Finally
<1>33. CASE Dispatch(j)
  BY <1>1, <1>2, <1>33 DEF Dispatch
<1> QED
  BY <1>3, <1>4, <1>5, <1>6, <1>7, <1>8, <1>9, <1>10, <1>11, <1>12, <1>13,
     <1>14, <1>15, <1>16, <1>17, <1>18, <1>19, <1>20, <1>21, <1>22, <1>23,
     <1>24, <1>25, <1>26, <1>27, <1>28, <1>29, <1>30, <1>31, <1>32,
     <1>33
  DEF JobStep, JobContinues

\* The file of a job that finds no complete header is too short, not empty.
LEMMA ReportJobPreserves ==
  ASSUME IInv, ReportInv, TypeOK', NEW j \in Job, JobStep(j)
  PROVE  ReportInv'
<1>1. ReportEffect(j) /\ TypeOK
  BY JobStepReports DEF IInv
<1>2. UNCHANGED <<main, scopeActive, cancelled>>
  BY <1>1 DEF ReportEffect, mainVars
<1>3. ScopeCancels'
  BY <1>1, <1>2 DEF ReportInv, ScopeCancels, ReportEffect
<1>4. RunsAhead'
  <2> SUFFICES ASSUME main = "startFlag"
               PROVE  /\ ~isOtaUpgrading'
                      /\ scopeActive => \A k \in Job : InUpgrade(k)'
                                                         => AtFirstFrame(k)'
    BY <1>2 DEF RunsAhead
  <2>1. ~isOtaUpgrading /\ ~isOtaUpgrading'
    BY <1>1 DEF ReportInv, RunsAhead, ReportEffect
  <2>2. ASSUME scopeActive, NEW k \in Job, InUpgrade(k)'
        PROVE  AtFirstFrame(k)'
    <3>1. CASE k = j
      BY <1>1, <2>1, <2>2, <3>1 DEF ReportInv, RunsAhead, ReportEffect
    <3>2. CASE k # j
      BY <1>1, <2>2, <3>2
      DEF ReportInv, RunsAhead, ReportEffect, InUpgrade, AtFirstFrame
    <3> QED
      BY <3>1, <3>2
  <2> QED
    BY <2>1, <2>2
<1>5. ReadsFromStart'
  BY <1>1 DEF ReportInv, ReadsFromStart, ReportEffect
<1>6. TellsInTime'
  <2> SUFFICES ASSUME NEW k \in Job, pc'[k] \in {"failed", "finally", "done"}
               PROVE  Told(k)'
    BY DEF TellsInTime
  <2>1. ASSUME Told(k), file'[k] = file[k] PROVE Told(k)'
    BY <1>1, <1>2, <2>1 DEF Told, Stopping, ReportEffect
  <2>2. CASE k # j
    BY <1>1, <2>1, <2>2 DEF ReportInv, TellsInTime, ReportEffect
  <2>3. CASE k = j /\ (j \in heard' \/ j \in cancelled)
    BY <1>2, <2>3 DEF Told
  <2>4. CASE k = j /\ pc[j] \in {"failed", "finally"}
    BY <1>1, <2>1, <2>4 DEF ReportInv, TellsInTime, ReportEffect
  <2>5. CASE /\ k = j /\ pc[j] = "readHeader"
             /\ Length(file[j]) - pos[j] < FwHeaderSize
    <3>1. pos[j] = 0 /\ Length(file[j]) # 0 /\ file'[j] = file[j]
      BY <1>1, <2>5 DEF ReportInv, ReadsFromStart, ReportEffect
    <3>2. Length(file[j]) \in 1..(FwHeaderSize - 1)
      BY <2>5, <3>1, FileTypes, SizesAssumption
    <3> QED
      BY <2>1, <2>5, <3>1, <3>2 DEF Told
  <2>6. CASE k = j /\ pc[j] = "dataRet" /\ ~isOtaUpgrading
    <3>1. InUpgrade(j) /\ ~AtFirstFrame(j)
      BY <2>6 DEF InUpgrade, AtFirstFrame, BeforeFirstFrame
    <3>2. scopeActive => Stopping
      BY <2>6, <3>1 DEF IInv, FlagHeld, ReportInv, RunsAhead, Stopping, StopTypes
    <3>3. ~scopeActive => j \in cancelled
      BY <3>1 DEF ReportInv, ScopeCancels, InUpgrade
    <3> QED
      BY <1>2, <2>6, <3>2, <3>3 DEF Told, Stopping
  <2> QED
    BY <1>1, <2>2, <2>3, <2>4, <2>5, <2>6 DEF ReportEffect
<1> QED
  BY <1>3, <1>4, <1>5, <1>6 DEF ReportInv

\* A call that is over at once, and the first statement of a stop, report nothing
\* and end nothing.
LEMMA ReportKept ==
  ASSUME ReportInv, main = "idle", main' \in {"idle", "stopOffset"},
         UNCHANGED <<scopeActive, cancelled, isOtaUpgrading, jobVars, heard>>
  PROVE  ReportInv'
  BY DEF ReportInv, TellsInTime, ScopeCancels, RunsAhead, ReadsFromStart, Told,
         Stopping, StopTypes, jobVars, stream

LEMMA ReportResponse ==
  ASSUME ReportInv, NEW c, NEW ok, NEW off, OtaCmdResponse(c, ok, off)
  PROVE  ReportInv'
  BY ReportKept
  DEF OtaCmdResponse, ResponseUnknown, ResponseError, ResponseOk, BeginStop,
      observed

\* amOtaStop posts for every upgrade it interrupts, and amOtaStart begins with
\* none under way while the scope lives.
LEMMA ReportMainPreserves ==
  ASSUME IInv, ReportInv, TypeOK', Call \/ MainContinues
  PROVE  ReportInv'
<1> USE DEF IInv, TypeOK, ReportInv, stream, packet, loopVars, jobVars,
            observed, permits
<1>1. ASSUME NEW p \in Path, AmOtaStart(p) PROVE ReportInv'
  <2> DEFINE n == starts + 1
  <2> USE <1>1 DEF AmOtaStart, Goto
  <2>1. n \in Job /\ n > starts
    BY StartsAreJobs
  <2>2. /\ pc[n] = "none" /\ \A j \in Job : j # n => pc'[j] = pc[j]
        /\ IF scopeActive THEN pc'[n] = "ready" /\ cancelled' = cancelled
           ELSE pc'[n] = "done" /\ cancelled' = cancelled \union {n}
    BY <2>1 DEF NotStarted
  <2>3. scopeActive => \A j \in Job : ~InUpgrade(j)
    BY DEF FlagHeld
  <2>4. TellsInTime'
    BY <2>2 DEF TellsInTime, Told, Stopping,
     StopTypes
  <2>5. ScopeCancels'
    BY <2>2 DEF ScopeCancels
  <2>6. RunsAhead'
    BY <2>2, <2>3 DEF RunsAhead, InUpgrade, AtFirstFrame, BeforeFirstFrame
  <2>7. ReadsFromStart'
    BY <2>2 DEF ReadsFromStart
  <2> QED
    BY <2>4, <2>5, <2>6, <2>7
<1>2. CASE AmOtaStop
  BY <1>2, ReportKept DEF AmOtaStop, BeginStop
<1>3. CASE CmdGattReplayArrived
  BY <1>3, ReportKept DEF CmdGattReplayArrived, mainVars
<1>4. ASSUME NEW c \in AmotaCmd, NEW ok \in BOOLEAN, NEW off \in Offsets,
             OtaCmdResponse(c, ok, off)
      PROVE  ReportInv'
  BY <1>4, ReportResponse
<1>5. CASE StartSetsFlag \/ StartPosts
  BY <1>5 DEF StartSetsFlag, StartPosts, TellsInTime, ScopeCancels, RunsAhead,
              ReadsFromStart, Told, Stopping,
     StopTypes
<1>6. CASE StopClearsFlag
  BY <1>6 DEF StopClearsFlag, TellsInTime, ScopeCancels, RunsAhead,
              ReadsFromStart, Told, Stopping,
     StopTypes
<1>7. CASE StopCancels
  BY <1>7 DEF StopCancels, TellsInTime, ScopeCancels, RunsAhead,
              ReadsFromStart, Told, Stopping,
     StopTypes
<1>8. CASE StopPosts
  <2> USE <1>8 DEF StopPosts
  <2>1. \A j \in Job : pc[j] # "none" => j \in 1..starts
    BY DEF NotStarted, Job
  <2>2. TellsInTime'
    BY <2>1 DEF TellsInTime, Told
  <2>3. ScopeCancels' /\ RunsAhead' /\ ReadsFromStart'
    BY DEF ScopeCancels, RunsAhead, ReadsFromStart
  <2> QED
    BY <2>2, <2>3
<1>9. CASE \/ StopClearsOffset \/ StopReleasesGatt \/ StopDropsGatt
           \/ StopReleasesResponse \/ StopDropsResponse
  BY <1>9
  DEF StopClearsOffset, StopReleasesGatt, StopDropsGatt, StopReleasesResponse,
      StopDropsResponse, TellsInTime, ScopeCancels, RunsAhead, ReadsFromStart,
      Told, Stopping, StopTypes
<1> QED
  BY <1>1, <1>2, <1>3, <1>4, <1>5, <1>6, <1>7, <1>8, <1>9 DEF Call, MainContinues

LEMMA ReportInit == Init => ReportInv
  BY DEF Init, ReportInv, TellsInTime, ScopeCancels, RunsAhead, ReadsFromStart

LEMMA ReportStep ==
  IInv /\ IInv' /\ ReportInv /\ [Next]_vars => ReportInv'
<1> SUFFICES ASSUME IInv, TypeOK', ReportInv, [Next]_vars PROVE ReportInv'
  BY DEF IInv
<1>1. CASE Call \/ MainContinues
  BY <1>1, ReportMainPreserves
<1>2. ASSUME NEW j \in Job, JobStep(j) PROVE ReportInv'
  BY <1>2, ReportJobPreserves
<1>3. CASE UNCHANGED vars
  BY <1>3
  DEF vars, mainVars, stream, packet, loopVars, jobVars, observed, ReportInv,
      TellsInTime, ScopeCancels, RunsAhead, ReadsFromStart, Told, Stopping,
      AtFirstFrame, InUpgrade
<1> QED
  BY <1>1, <1>2, <1>3 DEF Next

-----------------------------------------------------------------------------
(* The theorems.                                                           *)

\* The inductive invariant holds in every state of every behaviour.
THEOREM Invariant == Spec => []IInv
  BY InvInit, InvStep, PTL DEF Spec

\* Every variable keeps its type: the permits of a semaphore and what is left of
\* a packet are never negative, and no job reads or sends what it has not got.
THEOREM TypeCorrect == Spec => []TypeOK
  BY Invariant, PTL DEF IInv

\* Two upgrades never run at once, although nothing but the unlocked flag and
\* the cancelled scope keeps them apart.
THEOREM SingleFlight == Spec => []AtMostOneJob
  BY Invariant, PTL DEF IInv

\* A job never reads another upgrade's file through the shared stream field.
THEOREM StreamIsOwn == Spec => []OwnStream
  BY Invariant, PTL DEF IInv

\* A job that blocks when amOtaStop drops the semaphores finds a permit, unless it
\* came back to wait between the release and the drop.
THEOREM StopWakes == Spec => []StopWakesJob
  BY Invariant, PTL DEF IInv

\* After amOtaStop has cancelled the job, at most one more frame goes out.
THEOREM StraysBounded == Spec => []AtMostOneStray
  BY Invariant, PTL DEF IInv

\* Every upgrade that ran is reported, by the job or by the stop that ended it,
\* or its file is too short to hold a header.
THEOREM EndsReported == Spec => []EndIsReported
<1>1. IInv /\ ReportInv => EndIsReported
  BY DEF ReportInv, TellsInTime, Told, Stopping, EndIsReported
<1> QED
  BY <1>1, Invariant, ReportInit, ReportStep, PTL DEF Spec

\* The service implements AmotaOneUpgrade: whatever the two threads interleave,
\* upgrades begin one at a time and never again after a stop.
THEOREM Implements == Spec => KeepsPromise
<1>1. Init => Promise!Init
  BY PromiseInit
<1>2. IInv /\ IInv' /\ [Next]_vars => [Promise!Next]_(Promise!vars)
  BY PromiseStep
<1> QED
  BY <1>1, <1>2, Invariant, PTL DEF Spec, KeepsPromise, Promise!Spec

=============================================================================
