------------------------- MODULE IosOtaServiceProofs ------------------------
(***************************************************************************)
(* Proofs about IosOtaService: its type invariant, what release leaves     *)
(* behind, and that an upgrade that was started with nothing else under    *)
(* way, and that no call interrupts, keeps the properties it shares with   *)
(* its delayed closures, for every value of the constants.                 *)
(***************************************************************************)
EXTENDS IosOtaService, SequenceTheorems, FiniteSetTheorems, TLAPS

-----------------------------------------------------------------------------
(* The main queue.                                                         *)

\* What is known of a queue that is not empty.
LEMMA QueueHead ==
  ASSUME NEW q \in Seq(Message), q # <<>>
  PROVE  /\ Tail(q) \in Seq(Message) /\ Head(q) \in Message /\ Head(q) = q[1]
         /\ Len(q) \in Nat /\ Len(q) >= 1
         /\ Len(q) = 1 => Tail(q) = <<>>
<1>1. /\ Tail(q) \in Seq(Message) /\ Head(q) \in Message /\ Head(q) = q[1]
      /\ Len(q) \in Nat /\ Len(q) >= 1 /\ Len(Tail(q)) = Len(q) - 1
  BY HeadTailProperties, LenProperties
<1> QED
  BY <1>1, EmptySeq

LEMMA QueueAppend ==
  ASSUME NEW q \in Seq(Message), NEW m \in Message
  PROVE  /\ Append(q, m) \in Seq(Message) /\ Append(q, m) # <<>>
         /\ q = <<>> => Len(Append(q, m)) = 1 /\ Append(q, m)[1] = m
<1>1. /\ Append(q, m) \in Seq(Message) /\ Len(Append(q, m)) = Len(q) + 1
      /\ Append(q, m)[Len(q) + 1] = m /\ Len(q) \in Nat
  BY AppendProperties, LenProperties
<1>2. q = <<>> => Len(q) = 0
  BY EmptySeq
<1>3. Len(<<>>) = 0
  BY EmptySeq
<1>4. Append(q, m) # <<>>
  BY <1>1, <1>3
<1>5. q = <<>> => Len(Append(q, m)) = 1 /\ Append(q, m)[1] = m
  <2> SUFFICES ASSUME q = <<>> PROVE Len(Append(q, m)) = 1 /\ Append(q, m)[1] = m
    OBVIOUS
  <2>1. Len(q) + 1 = 1
    BY <1>2
  <2> QED
    BY <1>1, <2>1
<1> QED
  BY <1>1, <1>4, <1>5

\* The callbacks that are left after a link was lost were there before.
LEMMA LostQueue ==
  ASSUME mainQueue \in Seq(Message), NEW p, LinkLost(p)
  PROVE  /\ mainQueue' \in Seq(Message)
         /\ mainQueue = <<>> => mainQueue' = <<>>
         /\ Len(mainQueue) = 1 => \/ mainQueue' = <<>>
                                  \/ /\ Len(mainQueue') = 1
                                     /\ mainQueue'[1] = mainQueue[1]
<1> DEFINE kept == {i \in 1..Len(mainQueue) : mainQueue[i].peri # p}
           n == Cardinality(kept)
<1>1. Len(mainQueue) \in Nat /\ n \in Nat
  <2>1. Len(mainQueue) \in Nat
    BY LenProperties
  <2>2. IsFiniteSet(1..Len(mainQueue))
    BY <2>1, FS_Interval
  <2>3. IsFiniteSet(kept)
    BY <2>2, FS_Subset
  <2> QED
    BY <2>1, <2>3, FS_CardinalityType
<1>2. PICK f \in [1..n -> kept] :
        /\ \A i, k \in 1..n : i < k => f[i] < f[k]
        /\ mainQueue' = [i \in 1..n |-> mainQueue[f[i]]]
  BY DEF LinkLost
<1>3. \A i \in 1..n : f[i] \in 1..Len(mainQueue)
  BY <1>2
<1> HIDE DEF kept, n
<1>4. \A i \in 1..n : mainQueue[f[i]] \in Message
  BY <1>3, ElementOfSeq
<1>5. mainQueue' \in Seq(Message) /\ Len(mainQueue') = n
  BY <1>1, <1>2, <1>4
<1>6. mainQueue = <<>> => mainQueue' = <<>>
  <2>1. ASSUME mainQueue = <<>> PROVE n = 0
    BY <1>1, <1>3, <2>1, EmptySeq
  <2> QED
    BY <1>5, <2>1, EmptySeq
<1>7. ASSUME Len(mainQueue) = 1, mainQueue' # <<>>
      PROVE  Len(mainQueue') = 1 /\ mainQueue'[1] = mainQueue[1]
  <2>1. n # 0
    BY <1>5, <1>7, EmptySeq
  <2>2. 1 \in 1..n /\ f[1] = 1
    BY <1>1, <1>3, <1>7, <2>1
  <2>3. ~(2 \in 1..n)
    BY <1>2, <1>3, <1>7, <2>2
  <2> QED
    BY <1>1, <1>2, <1>5, <2>2, <2>3
<1> QED
  BY <1>5, <1>6, <1>7

-----------------------------------------------------------------------------
(* What the library's operations do.                                       *)

\* The transfer under way has a peripheral.
PeripheralKnown == masterState # "IDLE" => amPeri \in Peripheral

\* Queue q, or q with the device's answer.  A verify that is answered with
\* success was one.
Sends(q) ==
  \/ mainQueue' = q
  \/ \E m \in Notification :
       /\ m.peri = amPeri'
       /\ m.cmd = "FW_VERIFY" /\ m.status = "SUCCESS" => verified'
       /\ mainQueue' = Append(q, m)

LEMMA AnswerSent ==
  ASSUME NEW q, NEW p \in Peripheral, amPeri' = p,
         NEW c \in {"FW_HEADER", "FW_DATA", "FW_VERIFY"},
         NEW s \in eAmotaStatus, NEW n \in Nat,
         mainQueue' = Answered(q, p, c, s, n),
         c = "FW_VERIFY" /\ s = "SUCCESS" => verified'
  PROVE  Sends(q)
<1>1. /\ Response(p, c, s, n) \in Notification
      /\ Response(p, c, s, n).peri = p /\ Response(p, c, s, n).cmd = c
      /\ Response(p, c, s, n).status = s
  BY DEF Response, Notification, eAmotaCommand
<1> QED
  BY <1>1 DEF Answered, Sends

LEMMA SendsType ==
  ASSUME NEW q \in Seq(Message), Sends(q)
  PROVE  mainQueue' \in Seq(Message)
  BY QueueAppend DEF Sends, Message

\* A file the library takes: the header goes out, to the peripheral it is given.
LEMMA LoadEffect ==
  ASSUME LibTypeOK, NEW p \in Peripheral \union {NoPeripheral}, NEW len \in Nat,
         NEW good \in BOOLEAN, NEW size \in Nat, NEW result,
         amOtaStart(p, len, good, size, result)
  PROVE  /\ LibTypeOK'
         /\ PeripheralKnown => PeripheralKnown'
         /\ result = "OTA_FW_NO_ERROR" =>
              /\ p # NoPeripheral /\ len > HeaderLength /\ Sends(mainQueue)
              /\ amPeri' = p /\ amFwTotalDataSize' = len - HeaderLength
         /\ result # "OTA_FW_NO_ERROR" => UNCHANGED mainQueue
<1> USE LibraryAssumption DEF LibTypeOK
<1>1. CASE LoadFile(p, len, good, size) /\ result = "OTA_FW_NO_ERROR"
  <2> USE <1>1 DEF LoadFile, amOtaSetupBrickSize
  <2>1. received' \in Nat /\ Sends(mainQueue)
    <3>1. ASSUME NEW c \in Resume, received' = c,
                 mainQueue' = Answered(mainQueue, p, "FW_HEADER", "SUCCESS", c)
          PROVE  received' \in Nat /\ Sends(mainQueue)
      BY <3>1, AnswerSent DEF eAmotaStatus
    <3>2. ASSUME NEW s \in Refusals, received' = 0,
                 mainQueue' = Answered(mainQueue, p, "FW_HEADER", s, 0)
          PROVE  received' \in Nat /\ Sends(mainQueue)
      BY <3>2, AnswerSent
    <3> QED
      BY <3>1, <3>2 DEF SendHeader
  <2>2. mainQueue' \in Seq(Message)
    BY <2>1, SendsType
  <2>3. amFwTotalDataSize' \in Nat /\ masterPkgs' \in 0..amFwTotalDataSize'
    OBVIOUS
  <2>4. masterState' \in eAmotaState /\ ePause' \in ePauseReq
    BY DEF eAmotaState, ePauseReq
  <2>5. LibTypeOK'
    BY <2>1, <2>2, <2>3, <2>4
  <2> QED
    BY <2>1, <2>5 DEF PeripheralKnown
<1>2. CASE LoadFails(p, len, good, size) /\ result = "OTA_FW_ERROR"
  BY <1>2 DEF LoadFails, amOtaSetupBrickSize, transfer, remote, PeripheralKnown
<1> QED
  BY <1>1, <1>2 DEF amOtaStart

\* An answer the library awaits: the next packet goes out, or the transfer ends.
LEMMA UpdateEffect ==
  ASSUME LibTypeOK, PeripheralKnown, NEW q \in Seq(Message),
         NEW a \in Notification, UpdateValue(q, a), ePause' \in ePauseReq
  PROVE  /\ LibTypeOK' /\ PeripheralKnown' /\ Sends(q)
         /\ UNCHANGED <<amPeri, amFwTotalDataSize>>
         /\ a.cmd = "FW_VERIFY" \/ a.status # "SUCCESS" =>
              mainQueue' = q /\ verified' = verified
<1> USE LibraryAssumption DEF LibTypeOK, UpdateValue
<1>1. a.counter \in Nat
  BY DEF Notification
<1>2. amPeri \in Peripheral
  BY DEF Awaits, PeripheralKnown
<1>3. CASE SendVerify(q) /\ a.cmd # "FW_VERIFY" /\ a.status = "SUCCESS"
  <2> DEFINE ok == intact /\ received = amFwTotalDataSize
             s == IF ok THEN "SUCCESS" ELSE "CRC_ERROR"
  <2>1. /\ mainQueue' = Answered(q, amPeri, "FW_VERIFY", s, 0)
        /\ verified' = ok /\ masterState' = "VERIFY"
        /\ UNCHANGED <<masterPkgs, received>>
    BY <1>3 DEF SendVerify
  <2>2. s \in eAmotaStatus /\ (s = "SUCCESS" => verified')
    BY <2>1 DEF eAmotaStatus
  <2>3. verified' \in BOOLEAN
    BY <2>1
  <2> HIDE DEF s
  <2>4. Sends(q)
    BY <1>2, <2>1, <2>2, AnswerSent
  <2>5. mainQueue' \in Seq(Message) /\ masterState' \in eAmotaState
    BY <2>1, <2>4, SendsType DEF eAmotaState
  <2>6. LibTypeOK'
    BY <1>1, <2>1, <2>3, <2>5
  <2> QED
    BY <1>2, <1>3, <2>1, <2>4, <2>6 DEF PeripheralKnown
<1>4. CASE /\ SendBrick(q, a.counter) /\ a.counter < amFwTotalDataSize
           /\ a.cmd # "FW_VERIFY" /\ a.status = "SUCCESS"
  <2> DEFINE rest == amFwTotalDataSize - a.counter
             size == IF rest < brickLength THEN rest ELSE brickLength
  <2>1. size \in Nat /\ a.counter + size \in 0..amFwTotalDataSize
    BY <1>1, <1>4
  <2>2. /\ masterPkgs' = a.counter + size
        /\ masterState' \in {"DATA_END", "DATA_CARRYING"}
        /\ verified' = verified
    BY <1>4 DEF SendBrick
  <2>3. received' \in Nat /\ Sends(q)
    <3>1. CASE /\ received' = received + size
               /\ mainQueue' = Answered(q, amPeri, "FW_DATA", "SUCCESS",
                                        received')
      BY <1>2, <2>1, <3>1, AnswerSent DEF eAmotaStatus
    <3>2. ASSUME NEW s \in Refusals, received' = received,
                 mainQueue' = Answered(q, amPeri, "FW_DATA", s, received)
          PROVE  received' \in Nat /\ Sends(q)
      BY <1>2, <3>2, AnswerSent
    <3> QED
      BY <1>4, <3>1, <3>2 DEF SendBrick
  <2>4. mainQueue' \in Seq(Message) /\ masterState' \in eAmotaState
    BY <2>2, <2>3, SendsType DEF eAmotaState
  <2>5. LibTypeOK'
    BY <1>1, <2>1, <2>2, <2>3, <2>4
  <2> QED
    BY <1>2, <1>4, <2>3, <2>5 DEF PeripheralKnown
<1>5. CASE /\ mainQueue' = q
           /\ masterState' \in {masterState, "IDLE", "DATA_END"}
           /\ UNCHANGED <<masterPkgs, received, verified>>
  BY <1>1, <1>2, <1>5 DEF Sends, eAmotaState, PeripheralKnown
<1> QED
  BY <1>3, <1>4, <1>5 DEF SendNext, LeaveVerify, GiveUp

-----------------------------------------------------------------------------
(* The inductive invariant.                                                *)

\* The observer is registered from initialize to release, and twice only by a
\* second initialize; without it nothing is confirmed.
Registered ==
  /\ observers <= inits
  /\ ~isInitialized => observers = 0 /\ ~isOtaUpgrading
  /\ calm => observers <= 1

\* Nothing is under way before the first start gets as far as connecting.
NothingYet ==
  starts = 0 => connecting = {} /\ mainQueue = <<>> /\ delayedStarts = 0

\* The first upgrade's closure finds its file only while isOtaUpgrading is set.
FileWithFlag ==
  starts < 2 /\ delayedStarts > 0 /\ ~isOtaUpgrading => fileSize = 0

\* What may be under way, as long as no call comes in the middle of an upgrade
\* that was started in quiet: nothing, or one thing.
Idle ==
  /\ connecting = {} /\ mainQueue = <<>>
  /\ delayedStarts = 0 /\ delayedResets = 0

Connecting ==
  /\ connecting = {request.peri} /\ mainQueue = <<>>
  /\ delayedStarts = 0 /\ delayedResets = 0
  /\ begun = 0

\* One callback: of the discovery before the transfer begins, or an answer.  A
\* verify that is answered with success was one.
Called ==
  /\ connecting = {} /\ Len(mainQueue) = 1
  /\ delayedStarts = 0 /\ delayedResets = 0
  /\ mainQueue[1].peri = request.peri
  /\ mainQueue[1].ev # "value" => begun = 0
  /\ mainQueue[1].ev = "value" =>
       /\ begun = 1
       /\ mainQueue[1].cmd = "FW_VERIFY" /\ mainQueue[1].status = "SUCCESS" =>
            verified

Confirmed ==
  /\ connecting = {} /\ mainQueue = <<>>
  /\ delayedStarts = 1 /\ delayedResets = 0
  /\ begun = 0

Checked ==
  /\ connecting = {} /\ mainQueue = <<>>
  /\ delayedStarts = 0 /\ delayedResets = 1
  /\ begun = 1 /\ verified

OneAtATime ==
  calm =>
    \/ Idle
    \/ phase = "open" /\ (Connecting \/ Called \/ Confirmed \/ Checked)

\* The shared properties are those of the request, and from the confirmation on the
\* flag refuses every other start.
PropsOfRequest ==
  calm /\ phase = "open" =>
    /\ isInitialized
    /\ peripheral = request.peri /\ request.peri \in Peripheral
    /\ fileBytes = request.file /\ Bytes(request.file) > 0
    /\ delayedStarts > 0 \/ begun > 0 => isOtaUpgrading
    /\ begun # 0 => /\ begun = 1 /\ amPeri = request.peri
                    /\ amFwTotalDataSize = Bytes(request.file) - HeaderLength

IosInv ==
  /\ TypeOK /\ PeripheralKnown
  /\ Registered /\ NothingYet /\ FileWithFlag
  /\ OneAtATime /\ PropsOfRequest /\ NoCrash

-----------------------------------------------------------------------------
(* Types.                                                                  *)

LEMMA BytesType == ASSUME NEW f PROVE Bytes(f) \in Nat /\ Bytes(NoFile) = 0
  BY IosAssumption DEF Bytes

LEMMA IosTypeInit == Init => TypeOK /\ PeripheralKnown
<1> SUFFICES ASSUME Init PROVE TypeOK /\ PeripheralKnown
  OBVIOUS
<1>1. mainQueue \in Seq(Message)
  BY EmptySeq DEF Init, LibInit
<1>2. LibInit
  BY DEF Init
<1>3. masterPkgs \in 0..amFwTotalDataSize /\ received \in Nat /\ serverPkgs \in Nat
  BY <1>2 DEF LibInit
<1>4. masterState \in eAmotaState /\ ePause \in ePauseReq
  BY <1>2 DEF LibInit, eAmotaState, ePauseReq
<1>5. LibTypeOK
  BY <1>1, <1>2, <1>3, <1>4 DEF LibInit, LibTypeOK
<1>6. PeripheralKnown
  BY <1>2 DEF LibInit, PeripheralKnown
<1>7. 0 \in 0..MaxInits /\ 0 \in 0..MaxStarts
  BY IosAssumption
<1> QED
  BY <1>5, <1>6, <1>7 DEF Init, TypeOK

\* What disturbs at most the pause of the library.
LEMMA LibStays ==
  ASSUME LibTypeOK, PeripheralKnown, ePause' \in ePauseReq,
         UNCHANGED <<amPeri, wrChar, transfer, brickLength, mainQueue, remote>>
  PROVE  LibTypeOK' /\ PeripheralKnown'
  BY DEF LibTypeOK, PeripheralKnown, transfer, remote

\* An answer: the delegate is told of it, and the library goes on, or not.
LEMMA ValueEffect ==
  ASSUME TypeOK, PeripheralKnown, DidUpdateValue
  PROVE  /\ TypeOK' /\ PeripheralKnown'
         /\ mainQueue # <<>> /\ mainQueue[1].ev = "value"
         /\ UNCHANGED <<isInitialized, observers, props, connecting,
                        delayedStarts, calls, begun, amPeri,
                        amFwTotalDataSize>>
         /\ crashed' => fileSize = 0
         /\ \/ /\ Sends(Tail(mainQueue))
               /\ UNCHANGED <<phase, delayedResets>>
            \/ /\ mainQueue' = Tail(mainQueue)
               /\ UNCHANGED <<verified, delayedResets>>
               /\ phase' = phase \/ (phase = "open" /\ phase' = "failed")
            \/ /\ mainQueue' = Tail(mainQueue)
               /\ UNCHANGED <<verified, phase>>
               /\ delayedResets' = delayedResets + 1
               /\ mainQueue[1].cmd = "FW_VERIFY"
               /\ mainQueue[1].status = "SUCCESS"
<1> DEFINE a == Head(mainQueue)
           q == Tail(mainQueue)
<1>1. mainQueue # <<>> /\ a.ev = "value" /\ mainQueue \in Seq(Message)
  BY DEF DidUpdateValue, TypeOK, LibTypeOK
<1>2. q \in Seq(Message) /\ a \in Message /\ a = mainQueue[1]
  BY <1>1, QueueHead
<1>3. a \in Notification
  BY <1>1, <1>2 DEF Message, Discovery, Confirmation
<1>4. a.status \in eAmotaStatus
  BY <1>3 DEF Notification
<1>5. /\ UNCHANGED <<isInitialized, observers, props, connecting,
                     delayedStarts, calls, begun>>
      /\ ~crashed /\ fault' \in BOOLEAN
  BY DEF DidUpdateValue, VerifyLeft, TypeOK
<1> HIDE DEF a, q
<1>6. CASE ~Awaits(a.cmd) /\ mainQueue' = q
           /\ UNCHANGED <<ctrl, remote, status, phase, delayedResets, crashed>>
  <2>1. mainQueue' \in Seq(Message) /\ UNCHANGED <<amPeri, amFwTotalDataSize>>
    BY <1>2, <1>6 DEF ctrl
  <2>2. LibTypeOK' /\ PeripheralKnown'
    BY <1>6, <2>1 DEF ctrl, remote, TypeOK, LibTypeOK, PeripheralKnown
  <2>3. TypeOK'
    BY <1>5, <1>6, <2>2 DEF TypeOK, props, calls
  <2>4. Sends(q)
    BY <1>6 DEF Sends
  <2> QED
    BY <1>1, <1>2, <1>5, <1>6, <2>1, <2>2, <2>3, <2>4 DEF q, remote
<1>7. ASSUME UpdateValue(q, a),
             \/ UNCHANGED <<ePause, status, phase, delayedResets, crashed>>
             \/ /\ a.cmd = "FW_HEADER" /\ didAmOtaFwHeaderRsp(a.status)
             \/ /\ a.cmd = "FW_DATA" /\ didAmOtaFwDataRsp(a.status)
             \/ /\ a.cmd # "FW_HEADER" /\ a.cmd # "FW_DATA"
                /\ didAmOtaUserCmdRsp(UserCmd(a), a.status)
      PROVE  /\ TypeOK' /\ PeripheralKnown'
             /\ UNCHANGED <<amPeri, amFwTotalDataSize>>
             /\ crashed' => fileSize = 0
             /\ \/ /\ Sends(q) /\ UNCHANGED <<phase, delayedResets>>
                \/ /\ mainQueue' = q /\ UNCHANGED <<verified, delayedResets>>
                   /\ phase' = phase \/ (phase = "open" /\ phase' = "failed")
                \/ /\ mainQueue' = q /\ UNCHANGED <<verified, phase>>
                   /\ delayedResets' = delayedResets + 1
                   /\ a.cmd = "FW_VERIFY" /\ a.status = "SUCCESS"
  <2>1. /\ ePause' \in ePauseReq /\ crashed' \in BOOLEAN
        /\ crashed' => fileSize = 0
        /\ status' \in {status, a.status}
        /\ \/ UNCHANGED <<phase, delayedResets>>
           \/ /\ a.status # "SUCCESS" /\ UNCHANGED delayedResets
              /\ phase' = phase \/ (phase = "open" /\ phase' = "failed")
           \/ /\ delayedResets' = delayedResets + 1 /\ UNCHANGED phase
              /\ a.cmd = "FW_VERIFY" /\ a.status = "SUCCESS"
    <3>1. ePause \in ePauseReq /\ crashed \in BOOLEAN
      BY DEF TypeOK, LibTypeOK
    <3>2. ASSUME NEW t, sendOtaUpgradeStatus(a.status, t)
          PROVE  /\ ePause' \in ePauseReq /\ status' \in {status, a.status}
                 /\ \/ UNCHANGED <<phase, delayedResets>>
                    \/ /\ a.status # "SUCCESS" /\ UNCHANGED delayedResets
                       /\ phase' = phase \/ (phase = "open" /\ phase' = "failed")
                    \/ /\ delayedResets' = delayedResets + 1 /\ UNCHANGED phase
                       /\ t = 2 /\ a.status = "SUCCESS"
      BY <3>1, <3>2
      DEF sendOtaUpgradeStatus, amOtaPause, PostError, Post, ePauseReq
    <3>3. CASE UNCHANGED <<ePause, status, phase, delayedResets, crashed>>
      BY <1>5, <3>1, <3>3
    <3>4. CASE a.cmd = "FW_HEADER" /\ didAmOtaFwHeaderRsp(a.status)
      BY <1>5, <3>1, <3>2, <3>4 DEF didAmOtaFwHeaderRsp
    <3>5. CASE a.cmd = "FW_DATA" /\ didAmOtaFwDataRsp(a.status)
      BY <1>5, <3>1, <3>2, <3>5 DEF didAmOtaFwDataRsp
    <3>6. CASE /\ a.cmd # "FW_HEADER" /\ a.cmd # "FW_DATA"
               /\ didAmOtaUserCmdRsp(UserCmd(a), a.status)
      BY <1>5, <3>1, <3>2, <3>6 DEF didAmOtaUserCmdRsp, UserCmd
    <3> QED
      BY <1>7, <3>3, <3>4, <3>5, <3>6
  <2>2. /\ LibTypeOK' /\ PeripheralKnown' /\ Sends(q)
        /\ UNCHANGED <<amPeri, amFwTotalDataSize>>
        /\ a.cmd = "FW_VERIFY" \/ a.status # "SUCCESS" =>
             mainQueue' = q /\ verified' = verified
    BY <1>2, <1>3, <1>7, <2>1, UpdateEffect DEF TypeOK
  <2>3. TypeOK'
    BY <1>4, <1>5, <2>1, <2>2 DEF TypeOK, props, calls
  <2> QED
    BY <2>1, <2>2, <2>3
<1>8. \/ ~Awaits(a.cmd) /\ mainQueue' = q
         /\ UNCHANGED <<ctrl, remote, status, phase, delayedResets, crashed>>
      \/ /\ UpdateValue(q, a)
         /\ \/ UNCHANGED <<ePause, status, phase, delayedResets, crashed>>
            \/ /\ a.cmd = "FW_HEADER" /\ didAmOtaFwHeaderRsp(a.status)
            \/ /\ a.cmd = "FW_DATA" /\ didAmOtaFwDataRsp(a.status)
            \/ /\ a.cmd # "FW_HEADER" /\ a.cmd # "FW_DATA"
               /\ didAmOtaUserCmdRsp(UserCmd(a), a.status)
  BY DEF DidUpdateValue, Delegate, a, q
<1> QED
  BY <1>1, <1>2, <1>5, <1>6, <1>7, <1>8 DEF q

LEMMA IosTypeStep ==
  TypeOK /\ PeripheralKnown /\ observers <= inits /\ [Next]_vars
    => TypeOK' /\ PeripheralKnown'
<1> SUFFICES ASSUME TypeOK, PeripheralKnown, observers <= inits, [Next]_vars
             PROVE  TypeOK' /\ PeripheralKnown'
  OBVIOUS
<1> USE IosAssumption DEF ctrl, remote, props, closures, service, calls, seen, transfer
<1> USE DEF TypeOK, PeripheralKnown
<1>1. CASE Initialize
  <2>1. LibTypeOK' /\ PeripheralKnown'
    BY <1>1, LibStays DEF Initialize, LibTypeOK
  <2> QED
    BY <1>1, <2>1 DEF Initialize
<1>2. CASE NotInitialized
  <2>1. LibTypeOK' /\ PeripheralKnown'
    BY <1>2, LibStays DEF NotInitialized, LibTypeOK
  <2> QED
    BY <1>2, <2>1 DEF NotInitialized, Post
<1>3. CASE StartFindsNothing
  <2>1. LibTypeOK' /\ PeripheralKnown'
    BY <1>3, LibStays DEF StartFindsNothing, LibTypeOK
  <2> QED
    BY <1>3, <2>1 DEF StartFindsNothing, resetUpgradeProperties
<1>4. ASSUME NEW f \in File, StartReadsNothing(f) PROVE TypeOK' /\ PeripheralKnown'
  <2>1. LibTypeOK' /\ PeripheralKnown'
    BY <1>4, LibStays DEF StartReadsNothing, LibTypeOK
  <2> QED
    BY <1>4, <2>1 DEF StartReadsNothing, Post
<1>5. ASSUME NEW p \in Peripheral, NEW f \in File, StartOtaUpgrade(p, f) PROVE TypeOK' /\ PeripheralKnown'
  <2>1. LibTypeOK' /\ PeripheralKnown'
    BY <1>5, LibStays DEF StartOtaUpgrade, LibTypeOK
  <2>2. request' \in [peri : Peripheral \union {NoPeripheral},
                     file : File \union {NoFile}]
    BY <1>5 DEF StartOtaUpgrade
  <2>3. starts' \in 0..MaxStarts /\ connecting' \subseteq Peripheral
    BY <1>5 DEF StartOtaUpgrade
  <2> QED
    BY <1>5, <2>1, <2>2, <2>3 DEF StartOtaUpgrade, Post
<1>6. CASE StopIgnored
  <2>1. LibTypeOK' /\ PeripheralKnown'
    BY <1>6, LibStays DEF StopIgnored, LibTypeOK
  <2> QED
    BY <1>6, <2>1 DEF StopIgnored
<1>7. CASE StopOtaUpgrade
  <2>1. LibTypeOK' /\ PeripheralKnown'
    BY <1>7, LibStays DEF StopOtaUpgrade, StopUpgrade, amOtaPause, ePauseReq,
       LibTypeOK
  <2> QED
    BY <1>7, <2>1 DEF StopOtaUpgrade, StopUpgrade, Post, resetUpgradeProperties
<1>8. CASE Release
  <2>1. LibTypeOK' /\ PeripheralKnown'
    BY <1>8, LibStays DEF Release, StopUpgrade, amOtaPause, ePauseReq, LibTypeOK
  <2>2. observers' \in 0..MaxInits
    BY <1>8 DEF Release
  <2>3. /\ peripheral' \in {peripheral, NoPeripheral}
        /\ fileBytes' \in {fileBytes, NoFile}
        /\ isOtaUpgrading' \in {isOtaUpgrading, FALSE}
        /\ status' \in {status, "upgradeStop"}
        /\ phase' \in {phase, "ended"} /\ calm' \in BOOLEAN
    BY <1>8 DEF Release, StopUpgrade, Post, resetUpgradeProperties
  <2>4. /\ isInitialized' \in BOOLEAN /\ connecting' \subseteq Peripheral
        /\ stopped' \in BOOLEAN
        /\ UNCHANGED <<closures, crashed, inits, starts, request, begun, fault>>
    BY <1>8 DEF Release
  <2>5. delayedStarts' \in Nat /\ delayedResets' \in Nat
    BY <2>4 DEF closures
  <2>6. /\ peripheral' \in Peripheral \union {NoPeripheral}
        /\ fileBytes' \in File \union {NoFile}
        /\ isOtaUpgrading' \in BOOLEAN /\ calm' \in BOOLEAN
        /\ phase' \in {"none", "open", "failed", "ended"}
    BY <2>3
  <2>7. status' \in eAmotaStatus \union
          {"none", "fileReadError", "upgrading", "upgradeStop",
           "otaNotInitialized"}
    BY <2>3
  <2> QED
    BY <2>1, <2>2, <2>4, <2>5, <2>6, <2>7
<1>9. ASSUME NEW p \in Peripheral, DidConnect(p) PROVE TypeOK' /\ PeripheralKnown'
  <2>1. Callback("services", p) \in Message
    BY DEF Callback, Message, Discovery
  <2>2. mainQueue' \in Seq(Message)
    BY <1>9, <2>1, QueueAppend DEF DidConnect, amOtaEnable, LibTypeOK
  <2> QED
    BY <1>9, <2>2 DEF DidConnect, amOtaEnable, Post, LibTypeOK
<1>10. CASE DidDiscoverServices
  <2> DEFINE m == Callback("chars", Head(mainQueue).peri)
  <2>1. /\ mainQueue # <<>> /\ mainQueue \in Seq(Message)
        /\ mainQueue' \in {Append(Tail(mainQueue), m), Tail(mainQueue)}
        /\ fault' \in BOOLEAN
        /\ UNCHANGED <<ctrl, remote, service, calls, status, phase, begun>>
    BY <1>10 DEF DidDiscoverServices, LibTypeOK
  <2>2. Tail(mainQueue) \in Seq(Message) /\ Head(mainQueue) \in Message
    BY <2>1, QueueHead
  <2>3. m \in Message
    BY <2>2 DEF Callback, Message, Discovery, Confirmation, Notification
  <2> HIDE DEF m
  <2>4. mainQueue' \in Seq(Message)
    BY <2>1, <2>2, <2>3, QueueAppend
  <2>5. LibTypeOK' /\ PeripheralKnown'
    BY <2>1, <2>4 DEF LibTypeOK
  <2> QED
    BY <2>1, <2>5
<1>11. CASE DidDiscoverCharacteristics
  <2> DEFINE p == Head(mainQueue).peri
  <2>1. /\ mainQueue # <<>> /\ mainQueue \in Seq(Message)
        /\ CharsDiscovered(Tail(mainQueue), p)
    BY <1>11 DEF DidDiscoverCharacteristics, LibTypeOK
  <2>2. Tail(mainQueue) \in Seq(Message) /\ p \in Peripheral
    BY <2>1, QueueHead DEF Message, Discovery, Confirmation, Notification
  <2>3. \A r \in eAmotaEnableResult : ConfirmNoti(p, r) \in Message
    BY <2>2 DEF ConfirmNoti, Callback, Message, Confirmation
  <2> HIDE DEF p
  <2>4. mainQueue' \in Seq(Message)
    BY <2>1, <2>2, <2>3, QueueAppend DEF CharsDiscovered
  <2>5. wrChar' \in Peripheral \union {NoPeripheral}
    BY <2>1, <2>2 DEF CharsDiscovered, WriteChar, LibTypeOK
  <2> QED
    BY <1>11, <2>4, <2>5 DEF DidDiscoverCharacteristics, LibTypeOK
<1>12. CASE AmotaEnableConfirmRsp
  <2>1. mainQueue' \in Seq(Message)
    BY <1>12, QueueHead DEF AmotaEnableConfirmRsp, LibTypeOK
  <2>2. LibTypeOK' /\ PeripheralKnown'
    BY <1>12, <2>1 DEF AmotaEnableConfirmRsp, LibTypeOK
  <2>3. status' = status \/ status' = "UNKNOWN_ERROR"
    BY <1>12 DEF AmotaEnableConfirmRsp, PostError, Post
  <2>4. phase' = phase \/ phase' = "failed"
    BY <1>12 DEF AmotaEnableConfirmRsp, PostError
  <2>5. isOtaUpgrading' \in BOOLEAN
    BY <1>12 DEF AmotaEnableConfirmRsp
  <2>6. delayedStarts' \in Nat /\ "UNKNOWN_ERROR" \in eAmotaStatus
    BY <1>12 DEF AmotaEnableConfirmRsp, eAmotaStatus
  <2>7. UNCHANGED <<isInitialized, observers, peripheral, fileBytes, connecting,
                    delayedResets, crashed, calls, begun, fault>>
    BY <1>12 DEF AmotaEnableConfirmRsp
  <2> QED
    BY <2>2, <2>3, <2>4, <2>5, <2>6, <2>7
<1>13. CASE DidUpdateValue
  BY <1>13, ValueEffect
<1>14. CASE DelayedStart
  <2>1. PICK good \in BOOLEAN, result \in eLoadFileResult :
          /\ amOtaStart(peripheral, fileSize, good, Brick, result)
          /\ begun' = IF result = "OTA_FW_NO_ERROR" THEN begun + 1 ELSE begun
    BY <1>14 DEF DelayedStart
  <2>2. fileSize \in Nat /\ fault' \in BOOLEAN
    BY <1>14, BytesType DEF DelayedStart, fileSize
  <2>3. LibTypeOK' /\ PeripheralKnown'
    BY <2>1, <2>2, LoadEffect
  <2>4. delayedStarts' \in Nat
    BY <1>14 DEF DelayedStart
  <2> QED
    BY <1>14, <2>2, <2>3, <2>4 DEF DelayedStart
<1>15. CASE DelayedReset
  <2>1. LibTypeOK' /\ PeripheralKnown'
    BY <1>15, LibStays DEF DelayedReset, LibTypeOK
  <2>2. delayedResets' \in Nat /\ phase' \in {phase, "ended"}
    BY <1>15 DEF DelayedReset
  <2>3. status' = "SUCCESS" /\ "SUCCESS" \in eAmotaStatus
    BY <1>15 DEF DelayedReset, Post, eAmotaStatus
  <2> QED
    BY <1>15, <2>1, <2>2, <2>3 DEF DelayedReset, resetUpgradeProperties
<1>16. ASSUME NEW p \in Peripheral, LoseLink(p) PROVE TypeOK' /\ PeripheralKnown'
  <2>1. mainQueue' \in Seq(Message)
    BY <1>16, LostQueue DEF LoseLink, LibTypeOK
  <2> QED
    BY <1>16, <2>1 DEF LoseLink, LibTypeOK
<1>17. CASE UNCHANGED vars
  <2>1. LibTypeOK' /\ PeripheralKnown'
    BY <1>17, LibStays DEF vars, LibTypeOK
  <2> QED
    BY <1>17, <2>1 DEF vars
<1> QED
  BY <1>1, <1>2, <1>3, <1>4, <1>5, <1>6, <1>7, <1>8, <1>9, <1>10, <1>11,
     <1>12, <1>13, <1>14, <1>15, <1>16, <1>17 DEF Next, Call, QueueRuns

-----------------------------------------------------------------------------
(* The observer, and what release leaves.                                  *)

LEMMA RegisteredStep ==
  TypeOK /\ PeripheralKnown /\ Registered /\ [Next]_vars => Registered'
<1> SUFFICES ASSUME TypeOK, PeripheralKnown, Registered, [Next]_vars
             PROVE  Registered'
  OBVIOUS
<1>a. /\ observers \in Nat /\ inits \in Nat
      /\ calm \in BOOLEAN /\ isInitialized \in BOOLEAN
  BY DEF TypeOK
<1> USE <1>a DEF Registered, ctrl, remote, props, closures, service, calls, seen, transfer
<1>1. CASE Initialize
  <2>1. observers' <= inits' /\ isInitialized'
    BY <1>1 DEF Initialize
  <2>2. calm' => ~isInitialized
    BY <1>1 DEF Initialize
  <2>3. ~isInitialized => observers' = 1
    BY <1>1 DEF Initialize
  <2> QED
    BY <2>1, <2>2, <2>3
<1>2. CASE NotInitialized
  BY <1>2 DEF NotInitialized
<1>3. CASE StartFindsNothing
  BY <1>3 DEF StartFindsNothing, resetUpgradeProperties
<1>4. ASSUME NEW f \in File, StartReadsNothing(f) PROVE Registered'
  BY <1>4 DEF StartReadsNothing
<1>5. ASSUME NEW p \in Peripheral, NEW f \in File, StartOtaUpgrade(p, f) PROVE Registered'
  BY <1>5 DEF StartOtaUpgrade
<1>6. CASE StopIgnored
  BY <1>6 DEF StopIgnored
<1>7. CASE StopOtaUpgrade
  BY <1>7 DEF StopOtaUpgrade, StopUpgrade, resetUpgradeProperties
<1>8. CASE Release
  BY <1>8 DEF Release, StopUpgrade, resetUpgradeProperties
<1>9. ASSUME NEW p \in Peripheral, DidConnect(p) PROVE Registered'
  BY <1>9 DEF DidConnect
<1>10. CASE DidDiscoverServices
  BY <1>10 DEF DidDiscoverServices
<1>11. CASE DidDiscoverCharacteristics
  BY <1>11 DEF DidDiscoverCharacteristics
<1>12. CASE AmotaEnableConfirmRsp
  BY <1>12 DEF AmotaEnableConfirmRsp
<1>13. CASE DidUpdateValue
  BY <1>13, ValueEffect
<1>14. CASE DelayedStart
  BY <1>14 DEF DelayedStart
<1>15. CASE DelayedReset
  BY <1>15 DEF DelayedReset, resetUpgradeProperties
<1>16. ASSUME NEW p \in Peripheral, LoseLink(p) PROVE Registered'
  BY <1>16 DEF LoseLink
<1>17. CASE UNCHANGED vars
  BY <1>17 DEF vars
<1> QED
  BY <1>1, <1>2, <1>3, <1>4, <1>5, <1>6, <1>7, <1>8, <1>9, <1>10, <1>11,
     <1>12, <1>13, <1>14, <1>15, <1>16, <1>17 DEF Next, Call, QueueRuns

LEMMA NothingYetStep ==
  TypeOK /\ PeripheralKnown /\ NothingYet /\ [Next]_vars => NothingYet'
<1> SUFFICES ASSUME TypeOK, PeripheralKnown, NothingYet, [Next]_vars
             PROVE  NothingYet'
  OBVIOUS
<1>a. /\ starts \in Nat /\ delayedStarts \in Nat /\ observers \in Nat
      /\ mainQueue \in Seq(Message) /\ (mainQueue = <<>> => Len(mainQueue) = 0)
  BY EmptySeq DEF TypeOK, LibTypeOK
<1> USE <1>a DEF NothingYet, ctrl, remote, props, closures, service, calls, seen, transfer
<1>1. CASE Initialize
  BY <1>1 DEF Initialize
<1>2. CASE NotInitialized
  BY <1>2 DEF NotInitialized
<1>3. CASE StartFindsNothing
  BY <1>3 DEF StartFindsNothing, resetUpgradeProperties
<1>4. ASSUME NEW f \in File, StartReadsNothing(f) PROVE NothingYet'
  BY <1>4 DEF StartReadsNothing
<1>5. ASSUME NEW p \in Peripheral, NEW f \in File, StartOtaUpgrade(p, f) PROVE NothingYet'
  BY <1>5 DEF StartOtaUpgrade
<1>6. CASE StopIgnored
  BY <1>6 DEF StopIgnored
<1>7. CASE StopOtaUpgrade
  BY <1>7 DEF StopOtaUpgrade, StopUpgrade, resetUpgradeProperties
<1>8. CASE Release
  BY <1>8 DEF Release, StopUpgrade, resetUpgradeProperties
<1>9. ASSUME NEW p \in Peripheral, DidConnect(p) PROVE NothingYet'
  BY <1>9 DEF DidConnect
<1>10. CASE DidDiscoverServices
  BY <1>10 DEF DidDiscoverServices
<1>11. CASE DidDiscoverCharacteristics
  BY <1>11 DEF DidDiscoverCharacteristics
<1>12. CASE AmotaEnableConfirmRsp
  BY <1>12 DEF AmotaEnableConfirmRsp
<1>13. CASE DidUpdateValue
  BY <1>13, ValueEffect
<1>14. CASE DelayedStart
  BY <1>14 DEF DelayedStart
<1>15. CASE DelayedReset
  BY <1>15 DEF DelayedReset, resetUpgradeProperties
<1>16. ASSUME NEW p \in Peripheral, LoseLink(p) PROVE NothingYet'
  BY <1>16 DEF LoseLink
<1>17. CASE UNCHANGED vars
  BY <1>17 DEF vars
<1> QED
  BY <1>1, <1>2, <1>3, <1>4, <1>5, <1>6, <1>7, <1>8, <1>9, <1>10, <1>11,
     <1>12, <1>13, <1>14, <1>15, <1>16, <1>17 DEF Next, Call, QueueRuns

\* Whoever resets isOtaUpgrading resets the file with it, or finds it reset.
LEMMA FileWithFlagStep ==
  TypeOK /\ PeripheralKnown /\ NothingYet /\ FileWithFlag /\ [Next]_vars
    => FileWithFlag'
<1> SUFFICES ASSUME TypeOK, PeripheralKnown, NothingYet, FileWithFlag,
                    [Next]_vars
             PROVE  FileWithFlag'
  OBVIOUS
<1>a. /\ starts \in Nat /\ delayedStarts \in Nat /\ observers \in Nat
      /\ isOtaUpgrading \in BOOLEAN /\ Bytes(NoFile) = 0
  BY BytesType DEF TypeOK
<1> USE <1>a DEF FileWithFlag, fileSize, ctrl, remote, props, closures, service, calls, seen, transfer
<1>1. CASE Initialize
  BY <1>1 DEF Initialize
<1>2. CASE NotInitialized
  BY <1>2 DEF NotInitialized
<1>3. CASE StartFindsNothing
  BY <1>3 DEF StartFindsNothing, resetUpgradeProperties
<1>4. ASSUME NEW f \in File, StartReadsNothing(f) PROVE FileWithFlag'
  <2>1. Bytes(fileBytes') = 0
    BY <1>4 DEF StartReadsNothing
  <2> QED
    BY <1>4, <2>1 DEF StartReadsNothing
<1>5. ASSUME NEW p \in Peripheral, NEW f \in File, StartOtaUpgrade(p, f) PROVE FileWithFlag'
  BY <1>5 DEF StartOtaUpgrade, NothingYet
<1>6. CASE StopIgnored
  BY <1>6 DEF StopIgnored
<1>7. CASE StopOtaUpgrade
  BY <1>7 DEF StopOtaUpgrade, StopUpgrade, resetUpgradeProperties
<1>8. CASE Release
  BY <1>8 DEF Release, StopUpgrade, resetUpgradeProperties
<1>9. ASSUME NEW p \in Peripheral, DidConnect(p) PROVE FileWithFlag'
  BY <1>9 DEF DidConnect
<1>10. CASE DidDiscoverServices
  BY <1>10 DEF DidDiscoverServices
<1>11. CASE DidDiscoverCharacteristics
  BY <1>11 DEF DidDiscoverCharacteristics
<1>12. CASE AmotaEnableConfirmRsp
  BY <1>12 DEF AmotaEnableConfirmRsp
<1>13. CASE DidUpdateValue
  BY <1>13, ValueEffect
<1>14. CASE DelayedStart
  BY <1>14 DEF DelayedStart
<1>15. CASE DelayedReset
  BY <1>15 DEF DelayedReset, resetUpgradeProperties
<1>16. ASSUME NEW p \in Peripheral, LoseLink(p) PROVE FileWithFlag'
  BY <1>16 DEF LoseLink
<1>17. CASE UNCHANGED vars
  BY <1>17 DEF vars
<1> QED
  BY <1>1, <1>2, <1>3, <1>4, <1>5, <1>6, <1>7, <1>8, <1>9, <1>10, <1>11,
     <1>12, <1>13, <1>14, <1>15, <1>16, <1>17 DEF Next, Call, QueueRuns

-----------------------------------------------------------------------------
(* One thing at a time, for the request.                                   *)

\* A callback comes for the one upgrade that is open, and was all there was.
LEMMA CalledBack ==
  ASSUME IosInv, mainQueue # <<>>, calm
  PROVE  /\ phase = "open" /\ Called /\ Tail(mainQueue) = <<>>
         /\ Head(mainQueue) = mainQueue[1]
<1>1. mainQueue \in Seq(Message)
  BY DEF IosInv, TypeOK, LibTypeOK
<1>2. phase = "open" /\ Called
  BY DEF IosInv, OneAtATime, Idle, Connecting, Confirmed, Checked
<1> QED
  BY <1>1, <1>2, QueueHead DEF Called

\* What is under way goes on to its next stage, or ends.
LEMMA OneAtATimeStep ==
  ASSUME IosInv, [Next]_vars
  PROVE  OneAtATime'
<1>a. /\ TypeOK /\ PeripheralKnown /\ OneAtATime
      /\ mainQueue \in Seq(Message) /\ calm \in BOOLEAN
      /\ <<>> \in Seq(Message)
  BY EmptySeq DEF IosInv, TypeOK, LibTypeOK
<1>b. SUFFICES ASSUME calm' PROVE OneAtATime'
  BY DEF OneAtATime
<1> USE <1>a, <1>b DEF OneAtATime, Idle, Connecting, Called, Confirmed, Checked,
                       ctrl, remote, props, closures, service, calls, seen
<1>1. CASE Initialize
  BY <1>1 DEF Initialize
<1>2. CASE NotInitialized
  BY <1>2 DEF NotInitialized
<1>3. CASE StartFindsNothing
  BY <1>3 DEF StartFindsNothing, resetUpgradeProperties
<1>4. ASSUME NEW f \in File, StartReadsNothing(f) PROVE OneAtATime'
  BY <1>4 DEF StartReadsNothing
<1>5. ASSUME NEW p \in Peripheral, NEW f \in File, StartOtaUpgrade(p, f) PROVE OneAtATime'
  <2>1. Quiet
    BY <1>5 DEF StartOtaUpgrade, Busy, IosInv, PropsOfRequest
  <2> QED
    BY <1>5, <2>1 DEF StartOtaUpgrade, Quiet
<1>6. CASE StopIgnored
  BY <1>6 DEF StopIgnored
<1>7. CASE StopOtaUpgrade
  BY <1>7 DEF StopOtaUpgrade, StopUpgrade, resetUpgradeProperties
<1>8. CASE Release
  BY <1>8 DEF Release, StopUpgrade, resetUpgradeProperties
<1>9. ASSUME NEW p \in Peripheral, DidConnect(p) PROVE OneAtATime'
  <2>1. calm /\ phase = "open" /\ Connecting /\ p = request.peri
    BY <1>9 DEF DidConnect
  <2>2. /\ mainQueue' = Append(<<>>, Callback("services", p))
        /\ Callback("services", p) \in Message
        /\ Callback("services", p).peri = p
        /\ Callback("services", p).ev # "value"
    BY <1>9, <2>1 DEF DidConnect, amOtaEnable, Callback, Message, Discovery
  <2>3. Len(mainQueue') = 1 /\ mainQueue'[1] = Callback("services", p)
    BY <2>2, QueueAppend
  <2> QED
    BY <1>9, <2>1, <2>2, <2>3 DEF DidConnect
<1>10. CASE DidDiscoverServices
  <2> DEFINE m == Callback("chars", Head(mainQueue).peri)
  <2>1. /\ calm /\ mainQueue # <<>> /\ Head(mainQueue).ev = "services"
        /\ mainQueue' \in {Append(Tail(mainQueue), m), Tail(mainQueue)}
        /\ UNCHANGED <<remote, service, calls, phase, begun>>
    BY <1>10 DEF DidDiscoverServices
  <2>2. /\ phase = "open" /\ Called /\ Tail(mainQueue) = <<>>
        /\ Head(mainQueue) = mainQueue[1] /\ Head(mainQueue) \in Message
    BY <2>1, CalledBack, QueueHead
  <2>3. m \in Message /\ m.peri = mainQueue[1].peri /\ m.ev # "value"
    BY <2>2 DEF Callback, Message, Discovery, Confirmation, Notification
  <2> HIDE DEF m
  <2>4. \/ mainQueue' = <<>>
        \/ Len(mainQueue') = 1 /\ mainQueue'[1] = m
    BY <2>1, <2>2, <2>3, QueueAppend
  <2> QED
    BY <2>1, <2>2, <2>3, <2>4
<1>11. CASE DidDiscoverCharacteristics
  <2> DEFINE p == Head(mainQueue).peri
  <2>1. /\ calm /\ mainQueue # <<>> /\ Head(mainQueue).ev = "chars"
        /\ CharsDiscovered(Tail(mainQueue), p)
    BY <1>11 DEF DidDiscoverCharacteristics
  <2>2. /\ phase = "open" /\ Called /\ Tail(mainQueue) = <<>>
        /\ Head(mainQueue) = mainQueue[1] /\ Head(mainQueue) \in Message
    BY <2>1, CalledBack, QueueHead
  <2>3. \A r \in eAmotaEnableResult :
          /\ ConfirmNoti(p, r) \in Message
          /\ ConfirmNoti(p, r).peri = p /\ ConfirmNoti(p, r).ev # "value"
    BY <2>2 DEF ConfirmNoti, Callback, Message, Discovery, Confirmation,
                Notification
  <2>4. p = mainQueue[1].peri
    BY <2>2
  <2> HIDE DEF p
  <2>5. \/ mainQueue' = <<>>
        \/ /\ Len(mainQueue') = 1 /\ mainQueue'[1].peri = p
           /\ mainQueue'[1].ev # "value"
    BY <2>1, <2>2, <2>3, QueueAppend DEF CharsDiscovered
  <2> QED
    BY <1>11, <2>1, <2>2, <2>4, <2>5 DEF DidDiscoverCharacteristics
<1>12. CASE AmotaEnableConfirmRsp
  <2>1. calm /\ mainQueue # <<>> /\ Head(mainQueue).ev = "confirm"
    BY <1>12 DEF AmotaEnableConfirmRsp
  <2>2. /\ phase = "open" /\ Called /\ mainQueue' = <<>>
        /\ mainQueue[1].ev # "value"
    BY <1>12, <2>1, CalledBack DEF AmotaEnableConfirmRsp
  <2>3. observers \in Nat /\ observers <= 1
    BY <2>1 DEF IosInv, Registered, TypeOK
  <2>4. delayedStarts' = 0 \/ (delayedStarts' = 1 /\ phase' = phase)
    BY <1>12, <2>2, <2>3 DEF AmotaEnableConfirmRsp
  <2> QED
    BY <1>12, <2>2, <2>4 DEF AmotaEnableConfirmRsp
<1>13. CASE DidUpdateValue
  <2>1. /\ mainQueue # <<>> /\ mainQueue[1].ev = "value"
        /\ UNCHANGED <<connecting, delayedStarts, calls, begun, amPeri>>
        /\ \/ /\ Sends(Tail(mainQueue))
              /\ UNCHANGED <<phase, delayedResets>>
           \/ /\ mainQueue' = Tail(mainQueue)
              /\ UNCHANGED delayedResets
           \/ /\ mainQueue' = Tail(mainQueue)
              /\ UNCHANGED <<verified, phase>>
              /\ delayedResets' = delayedResets + 1
              /\ mainQueue[1].cmd = "FW_VERIFY"
              /\ mainQueue[1].status = "SUCCESS"
    BY <1>13, ValueEffect
  <2>2. phase = "open" /\ Called /\ Tail(mainQueue) = <<>> /\ calm
    BY <2>1, CalledBack
  <2>3. begun = 1 /\ amPeri = request.peri
    BY <2>1, <2>2 DEF IosInv, PropsOfRequest
  <2>4. CASE Sends(<<>>) /\ UNCHANGED <<phase, delayedResets>>
    <3>1. CASE mainQueue' = <<>>
      BY <2>1, <2>2, <2>4, <3>1
    <3>2. ASSUME NEW m \in Notification, m.peri = amPeri',
                 m.cmd = "FW_VERIFY" /\ m.status = "SUCCESS" => verified',
                 mainQueue' = Append(<<>>, m)
          PROVE  OneAtATime'
      <4>1. m \in Message /\ m.ev = "value"
        BY DEF Message, Notification
      <4>2. Len(mainQueue') = 1 /\ mainQueue'[1] = m
        BY <3>2, <4>1, QueueAppend
      <4> QED
        BY <2>1, <2>2, <2>3, <2>4, <3>2, <4>1, <4>2
    <3> QED
      BY <2>4, <3>1, <3>2 DEF Sends
  <2>5. CASE mainQueue' = <<>> /\ UNCHANGED delayedResets
    BY <2>1, <2>2, <2>5
  <2>6. CASE /\ mainQueue' = <<>> /\ UNCHANGED <<verified, phase>>
             /\ delayedResets' = delayedResets + 1
             /\ mainQueue[1].cmd = "FW_VERIFY"
             /\ mainQueue[1].status = "SUCCESS"
    BY <2>1, <2>2, <2>3, <2>6
  <2> QED
    BY <2>1, <2>2, <2>4, <2>5, <2>6
<1>14. CASE DelayedStart
  <2>1. PICK good \in BOOLEAN, result \in eLoadFileResult :
          /\ amOtaStart(peripheral, fileSize, good, Brick, result)
          /\ begun' = IF result = "OTA_FW_NO_ERROR" THEN begun + 1 ELSE begun
    BY <1>14 DEF DelayedStart
  <2>2. /\ calm /\ UNCHANGED <<connecting, delayedResets, request, phase>>
        /\ delayedStarts > 0 /\ delayedStarts' = delayedStarts - 1
    BY <1>14 DEF DelayedStart
  <2>3. phase = "open" /\ Confirmed /\ delayedStarts' = 0
    BY <2>2
  <2>4. peripheral = request.peri
    BY <2>2, <2>3 DEF IosInv, PropsOfRequest
  <2>5. /\ result = "OTA_FW_NO_ERROR" => Sends(<<>>) /\ amPeri' = peripheral
        /\ result # "OTA_FW_NO_ERROR" => mainQueue' = <<>>
    <3>1. /\ fileSize \in Nat /\ Brick \in Nat /\ LibTypeOK
          /\ peripheral \in Peripheral \union {NoPeripheral}
      BY BytesType, IosAssumption DEF fileSize, TypeOK
    <3>2. /\ result = "OTA_FW_NO_ERROR" =>
               Sends(mainQueue) /\ amPeri' = peripheral
          /\ result # "OTA_FW_NO_ERROR" => mainQueue' = mainQueue
      BY <2>1, <3>1, LoadEffect
    <3> QED
      BY <2>3, <3>2
  <2>6. CASE mainQueue' = <<>>
    BY <2>2, <2>3, <2>6
  <2>7. ASSUME result = "OTA_FW_NO_ERROR", NEW m \in Notification,
               m.peri = amPeri',
               m.cmd = "FW_VERIFY" /\ m.status = "SUCCESS" => verified',
               mainQueue' = Append(<<>>, m)
        PROVE  OneAtATime'
    <3>1. m \in Message /\ m.ev = "value"
      BY DEF Message, Notification
    <3>2. Len(mainQueue') = 1 /\ mainQueue'[1] = m
      BY <2>7, <3>1, QueueAppend
    <3>3. begun' = 1
      BY <2>1, <2>3, <2>7
    <3> QED
      BY <2>2, <2>3, <2>5, <2>7, <2>4, <3>1, <3>2, <3>3
  <2> QED
    BY <2>5, <2>6, <2>7 DEF Sends
<1>15. CASE DelayedReset
  BY <1>15 DEF DelayedReset, resetUpgradeProperties
<1>16. ASSUME NEW p \in Peripheral, LoseLink(p) PROVE OneAtATime'
  <2>1. /\ calm /\ connecting' = connecting \ {p}
        /\ \/ mainQueue' = <<>>
           \/ Len(mainQueue') = 1 /\ mainQueue'[1] = mainQueue[1]
    BY <1>16, LostQueue DEF LoseLink
  <2>2. UNCHANGED <<delayedStarts, delayedResets, calls, begun, phase, verified>>
    BY <1>16 DEF LoseLink
  <2>3. mainQueue = <<>> => mainQueue' = <<>>
    BY <1>16, LostQueue DEF LoseLink
  <2> QED
    BY <2>1, <2>2, <2>3
<1>17. CASE UNCHANGED vars
  BY <1>17 DEF vars
<1> QED
  BY <1>1, <1>2, <1>3, <1>4, <1>5, <1>6, <1>7, <1>8, <1>9, <1>10, <1>11,
     <1>12, <1>13, <1>14, <1>15, <1>16, <1>17 DEF Next, Call, QueueRuns

\* Nothing but a call replaces the shared properties under an open upgrade, and
\* the transfer takes them over before they are reset.
LEMMA PropsStep ==
  ASSUME IosInv, [Next]_vars
  PROVE  PropsOfRequest'
<1>a. /\ TypeOK /\ PeripheralKnown /\ PropsOfRequest /\ OneAtATime
      /\ mainQueue \in Seq(Message) /\ calm \in BOOLEAN
      /\ isInitialized \in BOOLEAN
  BY DEF IosInv, TypeOK, LibTypeOK
<1>b. SUFFICES ASSUME calm', phase' = "open" PROVE PropsOfRequest'
  BY DEF PropsOfRequest
<1> USE <1>a, <1>b DEF PropsOfRequest, transfer, ctrl, remote, props, closures, service, calls, seen
<1>1. CASE Initialize
  BY <1>1 DEF Initialize
<1>2. CASE NotInitialized
  BY <1>2 DEF NotInitialized
<1>3. CASE StartFindsNothing
  BY <1>3 DEF StartFindsNothing, resetUpgradeProperties
<1>4. ASSUME NEW f \in File, StartReadsNothing(f) PROVE PropsOfRequest'
  BY <1>4 DEF StartReadsNothing
<1>5. ASSUME NEW p \in Peripheral, NEW f \in File, StartOtaUpgrade(p, f) PROVE PropsOfRequest'
  <2>1. delayedStarts = 0
    BY <1>5 DEF StartOtaUpgrade, Quiet, Busy
  <2>2. delayedStarts' = 0 /\ begun' = 0 /\ ~(0 > 0)
    BY <1>5, <2>1 DEF StartOtaUpgrade
  <2>3. /\ isInitialized' /\ peripheral' = p /\ fileBytes' = f
        /\ Bytes(f) > 0 /\ request' = [peri |-> p, file |-> f]
    BY <1>5 DEF StartOtaUpgrade
  <2> QED
    BY <2>2, <2>3
<1>6. CASE StopIgnored
  BY <1>6 DEF StopIgnored
<1>7. CASE StopOtaUpgrade
  BY <1>7 DEF StopOtaUpgrade, StopUpgrade, resetUpgradeProperties
<1>8. CASE Release
  BY <1>8 DEF Release, StopUpgrade, resetUpgradeProperties
<1>9. ASSUME NEW p \in Peripheral, DidConnect(p) PROVE PropsOfRequest'
  <2>1. begun = 0 /\ calm /\ phase = "open"
    BY <1>9 DEF DidConnect, OneAtATime, Idle, Connecting, Called, Confirmed, Checked
  <2> QED
    BY <1>9, <2>1 DEF DidConnect
<1>10. CASE DidDiscoverServices
  BY <1>10 DEF DidDiscoverServices
<1>11. CASE DidDiscoverCharacteristics
  BY <1>11 DEF DidDiscoverCharacteristics
<1>12. CASE AmotaEnableConfirmRsp
  <2>1. /\ UNCHANGED <<isInitialized, peripheral, fileBytes, ctrl, calls, begun>>
        /\ isOtaUpgrading' \/ UNCHANGED <<isOtaUpgrading, delayedStarts>>
        /\ phase' = phase \/ (phase = "open" /\ phase' = "failed")
    BY <1>12 DEF AmotaEnableConfirmRsp, PostError
  <2> QED
    BY <2>1
<1>13. CASE DidUpdateValue
  BY <1>13, ValueEffect
<1>14. CASE DelayedStart
  <2>1. PICK good \in BOOLEAN, result \in eLoadFileResult :
          /\ amOtaStart(peripheral, fileSize, good, Brick, result)
          /\ begun' = IF result = "OTA_FW_NO_ERROR" THEN begun + 1 ELSE begun
    BY <1>14 DEF DelayedStart
  <2>2. /\ calm /\ phase = "open" /\ delayedStarts > 0
        /\ UNCHANGED <<isInitialized, props, calls>>
    BY <1>14 DEF DelayedStart
  <2>3. begun = 0
    BY <2>2 DEF OneAtATime, Idle, Connecting, Called, Confirmed, Checked
  <2>4. /\ fileSize \in Nat /\ Brick \in Nat /\ LibTypeOK
        /\ peripheral \in Peripheral \union {NoPeripheral}
    BY BytesType, IosAssumption DEF fileSize, TypeOK
  <2>5. result = "OTA_FW_NO_ERROR" =>
          amPeri' = peripheral /\ amFwTotalDataSize' = fileSize - HeaderLength
    BY <2>1, <2>4, LoadEffect
  <2> QED
    BY <2>1, <2>2, <2>3, <2>5 DEF fileSize
<1>15. CASE DelayedReset
  BY <1>15 DEF DelayedReset, resetUpgradeProperties
<1>16. ASSUME NEW p \in Peripheral, LoseLink(p) PROVE PropsOfRequest'
  BY <1>16 DEF LoseLink
<1>17. CASE UNCHANGED vars
  BY <1>17 DEF vars
<1> QED
  BY <1>1, <1>2, <1>3, <1>4, <1>5, <1>6, <1>7, <1>8, <1>9, <1>10, <1>11,
     <1>12, <1>13, <1>14, <1>15, <1>16, <1>17 DEF Next, Call, QueueRuns

\* An answer finds the file of the request loaded.
LEMMA NoCrashStep ==
  ASSUME IosInv, [Next]_vars
  PROVE  NoCrash'
<1>a. TypeOK /\ PeripheralKnown /\ NoCrash /\ calm \in BOOLEAN
  BY DEF IosInv, TypeOK
<1> USE <1>a DEF NoCrash, ctrl, remote, props, closures, service, calls, seen
<1>1. CASE Initialize
  BY <1>1 DEF Initialize
<1>2. CASE NotInitialized
  BY <1>2 DEF NotInitialized
<1>3. CASE StartFindsNothing
  BY <1>3 DEF StartFindsNothing, resetUpgradeProperties
<1>4. ASSUME NEW f \in File, StartReadsNothing(f) PROVE NoCrash'
  BY <1>4 DEF StartReadsNothing
<1>5. ASSUME NEW p \in Peripheral, NEW f \in File, StartOtaUpgrade(p, f) PROVE NoCrash'
  BY <1>5 DEF StartOtaUpgrade
<1>6. CASE StopIgnored
  BY <1>6 DEF StopIgnored
<1>7. CASE StopOtaUpgrade
  BY <1>7 DEF StopOtaUpgrade, StopUpgrade, resetUpgradeProperties
<1>8. CASE Release
  BY <1>8 DEF Release, StopUpgrade, resetUpgradeProperties
<1>9. ASSUME NEW p \in Peripheral, DidConnect(p) PROVE NoCrash'
  BY <1>9 DEF DidConnect
<1>10. CASE DidDiscoverServices
  BY <1>10 DEF DidDiscoverServices
<1>11. CASE DidDiscoverCharacteristics
  BY <1>11 DEF DidDiscoverCharacteristics
<1>12. CASE AmotaEnableConfirmRsp
  BY <1>12 DEF AmotaEnableConfirmRsp
<1>13. CASE DidUpdateValue
  <2> SUFFICES ASSUME calm PROVE ~crashed'
    BY <1>13, ValueEffect
  <2>1. mainQueue # <<>> /\ (crashed' => fileSize = 0)
    BY <1>13, ValueEffect
  <2>2. phase = "open"
    BY <2>1, CalledBack
  <2>3. fileSize > 0
    BY <2>2 DEF IosInv, PropsOfRequest, fileSize
  <2> QED
    BY <2>1, <2>3
<1>14. CASE DelayedStart
  BY <1>14 DEF DelayedStart
<1>15. CASE DelayedReset
  BY <1>15 DEF DelayedReset, resetUpgradeProperties
<1>16. ASSUME NEW p \in Peripheral, LoseLink(p) PROVE NoCrash'
  BY <1>16 DEF LoseLink
<1>17. CASE UNCHANGED vars
  BY <1>17 DEF vars
<1> QED
  BY <1>1, <1>2, <1>3, <1>4, <1>5, <1>6, <1>7, <1>8, <1>9, <1>10, <1>11,
     <1>12, <1>13, <1>14, <1>15, <1>16, <1>17 DEF Next, Call, QueueRuns

LEMMA IosInvInit == Init => IosInv
<1> SUFFICES ASSUME Init PROVE IosInv
  OBVIOUS
<1>1. TypeOK /\ PeripheralKnown
  BY IosTypeInit
<1>2. /\ Registered /\ NothingYet /\ FileWithFlag /\ OneAtATime /\ PropsOfRequest
      /\ NoCrash
  BY DEF Init, LibInit, Registered, NothingYet, FileWithFlag, OneAtATime, Idle,
         PropsOfRequest, NoCrash
<1> QED
  BY <1>1, <1>2 DEF IosInv

LEMMA IosInvStep == IosInv /\ [Next]_vars => IosInv'
<1> SUFFICES ASSUME IosInv, [Next]_vars PROVE IosInv'
  OBVIOUS
<1>1. TypeOK' /\ PeripheralKnown'
  BY IosTypeStep DEF IosInv, Registered
<1>2. Registered' /\ NothingYet' /\ FileWithFlag'
  BY RegisteredStep, NothingYetStep, FileWithFlagStep DEF IosInv
<1>3. OneAtATime' /\ PropsOfRequest' /\ NoCrash'
  BY OneAtATimeStep, PropsStep, NoCrashStep
<1> QED
  BY <1>1, <1>2, <1>3 DEF IosInv

-----------------------------------------------------------------------------
(* The theorems.                                                           *)

\* The inductive invariant holds in every state of every behaviour.
THEOREM IosInvariant == Spec => []IosInv
  BY IosInvInit, IosInvStep, PTL DEF Spec

\* Every variable keeps its type: the queue holds callbacks of peripherals only,
\* and never more of the image is sent than there is.
THEOREM IosTypeCorrect == Spec => []TypeOK
  BY IosInvariant, PTL DEF IosInv

\* The progress never divides by the size of a file that is gone, in an upgrade
\* that was started in quiet and not interrupted by a call.
THEOREM NeverCrashes == Spec => []NoCrash
  BY IosInvariant, PTL DEF IosInv

\* The transfer that the delayed closure begins for such an upgrade is the one that
\* was requested.
THEOREM TransferRequested == Spec => []TransferIsRequested
<1>1. IosInv => TransferIsRequested
  BY DEF IosInv, PropsOfRequest, OneAtATime, Idle, Connecting, Called, Confirmed,
         Checked, TransferIsRequested
<1> QED
  BY <1>1, IosInvariant, PTL

\* In an upgrade that was started with nothing of an earlier one under way, and
\* that no call interrupts, the reset that is due is its own, and no start gets in
\* before it.  It need not be after a stop within the 1.5 s: the start that then
\* gets in is not such a start.
THEOREM ResetsOwnUpgrade == Spec => []ResetIsForOwnUpgrade
<1>1. IosInv => ResetIsForOwnUpgrade
  BY DEF IosInv, TypeOK, OneAtATime, Idle, Connecting, Called, Confirmed,
         Checked, ResetIsForOwnUpgrade
<1> QED
  BY <1>1, IosInvariant, PTL

\* A step that finds the service released confirms no upgrade, and begins no
\* transfer unless a second start came before the release.
LEMMA ReleasedStep ==
  ASSUME IosInv, [Next]_vars, ~isInitialized
  PROVE  ~isOtaUpgrading' /\ (starts < 2 => begun' = begun)
<1>a. /\ TypeOK /\ PeripheralKnown /\ FileWithFlag
      /\ observers = 0 /\ ~isOtaUpgrading
  BY DEF IosInv, Registered
<1> USE <1>a DEF ctrl, remote, props, closures, service, calls, seen
<1>1. CASE Initialize
  BY <1>1 DEF Initialize
<1>2. CASE NotInitialized
  BY <1>2 DEF NotInitialized
<1>3. CASE StartFindsNothing
  BY <1>3 DEF StartFindsNothing, resetUpgradeProperties
<1>4. ASSUME NEW f \in File, StartReadsNothing(f) PROVE ~isOtaUpgrading' /\ (starts < 2 => begun' = begun)
  BY <1>4 DEF StartReadsNothing
<1>5. ASSUME NEW p \in Peripheral, NEW f \in File, StartOtaUpgrade(p, f) PROVE ~isOtaUpgrading' /\ (starts < 2 => begun' = begun)
  BY <1>5 DEF StartOtaUpgrade
<1>6. CASE StopIgnored
  BY <1>6 DEF StopIgnored
<1>7. CASE StopOtaUpgrade
  BY <1>7 DEF StopOtaUpgrade, StopUpgrade, resetUpgradeProperties
<1>8. CASE Release
  BY <1>8 DEF Release, StopUpgrade, resetUpgradeProperties
<1>9. ASSUME NEW p \in Peripheral, DidConnect(p) PROVE ~isOtaUpgrading' /\ (starts < 2 => begun' = begun)
  BY <1>9 DEF DidConnect
<1>10. CASE DidDiscoverServices
  BY <1>10 DEF DidDiscoverServices
<1>11. CASE DidDiscoverCharacteristics
  BY <1>11 DEF DidDiscoverCharacteristics
<1>12. CASE AmotaEnableConfirmRsp
  BY <1>12 DEF AmotaEnableConfirmRsp
<1>13. CASE DidUpdateValue
  BY <1>13, ValueEffect
<1>14. CASE DelayedStart
  <2>1. PICK good \in BOOLEAN, result \in eLoadFileResult :
          /\ amOtaStart(peripheral, fileSize, good, Brick, result)
          /\ begun' = IF result = "OTA_FW_NO_ERROR" THEN begun + 1 ELSE begun
    BY <1>14 DEF DelayedStart
  <2>2. delayedStarts > 0 /\ isOtaUpgrading' = isOtaUpgrading
    BY <1>14 DEF DelayedStart
  <2>3. /\ fileSize \in Nat /\ Brick \in Nat /\ LibTypeOK /\ HeaderLength \in Nat
        /\ peripheral \in Peripheral \union {NoPeripheral}
    BY BytesType, IosAssumption, LibraryAssumption DEF fileSize, TypeOK
  <2>4. result = "OTA_FW_NO_ERROR" => fileSize > HeaderLength
    BY <2>1, <2>3, LoadEffect
  <2>5. starts < 2 => fileSize = 0
    BY <2>2 DEF FileWithFlag
  <2> QED
    BY <2>1, <2>2, <2>3, <2>4, <2>5
<1>15. CASE DelayedReset
  BY <1>15 DEF DelayedReset, resetUpgradeProperties
<1>16. ASSUME NEW p \in Peripheral, LoseLink(p) PROVE ~isOtaUpgrading' /\ (starts < 2 => begun' = begun)
  BY <1>16 DEF LoseLink
<1>17. CASE UNCHANGED vars
  BY <1>17 DEF vars
<1> QED
  BY <1>1, <1>2, <1>3, <1>4, <1>5, <1>6, <1>7, <1>8, <1>9, <1>10, <1>11,
     <1>12, <1>13, <1>14, <1>15, <1>16, <1>17 DEF Next, Call, QueueRuns

\* release is final until initialize: what was still under way finds either no
\* observer, or no file, or no flag.
THEOREM ReleasedForGood == Spec => ReleaseIsFinal
<1>1. IosInv /\ [Next]_vars =>
        [~isInitialized => /\ ~isOtaUpgrading'
                           /\ starts < 2 => begun' = begun]_vars
  BY ReleasedStep
<1> QED
  BY <1>1, IosInvariant, PTL DEF Spec, ReleaseIsFinal

=============================================================================
