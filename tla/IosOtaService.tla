--------------------------- MODULE IosOtaService ----------------------------
(***************************************************************************)
(* AmOtaService.swift, the iOS side of the plugin, over the library of     *)
(* AmOtaApi.                                                               *)
(*                                                                         *)
(* Everything runs on the main queue, so every call, every callback and    *)
(* every delayed closure is one action.  There is no clock: a closure      *)
(* given to asyncAfter may run at any later time.                          *)
(*                                                                         *)
(* The variables of the class keep their names.  centralManager and the    *)
(* library's delegate are set by initialize and cleared by release, like   *)
(* isInitialized, and are not repeated.  fileSize is a function of         *)
(* fileBytes: both are always assigned together.                           *)
(***************************************************************************)
EXTENDS AmOtaApi

CONSTANTS
  File,        (* the files an application may pass                        *)
  NoFile,      (* nil                                                      *)
  Size,        (* the bytes of each file that can be read                  *)
  Brick,       (* defaultBrick * 4                                         *)
  MaxStarts,   (* bound: starts that get as far as connecting              *)
  MaxInits     (* bound: calls of initialize                               *)

ASSUME IosAssumption ==
  /\ NoFile \notin File
  /\ DOMAIN Size \subseteq File
  /\ \A f \in DOMAIN Size : Size[f] \in Nat
  /\ Brick \in Nat \ {0}
  /\ MaxStarts \in Nat /\ MaxInits \in Nat

VARIABLES
  isInitialized,
  observers,       \* times amotaEnableConfirmRsp is registered
  peripheral,
  fileBytes,       \* the file whose bytes were loaded
  isOtaUpgrading,
  connecting,      \* peripherals that connect was called for
  delayedStarts,   \* closures of amotaEnableConfirmRsp to come
  delayedResets,   \* closures of sendOtaUpgradeStatus to come
  crashed,
  \* What an observer has seen.
  status,          \* the last upgradeStatus
  inits,           \* calls of initialize
  starts,          \* starts that got as far as connecting
  request,         \* the peripheral and the file of the last one
  phase,           \* how it stands, as the application was told
  begun,           \* transfers begun since
  stopped,         \* stopOtaUpgrade was called since
  calm,            \* nothing of an earlier upgrade was under way at the last
                   \* start, and no call came in the middle of an upgrade since,
                   \* but for starts after the confirmation and stops before it
  fault            \* something failed since that the service is not told of, or
                   \* that it drops

props == <<peripheral, fileBytes, isOtaUpgrading>>
closures == <<delayedStarts, delayedResets>>
service == <<isInitialized, observers, props, connecting, closures, crashed>>
calls == <<inits, starts, request, stopped, calm>>
seen == <<status, phase, begun, fault>>
vars == <<ctrl, mainQueue, remote, service, calls, seen>>

-----------------------------------------------------------------------------

\* The bytes that can be read of file f.
Bytes(f) == IF f \in DOMAIN Size THEN Size[f] ELSE 0

fileSize == Bytes(fileBytes)

\* AmotaEC.upgradeStatus.event?(s)
Post(s) == status' = s

Init ==
  /\ LibInit
  /\ isInitialized = FALSE
  /\ observers = 0
  /\ peripheral = NoPeripheral
  /\ fileBytes = NoFile
  /\ isOtaUpgrading = FALSE
  /\ connecting = {}
  /\ delayedStarts = 0
  /\ delayedResets = 0
  /\ crashed = FALSE
  /\ status = "none"
  /\ inits = 0
  /\ starts = 0
  /\ request = [peri |-> NoPeripheral, file |-> NoFile]
  /\ phase = "none"
  /\ begun = 0
  /\ stopped = FALSE
  /\ calm = TRUE
  /\ fault = FALSE

\* Nothing is under way that the service once set off.
Quiet ==
  /\ connecting = {} /\ mainQueue = <<>>
  /\ delayedStarts = 0 /\ delayedResets = 0

\* The upgrade that calls have left alone is past its confirmation.  Starts are to be
\* refused then, so that one which is not is no excuse for what comes of it.
Busy == calm /\ phase = "open" /\ (delayedStarts > 0 \/ begun > 0)

-----------------------------------------------------------------------------
(* The calls of the method channel.                                        *)

\* A second initialize registers the observer a second time; the new central
\* manager knows nothing of the connections the old one was making.
Initialize ==
  /\ ~crashed
  /\ inits < MaxInits
  /\ inits' = inits + 1
  /\ isInitialized' = TRUE
  /\ observers' = observers + 1
  /\ connecting' = {}
  /\ calm' = (calm /\ ~isInitialized)
  /\ UNCHANGED <<ctrl, mainQueue, remote, props, closures, crashed, starts,
                 request, stopped, seen>>

resetUpgradeProperties ==
  /\ fileBytes' = NoFile
  /\ peripheral' = NoPeripheral
  /\ isOtaUpgrading' = FALSE

NotInitialized ==
  /\ ~crashed
  /\ ~isInitialized
  /\ Post("otaNotInitialized")
  /\ UNCHANGED <<ctrl, mainQueue, remote, service, calls, phase, begun, fault>>

\* A start without a connected peripheral of that uuid ends here, unreported.
StartFindsNothing ==
  /\ ~crashed
  /\ isInitialized
  /\ ~isOtaUpgrading
  /\ resetUpgradeProperties
  /\ calm' = (calm /\ phase # "open")
  /\ UNCHANGED <<ctrl, mainQueue, remote, isInitialized, observers, connecting,
                 closures, crashed, inits, starts, request, stopped, seen>>

\* loadOtaFile cannot read the file, or finds it empty.
StartReadsNothing(f) ==
  /\ ~crashed
  /\ isInitialized
  /\ ~isOtaUpgrading
  /\ Bytes(f) = 0
  /\ peripheral' = NoPeripheral
  /\ isOtaUpgrading' = FALSE
  /\ fileBytes' = IF f \in DOMAIN Size THEN f ELSE NoFile
  /\ Post("fileReadError")
  /\ calm' = (calm /\ phase # "open")
  /\ UNCHANGED <<ctrl, mainQueue, remote, isInitialized, observers, connecting,
                 closures, crashed, inits, starts, request, stopped, phase,
                 begun, fault>>

\* Mutant: a peripheral that is already set is kept.
StartKeepsPeripheral(p, f) ==
  /\ ~crashed
  /\ isInitialized
  /\ ~isOtaUpgrading
  /\ starts < MaxStarts
  /\ Bytes(f) > 0
  /\ fileBytes' = f
  /\ peripheral' = IF peripheral = NoPeripheral THEN p ELSE peripheral
  /\ isOtaUpgrading' = FALSE
  /\ connecting' = connecting \union {p}
  /\ Post("fileReadError")
  /\ starts' = starts + 1
  /\ request' = [peri |-> p, file |-> f]
  /\ phase' = "open"
  /\ begun' = 0
  /\ stopped' = FALSE
  /\ calm' = (observers = 1 /\ (Quiet \/ Busy))
  /\ fault' = FALSE
  /\ UNCHANGED <<ctrl, mainQueue, remote, isInitialized, observers, closures,
                 crashed, inits>>

\* Mutant: the flag is not looked at.
StartUnguarded(p, f) ==
  /\ ~crashed
  /\ isInitialized
  /\ starts < MaxStarts
  /\ Bytes(f) > 0
  /\ fileBytes' = f
  /\ peripheral' = p
  /\ isOtaUpgrading' = FALSE
  /\ connecting' = connecting \union {p}
  /\ Post("fileReadError")
  /\ starts' = starts + 1
  /\ request' = [peri |-> p, file |-> f]
  /\ phase' = "open"
  /\ begun' = 0
  /\ stopped' = FALSE
  /\ calm' = (observers = 1 /\ (Quiet \/ Busy))
  /\ fault' = FALSE
  /\ UNCHANGED <<ctrl, mainQueue, remote, isInitialized, observers, closures,
                 crashed, inits>>

\* loadOtaFile posts fileReadError for a file it has read, too.
StartOtaUpgrade(p, f) ==
  /\ ~crashed
  /\ isInitialized
  /\ ~isOtaUpgrading
  /\ starts < MaxStarts
  /\ Bytes(f) > 0
  /\ fileBytes' = f
  /\ peripheral' = p
  /\ isOtaUpgrading' = FALSE
  /\ connecting' = connecting \union {p}
  /\ Post("fileReadError")
  /\ starts' = starts + 1
  /\ request' = [peri |-> p, file |-> f]
  /\ phase' = "open"
  /\ begun' = 0
  /\ stopped' = FALSE
  /\ calm' = (observers = 1 /\ (Quiet \/ Busy))
  /\ fault' = FALSE
  /\ UNCHANGED <<ctrl, mainQueue, remote, isInitialized, observers, closures,
                 crashed, inits>>

\* A stop before the upgrade is confirmed does nothing.
StopIgnored ==
  /\ ~crashed
  /\ isInitialized
  /\ ~isOtaUpgrading
  /\ stopped' = TRUE
  /\ UNCHANGED <<ctrl, mainQueue, remote, service, inits, starts, request, calm,
                 seen>>

\* stopOtaUpgrade while isOtaUpgrading: the reset comes first, and the pause is
\* asked of no peripheral.
StopUpgrade ==
  /\ isOtaUpgrading
  /\ resetUpgradeProperties
  /\ amOtaPause(peripheral', "PAUSE_FILE_RELOADED")
  /\ Post("upgradeStop")
  /\ phase' = "ended"
  /\ calm' = (calm /\ phase # "open")

StopOtaUpgrade ==
  /\ ~crashed
  /\ isInitialized
  /\ StopUpgrade
  /\ stopped' = TRUE
  /\ UNCHANGED <<amPeri, wrChar, transfer, brickLength, mainQueue, remote,
                 isInitialized, observers, connecting, closures, crashed, inits,
                 starts, request, begun, fault>>

\* Mutant: the observer stays registered.
ReleaseKeepsObserver ==
  /\ ~crashed
  /\ isInitialized
  /\ isInitialized' = FALSE
  /\ connecting' = {}
  /\ stopped' = TRUE
  /\ \/ StopUpgrade
     \/ /\ ~isOtaUpgrading
        /\ calm' = (calm /\ phase # "open")
        /\ UNCHANGED <<ePause, props, status, phase>>
  /\ UNCHANGED <<amPeri, wrChar, transfer, brickLength, mainQueue, remote,
                 observers, closures, crashed, inits, starts, request, begun,
                 fault>>

\* release: stopOtaUpgrade, then everything but the properties is let go of.
Release ==
  /\ ~crashed
  /\ isInitialized
  /\ isInitialized' = FALSE
  /\ observers' = 0
  /\ connecting' = {}
  /\ stopped' = TRUE
  /\ \/ StopUpgrade
     \/ /\ ~isOtaUpgrading
        /\ calm' = (calm /\ phase # "open")
        /\ UNCHANGED <<ePause, props, status, phase>>
  /\ UNCHANGED <<amPeri, wrChar, transfer, brickLength, mainQueue, remote,
                 closures, crashed, inits, starts, request, begun, fault>>

-----------------------------------------------------------------------------
(* The callbacks of CoreBluetooth.                                         *)

\* didConnect looks at nothing: whatever has been connected is enabled.
DidConnect(p) ==
  /\ ~crashed
  /\ p \in connecting
  /\ connecting' = connecting \ {p}
  /\ amOtaEnable(p)
  /\ Post("upgrading")
  /\ UNCHANGED <<isInitialized, observers, props, closures, crashed, calls, phase,
                 begun, fault>>

\* The library had one service looked for.  If it was not found, nothing is asked
\* for, and that is only logged.
DidDiscoverServices ==
  /\ ~crashed
  /\ mainQueue # <<>> /\ Head(mainQueue).ev = "services"
  /\ \/ /\ mainQueue' = Append(Tail(mainQueue),
                               Callback("chars", Head(mainQueue).peri))
        /\ UNCHANGED fault
     \/ /\ mainQueue' = Tail(mainQueue)
        /\ fault' = TRUE
  /\ UNCHANGED <<ctrl, remote, service, calls, status, phase, begun>>

DidDiscoverCharacteristics ==
  /\ ~crashed
  /\ mainQueue # <<>> /\ Head(mainQueue).ev = "chars"
  /\ CharsDiscovered(Tail(mainQueue), Head(mainQueue).peri)
  /\ UNCHANGED <<amPeri, transfer, brickLength, ePause, remote, service, calls,
                 seen>>

\* The link of p breaks.  There is no handler: the service is not told.
LoseLink(p) ==
  /\ ~crashed
  /\ p \in connecting \/ \E i \in 1..Len(mainQueue) : mainQueue[i].peri = p
  /\ connecting' = connecting \ {p}
  /\ LinkLost(p)
  /\ fault' = TRUE
  /\ UNCHANGED <<ctrl, remote, isInitialized, observers, props, closures,
                 crashed, calls, status, phase, begun>>

-----------------------------------------------------------------------------
(* The library's notification, and what it sets off.                       *)

\* An upgrade the application hears an error of is over for it.
PostError(s) ==
  /\ Post(s)
  /\ phase' = IF phase = "open" THEN "failed" ELSE phase

\* Mutant: the closure is scheduled only if the flag was set before.
ConfirmSchedulesOnce ==
  /\ ~crashed
  /\ mainQueue # <<>> /\ Head(mainQueue).ev = "confirm"
  /\ mainQueue' = Tail(mainQueue)
  /\ isOtaUpgrading' = (isOtaUpgrading \/ observers > 0)
  /\ delayedStarts' = IF isOtaUpgrading THEN delayedStarts + observers
                      ELSE delayedStarts
  /\ UNCHANGED <<ctrl, remote, isInitialized, observers, peripheral, fileBytes,
                 connecting, delayedResets, crashed, calls, seen>>

\* amotaEnableConfirmRsp, once for every time it was registered.  It returns at
\* once from a notification without a dictionary; the library's has one, by the
\* key keyAmotaEnableConfirm that the headers declare for it.
AmotaEnableConfirmRsp ==
  /\ ~crashed
  /\ mainQueue # <<>> /\ Head(mainQueue).ev = "confirm"
  /\ mainQueue' = Tail(mainQueue)
  /\ \/ /\ observers = 0
        /\ UNCHANGED <<isOtaUpgrading, delayedStarts, status, phase>>
     \/ /\ observers > 0
        /\ Head(mainQueue).status = "OTA_CONFIRM_TRUE"
        /\ isOtaUpgrading' = TRUE
        /\ delayedStarts' = delayedStarts + observers
        /\ UNCHANGED <<status, phase>>
     \/ /\ observers > 0
        /\ Head(mainQueue).status # "OTA_CONFIRM_TRUE"
        /\ PostError("UNKNOWN_ERROR")
        /\ UNCHANGED <<isOtaUpgrading, delayedStarts>>
  /\ UNCHANGED <<ctrl, remote, isInitialized, observers, peripheral, fileBytes,
                 connecting, delayedResets, crashed, calls, begun, fault>>

\* The closure of amotaEnableConfirmRsp reads the properties as they are now and
\* drops the result of amOtaStart.  The NSData that the bytes belong to was local
\* to loadOtaFile, so what is at the address is undefined: the image, or not.
DelayedStart ==
  /\ ~crashed
  /\ delayedStarts > 0
  /\ delayedStarts' = delayedStarts - 1
  /\ \E good \in BOOLEAN, result \in eLoadFileResult :
       /\ amOtaStart(peripheral, fileSize, good, Brick, result)
       /\ begun' = IF result = "OTA_FW_NO_ERROR" THEN begun + 1 ELSE begun
       /\ fault' = (fault \/ result = "OTA_FW_ERROR")
  /\ UNCHANGED <<isInitialized, observers, props, connecting, delayedResets,
                 crashed, calls, status, phase>>

-----------------------------------------------------------------------------
(* The library's delegate.                                                 *)

\* Mutant: any success but the header's ends the upgrade.
UpgradeStatusType(s, type) ==
  \/ /\ s # "SUCCESS"
     /\ amOtaPause(peripheral, "PAUSE_FILE_RELOADED")
     /\ PostError(s)
     /\ UNCHANGED delayedResets
  \/ /\ s = "SUCCESS"
     /\ delayedResets' = IF type >= 1 THEN delayedResets + 1 ELSE delayedResets
     /\ UNCHANGED <<ePause, status, phase>>

\* sendOtaUpgradeStatus.  An error leaves isOtaUpgrading set; a successful verify
\* (type 2) schedules the reset.
sendOtaUpgradeStatus(s, type) ==
  \/ /\ s # "SUCCESS"
     /\ amOtaPause(peripheral, "PAUSE_FILE_RELOADED")
     /\ PostError(s)
     /\ UNCHANGED delayedResets
  \/ /\ s = "SUCCESS"
     /\ delayedResets' = IF type = 2 THEN delayedResets + 1 ELSE delayedResets
     /\ UNCHANGED <<ePause, status, phase>>

didAmOtaFwHeaderRsp(s) == sendOtaUpgradeStatus(s, 0) /\ UNCHANGED crashed

\* The progress divides two unsigned integers.  After a reset the divisor is
\* zero, and the division traps.
didAmOtaFwDataRsp(s) ==
  /\ sendOtaUpgradeStatus(s, 1)
  /\ crashed' = (s = "SUCCESS" /\ fileSize = 0)

didAmOtaUserCmdRsp(curCmd, s) ==
  /\ sendOtaUpgradeStatus(s, IF curCmd = "CMD_VERIFY" THEN 2 ELSE 3)
  /\ UNCHANGED crashed

\* didUpdateValue hands the answer to the library, which calls its delegate, if
\* there is one.  (The value that didUpdateNotificationState reads comes the same
\* way.  It is no answer, and taken to be none that the library awaits.)
DidUpdateValue ==
  LET a == Head(mainQueue) IN
  /\ ~crashed
  /\ mainQueue # <<>> /\ a.ev = "value"
  /\ \/ /\ UpdateValue(Tail(mainQueue), a)
        /\ fault' = (fault \/ VerifyLeft(a))
        /\ \/ ~isInitialized /\ UNCHANGED <<ePause, status, phase, delayedResets,
                                            crashed>>
           \/ /\ isInitialized
              /\ Delegate(a) = "didAmOtaFwHeaderRsp"
              /\ didAmOtaFwHeaderRsp(a.status)
           \/ /\ isInitialized
              /\ Delegate(a) = "didAmOtaFwDataRsp"
              /\ didAmOtaFwDataRsp(a.status)
           \/ /\ isInitialized
              /\ Delegate(a) = "didAmOtaUserCmdRsp"
              /\ didAmOtaUserCmdRsp(UserCmd(a), a.status)
     \/ /\ ~Awaits(a.cmd)
        /\ mainQueue' = Tail(mainQueue)
        /\ UNCHANGED <<ctrl, remote, status, phase, delayedResets, crashed,
                       fault>>
  /\ UNCHANGED <<isInitialized, observers, props, connecting, delayedStarts,
                 calls, begun>>

\* The closure of sendOtaUpgradeStatus.
DelayedReset ==
  /\ ~crashed
  /\ delayedResets > 0
  /\ delayedResets' = delayedResets - 1
  /\ resetUpgradeProperties
  /\ Post("SUCCESS")
  /\ phase' = IF phase = "open" THEN "ended" ELSE phase
  /\ UNCHANGED <<ctrl, mainQueue, remote, isInitialized, observers, connecting,
                 delayedStarts, crashed, calls, begun, fault>>

-----------------------------------------------------------------------------

Call ==
  \/ Initialize \/ NotInitialized \/ StartFindsNothing
  \/ \E f \in File : StartReadsNothing(f)
  \/ \E p \in Peripheral, f \in File : StartOtaUpgrade(p, f)
  \/ StopIgnored \/ StopOtaUpgrade \/ Release

QueueRuns ==
  \/ \E p \in Peripheral : DidConnect(p)
  \/ DidDiscoverServices \/ DidDiscoverCharacteristics
  \/ AmotaEnableConfirmRsp \/ DidUpdateValue

Next ==
  \/ Call \/ QueueRuns \/ DelayedStart \/ DelayedReset
  \/ \E p \in Peripheral : LoseLink(p)

Spec == Init /\ [][Next]_vars

\* Main queue and timers run; nothing is assumed of the callers, and a link that
\* does not break delivers.
FairSpec ==
  /\ Spec
  /\ WF_vars(QueueRuns)
  /\ WF_vars(DelayedStart)
  /\ WF_vars(DelayedReset)

-----------------------------------------------------------------------------
(* Properties.                                                             *)

TypeOK ==
  /\ LibTypeOK
  /\ isInitialized \in BOOLEAN
  /\ observers \in 0..MaxInits
  /\ peripheral \in Peripheral \union {NoPeripheral}
  /\ fileBytes \in File \union {NoFile}
  /\ isOtaUpgrading \in BOOLEAN
  /\ connecting \subseteq Peripheral
  /\ delayedStarts \in Nat
  /\ delayedResets \in Nat
  /\ crashed \in BOOLEAN
  /\ status \in eAmotaStatus \union
       {"none", "fileReadError", "upgrading", "upgradeStop",
        "otaNotInitialized"}
  /\ inits \in 0..MaxInits
  /\ starts \in 0..MaxStarts
  /\ request \in [peri : Peripheral \union {NoPeripheral},
                  file : File \union {NoFile}]
  /\ phase \in {"none", "open", "failed", "ended"}
  /\ begun \in Nat
  /\ stopped \in BOOLEAN /\ calm \in BOOLEAN /\ fault \in BOOLEAN

\* After release, and until initialize is called again, no upgrade is confirmed,
\* whatever callbacks and closures were still under way.  Nor does a transfer
\* begin, unless a stop and a second start came first: release only resets the
\* properties when isOtaUpgrading is set, and the closure that the first upgrade
\* left finds the file of the second.
ReleaseIsFinal ==
  [][~isInitialized => /\ ~isOtaUpgrading'
                       /\ starts < 2 => begun' = begun]_vars

\* The division by fileSize in the progress never traps in an upgrade that was
\* started in quiet and that no call came in the middle of: every data answer
\* finds the file loaded.  (After a stop in mid-transfer it does trap.)
NoCrash == calm => ~crashed

\* The transfer of such an upgrade works on the peripheral and on the size that
\* were asked for, although both are read from shared properties 3 s after the
\* start was confirmed; and it is begun once.
TransferIsRequested ==
  calm /\ phase = "open" /\ begun > 0 =>
    /\ begun = 1 /\ delayedStarts = 0
    /\ amPeri = request.peri
    /\ amFwTotalDataSize = Bytes(request.file) - HeaderLength

\* In such an upgrade a reset that is due is of this upgrade, the device has checked
\* its whole image, and it stays so for the 1.5 s: a start that comes in between is
\* refused.  The condition matters: a stop within the 1.5 s lets a new upgrade start
\* while the reset of the old one is due.  That start is not in quiet, and the reset
\* then ends the new upgrade and reports it as a success.
ResetIsForOwnUpgrade ==
  calm /\ delayedResets > 0 =>
    /\ delayedResets = 1 /\ delayedStarts = 0
    /\ phase = "open" /\ begun = 1 /\ verified

\* An upgrade that gets as far as connecting ends in a success or an error that the
\* application hears, unless a call comes in its middle, it was not started in
\* quiet, or something fails that the service does not notice: the link breaks,
\* the device has no such service, the library refuses the start, or it leaves
\* verify to a command that the plugin never gives.
UpgradeEnds == phase = "open" ~> phase # "open" \/ fault \/ ~calm

-----------------------------------------------------------------------------
(* What the comments of AmOtaService.swift say, where the code does          *)
(* otherwise.                                                              *)

\* Lines 104 to 110: stopOtaUpgrade stops the upgrade ("停止OTA升级"), and pauses it.
\* From then on, no transfer begins until the next start.
StopIsFinal == [][stopped => begun' = begun]_vars

=============================================================================
