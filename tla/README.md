# flutter_ezw_amota in TLA+

A verification project for the AMOTA firmware-update plugin: TLA+ modules that
model its code, TLC runs that check them on small instances, and TLAPS proofs of
what matters most for every instance. Line numbers are those of the Kotlin and
Swift sources; `AmOtaService.kt` stands for
`android/src/main/kotlin/com/fzfstudio/ezw_amota/service/AmOtaService.kt`,
`AmOtaService.swift` for `ios/Classes/Services/AmOtaService.swift`. The library's
headers are in the repository twice, alike; the map names the copy under `ios/` for
what the iOS service sees, and the one under `Frameworks/` for the packets that
Android sends.

`PROJECT.json` holds the machine-readable side: the runs, which source lines each
definition models, one mutation per property that the property must catch, the
hazards, the findings and the theorems.

## 1. The system

The plugin lets a Flutter application update the firmware of a BLE device that
speaks Ambiq's AMOTA protocol. On Android the plugin runs the protocol itself
and the application owns the BLE link; on iOS a binary library owns both.

| Component | Keeps | Operations | Talks to |
|---|---|---|---|
| **Android OTA service**, `AmOtaService.kt` | `isOtaUpgrading`, `filePath`, `fileOffset`, `fileSize`, `fileInputStream`, `otaJob`, `coroutineScope`, two semaphores; the locals of one coroutine per start | `amOtaStart`, `amOtaStop`, `cmdGattReplayArrived`, `otaCmdResponse` on the main thread; `startOtaUpdate` and what it calls on an IO thread | calls from the method channel; events to the application |
| **AMOTA wire protocol**, `sendOtaCmd`, `sendPacket`, `AmotaConstants.kt`, `AmotaCmd.kt` | nothing | assemble a packet, cut it into frames of a BLE write, decide which frames wait for the device | the device, through the application |
| **Android method channel**, `FlutterEzwAmotaPlugin.kt` | nothing | dispatches a method name to one service call | Dart to service |
| **Android event channels**, `AmotaEvent.kt` | one sink for each of `upgradeStatus`, `upgradeProgress`, `otaCmdHandle` | onListen, onCancel, post | service to Dart; no sink, no event |
| **CRC32**, `CrcCalculator.kt` | a constant table | checksum of a packet's data | `sendOtaCmd` |
| **iOS OTA service**, `AmOtaService.swift` | `isInitialized`, `centralManager`, `peripheral`, `fileBytes`, `fileSize`, `isOtaUpgrading` | `initialize`, `release`, `startOtaUpgrade`, `stopOtaUpgrade`; CoreBluetooth, notification and library callbacks; two delayed closures (3 s, 1.5 s) | `amOtaApi`, CoreBluetooth, event channels |
| **iOS channels** | the event sinks | dispatch, events | as on Android |
| **Dart layer**, `lib/` | the streams by channel | routes calls by platform, caches streams | the channels |
| *external*: application, device, `amOtaApi` | | write frames, answer packets, run the transfer on iOS | |

### What is hard here

The Android service is small and concurrent. Main thread and coroutine share
every field and no lock; the only thing that keeps two upgrades apart is the
Boolean `isOtaUpgrading`, which both write. The coroutine looks at it once per
frame, just before it posts the frame, and notices its own cancellation only at
the `delay` of 50 or 100 ms after each frame. In between it blocks, up to 3 s a wait, on
semaphores that `amOtaStop` releases and drops. Four kinds of trouble follow:

* **Interleaving.** A start launches the coroutine before it sets the flag; a
  stop resets five fields one by one while the coroutine reads them; `finally`
  of one job nulls the stream field whoever owns it.
* **Sequences of calls.** What the next start finds after a success, a failure,
  an error answer or a stop.
* **Answers that are late, lost or one too many.** Both waits are bounded and
  the result of neither is used, so a permit may be consumed by a later wait
  than the one it was for.
* **Boundaries.** A data packet whose length is a multiple of the BLE payload; a
  file shorter or longer than its header says; a resume offset.

On iOS everything runs on the main queue, so there are no data races to speak
of. But `isOtaUpgrading` is FALSE while the peripheral connects, which takes any
time, so that a second start replaces the properties of the first and a stop is
ignored; the two delayed closures (3 s before the transfer, 1.5 s after the
verify) read and write whatever the properties then are; a broken link is not
noticed; and the bytes of the file are those of an `NSData` that is gone.

Between service and Dart an event passes a looper (on Android), a sink that
comes and goes with the subscribers, and a stream that must be one for all of
them.

### What makes each part correct

* service: at most one upgrade at a time, each reading its own file; a stop takes
  effect at once and silences the upgrade; every upgrade ends and says how; a
  later start works;
* protocol: every packet is delivered whole, its answer awaited once and no wait
  in mid-packet;
* service with device: a reported success is a verified image; the sender's
  `offset`, its position in the file and the device's position agree; progress
  stays within 100 %; on good links an upgrade completes;
* event channels and Dart layer: events reach a listener in the order posted;
  each platform gets the calls meant for it;
* numbers: checksum, length field and decoding agree with the library's headers;
* iOS service: a transfer is of what was requested; a reset is of the upgrade it
  was scheduled for; a released service confirms nothing; an upgrade ends.

## 2. The modules

| Module | Models |
|---|---|
| `AmotaProtocol` | constants, commands, statuses and the arithmetic of packets and frames |
| `AmotaFraming` | `sendPacket` alone, at the real sizes |
| `AmotaCrc` | the CRC by table and by polynomial |
| `AmotaBytes` | the bytes and the 32-bit numbers of one exchange, with a device that reads packets by `amOta.h` |
| `AmotaService` | all of `AmOtaService.kt`, with an open environment |
| `AmotaOneUpgrade` | the abstract specification that `AmotaService` implements |
| `AmotaSystem` | `AmotaService` composed with an application, a device and lossy links |
| `AmOtaApi` | the iOS library and its device, from the headers |
| `IosOtaService` | all of `AmOtaService.swift`, over `AmOtaApi` |
| `AmotaEvents` | one event channel, from the services' posts to the Dart listeners |
| `AmotaServiceProofs`, `AmotaSystemProofs`, `AmotaFramingProofs`, `AmotaBytesProofs`, `AmotaEventsProofs`, `IosOtaServiceProofs` | the theorems about the module each is named after |
| `MCAmotaService`, `MCAmotaSystem`, `MCAmotaBytes`, `MCIosOtaService` | the constants of the TLC instances |

`AmotaService`, `AmotaFraming` and `AmotaBytes` extend `AmotaProtocol`;
`AmotaSystem` extends `AmotaService` and conjoins its actions with the queues of
the links, and `AmotaSystemProofs` builds on `AmotaServiceProofs` in the same way;
`IosOtaService` extends `AmOtaApi`, whose operations are actions
without a next-state relation of their own; `AmotaService` instantiates
`AmotaOneUpgrade` under its refinement mapping.

### AmotaService and the code

The module has one state for the main thread (`main`: idle, or the statement
that `amOtaStart`/`amOtaStop` has reached), one program counter for each job
(`pc[j]`), the fields of the class under their own names, and the locals of the
coroutine as functions of the job. The n-th accepted start creates job `n` and
the semaphores numbered `n`; a semaphore field holds such a number, and 0 is
Kotlin's null.

* `AmOtaStart`, `StartSetsFlag`, `StartPosts`: lines 85-100. Three steps, as the
  job may run between `launch`, the flag and the post. A launch in a cancelled
  scope gives a job that never runs.
* `AmOtaStop`: lines 110-124, a step for each statement: `BeginStop` (112),
  `StopClearsOffset` (113), `StopReleasesGatt` and `StopDropsGatt` (114, 115),
  `StopReleasesResponse` and `StopDropsResponse` (116, 117), `StopClearsFlag` (118),
  `StopCancels` (119-122), `StopPosts` (123). The job may run between any two of
  them, and reads the semaphore fields once per frame (384, 386), so that it can take
  a permit that the stop has just released and be back before the field is null.
* `CmdGattReplayArrived` (525-533), `OtaCmdResponse` (126-178) with its unknown,
  error and ok branches. The first two of these run `BeginStop`, and with it the
  whole of `amOtaStop`: there is no action that leaves the rest of it out. A
  response too short for the bytes that lines 142, 150 and 158 read throws
  before anything is assigned, and is no step.
* `Dispatch`: the coroutine gets its thread, the last point where a cancelled job
  does not begin. `OpenFile` or `OpenFails` (194) is a step of its own, as a stop may
  have set the path to "" in between.
  From there to `Finally`: `startOtaUpdate` (182-241); `ReadHeader`:
  `sendFwHeader`; `BeginPacket`, `CheckFlag`, `PostFrame`, `GattEnter`,
  `GattAcquire`, `GattTimeout`, `RespEnter`, `RespAcquire`, `RespTimeout`,
  `DelayCancelled`, `NextFrame`, `PacketDone`, `SendFails`: `sendOtaCmd`,
  `sendPacket`, `sendOneFrame` and the waits; `SetFileOffset`, `InitData`,
  `LoopTest`, `ReadData`, `DataFails`, `DataAdvances`: `setFileOffset`,
  `sendFwData` and `sentFwDataPacket`.

A wait is two steps, the read of the field and the block, because the field may
become null or hold a new semaphore in between. Check and post of a frame are
two steps for the same reason. An action's name ending in `Throws` is the
exceptional outcome of the statement, and where it lands follows the `try`
blocks: inside the loop of `sendFwData` it is swallowed and `ret` keeps its old
value, elsewhere it reaches `startOtaUpdate`.

Six variables only observe: `status` (the last status posted), `heard` (the
starts that a terminal status followed), `strays` (frames posted since a stop),
`unwaited` and `expired` (the jobs that did not wait for an answer, or waited in
vain; a permit taken while `amOtaStop` is under way may be its own, and counts as no
answer), and `late` (the jobs that began to wait on a semaphore after `amOtaStop`
had released it and before it dropped it). No action's guard reads them.

Decisions behind the model:

* *Memory.* The fields are neither volatile nor locked. The model is
  sequentially consistent: an access sees the last write. Every frame passes a
  semaphore operation and a dispatch after `delay`, both of which synchronise, so
  a job sees a write late by one frame at most; such late reads are not modelled.
* *Events.* `mainEventSend` posts to the main looper, which keeps the order of
  posts, so the order in which they are posted is the order observed.
* *Timeouts.* There is no clock. A `tryAcquire` may run out in any state in which
  there is no permit; a permit that is there is taken.
* *Cancellation* is noticed at `delay` only; nothing else in the coroutine
  suspends. No thread is interrupted, so the `InterruptedException` branches are
  not reached.
* *Data.* A packet is its command and length, a frame the index of its first
  byte, a file its length and the size its header declares.
  `fileOffset` comes from `Nat`; the signed 32-bit decoding is in `AmotaBytes`.
  `UPGRADE_PROGRESS` is a function of `offset` and `fw`, which the
  properties refer to directly.
* *Merged steps.* `Fail` tests and clears the flag at once: its write leaves FALSE
  whatever happened since the test, and a test that fails found FALSE. A header
  answer writes `fileOffset` and releases at once: the job reads the field after the
  release, or after a timeout, when either order is an interleaving of the merged
  step. `SetFileOffset` reads `fileOffset` once where the code reads it twice (403,
  404): the second value decides, as `skip(0)` does nothing.

### AmotaSystem and its external parts

The application writes the frames in order (`AppWrites`), reports each completed
write (`AppConfirms`) and each notification (`AppNotifies`). The device collects
frames, refuses one that does not continue the packet under way, answers a header
with the bytes it holds of that image or with zero, appends what data it gets and
checks the image on verify. Neither is in the repository: they are modelled from
the channel `AmOtaService.kt` offers and from the answers it expects, and marked
external. `Lose` drops a frame, a completion or an answer. The queues are
unbounded in the module; in a run they are as long as one upgrade can make them.

### AmotaOneUpgrade

What an application may rely on, in five variables and five actions: upgrades
are numbered by the accepted starts; one is under way at a time (`owner`); each
is granted at its start and finishes once; a stop closes the service, after which
starts are still counted but grant nothing, and at most one frame goes out until
the next start. The mapping takes `starts`, the job in its upgrade (`Owner`),
`~scopeActive` and `strays`. That a stop is for good is what the code does, not
what its comments say (`start_after_stop`).

### AmotaBytes and AmotaCrc

A behaviour is one exchange at the real sizes: `sendFwHeader` decodes the size,
`calcCrc32` runs over the data byte by byte, `sendOtaCmd` assembles the packet, a
device takes it apart by the field enumerations of `amOta.h`, and
`otaCmdResponse` decodes what comes back; after a header the loop of `sendFwData`
counts and computes its progress. Int arithmetic is written so that the model
never leaves the 32 bits that Kotlin has: `Times100` wraps as the code's product
does. A word is the set of its 1 bits, so that exclusive or is the symmetric
difference. The reference for the checksum is the polynomial of `crc32.h`, divided
bit by bit.

`BytesAssumption` says what the proofs need of the constants: a header long enough
to hold the size at its bytes 8 to 11 and no longer than a packet, four bytes of
checksum, packets whose length fits 16 bits, and of a resuming device that it has no more
of an image than the image (in the highest byte; the module does not need
the rest) and that of an image of 2^31 bytes or more, which no file has, it only ever
has all. `TableAssumption`, in `AmotaCrc`, states that each of the table's 256 entries is
the remainder of its index. TLC evaluates both before the `numbers` run.

Two limits of the code show here and are not errors of the model: progress is
exact up to `MaxExact` = 21,474,836 bytes and wraps beyond, and a size or counter
of 2^31 or more is a negative Int, with which the loop of `sendFwData` sends
nothing. The comment of `amOta.h` (line 111) and its `PKG_Data_MAX` bound a
packet's data by 512 bytes where both platforms send 4096.

### IosOtaService and AmOtaApi

Every call of the method channel, every callback and every closure is one action,
as everything runs on the main queue. `DelayedStart` and `DelayedReset` may run at
any time after they are scheduled; the 3 s and 1.5 s are not modelled, nor is it
needed that they pass.

* `Initialize` (57), `Release` (137), `StartOtaUpgrade` with `StartFindsNothing` and
  `StartReadsNothing` (77, 162), `StopIgnored` and `StopUpgrade` (112),
  `NotInitialized` (113; the start's guard does the same).
* `DidConnect` (246), `DidDiscoverServices` (259), `DidDiscoverCharacteristics`
  (267), `DidUpdateValue` (295). The library has one service looked for, which
  may not be there. The descriptor and notification-state callbacks change no
  property; the value that the latter reads (316) comes to the library as an answer
  would (295), and is taken to be none it awaits.
* `AmotaEnableConfirmRsp` (198), `sendOtaUpgradeStatus` (384) and the three delegate
  methods (336, 350, 365).

`AmOtaApi` is no translation, as the library is a binary: its variables are the
properties of `amOtaCtrl.h`, its operations those of `amOtaApi.h`, its messages
those of `amOta.h`. What the headers leave open is a choice: whether a header is
resumed, whether a packet is refused, what a pause without a peripheral does,
whether the bytes given to `amOtaStart` are still the image, and whether verify is
sent after the last brick: the headers call it a user command (`amOtaApi.h` 81,
198-209), which the plugin never gives, and also the last step of an upgrade
(`amOta.h` 104-107), to whose answer the plugin reacts (365). The library's
notification of a confirmation has a dictionary, so that the return at line 199 is
not taken. It is assumed that an answer is handled once (the service posts it once
for each of the peripheral's services, 297), that a pause holds back bricks only, as the header says (190),
and that an answer which the library's state does not wait for is ignored. The
device is inside: a packet written is answered unless the link breaks. When it does,
`LinkLost` takes the callbacks of that peripheral from the main queue and leaves
the others in their order.

`calm` says that the last start found nothing of an earlier upgrade under way (no
connection, callback or closure), with one observer, and that no call came in the
middle of the upgrade since: a second start before it was confirmed, a stop or
release of it, a second `initialize`. A start after the confirmation leaves `calm` as
it is, because the service is to refuse it: were it let in, the properties would fail.
`fault`, which each start resets, says that something failed that the service is not
told of or drops: the link broke, the service was not found, the library refused
the start, or left verify to the user. The properties that need them say so; the
states in which they do not hold are in the model and in the runs, and
`ReleaseIsFinal` is about exactly those.

### AmotaEvents

One channel: `posts` numbers the events; on Android a post waits in `looper`, and
the sink is looked up when it is delivered (565), on iOS it goes to the sink at
once. The subscription of the first listener of a stream and the cancellation of
the last send `listen` and `cancel` to the platform; without a handler Flutter keeps
the last message. These are the rules of Flutter's `EventChannel`, external to the
repository. `ec` is the cache of `flutter_ezw_amota_even_channel.dart`; its mutant,
a stream of its own for each use, takes the channel away from the first listener.

A listener that subscribes late may get one stale event first, and one that was
there across another's cancellation of the last subscription none of those posted
in between; only `early` listeners are promised all: with an event of the
upgrade they have heard every earlier one of it (`HearsAll`), and the last one reaches
them (`AllArrive`).

## 3. The runs

The sizes of the service and system runs are scaled: a header of 2 bytes, 5 bytes a
BLE write, 1 byte each for header and CRC fields, and a data packet of 4 bytes for
the service and of 10 for the system. A header or verify packet then takes one
frame, a full data packet two or three, and one of 3 bytes fills one write exactly:
every case the real sizes (48, 240, 3, 4, and 4096) have. The system needs the third
frame, as a device that misses the first refuses each of the others, so that
more than one answer may be on its way for one packet; with two frames a stronger
`OneAnswerAtMost` holds that the real sizes would break. The `framing` and `numbers`
runs have the real sizes.

| Run | Question | Bounds |
|---|---|---|
| `framing` | Does `sendPacket` deliver a packet whole, does the length field say where it ends, and does no wait come before its end? | data of 0..4096 bytes |
| `service_one_start` | Does every statement of a stop leave a blocked job a permit, and is the job silenced; does the job end and report, whatever the callers do? | 1 start; files good, truncated, without header, empty, absent; reads may throw; 1 permit piled up |
| `service_restarts` | Do two upgrades ever overlap or share a stream? Is the proof's invariant one, and is `AmotaOneUpgrade` implemented? | 2 starts; files good, short, absent; reads may throw |
| `system_lossy` | Is a success a verified image, and are both ends in step, with one loss, a resume point and stops? | 1 start, 2 files, 1 loss, device holds 0 or 11 of 12 bytes |
| `system_live` | On links that lose nothing, does an upgrade complete? | 1 start, 2 files, no loss |
| `numbers` | Do checksum, length, decoding and progress agree with the headers' definitions? | data with every byte value and lengths around a carry; sizes around 2^31, `MaxExact` and the packet size |
| `ios` | Is a transfer of what was requested and a reset of its own upgrade, with later starts kept out; does an upgrade end; is a release final? | 2 starts, 2 initialisations, 2 peripherals, files good, nothing but a header, empty, absent; device holds 0 or 4 of 6 bytes; any refusals and broken links |
| `channels` | Do events arrive in order, once and without a gap? | 2 listeners, 3 subscriptions, 3 events, both platforms |

Why these bounds are enough: two starts show every pairing of an old and a new
job, or of an upgrade with the closures of the one before it, and the proofs
cover any number; one file of two data packets has a first, a
middle-of-loop and a last packet, of several frames and of one; `MaxPermits` is 1
where callers are arbitrary (a second permit only repeats what the first does to
one more wait) and 20, more than one upgrade can produce, in the system, where it
never binds; one loss is enough to shift every later answer by one. A second
`initialize` is one more observer than the service is written for, and also what
follows a release. Three subscriptions by two listeners let one come, go and come
back beside the other; three events are one of the start, one before or after it
and one more.

The other four runs must fail: each checks one statement of the code's own
documentation that the code does not keep.

| Run | The code's comment | What the run shows |
|---|---|---|
| `flag_after_success` | `AmOtaService.kt` 49: the flag is true while an upgrade is in progress | after `UPGRADE_SUCCESS` it is still true, and the next start is refused until a stop. An empty file (line 197) leaves it set too |
| `start_after_stop` | line 83: a start launches the coroutine that upgrades | `amOtaStop` cancels the `val coroutineScope` (line 119) for good: later starts post `UPGRADING` and nothing runs. The stop may be the service's own, after an error answer |
| `verify_edge` | line 480: `sendVerifyCmd` returns whether a valid response came | a packet that ends in a full frame is not waited for (line 354) and its answer is taken for verify's |
| `ios_stop` | `AmOtaService.swift` 104: stop the OTA upgrade | a stop while the peripheral connects is ignored (line 118), and the transfer begins later |

### Observations without a run of their own

On Android:

* `if (!isOtaUpgrading) { false }` in `sendOtaCmd` (318) lacks its `return`, so a
  stop in mid-transfer is followed by `INVALID_PACKAGE_LENGTH` (`SendFails`).
* A job that overtakes `amOtaStart` between lines 95 and 98 gives up as if stopped
  and leaves the flag set with no job (`CheckFlag` before `StartSetsFlag`).
* A file too short for a header ends the upgrade without any status, which is why
  `EndIsReported` excludes it.
* The result of `waitCmdResponse` is dropped (386), so an upgrade whose last wait
  times out posts `UPGRADE_SUCCESS`. `SuccessIsVerified` is conditional on
  `AllAnswered` for this reason.
* The `catch` in the loop of `sendFwData` (429) leaves `ret` as it was, and the
  previous packet is counted twice. From then on `offset` is ahead of the device, so
  that `InStep` and `ProgressInRange` say something of `offset` only while no read has
  thrown (`ReadsWell`); stream and device agree even then.
* A job that takes the permit of line 114 or 116, sends its next frame or comes to
  its next wait, and is on the same semaphore again before line 115 or 117 drops it,
  waits in vain, up to 3 s. It is the job that `StopWakesJob` excepts (`late`);
  `JobTerminates` covers it.
* `sendOneFrame` reads the shared flag (378), so a job that was stopped sends
  another frame if a start comes before it reaches `delay`; it overlaps no other
  job only because that start's job never runs.

On iOS:

* `loadOtaFile` posts `fileReadError` for a file it has read well (184).
* The progress is `100 * Float(length / fileSize)` of unsigned integers (355): 0
  until `length` reaches `fileSize`, which counts the header that the transfer does
  not. After a reset it would divide by zero; `NoCrash` shows that a reset finds no
  data answer to come when no call intervenes. With a stop in mid-transfer it
  does not hold, as the library is asked for the pause with no peripheral (123).
* An error status leaves `isOtaUpgrading` set (386), and later starts are refused
  until a stop.
* Four failures go unnoticed, and leave an upgrade open of which the application
  was told that it is under way: a link that breaks (246), a peripheral without the
  service (260), a start that the library refuses, because the file is nothing but a
  header or its bytes are gone (216), and a library that leaves verify to the user.
  `UpgradeEnds` excepts them (`fault`).
* A stop in the 1.5 s before the reset is followed by the status of the success. If
  a start comes in between too, the reset ends that new upgrade: its file,
  peripheral and flag are cleared while it connects, and the application hears
  `SUCCESS`. So does a stop in mid-transfer after which the library goes on, with a
  new start before the old transfer's verify. `ResetIsForOwnUpgrade` is about
  upgrades that were started with no such rest under way.
* Start, confirmation, stop and a second start within the 3 s, then a release while
  it connects: the closure of the first start finds the file of the second and
  begins a transfer after the release. `ReleaseIsFinal` therefore speaks of
  transfers only for the first start, and of confirmations always.
* An error of a value update is posted under the key of the discovery (302), which
  the library has no use for in that notification.

`AtMostOneJob` deserves a remark. It holds because of the defect that
`start_after_stop` shows: no job ever runs in a scope that was stopped, so the
cancelled job that survives `amOtaStop` for a while meets no other. The obvious
repair, cancelling only the job, is the mutant `StopCancelsJobOnly`, and it breaks
`AtMostOneJob`, `OwnStream` and `KeepsPromise`: a start right after a stop then runs
beside the old job, which reads the new job's stream.

### Conditions in the properties

The system invariants are conditional on `AllAnswered`: every packet so far had
its answer awaited and received. Without it they are false, as `verify_edge` shows;
with it they are not empty, as the mutants confirm. `InStep`, `OneAnswerAtMost` and
`ProgressInRange` also leave out jobs for which a stop has begun (`NotStopped`), and
what they say of `offset` those whose reads may have thrown (`ReadsWell`).
`OneAnswerAtMost` counts the answers that let the service go on; refusals of
frames may be there beside one, but not when the next packet begins. A file longer than
its header declares is sent to its end, so that `ProgressInRange` excepts it.
`UpgradeCompletes` speaks of an upgrade that has posted its header to a device with
no part of the image. The conditions of the iOS properties are described above.

### Fairness

`FairSpec` of `AmotaService`: weak fairness of the main thread's continuation and of
every job's steps. The looper runs what is posted to it, `Dispatchers.IO` runs every
runnable coroutine, and both `tryAcquire` calls return within their timeout. Nothing
is assumed of the callers, so `JobTerminates` holds even when nobody answers.
`FairSysSpec` adds that links deliver what they do not lose. `FairSpec` of
`IosOtaService` assumes that the main queue runs its callbacks and both closures;
`FairSpec` of `AmotaEvents` that both message loops and the looper run. Neither
assumes anything of the application.

Deadlock is not checked in any run: services, system and channel rest when no
call comes and nothing runs, and the framing and numbers runs end with their
packet.

## 4. The proofs

The theorems hold for every value of the constants that satisfies the assumptions,
which TLC evaluates in the runs: `SizesAssumption` (sizes positive, CRC field
possibly empty), `ServiceAssumption`, `SystemAssumption`, `LibraryAssumption`,
`IosAssumption` and `EventsAssumption` (types of the constants; null is no file, no
peripheral, no stream), `FramingAssumption` (a packet's length fits its field), and
`BytesAssumption` and `TableAssumption`, described with their modules above. Every
invariant and every safety action property that a passing run checks is also proved.
In each module the first theorem below is the inductive invariant, from which the
others follow.

### AmotaService

| Theorem | States |
|---|---|
| `Invariant` | `IInv`, the inductive invariant |
| `TypeCorrect` | `TypeOK`; in particular permits never go negative |
| `SingleFlight` | `AtMostOneJob` |
| `StreamIsOwn` | `OwnStream` |
| `StopWakes` | `StopWakesJob`, which excepts the jobs in `late` |
| `StraysBounded` | `AtMostOneStray` |
| `EndsReported` | `EndIsReported` |
| `Implements` | `Spec => KeepsPromise`, the refinement of `AmotaOneUpgrade` |
| `WaitOnlyAtPacketEnd` | a frame that is waited for is its packet's last, for all packet lengths and payloads |

None of the safety properties is inductive alone. The argument:

* *Overlap.* A new job runs only if the scope is alive and the flag is clear.
  `FlagHeld`: in a live scope, while a job is in its upgrade, the flag is set,
  except while `amOtaStart` is about to set it or `amOtaStop` is about to cancel,
  and no start can begin there. `NotStarted` gives that job `n+1` is fresh.
* *Stream.* The field only ever holds the one running job or null, once jobs do
  not overlap.
* *Waking.* `SemaphoresPaired` says both fields come and go together, but for the
  statements in which a stop drops one after the other. Each is released just before
  it is dropped, so a job that blocks on it has a permit, and keeps it unless it
  takes it; if it does and comes back before the drop, it is in `late`. The other way
  for a job to be left with an old semaphore is a new start, and `SemaphoreHeld`
  excludes it while a job runs. `WaitsOnSemaphore` is the type of what a job blocks on.
* *Strays.* After the stop has cleared the flag it stays FALSE until the next start
  (`StopHolds`), so only a frame whose guard had passed before can go out, and when
  it is out no job is at that point (`StrayPassedGuard`), as there is only one job.
* *Types.* That `idx` stays a natural number needs `FrameInPacket`.
* *Reports* (`ReportInv`, on top of `IInv`). A job may end without a status when it
  finds the flag clear, so the question is who cleared it. A stop posts its own
  status, and cancels every job that is left (`ScopeCancels`); the other
  possibility is a job that overtook `amOtaStart`, and `RunsAhead` shows that this one
  is not past its first frame, whose failure is reported (`INVALID_PACKAGE_LENGTH`).
  `ReadsFromStart` tells an incomplete header from an empty file.

`JobStepEffect` sums up what any step of a job may do to what the invariant speaks
of, so that the preservation proofs have a case for each action of the main thread
and one for all steps of a job.

The refinement is proved from the invariant. `Owner` is a choice, so `OwnerOfJob`
and `OwnerOfNone` first say what it is when a job is, or none is, in its upgrade:
with `AtMostOneJob` there is no other candidate. A start in a live scope maps to
`Grant`, in a closed one to `GrantNothing`; `StopCancels` maps to `Close` or, if the
scope is closed already, to a stutter; a job's step maps to `Finish` where it leaves
its upgrade, to `Stray` where it posts a frame after a stop, and to a stutter
elsewhere. That a stray frame finds the service closed is `StopCloses`: `otaJob` is
only null with the scope cancelled, or before the first start.

### AmotaSystem

| Theorem | States |
|---|---|
| `SystemInvariant` | `SysInv`, the inductive invariant |
| `SystemTypeCorrect` | `SysTypeOK` |
| `SuccessMeansVerified` | `SuccessIsVerified` |
| `StaysInStep` | `InStep` |
| `AnswersPairUp` | `OneAnswerAtMost` |
| `ProgressBounded` | `ProgressInRange` |

They hold for packets of any number of frames, any files, any number of losses and
starts. The invariant has four parts.

* `ServiceInv`: `IInv` and `ReportInv` hold here too, as each step of the system is
  one of the service or leaves it alone. `OwnsFields` and `WaitsOnOwn` add that,
  before a stop, the semaphore fields and what the job blocks on are its own.
* `LinksOK` and `DeviceOK`: types, and that a frame on its way starts in its packet.
* `InPhase`: a packet goes through four stages, and each says what the wire, the
  answers, the permits, the device and the stream are. `Unanswered`: its frames are on
  the wire in order and without overlap (`OnWire`), no answer grants it, the device is as
  before. `Answered`: the device has taken it, so all frames were written and the
  wire is empty; its answer is the last on its way, or lost, or in the
  semaphore. `Settled`: the job has taken that. `AtRest`: nothing of it is left. The
  key step is that a device which gets the last byte of a packet got all of
  them, in order, since a frame that does not continue what it has is refused
  (`rx`): so one acceptance at most, and after it no frame that could be refused.
  A wait that ends by timeout, or is left out, makes `AllAnswered` false for good.
* `QuietBetween` starts the next upgrade with empty links; that no frame goes out
  before `amOtaStart` has set the flag is `RunsAhead` again. `KeepsVerified` carries
  the verified image through a stop after the verify answer was taken: such a
  stop lets the job report its success, and the rest of the invariant, which
  ends with a stop, says nothing then.

The stages hold while `Clean`: all answers were received and no stop has begun.

### AmotaFraming and AmotaBytes

| Theorem | States |
|---|---|
| `FramingInvariant` | `FramingInv`, the inductive invariant |
| `FramingTypeCorrect` | `TypeOK` |
| `NoWaitBeforeTheEnd` | `NoWaitMidPacket` |
| `CompleteOnce` | `CompleteWithLastFrame` |
| `BytesInvariant` | `BytesInv`, the inductive invariant |
| `BytesTypeCorrect` | `TypeOK` |
| `SumsAgree` | `CrcAgrees` |
| `PacketsReadable` | `DeviceReadsPacket` |
| `AnswersDecoded` | `AnswerDecoded` |
| `ProgressExact` | `ProgressIsExact` |

*Framing.* As long as something is left, nothing was waited for and the receiver's
packet is not complete; the length field's two bytes give back the length
(`AnnouncedIsLength`), so that the receiver's count meets it with the last frame.

*Checksum.* A division step of the polynomial is linear over exclusive or
(`DivideLinear`), and eight steps of a word whose lowest byte is zero only shift it
(`DivideShifts`). So the remainder of a word is that of its lowest byte, exclusive
or the rest shifted, which is what `calcCrc32` does once the table holds the
remainders of the 256 bytes. That is `TableAssumption`, a fact about 256 numbers that
TLC evaluates; that both sums then agree after every byte of any data is an
invariant (`Summed`), not an induction over the data.

*Packet and answer* are functions of what is sent and of the point the exchange has
reached (`Packed`, `Answered`), and the four bytes of a size or counter give
back the number, as the 32 bits are the digits of the four bytes.

*Counting.* The loop stays between the resume offset and the end of the file
(`Counting`). It needs that a device's counter below the size is not negative: a
negative one would count up from below zero. Up to `MaxExact` the product is below
2^31 and `Times100` is the product of the integers.

### AmotaEvents

| Theorem | States |
|---|---|
| `EventsInvariant` | `EventsInv`, the inductive invariant |
| `EventsTypeCorrect` | `TypeOK` |
| `EventsInOrder` | `InOrder` |
| `EarlyListenersHearAll` | `HearsAll` |

`Flow`: each listener's log, the handler's buffer, the messages and the looper are one
increasing stream, older to newer. `OneStream`: every listener is on the cached
stream, so that the handler is there exactly while somebody listens. `SinkFollows`:
once the pending calls are carried out, the sink is there exactly if the handler is,
although both sides change them at different times. `NothingBehindStart`: while an
early listener stays, no call follows the start, hence the sink stays, and each event
of the upgrade is heard or on its way (`NoneLost`); what is on its way is newer than
what was heard, so there is no gap.

### IosOtaService

| Theorem | States |
|---|---|
| `IosInvariant` | `IosInv`, the inductive invariant |
| `IosTypeCorrect` | `TypeOK` |
| `NeverCrashes` | `NoCrash` |
| `TransferRequested` | `TransferIsRequested` |
| `ResetsOwnUpgrade` | `ResetIsForOwnUpgrade` |
| `ReleasedForGood` | `Spec => ReleaseIsFinal`, an action property |

While `calm`, in an upgrade that was started in quiet and that no call comes in the
middle of, an upgrade is at one stage at a time
(`OneAtATime`): connecting, one callback or answer in the main queue, confirmed with
the first closure due, or checked with the second closure due; the shared
properties are those of the request in all of them (`PropsOfRequest`), and from the confirmation on the flag is set, which keeps every
other start out. The delayed closures therefore find what they were scheduled for.
A break of a link only removes messages (`LostQueue`). `ReleaseIsFinal` is
about the states in which `calm` does not hold, and rests on three parts that hold
always: no observer is registered after a release (`Registered`), nothing has
happened before the first start (`NothingYet`), and before a second start a closure
that is due finds no file once the flag is clear (`FileWithFlag`).

### Only model-checked

The liveness properties `JobTerminates`, `PacketDelivered`, `UpgradeCompletes`,
`UpgradeEnds` and `AllArrive` are out of the prover's reach, and so are the
counterexamples of the four runs that must fail, which need no proof. The entries
of the CRC table are evaluated by TLC.

## 5. Not modelled, and the plan

Not modelled:

* the routing of method names on both platforms and the choice of platform in
  `flutter_ezw_amota_method_channel.dart`: each is one `when`, `switch` or
  conditional without state;
* the inside of `amOtaApi`, a binary, beyond its headers; its reset command and
  `vGetFwHeaderInfo`, which the plugin does not use;
* late reads of unsynchronised fields on Android beyond sequential consistency, see
  above;
* the example application, the build files, logging and formatting.

Still to do, in this order: an abstract specification of what the device and the
application may rely on of an upgrade (an image is begun, grows from its first byte,
is checked, then reported) and the proof that `AmotaSystem` implements it while every
packet is answered; one of the event channel for its `early` listeners, a queue
that is read in order.
