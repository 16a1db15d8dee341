# motorbridge in TLA+

Models of motorbridge's control core, of its drivers, of its gateway and of its command-line programs,
checked with TLC and, where it matters most, proved with TLAPS. `PROJECT.json` is the machine-readable
companion: it maps every definition to the lines it translates, and lists the runs, the hazards, the
findings and one seeded bug (a *mutant*) per checked property. Paths below are relative to `src/`.

## 1. The system

motorbridge drives motors of several vendors over a CAN bus. A program (CLI, C ABI, Python or C++
SDK, WebSocket gateway, ROS 2 node) opens a *controller* for one bus, adds *motors* to it and calls
methods on them. A background thread receives frames and routes them to the motors, which keep the
latest answers in caches or queues; a method that needs an answer sends a frame and watches the cache.

| part | state it keeps | operations | what makes it hard | what makes it correct |
|---|---|---|---|---|
| `motor_core/src/controller.rs` `CoreController` | device map, `polling_active`, thread handle, three locks, transmit gap | `add_device`, `poll_feedback_once`, `enable_all`, `disable_all`, `shutdown`, `close_bus`, `Drop`; the polling worker | a thread started and joined by other threads; two ways to receive; a failure in the middle of a bulk operation | one worker at a time, none after drop; a frame is handled once, by a device that accepts it; shutdown disables before it closes; calls return |
| `dm_device` with its C++ shim | the handle kept for all buses of an adapter, its channel, a bounded queue | open, send, recv, shutdown, the library's callback | a handle shared by buses; a callback thread between the locks; dropping the oldest frame | a bus sends and hears on its own channel, and misses only what a full queue pushed out |
| `TxPacedBus`, `socketcan`, `socketcanfd`, `pcan`, `dm_serial` | time of the last send; a descriptor; a byte buffer | open, send, recv, shutdown | elapsed time; resynchronisation of a byte stream | minimum gap; no frame misread |
| `motor_vendors/damiao` | answer caches with time stamps, `disabled_hint` | enable, disable, zero, commands, register reads and acknowledged writes, `ensure_control_mode`, `store_parameters` | lost, late and repeated answers; two nested retry loops under a total deadline; a software belief about the motor | Ok means the motor obeyed; a read is not older than its request; zero and flash only when disabled; no mode change under a moving command |
| `motor_vendors/robstride` | sequence numbers of answers, one pending parameter, cached mode, last gains | acknowledged commands tried per candidate host, parameters, `ensure_control_mode`, `controlled_stop` | any status acknowledges; one pending slot; a cached mode; firmware that ignores a mode under torque | Ok means obeyed; a reply is filed under its own parameter; a verified mode holds; a stop holds the motor |
| `motor_vendors/cyberbeast` | descriptor buffer, endpoint map, parameter caches, warm-up flag, ranges | connecting with probes, descriptor transfer, segmented reads, acknowledged writes, warm-up | holes, residue and restarts of a transfer; answers that carry no offset | an assembled descriptor is exact; one mishap is recovered from; every transfer ends |
| `motor_vendors/robstride_cia402`, `robstride_mit`, `hexfellow` | queue of replies | SDO or MIT exchange, DS402 enable sequence, mode changes and commands under it | replies matched by index only, in one queue for all callers; a tolerated disable | a reply belongs to its request; Ok means done; no target reaches a drive enabled in another mode |
| `motor_vendors/hightorque`, `myactuator` | last status | send one frame, wait for one status | little | routing (see the controller) |
| `motor_abi` | controller and motor handles behind mutexes, a per-thread error | C functions | binding to a vendor, order of frees | calls on a handle are serialized |
| `integrations/ws_gateway` sessions | per session: target, controller, motor, active command, two streams | JSON messages, a ticker | half-made connections, a command re-sent by a ticker, retargeting | a stopped motor stays stopped; nothing armed for a motor the session left; a scan has the bus to itself |
| `motor_cli`, and the gateway's scan, `set_id`, verify | the bus, registered motors, hits | one mode per run | a step of many failing; ids changed by unacknowledged writes; Ctrl-C anywhere | a scan tells the truth; a motor is left as asked; verified means moved |
| Python and C++ SDKs, ROS 2 bridge | wrappers | one call at a time | ownership and close order | that of the ABI |

**Interaction.** Vendor motors implement `MotorDevice`; `CoreController` calls `accepts_frame` and
`process_feedback_frame` from whichever thread received a frame, and `enable`/`disable` from the bulk
operations. Vendor methods send on the shared `Arc<dyn CanBus>` without asking the controller. The ABI
takes the controller's mutex for the length of a call (`docs/en/architecture.md:109-114`), so calls on
one controller do not overlap, while motor handles have mutexes of their own. The gateway holds one
controller and one motor per WebSocket session, each session being one task; its scans and id changes
open controllers of their own. The buses a process opens on one DM_Device adapter share one handle.

## 2. Modules

| module | models | role |
|---|---|---|
| `CoreController` | `controller.rs` | detailed specification, one action per atomic piece of code |
| `FeedbackDelivery` | what routing promises | abstract specification, which `CoreController` implements |
| `DamiaoMotor` | `damiao/src/motor.rs` | a driver and the motor behind a lossy bus |
| `RobstrideMotor` | `robstride/src/motor.rs` | the same |
| `SdoMotor` | the motors of `robstride_cia402`, `robstride_mit`, `hexfellow` | the three drivers that share the idea of a reply queue |
| `CyberBeastMotor` | `cyberbeast/src/motor.rs`, `protocol.rs`, `controller.rs` | a driver and a device that streams a descriptor |
| `DmAdapter` | `dm_device.rs`, `dm_device_shim.cpp` | the shared handle, its callback and its users |
| `GatewaySession` | session, router and handlers of the gateway | detailed specification of a session |
| `Command` | `motor_cli`, and `commands/scan.rs`, `commands/vendor_ops.rs` of the gateway | programs as sequences of steps, and an interpreter of steps |
| `MC...` | | call sets, set-ups and frames for TLC |
| `...Proofs` | | theorems about the module of the same name |

The drivers are modelled each with its own motor, beside `CoreController` and not on top of it: what a
driver needs of the controller is that frames are handed over once and in order. `DeliversEachFrameOnce`
says the first; of the second, `CallersKeepOrder` says that it can only fail where a worker is overtaken
by somebody who receives beside it, which the drivers' models leave out: each driver's
`ProcessFeedbackFrame` is a step that hands over the oldest frame. `Command` in turn takes a driver's exchange as one step, which
is what `OkMeansMode`, `OkMeansObeyed`, `OkMeansDone` and `OkMeansExchanged` justify.

### CoreController

A *caller* is a thread inside a method (`pc`, `method`); a *worker* is a polling thread (`wpc`).
A step is the code between two points where another thread can look: lock, atomic access, receive,
device call. The methods' code becomes these actions:

| code | actions |
|---|---|
| `add_device`, `start_polling_if_needed` | `AddDevice`, then `PollingAlreadyActive` or `SpawnWorker`, `StoreHandle`. The last two are apart because the thread exists, and `polling_active` is set, before the handle is stored |
| worker loop | `WorkerCheck`, `WorkerPop`, `WorkerIdle`, `WorkerRoute`. `recv_lock` is free again before the frame is routed |
| `poll_feedback_once` and the drain of a bulk operation | `PollFeedbackOnce`, `DrainPop`, `DrainRoute`, `DrainEnd`, `recv_lock` held throughout |
| `enable_all`, `disable_all`, the disabling part of `shutdown` | `BulkDeviceOp`, `BulkStep`, `BulkFails`: ids ascending, first failure ends the loop |
| `stop_polling_thread`, `close_inner`, `Drop` | `StopFlag`, `NothingToJoin` or `TakeHandle`, `JoinWorker` (the mutex is held across the join), `CloseBus` |

Frames are numbers in order of arrival, so the receive queue is an interval and a hand holds a number.
What a frame contains is reduced to whether it was received or is an echo, and which ids accept it;
*which* device of several takes it is open, as it is in the `HashMap`. Sleeping is left out: the worker
may receive nothing at any time (`WorkerIdle`). `enabled` is what the motors were last told.
`handled`, `calledAt` and `abandoned` are history. `Serialized` is the ABI's controller mutex. `Faults` names the calls that
may fail: a receive, a device's handler, its enable or disable, the bus's shutdown. Every instance has the
polling thread that production always starts; `PollingMode::Manual`, which only the crate's tests build, is left out.

`FeedbackDelivery` has pending frames and delivers or discards each, without threads. The refinement
maps `pending` to the queue and the frames in hand: `Queued \cup InHand`.

### The drivers: DamiaoMotor, RobstrideMotor, SdoMotor, CyberBeastMotor

The four are built alike. The motor's own state, as far as the driver's promises are about it, comes
first (enabled or not, mode, whether the command in force is still); the answers on their way are
`toHost`; then the driver's caches, and the call each thread is in. A frame takes effect when it is sent
(`Sends`), or it is lost, or its answer is; the polling thread files one answer per
`ProcessFeedbackFrame`. Time is abstract: a wait may time out whenever what it waits for has not come,
and `Late` (a set-up's `late` in `CyberBeastMotor`) says whether an answer may still be on its way then.
What callers invoke, and what the motor is like, are *set-ups* chosen at the start, so that one run
covers many small situations instead of one large one.

*DamiaoMotor.* `fresh[c]` is the set of kinds of answers processed since the caller's `request_at`,
which is what the code's comparisons of time stamps tell. The total deadline of `ensure_control_mode`
may pass at any look (`NoTimeLeft`). Register values are CTRL_MODE's only; numbers in commands are
reduced to *still* or *moving*. Order matters: a read takes its `request_at` *before* it sends
(`ReadRequest`), a write *after* (`WriteRequest`, then `ArmAckWait`), and the hint is stored after the
frame is out (`Switch`, `SetHint`).

*RobstrideMotor.* A call is a list of exchanges (`Script`), each a frame and what acknowledges it: any
status after the sequence number was taken (`TakeSequence`), a value in the pending slot, a ping. A
timeout goes on with the next candidate host (`NextHost`). `ensure` is the loop of
`ensure_control_mode` with its look at the cached mode (`Look`). `stubborn` is firmware that ignores
`run_mode` while torque is on, the reason the code disables first.

*SdoMotor.* A call is a list of exchanges (`Script`). An exchange names the frame, the key its reply is found by, the sort of reply accepted and
whether a failure is tolerated. `PopReply` takes the first reply with the key and turns the queue by the
ones before it, as `pop_matching_sdo_reply` does. HexFellow's commands write the target before the
limit that goes with it, each word an exchange of its own (`HexfellowCommand`). The drive is DS402's state machine as far as the
sequences depend on it (`PowerAfter`).

*CyberBeastMotor.* `crossed` records what a request met on the wire: an answer about its endpoint to an
earlier call, or to an earlier request of the same call. Descriptor bytes are counted in chunks of one frame; the device streams from the
chunk asked for and begins anew at each request; there are two versions of different lengths with a
common beginning, so that a mixture is not the same as either. `Reflash` changes the version under a
transfer. Counters (`tries`, `requests`, `restarts`, `stuck`) are the code's, compared with its
constants, which are parameters here.

### DmAdapter

A step is the code between two of the shim's locks. Opening a bus on the adapter for the first time
probes, registers and keeps the handle; later openings select their channel, empty the queue and
register again. The callback looks the handle up, reads its channel without a lock and files the frame,
and anything may happen in between. `Exclusive` says that a bus is opened only when the others are
closed. The model is of one adapter. One of another type has a handle, a queue and a registry entry of
its own, and the two meet only in `g_persistent_handle`: opening the other one puts its handle there
(`Displace`), and from then on an opening of this adapter finds no handle of its type and tries to make a new
one (`FirstOpen`, `Probe`), which the library is assumed to refuse, the adapter being open (`device`). `got`, `sentOn`, `cleared`, `opened`, `arrived` are history.

### GatewaySession

`sess[s]` is `SessionCtx` with the switches of the two streams. A message is handled in one step, since
a session is one task and nothing it does is seen by others before it is over; scans are the exception,
they run in a task of their own between `StartScan` and `EndScan`. `Connect` is the set of contexts it can
leave: nothing, or for Damiao a controller without its motor (the catalogue or `add_motor` may refuse
it), or both. Motor commands succeed or fail. A scan request has a form: the vendor of the message and those of
its items, any of which may be left out (`ScanForms`); what is scanned and what the session releases first are
computed from it as the code does, each in its own way. `stoppers` is history: the sessions that have stopped
the motor a session drives, since that session last asked to move it.

### Command

A program is the sequence of steps that a mode of a vendor's CLI, or a request to the gateway, walks
through: open, register, ask, tell, close, install the signal handler. A step says whether its failure
ends the program (`must`, the code's `?`), whether it is passed over, or where a sub-scan resumes
(`Rescue`). `Programs` builds the sequence from the set-up, one operator per mode and vendor; the
actions interpret it: `Execute` and its companions answer, fail or lose the frame of the step at `pc`,
`Interrupt` is Ctrl-C. `motor` holds ids, saved ids and power of each motor on the bus.

## 3. What is checked

| run | question | instance |
|---|---|---|
| `core_serial` | one user of the C ABI calling everything in any order, while anything fails: one worker, what a shutdown leaves enabled, quiet close, order kept by a shutdown, every call returns, the queue is drained | 1 caller, 2 motors, 2 workers, 2 frames, every fault, weak fairness |
| `core_pollers` | threads that poll beside the polling thread: delivery once, who may reorder, what a poll may leave | 2 unserialized callers that add and poll, 1 worker, 2 frames, every fault |
| `damiao_mode` | a reader beside a thread that writes and switches modes: Ok and reads mean what they say | 2 callers, 2 modes, 1 loss, failing sends |
| `damiao_guards` | zero, flash and mode switch against the motor's state, and the end of both retry loops | 1 caller, 4 modes, no loss, weak fairness |
| `robstride` | does Ok mean obeyed, a verified mode hold, a read return its own parameter, a stop hold the motor, a call return | 22 set-ups, 2 hosts, 2 attempts, 1 loss, weak fairness |
| `sdo` | does Ok mean done, a target meet its mode, an undisturbed call succeed beside another, a status be fresh, a call return | 13 set-ups of the three drivers, 1 loss or refusal, 1 unasked report, weak fairness |
| `cyberbeast` | is the endpoint map whole, do Ok and errors mean what they say, does every transfer end | 14 set-ups, 1 loss or reflash, late answers, weak fairness |
| `gateway_one` | one session, every message in every order with every failure: what stays armed, what is connected | 2 motors, 2 buses, 3 kinds of vendor, every form of scan |
| `command` | every command line and gateway request of the set-ups: what is reported, what is touched and what is left behind | 155 set-ups on 2 motors, 2 mishaps, Ctrl-C anywhere |
| `dm_adapter` | two controllers in turn on a two-channel adapter, another adapter opened at any time | 3 openings, 4 frames, queue of 2 |
| `damiao_scan_fallback` | is a motor found that reads no registers | **violated** |
| `dm_adapter_shared` | two controllers at once on the adapter | **violated** |

All others hold. The two violated runs, whose entries in "findings" quote the line that promises otherwise:

* `damiao_scan_fallback`: a candidate id is registered at the first of its hints, so every later
  `add_motor` of it is refused (`motor_core/src/controller.rs:67`) and `continue` at
  `motor_cli/src/damiao_cli.rs:344` passes over the other hints and the feedback fallback.
* `dm_adapter_shared`: a second bus sets the channel of the one handle
  (`motor_core/src/dm_device_shim.cpp:244`), so the first one's frames leave on the other channel.

**Six further configurations** are kept beside the runs, each with the module whose property it shows **violated**
(`tlc -config <file>.cfg <module>`). They bound what the passing runs say, and section 5 tells what the code does in each.

| configuration | module | property | question |
|---|---|---|---|
| `CorePollBesideWorker.cfg` | `MCCoreController` | `PollSeesEarlierFrames` | has a poll that returns seen every earlier frame, beside a worker |
| `GatewayStop.cfg` | `MCGatewaySession` | `StopEndsDriving` | does a stop in one session end another's driving |
| `GatewayScan.cfg` | `MCGatewaySession` | `ScanHasTheBus` | does a scan for Damiao have the bus to itself |
| `CyberBeastLate.cfg` | `MCCyberBeastMotor` | `ReadIsWhole` | is a read whole that asks again while an answer is late |
| `CyberQueries.cfg` | `MCCommand` | `NoStopIsSent` | do CyberBeast's scan, status and monitor stop nothing |
| `GatewayStore.cfg` | `MCCommand` | `StoreIsSaved` | is the gateway's verified and stored id change saved |

**What the properties say** is in the comment before each. Seven are worth reading with their exemptions.
`ScanMissesNone` does not promise that a Damiao motor is found under its own id where ids share their last
four bits (`Unmistakable`), for which the code cannot do better, nor that a gateway RobStride scan goes on
to further hosts after its first hit; and by `ReportsAreReal` a DM_Device scan may report an id that only
shares these bits, or its feedback id, with a motor that is there (`StandsFor`).
`TouchesOnlyItsOwn` exempts what `Disturbed` lists: a RobStride scan without an answer on any host id pulses every id,
a CyberBeast command line that looks ends in a shutdown, which may stop a motor but start none (that it stops any is what
`CyberQueries.cfg` shows), the gateway's CyberBeast scan starts and stops every id, and MyActuator's status, version and
mode query release the brake and then shut the motor down.
`LeavesAsAsked` is not about MyActuator, nor about `--loop 0`, with which a mode that loops sends nothing.
`VerifiedMeansMoved` promises, whoever made the change and whatever was lost, that what is saved is the ids from before or
the new ones; that it is the new ones it promises for command lines that lost nothing, as for the gateway it is false (`GatewayStore.cfg`).
`ShutdownDisablesAll` leaves a shutdown in which a device fails the devices from that one on, which the code abandons, and no other.
`OkMeansExchanged` exempts a call that sent a request while an answer about its endpoint was on its way (`crossed`), and
nothing else: late answers, failing sends and absent devices are among its set-ups.
`CallersKeepOrder` and `PollLeavesOnlyTheWorkers` exempt what the worker holds, and only that.

**Bounds.** Two motors are the fewest for which order (bulk operations), contention (a frame both
accept) and abandonment (a failure before the last) differ. Two workers are the fewest for a restart
that overlaps. Two frames show a reordering: one in a hand, one behind it. Retry bounds of
the drivers are 2 or 3 instead of the code's larger numbers: first, repeated and exhausted attempts all
occur. `MaxLost`, `MaxMishaps`, `MaxAnswers`, `MaxReplies`, `MaxReports`, `MaxFrames` are guards of the
sending, losing or arriving action; a full `toHost` delays a sender, which only removes late answers,
not orders of events. One mishap anywhere in a call is where the promises differ, as two may hit the
first try and its repetition; `Command` allows two, as it has programs of several acknowledged steps.
`Limit = 2` in place of 512 makes the adapter's queue overflow with four frames. `Workers` bounds the
spawns in a behaviour (one in `core_pollers`, where no caller stops a worker); once all are used `SpawnWorker` is disabled, a caller then waits in `add_device`
holding nothing, and `EveryCallReturns` is unaffected in `core_serial` because the instance registers
two motors and so starts at most two workers. `dm_adapter` uses the symmetry of its users, with safety
properties only; no other run uses symmetry, liveness or ordered ids forbid it.

**Deadlock.** The runs that switch the deadlock check off are those whose system may rightly stop:
the two of `CoreController` (after drop, or when every motor is added), `gateway_one` (with the session
ended), `dm_adapter` and `dm_adapter_shared` (every opening used). In the drivers a thread can always
begin another call, and `Command` has `Done`, so there the check is on.

**Fairness.** `CoreController!Fairness` is weak fairness of each thread's own steps: the OS scheduler
runs runnable threads, `std::sync::Mutex` is held for bounded work only, and the backends' `recv` has a
timeout. No caller must call, no frame must arrive, and a receive may fail every time: `QueueIsDrained` is
about behaviours in which it does so finitely often. The drivers' `Fairness` is the same for the
callers' steps and the polling thread; a motor owes nothing, not even an answer (in `CyberBeastMotor` a
device that has begun to stream goes on). `EveryCallReturns` then says that the retry loops end.
`GatewaySession`, `Command` and `DmAdapter` have no liveness property and no fairness.

**Seeded bugs.** Each property has a mutant in the module it is about, marked `mutant of` there: a lock
not taken, a join skipped, a time stamp not compared, an abort taken for success, a hole padded, a queue
not emptied, the old ids used after they were changed.

## 4. What is proved

Every theorem is for all values of the constants, under the module's named assumption
(`CoreAssumption`, `DamiaoAssumption`, `RobstrideAssumption`, `SdoAssumption`, `CyberBeastAssumption`,
`AdapterAssumption`, `GatewayAssumption`, `CommandAssumption`: types, finiteness of `Motors`, distinctness
of the special values, and for `Command` that every set-up is one the programs accept, `Accepted`: a mode of its vendor,
at least one host id to try and ids that are distinct, as a range gives them, and that a Damiao scan has at least one
model to try) and the hypotheses given here.

| theorem | of | hypothesis | argument |
|---|---|---|---|
| `TypeCorrect`, `DriverTypes`, `CallsHaveTypes`, `RepliesHaveTypes`, `MotorHasTypes`, `AdapterTypes`, `SessionTypes` | each module but `Command` | none | `TypeOK` is inductive: one step per action |
| `SerializedOneWorker` | `CoreController` | `Serialized` | `LifecycleInv` |
| `SerializedClosesQuietly` | `CoreController` | `Serialized` | `ClosingInv` on `LifecycleInv` |
| `SerializedShutdownDisables` | `CoreController` | `Serialized` | `DisablingInv` on `LifecycleInv` |
| `FeedbackIsDeliveredOnce` | `CoreController` | none | `FrameInv` and the refinement |
| `CallersRouteInOrder` | `CoreController` | none | `NewestInv` on `FrameInv` |
| `PollLeavesNoCallersFrame` | `CoreController` | none | the same |
| `SerializedShutdownOrder` | `CoreController` | `Serialized` | the same with `LifecycleInv` and `ClosingInv` |
| `WritesAreGuarded` | `DamiaoMotor` | `Orderly`: serialized calls, motor disabled at first, nothing lost, answers not late | `GuardInv` |
| `OkIsTheMode` | `DamiaoMotor` | answers not late; serialized calls, or `OneWriter`: one thread writes modes | `WriterInv` |
| `ReadsAreFresh` | `DamiaoMotor` | the same, and `OneGetter`: one thread reads the mode | `GetterInv` |
| `SwitchesAreStill` | `DamiaoMotor` | `Careful`: serialized calls, nothing lost or refused, no bare write of the mode | `StillInv` |
| `OkIsObeyed`, `VerifiedIsTrue` | `RobstrideMotor` | `OneThread`: one caller, answers not late, no active reports | `CallInv` |
| `ReadsAreItsOwn`, `StopsHold` | `RobstrideMotor` | `OneReader`: answers not late; the thread that gets or stops is the only one that reads | `ReadInv` |
| `OkIsDone`, `TargetsFit`, `IntactCallsSucceed` | `SdoMotor` | `Sharing`: replies not late, distinct threads wait for distinct keys; `Offered`: nobody calls a method the MIT driver lacks | `CallInv` |
| `StatusIsFresh` | `SdoMotor` | `Sharing`; `ServiceObjects`: not the MIT driver | `CallInv` |
| `MapStaysWhole` | `CyberBeastMotor` | the device is not reflashed (`[][version' = version]_vars`) | `WholeInv` |
| `OkIsExchanged` | `CyberBeastMotor` | `Apart`: distinct threads exchange parameters on distinct endpoints, and `narrow` is the one written | `StraightInv` |
| `MishapIsRecovered` | `CyberBeastMotor` | `Apart`, `OneLoader`, `Served`, `Persists` | `RecoveryInv` on `ParamInv` |
| `MapSurvivesReflash` | `CyberBeastMotor` | the same; what it states is about set-ups where answers are not late, sends do not fail and the device is there, with at most one mishap | `MapInv` on `RecoveryInv` |
| `OneBusHearsItself` | `DmAdapter` | none (the property itself is about `Exclusive` use) | `OrderInv` |
| `OneBusMissesOnlyTheOldest` | `DmAdapter` | none (the same) | `MissInv` on `OrderInv` |
| `OneBusSendsOnItsChannel` | `DmAdapter` | `Exclusive` | `OrderInv` |
| `ConnectionMatchesTarget`, `ActiveMatchesConnection` | `GatewaySession` | none | `CoherentInv` |
| `OwnStopIsFinal` | `GatewaySession` | none | the property is inductive on `CoherentInv` and `TypeOK` |
| `InterruptsCleanly` | `Command` | none | `CatchInv` |
| `ChangesAreVerified` | `Command` | `OneMotorPerId`: two motors of a protocol do not share an id | `IdInv`, `CliInv` and `SavedInv` |
| `CommandsDoAsAsked` | `Command` | none | `AskInv` on `AloneInv` |
| `OthersAreLeftAlone` | `Command` | none | `AloneInv` |
| `QueriesLook` | `Command` | none | `AloneInv`, for scans `ScanInv` and `PulseInv`, for CyberBeast command lines `RestInv` |
| `OnlyItsOwnTouched` | `Command` | none | the two before it |
| `ReportsAreTrue` | `Command` | none | `HearInv` |

The hypotheses are about constants, and the instances of section 3 are among those that meet them:
`damiao_mode` `OneWriter` and `OneGetter`, `damiao_guards` `Orderly` and
`Careful`, `robstride` `OneReader`, `sdo` `Sharing` and `Offered`, `cyberbeast` `Apart`,
`OneLoader`, `Served` and `Persists`; `core_serial`
is `Serialized`, `dm_adapter` is `Exclusive`. `robstride` also has set-ups with two threads and
with reports, which `OneThread` leaves out, and `sdo` has MIT set-ups, which `ServiceObjects` does.

`OneMotorPerId` is evaluated with every run of `MCCommand`.

The type theorems are what the other proofs rest on; apart from `CoreController`'s, whose mutant shows
that a frame popped twice breaks it, `TypeOK` is proved and not repeated in a run.

*`LifecycleInv`.* "At most one live worker" is not inductive: the flag may be clear while a worker still
runs. The invariant says that every live worker is accounted for, either by the stored handle or by the
single caller that has spawned or is joining it, and that a clear flag means no worker unless that
caller is stopping it; so a spawn, which needs the clear flag, finds none. `DisablingInv` adds that the
motors a disabling loop has passed are off, and at the close all but those it abandoned, which needs that nobody else is inside a call (`OthersIdle`).
`ClosingInv` says that the flag stays clear from the stop to the end of a close: past the join that means
no worker, so none receives from a backend that is shut down.

*`FrameInv`.* No two threads hold the same frame, held and queued frames have been given to nobody, and
a held frame is not an echo. Every step then pops, routes or leaves frames alone (`StepKinds`), and each
kind maps to a step of `FeedbackDelivery`: a pop of an echo to `Discard`, a route to `Deliver` or
`Discard`, another pop to a stutter. Locks are not used: delivery once holds for any interleaving.

*`NewestInv`.* Order does use them. A caller that has a frame to route holds `recv_lock` (`RouteHoldsLock`), and whoever pops
holds it too, so of the callers one at most has a frame in hand, it is the newest popped (`CallersNewest`), and nothing
newer is cached (`CachedPopped`). So a caller's route overwrites older state only, and a poll that finds the queue empty, lock
in hand, finds no frame in another caller's. Workers are in none of these facts, as they route without the lock: of them the
theorems say that they alone go back. From shutdown's join on there is none (`ClosingInv`), hence `SerializedShutdownOrder`.

*`GuardInv`.* The hint is right, except between the frame of `enable` and the store that follows it;
the places from which zero and store are sent are reached only with the motor off; while a store waits
for a status, every status in the queue, and the cached one if it is fresh, is true. The hypotheses
cannot be dropped: a lost disable, a late status, a second caller or a motor enabled at the start each
make the host's belief wrong.

*`WriterInv`.* While a thread writes a mode, its place in the call bounds what the acknowledgements, the
replies and the cached mode can be: between the request and its answer there is at most one
acknowledgement under way, and it is for the value written. The readers' requests add replies that
tell the motor's mode. A second writer's acknowledgement would satisfy the first one's wait, and so
would one that is late; hence `OneWriter`. `GetterInv` says the same of the reply a reader waits for:
what is on the wire or cached as fresh is a value of the register since the request. A second reader's
earlier request may be answered after this one's was sent, with a value from before it; hence
`OneGetter`.

*`StillInv`.* The channels whose command has not been overwritten are among those still on the list that
`prepare_for_mode_switch` walks; when the list is done there are none, and none starts to move until the
write. A lost or refused clearing frame leaves its channel moving, as the code ignores it.

*`CallInv` of `RobstrideMotor`.* Any status acknowledges, and a value is told from an older one only by the slot it is
filed in, so the invariant says where each answer in the queue can come from: a status means that the
motor obeyed a frame of the call in progress (`StatusIsObeyed`); during `ensure_control_mode` there is
no value in the queue or the slot other than the reply to the read being awaited (`EnsureHolds`). The
number of candidate hosts, of attempts and of losses is arbitrary. `OneThread` cannot be dropped: the
status caused by another caller, a report, or an older answer satisfies the wait just as well.

*`ReadInv`.* A value on the wire was asked for by a thread whose methods read (`ForReaders`), and for
such a thread it is the answer to the read it waits for, with a mode the motor had since. Other threads
may command, and cause as many statuses as they like, without touching the slot `pending`. A second
reader overwrites the slot, and then a reply is filed under the wrong parameter or not at all.
`controlled_stop` reads the mode and commands it to hold; while no call overlaps it, the mode
read is the mode commanded, and the command arrives before the call returns (`AloneIsAlone`).

*`CallInv` of `SdoMotor`.* The drivers match replies by their index only. If the methods of different
threads wait for different keys (`KeysOf`), each reply on the wire or in the queue is the answer, or the
refusal, of the exchange its caller is waiting for (`RepliesOwned`), it is the only one under that key,
and no step of another thread takes it: `pop_matching_sdo_reply` puts back what it does not match. So a
reply found answers the request (`StatusIsFresh`), a call whose frames all arrived finds them
(`IntactCallsSucceed`), and what the exchanges done so far have achieved (`CallHolds`) is what is left
when the list of exchanges is empty (`OkIsDone`); a target is sent only with the mode set
(`TargetsFit`). An active report of the MIT drive is a reply nobody asked for, so the properties that
it could disturb are about calls without one (`reports = 0`). Two threads that both switch
modes would take each other's replies; the run `sdo` keeps to set-ups where they do not.

*`WholeInv`.* Every meta frame and chunk on the wire and in the stream is the device's, what is buffered
is a gapless beginning of its descriptor, and what counts as complete is all of it, whoever else
transfers at the same time.
With a reflash the invariant fails, but the property needs a second mishap to (`MapInv` below, section 5).

*`ParamInv`.* A parameter frame carries neither its offset nor the request it answers, so the
assembly of a segmented value rests on there being one request at a time. For the endpoint of a thread
that waits, there is one frame on its way at most; what has come is a beginning of the value; and if a
frame is on its way, it is the next one, was asked for, and is not there yet (`Lacks`, `HasSoFar`). Asking again
is sound because the window has passed: the frame asked for before was lost, or it has come. When a
call ends, nothing about its endpoint is left on the way (`EndsQuiet`), which is what the next call
starts from. With two threads on one endpoint this is false (section 5). `StraightInv` keeps these facts of a call for as
long as none of its requests has crossed an answer about its endpoint, which is when they fail: with answers that may be
late a call starts from a wire that is not quiet, and its own repetition may meet the answer it repeats.

*`RecoveryInv`.* That one mishap is recovered from counts what every loop has left against what went
wrong. A transfer is in one of four states (`LoadHolds`). `Clean`: nothing was lost, the frames on the
wire and in the stream follow each other without a gap or a repetition, and all the cache lacks is among
them (`Awaited`), so a quiet window cannot pass and the counters are those of the beginning. `Lossy`: a
request or a frame was lost; order is still kept, and either the transfer has asked once and a second
request brings the rest, or it has and the rest is coming. `Stale`: the device has another descriptor, its
stream is cut, and what arrives still tells of the one before. `Clash`: frames of the new one reach a
cache that holds the old; the versions differ in length, so the meta frame makes a conflict, the
conflict restarts the transfer, and the restart is the first. For an exchange (`AnswerInv`), an answer
that was not lost is in the cache or under way while the call waits (`Owes`), and after a loss a read or a
warm-up has asked a second time (`Held`). A warm-up takes the last answer for its own, so beside it
nothing else may be on the wire (`WarmWire`), which is why `OneMishapIsRecovered` exempts one that other
threads interfere with. The hypotheses, about set-ups with a present device, answers in time and sends
that succeed:

* `OneLoader`: one thread connects and loads. A second transfer empties the first one's cache.
* `Served`: `get_param_f32` is called on a four-byte endpoint, for it ends in an error on others whatever
  comes (`motor.rs:1134`), and a thread that warms up does not transfer the descriptor, as in the CLI
  (`cyberbeast_cli.rs:382`): a descriptor frame left over would overwrite that the probe was answered.
* `Persists`: at least two first requests, two requests without progress, two requests in all, two
  attempts of a read or a warm-up, and one restart. The code has 4, 3, 64, 200 ms / 50 ms and 2
  (`motor.rs:395`, `386`, `378`, `101`, `408`); with fewer, one mishap ends the call.

*`MapInv`.* While a transfer collects, and in the map that is kept, the bytes are one descriptor's, that of
before the reflash or that of after it: a transfer completes in each of the four states only with what
one version tells, because a mixed cache is in conflict and a conflict is never complete.

*`OrderInv`.* With one bus at a time the queue and what the user took from it are increasing in arrival
and, after the first, of the bus's own channel; the exception is the frame the callback may have held
while the bus was opened, and there is only one callback. `MissInv` adds that every frame of the channel
since the opening is queued, received, in the callback's hand, or was pushed out, and was then older than
all that is queued while the queue was full; a frame in hand is always the last one arrived.

*`CoherentInv`.* Without a controller there is neither motor nor armed command, the
controller's vendor is the target's, and what is armed is for the motor and the bus of the open
controller. `StopEndsOwnDriving` relates it to the history: every step that arms a command is a request for motion, which
starts the session's history anew, and every step that adds the session to it leaves nothing armed. It
holds for any number of sessions; what does not is that another session's stop ends this one's driving (`GatewayStop.cfg`).

*`CatchInv`, `IdInv`, `CliInv`, `SavedInv`.* What a program of `Command` does follows from its list of steps, which is
put together from pieces that depend on the set-up, some of them with `FlattenSeq`. Induction over data is
out of reach, but a least counterexample is not: `FlattenInSeq` takes the first prefix that is not a
sequence of the right steps, `FlattenExists` the shortest list for which the recursive function would
not exist. Then `CatchesFirst` says that no step of a CyberBeast loop before `Catch` touches a motor's
power, and `CatchInv` that without the handler the program has only gone through such steps. An id change
consists of steps that rename nothing but the motor with the old id, and only to the new one (`IdStep`);
so a motor that has the new id got it from the change and keeps it, and a hit with the new ids, or a check
the program went on after, means that such a motor exists (`IdInv`); that it is the one meant needs
`OneMotorPerId`. The command line ends at the first step that fails and assigns nothing after the store
(`CliShape`), so what was stored, if nothing was lost, is what was checked (`CliInv`). Of the gateway's change, too, the
store is the last step that assigns (`StoresLast`), so whatever is lost, what is saved is the ids from before or, once nothing is left to
assign, those the motor has (`SavedInv`).

*`AloneInv`.* Each program but a scan and an emergency stop is a sequence of `OwnStep`s: it opens the bus for its own
protocol, registers and tells only its own ids, and a query sends nothing that switches a motor unless it is one
of those that do. While a controller is open or a motor registered, it is of that protocol; so no frame
and no shutdown reaches a motor of another one. Every step of an interrupted or failed program is one of these.

*`ScanInv`, `PulseInv`, `HearInv`.* A scan, a batch, or `--vendor all` is a concatenation of parts, and its jumps (over the
blind pulse, past a failed part) make the step reached more than a matter of counting. A part switches motors only on a bus that
it has opened for the protocol and not yet closed (`OnVendors`, `OpenedBy`), and it jumps only to its own end (`JumpsWell`); both
survive concatenation, so they hold for any batch. `ScanInv` then ties the controller's protocol to the last opening
on the way to `pc`. `PulseInv` adds that the blind pulse is reached only past the jump that a hit takes, and that no
host hit comes after it. `RestInv` is for the CyberBeast command lines that look: they neither send nor call (`CyberRests`), so all that
happens to a motor is the shutdown, which leaves its power off or as it was. `HearInv` is about reports: a hit of a Damiao scan by registers, and of every other
protocol, comes from a motor with the very id; what a scan by feedback takes for an answer was handed to a registered
id with the same feedback id or low four bits. That a probe of the ordinary Damiao scan adds nothing to this rests on the flaw
of section 3: before it, the id is added a second time, which is refused, so the probe is never sent (`Settled`).

*`AskInv`.* The programs that are to leave a motor enabled, disabled or stopped go `Straight` on: they open
the bus, register the motor, and walk through plain steps, the last of which that does what is asked (`Sets`) is
followed by none that undoes it (`Undoes`). The invariant says that past the last `Sets` the motor is as asked, if nothing was
lost, or if the protocol acknowledges the step, since then the program went on only because the motor had obeyed. That a motion
with `--loop 0` ends as it began came out of this proof: it has no such step, and the property now says so.

Working towards a proof of `ScanMissesNone` corrected the model twice. A probe was skipped for a hit of another
protocol's scan with the same id, where the code counts each scan's hits apart (`Found`, `SkipIfHits`; two set-ups
now meet that case). And the property promised the motors of every protocol for `--vendor all` (`ScannedVendors`).

Only model-checked: liveness (`EveryCallReturns` of each module, `QueueIsDrained`), which is out of the
prover's reach; and `ScanMissesNone` of `Command`. That invariant is not out of reach, but its proof is unfinished: it
needs that the program of every scan asks each of its ids, for each of the thirteen scans by itself and for the
two that join them, that a rescue never jumps over a question still to be asked, and an inductive invariant that follows
one id from its question to its answer. The run checks it on the set-ups of `MCCommand`.

## 5. Observed while modelling

Behaviour of the code that the models have, that no line of the repository promises against, that lies
outside the instances of the runs, or that one of the further configurations of section 3 shows, where it is said
which line promises otherwise. Line numbers are of the driver or program named.

*Controller.*
* A `close_bus` between `thread::spawn` and `replace(handle)` (`controller.rs:246`) finds nothing to
  join, and a later `add_device` starts a second worker. It needs unserialized calls (Rust users, not
  the C ABI); so does an `add_device` that sets `polling_active` while a stop joins under the
  `polling_thread` mutex, which leaves both waiting (264).
* `apply_bulk_device_op` ends at the first failure (144) and `close_inner` ignores it (278): motors with
  higher ids stay enabled behind a closed bus while `shutdown` returns Ok.
* The worker gives `recv_lock` back before it routes (204), so a poll can find the queue empty and return while a frame that
  came before the call is in the worker's hand (`CorePollBesideWorker.cfg`). The test
  `poll_feedback_once_works_in_background_mode_without_errors` asserts that the device has its frame by then (486-498).
* For the same reason a poll or the drain of a bulk operation can route a newer frame before
  the worker routes the older one it holds, and a device's cached state goes back (`CallersKeepOrder` says who may do that).

*Damiao.*
* Freshness is the time of processing: the reply to a read that timed out satisfies the next one (626).
* `disabled_hint` starts true (328), although a motor may have been left enabled.
* `prepare_for_mode_switch` ignores clearing commands that fail to send (515).

*RobStride, CiA402, MIT, HexFellow.*
* A stale `current_mode` makes `ensure_control_mode` return Ok in another mode (`robstride/src/motor.rs:343-356`):
  `set_mode` and a reset do not update it.
* `motor_cli/README.md:109` uses host id 0xFD for RobStride MIT, while `validate_host_id` accepts 1..127.
* The reply queues are never emptied, so with late replies a status can be older than its request.

*CyberBeast.*
* A segmented read asks again when nothing has come for `READ_RETRY_AFTER` (`motor.rs:1195`). If the answer was only late, it
  comes twice, both are appended, and the read returns Ok with a chunk twice (`CyberBeastLate.cfg`). The comment (1191-1194)
  says that re-asking mid-transfer "could corrupt the value -- the one thing worse than reporting the timeout".
* A transfer with two mishaps, a reflash and a lost meta frame, can keep a map that mixes versions.
* Two threads that read the same wide parameter spoil each other's value, and both get Ok: the second
  request clears what the first has (`motor.rs:1063`), and the frames of both are appended to one list
  (150). The properties are about threads on distinct endpoints.
* `add_motor` clears `mit_ranges_from_device` when the gear ratio cannot be read, although the ranges
  are the device's (`controller.rs:71`, `motor.rs:1502`, `1642`).
* A `?` in the control loop leaves without StopMotor. The monitor counts lost heartbeats twice.

*Adapter.*
* The callback may file one frame of the earlier channel into a newly opened bus; shutting down one of
  two buses ends the other's reception (`dm_device_shim.cpp:389`).
* Opening an adapter of another type drops the only reference to the first one's handle (335), which is never closed: whether
  the first can be opened again after that rests on the library.

*Gateway.*
* `stop` disarms its own session (`router/handlers/connection.rs:277`); another with an active command for the same motor
  re-sends it at every tick (`GatewayStop.cfg`). The comment (271-272) has "the gateway stops driving the motor from this
  moment on" as the safety contract of `stop`.
* Once a request has an array of items, the test of whether to release the session looks only at the vendors they name
  (`router/dispatch.rs:100`), while an item that names none is scanned for the message's or the target's. Such a batch scan runs
  beside the session's own Damiao controller (`GatewayScan.cfg`); by `ws_gateway/README.md:293-295` the session is released.

*Programs.*
* CyberBeast's scan, status and monitor end in `shutdown` (`cyberbeast_cli.rs:663`, `747`, `1223`), which sends StopMotor to
  every motor they have registered (`CyberQueries.cfg`). The first two print "query-only: no StartMotor/StopMotor frame is
  sent" (626, 669), and over the third stands "never transmits a frame" (1157).
* The gateway's `set_id` stores through the handle of the old id, after the change (`commands/vendor_ops.rs:229`), so what it
  verified may be gone at the next power-up (`GatewayStore.cfg`). The command line reconnects first: "Otherwise a store
  sent via an old-ID handle may be lost" (`damiao_cli.rs:442-443`).
* A Damiao scan reports the first hint as feedback id, not the motor's; on a DM_Device all ids are
  registered first, so a reply may go to another id with the same low four bits.
* The gateway's RobStride `set_id` and the RobStride CLI's `id-set` store through the *old* id too.
* `batch_scan` collects `hits` only, while the CyberBeast scan returns `motors` and `found`; it fails
  when all its scans failed.
* The gateway's CyberBeast scan starts and stops every id. A RobStride scan without hits pulses every id;
  the gateway's stops after the first host with hits unless `scan_all_feedback_ids`.
* An error after the enabling step leaves the motor on, and so does Ctrl-C outside the CyberBeast loops.
  HexFellow and HighTorque motions end with the motor on. MyActuator modes other than disable release
  the brake, and the motor is shut down at the end.
* The usage text has `--vendor all` "scan all vendors" (`args.rs:214`), below HexFellow and CyberBeast, which that scan does
  not visit (`main.rs:141`); a line further down names those it does, without the two RobStride variants (`args.rs:366`).
* The error paths of the gateway's RobStride and HexFellow verify return without `close_bus`.

**Further hazards** that `PROJECT.json` does not list: calls after a close (`controller.rs:275`), which
the models allow; several devices that accept a frame (101), covered by `DeliversEachFrameOnce`; an
enable by another handle between the look at the hint and the zero (`damiao/src/motor.rs:360`), which
serialized calls exclude; feedback of a motor with the same low four bits (876); a gateway `disable`
that does nothing for HighTorque (`connection.rs:254`); a client lost during a scan, whose blocking
task goes on (`router/mod.rs:195`); a stream switched on before its parameter list is parsed
(`stream.rs:56`); an earlier torque target that acts between enabling and the new one
(`robstride_cia402/src/motor.rs:542`); a response queue that grows while nobody takes from it
(`robstride_mit/src/motor.rs:386`); a motor that stays registered when its endpoint map cannot be loaded,
so that it cannot be added again (`cyberbeast/src/controller.rs:56`); a PCAN channel that stays marked
open when its closing fails (`pcan.rs:390`); a good frame thrown away with the misread one it begins in
(`dm_serial.rs:87`); and a connecting motor that holds the controller's mutex for the length of its
transfer (`controller_add_motor_ffi.rs:31`).

## 6. Not modelled

* **Encodings and unit conversions** of the vendors' frames, model catalogues, argument parsing and
  printing, JSON replies, socket options: functions of data without state, whose values the properties
  do not tell apart. What an encoding decides, which reply is told from which, is in the models.
* **`TxPacedBus`**: elapsed time between two sends. Without a clock it is any interleaving, and with
  one its property is the guard of its only action.
* **PCAN, serial and SocketCAN backends**: system or vendor calls under one lock; to the controller
  they are a queue that may fail, which `CoreController` has. `dm_serial`'s parser is sequential.
* **Streams and parameter requests of the gateway**: each is one driver call at a time; when they run
  is `GatewaySession`'s, what a call promises the drivers'.
* **C ABI, SDKs, ROS 2 bridge**: handles and ownership are memory, which a model does not have. The
  controller's mutex is `Serialized`, and binding a controller to a vendor is one assignment under it.
* **HighTorque and MyActuator** have no module of their own: a method sends one frame and waits for one
  status, and its part in a program is in `Command`.
* **Sessions that share motors** are in the theorems, which are for any number of sessions, and in `GatewayStop.cfg`, which has two;
  `gateway_one` has one, as sessions have nothing in common but the motors and the buses.
* **Liveness of programs and sessions**: a program ends because its list of steps does, and a session
  waits for its client for ever by design.
* **Composition of a driver with the controller in one state space**: the interface between them is the
  one step described in section 2, and both sides of it are checked.
