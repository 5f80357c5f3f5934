# A verification development for the device manager

The device manager keeps a set of robot devices (IMU, lidars, battery, radio
bridge, cameras, remote ROS nodes) in their lifecycle states: it accepts
transition batches and parameter patches, runs them one at a time per device,
and lets a periodic hook bring devices up and recover them from faults. This
directory holds TLA+ modules translated from `src/`, the TLC configurations
that check them on small instances, and proofs checked by TLAPS.

Contents: [1 Parts](#1-the-parts-of-the-system) ·
[2 Modules](#2-modules-and-how-they-correspond-to-the-code) ·
[3 Runs](#3-runs) · [4 Fairness](#4-fairness) · [5 Proofs](#5-proofs) ·
[6 Divergences](#6-where-code-and-documents-disagree) ·
[7 Limits](#7-what-is-not-modelled-or-only-model-checked) · [8 Plan](#8-plan)

To repeat everything: `tlc -config <run>.cfg <MC module>` for each run of
section 3, `tlapm <M>.tla` for each module named in the table of section 5.

## 1 The parts of the system

| Part | State | Operations | Hard behaviour | What makes it correct |
|---|---|---|---|---|
| Lifecycle vocabulary (`device_manager.hpp`) | none | `standard_parameter_transitions`, dispatch of edges in `DeviceRuntimeBase` | none, pure | a patch path configures exactly once, with the complete map |
| `DeviceQueue` + `Device` (`device_manager.cpp`) | two FIFO queues, accumulated patch, revision, desired map, last transition, worker thread | `start`, `stop`, `enqueue`, `enqueue_parameter_patch`, worker loop, `finalize` | worker against callers; patches superseding patches; runtime that fails, lies, throws, or moves by itself; stop in the middle of a batch | no delta is lost or applied from an old map; batches are adjacent; stop finalizes and leaves nothing behind |
| Lifecycle hook of the drivers (`*_runtime.cpp`) | `handled_event_revision` | `register_hook` | reads state, parameters, events now; its answer runs later | an enabled device settles in `ACTIVE`, a disabled one in `FINALIZED` |
| `DeviceManager`, `DeviceManagerApplication` | `running` flags, three mutexes, tick thread, hook slots | `start`, `stop`, `tick`, submissions | failed start, restart, ticks across stop | stopped means stopped; hook registered once; calls return |
| `Ros2DeviceManagerApi`, lifecycle node (`main.cpp`) | publisher, services, timer | `start`, `stop`, handlers, `on_*` | callbacks on two executor threads while stopping; throwing `on_activate` | no callback after stop; no half-started node |
| `Ros2ProcessDeviceRuntimeAdapter` | child pid, cached state, materialized parameters | six lifecycle operations, reaping, own hook | child exits at any time; group that does not die; restart with new parameters | `FINALIZED` owns no group; an exit stays reported until it is acted on; an enabled device ends with a running process |
| `Ros2LifecycleDriverAdapter` | state cache with generation and query token | `state`, `request_transition`, own hook | timeouts, late and reordered answers, events racing queries | the cache never goes back to an older observation |
| Device registration (`device_registration.cpp`) | none after configure | YAML, HTTP and JSON parsing | none | the definition is well formed |
| CH020, SMIT, PG100 drivers (serial) | link, read thread, `connected_`, stall clock, decoder, scan assembler | six lifecycle operations, read loop, `send` | reconnect and stall detection, two threads on one transport, split and damaged frames | a loss is reported; a stopped driver is quiet; only frames that were sent come out; a scan is one turn |
| Oradar driver (UDP client) | client, thread, `connected_event_emitted_` | six lifecycle operations, grab loop | commands that fail halfway, reconnect by recreating the client | as above |
| TWS battery driver (CAN) | poll thread, failure counter, trackers, Modbus assembler | poll, configure, cleanup | failures against a threshold, answers without address that come late | offline only after enough failures; registers belong to the request |
| GMSL cameras | capture thread, `last_connected_`, OTP access over I2C, undistortion map | six lifecycle operations, capture loop, `publish_frame` | sensor in OTP mode when I2C fails; cached map against changing calibration | the sensor is left in order; the camera info describes the image |
| Vendored Oradar SDK, Asio, messages, scripts | — | — | — | not ours, or no behaviour |

How they interact: ROS services call `DeviceManagerApplication`, which calls
`DeviceManager` (under `submission_mutex`), which appends to a `DeviceQueue`
(under its `mutex_`). One worker per device pops batches and calls
`IDeviceRuntime`. Runtimes call back into `Device` with events (under
`observation_mutex`). The tick thread reads observations, runs each hook and
submits what it answers like any other caller. There is no persisted state: a
restart begins from `FINALIZED`.

## 2 Modules and how they correspond to the code

```
SerialExecutor <- implemented by - DeviceQueue ; per device: DeviceExecutor (on DeviceManager)
Lifecycle <- DeviceQueue <- HookedDevice <- ManagedDevice, ProcessDevice, LifecycleDevice
DriverRuntime <- Ch020Imu, PagerLora, SmitLidar, OradarLidar, TwsBattery, GmslCamera <- Drivers
FrameStream, ModbusCan, CameraImage <- DataPaths
```

(`A <- B`: B extends A.) Each leaf has an `MC` module with the values of its
constants. The theorems about a module `M` are in `M_proofs`; `HookedDevice_proofs`
also holds the refinement of the queue and what the queue keeps under any hook and
adapter.

**Lifecycle** – `LifecycleState`, requests, parameter maps (a function on the
names it holds), `is_contiguous`, the edges `DeviceRuntimeBase` dispatches, and
`standard_parameter_transitions`. The six ROS transition states are one value,
`"transitioning"`: the core treats them alike.

**DeviceQueue** – one `Device` with its queue. One action per critical section
of `mutex_` and per runtime call:

| Action | Code |
|---|---|
| `Start`, `Stop`, `Join` | `DeviceQueue::start`; the locked part of `stop`; its `join()` |
| `Enqueue` | `DeviceManager::enqueue` + `DeviceQueue::enqueue` |
| `DisabledPatch`, `GatePatch`, `QueuePatch` | the three accepting exits of `enqueue_parameter_patch` |
| `Take`, `Finalize` | what `run()` does when `condition_.wait` returns |
| `ClaimPatch`, `DiscardPatch`, `PlanPatch` | `execute_parameter_patch`: the part under both locks, the discard, the planning |
| `CheckSource`, `RuntimeReturns`, `RecordOutcome`, `FinishBatch` | `execute`: source check, the call, the record; the end of the loop over requests |
| `StateDrifts` | the runtime's state changes without a request (remote nodes) |

A rejected submission changes nothing, so its conditions are guards. The value
of `device.enable` is kept in `enabled` and not repeated in the maps. A runtime
call works, or (constant `FaultStates`) returns any result or throws and leaves
the runtime in any of those states; `state()` may then throw too. `applied` is
a history variable: the map of the last configure that worked. Every runtime of
the repository plans with `standard_parameter_transitions`, so `PlanPatch` does.

**SerialExecutor** – the abstract promise: one backlog ordered by class and
arrival, one entry in hand, calls that never overlap, closing drops the backlog
and allows one last call. `DeviceQueue!ImplementsSerialExecutor` is the
refinement, with the two queues concatenated as the backlog.

**HookedDevice** – extends DeviceQueue with the latest event `Device` keeps and
the tick thread. `TickReadsState`, `TickEvaluates` and `TickSubmits` are the
three steps of `tick()` for a device: `hook_context()` reads `state()` before it
takes `observation_mutex`, and the answer is enqueued after the lock is gone.
The hook is the runtime's and is given by the three modules that extend this one.

**ManagedDevice** – an in-process runtime: `configure()` may fail and report
`connect_failed`, the driver's thread reports events while it runs, and the hook
is the one all six in-process runtimes register (identical in source). Level
`"error"` stands for `kError` and `kStale`, which the hook treats alike. `disturbed`
is a history variable: an event was reported (a failed configure reports one too) or
`device.enable` was set to false while it was true.

**ProcessDevice** – the runtime is `Ros2ProcessDeviceRuntimeAdapter`. `state` is
`cached_state_`, `applied` is `materialized_parameters_`, and `child` says what
has become of `child_pid_`: none, running, exited and not yet waited for, or
waited for by a stop that then failed. All operations hold `state_mutex_`, so
each is one action (`Materialize`, `Configure`, `Switch`, `Cleanup`,
`Dematerialize`), with `start_process_locked` and `stop_process_locked` as parts.
Reading the state reaps an exited process and reports it: `ReadState` is
conjoined to every step of the worker, the tick thread and the status queries
that calls `state()`. Node events travel on `wire` and may arrive after the node
is gone. Whatever goes wrong spends a `Budget`: exits, failed spawns, failed
stops and node events. Process ids are not reused. `steered` is a history variable: a
client has queued a parameter patch, or a path whose first edge the adapter supports.

**DeviceManager** – application and manager with several devices and several
controlling threads. Lock holders are variables; a controller's program counter
follows `start` and `stop` through the loops over the devices, with a fault
possible at every place where `Device::start` or the thread creation can throw.
Each queue is reduced to the serial executor that DeviceQueue was shown to
implement. The manager's own `lifecycle_mutex` is only taken by the holder of the
application's. **DeviceExecutor** adds the refinement mapping for the constant
`Device`, any one of the devices: `DeviceIsExecutor` says that it stays a serial
executor through failed starts, stops and restarts.

**LifecycleDevice** – the runtime is `Ros2LifecycleDriverAdapter`. `state` is
`StateCache::value`; `query` is the one `get_state` request whose token is active
and `fresh` says whether its generation is still the cache's, which is all that
tokens and generations are used for. `request_transition` is split at each of its waits,
those for an answer and those for a service to be there: `BeginCall`, the node's answer to
`set_parameters`, `ChangeFollows`, its answer to `change_state`, `ConfirmFollows`, its
answer to `get_state`, `StoreConfirmation`; and `CallTimesOut` wherever it waits. The node
may restart between any two of these. A request that
was given up stays with the node and is executed later, or was never sent. The node takes or
refuses each parameter of a request by itself and keeps those it took; the worker fails the
call on the first refusal. The
unlocked gap between a callback's generation check and its store is kept as the
disjuncts in which another thread's write falls into it (`StatusReadRaces`,
`StoreConfirmation`). The node, its services and topics are external; messages of
one topic keep their order, answers and events overtake each other, and either may
be lost. As a history each answer carries how many transition events older than it
are still to come, and `renewed` says that the node's process was replaced while the worker
had its answer to `set_parameters` and waited for `change_state`.

**DriverRuntime** – what the in-process drivers share: the worker's six operations
cut at every acquisition of the runtime's `mutex_` and at the join, the read loop
cut between its reads of `running_`, the transport and the event handler, the
device that is unplugged or goes silent, and the automatic start of the hook. It
keeps of the queue that one operation runs at a time and that a failed one drops
the batch; what the queue itself does is DeviceQueue's subject. `Ch020Imu` is that loop alone. `PagerLora` adds `send()` on the
subscriber's thread, `SmitLidar` the assembly of a scan, `OradarLidar` replaces
transport and loop by the UDP client, `TwsBattery` by the poll with its counter,
`GmslCamera` by the capture loop and the OTP memory. **Drivers** composes them:
`kind` says which driver an execution is about, so that one run answers the same
questions for all six.

**FrameStream** – the decoders of HiPNUC, SMIT and PG100 frames as state machines
over small numbers instead of bytes, one step function per byte, on a line that drops, damages
and inserts bytes. The length, the marks and the escape are bytes like any other, so that
damage may turn one into another; a checksum is right exactly for the contents it was
computed of. **ModbusCan** – request, receive buffer, reassembly and
timeout of the battery's register reads; the bus may delay, lose or refuse answers
and carries frames of others. **CameraImage** – `config_from`,
scaling and cropping of a calibration, undistortion map, conversion and rotation, on a
lens reduced to focal length and principal point in each axis. **DataPaths** puts the
three side by side; they share nothing.

The modules with proofs – see section 5.

Definitions commented "Mutant:" are plausible bugs (a dropped guard, a missing
reset). They are used by no specification; substituting one for the definition
it varies makes TLC violate the property named for it in `PROJECT.json`, which
shows that the property depends on that piece of code.

## 3 Runs

| Run | Checks | Shows |
|---|---|---|
| `queue_patches` | `PendingIsQueued`, `PatchPlansNewest`, `StoppedIsEmpty`, `FinalizedWhenJoined`, `CalledFromSource`, `DeltaHandedOver`, `ImplementsSerialExecutor` | the patch protocol, stop and restart, and the refinement, with working runtimes |
| `queue_faults` | `TypeOK`, `CompletedPatchApplied`, `AdjacentExecution`, `StopTerminates`, `PatchSettles` | the same queue on a faulty runtime whose state also drifts; liveness |
| `managed_recovery` | `NewestUntilFault`, `SettlesActive`, `SettlesFinalized` | hooks, patches, gate changes and faults together |
| `manager_sessions` | `StoppedMeansStopped`, `NoStaleTick`, `HookKeptOnce`, `DeviceIsExecutor`, `CallsReturn` | sessions of the whole manager |
| `process_recovery` | `DisappearanceReported`, `SettlesRunning` | a process that exits or does not start, under gate changes and requests no runtime supports |
| `process_faults` | `FinalizedOwnsNothing`, `CompletedPatchApplied`, `SettlesStopped` | the same adapter when stops fail, the node talks and a patch crosses the hook |
| `lifecycle_late` | `EventsBeatAnswers`, `ConfiguredAsAsked`, `CacheCatchesUp`, `SettlesActive` | a remote node whose answers and events are late, lost or reordered, which refuses, restarts and is given up on |
| `drivers` | `LossReported`, `StoppedIsQuiet`, `ScanIsOneTurn`, `OfflineNeedsFailures`, `CallsReturn`, `LinkRecovers` | each in-process driver, its two or three threads, its device and an operator |
| `data_paths` | `OnlyFramesSent`, `Resynchronises`, `RegistersMatchRequest`, `PollsRecover`, `InfoDescribesImage` | frames, registers and images on their way to what is published |
| `queue_gate_applied`, `managed_stale_event`, `process_exit_lost` | one property each | the counterexamples of section 6 |

Bounds. `MaxQueued` 2: a batch in hand and two waiting is the least in which a
superseded batch, its successor and an unrelated batch coexist, and both classes
are occupied. `MaxRevision` 2 or 3: a patch being executed, one waiting and one
that supersedes it. Two parameter names with two values: a delta of one name is
distinguishable from the complete map and from an accumulated delta. One failed
configure and two reported events: the second event may arrive between the first
being handled and recovered from. Two devices, two controllers, two sessions,
one exception: a start that fails on the second device and is tried again while
another thread stops. Two exits: the process the recovery of the first one
starts may exit too. One of each other fault of a process: a failed stop or a
node event may fall before, into or after the recovery from an exit. A bound on submissions only removes behaviours in which a
caller submits more; it never blocks the worker. In `managed_*` and `process_*` the bound also
delays a tick's submission until there is room, which the code would not do; the
duplicates that this leaves out are of the same kind as the two that fit.

`lifecycle_late` lets one incident of any kind happen besides the startup: a single
lost, late or refused message may fall at every place of every call; two
transition events may be on their way, which is what one transition announces. The
hazards of two independent incidents are left to the theorems of section 5, which
have no bound. In particular the run has one parameter map, because telling the map of an
abandoned configure from a newer one takes a patch and a timeout; `ConfiguresAsAsked` is
proved for all maps. As an instance off the runs, `InputPatches <- NewRate`, `InputPaths = {}`,
two names, `MaxRevision = 1`, `MaxIncidents = 2` with `"slow"`, `"submit"`, `"refuse"` and `"restart"` and
`ConfiguredAsAsked` alone has 5.3 million states, in which it holds (about two minutes);
with the liveness properties of the run it is out of reach. `drivers`: three incidents (two for SMIT, whose scan multiplies
the states), which is an unplugged device, an operator's interference and another
loss; four sectors, the least in which a window, a gap beside it and a wrap differ;
three failures to offline as in the code. `data_paths`: three noise bytes and two
damages, so that a false header, a damaged length and a following good frame
meet; answers of three different lengths, and three bus faults. Frame sizes and
crops are chosen so that scaling, letterbox, cropping and a crop that does not fit
all occur.

What the properties say, beyond their formulas:
* `PendingIsQueued` with `DeltaHandedOver` is the accounting of deltas: the
  accumulated patch always has exactly one live carrier, the batch of the current
  revision, and it is cleared only when that carrier is claimed (or the device is
  stopped or disabled). Supersession may therefore discard older batches safely.
* `CompletedPatchApplied` and `AdjacentExecution` are about partial failure: a
  patch that fails halfway never looks complete. The first excepts a runtime that
  reports a configure it has not done and then drifts to `INACTIVE` by itself: the
  manager has nothing by which to tell.
* `FinalizedWhenJoined` speaks of runtimes that work and whose state is known: the
  worker leaves one it cannot get a state from as it is.
* `NewestUntilFault` is as much of "the final applied map is always the newest"
  as the code keeps: until the first fault or closing of the gate. Section 6 shows how
  either breaks it; opening the gate does not.
* `SettlesActive`/`SettlesFinalized` hold although answers are computed from
  states that are gone when they run: a stale answer is discarded by the source
  check or, at worst, undone by a later tick.
* `DisappearanceReported` is what recovery of a process rests on: the cached state
  does not show that the process is gone, so the event must still be there and
  unhandled for as long as the device is configured. It speaks of what happens until the
  first node event, failed stop, parameter patch or client path that moves the device
  (`Undisturbed`), because after one of them the code breaks it (section 6). Exits, failed
  starts, the gate, requests no runtime supports and restarts of the manager do not.
* `SettlesStopped` includes stops that failed: the exit is no longer noticed then,
  but the gate takes the device to `FINALIZED` all the same.
* `EventsBeatAnswers` speaks of the moment in which a callback has found its
  generation current: the answer it is about to store is not older than any event
  already handled. `CacheCatchesUp` is the other half: ignoring answers never lasts.
* `ConfiguredAsAsked` relates two requests: parameters of an abandoned configure
  must not be those a later one ends with. It also says in which case the node is
  configured with none of its parameters although the call succeeds: a process that was
  replaced while the worker waited for `change_state`, and in no other.
* `LossReported` states for each driver what the last report means at the head of
  its loop; the drivers differ, and the formula says how. `StoppedIsQuiet` is about
  what any operation, failed or not, leaves behind.
* `LinkRecovers` excludes by its premises what the code does not recover from
  (section 6): an operator's interference for three drivers, and a hung-up port
  without stall detection.
* `RegistersMatchRequest` depends on block lengths being different: answers carry
  no register address. A late answer to the *same* block is taken as current, and
  the property says so by speaking of blocks.
* `InfoDescribesImage` compares where a ray is seen in the published image with where the
  published camera info says it is.
* `HookKeptOnce` and `StoppedMeansStopped` cover `start()` throwing at each of
  four places and being called again.

## 4 Fairness

`FairSpec` of DeviceQueue: weak fairness of the worker as a whole and of `Join`.
The worker is a dedicated thread woken by `notify_one` after every change of its
predicate, and runtime calls return (they have timeouts of their own); callers
owe nothing. `ManagedFairSpec` adds the tick thread, which is woken by a timer.
The worker's fairness includes failing configures, so that a run may fail as
long as the bound allows. `ProcessFairSpec` adds that messages arrive, and has strong fairness for
the tick thread: with a client that submits for ever, the bound on the queue, which
the code does not have, would otherwise keep the hook's answers out. DeviceManager's `FairSpec` has weak fairness for each
controller inside a call, the tick thread and each worker. `Enter` has none:
waiting for `lifecycle_mutex_` while another controller keeps re-entering is not
excluded by `std::mutex`, and `CallsReturn` speaks of calls that have got it.

`LifecycleFairSpec`: the node serves requests, callbacks run, a wait without an
answer ends by its timeout, the worker and the tick thread keep running. Nothing is
assumed of messages that are late or lost: those are incidents with a bound.

`Drivers!Spec` has strong fairness for the worker and for the driver's thread: both
wait for a mutex the other keeps taking and releasing, and weak fairness would let the
waiter starve; this is what a fair-enough mutex gives, and `std::mutex` on Linux
gives it when the holder blocks in I/O between two acquisitions. A write ends, and
`data_timeout_ms` passes. The device owes nothing.
`PathSpec`: the battery's frames arrive and the driver goes on polling.

## 5 Proofs

Every theorem holds for all values of the constants that satisfy the modules' named
assumptions, which say of what kind each constant is (`ConstantsAssumption`,
`ManagerAssumption`, `DriverAssumption`, ...). Where a theorem needs more than that,
the table says so. The bounds on queues, incidents and revisions are constants like
any other, so none of these results depends on how large they are.

| Module | Theorem | Property |
|---|---|---|
| `DeviceQueue_proofs` | `TypeCorrect` | `TypeOK` |
| | `PendingNeverOrphaned` | `PendingIsQueued` |
| | `StoppedHoldsNothing` | `StoppedIsEmpty` |
| | `PlansAreNewest` | `PatchPlansNewest` |
| | `BatchesAreAdjacent` | `AdjacentExecution` |
| | `DeltaIsHandedOver` | `DeltaHandedOver` |
| | `CalledFromItsSource` | `CalledFromSource` |
| | `StopFinalizes` | `FinalizedWhenJoined` |
| | `CompletedPatchIsApplied` | `CompletedPatchApplied` |
| `HookedDevice_proofs` | `QueueIsSerialExecutor` | `ImplementsSerialExecutor` |
| `DeviceManager_proofs` | `StopLeavesNothing` | `StoppedMeansStopped` |
| | `TicksAreFresh` | `NoStaleTick` |
| | `HooksAreRegistered` | `HookKeptOnce` |
| | `DevicesAreExecutors` | `DeviceIsExecutor` |
| `ManagedDevice_proofs` | `ManagedRunsNewest` | `NewestUntilFault`, if hook and patches alone drive the device |
| | `ManagedQueueHolds` | `PendingIsQueued` with the other invariants of the queue |
| | `ManagedHandsOver` | `DeltaHandedOver` |
| | `ManagedQueueIsExecutor` | `ImplementsSerialExecutor` |
| | `ManagedCalledFromSource` | `CalledFromSource` |
| | `ManagedStopFinalizes` | `FinalizedWhenJoined` |
| | `ManagedCompletedPatch` | `CompletedPatchApplied` |
| `ProcessDevice_proofs` | `FinalizedOwnsNothingHolds` | `FinalizedOwnsNothing` |
| | `DisappearancesAreReported` | `DisappearanceReported` |
| | `ProcessQueueHolds` | `PendingIsQueued` with the other invariants of the queue |
| | `ProcessHandsOver` | `DeltaHandedOver` |
| | `ProcessQueueIsExecutor` | `ImplementsSerialExecutor` |
| | `ProcessCalledFromSource` | `CalledFromSource` |
| | `ProcessCompletedPatch` | `CompletedPatchApplied` |
| | `ProcessStopFinalizes` | `FinalizedWhenJoined`, until a stop of the group fails |
| `LifecycleDevice_proofs` | `AnswersNeverOvertakeEvents` | `EventsBeatAnswers` |
| | `ConfiguresAsAsked` | `ConfiguredAsAsked`, if the definition of the device names every parameter |
| | `LifecycleQueueHolds` | `PendingIsQueued` with the other invariants of the queue |
| | `LifecycleHandsOver` | `DeltaHandedOver` |
| | `LifecycleQueueIsExecutor` | `ImplementsSerialExecutor` |
| `Drivers_proofs` | `OperationsCleanUp` | `StoppedIsQuiet` |
| | `LossesAreReported` | `LossReported` |
| | `LossesAreCounted` | `OfflineNeedsFailures` |
| | `ScansAreTurns` | `ScanIsOneTurn`, if every window is the full circle or leaves room for a lost point |
| `DataPaths_proofs` | `RegistersAreAskedFor` | `RegistersMatchRequest` |
| | `CameraInfoIsTrue` | `InfoDescribesImage`, if every lens scales to every frame without a remainder |

The hypotheses. `device_manager.cpp` merges patches without looking at the names.
If the definition leaves out a parameter that a patch names, a hook's answer from
before the patch, run after it, finds a value at the node that it has not asked for;
`ConfiguresAsAsked` is about definitions that leave out none. The gap outside an angle
window must be two sectors: with one, a single lost point hides from the scan assembler
that the mirror has left the window (section 6). The code scales a calibration in
floating point and the model in integers; where nothing is left over the two agree, and
only there the statement is exact.

`ManagedRunsNewest` assumes `DrivenAlone`: the device starts `FINALIZED`, callers submit
patches and no paths of their own, and the runtime fails only as `ConfigureFails` says. A
caller's path carries the map of the moment like a hook's answer, but may lead
down. The theorems about the process adapter assume nothing of the inputs; what they cannot
say of every state is in the statement. `ProcessStopFinalizes` speaks of executions in
which no stop of the group has failed yet, for one that cannot be stopped leaves the cached state
where it was. `DisappearanceReported` speaks of the states before the first node event, failed
stop, parameter patch or client path that moves the device; a parameter patch can make the
hook take an exit for handled (section 6). `process_recovery`, whose client asks for no
such thing, never leaves these states; with the faults of `process_faults` they are left, and
the theorem says that it holds until then.

The arguments, by component.

DeviceQueue:

* *Types.* `TypeOK` alone is not inductive: reading the next request needs to
  know that the index lies in the batch. `TypeInv` adds `InBatch`.
* *Batches.* `BatchInv` says every batch anywhere is sound: its revision has
  been given out, and its requests are contiguous. Contiguity comes from
  `DeviceManager::enqueue`'s check for callers and from
  `standard_parameter_transitions` for patches.
* *Deltas.* `PendingIsQueued` is not inductive, because the claim of an *older*
  batch must not clear the delta. `NewestCarriesPending` states it for every
  batch of the current revision: whoever claims it takes all there is.
  Revisions given out so far bound those in the queues, so a new one is fresh.
* *Newest plans.* `PatchPlansNewest` is inductive with the types: the map only
  changes in `AcceptPatch`, and there either the revision moves or (`GatePatch`)
  no value does.
* *Adjacency.* The batch goes on only from `RecordOutcome` with a success whose
  actual state is the target; contiguity turns that into the next source.
  `StartsAtFirst` covers the entry of a batch.
* *Source.* In `"call"` the state equals the request's source because only
  `RuntimeReturns` moves it when nothing drifts.
* *Stopping.* `LoopInv` ties the worker to the flags: a queue that runs has a live
  worker, and a worker with `finalizing` set is in the batch of `finalize()`, which
  `LastInv` says is the one request to FINALIZED. `DownInv` follows that request: its
  source is the state until the call, and the state is FINALIZED from its return, or
  from the moment `finalize()` found it so, until the join. `CalledFromSource` closes
  the step of the call.
* *Completed patches.* `PathInv`: a planned path is empty or configures, with the
  map it was planned from. `AppliedInv` follows the configure: past it, and between
  a call that reports success and its record, that map is the applied one. The record
  also compares the state the runtime is in, which is why a runtime that lies has to
  drift to `INACTIVE` as well to get past it.
* *Refinement.* The mapping concatenates the two queues (`BacklogOf`). The lemmas say
  what the mapping makes of a pop and of a push in each class: an entry taken is the first of
  the backlog, one added is inserted behind the last of its class. `PhaseIs` turns the
  mapped phase into one case per place of the worker. `QueueStep` then has one step per
  action: submissions are the executor's, `Take` is its take, a call and its return are
  its call and return, and planning, checking and recording are stutters.

The queue under a hook and an adapter:

* What the three devices of HookedDevice do to the queue is an action of DeviceQueue, a
  submission of the hook, a call that returns with any result, or a runtime that moves
  by itself (`DeviceStep`). `DeviceInv` collects the invariants above that do not
  depend on what a runtime does; `DeviceNext`, `DeviceHandsOver` and `DeviceRefines` show
  that each such step keeps them, hands deltas over and is a step of the executor.
  Each device then only has to show that its next-state relation is a `DeviceStep`.
  `WorkerInv` of ManagedDevice carries what does depend on the runtime, `DownInv` and
  `AppliedInv`, across the hook's submissions and a configure that fails.
* *Newest map.* A stale answer of the hook is harmless for one of two reasons. `News`:
  the newest patch is still waiting, or executing, and will configure once more;
  or the device is `Up`, and then the answer, which climbs (`Climbs`), cannot configure
  it, because its configure starts below. `Harmless` says of a map that it is the newest
  or one of the two holds. `AnswersFine` says of every answer in the queue, in the tick
  thread's hands or the worker's, that it is one request up whose map is harmless.
  `NewsNext` shows that each step keeps `Harmless` of every map: patches make news,
  news ends only in a path that `Walking` says is never cut short and that ends up with
  the newest map (`CompletedPatchApplied`, `PatchPlansNewest`), and all other steps
  leave the map alone and the device up. `Gated` and `Rested` start the argument: until the
  gate opens there are no answers. A closing gate breaks exactly `Climbs`.

DeviceManager:

* `LockInv`: one controller at a time is inside a call. `DeviceInv`: what the queue
  and the worker of one device agree on wherever anybody is. `ControlInv` says for each
  place of the controller which devices have been started or stopped already and which
  have not, and is what makes the catch blocks of a throwing `start()` come out right.
  `TickInv`: the tick thread lives from the end of `start()` to the end of `stop()`.
  Together they give `StoppedMeansStopped` and, with the sessions of the batches in
  queues and hands, `NoStaleTick`. `HookKeptOnce` holds because slot and flag are equal
  at every step, which is stronger than what it says.
* `DevicesAreExecutors` has one step per action, like the queue's refinement: what is
  done to other devices is a stutter, and `ManagerInv` supplies that a queue is only
  opened when its worker is gone. A `Device::start` that throws leaves a queue open
  without a worker; the mapping calls such a queue closed, and it stays empty.

Adapters:

* *Late answers.* `EventsBeatAnswers` needs only that the query is a record with an
  integer count and that events on their way form a sequence (`CacheTypes`). An
  answer starts with a count of zero or more; only a handled event can make it
  negative, and that starts a generation in which the answer is not stored; a lost
  event never does.
* *Configured as asked.* `SourcesInv`: every configure request, in the queues, in the
  hook's answer and in hand, names all parameters; plans take the snapshot, the hook
  and callers the desired map, and patches only add to that. `NodeInv`: so do the
  requests at the node. Hence a request replaces all that earlier ones have set, and it is enough that
  the worker's is the last: `AwaitedInv` says so for `set_parameters`, and for the
  `change_state` that follows that no `set_parameters` is left which could come between.
  From the answer on, `Taken` says that the node has the worker's map, or has `renewed` and
  then has none. A node that refused some parameters of a request keeps the others, so
  nothing is claimed of its map until a complete request replaces it.
* *Stops of a process.* `CallsFromState` and `FinalInv` say of the process adapter what
  `CalledFromSource` and `DownInv` say of the queue alone; reading a state reaps, and
  reaping does not change the cached state.
* *Patches of a process.* `LaunchInv` says for the process what `AppliedInv` says for a
  runtime the queue knows: past the configure, the process runs with the map of the patch.
  Two things of the adapter could break it. `configure` keeps a process it finds when it
  is given no parameters, so `GivenInv` shows that a patch is never planned from an empty
  map: the patches that wait were merged into the desired map, and nothing takes names out
  of it. Materializing launches a process with the empty map of its request, so
  `PathLaunches` shows that no request of a planned path behind the configure starts at
  `FINALIZED`. The rest is `CallLaunches`: a launch passes on the map of the request, a
  call that fails leaves what was launched, and only a success goes on to the next request.
* *Disappearance.* The one way to count an exit as handled and do nothing is an answer
  computed for a device that was `FINALIZED` when its state was read; were the device configured by the
  time of the answer, a new process's exit could be counted with the old one's. `TickFresh`
  says it has at most been opened. That rests on the order in which requests wait:
  `Effect` sorts them into those that open a device, those that move an open one and
  those that do nothing, and `RequestsInOrder` says that, at `FINALIZED`, no move waits
  behind an opening and, elsewhere, no opening behind a move. `Told` is the claim itself. All of it is
  kept while the execution is `Undisturbed`, which once lost is lost for good
  (`UndisturbedBefore`).
* *Processes.* `FinalizedOwnsNothing` is inductive: a stop either gives the child
  up or, failing, leaves the cached state as it was; only a start takes a child,
  and it ends in another state; reaping only gives children up.

Drivers:

* *Quiet.* `PlaceInv` says how far each operation may be and which state that goes
  with; `ThreadInv` and `LinkInv` name the places where no thread and no open device
  may be left. The reconnecting thread opens the port by itself, so `LinkInv` rests on
  `ThreadInv`. For the camera `SensorInv` adds that the sensor is in the
  mode of its OTP memory only while `configure` reads that.
* *Losses.* One invariant per driver, because each keeps its own idea of a loss:
  the connection flag (CH020, SMIT), the flag except after a write that failed (PG100),
  the client (Oradar), the published state with the failure counter and what the
  tracker holds (TWS), what was reported last (camera). Each says that a loss is reported
  or that the thread is at the place that reports it.
* *Scans.* The history of a point says whether it is of this turn, an earlier one,
  or from before the start. `Tracks`: while the thread reads an open port, the
  collection holds no point of an earlier turn, and if it holds one of this turn the
  assembler has seen the sector the mirror is at. A closed port lets the mirror turn
  unseen; the scan begun before is given up when `read_loop` opens the port again. The arithmetic of the circle is in its own lemmas.

Data paths:

* *Registers.* `PollInv`: what is asked for is a block. The lengths of the blocks differ
  (`ModbusAssumption`), so an answer of the right length is an answer to it.
* *Camera info.* The published info is computed from the scaled calibration, the map
  and the crop that the image was made with. The proof follows a ray through
  both, axis by axis, in the cases cropped and scaled.

Each invariant is proved by one step per action; lemmas about merging maps,
appending to and popping from a queue, and the set of unclaimed patches are
stated once.

## 6 Where code and documents disagree

Each is a run that TLC violates; the trace is the evidence.

1. `queue_gate_applied` – a patch that leaves the device disabled merges values
   into the desired map, bumps the revision and clears the accumulated delta; the
   patch that only re-enables it queues nothing. If the device was not taken
   down in between (both patches within one tick, or a runtime whose hook does
   nothing when disabled) the values are never applied. `docs/design.md:284`
   promises the newest map.
2. `managed_stale_event` – events are only looked at in `ACTIVE`, so a
   `connect_failed` of an earlier configure is acted on after a later one has
   succeeded: a healthy device is taken down once and brought up again.
3. `process_exit_lost` – the exit of a process is kept only as the latest event.
   A node event delivered after it replaces it; the hook then either sees nothing
   to do or retries a `deactivate()` that always answers ERROR, and the device
   stays `ACTIVE` without a process (`README.md:263-266`).

Met while modelling, without a run of their own; paths are relative to `drivers/`
unless they say otherwise:

* *Stale hook parameters* (`device_manager.cpp:587`). The hook's configure request
  carries the map as of its evaluation; it may run after a newer patch whose own
  configure failed, and the old map stays. `NewestUntilFault` stops at the first fault
  for this reason.
* *Handled when answered* (`ch020_imu_runtime.cpp:217`). A batch discarded as stale
  is not derived again, against `docs/design.md:193`.
* *Stale answers to a closed gate* (`device_manager.cpp:589`). Without any fault, answers
  the hook gave while the gate was closed (down to `FINALIZED`) and after it opened again
  (up, with the map of then) wait in the normal queue behind urgent patches. When the
  newest patch has completed they take the healthy device down and up again with the
  superseded map, against `docs/design.md:284`. TLC finds this in about a minute, in
  some seventy steps, when `NewestUntilFault` is stated without its premise, with one
  parameter, urgent patches only, `MaxQueued` 3, `MaxRevision` 4 and no faults: it takes
  three batches waiting, and with the two of `managed_recovery` it does not occur. Hence
  the history variable: a gate that has been closed is a premise, not a bound.
* *Exit taken for reached* (`ros2_process_device_runtime_adapter.cpp:319`, from the
  repository's `src/device_manager_ros/src/`). With a parameter patch the tick reads
  `FINALIZED`, the worker brings the device to `INACTIVE`, the process exits and is reaped,
  and the hook takes the exit event for reached: the device stays without a process. TLC finds
  this when `~steered` is left out of `Undisturbed` and `process_recovery` is given a
  parameter patch; `DisappearanceReported` and `SettlesRunning` therefore end there.
* *Configured without parameters* (`ros2_lifecycle_driver_adapter.cpp:246-253`, same
  directory). Between the answer to `set_parameters` and `change_state` the worker waits for
  the service. A node that starts again in that wait has lost the parameters, is
  configured all the same, and the transition is recorded as `SUCCESS`; only a new patch or a
  cleanup brings them back. Without `renewed`, TLC violates `ConfiguredAsAsked` by
  exactly this.
* *A hook answer to an open gate.* A hook answer queued before `device.enable` was
  closed still materializes the device; `SettlesFinalized` shows that to be undone.
* *Patch lost on a remote node.* A patch claimed while the node is in a transition
  state plans an empty path.
* *Oradar* (`oradar_lidar_runtime.cpp:645-649`). Online is reported once per client
  lifetime, not after each reconnect as its `README.md:35` and the repository's
  `README.md:301-305` say. A deactivate that finds the client closed leaves the
  device INACTIVE without a connection.
* *PG100* (`pager100_lora_driver.cpp:109-115`). A failed write closes the port and
  clears `connected_`, so the read loop sees no loss to report (its `README.md:35`, `:44`).
  `LossReported` excuses exactly this case. An escaped byte skips the length check
  (`serial_frame.cpp:92-96`).
* *TWS and camera.* When an operator's request makes the recovery batch stale, the
  driver stays ACTIVE without recovering; `LinkRecovers` excludes operators there.
* *Camera.* An OTP set-up that fails halfway is not reset (sensor `"stuck"`).
  `config_from` narrows integers without range checks. Rotating a raw plumb_bob image
  by 180 degrees leaves the tangential coefficients as they are, and takes
  `p[2]`/`p[6]` from `k`. RGB8, MONO8 and YUYV frames are converted without checking
  that they are long enough.
* *Decoders.* None is reset when the port is reopened. HiPNUC has no limit on
  the length: a false header may swallow up to 64 KB before the checksum refuses it;
  `Resynchronises` therefore bounds the frames that are missed by the longest announced one. A SMIT window that leaves a single
  point outside (`smit_lidar_driver.cpp:151-173`) runs from one turn into the next when that
  point is lost; `ScanIsOneTurn` is stated of windows that leave more. SMIT's `start()` does not reset
  the scan assembler, so that the first scan after it may hold points from before the
  stop; `ScanIsOneTurn` is about the turns since.
* *Modbus.* A late answer to the same block is taken as the current one.
* *ROS API* (`src/device_manager_ros/src/ros2_device_manager_api.cpp:223-245`, read and not
  modelled). The API's services and timer belong to the runtime node, `on_deactivate` to the
  manager node, and `main.cpp:126-128` runs both on two threads. The callbacks capture a raw
  `this`; `stop()` resets `publisher_` without waiting for a `publish_snapshot` that may be
  about to use it, and `reset()` then destroys the API and the application.

## 7 What is not modelled, or only model-checked

Only model-checked, with the reason:

* liveness (`StopTerminates`, `PatchSettles`, `Settles*`, `CallsReturn`,
  `CacheCatchesUp`, `LinkRecovers`, `PollsRecover`): fairness and ENABLED are out of
  the prover's reach;
* `OnlyFramesSent` and `Resynchronises` of FrameStream: what a decoder makes of a byte
  sequence is a fold over it, and the prover has no induction over data.

The queue has its type invariant in a run and as a theorem; the invariants of the
other proofs carry the types they need, and the composed modules state none of their own.

Abstracted: messages, timestamps and sources of records and events; parameter
values (two tokens); the ids of devices; exceptions of allocation. Getters change
nothing and are left out. A hook that throws is an answer of nothing. Of the drivers:
message layout, unit conversion, filters, TF and the publishers; V4L2 buffers; the
arithmetic of the lens models; register fields. Configuration is well or ill typed.
DriverRuntime composes each driver with a worker and a hook of its own, not with
DeviceQueue: patches against a driver's thread are covered only as far as both are
sequences of the same six operations.

Not modelled, with reasons in `PROJECT.json`: the ROS API and the manager's
lifecycle node (they translate messages and forward calls; the race of their `stop()` with their
own callbacks, section 6, would need a module of its own), `DeviceManagerApi` (no behaviour), registration (parsing and I/O at
configure time), messages, the vendored SDK and Asio, scripts and examples.

Hazards without a property: an event handled when its recovery is only answered; a
patch claimed while a remote node is in a transition state; a failed stop that has
waited for the group leader leaves an exit nobody reports, so `SettlesRunning`
assumes that stops succeed; an exit the hook takes for reached when a patch crosses its
tick; Oradar's `online`, which is not reported again; and the ROS API's `stop()`
against callbacks in flight. One is covered in part: of a stale hook answer
`NewestUntilFault` says what a patch in between does, but it stops at a failed configure.
Left out of the list as well: the queues are unbounded, so hook answers pile up while
a runtime call blocks; a driver holding its mutex in `configure` delays the tick of
all devices; descendants that outlive a reap which gave up are nobody's.

## 8 Plan

Done, in this order because the queue is where every request of the system goes
through and the hook is its main client: Lifecycle, SerialExecutor, DeviceQueue,
HookedDevice, ManagedDevice, DeviceManager, the adapters ProcessDevice and
LifecycleDevice, the drivers (DriverRuntime, the six of them, Drivers), what they
read (FrameStream, ModbusCan, CameraImage, DataPaths), and the proofs.

Every safety property the passing runs check is stated by a theorem, except the two of
FrameStream named in section 7. What is left to prove are facts about one step of their
decoders, which need no induction: which bytes a buffer can hold, and that a frame is only
given out on a checksum that fits.
