----------------------------- MODULE DeviceQueue -----------------------------
(***************************************************************************)
(* One managed device: its DeviceQueue (two FIFO queues and one worker     *)
(* thread), the observation fields of Device the queue writes, and the     *)
(* runtime behind IDeviceRuntime as the worker sees it.                    *)
(*                                                                         *)
(* Threads: callers of DeviceManager (Enqueue, *Patch, Start, Stop, Join)  *)
(* and the worker.  Each action is one critical section of the queue's     *)
(* mutex_ or one call into the runtime; everything the worker does without *)
(* a lock may interleave with every caller.                                *)
(***************************************************************************)
EXTENDS Lifecycle, SequencesExt

CONSTANTS
  Names,              \* names of the ordinary parameters (not device.enable)
  Values,             \* their values
  InitialParameters,  \* DeviceDefinition::parameters
  InitialStates,      \* what state() may answer at first: "finalized" for runtimes
                      \* that own their driver, "unknown" for a remote ROS node
  InputPaths,         \* the paths callers submit: sequences of <<from, target>>
  InputPatches,       \* the patches callers submit
  Priorities,         \* the priorities callers use
  FaultStates,        \* where a runtime call that fails, lies or throws may
                      \* leave the runtime; {}: runtimes work
  DriftStates,        \* states the runtime may enter without a request
  MaxQueued,          \* bound on the batches waiting in both queues
  MaxRevision         \* bound on parameter_revision

ParameterMaps == UNION { [S -> Values] : S \in SUBSET Names }
\* "absent": the patch does not name device.enable; "malformed": it gives it a
\* value that is not a bool.
EnableField == {"absent", "true", "false", "malformed"}
PatchType == [enable : EnableField, values : ParameterMaps]

ASSUME ConstantsAssumption ==
  /\ InitialParameters \in ParameterMaps
  /\ InitialStates \subseteq LifecycleState
  /\ InputPatches \subseteq PatchType
  /\ InputPaths \subseteq Seq(PrimaryStates \X PrimaryStates)
  /\ Priorities \subseteq {"urgent", "normal"}
  /\ FaultStates \subseteq LifecycleState /\ DriftStates \subseteq LifecycleState
  /\ MaxQueued \in Nat /\ MaxRevision \in Nat

VARIABLES
  running, stopping,     \* DeviceQueue::running_, stopping_
  urgent, normal,        \* urgent_queue_, normal_queue_
  pending,               \* pending_parameter_patch_
  parameters, enabled,   \* Device::parameters, definition.enabled
  revision,              \* Device::parameter_revision
  lastTransition,        \* Device::last_transition
  worker,                \* where the worker thread is
  job, next,             \* the batch it runs and the index of its next request
  snapshot,              \* current_parameters in execute_parameter_patch
  finalizing,            \* the worker has left its loop and runs finalize()
  outcome,               \* what request_transition returned or threw
  state,                 \* IDeviceRuntime::state()
  applied                \* parameters of the runtime's last successful configure

queueVars == <<running, stopping, urgent, normal, pending>>
observationVars == <<parameters, enabled, revision, lastTransition>>
workerVars == <<worker, job, next, snapshot, finalizing, outcome>>
runtimeVars == <<state, applied>>
vars == <<queueVars, observationVars, workerVars, runtimeVars>>
------------------------------------------------------------------------------
RequestType == [from : LifecycleState, target : LifecycleState,
                parameters : ParameterMaps]
\* RequestBatch; revision 0 is "no parameter_revision": a lifecycle batch.
BatchType == [requests : Seq(RequestType), revision : Nat, patch : ParameterMaps]
LifecycleBatch(requests) == [requests |-> requests, revision |-> 0, patch |-> EmptyMap]
PatchBatch(rev, patch) == [requests |-> << >>, revision |-> rev, patch |-> patch]
NoBatch == LifecycleBatch(<< >>)
IsPatch(batch) == batch.revision # 0

\* Where the worker is.  "none": not started or joined; "idle": waiting in
\* run(); "claim", "discard", "plan": in execute_parameter_patch; "next":
\* between two requests; "call": inside request_transition; "record": it
\* returned; "exited": run() returned.
WorkerState == {"none", "idle", "claim", "discard", "plan", "next", "call",
                "record", "exited"}

Result == {"success", "failure", "error"}
NoTransition == [result |-> "none", discarded |-> FALSE, target |-> "unknown",
                 actual |-> "unknown"]
RecordType == [result : Result \cup {"none"}, discarded : BOOLEAN,
               target : LifecycleState, actual : LifecycleState]
Record(result, discarded, target, actual) ==
  [result |-> result, discarded |-> discarded, target |-> target, actual |-> actual]

\* What runtime->state() does: answer, or throw when the runtime is faulty.
Faulty == FaultStates # {}
StateReads == {state} \cup (IF Faulty THEN {"threw"} ELSE {})
\* Mutant: safe_state lets whatever the runtime throws through.
SafeStateUnguarded(read) == read
SafeState(read) == IF read = "threw" THEN "unknown" ELSE read
SafeStates == { SafeState(read) : read \in StateReads }
------------------------------------------------------------------------------
Init ==
  /\ running = FALSE /\ stopping = FALSE
  /\ urgent = << >> /\ normal = << >>
  /\ pending = EmptyMap
  /\ parameters = InitialParameters
  /\ enabled \in BOOLEAN
  /\ revision = 0
  /\ lastTransition = NoTransition
  /\ worker = "none"
  /\ job = NoBatch
  /\ next = 1
  /\ snapshot = EmptyMap
  /\ finalizing = FALSE
  /\ outcome = "success"
  /\ state \in InitialStates
  /\ applied = EmptyMap

\* DeviceQueue::start.  DeviceManager's lifecycle_mutex keeps it from running
\* before an earlier stop has joined the worker (see DeviceManager).
Start ==
  /\ ~running
  /\ worker = "none"
  /\ running' = TRUE
  /\ stopping' = FALSE
  /\ worker' = "idle"
  /\ finalizing' = FALSE
  /\ UNCHANGED <<urgent, normal, pending, observationVars, job, next, snapshot,
                 outcome, runtimeVars>>

\* Mutant: the accumulated patch survives the stop.
StopKeepsPending ==
  /\ running
  /\ stopping' = TRUE
  /\ running' = FALSE
  /\ urgent' = << >>
  /\ normal' = << >>
  /\ UNCHANGED <<pending, observationVars, workerVars, runtimeVars>>

\* The first half of DeviceQueue::stop, under mutex_.
Stop ==
  /\ running
  /\ stopping' = TRUE
  /\ running' = FALSE
  /\ urgent' = << >>
  /\ normal' = << >>
  /\ pending' = EmptyMap
  /\ UNCHANGED <<observationVars, workerVars, runtimeVars>>

\* worker_.join() returns in DeviceQueue::stop.
Join ==
  /\ ~running
  /\ worker = "exited"
  /\ worker' = "none"
  /\ UNCHANGED <<queueVars, observationVars, job, next, snapshot, finalizing,
                 outcome, runtimeVars>>
------------------------------------------------------------------------------
\* Submissions.  A rejected one changes nothing, so its conditions are guards.
Room == Len(urgent) + Len(normal) < MaxQueued

PushBack(batch, priority) ==
  IF priority = "urgent"
  THEN /\ urgent' = Append(urgent, batch)
       /\ UNCHANGED normal
  ELSE /\ normal' = Append(normal, batch)
       /\ UNCHANGED urgent

\* What a hook submits: the configure request carries the desired map of the
\* moment, the other requests carry nothing.
RequestsOf(path) ==
  [i \in DOMAIN path |->
     Request(path[i][1], path[i][2],
             IF path[i] = <<"unconfigured", "inactive">> THEN parameters ELSE EmptyMap)]

\* The checks DeviceManager::enqueue makes of the batch itself.
Acceptable(requests) == requests # << >> /\ IsContiguous(requests)

EnqueueRequests(requests, priority) ==
  /\ running /\ ~stopping
  /\ Room
  /\ Acceptable(requests)
  /\ PushBack(LifecycleBatch(requests), priority)
  /\ UNCHANGED <<running, stopping, pending, observationVars, workerVars, runtimeVars>>

Enqueue(path, priority) == EnqueueRequests(RequestsOf(path), priority)

EnabledAfter(patch) ==
  IF patch.enable = "absent" THEN enabled ELSE patch.enable = "true"

\* What every accepted patch does before the queue decides about a batch.
AcceptPatch(patch) ==
  /\ running /\ ~stopping
  /\ patch.enable # "malformed"
  /\ patch.enable # "absent" \/ patch.values # EmptyMap
  /\ parameters' = Merge(parameters, patch.values)
  /\ enabled' = EnabledAfter(patch)
  /\ UNCHANGED <<running, stopping, lastTransition, workerVars, runtimeVars>>

\* Mutant: a patch to a disabled device does not invalidate older batches.
DisabledPatchKeepsRevision(patch) ==
  /\ AcceptPatch(patch)
  /\ ~EnabledAfter(patch)
  /\ pending' = EmptyMap
  /\ UNCHANGED <<revision, urgent, normal>>

\* Mutant: a patch to a disabled device leaves the accumulated patch in place.
DisabledPatchKeepsPending(patch) ==
  /\ revision < MaxRevision
  /\ AcceptPatch(patch)
  /\ ~EnabledAfter(patch)
  /\ revision' = revision + 1
  /\ UNCHANGED <<pending, urgent, normal>>

\* enqueue_parameter_patch leaves the device disabled: no batch.
DisabledPatch(patch) ==
  /\ revision < MaxRevision
  /\ AcceptPatch(patch)
  /\ ~EnabledAfter(patch)
  /\ revision' = revision + 1
  /\ pending' = EmptyMap
  /\ UNCHANGED <<urgent, normal>>

\* ... the patch only opens the materialization gate: no batch, no revision.
GatePatch(patch) ==
  /\ AcceptPatch(patch)
  /\ EnabledAfter(patch)
  /\ patch.values = EmptyMap
  /\ UNCHANGED <<revision, pending, urgent, normal>>

\* Mutant: the batch carries only the new patch, not the accumulated one.
PatchToQueueIsNewest(patch) == PatchBatch(revision + 1, patch.values)

\* The batch a patch enters the queue with: every delta not yet handled.
PatchToQueue(patch) == PatchBatch(revision + 1, Merge(pending, patch.values))

\* ... every other patch is accumulated and queued under a new revision.
QueuePatch(patch, priority) ==
  /\ revision < MaxRevision
  /\ Room
  /\ AcceptPatch(patch)
  /\ EnabledAfter(patch)
  /\ patch.values # EmptyMap
  /\ revision' = revision + 1
  /\ pending' = Merge(pending, patch.values)
  /\ PushBack(PatchToQueue(patch), priority)
------------------------------------------------------------------------------
\* Mutant: the normal queue is served first.
TakeNormalFirst ==
  IF normal # << >>
  THEN /\ job' = Head(normal)
       /\ normal' = Tail(normal)
       /\ UNCHANGED urgent
  ELSE /\ urgent # << >>
       /\ job' = Head(urgent)
       /\ urgent' = Tail(urgent)
       /\ UNCHANGED normal

\* The choice of run(): urgent before normal, FIFO in each.
PopFront ==
  IF urgent # << >>
  THEN /\ job' = Head(urgent)
       /\ urgent' = Tail(urgent)
       /\ UNCHANGED normal
  ELSE /\ normal # << >>
       /\ job' = Head(normal)
       /\ normal' = Tail(normal)
       /\ UNCHANGED urgent

\* run() wakes and takes a batch.
Take ==
  /\ worker = "idle" /\ ~stopping
  /\ PopFront
  /\ next' = 1
  /\ worker' = IF IsPatch(job') THEN "claim" ELSE "next"
  /\ UNCHANGED <<running, stopping, pending, observationVars, snapshot, finalizing,
                 outcome, runtimeVars>>

\* Mutant: the worker retries a finalization that failed.
EndBatchRetriesFinalize ==
  /\ worker' = "idle"
  /\ job' = NoBatch
  /\ next' = 1
  /\ snapshot' = EmptyMap
  /\ outcome' = "success"

\* The batch goes out of scope: back to the wait, or out of run() for good.
EndBatch ==
  /\ worker' = IF finalizing THEN "exited" ELSE "idle"
  /\ job' = NoBatch
  /\ next' = 1
  /\ snapshot' = EmptyMap
  /\ outcome' = "success"

\* Mutant: a superseded batch is executed all the same.
NeverSuperseded == FALSE

Superseded == job.revision # revision

\* Mutant: the path is planned from the batch's own patch, not the desired map.
OwnPatchOnly == job.patch

\* The complete map execute_parameter_patch plans with.
CurrentParameters == parameters

\* execute_parameter_patch under both locks: the batch is superseded, or it
\* takes over the accumulated patch and copies the desired map.
ClaimPatch ==
  /\ worker = "claim"
  /\ IF Superseded
     THEN /\ worker' = "discard"
          /\ UNCHANGED <<pending, snapshot>>
     ELSE /\ worker' = "plan"
          /\ pending' = EmptyMap
          /\ snapshot' = CurrentParameters
  /\ UNCHANGED <<running, stopping, urgent, normal, observationVars, job, next,
                 finalizing, outcome, runtimeVars>>

\* record_discarded({}, "superseded parameter patch").
DiscardPatch ==
  /\ worker = "discard"
  /\ \E actual \in SafeStates :
       lastTransition' = Record("failure", TRUE, "unknown", actual)
  /\ EndBatch
  /\ UNCHANGED <<queueVars, parameters, enabled, revision, finalizing, runtimeVars>>

\* The authoritative state is read and the runtime plans the path; every
\* runtime of the repository plans with standard_parameter_transitions.
PlanPatch ==
  /\ worker = "plan"
  /\ \E read \in StateReads :
       IF read = "threw"
       THEN /\ lastTransition' = Record("error", FALSE, "unknown", "unknown")
            /\ EndBatch
       ELSE /\ job' = [job EXCEPT !.requests = StandardParameterTransitions(read, snapshot)]
            /\ worker' = "next"
            /\ UNCHANGED <<lastTransition, next, snapshot, outcome>>
  /\ UNCHANGED <<queueVars, parameters, enabled, revision, finalizing, runtimeVars>>
------------------------------------------------------------------------------
Current == job.requests[next]

\* The loop over the requests of the batch ends.
FinishBatch ==
  /\ worker = "next"
  /\ next > Len(job.requests)
  /\ EndBatch
  /\ UNCHANGED <<queueVars, observationVars, finalizing, runtimeVars>>

\* Mutant: a request is executed whatever state the runtime is in.
SourceNeverStale(read) == read # "threw"

\* execute() goes on to the runtime only from the request's source state.
SourceMatches(read) == read = Current.from

\* execute() reads the source state: the request is handed to the runtime,
\* discarded because the state is stale, or fails because the read threw.
CheckSource ==
  /\ worker = "next"
  /\ next <= Len(job.requests)
  /\ \E read \in StateReads :
       IF SourceMatches(read)
       THEN /\ worker' = "call"
            /\ UNCHANGED <<lastTransition, job, next, snapshot, outcome>>
       ELSE /\ EndBatch
            /\ lastTransition' =
                 IF read = "threw"
                 THEN Record("error", FALSE, Current.target, "unknown")
                 ELSE Record("failure", TRUE, Current.target, read)
  /\ UNCHANGED <<queueVars, parameters, enabled, revision, finalizing, runtimeVars>>

\* What a call may do: <<result, the state it leaves the runtime in>>.
Outcomes(request) ==
  IF ~SupportedEdge(request.from, request.target)
  THEN { <<"failure", state>> }
  ELSE { <<"success", request.target>> } \cup
       ((Result \cup {"threw"}) \X FaultStates)

\* request_transition() returns or throws.
RuntimeReturns ==
  /\ worker = "call"
  /\ \E result \in Outcomes(Current) :
       /\ outcome' = result[1]
       /\ state' = result[2]
       /\ applied' = IF /\ Current.from = "unconfigured" /\ Current.target = "inactive"
                        /\ result = <<"success", "inactive">>
                     THEN Current.parameters
                     ELSE applied
  /\ worker' = "record"
  /\ UNCHANGED <<queueVars, observationVars, job, next, snapshot, finalizing>>

\* Mutant: the runtime's word is taken without reading its state.
BelievedOutcome(read) ==
  IF outcome = "threw" \/ read = "threw"
  THEN Record("error", FALSE, Current.target, SafeState(read))
  ELSE Record(outcome, FALSE, Current.target, read)

\* The record execute() writes: an exception is an ERROR, a SUCCESS that did
\* not reach the target is a FAILURE.
RecordOf(read) ==
  IF outcome = "threw" \/ read = "threw"
  THEN Record("error", FALSE, Current.target, SafeState(read))
  ELSE Record(IF outcome = "success" /\ read # Current.target THEN "failure" ELSE outcome,
              FALSE, Current.target, read)

\* Mutant: the batch goes on after a failed request.
BatchContinuesAnyway(record) == TRUE

\* Does the batch go on to its next request?
Succeeded(record) == record.result = "success"

\* execute() reads the state back, normalises the result and records it.
RecordOutcome ==
  /\ worker = "record"
  /\ \E read \in StateReads :
       /\ lastTransition' = RecordOf(read)
       /\ IF Succeeded(RecordOf(read))
          THEN /\ worker' = "next"
               /\ next' = next + 1
               /\ outcome' = "success"
               /\ UNCHANGED <<job, snapshot>>
          ELSE EndBatch
  /\ UNCHANGED <<queueVars, parameters, enabled, revision, finalizing, runtimeVars>>

\* run() sees stopping_ and calls finalize(): nothing to do when the runtime
\* is already FINALIZED, otherwise one direct transition to FINALIZED.
Finalize ==
  /\ worker = "idle" /\ stopping
  /\ \E actual \in SafeStates :
       IF actual = "finalized"
       THEN /\ worker' = "exited"
            /\ UNCHANGED <<job, next, finalizing>>
       ELSE /\ worker' = "next"
            /\ job' = LifecycleBatch(<< Request(actual, "finalized", EmptyMap) >>)
            /\ next' = 1
            /\ finalizing' = TRUE
  /\ UNCHANGED <<queueVars, observationVars, snapshot, outcome, runtimeVars>>

\* The runtime's state changes without a request (a node shut down by its own
\* process, another client of the ROS lifecycle node).
StateDrifts ==
  /\ state' \in DriftStates \ {state}
  /\ UNCHANGED <<queueVars, observationVars, workerVars, applied>>
------------------------------------------------------------------------------
Submit ==
  \/ \E path \in InputPaths, priority \in Priorities : Enqueue(path, priority)
  \/ \E patch \in InputPatches :
       \/ DisabledPatch(patch)
       \/ GatePatch(patch)
       \/ \E priority \in Priorities : QueuePatch(patch, priority)

Worker ==
  \/ Take \/ ClaimPatch \/ DiscardPatch \/ PlanPatch
  \/ FinishBatch \/ CheckSource \/ RuntimeReturns \/ RecordOutcome
  \/ Finalize

Next == Start \/ Stop \/ Join \/ Submit \/ Worker \/ StateDrifts

Spec == Init /\ [][Next]_vars

\* The worker thread is scheduled, every runtime call returns, and the
\* caller of stop() sits in join(): none of the callers has to call.
FairSpec == Spec /\ WF_vars(Worker) /\ WF_vars(Join)
------------------------------------------------------------------------------
\* Every variable has its type; the two queues hold only well-formed batches.
TypeOK ==
  /\ running \in BOOLEAN /\ stopping \in BOOLEAN
  /\ urgent \in Seq(BatchType) /\ normal \in Seq(BatchType)
  /\ pending \in ParameterMaps
  /\ parameters \in ParameterMaps
  /\ enabled \in BOOLEAN
  /\ revision \in Nat
  /\ lastTransition \in RecordType
  /\ worker \in WorkerState
  /\ job \in BatchType
  /\ next \in Nat \ {0}
  /\ snapshot \in ParameterMaps
  /\ finalizing \in BOOLEAN
  /\ outcome \in Result \cup {"threw"}
  /\ state \in LifecycleState
  /\ applied \in ParameterMaps

\* The patches accepted and not yet claimed: queued, or popped by the worker
\* that has not reached execute_parameter_patch's critical section.
UnclaimedPatches ==
  { batch \in ToSet(urgent) \cup ToSet(normal) : IsPatch(batch) }
    \cup (IF worker = "claim" THEN {job} ELSE {})

\* The accumulated patch is never orphaned: while it is not empty the batch
\* of the current revision is still to be claimed and carries all of it
\* (enqueue_parameter_patch and execute_parameter_patch agree).
PendingIsQueued ==
  pending # EmptyMap =>
    \E batch \in UnclaimedPatches :
      batch.revision = revision /\ batch.patch = pending

\* A patch being executed plans with the newest desired map, unless a newer
\* patch has already taken its revision away.
PatchPlansNewest ==
  (worker = "plan" \/ (worker \in {"next", "call", "record"} /\ IsPatch(job))) =>
    snapshot = parameters \/ job.revision < revision

\* When a planned patch path runs to its end, the runtime was last configured
\* with the map the patch was planned from.  Only a runtime that lies about a
\* configure and then enters INACTIVE by itself could deceive execute().
CompletedPatchApplied ==
  (/\ ~Faulty \/ "inactive" \notin DriftStates
   /\ worker = "next" /\ IsPatch(job) /\ job.requests # << >> /\ next > Len(job.requests)) =>
    applied = snapshot

\* A batch never goes past a request that failed, was discarded or missed its
\* target: the last record is a success that ended where the next one starts.
AdjacentExecution ==
  (worker = "next" /\ next \in 2..Len(job.requests)) =>
    /\ lastTransition.result = "success"
    /\ ~lastTransition.discarded
    /\ lastTransition.actual = Current.from

\* With nobody else driving the node, the source state checked by execute()
\* is still the runtime's state while the request runs.
CalledFromSource ==
  (DriftStates = {} /\ worker = "call") => state = Current.from

\* A stopped queue holds nothing that a later start() could execute.
StoppedIsEmpty ==
  ~running => urgent = << >> /\ normal = << >> /\ pending = EmptyMap

\* When stop() returns, a runtime that works has been brought to FINALIZED,
\* whatever batch the worker was in; a remote node whose state has never been
\* learnt cannot be.
FinalizedWhenJoined ==
  (~Faulty /\ DriftStates = {} /\ stopping /\ worker = "none" /\ state \in PrimaryStates) =>
    state = "finalized"

\* Nothing is left to do for the worker.
Quiescent == running /\ worker = "idle" /\ urgent = << >> /\ normal = << >>

\* The final applied map is always the newest one (design.md, Parameters).
NewestParametersApplied ==
  (Quiescent /\ enabled /\ state \in {"inactive", "active"}) => applied = parameters

\* The accumulated patch is dropped only by a stop, by a patch that leaves the
\* device disabled, or by the worker claiming a batch that carries all of it.
DeltaHandedOver ==
  [][(pending # EmptyMap /\ pending' = EmptyMap) =>
       \/ ~running'
       \/ ~enabled'
       \/ worker = "claim" /\ worker' = "plan" /\ job.patch = pending]_vars

\* stop() returns: the worker leaves its loop and is joined.
StopTerminates == (stopping /\ worker # "none") ~> worker = "none"

\* An accumulated patch is eventually claimed, superseded for good or dropped.
PatchSettles == (pending # EmptyMap) ~> (pending = EmptyMap)

\* The two queues and the worker implement the abstract serial executor.
Entry(batch, isUrgent) == [batch |-> batch, urgent |-> isUrgent]
Backlog == [i \in DOMAIN urgent |-> Entry(urgent[i], TRUE)]
             \o [i \in DOMAIN normal |-> Entry(normal[i], FALSE)]
Phase ==
  CASE worker = "none" -> "closed"
    [] worker = "idle" -> "waiting"
    [] worker = "exited" -> "done"
    [] worker = "call" -> "calling"
    [] finalizing /\ (worker = "record" \/ (worker = "next" /\ next > 1)) -> "ended"
    [] OTHER -> "working"
Executor == INSTANCE SerialExecutor
              WITH open <- running, backlog <- Backlog, phase <- Phase,
                   last <- finalizing
ImplementsSerialExecutor == Executor!Spec
==============================================================================
