---------------------------- MODULE ManagedDevice_proofs ----------------------------
(***************************************************************************)
(* A device of an in-process runtime under automatic management, for any   *)
(* parameters, submissions, reported events and number of failures: what   *)
(* the queue keeps promising, and with which parameters the device runs.   *)
(***************************************************************************)
EXTENDS ManagedDevice, HookedDevice_proofs

\* The path down the ladder, as requests.
LEMMA RecoveryIsPath ==
  ASSUME NEW from, NEW target
  PROVE  RecoveryRequests(from, target) \in Seq(RequestType)
<1> DEFINE low == Rung(from)
           high == Rung(target)
           path == [i \in 1..(high - low) |-> <<Ladder[low + i - 1], Ladder[low + i]>>]
           request(i) == Request(Ladder[low + i - 1], Ladder[low + i], EmptyMap)
<1>1. CASE from \notin ToSet(Ladder) \/ target \notin ToSet(Ladder)
  <2>1. RecoveryRequests(from, target) = << >>
    BY <1>1 DEF RecoveryRequests
  <2> QED BY <2>1
<1>2. CASE from \in ToSet(Ladder) /\ target \in ToSet(Ladder)
  <2>1. DOMAIN Ladder = 1..4 /\ \A i \in 1..4 : Ladder[i] \in LifecycleState
    BY DEF Ladder, LifecycleState, PrimaryStates
  <2>2. low \in 1..4 /\ high \in 1..4
    BY <1>2, <2>1 DEF ToSet, Rung
  <2> HIDE DEF low, high
  <2>3. ASSUME NEW i \in 1..(high - low)
        PROVE  request(i) \in RequestType
    <3>1. low + i - 1 \in 1..4 /\ low + i \in 1..4
      BY <2>2
    <3> QED BY <2>1, <3>1, EmptyMapIsMap, RequestIsRequest
  <2>4. Edges(path) = [i \in 1..(high - low) |-> request(i)]
    BY DEF Edges
  <2>5. RecoveryRequests(from, target) = [i \in 1..(high - low) |-> request(i)]
    BY <1>2, <2>4 DEF RecoveryRequests, low, high
  <2> HIDE DEF request
  <2>6. CASE high - low \in Nat
    BY <2>3, <2>5, <2>6
  <2>7. CASE high - low \notin Nat
    <3> DEFINE none == 1..(high - low)
    <3>1. none = {}
      BY <2>2, <2>7
    <3>2. RecoveryRequests(from, target) = [i \in none |-> request(i)]
      BY <2>5
    <3> HIDE DEF none
    <3>3. RecoveryRequests(from, target) = << >>
      BY <3>1, <3>2
    <3> QED BY <3>3
  <2> QED BY <2>6, <2>7
<1> QED BY <1>1, <1>2

LEMMA ManagedHookAnswers ==
  ASSUME TypeInv
  PROVE  HookRequests \in Seq(RequestType)
<1>1. parameters \in ParameterMaps /\ << >> \in Seq(RequestType)
  BY DEF TypeInv, TypeOK
<1>2. ASSUME NEW from \in PrimaryStates, NEW target \in PrimaryStates, NEW map \in ParameterMaps
      PROVE  << Request(from, target, map) >> \in Seq(RequestType)
  <2>1. Request(from, target, map) \in RequestType
    BY <1>2, RequestIsRequest DEF LifecycleState
  <2> QED BY <2>1
<1>3. \/ \E from, target : HookRequests = RecoveryRequests(from, target)
      \/ HookRequests = << Request("finalized", "unconfigured", parameters) >>
      \/ HookRequests = << Request("unconfigured", "inactive", parameters) >>
      \/ HookRequests = << Request("inactive", "active", EmptyMap) >>
      \/ HookRequests = << >>
  BY DEF HookRequests
<1>4. {"finalized", "unconfigured", "inactive", "active"} \subseteq PrimaryStates
  BY DEF PrimaryStates
<1> QED BY <1>1, <1>2, <1>3, <1>4, RecoveryIsPath, EmptyMapIsMap

\* A failing configure is a call that returns.
LEMMA FailureIsReturn ==
  ASSUME TypeInv, ConfigureFails
  PROVE  AdapterReturns /\ UNCHANGED tickVars
BY DEF ConfigureFails, AdapterReturns, runtimeVars, Result, TypeInv, TypeOK

LEMMA ManagedIsDevice ==
  TypeInv /\ TickTypes /\ [ManagedNext]_mvars => DeviceStep /\ TickTypes'
<1> SUFFICES ASSUME TypeInv, TickTypes, [ManagedNext]_mvars
             PROVE  DeviceStep /\ TickTypes'
  OBVIOUS
<1>1. ASSUME [Next]_vars, UNCHANGED tickVars  PROVE DeviceStep /\ TickTypes'
  BY <1>1 DEF DeviceStep, TickTypes, tickVars
<1>2. CASE QueueStep /\ UNCHANGED managedVars
  BY <1>1, <1>2 DEF QueueStep, HookedStart, Next, managedVars
<1>3. CASE Ticker
  <2>1. HookRequests \in Seq(RequestType)
    BY ManagedHookAnswers
  <2> QED BY <1>3, <2>1, TickIsDeviceStep DEF Ticker
<1>4. CASE ReaderReports
  BY <1>1, <1>4 DEF ReaderReports
<1>5. CASE ConfigureFails
  BY <1>5, FailureIsReturn DEF DeviceStep, HookStep, TickTypes, tickVars
<1>6. CASE UNCHANGED mvars
  BY <1>1, <1>6 DEF mvars, managedVars
<1> QED BY <1>2, <1>3, <1>4, <1>5, <1>6 DEF ManagedNext

LEMMA ManagedDeviceInv == ManagedSpec => [](DeviceInv /\ TickTypes)
<1>1. ManagedInit => DeviceInv /\ TickTypes
  BY DeviceInit, TickTypesInit DEF ManagedInit, HookedInit
<1>2. DeviceInv /\ TickTypes /\ [ManagedNext]_mvars => (DeviceInv /\ TickTypes)'
  BY ManagedIsDevice, DeviceNext DEF DeviceInv
<1> QED BY <1>1, <1>2, PTL DEF ManagedSpec

\* Under the hook of the in-process runtimes and whatever fails, the queue still
\* never orphans an accumulated patch, plans with the newest desired map, stops a
\* batch at the first request that failed, and holds nothing once it is stopped.
THEOREM ManagedQueueHolds ==
  ManagedSpec => [](TypeOK /\ PendingIsQueued /\ PatchPlansNewest /\ AdjacentExecution
                      /\ StoppedIsEmpty)
<1>1. DeviceInv => TypeOK /\ PendingIsQueued /\ PatchPlansNewest /\ AdjacentExecution
                     /\ StoppedIsEmpty
  BY DEF DeviceInv, TypeInv, AdjacentInv
<1> QED BY <1>1, ManagedDeviceInv, PTL

\* ... and hands it over only to a stop, to a patch that leaves the device
\* disabled or to a claimed batch that carries all of it.
THEOREM ManagedHandsOver == ManagedSpec => DeltaHandedOver
<1>1. DeviceInv /\ TickTypes /\ [ManagedNext]_mvars => [HandsOver]_vars
  BY ManagedIsDevice, DeviceHandsOver DEF DeviceInv
<1> QED BY <1>1, ManagedDeviceInv, PTL DEF ManagedSpec, DeltaHandedOver, HandsOver

\* Callers, hook and worker of an in-process device see the serial executor.
THEOREM ManagedQueueIsExecutor == ManagedSpec => ImplementsSerialExecutor
<1>1. ManagedInit => Executor!Init
  BY QueueInit DEF ManagedInit, HookedInit
<1>2. DeviceInv /\ TickTypes /\ [ManagedNext]_mvars => [Executor!Next]_(Executor!vars)
  BY ManagedIsDevice, DeviceRefines DEF DeviceInv
<1> QED
  BY <1>1, <1>2, ManagedDeviceInv, PTL
     DEF ManagedSpec, ImplementsSerialExecutor, Executor!Spec
------------------------------------------------------------------------------
(***************************************************************************)
(* The worker under the hook: what DeviceQueue_proofs follows from the     *)
(* call of a request to its record survives a configure that fails.        *)
(***************************************************************************)
LEMMA ManagedStep ==
  ASSUME TickTypes, [ManagedNext]_mvars
  PROVE  [Next]_vars \/ HookSubmits \/ ConfigureFails
<1>1. CASE QueueStep
  BY <1>1 DEF QueueStep, HookedStart, Next
<1>2. CASE Ticker
  BY <1>2 DEF Ticker, TickReadsState, TickEvaluates, TickSubmits, TickTypes, HookSubmits
<1>3. CASE ReaderReports
  BY <1>3 DEF ReaderReports
<1>4. CASE UNCHANGED mvars
  BY <1>4 DEF mvars
<1> QED BY <1>1, <1>2, <1>3, <1>4 DEF ManagedNext

WorkerInv ==
  /\ TypeInv /\ LoopInv /\ LastInv /\ StartsAtFirst
  /\ CalledFromSource /\ DownInv /\ PathInv /\ AppliedInv

LEMMA SubmissionKeepsWorker ==
  ASSUME HookSubmits, CalledFromSource, DownInv, PathInv, AppliedInv
  PROVE  (CalledFromSource /\ DownInv /\ PathInv /\ AppliedInv)'
<1>1. UNCHANGED <<running, stopping, workerVars, runtimeVars>>
  BY DEF HookSubmits, EnqueueRequests
<1>2. UNCHANGED <<stopping, worker, job, next, snapshot, finalizing, outcome, state, applied>>
  BY <1>1 DEF workerVars, runtimeVars
<1>3. CalledFromSource' /\ PathInv'
  BY <1>2 DEF CalledFromSource, PathInv, Current
<1>4. DownInv'
  BY <1>2 DEF DownInv, Finalizing, Down, Current, Works, Faulty
<1>5. AppliedInv'
  BY <1>2 DEF AppliedInv, Current, Trustworthy, Faulty
<1> QED BY <1>3, <1>4, <1>5

\* The request that failed was no finalization and has configured nothing.
LEMMA FailureKeepsWorker ==
  ASSUME TypeInv, LastInv, ConfigureFails, DownInv, PathInv, AppliedInv
  PROVE  (CalledFromSource /\ DownInv /\ PathInv /\ AppliedInv)'
<1>1. /\ UNCHANGED <<stopping, job, next, snapshot, finalizing, state, applied>>
      /\ worker = "call" /\ worker' = "record" /\ outcome' = "error"
      /\ Current.target = "inactive"
  BY DEF ConfigureFails, queueVars, runtimeVars
<1>2. ~finalizing
  <2>1. next \in 1..Len(job.requests)
    BY <1>1 DEF TypeInv, TypeOK, InBatch
  <2>2. finalizing => Current.target = "finalized"
    BY <1>1, <2>1 DEF LastInv, Finalizing, Current
  <2> QED BY <1>1, <2>2
<1>3. CalledFromSource' /\ DownInv'
  BY <1>1, <1>2 DEF CalledFromSource, DownInv, Finalizing
<1>4. PathInv'
  BY <1>1 DEF PathInv
<1>5. AppliedInv'
  BY <1>1 DEF AppliedInv, Current, Trustworthy, Faulty
<1> QED BY <1>3, <1>4, <1>5

LEMMA ManagedWorkerInv == ManagedSpec => []WorkerInv
<1>1. ManagedInit => WorkerInv
  <2>1. Init => WorkerInv
    BY TypeInit, LoopInit
       DEF Init, WorkerInv, StartsAtFirst, CalledFromSource, DownInv, Finalizing, PathInv, AppliedInv
  <2> QED BY <2>1 DEF ManagedInit, HookedInit
<1>2. DeviceInv /\ TickTypes /\ DeviceInv' /\ WorkerInv /\ [ManagedNext]_mvars => WorkerInv'
  <2> SUFFICES ASSUME DeviceInv, TickTypes, DeviceInv', WorkerInv, [ManagedNext]_mvars
               PROVE  WorkerInv'
    OBVIOUS
  <2>1. (TypeInv /\ LoopInv /\ LastInv /\ StartsAtFirst)'
    BY DEF DeviceInv, AdjacentInv
  <2>2. (CalledFromSource /\ DownInv /\ PathInv /\ AppliedInv)'
    <3>1. CASE [Next]_vars
      BY <3>1, SourceNext, DownNext, PathNext, AppliedNext DEF WorkerInv
    <3>2. CASE HookSubmits
      BY <3>2, SubmissionKeepsWorker DEF WorkerInv
    <3>3. CASE ConfigureFails
      BY <3>3, FailureKeepsWorker DEF WorkerInv
    <3> QED BY <3>1, <3>2, <3>3, ManagedStep
  <2> QED BY <2>1, <2>2 DEF WorkerInv
<1> QED BY <1>1, <1>2, ManagedDeviceInv, PTL DEF ManagedSpec

\* While an in-process runtime carries out a request it is in the request's source
\* state (DeviceQueue::execute checks it; nobody else moves the runtime).
THEOREM ManagedCalledFromSource == ManagedSpec => []CalledFromSource
<1>1. WorkerInv => CalledFromSource
  BY DEF WorkerInv
<1> QED BY <1>1, ManagedWorkerInv, PTL

\* A stop that returns has brought the runtime to FINALIZED, whatever the hook had
\* enqueued and whichever configure failed (DeviceQueue::stop, finalize).
THEOREM ManagedStopFinalizes == ManagedSpec => []FinalizedWhenJoined
<1>1. WorkerInv => FinalizedWhenJoined
  BY DEF WorkerInv, DownInv, Down, Works, FinalizedWhenJoined
<1> QED BY <1>1, ManagedWorkerInv, PTL

\* A patch that has run to its end configured the runtime with the map it was
\* planned from; one whose configure failed does not get there.
THEOREM ManagedCompletedPatch == ManagedSpec => []CompletedPatchApplied
<1>1. WorkerInv => CompletedPatchApplied
  BY PathDone DEF WorkerInv
<1> QED BY <1>1, ManagedWorkerInv, PTL
------------------------------------------------------------------------------
(***************************************************************************)
(* With which parameters the device runs.  An answer of the hook carries   *)
(* the map of the moment it was given and waits in the queue before and    *)
(* behind patches.  Until the gate is closed that does no harm: every      *)
(* answer climbs, so it is discarded once the device is up, and while the  *)
(* newest patch waits or runs whatever an answer applies is applied again. *)
(***************************************************************************)

\* An in-process device that hook and patches drive alone, that starts FINALIZED
\* and whose runtime fails only as ConfigureFails says.
DrivenAlone ==
  /\ InputPaths = {} /\ InitialStates \subseteq {"finalized"}
  /\ FaultStates = {} /\ DriftStates = {}

Up == state \in {"inactive", "active"}
Live == running /\ enabled

\* The newest patch is still to come, or it is on its way.
Executes == worker \in {"plan", "next", "call", "record"} /\ IsPatch(job)
Waiting == \E batch \in UnclaimedPatches : batch.revision = revision
News == Waiting \/ (Executes /\ job.revision = revision)

PatchClaimed == worker \in {"claim", "discard", "plan"} => IsPatch(job)

\* The path of a patch is carried out edge by edge, without a discarded request.
Walks(requests) ==
  /\ requests # << >>
  /\ \A i \in 1..Len(requests) : SupportedEdge(requests[i].from, requests[i].target)
  /\ requests[Len(requests)].target \in {"inactive", "active"}
Walking ==
  (Executes /\ worker # "plan") =>
    /\ Walks(job.requests)
    /\ worker = "next" => IF next <= Len(job.requests) THEN Current.from = state ELSE Up
    /\ worker = "record" => outcome = "success" /\ state = Current.target

\* What the hook has answered and the worker may still execute.
Answers ==
  { batch.requests : batch \in { b \in Queued : ~IsPatch(b) } }
    \cup (IF tick = "submit" THEN {tickRequests} ELSE {})
    \cup (IF worker \in {"next", "call", "record"} /\ ~IsPatch(job) THEN {job.requests} ELSE {})

\* Configuring with this map now would not be the last word.
Harmless(map) == map = parameters \/ News \/ Up
Climbs(request) ==
  <<request.from, request.target>> \in
    { <<"finalized", "unconfigured">>, <<"unconfigured", "inactive">>, <<"inactive", "active">> }
FineAnswer(requests) ==
  /\ Len(requests) = 1 /\ Climbs(requests[1])
  /\ Configures(requests[1]) => Harmless(requests[1].parameters)

\* Until the gate opens, and before a start, there is nothing to do.
Rested == ~running /\ worker = "none" => state = "finalized"
Gated ==
  running /\ ~enabled =>
    /\ state = "finalized" /\ worker = "idle" /\ urgent = << >> /\ normal = << >>
    /\ tick # "submit" /\ (tick = "evaluate" => tickState = "finalized")

Followed == Live /\ Executes => News
AnswersFine == Live => \A requests \in Answers : FineAnswer(requests)
NewestOrNews == Live /\ Up => applied = parameters \/ News

Quiet ==
  /\ eventRevision = 0 /\ handled = 0 /\ state \in PrimaryStates
  /\ PatchClaimed /\ Walking /\ Rested /\ Gated
  /\ Followed /\ AnswersFine /\ NewestOrNews
QuietInv == ~disturbed => Quiet

LEMMA WorkingReads ==
  ASSUME FaultStates = {}, state \in PrimaryStates
  PROVE  ~Faulty /\ StateReads = {state} /\ SafeStates = {state} /\ state # "threw"
BY DEF Faulty, StateReads, SafeStates, SafeState, PrimaryStates

\* The planned path starts where the runtime is and ends above UNCONFIGURED.
LEMMA PlanWalks ==
  ASSUME NEW read \in PrimaryStates, NEW map \in ParameterMaps, NEW plan,
         plan = StandardParameterTransitions(read, map)
  PROVE  Walks(plan) /\ Len(plan) \in Nat \ {0} /\ plan[1].from = read
<1>1. CASE read = "active"
  BY <1>1 DEF StandardParameterTransitions, Request, Walks, SupportedEdge, PrimaryStates
<1>2. CASE read = "inactive"
  BY <1>2 DEF StandardParameterTransitions, Request, Walks, SupportedEdge, PrimaryStates
<1>3. CASE read = "finalized"
  BY <1>3 DEF StandardParameterTransitions, Request, Walks, SupportedEdge, PrimaryStates
<1>4. CASE read = "unconfigured"
  BY <1>4 DEF StandardParameterTransitions, Request, Walks, SupportedEdge, PrimaryStates
<1> QED BY <1>1, <1>2, <1>3, <1>4 DEF PrimaryStates

\* A runtime that works does what it is asked, if it knows the edge.
LEMMA WorkingReturns ==
  ASSUME FaultStates = {}, RuntimeReturns
  PROVE  IF SupportedEdge(Current.from, Current.target)
         THEN /\ outcome' = "success" /\ state' = Current.target
              /\ applied' = IF Configures(Current) THEN Current.parameters ELSE applied
         ELSE UNCHANGED <<state, applied>>
<1>1. PICK result \in Outcomes(Current) :
        /\ outcome' = result[1] /\ state' = result[2]
        /\ applied' = IF /\ Current.from = "unconfigured" /\ Current.target = "inactive"
                         /\ result = <<"success", "inactive">>
                      THEN Current.parameters ELSE applied
  BY DEF RuntimeReturns
<1>2. CASE SupportedEdge(Current.from, Current.target)
  <2>1. result = <<"success", Current.target>>
    BY <1>2 DEF Outcomes
  <2> QED BY <1>1, <1>2, <2>1 DEF Configures
<1>3. CASE ~SupportedEdge(Current.from, Current.target)
  <2>1. result = <<"failure", state>>
    BY <1>3 DEF Outcomes
  <2> QED BY <1>1, <1>3, <2>1
<1> QED BY <1>2, <1>3

LEMMA WorkingRecords ==
  ASSUME FaultStates = {}, state \in PrimaryStates, RecordOutcome,
         outcome = "success", state = Current.target
  PROVE  worker' = "next" /\ next' = next + 1 /\ UNCHANGED <<job, state>>
<1>1. StateReads = {state} /\ state # "threw"
  BY WorkingReads
<1>2. Succeeded(RecordOf(state))
  BY <1>1 DEF Succeeded, RecordOf, Record
<1> QED BY <1>1, <1>2 DEF RecordOutcome, runtimeVars

\* A step that neither a fault nor a closing gate makes.
CalmStep ==
  /\ \/ QueueStep /\ UNCHANGED managedVars
     \/ Ticker
     \/ UNCHANGED <<vars, managedVars>>
  /\ enabled => enabled'

LEMMA CalmSteps ==
  ASSUME eventRevision = 0, [ManagedNext]_mvars, ~disturbed', disturbed \in BOOLEAN
  PROVE  ~disturbed /\ CalmStep /\ eventRevision' = eventRevision
<1>1. CASE UNCHANGED mvars
  BY <1>1 DEF mvars, CalmStep, vars, observationVars, managedVars, eventVars
<1>2. CASE ManagedNext
  <2>1. ~disturbed /\ eventRevision' = eventRevision /\ ~(enabled /\ ~enabled')
    BY <1>2 DEF ManagedNext, Remembered
  <2>2. ~ReaderReports /\ ~ConfigureFails
    BY <2>1 DEF ReaderReports, ConfigureFails, RecordEvent
  <2> QED BY <1>2, <2>1, <2>2 DEF ManagedNext, CalmStep
<1> QED BY <1>1, <1>2

\* What a calm step does, sorted by what the invariant has to say about it.
LEMMA CalmKinds ==
  ASSUME DrivenAlone, TickTypes, Quiet, CalmStep
  PROVE  \/ Start /\ tick = "waiting" /\ UNCHANGED managedVars
         \/ (Stop \/ Join) /\ UNCHANGED managedVars
         \/ \E patch \in InputPatches :
              /\ DisabledPatch(patch) \/ GatePatch(patch)
                   \/ \E priority \in Priorities : QueuePatch(patch, priority)
              /\ UNCHANGED managedVars
         \/ Worker /\ UNCHANGED managedVars
         \/ TickReadsState /\ UNCHANGED eventVars
         \/ TickEvaluates(HookRequests, HandledAfter)
         \/ TickSubmits
         \/ UNCHANGED <<vars, managedVars>>
BY DEF CalmStep, QueueStep, HookedStart, Submit, Ticker, DrivenAlone

LEMMA ClaimNext ==
  ASSUME PatchClaimed, [Next]_vars \/ HookSubmits
  PROVE  PatchClaimed'
<1>1. ASSUME worker' \notin {"claim", "discard", "plan"} \/ UNCHANGED <<worker, job>>
      PROVE  PatchClaimed'
  BY <1>1 DEF PatchClaimed, IsPatch
<1>2. CASE Start \/ Stop \/ Join \/ Submit \/ StateDrifts \/ HookSubmits \/ UNCHANGED vars
  BY <1>1, <1>2, SubmitKeeps
     DEF Start, Stop, Join, StateDrifts, HookSubmits, EnqueueRequests, vars, workerVars
<1>3. CASE Take
  BY <1>3 DEF Take, PatchClaimed
<1>4. CASE ClaimPatch
  BY <1>4 DEF ClaimPatch, PatchClaimed, IsPatch
<1>5. CASE DiscardPatch \/ PlanPatch \/ FinishBatch \/ CheckSource \/ RuntimeReturns
             \/ RecordOutcome \/ Finalize
  BY <1>1, <1>5
     DEF DiscardPatch, PlanPatch, FinishBatch, CheckSource, RuntimeReturns, RecordOutcome,
         Finalize, EndBatch
<1> QED BY <1>2, <1>3, <1>4, <1>5 DEF Next, Worker

\* The path of a patch under a calm step.
LEMMA WalkNext ==
  ASSUME DrivenAlone, TypeInv, StartsAtFirst, BatchInv, state \in PrimaryStates, Walking,
         [Next]_vars \/ HookSubmits
  PROVE  (state \in PrimaryStates /\ Walking)'
<1>1. ~Faulty /\ StateReads = {state} /\ SafeStates = {state} /\ state # "threw" /\ ~StateDrifts
  BY WorkingReads DEF DrivenAlone, StateDrifts
<1>2. ASSUME ~(Executes /\ worker # "plan")'
      PROVE  Walking'
  BY <1>2 DEF Walking
<1>3. ASSUME EndBatch
      PROVE  Walking'
  <2>1. ~IsPatch(job')
    BY <1>3 DEF EndBatch, IsPatch, NoBatch, LifecycleBatch
  <2> QED BY <1>2, <2>1 DEF Executes
<1>4. ASSUME UNCHANGED <<workerVars, state>>
      PROVE  (state \in PrimaryStates /\ Walking)'
  BY <1>4 DEF workerVars, Walking, Executes, Current, Up
<1>5. CASE Start \/ Join \/ Take \/ ClaimPatch \/ Finalize
  <2>1. state' = state
    BY <1>5 DEF Start, Join, Take, ClaimPatch, Finalize, runtimeVars
  <2>2. ~(Executes /\ worker # "plan")'
    <3>1. CASE Start \/ Join \/ ClaimPatch
      BY <3>1 DEF Start, Join, ClaimPatch, Executes
    <3>2. CASE Take
      BY <3>2 DEF Take, Executes
    <3>3. CASE Finalize
      BY <3>3 DEF Finalize, Executes, IsPatch, LifecycleBatch
    <3> QED BY <1>5, <3>1, <3>2, <3>3
  <2> QED BY <1>2, <2>1, <2>2
<1>6. CASE Stop \/ Submit \/ HookSubmits \/ UNCHANGED vars
  BY <1>4, <1>6, SubmitKeeps
     DEF Stop, HookSubmits, EnqueueRequests, vars, workerVars, runtimeVars
<1>7. CASE DiscardPatch \/ FinishBatch
  BY <1>3, <1>7 DEF DiscardPatch, FinishBatch, runtimeVars
<1>8. CASE PlanPatch
  <2> DEFINE plan == StandardParameterTransitions(state, snapshot)
  <2>1. job' = [job EXCEPT !.requests = plan] /\ worker' = "next" /\ next' = next /\ state' = state
    BY <1>1, <1>8 DEF PlanPatch, runtimeVars
  <2>2. next = 1 /\ job \in BatchType /\ snapshot \in ParameterMaps
    BY <1>8 DEF StartsAtFirst, PlanPatch, TypeInv, TypeOK
  <2>3. Walks(plan) /\ Len(plan) \in Nat \ {0} /\ plan[1].from = state
    BY <2>2, PlanWalks
  <2> HIDE DEF plan
  <2>4. job'.requests = plan
    BY <2>1, <2>2 DEF BatchType
  <2>5. Current' = plan[1] /\ next' <= Len(job'.requests)
    BY <2>1, <2>2, <2>3, <2>4 DEF Current
  <2> QED BY <2>1, <2>3, <2>4, <2>5 DEF Walking
<1>9. CASE CheckSource
  <2>1. EndBatch \/ (worker' = "call" /\ UNCHANGED job)
    BY <1>9 DEF CheckSource
  <2>2. state' = state /\ worker = "next"
    BY <1>9 DEF CheckSource, runtimeVars
  <2> QED BY <1>3, <2>1, <2>2 DEF Walking, Executes
<1>10. CASE RuntimeReturns
  <2>1. /\ worker = "call" /\ worker' = "record" /\ UNCHANGED <<job, next>>
        /\ next \in 1..Len(job.requests) /\ Current' = Current
    BY <1>10 DEF RuntimeReturns, TypeInv, TypeOK, InBatch, Current
  <2>2. CASE SupportedEdge(Current.from, Current.target)
    <3>1. outcome' = "success" /\ state' = Current.target
      BY <1>10, <2>2, WorkingReturns DEF DrivenAlone
    <3> QED BY <2>1, <2>2, <3>1 DEF Walking, Executes, SupportedEdge, PrimaryStates
  <2>3. CASE ~SupportedEdge(Current.from, Current.target)
    <3>1. state' = state
      BY <1>10, <2>3, WorkingReturns DEF DrivenAlone
    <3>2. ~Executes
      BY <2>1, <2>3 DEF Walking, Walks, Executes, Current
    <3> QED BY <2>1, <3>1, <3>2 DEF Walking, Executes
  <2> QED BY <2>2, <2>3
<1>11. CASE RecordOutcome
  <2>1. state' = state /\ worker = "record" /\ next \in 1..Len(job.requests)
    BY <1>11 DEF RecordOutcome, runtimeVars, TypeInv, TypeOK, InBatch
  <2>2. CASE ~IsPatch(job)
    <3>1. EndBatch \/ UNCHANGED job
      BY <1>11 DEF RecordOutcome
    <3> QED BY <1>2, <1>3, <2>1, <2>2, <3>1 DEF Executes
  <2>3. CASE IsPatch(job)
    <3>1. Walks(job.requests) /\ outcome = "success" /\ state = Current.target
      BY <2>1, <2>3 DEF Walking, Executes
    <3>2. worker' = "next" /\ next' = next + 1 /\ UNCHANGED <<job, state>>
      BY <1>11, <3>1, WorkingRecords DEF DrivenAlone
    <3>3. CASE next' <= Len(job.requests)
      <4>1. IsContiguous(job.requests)
        BY DEF BatchInv, Sound
      <4>2. job.requests[next].target = job.requests[next'].from
        BY <2>1, <3>2, <3>3, <4>1 DEF IsContiguous
      <4> QED BY <2>1, <3>1, <3>2, <3>3, <4>2 DEF Walking, Current
    <3>4. CASE ~(next' <= Len(job.requests))
      <4>1. next = Len(job.requests)
        BY <2>1, <3>2, <3>4
      <4> QED BY <2>1, <3>1, <3>2, <3>4, <4>1 DEF Walking, Walks, Current, Up
    <3> QED BY <3>3, <3>4
  <2> QED BY <2>2, <2>3
<1> QED
  BY <1>1, <1>5, <1>6, <1>7, <1>8, <1>9, <1>10, <1>11 DEF Next, Worker

LEMMA NothingToRecover == RecoveryRequests("finalized", "finalized") = << >>
<1> DEFINE low == Rung("finalized")
           none == 1..(low - low)
           edge(i) == Request(Ladder[low + i - 1], Ladder[low + i], EmptyMap)
<1>1. low \in 1..4 /\ "finalized" \in ToSet(Ladder)
  BY DEF Rung, Ladder, ToSet
<1> HIDE DEF low
<1>2. none = {}
  BY <1>1
<1>3. RecoveryRequests("finalized", "finalized") = [i \in none |-> edge(i)]
  BY <1>1 DEF RecoveryRequests, Edges, low
<1> HIDE DEF none, edge
<1> QED BY <1>2, <1>3

\* Before a start and until the gate opens the device is left alone.
LEMMA GateNext ==
  ASSUME DrivenAlone, DeviceInv, WorkerInv, TickTypes, Quiet, CalmStep
  PROVE  handled' = 0 /\ Rested' /\ Gated'
<1>1. /\ handled = 0 /\ Rested /\ Gated /\ (running => ~stopping /\ worker \notin {"none", "exited"})
      /\ state \in PrimaryStates
  BY DEF Quiet, WorkerInv, LoopInv
<1>2. ASSUME UNCHANGED <<running, enabled, state, worker, urgent, normal>>,
             UNCHANGED tickVars \/ (tick' = "waiting" /\ handled' = handled)
      PROVE  handled' = 0 /\ Rested' /\ Gated'
  BY <1>1, <1>2 DEF Rested, Gated, tickVars
<1>3. CASE Start /\ tick = "waiting" /\ UNCHANGED managedVars
  <2>1. urgent = << >> /\ normal = << >> /\ state = "finalized"
    BY <1>1, <1>3 DEF DeviceInv, StoppedIsEmpty, Rested, Start
  <2> QED BY <1>1, <1>3, <2>1 DEF Start, Rested, Gated, managedVars, tickVars, runtimeVars
<1>4. CASE Stop /\ UNCHANGED managedVars
  BY <1>1, <1>4 DEF Stop, Rested, Gated, managedVars, tickVars, workerVars
<1>5. CASE Join /\ UNCHANGED managedVars
  <2>1. state = "finalized"
    BY <1>1, <1>5 DEF Join, WorkerInv, DownInv, Down, Works, Faulty, DrivenAlone
  <2> QED BY <1>1, <1>5, <2>1 DEF Join, queueVars, Rested, Gated, managedVars, tickVars, runtimeVars
<1>6. ASSUME NEW patch \in InputPatches,
             DisabledPatch(patch) \/ GatePatch(patch)
               \/ \E priority \in Priorities : QueuePatch(patch, priority),
             UNCHANGED managedVars
      PROVE  handled' = 0 /\ Rested' /\ Gated'
  <2>1. running /\ UNCHANGED <<running, tickVars, worker, state>>
    BY <1>6 DEF DisabledPatch, GatePatch, QueuePatch, AcceptPatch, managedVars, workerVars, runtimeVars
  <2>2. enabled' \/ DisabledPatch(patch)
    BY <1>6 DEF GatePatch, QueuePatch, AcceptPatch
  <2>3. ~enabled' => ~enabled /\ UNCHANGED <<urgent, normal>>
    BY <2>2 DEF DisabledPatch, CalmStep
  <2> QED BY <1>1, <2>1, <2>3 DEF Rested, Gated, tickVars
<1>7. CASE Worker /\ UNCHANGED managedVars
  <2>1. /\ UNCHANGED <<running, enabled, tickVars>>
        /\ worker # "none" /\ worker' # "none"
    BY <1>7 DEF Worker, Take, ClaimPatch, DiscardPatch, PlanPatch, FinishBatch, CheckSource,
                RuntimeReturns, RecordOutcome, Finalize, EndBatch, queueVars, observationVars,
                managedVars
  <2>2. ~(running /\ ~enabled)
    <3>1. SUFFICES ASSUME running, ~enabled, worker = "idle", urgent = << >>, normal = << >>,
                          ~stopping
                   PROVE  FALSE
      BY <1>1 DEF Gated
    <3> QED
      BY <1>7, <3>1
         DEF Worker, Take, PopFront, ClaimPatch, DiscardPatch, PlanPatch, FinishBatch, CheckSource,
             RuntimeReturns, RecordOutcome, Finalize
  <2> QED BY <1>1, <2>1, <2>2 DEF Rested, Gated, tickVars
<1>8. CASE TickReadsState
  BY <1>1, <1>8 DEF TickReadsState, vars, queueVars, observationVars, workerVars, runtimeVars,
                    Rested, Gated
<1>9. CASE TickEvaluates(HookRequests, HandledAfter)
  <2>1. HandledAfter = 0
    BY DEF HandledAfter, NeedsRecovery, Quiet
  <2>2. UNCHANGED <<running, enabled, state, worker, urgent, normal>> /\ tick = "evaluate"
    BY <1>9 DEF TickEvaluates, vars, queueVars, observationVars, workerVars, runtimeVars
  <2>3. ASSUME running, ~enabled
        PROVE  tick' = "waiting"
    <3>1. tickState = "finalized"
      BY <1>1, <2>2, <2>3 DEF Gated
    <3>2. HookRequests = << >>
      BY <2>3, <3>1, NothingToRecover DEF HookRequests
    <3> QED BY <1>9, <3>2 DEF TickEvaluates
  <2>4. handled' = 0
    BY <1>9, <2>1 DEF TickEvaluates
  <2> QED BY <1>1, <2>2, <2>3, <2>4 DEF Rested, Gated
<1>10. CASE TickSubmits
  <2>1. /\ tick = "submit" /\ tick' = "waiting" /\ UNCHANGED <<handled, running, enabled, state, worker>>
    BY <1>10 DEF TickSubmits, EnqueueRequests, vars, queueVars, observationVars, workerVars, runtimeVars
  <2> QED BY <1>1, <2>1 DEF Rested, Gated
<1>11. CASE UNCHANGED <<vars, managedVars>>
  BY <1>2, <1>11 DEF vars, queueVars, observationVars, workerVars, runtimeVars, managedVars
<1> QED
  BY <1>3, <1>4, <1>5, <1>6, <1>7, <1>8, <1>9, <1>10, <1>11, CalmKinds

\* A calm step while the device is live, sorted by who takes it; the gate may be
\* opened again and changes nothing.
LEMMA LiveKinds ==
  ASSUME DrivenAlone, DeviceInv, TickTypes, Quiet, CalmStep, Live, Live'
  PROVE  \/ \E patch \in InputPatches, priority \in Priorities :
              QueuePatch(patch, priority) /\ UNCHANGED managedVars
         \/ (Worker /\ ~Finalize) /\ UNCHANGED managedVars
         \/ TickSubmits /\ EnqueueRequests(tickRequests, "normal")
         \/ /\ UNCHANGED <<urgent, normal, revision, parameters, workerVars, runtimeVars>>
            /\ \/ UNCHANGED <<tick, tickRequests>> \/ TickReadsState
               \/ TickEvaluates(HookRequests, HandledAfter)
<1> USE DEF Live
<1>1. ~(Start \/ Stop \/ Join \/ Finalize)
  BY DEF Start, Stop, Join, Finalize, DeviceInv, LoopInv
<1>2. ASSUME NEW patch \in InputPatches, DisabledPatch(patch)
      PROVE  FALSE
  BY <1>2 DEF DisabledPatch, AcceptPatch
<1>3. ASSUME NEW patch \in InputPatches, GatePatch(patch), UNCHANGED managedVars
      PROVE  UNCHANGED <<urgent, normal, revision, parameters, workerVars, runtimeVars, tick, tickRequests>>
  <2>1. parameters' = Merge(parameters, EmptyMap)
    BY <1>3 DEF GatePatch, AcceptPatch
  <2>2. parameters' = parameters
    BY <2>1, MergeEmpty DEF DeviceInv, TypeInv, TypeOK
  <2> QED BY <1>3, <2>2 DEF GatePatch, AcceptPatch, managedVars, tickVars
<1>4. CASE TickSubmits
  BY <1>4 DEF TickSubmits
<1>5. CASE TickReadsState \/ TickEvaluates(HookRequests, HandledAfter)
  BY <1>5 DEF TickReadsState, TickEvaluates, vars, queueVars, observationVars
<1>6. CASE UNCHANGED <<vars, managedVars>>
  BY <1>6 DEF vars, queueVars, observationVars, managedVars, tickVars
<1> QED BY <1>1, <1>2, <1>3, <1>4, <1>5, <1>6, CalmKinds

\* While the device is live the newest patch stays news until it has brought the
\* device up with the newest map; and only the worker moves a device with nothing
\* to come, upwards, configuring it with the newest map.
LEMMA NewsNext ==
  ASSUME DrivenAlone, DeviceInv, WorkerInv, TickTypes, Quiet, CalmStep, Live, Live'
  PROVE  /\ Executes' => News'
         /\ \/ News'
            \/ Up' /\ applied' = parameters'
            \/ ~News /\ parameters' = parameters /\ (Up => Up') /\ (Up' => applied' = parameters')
<1> DEFINE Goal ==
             /\ Executes' => News'
             /\ \/ News'
                \/ Up' /\ applied' = parameters'
                \/ ~News /\ parameters' = parameters /\ (Up => Up') /\ (Up' => applied' = parameters')
<1> SUFFICES Goal
  OBVIOUS
<1>0. /\ TypeInv /\ BatchInv /\ ~Faulty /\ state \in PrimaryStates /\ StateReads = {state}
      /\ SafeStates = {state} /\ state # "threw"
      /\ Executes => News
      /\ Up => applied = parameters \/ News
  BY WorkingReads DEF DeviceInv, DrivenAlone, Quiet, Followed, NewestOrNews
<1>1. ASSUME UNCHANGED <<parameters, runtimeVars>>, News => News', Executes' => Executes \/ News'
      PROVE  Goal
  BY <1>0, <1>1 DEF runtimeVars, Up
<1> HIDE DEF Goal
<1>2. ASSUME UnclaimedPatches' = UnclaimedPatches, revision' = revision
      PROVE  Waiting' = Waiting
  BY <1>2 DEF Waiting
<1>3. ASSUME UNCHANGED <<urgent, normal, revision>>, worker # "claim", worker' # "claim"
      PROVE  Waiting' = Waiting
  BY <1>2, <1>3, UnclaimedKept
<1>4. ASSUME NEW patch \in InputPatches, NEW priority \in Priorities, QueuePatch(patch, priority)
      PROVE  Goal
  <2> DEFINE batch == PatchToQueue(patch)
  <2>1. patch \in PatchType /\ patch.values \in ParameterMaps
    BY ConstantsAssumption DEF PatchType
  <2>2. batch \in BatchType /\ IsPatch(batch) /\ batch.revision = revision + 1
    <3>1. Merge(pending, patch.values) \in ParameterMaps /\ revision + 1 \in Nat \ {0}
      BY <1>0, <2>1, MergeIsMap DEF TypeInv, TypeOK
    <3> QED BY <3>1, BatchTypes DEF PatchToQueue, PatchBatch, IsPatch
  <2>3. PushBack(batch, priority) /\ revision' = revision + 1 /\ worker' = worker /\ job' = job
    BY <1>4 DEF QueuePatch, AcceptPatch, workerVars
  <2> HIDE DEF batch
  <2>4. batch \in UnclaimedPatches'
    BY <1>0, <2>2, <2>3, UnclaimedPushed
  <2>5. Waiting'
    BY <2>2, <2>3, <2>4 DEF Waiting
  <2> QED BY <2>5 DEF Goal, News
<1>5. CASE TickSubmits /\ EnqueueRequests(tickRequests, "normal")
  <2> DEFINE batch == LifecycleBatch(tickRequests)
  <2>1. batch \in BatchType /\ ~IsPatch(batch)
    BY BatchTypes DEF TickTypes, LifecycleBatch, IsPatch
  <2>2. PushBack(batch, "normal") /\ UNCHANGED <<observationVars, workerVars, runtimeVars>>
    BY <1>5 DEF EnqueueRequests
  <2> HIDE DEF batch
  <2>3. UNCHANGED <<worker, job, revision, parameters>>
    BY <2>2 DEF workerVars, observationVars
  <2>4. UnclaimedPatches' = UnclaimedPatches
    BY <1>0, <2>1, <2>2, <2>3, UnclaimedPushed
  <2>5. News' = News /\ Executes' = Executes
    BY <1>2, <2>3, <2>4 DEF News, Executes
  <2> QED BY <1>1, <2>2, <2>3, <2>5
<1>6. CASE UNCHANGED <<urgent, normal, revision, parameters, workerVars, runtimeVars>>
  <2>1. News' = News /\ Executes' = Executes
    <3>1. UnclaimedPatches' = UnclaimedPatches
      BY <1>6 DEF UnclaimedPatches, workerVars
    <3> QED BY <1>2, <1>6, <3>1 DEF News, Executes, workerVars
  <2> QED BY <1>1, <1>6, <2>1
<1>7. CASE Take
  <2>1. Waiting' = Waiting
    <3>1. UnclaimedPatches' = UnclaimedPatches /\ revision' = revision
      BY <1>0, <1>7, UnclaimedTaken DEF Take, observationVars
    <3> QED BY <1>2, <3>1
  <2>2. ~Executes /\ ~Executes'
    BY <1>7 DEF Take, Executes
  <2> QED BY <1>1, <1>7, <2>1, <2>2 DEF Take, News, observationVars
<1>8. CASE ClaimPatch
  <2>1. ~Executes /\ UNCHANGED <<urgent, normal, job, revision, parameters, runtimeVars>>
        /\ worker = "claim"
    BY <1>8 DEF ClaimPatch, Executes, observationVars
  <2>2. CASE Superseded
    <3>1. worker' = "discard"
      BY <1>8, <2>2 DEF ClaimPatch
    <3>2. ASSUME NEW batch \in UnclaimedPatches, batch.revision = revision
          PROVE  batch \in UnclaimedPatches'
      BY <2>1, <2>2, <3>1, <3>2 DEF UnclaimedPatches, Superseded
    <3>3. News => Waiting'
      BY <2>1, <3>2 DEF News, Waiting
    <3> QED BY <1>1, <2>1, <3>1, <3>3 DEF News, Executes
  <2>3. CASE ~Superseded
    <3>1. worker' = "plan" /\ job'.revision = revision'
      BY <1>8, <2>1, <2>3 DEF ClaimPatch, Superseded
    <3>2. IsPatch(job')
      BY <2>1 DEF Quiet, PatchClaimed, IsPatch
    <3> QED BY <3>1, <3>2 DEF Goal, News, Executes
  <2> QED BY <2>2, <2>3
<1>9. ASSUME EndBatch, ~Executes \/ ~(job.revision = revision), worker # "claim",
             UNCHANGED <<urgent, normal, revision, parameters, runtimeVars>>
      PROVE  Goal
  <2>1. worker' \in {"idle", "exited"}
    BY <1>9 DEF EndBatch
  <2> QED BY <1>1, <1>3, <1>9, <2>1 DEF News, Executes
<1>10. CASE DiscardPatch
  BY <1>9, <1>10 DEF DiscardPatch, Executes, queueVars
<1>11. ASSUME worker \in {"plan", "next", "call", "record"}, worker' \in {"next", "call", "record"},
              job'.revision = job.revision,
              UNCHANGED <<urgent, normal, revision, parameters>>
       PROVE  News' = News /\ Executes' = Executes
  <2>1. Waiting' = Waiting
    BY <1>3, <1>11
  <2>2. Executes' = Executes
    BY <1>11 DEF Executes, IsPatch
  <2> QED BY <1>11, <2>1, <2>2 DEF News
<1>12. CASE PlanPatch
  <2>1. worker = "plan" /\ worker' = "next" /\ UNCHANGED <<queueVars, parameters, revision, runtimeVars>>
        /\ job' = [job EXCEPT !.requests = StandardParameterTransitions(state, snapshot)]
    BY <1>0, <1>12 DEF PlanPatch
  <2>2. job'.revision = job.revision
    BY <1>0, <2>1 DEF TypeInv, TypeOK, BatchType
  <2> QED BY <1>1, <1>11, <2>1, <2>2 DEF queueVars
<1>13. CASE FinishBatch
  <2>1. /\ EndBatch /\ worker = "next" /\ next > Len(job.requests)
        /\ UNCHANGED <<urgent, normal, revision, parameters, runtimeVars>>
    BY <1>13 DEF FinishBatch, queueVars, observationVars
  <2>2. CASE Executes /\ job.revision = revision
    <3>1. Walks(job.requests) /\ Up
      BY <1>0, <2>1, <2>2 DEF Quiet, Walking, TypeInv, TypeOK
    <3>2. applied = snapshot
      BY <1>0, <2>1, <2>2, <3>1, PathDone DEF WorkerInv, CompletedPatchApplied, Executes, Walks
    <3>3. snapshot = parameters
      BY <1>0, <2>1, <2>2 DEF DeviceInv, PatchPlansNewest, Executes, TypeInv, TypeOK
    <3>4. worker' \in {"idle", "exited"}
      BY <2>1 DEF EndBatch
    <3> QED BY <2>1, <3>1, <3>2, <3>3, <3>4 DEF Goal, Up, Executes, runtimeVars
  <2> QED BY <1>9, <2>1, <2>2
<1>14. CASE CheckSource
  <2>1. /\ worker = "next" /\ next <= Len(job.requests)
        /\ UNCHANGED <<urgent, normal, revision, parameters, runtimeVars>>
    BY <1>14 DEF CheckSource, queueVars
  <2>2. CASE Executes
    <3>1. SourceMatches(state)
      BY <2>1, <2>2 DEF Quiet, Walking, SourceMatches
    <3>2. worker' = "call" /\ UNCHANGED job
      BY <1>0, <1>14, <3>1 DEF CheckSource
    <3> QED BY <1>1, <1>11, <2>1, <3>2
  <2>3. CASE ~Executes
    <3>1. EndBatch \/ (worker' = "call" /\ UNCHANGED job)
      BY <1>14 DEF CheckSource
    <3> QED BY <1>1, <1>9, <1>11, <2>1, <2>3, <3>1
  <2> QED BY <2>2, <2>3
<1>15. CASE RecordOutcome
  <2>1. /\ worker = "record" /\ UNCHANGED <<urgent, normal, revision, parameters, runtimeVars>>
    BY <1>15 DEF RecordOutcome, queueVars
  <2>2. CASE Executes
    <3>1. outcome = "success" /\ state = Current.target
      BY <2>1, <2>2 DEF Quiet, Walking
    <3>2. worker' = "next" /\ UNCHANGED job
      BY <1>0, <1>15, <3>1, WorkingRecords DEF DrivenAlone
    <3> QED BY <1>1, <1>11, <2>1, <3>2
  <2>3. CASE ~Executes
    <3>1. EndBatch \/ (worker' = "next" /\ UNCHANGED job)
      BY <1>15 DEF RecordOutcome
    <3> QED BY <1>1, <1>9, <1>11, <2>1, <2>3, <3>1
  <2> QED BY <2>2, <2>3
<1>16. CASE RuntimeReturns
  <2>1. /\ worker = "call" /\ worker' = "record" /\ UNCHANGED job
        /\ UNCHANGED <<urgent, normal, revision, parameters>>
    BY <1>16 DEF RuntimeReturns, queueVars, observationVars
  <2>2. News' = News /\ Executes' = Executes
    BY <1>11, <2>1
  <2>3. CASE News
    BY <1>0, <2>2, <2>3 DEF Goal
  <2>4. CASE ~News
    <3>1. job.requests \in Answers
      BY <1>0, <2>1, <2>4 DEF Answers, Executes
    <3>2. FineAnswer(job.requests)
      BY <3>1 DEF Quiet, AnswersFine
    <3>3. next = 1
      BY <1>0, <2>1, <3>2 DEF TypeInv, TypeOK, InBatch, FineAnswer
    <3>4. Climbs(Current) /\ (Configures(Current) => Harmless(Current.parameters))
      BY <3>2, <3>3 DEF FineAnswer, Current
    <3>5. state = Current.from
      BY <2>1 DEF WorkerInv, CalledFromSource, DrivenAlone
    <3>6. SupportedEdge(Current.from, Current.target)
      BY <3>4 DEF Climbs, SupportedEdge
    <3>7. /\ state' = Current.target
          /\ applied' = IF Configures(Current) THEN Current.parameters ELSE applied
      BY <1>16, <3>6, WorkingReturns DEF DrivenAlone
    <3>8. CASE Configures(Current)
      <4>1. ~Up /\ Current.parameters = parameters
        BY <2>4, <3>4, <3>5, <3>8 DEF Up, Configures, Harmless
      <4> QED BY <1>0, <2>1, <2>2, <2>4, <3>7, <3>8, <4>1 DEF Goal
    <3>9. CASE ~Configures(Current)
      <4>1. Up' => Up
        BY <3>4, <3>5, <3>7, <3>9 DEF Up, Climbs, Configures
      <4>2. Up => Up'
        BY <3>4, <3>5, <3>7 DEF Up, Climbs
      <4> QED BY <1>0, <2>1, <2>2, <2>4, <3>7, <3>9, <4>1, <4>2 DEF Goal
    <3> QED BY <3>8, <3>9
  <2> QED BY <2>3, <2>4
<1> QED
  BY <1>4, <1>5, <1>6, <1>7, <1>8, <1>10, <1>12, <1>13, <1>14, <1>15, <1>16, LiveKinds DEF Worker

\* Answers come from the hook alone; the worker takes them and drops them.
LEMMA AnswersNext ==
  ASSUME DrivenAlone, DeviceInv, TickTypes, Quiet, CalmStep, Live, Live',
         NEW requests \in Answers'
  PROVE  \/ requests \in Answers
         \/ /\ requests = HookRequests /\ requests # << >>
            /\ TickEvaluates(HookRequests, HandledAfter)
<1>0. TypeInv /\ PatchClaimed
  BY DEF DeviceInv, Quiet
<1> USE DEF Answers
<1>1. ASSUME Queued' \subseteq Queued, tick' # "submit" \/ UNCHANGED <<tick, tickRequests>>,
             \/ worker' \notin {"next", "call", "record"} \/ IsPatch(job') \/ UNCHANGED <<worker, job>>
             \/ /\ worker \in {"next", "call", "record"} /\ job' = job
      PROVE  requests \in Answers
  BY <1>1 DEF IsPatch
<1>2. ASSUME NEW patch \in InputPatches, NEW priority \in Priorities,
             QueuePatch(patch, priority), UNCHANGED managedVars
      PROVE  requests \in Answers
  <2> DEFINE batch == PatchToQueue(patch)
  <2>1. batch \in BatchType /\ IsPatch(batch)
    <3>1. patch.values \in ParameterMaps
      BY ConstantsAssumption DEF PatchType
    <3>2. Merge(pending, patch.values) \in ParameterMaps /\ revision + 1 \in Nat \ {0}
      BY <1>0, <3>1, MergeIsMap DEF TypeInv, TypeOK
    <3> QED BY <3>2, BatchTypes DEF PatchToQueue, PatchBatch, IsPatch
  <2>2. PushBack(batch, priority) /\ UNCHANGED <<worker, job, tick, tickRequests>>
    BY <1>2 DEF QueuePatch, AcceptPatch, workerVars, managedVars, tickVars
  <2> HIDE DEF batch
  <2>3. Queued' = Queued \cup {batch}
    BY <1>0, <2>1, <2>2, QueuedPushed
  <2> QED BY <2>1, <2>2, <2>3 DEF IsPatch
<1>3. CASE TickSubmits /\ EnqueueRequests(tickRequests, "normal")
  <2> DEFINE batch == LifecycleBatch(tickRequests)
  <2>1. batch \in BatchType /\ batch.requests = tickRequests
    BY BatchTypes DEF TickTypes, LifecycleBatch
  <2>2. PushBack(batch, "normal") /\ UNCHANGED <<worker, job>> /\ tick = "submit" /\ tick' = "waiting"
    BY <1>3 DEF EnqueueRequests, TickSubmits, workerVars
  <2> HIDE DEF batch
  <2>3. Queued' = Queued \cup {batch}
    BY <1>0, <2>1, <2>2, QueuedPushed
  <2> QED BY <2>1, <2>2, <2>3 DEF IsPatch
<1>4. CASE /\ UNCHANGED <<urgent, normal, workerVars>>
           /\ UNCHANGED <<tick, tickRequests>> \/ TickReadsState
  <2>1. Queued' = Queued /\ UNCHANGED <<worker, job>>
    BY <1>4 DEF Queued, workerVars
  <2> QED BY <1>1, <1>4, <2>1 DEF TickReadsState
<1>5. CASE UNCHANGED <<urgent, normal, workerVars>> /\ TickEvaluates(HookRequests, HandledAfter)
  <2>1. Queued' = Queued /\ UNCHANGED <<worker, job>>
    BY <1>5 DEF Queued, workerVars
  <2>2. tickRequests' = HookRequests /\ (tick' = "submit" => HookRequests # << >>)
    BY <1>5 DEF TickEvaluates
  <2> QED BY <1>5, <2>1, <2>2 DEF IsPatch
<1>6. CASE Take /\ UNCHANGED managedVars
  <2>1. Queued = Queued' \cup {job'}
    BY <1>0, <1>6, QueuedTaken
  <2>2. UNCHANGED <<tick, tickRequests>>
    BY <1>6 DEF managedVars, tickVars
  <2> QED BY <2>1, <2>2 DEF IsPatch
<1>7. CASE (Worker /\ ~Finalize /\ ~Take) /\ UNCHANGED managedVars
  <2>1. Queued' = Queued /\ UNCHANGED <<tick, tickRequests>>
    BY <1>7
       DEF Worker, ClaimPatch, DiscardPatch, PlanPatch, FinishBatch, CheckSource, RuntimeReturns,
           RecordOutcome, queueVars, Queued, managedVars, tickVars
  <2>2. CASE PlanPatch
    <3>1. job'.revision = job.revision \/ EndBatch
      BY <1>0, <2>2 DEF PlanPatch, TypeInv, TypeOK, BatchType
    <3>2. IsPatch(job)
      BY <1>0, <2>2 DEF PlanPatch, PatchClaimed
    <3> QED BY <1>1, <2>1, <3>1, <3>2 DEF IsPatch, EndBatch
  <2>3. CASE ~PlanPatch
    BY <1>1, <1>7, <2>1, <2>3
       DEF Worker, ClaimPatch, DiscardPatch, FinishBatch, CheckSource, RuntimeReturns,
           RecordOutcome, EndBatch
  <2> QED BY <2>2, <2>3
<1> QED BY <1>2, <1>3, <1>4, <1>5, <1>6, <1>7, LiveKinds

\* The hook climbs while the device is live and nothing was reported.
LEMMA HookClimbs ==
  ASSUME Quiet, Live, HookRequests # << >>
  PROVE  /\ Len(HookRequests) = 1 /\ Climbs(HookRequests[1])
         /\ Configures(HookRequests[1]) => HookRequests[1].parameters = parameters
<1>1. ~NeedsRecovery /\ enabled
  BY DEF Quiet, NeedsRecovery, Live
<1>2. \/ HookRequests = << Request("finalized", "unconfigured", parameters) >>
      \/ HookRequests = << Request("unconfigured", "inactive", parameters) >>
      \/ HookRequests = << Request("inactive", "active", EmptyMap) >>
  BY <1>1 DEF HookRequests
<1> QED BY <1>2 DEF Request, Climbs, Configures

\* The gate opens, or the queue starts, over a device that is at rest.
LEMMA OpeningNext ==
  ASSUME DrivenAlone, DeviceInv, TickTypes, Quiet, CalmStep, ~Live, Live'
  PROVE  (Followed /\ AnswersFine /\ NewestOrNews)'
<1>0. TypeInv
  BY DEF DeviceInv
<1>1. ASSUME state' = "finalized", worker' = "idle", tick' # "submit",
             \A batch \in Queued' : IsPatch(batch)
      PROVE  (Followed /\ AnswersFine /\ NewestOrNews)'
  <2>1. Answers' = {}
    BY <1>1 DEF Answers, IsPatch
  <2> QED BY <1>1, <2>1 DEF Followed, Executes, AnswersFine, NewestOrNews, Up
<1>2. CASE Start /\ tick = "waiting" /\ UNCHANGED managedVars
  <2>1. state = "finalized" /\ urgent' = << >> /\ normal' = << >>
    BY <1>2 DEF Start, Quiet, Rested, DeviceInv, StoppedIsEmpty
  <2>2. Queued' = {}
    BY <2>1 DEF Queued, ToSet
  <2> QED BY <1>1, <1>2, <2>1, <2>2 DEF Start, runtimeVars, managedVars, tickVars
<1>3. ASSUME NEW patch \in InputPatches,
             DisabledPatch(patch) \/ GatePatch(patch)
               \/ \E priority \in Priorities : QueuePatch(patch, priority),
             UNCHANGED managedVars
      PROVE  (Followed /\ AnswersFine /\ NewestOrNews)'
  <2>1. running /\ UNCHANGED <<workerVars, runtimeVars, tickVars>>
    BY <1>3 DEF DisabledPatch, GatePatch, QueuePatch, AcceptPatch, managedVars
  <2>2. state = "finalized" /\ worker = "idle" /\ tick # "submit" /\ urgent = << >> /\ normal = << >>
    BY <2>1 DEF Live, Quiet, Gated
  <2>3. Queued = {}
    BY <2>2 DEF Queued, ToSet
  <2>4. ASSUME NEW batch \in Queued'
        PROVE  IsPatch(batch)
    <3>1. CASE DisabledPatch(patch) \/ GatePatch(patch)
      BY <2>3, <2>4, <3>1 DEF DisabledPatch, GatePatch, Queued
    <3>2. ASSUME NEW priority \in Priorities, QueuePatch(patch, priority)
          PROVE  IsPatch(batch)
      <4> DEFINE new == PatchToQueue(patch)
      <4>1. new \in BatchType /\ IsPatch(new)
        <5>1. patch.values \in ParameterMaps
          BY ConstantsAssumption DEF PatchType
        <5>2. Merge(pending, patch.values) \in ParameterMaps /\ revision + 1 \in Nat \ {0}
          BY <1>0, <5>1, MergeIsMap DEF TypeInv, TypeOK
        <5> QED BY <5>2, BatchTypes DEF PatchToQueue, PatchBatch, IsPatch
      <4>2. PushBack(new, priority)
        BY <3>2 DEF QueuePatch
      <4> HIDE DEF new
      <4> QED BY <1>0, <2>3, <2>4, <4>1, <4>2, QueuedPushed
    <3> QED BY <1>3, <3>1, <3>2
  <2> QED BY <1>1, <2>1, <2>2, <2>4 DEF workerVars, runtimeVars, tickVars
<1>4. ~((Stop \/ Join) /\ UNCHANGED managedVars)
  BY DEF Stop, Join, queueVars, Live
<1>5. ~((Worker /\ UNCHANGED managedVars) \/ UNCHANGED <<vars, managedVars>>)
  BY DEF Worker, Take, ClaimPatch, DiscardPatch, PlanPatch, FinishBatch, CheckSource,
         RuntimeReturns, RecordOutcome, Finalize, queueVars, observationVars, vars, Live
<1>6. ~(TickReadsState \/ TickEvaluates(HookRequests, HandledAfter) \/ TickSubmits)
  BY DEF TickReadsState, TickEvaluates, TickSubmits, EnqueueRequests, vars, queueVars,
         observationVars, Live
<1> QED BY <1>2, <1>3, <1>4, <1>5, <1>6, CalmKinds

LEMMA LiveNext ==
  ASSUME DrivenAlone, DeviceInv, WorkerInv, TickTypes, Quiet, CalmStep, Live, Live'
  PROVE  (Followed /\ AnswersFine /\ NewestOrNews)'
<1>1. /\ Executes' => News'
      /\ \/ News'
         \/ Up' /\ applied' = parameters'
         \/ ~News /\ parameters' = parameters /\ (Up => Up') /\ (Up' => applied' = parameters')
  BY NewsNext
<1>2. ASSUME NEW requests \in Answers'
      PROVE  FineAnswer(requests)'
  <2>1. CASE requests \in Answers
    <3>1. FineAnswer(requests)
      BY <2>1 DEF Quiet, AnswersFine
    <3>2. \A map : Harmless(map) => Harmless(map)'
      BY <1>1 DEF Harmless
    <3> QED BY <3>1, <3>2 DEF FineAnswer
  <2>2. CASE requests = HookRequests /\ requests # << >> /\ TickEvaluates(HookRequests, HandledAfter)
    <3>1. parameters' = parameters
      BY <2>2 DEF TickEvaluates, vars, observationVars
    <3> QED BY <2>2, <3>1, HookClimbs DEF FineAnswer, Harmless
  <2> QED BY <2>1, <2>2, AnswersNext
<1> QED BY <1>1, <1>2 DEF Followed, AnswersFine, NewestOrNews

LEMMA QuietNext ==
  ASSUME DrivenAlone, DeviceInv, WorkerInv, TickTypes, QuietInv, disturbed \in BOOLEAN,
         [ManagedNext]_mvars
  PROVE  QuietInv'
<1> SUFFICES ASSUME ~disturbed'
             PROVE  Quiet'
  BY DEF QuietInv
<1>1. Quiet /\ eventRevision = 0
  <2>1. ~disturbed
    BY DEF ManagedNext, Remembered, mvars
  <2> QED BY <2>1 DEF QuietInv, Quiet
<1>2. CalmStep /\ eventRevision' = 0
  BY <1>1, CalmSteps
<1>3. [Next]_vars \/ HookSubmits
  <2>1. ~ConfigureFails
    BY <1>1, <1>2 DEF ConfigureFails, RecordEvent
  <2> QED BY <2>1, ManagedStep
<1>4. (state \in PrimaryStates /\ PatchClaimed /\ Walking)'
  BY <1>1, <1>3, WalkNext, ClaimNext DEF Quiet, DeviceInv, AdjacentInv
<1>5. handled' = 0 /\ Rested' /\ Gated'
  BY <1>1, <1>2, GateNext
<1>6. (Followed /\ AnswersFine /\ NewestOrNews)'
  <2>1. CASE ~Live'
    BY <2>1 DEF Followed, AnswersFine, NewestOrNews
  <2>2. CASE ~Live /\ Live'
    BY <1>1, <1>2, <2>2, OpeningNext
  <2>3. CASE Live /\ Live'
    BY <1>1, <1>2, <2>3, LiveNext
  <2> QED BY <2>1, <2>2, <2>3
<1> QED BY <1>2, <1>4, <1>5, <1>6 DEF Quiet

LEMMA QuietInit == DrivenAlone /\ ManagedInit => QuietInv /\ disturbed \in BOOLEAN
<1> SUFFICES ASSUME DrivenAlone, ManagedInit
             PROVE  QuietInv /\ disturbed \in BOOLEAN
  OBVIOUS
<1>1. /\ state = "finalized" /\ worker = "none" /\ ~running /\ handled = 0 /\ eventRevision = 0
      /\ disturbed = FALSE
  BY DEF ManagedInit, HookedInit, Init, DrivenAlone
<1>2. PatchClaimed /\ Walking /\ Rested /\ Gated /\ Followed /\ AnswersFine /\ NewestOrNews
  BY <1>1 DEF PatchClaimed, Walking, Executes, Rested, Gated, Followed, AnswersFine, NewestOrNews,
              Live
<1> QED BY <1>1, <1>2 DEF QuietInv, Quiet, PrimaryStates

\* Until an event is reported or the gate is closed, a device with nothing queued
\* and nothing running that is configured runs with the newest desired map,
\* whatever map the hook's answers carry and however patches cross them
\* (DeviceManager::tick, enqueue_parameter_patch, execute_parameter_patch).
THEOREM ManagedRunsNewest == DrivenAlone => (ManagedSpec => []NewestUntilFault)
<1> SUFFICES ASSUME DrivenAlone
             PROVE  ManagedSpec => []NewestUntilFault
  OBVIOUS
<1> DEFINE Known == QuietInv /\ disturbed \in BOOLEAN
<1>1. ManagedInit => Known
  BY QuietInit
<1>2. DeviceInv /\ WorkerInv /\ TickTypes /\ Known /\ [ManagedNext]_mvars => Known'
  <2> SUFFICES ASSUME DeviceInv, WorkerInv, TickTypes, Known, [ManagedNext]_mvars
               PROVE  Known'
    OBVIOUS
  <2>1. disturbed' \in BOOLEAN
    BY DEF ManagedNext, Remembered, mvars
  <2> QED BY <2>1, QuietNext
<1>3. TypeInv /\ Known => NewestUntilFault
  <2> SUFFICES ASSUME TypeInv, Quiet, Quiescent, enabled, Up
               PROVE  applied = parameters
    BY DEF QuietInv, NewestUntilFault, NewestParametersApplied, Up
  <2>1. Live /\ worker = "idle" /\ urgent = << >> /\ normal = << >>
    BY DEF Quiescent, Live
  <2>2. ~News
    BY <2>1 DEF News, Waiting, UnclaimedPatches, Executes, ToSet
  <2> QED BY <2>1, <2>2 DEF Quiet, NewestOrNews
<1>4. DeviceInv => TypeInv
  BY DEF DeviceInv
<1> HIDE DEF Known
<1> QED BY <1>1, <1>2, <1>3, <1>4, ManagedDeviceInv, ManagedWorkerInv, PTL DEF ManagedSpec
==============================================================================
