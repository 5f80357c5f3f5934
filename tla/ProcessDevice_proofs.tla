------------------------ MODULE ProcessDevice_proofs -------------------------
(***************************************************************************)
(* What holds of a process-hosted device for any parameters, node events   *)
(* and number of faults.                                                   *)
(***************************************************************************)
EXTENDS ProcessDevice, HookedDevice_proofs

\* An adapter call never leaves FINALIZED cached while it owns a process.
LEMMA CallKeepsOwnership ==
  ASSUME FinalizedOwnsNothing, AdapterCall
  PROVE  FinalizedOwnsNothing'
<1> USE DEF FinalizedOwnsNothing
<1>1. ASSUME NEW reached, NEW otherwise,
             reached # "finalized", StartProcess(reached, otherwise)
      PROVE  FinalizedOwnsNothing'
  BY <1>1 DEF StartProcess, Answers
<1>2. CASE StopFails
  BY <1>2 DEF StopFails, Answers
<1>3. CASE Materialize
  <2>1. CASE AfterReap # "none" /\ Answers("success", "unconfigured", AfterReap, applied)
    BY <2>1 DEF Answers
  <2>2. CASE StartProcess("unconfigured", state)
    BY <1>1, <2>2
  <2> QED BY <1>3, <2>1, <2>2 DEF Materialize
<1>4. CASE Configure
  <2>1. CASE AfterReap # "none" /\ Answers("success", "inactive", AfterReap, applied)
    BY <2>1 DEF Answers
  <2>2. CASE StartProcess("inactive", "finalized")
    BY <1>1, <2>2
  <2>3. CASE StartProcess("inactive", state)
    BY <1>1, <2>3
  <2> QED BY <1>2, <1>4, <2>1, <2>2, <2>3 DEF Configure
<1>5. ASSUME NEW from, NEW target, target # "finalized", Switch(from, target)
      PROVE  FinalizedOwnsNothing'
  BY <1>5 DEF Switch, Answers
<1>6. ASSUME NEW reached, StopProcess(reached)
      PROVE  FinalizedOwnsNothing'
  BY <1>2, <1>6 DEF StopProcess, Answers
<1>7. CASE Unsupported
  BY <1>7 DEF Unsupported, Answers
<1> QED
  BY <1>3, <1>4, <1>5, <1>6, <1>7 DEF AdapterCall, Cleanup, Dematerialize

\* Reading the state, from whatever thread, only gives processes up.
LEMMA ReadingKeepsOwnership ==
  ASSUME FinalizedOwnsNothing, ReadState, UNCHANGED state
  PROVE  FinalizedOwnsNothing'
BY DEF FinalizedOwnsNothing, ReadState, AfterReap

\* The adapter never answers FINALIZED while it owns a process group, whatever
\* exits, fails to start or refuses to stop, and whoever reaps it.
THEOREM FinalizedOwnsNothingHolds == ProcessSpec => []FinalizedOwnsNothing
<1>1. ProcessInit => FinalizedOwnsNothing
  BY DEF ProcessInit, FinalizedOwnsNothing
<1>2. FinalizedOwnsNothing /\ [ProcessNext]_pvars => FinalizedOwnsNothing'
  <2> SUFFICES ASSUME FinalizedOwnsNothing, [ProcessNext]_pvars
               PROVE  FinalizedOwnsNothing'
    OBVIOUS
  <2>1. CASE ProcessExits
    BY <2>1 DEF ProcessExits, FinalizedOwnsNothing, vars, runtimeVars
  <2>2. CASE NodePublishes
    BY <2>2 DEF NodePublishes, FinalizedOwnsNothing, vars, runtimeVars
  <2>3. CASE DeliverNodeEvent
    BY <2>3 DEF DeliverNodeEvent, FinalizedOwnsNothing, vars, runtimeVars
  <2>4. CASE StatusRead
    BY <2>4, ReadingKeepsOwnership DEF StatusRead, vars, runtimeVars
  <2>5. CASE WorkerReads
    <3>1. UNCHANGED state
      BY <2>5 DEF WorkerReads, DiscardPatch, PlanPatch, CheckSource, RecordOutcome,
                  Finalize, runtimeVars
    <3> QED BY <2>5, <3>1, ReadingKeepsOwnership DEF WorkerReads
  <2>6. CASE QueueStep
    <3>1. UNCHANGED <<state, child>>
      <4>1. UNCHANGED child
        BY <2>6 DEF QueueStep, processVars, remoteVars
      <4>2. ASSUME HookedStart \/ Stop \/ Join  PROVE UNCHANGED state
        BY <4>2 DEF HookedStart, Start, Stop, Join, runtimeVars
      <4>3. ASSUME Submit  PROVE UNCHANGED state
        BY <4>3 DEF Submit, Enqueue, EnqueueRequests, DisabledPatch, GatePatch,
                    QueuePatch, AcceptPatch, runtimeVars
      <4>4. ASSUME Take \/ ClaimPatch \/ FinishBatch  PROVE UNCHANGED state
        BY <4>4 DEF Take, ClaimPatch, FinishBatch, runtimeVars
      <4> QED BY <2>6, <4>1, <4>2, <4>3, <4>4 DEF QueueStep
    <3> QED BY <3>1 DEF FinalizedOwnsNothing
  <2>7. CASE AdapterCall
    BY <2>7, CallKeepsOwnership
  <2>8. CASE Ticker
    <3>1. CASE TickReadsState /\ ReadState
      BY <3>1, ReadingKeepsOwnership DEF TickReadsState, vars, runtimeVars
    <3>2. CASE TickEvaluates(HookRequests, HandledAfter) /\ UNCHANGED child
      BY <3>2 DEF TickEvaluates, FinalizedOwnsNothing, vars, runtimeVars
    <3>3. CASE TickSubmits /\ UNCHANGED child
      BY <3>3 DEF TickSubmits, EnqueueRequests, FinalizedOwnsNothing, vars, runtimeVars
    <3> QED BY <2>8, <3>1, <3>2, <3>3 DEF Ticker
  <2>9. CASE UNCHANGED pvars
    BY <2>9 DEF pvars, processVars, remoteVars, vars, runtimeVars, FinalizedOwnsNothing
  <2> QED
    BY <2>1, <2>2, <2>3, <2>4, <2>5, <2>6, <2>7, <2>8, <2>9 DEF ProcessNext
<1> QED
  BY <1>1, <1>2, PTL DEF ProcessSpec
------------------------------------------------------------------------------
(***************************************************************************)
(* The queue under the process adapter and its hook: every step of the     *)
(* device is a step DeviceQueue knows, a call that returns, or a hook's    *)
(* submission.                                                             *)
(***************************************************************************)
LEMMA HookAnswersRequests ==
  ASSUME TypeInv
  PROVE  HookRequests \in Seq(RequestType)
<1>1. parameters \in ParameterMaps /\ << >> \in Seq(RequestType)
  BY DEF TypeInv, TypeOK
<1>2. ASSUME NEW from, NEW target
      PROVE  TransitionsTo(from, target, parameters) \in Seq(RequestType)
  <2>1. CASE from = "finalized" /\ target = "unconfigured"
    <3>1. Request(from, target, parameters) \in RequestType
      BY <1>1, <2>1, RequestIsRequest DEF LifecycleState, PrimaryStates
    <3> QED BY <2>1, <3>1 DEF TransitionsTo
  <2>2. CASE ~(from = "finalized" /\ target = "unconfigured")
    BY <1>1, <2>2, LevelledPathType DEF TransitionsTo
  <2> QED BY <2>1, <2>2
<1>3. EventRequests \in Seq(RequestType)
  BY <1>1, <1>2 DEF EventRequests
<1>4. \/ HookRequests = EventRequests \/ HookRequests = << >>
      \/ \E target : HookRequests = TransitionsTo(tickState, target, parameters)
  BY DEF HookRequests
<1> QED BY <1>1, <1>2, <1>3, <1>4

\* Whatever the adapter did, its answer is one the worker can take.
LEMMA AnswerIsReturn ==
  ASSUME TypeInv, worker = "call",
         NEW result \in Result, NEW cached \in LifecycleState, NEW pid,
         NEW launched \in ParameterMaps, Answers(result, cached, pid, launched)
  PROVE  AdapterReturns /\ UNCHANGED tickVars
BY DEF Answers, AdapterReturns, runtimeVars

LEMMA CallIsReturn ==
  ASSUME TypeInv, AdapterCall
  PROVE  AdapterReturns /\ UNCHANGED tickVars
<1>1. /\ worker = "call" /\ state \in LifecycleState /\ applied \in ParameterMaps
      /\ Current.parameters \in ParameterMaps
  <2>1. worker = "call"
    BY DEF AdapterCall, Materialize, Configure, Switch, Cleanup, Dematerialize, Unsupported, Calls
  <2>2. job \in BatchType /\ next \in 1..Len(job.requests)
    BY <2>1 DEF TypeInv, TypeOK, InBatch
  <2>3. Current \in RequestType
    BY <2>2 DEF BatchType, Current
  <2> QED BY <2>1, <2>3 DEF TypeInv, TypeOK, RequestType
<1>2. {"success", "failure", "error"} \subseteq Result /\ PrimaryStates \subseteq LifecycleState
  BY DEF Result, LifecycleState
<1>3. ASSUME NEW reached \in LifecycleState, NEW otherwise \in LifecycleState,
             StartProcess(reached, otherwise)
      PROVE  AdapterReturns /\ UNCHANGED tickVars
  BY <1>1, <1>2, <1>3, AnswerIsReturn DEF StartProcess
<1>4. CASE StopFails
  BY <1>1, <1>2, <1>4, AnswerIsReturn DEF StopFails
<1>5. ASSUME NEW reached \in PrimaryStates, NEW pid, Answers("success", reached, pid, applied)
      PROVE  AdapterReturns /\ UNCHANGED tickVars
  BY <1>1, <1>2, <1>5, AnswerIsReturn
<1>6. CASE Materialize
  <2>1. "unconfigured" \in PrimaryStates
    BY DEF PrimaryStates
  <2> QED BY <1>1, <1>2, <1>3, <1>5, <1>6, <2>1 DEF Materialize
<1>7. CASE Configure
  <2>1. "inactive" \in PrimaryStates /\ "finalized" \in PrimaryStates
    BY DEF PrimaryStates
  <2> QED BY <1>1, <1>2, <1>3, <1>4, <1>5, <1>7, <2>1 DEF Configure
<1>8. ASSUME NEW from, NEW target \in PrimaryStates, Switch(from, target)
      PROVE  AdapterReturns /\ UNCHANGED tickVars
  <2>1. Answers("error", state, "none", applied) \/ Answers("success", target, AfterReap, applied)
    BY <1>8 DEF Switch
  <2> QED BY <1>1, <1>2, <1>5, <2>1, AnswerIsReturn
<1>9. ASSUME NEW reached \in PrimaryStates, StopProcess(reached)
      PROVE  AdapterReturns /\ UNCHANGED tickVars
  BY <1>4, <1>5, <1>9 DEF StopProcess
<1>10. CASE Unsupported
  BY <1>1, <1>2, <1>10, AnswerIsReturn DEF Unsupported
<1>11. {"unconfigured", "inactive", "active", "finalized"} \subseteq PrimaryStates
  BY DEF PrimaryStates
<1> QED
  BY <1>6, <1>7, <1>8, <1>9, <1>10, <1>11 DEF AdapterCall, Cleanup, Dematerialize

LEMMA ProcessIsDevice ==
  TypeInv /\ TickTypes /\ [ProcessNext]_pvars => DeviceStep /\ TickTypes'
<1> SUFFICES ASSUME TypeInv, TickTypes, [ProcessNext]_pvars
             PROVE  DeviceStep /\ TickTypes'
  OBVIOUS
<1>1. ASSUME [Next]_vars, UNCHANGED tickVars  PROVE DeviceStep /\ TickTypes'
  BY <1>1 DEF DeviceStep, TickTypes, tickVars
<1>2. CASE ProcessExits \/ NodePublishes \/ DeliverNodeEvent \/ StatusRead
  BY <1>1, <1>2 DEF ProcessExits, NodePublishes, DeliverNodeEvent, StatusRead
<1>3. CASE WorkerReads
  BY <1>1, <1>3 DEF WorkerReads, Next, Worker
<1>4. CASE QueueStep
  BY <1>1, <1>4 DEF QueueStep, HookedStart, Next, Worker, processVars, remoteVars
<1>5. CASE AdapterCall
  BY <1>5, CallIsReturn DEF DeviceStep, HookStep, TickTypes, tickVars
<1>6. CASE Ticker
  <2>1. HookRequests \in Seq(RequestType)
    BY HookAnswersRequests
  <2> QED BY <1>6, <2>1, TickIsDeviceStep DEF Ticker
<1>7. CASE UNCHANGED pvars
  BY <1>1, <1>7 DEF pvars, processVars, remoteVars
<1> QED BY <1>2, <1>3, <1>4, <1>5, <1>6, <1>7 DEF ProcessNext

LEMMA ProcessDeviceInv == ProcessSpec => [](DeviceInv /\ TickTypes)
<1>1. ProcessInit => DeviceInv /\ TickTypes
  BY DeviceInit, TickTypesInit DEF ProcessInit, HookedInit
<1>2. DeviceInv /\ TickTypes /\ [ProcessNext]_pvars => (DeviceInv /\ TickTypes)'
  BY ProcessIsDevice, DeviceNext DEF DeviceInv
<1> QED BY <1>1, <1>2, PTL DEF ProcessSpec

\* Under the process adapter and its hook the queue still never orphans an
\* accumulated patch, plans with the newest desired map, stops a batch at the
\* first request that failed, and holds nothing once it is stopped.
THEOREM ProcessQueueHolds ==
  ProcessSpec => [](TypeOK /\ PendingIsQueued /\ PatchPlansNewest /\ AdjacentExecution
                      /\ StoppedIsEmpty)
<1>1. DeviceInv => TypeOK /\ PendingIsQueued /\ PatchPlansNewest /\ AdjacentExecution
                     /\ StoppedIsEmpty
  BY DEF DeviceInv, TypeInv, AdjacentInv
<1> QED BY <1>1, ProcessDeviceInv, PTL

\* ... and hands it over only to a stop, to a patch that leaves the device
\* disabled or to a claimed batch that carries all of it.
THEOREM ProcessHandsOver == ProcessSpec => DeltaHandedOver
<1>1. DeviceInv /\ TickTypes /\ [ProcessNext]_pvars => [HandsOver]_vars
  BY ProcessIsDevice, DeviceHandsOver DEF DeviceInv
<1> QED BY <1>1, ProcessDeviceInv, PTL DEF ProcessSpec, DeltaHandedOver, HandsOver

\* Callers, hook and worker of a process-hosted device see the serial executor.
THEOREM ProcessQueueIsExecutor == ProcessSpec => ImplementsSerialExecutor
<1>1. ProcessInit => Executor!Init
  BY QueueInit DEF ProcessInit, HookedInit
<1>2. DeviceInv /\ TickTypes /\ [ProcessNext]_pvars => [Executor!Next]_(Executor!vars)
  BY ProcessIsDevice, DeviceRefines DEF DeviceInv
<1> QED BY <1>1, <1>2, ProcessDeviceInv, PTL DEF ProcessSpec, ImplementsSerialExecutor, Executor!Spec
------------------------------------------------------------------------------
(***************************************************************************)
(* What the hook asks for while the node is silent: at most one request,   *)
(* from the state it was shown, along an edge the adapter supports.        *)
(***************************************************************************)
OneRequest(requests, from) ==
  \/ requests = << >>
  \/ /\ Len(requests) = 1
     /\ requests[1].from = from /\ SupportedEdge(from, requests[1].target)

LEMMA LevelsAre ==
  /\ Len(Levelled) = 3 /\ Levelled \in Seq(PrimaryStates)
  /\ \A k \in 1..3 : /\ Levelled[k] = "unconfigured" <=> k = 1
                     /\ Levelled[k] = "inactive" <=> k = 2
                     /\ Levelled[k] = "active" <=> k = 3
  /\ ToSet(Levelled) = {"unconfigured", "inactive", "active"}
<1>1. Levelled = << "unconfigured", "inactive", "active" >>
  BY DEF Levelled
<1>2. /\ Levelled[1] = "unconfigured" /\ Levelled[2] = "inactive" /\ Levelled[3] = "active"
      /\ Len(Levelled) = 3 /\ DOMAIN Levelled = 1..3
  BY <1>1
<1>3. Levelled \in Seq(PrimaryStates)
  BY <1>1 DEF PrimaryStates
<1>4. \A k \in 1..3 : k = 1 \/ k = 2 \/ k = 3
  OBVIOUS
<1>5. ToSet(Levelled) = {Levelled[k] : k \in 1..3}
  BY <1>2 DEF ToSet
<1> QED BY <1>2, <1>3, <1>4, <1>5

LEMMA SingleRequest ==
  ASSUME NEW request, NEW from, request.from = from, SupportedEdge(from, request.target)
  PROVE  OneRequest(<< request >>, from) /\ << request >> # << >>
<1>1. Len(<< request >>) = 1 /\ << request >>[1] = request /\ << request >> # << >>
  OBVIOUS
<1> QED BY <1>1 DEF OneRequest

\* One level up, and staying at the top.
LevelOf(level) == CHOOSE k \in 1..3 : Levelled[k] = level

LEMMA BetweenNeighbours ==
  /\ Between("unconfigured", "inactive") = SubSeq(Levelled, 1, 2)
  /\ Between("inactive", "active") = SubSeq(Levelled, 2, 3)
  /\ Between("active", "active") = Reverse(SubSeq(Levelled, 3, 3))
<1>1. /\ LevelOf("unconfigured") = 1
      /\ LevelOf("inactive") = 2
      /\ LevelOf("active") = 3
  BY LevelsAre DEF LevelOf
<1>2. \A from, target :
        Between(from, target) =
          IF LevelOf(from) < LevelOf(target)
          THEN SubSeq(Levelled, LevelOf(from), LevelOf(target))
          ELSE Reverse(SubSeq(Levelled, LevelOf(target), LevelOf(from)))
  BY DEF Between, LevelOf
<1>3. Between("unconfigured", "inactive") =
        IF 1 < 2 THEN SubSeq(Levelled, 1, 2) ELSE Reverse(SubSeq(Levelled, 2, 1))
  BY ONLY <1>1, <1>2
<1>4. Between("inactive", "active") =
        IF 2 < 3 THEN SubSeq(Levelled, 2, 3) ELSE Reverse(SubSeq(Levelled, 3, 2))
  BY ONLY <1>1, <1>2
<1>5. Between("active", "active") =
        IF 3 < 3 THEN SubSeq(Levelled, 3, 3) ELSE Reverse(SubSeq(Levelled, 3, 3))
  BY ONLY <1>1, <1>2
<1> QED BY <1>3, <1>4, <1>5

LEMMA StepUp ==
  ASSUME NEW map
  PROVE  /\ OneRequest(LevelledPath("unconfigured", "inactive", map), "unconfigured")
         /\ OneRequest(LevelledPath("inactive", "active", map), "inactive")
         /\ LevelledPath("active", "active", map) = << >>
<1> DEFINE request(states, i) ==
             Request(states[i], states[i + 1],
                     IF states[i] = "unconfigured" THEN map ELSE EmptyMap)
           up(states) == [i \in 1..(Len(states) - 1) |-> request(states, i)]
<1>1. \A from, target \in {"unconfigured", "inactive", "active"} :
        LevelledPath(from, target, map) = up(Between(from, target))
  BY LevelsAre DEF LevelledPath
<1>2. \A i, j \in 1..3 : i <= j =>
        /\ Len(SubSeq(Levelled, i, j)) = j - i + 1
        /\ SubSeq(Levelled, i, j)[1] = Levelled[i]
        /\ SubSeq(Levelled, i, j)[j - i + 1] = Levelled[j]
  BY LevelsAre
<1>3. ASSUME NEW a, NEW b, NEW states, Len(states) = 2, states[1] = a, states[2] = b
      PROVE  Len(up(states)) = 1 /\ up(states)[1].from = a /\ up(states)[1].target = b
  <2>1. up(states) = [i \in 1..1 |-> request(states, i)]
    BY <1>3
  <2>2. request(states, 1).from = a /\ request(states, 1).target = b
    BY <1>3 DEF Request
  <2> HIDE DEF request, up
  <2>3. Len(up(states)) = 1 /\ up(states)[1] = request(states, 1)
    BY <2>1
  <2> QED BY <2>2, <2>3
<1>4. ASSUME NEW states, Len(states) = 1
      PROVE  up(states) = << >>
  <2> HIDE DEF request
  <2> QED BY <1>4
<1>5. SupportedEdge("unconfigured", "inactive") /\ SupportedEdge("inactive", "active")
  BY DEF SupportedEdge
<1> HIDE DEF up
<1>6. /\ Len(SubSeq(Levelled, 1, 2)) = 2
      /\ SubSeq(Levelled, 1, 2)[1] = "unconfigured" /\ SubSeq(Levelled, 1, 2)[2] = "inactive"
  BY <1>2, LevelsAre
<1>7. /\ Len(SubSeq(Levelled, 2, 3)) = 2
      /\ SubSeq(Levelled, 2, 3)[1] = "inactive" /\ SubSeq(Levelled, 2, 3)[2] = "active"
  BY <1>2, LevelsAre
<1>8. Len(Between("active", "active")) = 1
  <2>1. SubSeq(Levelled, 3, 3) \in Seq(PrimaryStates)
    BY LevelsAre, PartOfSequence
  <2>2. Len(SubSeq(Levelled, 3, 3)) = 1
    BY <1>2
  <2> QED BY <2>1, <2>2, BetweenNeighbours, ReversedSequence
<1>9. OneRequest(LevelledPath("unconfigured", "inactive", map), "unconfigured")
  BY <1>1, <1>3, <1>5, <1>6, BetweenNeighbours DEF OneRequest
<1>10. OneRequest(LevelledPath("inactive", "active", map), "inactive")
  BY <1>1, <1>3, <1>5, <1>7, BetweenNeighbours DEF OneRequest
<1>11. LevelledPath("active", "active", map) = << >>
  BY <1>1, <1>4, <1>8
<1> QED BY <1>9, <1>10, <1>11

\* Down to FINALIZED from anywhere, in one step.
LEMMA StepDown ==
  ASSUME NEW from \in PrimaryStates, NEW map
  PROVE  /\ OneRequest(TransitionsTo(from, "finalized", map), from)
         /\ from # "finalized" => TransitionsTo(from, "finalized", map) # << >>
<1>1. "finalized" \notin ToSet(Levelled)
      /\ (from # "finalized" => from \in ToSet(Levelled))
  BY LevelsAre DEF PrimaryStates
<1>2. CASE from = "finalized"
  <2>1. TransitionsTo(from, "finalized", map) = << >>
    BY <1>1, <1>2 DEF TransitionsTo, LevelledPath
  <2> QED BY <1>2, <2>1 DEF OneRequest
<1>3. CASE from # "finalized"
  <2> DEFINE request == Request(from, "finalized", EmptyMap)
  <2>1. TransitionsTo(from, "finalized", map) = << request >>
    BY <1>1, <1>3 DEF TransitionsTo, LevelledPath
  <2>2. request.from = from /\ request.target = "finalized"
    BY DEF Request
  <2>3. SupportedEdge(from, "finalized")
    BY <1>3 DEF SupportedEdge
  <2> HIDE DEF request
  <2> QED BY <1>3, <2>1, <2>2, <2>3, SingleRequest
<1> QED BY <1>2, <1>3

\* The only event of a silent node is the exit the adapter reports itself.
ExitsOnly ==
  /\ eventRevision \in Nat /\ handled \in Nat /\ handled <= eventRevision
  /\ eventRevision > 0 => latestEvent = ExitEvent

LEMMA HookAsksOnce ==
  ASSUME ExitsOnly, tickState \in PrimaryStates
  PROVE  /\ OneRequest(HookRequests, tickState)
         /\ handled # HandledAfter => tickState = "finalized"
<1>1. Unhandled => EventRequests = TransitionsTo(tickState, "finalized", parameters)
  BY DEF ExitsOnly, Unhandled, EventRequests, ExitEvent
<1>2. ~Unhandled => EventRequests = << >> /\ eventRevision = handled
  BY DEF ExitsOnly, Unhandled, EventRequests
<1>3. CASE EventRequests # << >>
  BY <1>1, <1>2, <1>3, StepDown DEF HookRequests, HandledAfter
<1>4. CASE EventRequests = << >>
  <2>1. handled # HandledAfter => tickState = "finalized"
    BY <1>1, <1>2, <1>4, StepDown DEF HandledAfter
  <2>2. CASE tickState = "finalized"
    <3>1. HookRequests = << >> \/ HookRequests = TransitionsTo(tickState, "unconfigured", parameters)
      BY <1>4, <2>2 DEF HookRequests
    <3> DEFINE request == Request("finalized", "unconfigured", parameters)
    <3>2. TransitionsTo(tickState, "unconfigured", parameters) = << request >>
      BY <2>2 DEF TransitionsTo
    <3>3. request.from = "finalized" /\ request.target = "unconfigured"
      BY DEF Request
    <3>4. SupportedEdge("finalized", "unconfigured")
      BY DEF SupportedEdge
    <3> HIDE DEF request
    <3>5. OneRequest(<< request >>, tickState) /\ OneRequest(<< >>, tickState)
      BY <2>2, <3>3, <3>4, SingleRequest DEF OneRequest
    <3> QED BY <2>1, <3>1, <3>2, <3>5
  <2>3. CASE tickState # "finalized" /\ ~enabled
    <3>1. HookRequests = TransitionsTo(tickState, "finalized", parameters)
      BY <1>4, <2>3 DEF HookRequests
    <3> QED BY <2>1, <3>1, StepDown
  <2>4. CASE tickState # "finalized" /\ enabled
    <3>1. HookRequests = LevelledPath(tickState,
                           IF tickState = "unconfigured" THEN "inactive" ELSE "active", parameters)
      BY <1>4, <2>4 DEF HookRequests, TransitionsTo
    <3>2. tickState \in {"unconfigured", "inactive", "active"}
      BY <2>4 DEF PrimaryStates
    <3> QED BY <2>1, <3>1, <3>2, StepUp DEF OneRequest
  <2> QED BY <2>2, <2>3, <2>4
<1> QED BY <1>3, <1>4
------------------------------------------------------------------------------
(***************************************************************************)
(* What is spent, and the state a call is made from.                       *)
(***************************************************************************)
Spent ==
  /\ used \in [FaultKinds -> Nat]
  /\ \A kind \in FaultKinds : used[kind] <= Budget[kind]

LEMMA SpendingIsBounded ==
  ASSUME Spent, NEW kind \in FaultKinds, Spend(kind)
  PROVE  /\ Spent'
         /\ \A other \in FaultKinds : used[other] <= used'[other]
         /\ used'[kind] # 0
<1>1. /\ used' = [used EXCEPT ![kind] = @ + 1] /\ used[kind] < Budget[kind]
      /\ \A other \in FaultKinds : used[other] \in Nat /\ Budget[other] \in Nat
      /\ used \in [FaultKinds -> Nat]
  BY ProcessAssumption DEF Spend, Spent
<1>2. used' \in [FaultKinds -> Nat]
  BY <1>1
<1>3. \A other \in FaultKinds :
        used'[other] = IF other = kind THEN used[kind] + 1 ELSE used[other]
  BY <1>1
<1> QED BY <1>1, <1>2, <1>3 DEF Spent

LEMMA KindsAreKinds == {"exit", "spawn", "stop", "event"} \subseteq FaultKinds
BY DEF FaultKinds

\* A call spends at most a failed start or a failed stop.
LEMMA CallSpends ==
  ASSUME AdapterCall
  PROVE  UNCHANGED used \/ Spend("spawn") \/ StopFails
BY DEF AdapterCall, Materialize, Configure, StartProcess, Switch, Cleanup, Dematerialize,
       StopProcess, Unsupported

LEMMA SpentNext ==
  ASSUME Spent, [ProcessNext]_pvars
  PROVE  Spent' /\ \A kind \in FaultKinds : used[kind] <= used'[kind]
<1>1. ASSUME UNCHANGED used
      PROVE  Spent' /\ \A kind \in FaultKinds : used[kind] <= used'[kind]
  <2>1. \A kind \in FaultKinds : used[kind] \in Nat
    BY DEF Spent
  <2> QED BY <1>1, <2>1 DEF Spent
<1>2. ASSUME Spend("exit") \/ Spend("event") \/ Spend("spawn") \/ Spend("stop")
      PROVE  Spent' /\ \A kind \in FaultKinds : used[kind] <= used'[kind]
  BY <1>2, SpendingIsBounded, KindsAreKinds
<1>3. CASE ProcessExits \/ NodePublishes
  BY <1>2, <1>3 DEF ProcessExits, NodePublishes
<1>4. CASE DeliverNodeEvent \/ StatusRead \/ WorkerReads \/ QueueStep \/ Ticker
  BY <1>1, <1>4 DEF DeliverNodeEvent, StatusRead, WorkerReads, QueueStep, Ticker, ReadState,
                    processVars, remoteVars
<1>5. CASE AdapterCall
  BY <1>1, <1>2, <1>5, CallSpends DEF StopFails
<1>6. CASE UNCHANGED pvars
  BY <1>1, <1>6 DEF pvars, processVars, remoteVars
<1> QED BY <1>3, <1>4, <1>5, <1>6 DEF ProcessNext

\* Everybody but the worker and those who start and join it leaves it and the
\* runtime alone.
LEMMA OthersKeepWorker ==
  ASSUME ProcessExits \/ NodePublishes \/ DeliverNodeEvent \/ StatusRead \/ Ticker
           \/ Stop \/ Submit \/ UNCHANGED pvars
  PROVE  UNCHANGED <<workerVars, runtimeVars>>
<1>1. CASE ProcessExits \/ NodePublishes \/ DeliverNodeEvent \/ StatusRead \/ UNCHANGED pvars
  BY <1>1 DEF ProcessExits, NodePublishes, DeliverNodeEvent, StatusRead, pvars, vars
<1>2. CASE Ticker
  BY <1>2 DEF Ticker, TickReadsState, TickEvaluates, TickSubmits, EnqueueRequests, vars
<1>3. CASE Stop \/ Submit
  BY <1>3, SubmitKeeps DEF Stop
<1> QED BY <1>1, <1>2, <1>3

\* An adapter call is made in the state its request starts from.
CallsFromState == worker = "call" => state = Current.from

LEMMA CallsFromNext ==
  ASSUME TypeInv, CallsFromState, [ProcessNext]_pvars
  PROVE  CallsFromState'
<1>1. ASSUME UNCHANGED <<workerVars, runtimeVars>> PROVE CallsFromState'
  BY <1>1 DEF CallsFromState, Current, workerVars, runtimeVars
<1>2. ASSUME worker' # "call" PROVE CallsFromState'
  BY <1>2 DEF CallsFromState
<1>3. CASE CheckSource
  <2>1. CASE worker' # "call"
    BY <1>2, <2>1
  <2>2. CASE worker' = "call"
    <3>1. PICK read \in StateReads : read = Current.from
      BY <1>3, <2>2 DEF CheckSource, SourceMatches, EndBatch
    <3>2. Current.from # "threw"
      <4>1. Current \in RequestType
        BY <1>3 DEF CheckSource, Current, TypeInv, TypeOK, BatchType
      <4> QED BY <4>1 DEF RequestType, LifecycleState, PrimaryStates
    <3>3. state = Current.from
      BY <3>1, <3>2 DEF StateReads
    <3>4. UNCHANGED <<job, next, state>>
      BY <1>3, <2>2 DEF CheckSource, EndBatch, runtimeVars
    <3> QED BY <3>3, <3>4 DEF Current, CallsFromState
  <2> QED BY <2>1, <2>2
<1>4. CASE WorkerReads /\ ~CheckSource
  BY <1>2, <1>4 DEF WorkerReads, DiscardPatch, PlanPatch, RecordOutcome, Finalize, EndBatch
<1>5. CASE HookedStart \/ Join \/ Take \/ ClaimPatch \/ FinishBatch
  BY <1>2, <1>5 DEF HookedStart, Start, Join, Take, ClaimPatch, FinishBatch, EndBatch
<1>6. CASE AdapterCall
  BY <1>2, <1>6, CallIsReturn DEF AdapterReturns
<1> QED
  BY <1>1, <1>3, <1>4, <1>5, <1>6, OthersKeepWorker DEF ProcessNext, QueueStep

\* Nobody but the worker drives the process: what CheckSource read is still the
\* state when the adapter is called, whatever the hook and the node did since.
THEOREM ProcessCalledFromSource == ProcessSpec => []CalledFromSource
<1>1. ProcessInit => CallsFromState
  BY DEF ProcessInit, HookedInit, Init, CallsFromState
<1>2. DeviceInv /\ CallsFromState /\ [ProcessNext]_pvars => CallsFromState'
  BY CallsFromNext DEF DeviceInv
<1>3. CallsFromState => CalledFromSource
  BY DEF CallsFromState, CalledFromSource
<1> QED BY <1>1, <1>2, <1>3, ProcessDeviceInv, PTL DEF ProcessSpec

\* The adapter caches primary states only.
StateInv == state \in PrimaryStates /\ CallsFromState

LEMMA StateNext ==
  ASSUME TypeInv, StateInv, [ProcessNext]_pvars
  PROVE  StateInv'
<1>1. CallsFromState'
  BY CallsFromNext DEF StateInv
<1>2. ASSUME state' = state PROVE state' \in PrimaryStates
  BY <1>2 DEF StateInv
<1>3. CASE AdapterCall
  <2>1. state' \in {state, "unconfigured", "inactive", "active", "finalized"}
    BY <1>3 DEF AdapterCall, Materialize, Configure, StartProcess, Switch, Cleanup, Dematerialize,
                StopProcess, StopFails, Unsupported, Answers
  <2> QED BY <1>1, <2>1 DEF StateInv, PrimaryStates
<1>4. CASE WorkerReads \/ HookedStart \/ Join \/ Take \/ ClaimPatch \/ FinishBatch
  BY <1>1, <1>2, <1>4 DEF StateInv, WorkerReads, DiscardPatch, PlanPatch, CheckSource, RecordOutcome, Finalize,
                    HookedStart, Start, Join, Take, ClaimPatch, FinishBatch, runtimeVars
<1>5. ASSUME UNCHANGED <<workerVars, runtimeVars>> PROVE state' \in PrimaryStates
  BY <1>2, <1>5 DEF runtimeVars
<1> QED
  BY <1>1, <1>3, <1>4, <1>5, OthersKeepWorker DEF ProcessNext, QueueStep, StateInv
------------------------------------------------------------------------------
(***************************************************************************)
(* A stop that ends finds the device FINALIZED as long as no group refused *)
(* to be stopped: what the worker does last is the one transition there,   *)
(* from whatever state it found.                                           *)
(***************************************************************************)
StopsWork == used["stop"] = 0

FinalInv ==
  StopsWork =>
    /\ worker \in {"none", "exited"} => state = "finalized"
    /\ Finalizing /\ worker = "next" /\ next = 1 => Current.from = state
    /\ Finalizing /\ (worker = "record" \/ (worker = "next" /\ next # 1)) => state = "finalized"

LEMMA LastCallReaches ==
  ASSUME TypeInv, StateInv, LastInv, Spent, Finalizing, AdapterCall, used'["stop"] = 0
  PROVE  state' = "finalized"
<1>1. worker = "call" /\ next = 1 /\ Current.target = "finalized" /\ Current.from = state
  <2>1. worker = "call"
    BY CallIsReturn DEF AdapterReturns
  <2>2. Len(job.requests) = 1 /\ job.requests[1].target = "finalized"
    BY DEF LastInv
  <2>3. next \in Nat \ {0} /\ next <= Len(job.requests)
    BY <2>1 DEF TypeInv, TypeOK, InBatch
  <2>4. next = 1
    BY <2>2, <2>3
  <2> QED BY <2>1, <2>2, <2>4 DEF Current, StateInv, CallsFromState
<1>2. ~StopFails
  BY SpendingIsBounded, KindsAreKinds DEF StopFails
<1>3. CASE Dematerialize
  BY <1>2, <1>3 DEF Dematerialize, StopProcess, Answers
<1>4. CASE Unsupported
  <2>1. state = "finalized"
    BY <1>1, <1>4 DEF Unsupported, SupportedEdge, StateInv, PrimaryStates
  <2> QED BY <1>4, <2>1 DEF Unsupported, Answers
<1>5. ~(Materialize \/ Configure \/ Switch("inactive", "active") \/ Switch("active", "inactive")
        \/ Cleanup)
  BY <1>1 DEF Materialize, Configure, Switch, Cleanup, Calls
<1> QED BY <1>3, <1>4, <1>5 DEF AdapterCall

LEMMA FinalNext ==
  ASSUME DeviceInv, StateInv, Spent, FinalInv, [ProcessNext]_pvars
  PROVE  FinalInv'
<1> SUFFICES ASSUME StopsWork'
             PROVE  FinalInv'
  BY DEF FinalInv
<1>1. StopsWork
  BY SpentNext, KindsAreKinds DEF StopsWork, Spent
<1>2. /\ TypeInv /\ LoopInv /\ LastInv
      /\ worker \in {"none", "exited"} => state = "finalized"
      /\ Finalizing /\ worker = "next" /\ next = 1 => Current.from = state
      /\ Finalizing /\ (worker = "record" \/ (worker = "next" /\ next # 1)) => state = "finalized"
  BY <1>1 DEF FinalInv, DeviceInv
<1>3. StateReads = {state} /\ SafeStates = {state}
  <2>1. StateReads = {state}
    BY ProcessAssumption DEF StateReads, Faulty
  <2>2. state # "threw"
    BY DEF StateInv, PrimaryStates
  <2> QED BY <2>1, <2>2 DEF SafeStates, SafeState
<1> USE DEF FinalInv, Finalizing
<1>4. ASSUME UNCHANGED <<workerVars, runtimeVars>> PROVE FinalInv'
  BY <1>2, <1>4 DEF workerVars, runtimeVars, Current
<1>5. ASSUME EndBatch, UNCHANGED <<finalizing, state>>, finalizing => state = "finalized"
      PROVE  FinalInv'
  BY <1>5 DEF EndBatch
<1>6. ASSUME ~finalizing', worker' \notin {"none", "exited"} PROVE FinalInv'
  BY <1>6
<1>7. CASE HookedStart
  BY <1>6, <1>7 DEF HookedStart, Start
<1>8. CASE Join
  BY <1>2, <1>8 DEF Join, runtimeVars
<1>9. CASE Take \/ ClaimPatch
  <2>1. finalizing' = finalizing /\ worker' \in {"claim", "next", "discard", "plan"}
        /\ worker \in {"idle", "claim"}
    BY <1>9 DEF Take, ClaimPatch
  <2>2. ~finalizing
    BY <1>2, <2>1 DEF LoopInv
  <2> QED BY <1>6, <2>1, <2>2
<1>10. CASE DiscardPatch \/ PlanPatch
  <2>1. finalizing' = finalizing /\ worker \in {"discard", "plan"}
    BY <1>10 DEF DiscardPatch, PlanPatch
  <2>2. ~finalizing
    BY <1>2, <2>1 DEF LoopInv
  <2>3. worker' \in {"idle", "next"}
    BY <1>10, <2>2 DEF DiscardPatch, PlanPatch, EndBatch
  <2> QED BY <1>6, <2>1, <2>2, <2>3
<1>11. CASE FinishBatch
  <2>1. finalizing => next # 1
    BY <1>2, <1>11 DEF FinishBatch, LastInv
  <2> QED BY <1>2, <1>5, <1>11, <2>1 DEF FinishBatch, runtimeVars
<1>12. CASE CheckSource
  <2>1. UNCHANGED <<finalizing, state>> /\ worker = "next" /\ next <= Len(job.requests)
    BY <1>12 DEF CheckSource, runtimeVars
  <2>2. CASE worker' = "call"
    BY <2>1, <2>2
  <2>3. CASE worker' # "call"
    <3>1. EndBatch /\ state # Current.from
      BY <1>3, <1>12, <2>3 DEF CheckSource, SourceMatches
    <3>2. finalizing => state = "finalized"
      BY <1>2, <2>1, <3>1
    <3> QED BY <1>5, <2>1, <3>1, <3>2
  <2> QED BY <2>2, <2>3
<1>13. CASE RecordOutcome
  <2>1. UNCHANGED <<finalizing, state>> /\ worker = "record"
    BY <1>13 DEF RecordOutcome, runtimeVars
  <2>2. finalizing => state = "finalized"
    BY <1>2, <2>1
  <2>3. CASE EndBatch
    BY <1>5, <2>1, <2>2, <2>3
  <2>4. CASE ~EndBatch
    <3>1. worker' = "next" /\ next' = next + 1
      BY <1>13, <2>4 DEF RecordOutcome
    <3>2. next' # 1
      BY <1>2, <3>1 DEF TypeInv, TypeOK
    <3> QED BY <2>1, <2>2, <3>1, <3>2
  <2> QED BY <2>3, <2>4
<1>14. CASE Finalize
  <2>1. /\ state' = state
        /\ \/ worker' = "exited" /\ state = "finalized"
           \/ worker' = "next" /\ next' = 1
                /\ job' = LifecycleBatch(<< Request(state, "finalized", EmptyMap) >>)
    BY <1>3, <1>14 DEF Finalize, runtimeVars
  <2>2. CASE worker' = "exited"
    BY <2>1, <2>2
  <2>3. CASE worker' = "next"
    <3>1. Current'.from = state
      BY <2>1, <2>3 DEF Current, LifecycleBatch, Request
    <3> QED BY <2>1, <2>3, <3>1
  <2> QED BY <2>1, <2>2, <2>3
<1>15. CASE AdapterCall
  <2>1. /\ worker = "call" /\ worker' = "record" /\ finalizing' = finalizing
    BY <1>2, <1>15, CallIsReturn DEF AdapterReturns
  <2>2. Finalizing => state' = "finalized"
    BY <1>2, <1>15, LastCallReaches DEF StopsWork
  <2> QED BY <2>1, <2>2
<1> QED
  BY <1>4, <1>7, <1>8, <1>9, <1>10, <1>11, <1>12, <1>13, <1>14, <1>15, OthersKeepWorker
     DEF ProcessNext, QueueStep, WorkerReads

LEMMA ProcessStateInv ==
  ProcessSpec => [](DeviceInv /\ TickTypes /\ StateInv /\ Spent /\ FinalInv)
<1> DEFINE Inv == DeviceInv /\ TickTypes /\ StateInv /\ Spent /\ FinalInv
<1>1. ProcessInit => Inv
  <2> SUFFICES ASSUME ProcessInit PROVE Inv
    OBVIOUS
  <2>1. DeviceInv /\ TickTypes
    BY DeviceInit, TickTypesInit DEF ProcessInit, HookedInit
  <2>2. worker = "none" /\ state = "finalized" /\ used = [kind \in FaultKinds |-> 0]
    BY ProcessAssumption DEF ProcessInit, HookedInit, Init
  <2>3. Spent
    BY <2>2, ProcessAssumption DEF Spent
  <2> QED BY <2>1, <2>2, <2>3 DEF StateInv, CallsFromState, FinalInv, Finalizing, PrimaryStates
<1>2. Inv /\ [ProcessNext]_pvars => Inv'
  BY ProcessIsDevice, DeviceNext, StateNext, SpentNext, FinalNext DEF DeviceInv
<1> HIDE DEF Inv
<1>3. ProcessSpec => []Inv
  BY <1>1, <1>2, PTL DEF ProcessSpec
<1> QED BY <1>3 DEF Inv

\* As long as every group could be stopped, a stop leaves the device FINALIZED and
\* its process gone, whatever batch, hook answer or exit it came upon.
THEOREM ProcessStopFinalizes ==
  ProcessSpec => [](used["stop"] = 0 => FinalizedWhenJoined)
<1>1. FinalInv => (used["stop"] = 0 => FinalizedWhenJoined)
  BY DEF FinalInv, StopsWork, FinalizedWhenJoined
<1> QED BY <1>1, ProcessStateInv, PTL
------------------------------------------------------------------------------
(***************************************************************************)
(* A completed patch runs in the process.  Only a launch changes what the  *)
(* process runs with, and it passes on the map of its request; a configure *)
(* that keeps the process found it launched with that map.  It also keeps  *)
(* one when it is given no parameters at all, and materializing launches   *)
(* the process with none: neither can pass for the patch, because a patch  *)
(* is planned from a map that holds something and configures last.         *)
(***************************************************************************)

\* A patch to be claimed left something in the desired map, and so in the map it
\* is planned from.
GivenInv ==
  /\ UnclaimedPatches # {} => parameters # EmptyMap
  /\ (worker \in {"plan", "next", "call", "record"} /\ IsPatch(job)) => snapshot # EmptyMap

\* Merging a map that holds something leaves a map that holds something.
LEMMA MergeBrings ==
  ASSUME NEW base \in ParameterMaps, NEW patch \in ParameterMaps, patch # EmptyMap
  PROVE  Merge(base, patch) # EmptyMap
<1>1. PICK S \in SUBSET Names : patch \in [S -> Values]
  BY DEF ParameterMaps
<1>2. S # {}
  <2>1. ASSUME S = {} PROVE patch = EmptyMap
    BY <1>1, <2>1 DEF EmptyMap
  <2> QED BY <2>1
<1>3. DOMAIN Merge(base, patch) # DOMAIN EmptyMap
  BY <1>1, <1>2 DEF Merge, EmptyMap
<1> QED BY <1>3

LEMMA GivenNext ==
  ASSUME TypeInv, GivenInv, [Next]_vars \/ HookSubmits \/ AdapterReturns
  PROVE  GivenInv'
<1> USE DEF queueVars, observationVars, workerVars, runtimeVars
<1>1. (worker \in {"plan", "next", "call", "record"} /\ IsPatch(job)) => snapshot # EmptyMap
  BY DEF GivenInv
<1>2. ASSUME UnclaimedPatches' \subseteq UnclaimedPatches,
             parameters' = parameters,
             \/ UNCHANGED <<worker, job, snapshot>>
             \/ worker' \notin {"plan", "next", "call", "record"} \/ ~IsPatch(job')
      PROVE  GivenInv'
  BY <1>2 DEF GivenInv
<1>3. ASSUME UNCHANGED <<urgent, normal, parameters>>, worker' # "claim",
             \/ worker \in {"plan", "next", "call", "record"} /\ snapshot' = snapshot
                  /\ (IsPatch(job') => IsPatch(job))
             \/ worker' \notin {"plan", "next", "call", "record"} \/ ~IsPatch(job')
      PROVE  GivenInv'
  <2>1. UnclaimedPatches' \subseteq UnclaimedPatches
    BY <1>3 DEF UnclaimedPatches
  <2> QED BY <1>3, <2>1 DEF GivenInv
<1>4. ASSUME NEW batch \in BatchType, ~IsPatch(batch), NEW priority, PushBack(batch, priority),
             UNCHANGED <<parameters, workerVars>>
      PROVE  GivenInv'
  <2>1. UnclaimedPatches' = UnclaimedPatches
    BY <1>4, UnclaimedPushed
  <2> QED BY <1>2, <1>4, <2>1
<1>5. CASE HookSubmits
  <2>1. PICK requests \in Seq(RequestType) : EnqueueRequests(requests, "normal")
    BY <1>5 DEF HookSubmits
  <2>2. LifecycleBatch(requests) \in BatchType /\ ~IsPatch(LifecycleBatch(requests))
    BY BatchTypes DEF IsPatch, LifecycleBatch
  <2> HIDE DEF workerVars
  <2>3. /\ PushBack(LifecycleBatch(requests), "normal")
        /\ UNCHANGED <<parameters, workerVars>>
    BY <2>1 DEF EnqueueRequests
  <2> QED BY <1>4, <2>2, <2>3
<1>6. CASE Submit
  <2>1. ASSUME NEW path \in InputPaths, NEW priority \in Priorities, Enqueue(path, priority)
        PROVE  GivenInv'
    <3> DEFINE batch == LifecycleBatch(RequestsOf(path))
    <3>1. batch \in BatchType /\ ~IsPatch(batch)
      BY ConstantsAssumption, RequestsOfType, BatchTypes
         DEF TypeInv, TypeOK, IsPatch, LifecycleBatch
    <3>2. PushBack(batch, priority) /\ UNCHANGED <<parameters, workerVars>>
      BY <2>1 DEF Enqueue, EnqueueRequests
    <3> QED BY <1>4, <3>1, <3>2
  <2>2. ASSUME NEW patch \in InputPatches, AcceptPatch(patch),
               UnclaimedPatches' \subseteq UnclaimedPatches
        PROVE  GivenInv'
    <3>1. patch.values \in ParameterMaps /\ parameters \in ParameterMaps
      BY <2>2, ConstantsAssumption DEF PatchType, TypeInv, TypeOK
    <3>2. parameters' = Merge(parameters, patch.values) /\ UNCHANGED <<worker, job, snapshot>>
      BY <2>2 DEF AcceptPatch
    <3>3. parameters # EmptyMap => parameters' # EmptyMap
      BY <3>1, <3>2, MergeNotEmpty
    <3> QED BY <1>1, <2>2, <3>2, <3>3 DEF GivenInv
  <2>3. ASSUME NEW patch \in InputPatches, DisabledPatch(patch) \/ GatePatch(patch)
        PROVE  GivenInv'
    <3>1. AcceptPatch(patch) /\ UNCHANGED <<urgent, normal>>
      BY <2>3 DEF DisabledPatch, GatePatch
    <3>2. UnclaimedPatches' \subseteq UnclaimedPatches
      BY <3>1 DEF UnclaimedPatches, AcceptPatch
    <3> QED BY <2>2, <3>1, <3>2
  <2>4. ASSUME NEW patch \in InputPatches, NEW priority \in Priorities,
               QueuePatch(patch, priority)
        PROVE  GivenInv'
    <3>1. patch.values \in ParameterMaps /\ parameters \in ParameterMaps
      BY ConstantsAssumption DEF PatchType, TypeInv, TypeOK
    <3>2. /\ parameters' = Merge(parameters, patch.values) /\ patch.values # EmptyMap
          /\ UNCHANGED <<worker, job, snapshot>>
      BY <2>4 DEF QueuePatch, AcceptPatch
    <3>3. parameters' # EmptyMap
      BY <3>1, <3>2, MergeBrings
    <3> QED BY <1>1, <3>2, <3>3 DEF GivenInv
  <2> QED BY <1>6, <2>1, <2>3, <2>4 DEF Submit
<1>7. CASE Start \/ Join \/ DiscardPatch \/ FinishBatch \/ Finalize
  <2>1. CASE Start \/ Join
    BY <1>3, <2>1 DEF Start, Join
  <2>2. CASE DiscardPatch \/ FinishBatch
    BY <1>3, <2>2 DEF DiscardPatch, FinishBatch, EndBatch
  <2>3. CASE Finalize
    <3>1. worker' # "claim" /\ UNCHANGED <<urgent, normal, parameters>>
      BY <2>3 DEF Finalize
    <3>2. worker' = "exited" \/ ~IsPatch(job')
      BY <2>3 DEF Finalize, LifecycleBatch, IsPatch
    <3> QED BY <1>3, <3>1, <3>2
  <2> QED BY <1>7, <2>1, <2>2, <2>3
<1>8. CASE Stop
  <2>1. UnclaimedPatches' \subseteq UnclaimedPatches
    BY <1>8 DEF Stop, UnclaimedPatches, ToSet
  <2> QED BY <1>2, <1>8, <2>1 DEF Stop
<1>9. CASE Take
  <2>1. UnclaimedPatches' = UnclaimedPatches
    BY <1>9, UnclaimedTaken
  <2> QED BY <1>2, <1>9, <2>1 DEF Take
<1>10. CASE ClaimPatch
  <2>1. parameters # EmptyMap
    BY <1>10 DEF GivenInv, ClaimPatch, UnclaimedPatches
  <2> QED BY <1>10, <2>1 DEF GivenInv, ClaimPatch, CurrentParameters
<1>11. CASE PlanPatch \/ CheckSource \/ RecordOutcome
  <2>1. CASE EndBatch
    <3>1. worker' \notin {"plan", "next", "call", "record", "claim"}
      BY <2>1 DEF EndBatch
    <3> QED BY <1>3, <1>11, <3>1 DEF PlanPatch, CheckSource, RecordOutcome
  <2>2. CASE ~EndBatch
    <3>1. /\ worker \in {"plan", "next", "record"} /\ worker' # "claim"
          /\ UNCHANGED <<urgent, normal, parameters, snapshot>>
          /\ job'.revision = job.revision
      BY <1>11, <2>2 DEF PlanPatch, CheckSource, RecordOutcome, TypeInv, TypeOK, BatchType
    <3> QED BY <1>3, <3>1 DEF IsPatch
  <2> QED BY <2>1, <2>2
<1>12. CASE RuntimeReturns \/ AdapterReturns
  BY <1>3, <1>12 DEF RuntimeReturns, AdapterReturns
<1>13. CASE StateDrifts \/ UNCHANGED vars
  <2>1. UNCHANGED <<urgent, normal, parameters, worker, job, snapshot>>
    BY <1>13 DEF StateDrifts, vars
  <2> QED BY <1>2, <2>1 DEF UnclaimedPatches
<1> QED
  BY <1>5, <1>6, <1>7, <1>8, <1>9, <1>10, <1>11, <1>12, <1>13 DEF Next, Worker

\* No request of a planned path that comes after its configure starts at FINALIZED.
PathLaunches ==
  (worker \in {"next", "call", "record"} /\ IsPatch(job)) =>
    \A i, k \in DOMAIN job.requests :
      Configures(job.requests[i]) /\ i < k => job.requests[k].from # "finalized"

\* Once the worker is past the configure the process runs with the map of the patch.
LaunchInv ==
  (worker \in {"next", "call", "record"} /\ IsPatch(job)) =>
    /\ \A i \in DOMAIN job.requests :
         Configures(job.requests[i]) /\ i < next => applied = snapshot
    /\ worker = "record" /\ Configures(Current) /\ outcome = "success" => applied = snapshot

LEMMA PlanLaunches ==
  ASSUME NEW read, NEW map, NEW plan, plan = StandardParameterTransitions(read, map),
         NEW i \in DOMAIN plan, NEW k \in DOMAIN plan, Configures(plan[i]), i < k
  PROVE  plan[k].from # "finalized"
<1> DEFINE Edge(from, target) == Request(from, target, EmptyMap)
           configure == Request("unconfigured", "inactive", map)
<1>1. CASE read = "active"
  <2>1. plan = << Edge("active", "inactive"), Edge("inactive", "unconfigured"),
                  configure, Edge("inactive", "active") >>
    BY <1>1 DEF StandardParameterTransitions
  <2>2. /\ Edge("active", "inactive").from # "finalized"
        /\ Edge("inactive", "unconfigured").from # "finalized"
        /\ configure.from # "finalized"
        /\ Edge("inactive", "active").from # "finalized"
    BY DEF Request
  <2> HIDE DEF configure, Edge
  <2>3. k \in 1..4
    BY <2>1
  <2> QED BY <2>1, <2>2, <2>3
<1>2. CASE read \in {"inactive", "finalized"}
  <2>1. PICK from \in {"inactive", "finalized"} :
          plan = << Edge(from, "unconfigured"), configure >>
    BY <1>2 DEF StandardParameterTransitions
  <2>2. ~Configures(Edge(from, "unconfigured"))
    BY DEF Configures, Request
  <2> HIDE DEF configure, Edge
  <2>3. i \in 1..2 /\ k \in 1..2 /\ plan[1] = Edge(from, "unconfigured")
    BY <2>1
  <2> QED BY <2>2, <2>3
<1>3. CASE read = "unconfigured"
  <2>1. plan = << configure >>
    BY <1>3 DEF StandardParameterTransitions
  <2> HIDE DEF configure
  <2> QED BY <2>1
<1>4. CASE read \notin PrimaryStates
  <2>1. plan = << >>
    BY <1>4 DEF StandardParameterTransitions, PrimaryStates
  <2> QED BY <2>1
<1> QED BY <1>1, <1>2, <1>3, <1>4 DEF PrimaryStates

\* What a step of the device does to the path of a patch: it plans one, or it
\* leaves the one there is.
LEMMA PathKept ==
  ASSUME TypeInv, [Next]_vars \/ HookSubmits \/ AdapterReturns,
         worker' \in {"next", "call", "record"}, IsPatch(job')
  PROVE  \/ /\ worker = "plan" /\ worker' = "next" /\ UNCHANGED <<next, snapshot>>
            /\ \E read \in StateReads :
                 job'.requests = StandardParameterTransitions(read, snapshot)
         \/ worker \in {"next", "call", "record"} /\ IsPatch(job) /\ UNCHANGED <<job, snapshot>>
<1> USE DEF queueVars, observationVars, workerVars, runtimeVars
<1>1. ~EndBatch
  BY DEF EndBatch
<1>2. CASE PlanPatch
  BY <1>1, <1>2 DEF PlanPatch, TypeInv, TypeOK, BatchType
<1>3. CASE CheckSource \/ RecordOutcome
  BY <1>1, <1>3 DEF CheckSource, RecordOutcome
<1>4. CASE Start \/ Stop \/ Join \/ DiscardPatch \/ FinishBatch \/ RuntimeReturns \/ StateDrifts
  BY <1>1, <1>4 DEF Start, Stop, Join, DiscardPatch, FinishBatch, RuntimeReturns, StateDrifts
<1>5. CASE Take \/ ClaimPatch
  BY <1>5 DEF Take, ClaimPatch
<1>6. CASE Finalize
  BY <1>6 DEF Finalize, LifecycleBatch, IsPatch
<1>7. CASE Submit
  BY <1>7, SubmitKeeps
<1>8. CASE HookSubmits \/ AdapterReturns \/ UNCHANGED vars
  BY <1>8 DEF HookSubmits, EnqueueRequests, AdapterReturns, vars
<1> QED
  BY <1>2, <1>3, <1>4, <1>5, <1>6, <1>7, <1>8 DEF Next, Worker

PathsLaunch == PathInv /\ PathLaunches

LEMMA PathsNext ==
  ASSUME TypeInv, PathsLaunch, [Next]_vars \/ HookSubmits \/ AdapterReturns
  PROVE  PathsLaunch'
<1> SUFFICES ASSUME worker' \in {"next", "call", "record"}, IsPatch(job')
             PROVE  PathsLaunch'
  BY DEF PathsLaunch, PathInv, PathLaunches
<1>1. CASE UNCHANGED snapshot /\ \E read \in StateReads :
             job'.requests = StandardParameterTransitions(read, snapshot)
  BY <1>1, PlanConfigures, PlanLaunches DEF PathsLaunch, PathInv, PathLaunches
<1>2. CASE worker \in {"next", "call", "record"} /\ IsPatch(job) /\ UNCHANGED <<job, snapshot>>
  BY <1>2 DEF PathsLaunch, PathInv, PathLaunches
<1> QED BY <1>1, <1>2, PathKept

\* What a call does to the parameters of the process.
LEMMA CallLaunches ==
  ASSUME AdapterCall
  PROVE  /\ \/ applied' = applied
            \/ Current.from = "finalized" \/ Configures(Current)
         /\ Configures(Current) =>
              /\ applied' \in {applied, Current.parameters}
              /\ outcome' = "success" =>
                   applied' = Current.parameters \/ Current.parameters = EmptyMap
<1>1. \A reached, otherwise : StartProcess(reached, otherwise) =>
        /\ applied' \in {applied, Current.parameters}
        /\ outcome' = "success" => applied' = Current.parameters
  BY DEF StartProcess, Answers
<1>2. StopFails => applied' = applied /\ outcome' = "error"
  BY DEF StopFails, Answers
<1>3. CASE Materialize
  BY <1>3 DEF Materialize, Calls, Configures
<1>4. CASE Configure
  BY <1>1, <1>2, <1>4 DEF Configure, Calls, Configures, KeepsProcess, Answers
<1>5. CASE Switch("inactive", "active") \/ Switch("active", "inactive")
  BY <1>5 DEF Switch, Calls, Configures, Answers
<1>6. CASE Cleanup \/ Dematerialize
  BY <1>2, <1>6 DEF Cleanup, Dematerialize, StopProcess, Calls, Configures, Answers, PrimaryStates
<1>7. CASE Unsupported
  BY <1>7 DEF Unsupported, Configures, SupportedEdge, Answers
<1> QED
  BY <1>3, <1>4, <1>5, <1>6, <1>7 DEF AdapterCall

\* The adapter and the hook leave the rest of the device to the queue.
LEMMA ProcessStep ==
  ASSUME TypeInv, TickTypes, [ProcessNext]_pvars
  PROVE  \/ AdapterCall /\ AdapterReturns
         \/ /\ [Next]_vars \/ HookSubmits
            /\ UNCHANGED runtimeVars
            /\ worker = "call" => UNCHANGED workerVars
<1>1. CASE ProcessExits \/ NodePublishes \/ DeliverNodeEvent \/ StatusRead \/ UNCHANGED pvars
  BY <1>1 DEF ProcessExits, NodePublishes, DeliverNodeEvent, StatusRead, pvars, vars
<1>2. CASE WorkerReads
  BY <1>2 DEF WorkerReads, DiscardPatch, PlanPatch, CheckSource, RecordOutcome, Finalize,
              Next, Worker
<1>3. CASE QueueStep
  <2>1. [Next]_vars
    BY <1>3 DEF QueueStep, HookedStart, Next, Worker
  <2>2. UNCHANGED runtimeVars /\ (worker = "call" => UNCHANGED workerVars)
    BY <1>3, SubmitKeeps DEF QueueStep, HookedStart, Start, Stop, Join, Take, ClaimPatch, FinishBatch
  <2> QED BY <2>1, <2>2
<1>4. CASE AdapterCall
  BY <1>4, CallIsReturn
<1>5. CASE Ticker
  <2>1. [Next]_vars \/ HookSubmits
    BY <1>5 DEF Ticker, TickReadsState, TickEvaluates, TickSubmits, TickTypes, HookSubmits
  <2> QED BY <1>5, <2>1, OthersKeepWorker
<1> QED BY <1>1, <1>2, <1>3, <1>4, <1>5 DEF ProcessNext

\* How the worker gets on with a patch between two calls.
LEMMA LoopMoves ==
  ASSUME [Next]_vars \/ HookSubmits, worker = "call" => UNCHANGED workerVars,
         worker \in {"next", "call", "record"}, worker' \in {"next", "call", "record"}
  PROVE  \/ UNCHANGED workerVars
         \/ worker' = "call" /\ UNCHANGED next
         \/ RecordOutcome /\ ~EndBatch /\ worker' = "next" /\ next' = next + 1
<1> USE DEF workerVars
<1>1. ~EndBatch
  BY DEF EndBatch
<1>2. CASE CheckSource \/ RecordOutcome
  BY <1>1, <1>2 DEF CheckSource, RecordOutcome
<1>3. CASE RuntimeReturns
  BY <1>3 DEF RuntimeReturns
<1>4. CASE Start \/ Stop \/ Join \/ DiscardPatch \/ FinishBatch \/ StateDrifts \/ Submit
  BY <1>1, <1>4, SubmitKeeps DEF Start, Stop, Join, DiscardPatch, FinishBatch, StateDrifts
<1>5. CASE Take \/ ClaimPatch \/ PlanPatch \/ Finalize
  BY <1>5 DEF Take, ClaimPatch, PlanPatch, Finalize
<1>6. CASE HookSubmits \/ UNCHANGED vars
  BY <1>6 DEF HookSubmits, EnqueueRequests, vars
<1> QED BY <1>2, <1>3, <1>4, <1>5, <1>6 DEF Next, Worker

LEMMA LaunchNext ==
  ASSUME TypeInv, TypeInv', TickTypes, StartsAtFirst, GivenInv, PathsLaunch, LaunchInv,
         [ProcessNext]_pvars
  PROVE  LaunchInv'
<1>0. [Next]_vars \/ HookSubmits \/ AdapterReturns
  BY ProcessStep
<1> SUFFICES ASSUME worker' \in {"next", "call", "record"}, IsPatch(job')
             PROVE  LaunchInv'
  BY DEF LaunchInv
<1>1. CASE worker = "plan" /\ worker' = "next" /\ UNCHANGED <<next, snapshot>>
  <2>1. next' = 1 /\ DOMAIN job'.requests \subseteq Nat \ {0}
    BY <1>1 DEF StartsAtFirst, TypeInv, TypeOK, BatchType
  <2> QED BY <1>1, <2>1 DEF LaunchInv
<1>2. CASE worker \in {"next", "call", "record"} /\ IsPatch(job) /\ UNCHANGED <<job, snapshot>>
  <2>1. next \in Nat /\ DOMAIN job.requests \subseteq Nat
    BY DEF TypeInv, TypeOK, BatchType
  <2>2. CASE AdapterCall /\ AdapterReturns
    <3>1. worker = "call" /\ worker' = "record" /\ UNCHANGED <<job, next, snapshot>>
      BY <2>2 DEF AdapterReturns
    <3>2. next \in DOMAIN job.requests
      BY <3>1 DEF TypeInv, TypeOK, InBatch, BatchType
    <3>3. Configures(Current) => Current.parameters = snapshot /\ Current.parameters # EmptyMap
      BY <1>2, <3>1, <3>2 DEF PathsLaunch, PathInv, GivenInv, Current
    <3>4. ASSUME NEW i \in DOMAIN job.requests, Configures(job.requests[i]), i < next
          PROVE  applied' = snapshot
      <4>1. applied = snapshot /\ Current.from # "finalized"
        BY <1>2, <3>1, <3>2, <3>4 DEF LaunchInv, PathsLaunch, PathLaunches, Current
      <4> QED BY <2>2, <3>3, <4>1, CallLaunches
    <3>5. Configures(Current) /\ outcome' = "success" => applied' = snapshot
      BY <2>2, <3>3, CallLaunches
    <3> QED BY <3>1, <3>4, <3>5 DEF LaunchInv, Current
  <2>3. CASE /\ [Next]_vars \/ HookSubmits
             /\ UNCHANGED runtimeVars
             /\ worker = "call" => UNCHANGED workerVars
    <3>1. UNCHANGED applied
      BY <2>3 DEF runtimeVars
    <3>2. CASE UNCHANGED workerVars
      BY <1>2, <3>1, <3>2 DEF LaunchInv, Current, workerVars
    <3>3. CASE worker' = "call" /\ UNCHANGED next
      BY <1>2, <3>1, <3>3 DEF LaunchInv
    <3>4. CASE RecordOutcome /\ ~EndBatch /\ worker' = "next" /\ next' = next + 1
      <4> SUFFICES ASSUME NEW i \in DOMAIN job.requests, Configures(job.requests[i]), i < next + 1
                   PROVE  applied = snapshot
        BY <1>2, <3>1, <3>4 DEF LaunchInv
      <4>1. CASE i < next
        BY <1>2, <4>1 DEF LaunchInv
      <4>2. CASE i = next
        BY <1>2, <3>4, <4>2, SuccessReached DEF LaunchInv, Current, RecordOutcome
      <4> QED BY <2>1, <4>1, <4>2
    <3> QED BY <1>2, <2>3, <3>2, <3>3, <3>4, LoopMoves
  <2> QED BY <2>2, <2>3, ProcessStep
<1> QED BY <1>0, <1>1, <1>2, PathKept

\* A patch that has run to its end has its process run with the map it was planned
\* from, whether configure launched it, restarted it or found it so, and whatever
\* exited, did not start or did not stop (Ros2ProcessDeviceRuntimeAdapter::configure).
THEOREM ProcessCompletedPatch == ProcessSpec => []CompletedPatchApplied
<1> DEFINE Inv == GivenInv /\ PathsLaunch /\ LaunchInv
<1>1. ProcessInit => Inv
  BY DEF ProcessInit, HookedInit, Init, GivenInv, UnclaimedPatches, ToSet, PathsLaunch, PathInv,
         PathLaunches, LaunchInv
<1>2. DeviceInv /\ DeviceInv' /\ TickTypes /\ Inv /\ [ProcessNext]_pvars => Inv'
  <2> SUFFICES ASSUME DeviceInv, DeviceInv', TickTypes, Inv, [ProcessNext]_pvars
               PROVE  Inv'
    OBVIOUS
  <2>1. TypeInv /\ TypeInv' /\ StartsAtFirst
    BY DEF DeviceInv, AdjacentInv
  <2>2. [Next]_vars \/ HookSubmits \/ AdapterReturns
    BY <2>1, ProcessStep
  <2> QED BY <2>1, <2>2, GivenNext, PathsNext, LaunchNext
<1>3. TypeInv /\ Inv => CompletedPatchApplied
  <2> SUFFICES ASSUME TypeInv, Inv, worker = "next", IsPatch(job), job.requests # << >>,
                      next > Len(job.requests)
               PROVE  applied = snapshot
    BY DEF CompletedPatchApplied
  <2>1. PICK i \in DOMAIN job.requests : Configures(job.requests[i])
    BY DEF PathsLaunch, PathInv
  <2>2. i < next
    BY DEF TypeInv, TypeOK, BatchType
  <2> QED BY <2>1, <2>2 DEF LaunchInv
<1>4. DeviceInv => TypeInv
  BY DEF DeviceInv
<1> HIDE DEF Inv
<1> QED BY <1>1, <1>2, <1>3, <1>4, ProcessDeviceInv, PTL DEF ProcessSpec
------------------------------------------------------------------------------
(***************************************************************************)
(* Every disappearance is reported.  The only thing that makes the hook    *)
(* count an exit as handled is an answer computed for a device that was    *)
(* FINALIZED when its state was read.  Were the device past UNCONFIGURED   *)
(* by the time the answer is given, an exit of the new process could be    *)
(* counted with the old one.  It is not, because of the order in which     *)
(* requests wait: what opens a device and what moves an open one on are    *)
(* never queued in the order in which both would be executed.              *)
(***************************************************************************)
\* What has been undisturbed still is until a client queues a batch that may move
\* the runtime, a stop fails or the node publishes an event.
LEMMA UndisturbedBefore ==
  ASSUME Spent, [ProcessNext]_pvars, Undisturbed'
  PROVE  Undisturbed
<1>1. \A kind \in FaultKinds : used[kind] \in Nat /\ used[kind] <= used'[kind]
  BY SpentNext DEF Spent
<1>2. used["stop"] = 0 /\ used["event"] = 0
  BY <1>1, KindsAreKinds DEF Undisturbed
<1>3. ~steered
  BY DEF Undisturbed, ProcessNext, ProcessExits, NodePublishes, DeliverNodeEvent, StatusRead,
         WorkerReads, ReadState, QueueStep, AdapterCall, Materialize, Configure, StartProcess,
         Switch, Cleanup, Dematerialize, StopProcess, StopFails, Unsupported, Answers, Ticker,
         pvars, processVars
<1> QED BY <1>2, <1>3 DEF Undisturbed

\* What a client submits then moves nothing.
LEMMA SubmitsOnly ==
  ASSUME QueueStep, Undisturbed'
  PROVE  \/ HookedStart \/ Stop \/ Join \/ Take \/ ClaimPatch \/ FinishBatch
         \/ Submit /\ ~Steers
BY DEF QueueStep, Undisturbed

\* What a request can do: open the runtime from FINALIZED, move an open one, or
\* nothing, because no runtime supports the edge.
Effect(request) ==
  IF ~SupportedEdge(request.from, request.target) THEN "none"
  ELSE IF request.from = "finalized" THEN "opens" ELSE "moves"

Kind(batch) == Effect(batch.requests[1])

\* A batch of the hook is one request; a batch of a client ends with its first.
Once(requests) ==
  /\ requests # << >>
  /\ Effect(requests[1]) # "none" => Len(requests) = 1

Waiting(batch) == ~IsPatch(batch) /\ Once(batch.requests)

\* The order that must not occur: at FINALIZED a move behind an opening, at any
\* other state an opening behind a move.
Wrong(at, earlier, later) ==
  IF at = "finalized" THEN earlier = "opens" /\ later = "moves"
  ELSE earlier = "moves" /\ later = "opens"

InOrder(at, hand, queue, answer) ==
  /\ ~Wrong(at, hand, answer)
  /\ \A i \in DOMAIN queue :
       /\ ~Wrong(at, hand, Kind(queue[i])) /\ ~Wrong(at, Kind(queue[i]), answer)
       /\ \A k \in DOMAIN queue : i < k => ~Wrong(at, Kind(queue[i]), Kind(queue[k]))

LEMMA OrderWithoutSome ==
  ASSUME NEW at, NEW hand, NEW queue, NEW answer, InOrder(at, hand, queue, answer)
  PROVE  /\ InOrder(at, "none", queue, answer)
         /\ InOrder(at, hand, queue, "none")
         /\ InOrder(at, "none", queue, "none")
BY DEF InOrder, Wrong

LEMMA OrderTaken ==
  ASSUME NEW at, NEW hand, NEW queue \in Seq(BatchType), NEW answer, queue # << >>,
         InOrder(at, hand, queue, answer)
  PROVE  InOrder(at, Kind(Head(queue)), Tail(queue), answer)
<1>1. /\ Head(queue) = queue[1] /\ 1 \in DOMAIN queue
      /\ \A i \in DOMAIN Tail(queue) :
           i \in Nat /\ i + 1 \in DOMAIN queue /\ 1 < i + 1 /\ Tail(queue)[i] = queue[i + 1]
  OBVIOUS
<1>2. ASSUME NEW i \in DOMAIN Tail(queue)
      PROVE  /\ ~Wrong(at, Kind(Head(queue)), Kind(Tail(queue)[i]))
             /\ ~Wrong(at, Kind(Tail(queue)[i]), answer)
  BY <1>1 DEF InOrder
<1>3. ASSUME NEW i \in DOMAIN Tail(queue), NEW k \in DOMAIN Tail(queue), i < k
      PROVE  ~Wrong(at, Kind(Tail(queue)[i]), Kind(Tail(queue)[k]))
  <2>1. i + 1 \in DOMAIN queue /\ k + 1 \in DOMAIN queue /\ i + 1 < k + 1
    BY <1>1, <1>3
  <2>2. ~Wrong(at, Kind(queue[i + 1]), Kind(queue[k + 1]))
    BY <2>1 DEF InOrder
  <2> QED BY <1>1, <2>2
<1>4. ~Wrong(at, Kind(Head(queue)), answer)
  BY <1>1 DEF InOrder
<1> QED BY <1>2, <1>3, <1>4 DEF InOrder

LEMMA OrderAppended ==
  ASSUME NEW at, NEW hand, NEW queue \in Seq(BatchType), NEW answer,
         NEW batch \in BatchType, InOrder(at, hand, queue, answer)
  PROVE  /\ Kind(batch) = answer => InOrder(at, hand, Append(queue, batch), "none")
         /\ Kind(batch) = "none" => InOrder(at, hand, Append(queue, batch), answer)
<1> DEFINE longer == Append(queue, batch)
           last == Len(queue) + 1
<1>1. /\ DOMAIN longer = DOMAIN queue \cup {last} /\ longer[last] = batch
      /\ \A i \in DOMAIN queue : longer[i] = queue[i] /\ i < last /\ i \in Nat
      /\ last \in Nat
  OBVIOUS
<1>2. \A earlier : ~Wrong(at, earlier, "none") /\ ~Wrong(at, "none", earlier)
  BY DEF Wrong
<1> HIDE DEF longer, last
<1>3. ASSUME NEW i \in DOMAIN longer, NEW k \in DOMAIN longer, i < k,
             Kind(batch) \in {answer, "none"}
      PROVE  ~Wrong(at, Kind(longer[i]), Kind(longer[k]))
  <2>1. i \in DOMAIN queue
    BY <1>1, <1>3
  <2>2. CASE k = last
    BY <1>1, <1>2, <1>3, <2>1, <2>2 DEF InOrder
  <2>3. CASE k \in DOMAIN queue
    BY <1>1, <1>3, <2>1, <2>3 DEF InOrder
  <2> QED BY <1>1, <2>2, <2>3
<1>4. ASSUME NEW i \in DOMAIN longer, Kind(batch) \in {answer, "none"}
      PROVE  ~Wrong(at, hand, Kind(longer[i]))
  BY <1>1, <1>2, <1>4 DEF InOrder
<1>5. ASSUME NEW i \in DOMAIN longer, Kind(batch) = "none"
      PROVE  ~Wrong(at, Kind(longer[i]), answer)
  BY <1>1, <1>2, <1>5 DEF InOrder
<1>6. ~Wrong(at, hand, answer)
  BY DEF InOrder
<1> QED BY <1>2, <1>3, <1>4, <1>5, <1>6 DEF InOrder, longer

\* An answer computed now comes last.
LEMMA OrderAnswered ==
  ASSUME NEW at, NEW hand, NEW queue, InOrder(at, hand, queue, "none")
  PROVE  InOrder(at, hand, queue, IF at = "finalized" THEN "opens" ELSE "moves")
BY DEF InOrder, Wrong

\* Once a request has been executed, what waits is all of one kind.
LEMMA OrderExecuted ==
  ASSUME NEW at, NEW after, NEW hand, NEW queue, NEW answer,
         InOrder(at, hand, queue, answer),
         hand = IF at = "finalized" THEN "opens" ELSE "moves"
  PROVE  InOrder(after, "none", queue, answer)
BY DEF InOrder, Wrong
------------------------------------------------------------------------------
EventsQuiet == ExitsOnly /\ wire = NoEvent

QueuesQuiet ==
  /\ \A batch \in ToSet(urgent) : Waiting(batch) /\ Kind(batch) = "none"
  /\ \A batch \in ToSet(normal) : Waiting(batch)

\* No patch has anything to plan, and only the first request of a batch is ever
\* handed to the adapter.
WorkerQuiet ==
  /\ worker \notin {"claim", "discard", "plan"}
  /\ worker \in {"next", "call", "record"} => Once(job.requests)
  /\ worker \in {"call", "record"} => next = 1
  /\ worker = "next" => next = 1 \/ (next = 2 /\ Len(job.requests) = 1)
  /\ worker = "record" /\ outcome = "success" => Len(job.requests) = 1

TickQuiet ==
  /\ tick = "evaluate" => tickState \in PrimaryStates
  /\ tick = "submit" => Len(tickRequests) = 1

\* What the worker has in hand, and what the tick thread will submit.
HandEffect ==
  IF worker \in {"next", "call"} /\ next = 1 THEN Effect(job.requests[1]) ELSE "none"

AnswerEffect ==
  CASE tick = "evaluate" -> IF tickState = "finalized" THEN "opens" ELSE "moves"
    [] tick = "submit" -> Effect(tickRequests[1])
    [] OTHER -> "none"

RequestsInOrder == running => InOrder(state, HandEffect, normal, AnswerEffect)

\* A device shown to its hook as FINALIZED has at most been opened since.
TickFresh ==
  running /\ tick = "evaluate" /\ tickState = "finalized" =>
    state \in {"finalized", "unconfigured"}

Told ==
  running /\ state \in {"inactive", "active"} /\ child = "none" =>
    latestEvent = ExitEvent /\ eventRevision > handled

Quiet ==
  /\ EventsQuiet /\ QueuesQuiet /\ WorkerQuiet /\ TickQuiet
  /\ RequestsInOrder /\ TickFresh /\ Told

DeviceKnown == DeviceInv /\ TickTypes /\ StateInv /\ Spent /\ FinalInv

\* What a tick and a client put in the queue.
LEMMA HookBatch ==
  ASSUME NEW requests \in Seq(RequestType), Len(requests) = 1
  PROVE  /\ LifecycleBatch(requests) \in BatchType /\ Waiting(LifecycleBatch(requests))
         /\ Kind(LifecycleBatch(requests)) = Effect(requests[1])
<1>1. Len(<< >>) # 1
  OBVIOUS
<1>2. requests # << >>
  BY <1>1
<1> QED BY <1>2, BatchTypes DEF LifecycleBatch, Waiting, Once, Kind, IsPatch

LEMMA ClientBatch ==
  ASSUME TypeInv, ~Steers, NEW path \in InputPaths, NEW priority \in Priorities,
         Enqueue(path, priority)
  PROVE  /\ LifecycleBatch(RequestsOf(path)) \in BatchType
         /\ Waiting(LifecycleBatch(RequestsOf(path)))
         /\ Kind(LifecycleBatch(RequestsOf(path))) = "none"
<1> DEFINE requests == RequestsOf(path)
<1>1. path \in Seq(PrimaryStates \X PrimaryStates)
  BY ConstantsAssumption
<1>2. requests # << >>
  BY DEF Enqueue, EnqueueRequests, Acceptable
<1>3. requests \in Seq(RequestType)
  BY <1>1, RequestsOfType DEF TypeInv, TypeOK
<1>4. path # << >> /\ 1 \in DOMAIN path
  <2>1. DOMAIN requests = DOMAIN path
    BY DEF RequestsOf
  <2>2. 1 \in DOMAIN requests
    BY <1>2, <1>3
  <2> QED BY <2>1, <2>2
<1>5. requests[1].from = path[1][1] /\ requests[1].target = path[1][2]
  BY <1>4 DEF RequestsOf, Request
<1>6. ~SupportedEdge(requests[1].from, requests[1].target)
  BY <1>4, <1>5 DEF Steers
<1> HIDE DEF requests
<1>7. Effect(requests[1]) = "none"
  BY <1>6 DEF Effect
<1>8. LifecycleBatch(requests) \in BatchType
  BY <1>3, BatchTypes
<1> QED BY <1>2, <1>7, <1>8 DEF LifecycleBatch, Waiting, Once, Kind, IsPatch, requests

\* No patch gets a batch.
LEMMA SubmissionIsPath ==
  ASSUME ~Steers, Submit
  PROVE  \/ \E path \in InputPaths, priority \in Priorities : Enqueue(path, priority)
         \/ UNCHANGED <<urgent, normal>>
<1>1. ~ \E patch \in InputPatches, priority \in Priorities : QueuePatch(patch, priority)
  BY DEF Steers
<1>2. ASSUME NEW patch \in InputPatches, DisabledPatch(patch) \/ GatePatch(patch)
      PROVE  UNCHANGED <<urgent, normal>>
  BY <1>2 DEF DisabledPatch, GatePatch
<1> QED BY <1>1, <1>2 DEF Submit

LEMMA PushKeepsQueues ==
  ASSUME TypeInv, QueuesQuiet, NEW batch \in BatchType, Waiting(batch), NEW priority,
         PushBack(batch, priority), priority = "urgent" => Kind(batch) = "none"
  PROVE  QueuesQuiet'
<1>1. urgent \in Seq(BatchType) /\ normal \in Seq(BatchType)
  BY DEF TypeInv, TypeOK
<1>2. CASE priority = "urgent"
  <2>1. ToSet(Append(urgent, batch)) = ToSet(urgent) \cup {batch}
    BY <1>1, ToSetAppend
  <2> QED BY <1>2, <2>1 DEF PushBack, QueuesQuiet
<1>3. CASE priority # "urgent"
  <2>1. ToSet(Append(normal, batch)) = ToSet(normal) \cup {batch}
    BY <1>1, ToSetAppend
  <2> QED BY <1>3, <2>1 DEF PushBack, QueuesQuiet
<1> QED BY <1>2, <1>3

\* What an adapter call does, by the effect of its request.
LEMMA CallHasEffect ==
  ASSUME TypeInv, StateInv, WorkerQuiet, AdapterCall, Spent, used'["stop"] = 0
  PROVE  /\ worker = "call" /\ next = 1 /\ Current = job.requests[1]
         /\ Current.from = state /\ ~StopFails
         /\ HandEffect = "none" => UNCHANGED <<state, child, eventVars>> /\ outcome' = "failure"
         /\ HandEffect # "none" =>
              /\ HandEffect = IF state = "finalized" THEN "opens" ELSE "moves"
              /\ Len(job.requests) = 1
         /\ state = "finalized" => state' \in {"finalized", "unconfigured"}
<1>1. worker = "call" /\ next = 1 /\ Current = job.requests[1] /\ Current.from = state
  BY CallIsReturn DEF AdapterReturns, WorkerQuiet, Current, StateInv, CallsFromState
<1>2. ~StopFails
  <2>1. ASSUME Spend("stop") PROVE FALSE
    BY <2>1, SpendingIsBounded, KindsAreKinds
  <2> QED BY <2>1 DEF StopFails
<1>3. HandEffect = Effect(Current)
  BY <1>1 DEF HandEffect
<1>4. ASSUME ~SupportedEdge(Current.from, Current.target)
      PROVE  UNCHANGED <<state, child, eventVars>> /\ outcome' = "failure"
  <2>1. Unsupported
    BY <1>4 DEF AdapterCall, Materialize, Configure, Switch, Cleanup, Dematerialize, Calls,
                SupportedEdge
  <2> QED BY <2>1 DEF Unsupported, Answers
<1>5. ASSUME state = "finalized" PROVE state' \in {"finalized", "unconfigured"}
  <2>1. CASE ~SupportedEdge(Current.from, Current.target)
    BY <1>4, <1>5, <2>1
  <2>2. CASE SupportedEdge(Current.from, Current.target)
    <3>1. Materialize
      BY <1>1, <1>5, <2>2 DEF AdapterCall, Configure, Switch, Cleanup, Dematerialize, Calls,
                              Unsupported
    <3> QED BY <1>5, <3>1 DEF Materialize, StartProcess, Answers
  <2> QED BY <2>1, <2>2
<1>6. HandEffect # "none" => Len(job.requests) = 1
  BY <1>1, <1>3 DEF WorkerQuiet, Once
<1> QED BY <1>1, <1>2, <1>3, <1>4, <1>5, <1>6 DEF Effect
------------------------------------------------------------------------------
\* Whoever notices an exit reports it.
LEMMA ExitIsReported ==
  ASSUME ReportExit
  PROVE  /\ UNCHANGED eventVars \/ RecordEvent(ExitEvent)
         /\ child = "exited" /\ running => RecordEvent(ExitEvent)
         /\ child # "exited" => UNCHANGED eventVars
BY DEF ReportExit, Report, Listening

LEMMA QuietEventsNext ==
  ASSUME Spent, EventsQuiet, [ProcessNext]_pvars, TypeInv, used'["event"] = 0
  PROVE  EventsQuiet'
<1> USE DEF EventsQuiet, ExitsOnly, eventVars, tickVars
<1>1. ASSUME UNCHANGED <<eventVars, handled, wire>> PROVE EventsQuiet'
  BY <1>1
<1>2. ASSUME ReportExit, UNCHANGED <<handled, wire>> PROVE EventsQuiet'
  BY <1>2, ExitIsReported DEF RecordEvent
<1>3. CASE ProcessExits
  BY <1>1, <1>3 DEF ProcessExits
<1>4. ~NodePublishes
  BY SpendingIsBounded, KindsAreKinds DEF NodePublishes
<1>5. ~DeliverNodeEvent
  BY DEF DeliverNodeEvent
<1>6. CASE StatusRead \/ WorkerReads
  BY <1>2, <1>6 DEF StatusRead, WorkerReads, ReadState
<1>7. CASE QueueStep \/ UNCHANGED pvars
  BY <1>1, <1>7 DEF QueueStep, pvars, processVars, remoteVars
<1>8. CASE AdapterCall
  <2>1. UNCHANGED <<handled, wire>>
    <3>1. UNCHANGED tickVars
      BY <1>8, CallIsReturn
    <3>2. UNCHANGED wire
      BY <1>8 DEF AdapterCall, Materialize, Configure, StartProcess, Switch, Cleanup,
                  Dematerialize, StopProcess, StopFails, Unsupported, Answers
    <3> QED BY <3>1, <3>2
  <2>2. ReportExit \/ UNCHANGED eventVars
    BY <1>8 DEF AdapterCall, Materialize, Configure, Switch, Cleanup, Dematerialize, StopProcess,
                Unsupported
  <2> QED BY <1>1, <1>2, <2>1, <2>2
<1>9. CASE Ticker
  <2>1. CASE TickReadsState /\ ReadState
    BY <1>2, <2>1 DEF TickReadsState, ReadState
  <2>2. CASE TickEvaluates(HookRequests, HandledAfter) /\ UNCHANGED wire
    <3>1. handled' \in {handled, eventRevision}
      BY <2>2 DEF TickEvaluates, HandledAfter
    <3> QED BY <2>2, <3>1 DEF TickEvaluates
  <2>3. CASE TickSubmits /\ UNCHANGED wire
    BY <1>1, <2>3 DEF TickSubmits
  <2> QED BY <1>9, <2>1, <2>2, <2>3 DEF Ticker
<1> QED BY <1>3, <1>4, <1>5, <1>6, <1>7, <1>8, <1>9 DEF ProcessNext

LEMMA QuietQueuesNext ==
  ASSUME Undisturbed', DeviceKnown, QueuesQuiet, WorkerQuiet, TickQuiet, [ProcessNext]_pvars
  PROVE  QueuesQuiet'
<1>1. TypeInv /\ TickTypes /\ urgent \in Seq(BatchType) /\ normal \in Seq(BatchType)
  BY DEF DeviceKnown, DeviceInv, TypeInv, TypeOK
<1>2. ASSUME UNCHANGED <<urgent, normal>> PROVE QueuesQuiet'
  BY <1>2 DEF QueuesQuiet
<1>3. CASE ProcessExits \/ NodePublishes \/ DeliverNodeEvent \/ StatusRead \/ UNCHANGED pvars
  BY <1>2, <1>3 DEF ProcessExits, NodePublishes, DeliverNodeEvent, StatusRead, pvars, vars, queueVars
<1>4. CASE WorkerReads
  BY <1>2, <1>4 DEF WorkerReads, DiscardPatch, PlanPatch, CheckSource, RecordOutcome, Finalize,
                    queueVars
<1>5. CASE AdapterCall
  BY <1>1, <1>2, <1>5, CallIsReturn DEF AdapterReturns, queueVars
<1>6. CASE HookedStart \/ Join \/ ClaimPatch \/ FinishBatch
  BY <1>2, <1>6 DEF HookedStart, Start, Join, ClaimPatch, FinishBatch, queueVars
<1>7. CASE Stop
  <2>1. ToSet(<< >>) = {}
    BY DEF ToSet
  <2>2. urgent' = << >> /\ normal' = << >>
    BY <1>7 DEF Stop
  <2> QED BY <2>1, <2>2 DEF QueuesQuiet
<1>8. CASE Submit /\ ~Steers
  <2>1. ASSUME NEW path \in InputPaths, NEW priority \in Priorities, Enqueue(path, priority)
        PROVE  QueuesQuiet'
    <3>1. PushBack(LifecycleBatch(RequestsOf(path)), priority)
      BY <2>1 DEF Enqueue, EnqueueRequests
    <3> QED BY <1>1, <1>8, <2>1, <3>1, ClientBatch, PushKeepsQueues
  <2> QED BY <1>2, <1>8, <2>1, SubmissionIsPath
<1>9. CASE Take
  <2>1. CASE urgent # << >>
    <3>1. ToSet(urgent) = {Head(urgent)} \cup ToSet(Tail(urgent))
      BY <1>1, <2>1, ToSetHeadTail
    <3> QED BY <1>9, <2>1, <3>1 DEF Take, PopFront, QueuesQuiet
  <2>2. CASE urgent = << >>
    <3>1. normal # << >> /\ normal' = Tail(normal) /\ urgent' = urgent
      BY <1>9, <2>2 DEF Take, PopFront
    <3>2. ToSet(normal) = {Head(normal)} \cup ToSet(Tail(normal))
      BY <1>1, <3>1, ToSetHeadTail
    <3> QED BY <3>1, <3>2 DEF QueuesQuiet
  <2> QED BY <2>1, <2>2
<1>10. CASE Ticker
  <2>1. CASE TickReadsState \/ TickEvaluates(HookRequests, HandledAfter)
    BY <1>2, <2>1 DEF TickReadsState, TickEvaluates, vars, queueVars
  <2>2. CASE TickSubmits
    <3>1. CASE UNCHANGED vars
      BY <1>2, <3>1 DEF vars, queueVars
    <3>2. CASE EnqueueRequests(tickRequests, "normal")
      <4>1. tickRequests \in Seq(RequestType) /\ Len(tickRequests) = 1
        BY <1>1, <2>2 DEF TickTypes, TickQuiet, TickSubmits
      <4>2. PushBack(LifecycleBatch(tickRequests), "normal")
        BY <3>2 DEF EnqueueRequests
      <4> QED BY <1>1, <4>1, <4>2, HookBatch, PushKeepsQueues
    <3> QED BY <2>2, <3>1, <3>2 DEF TickSubmits
  <2> QED BY <1>10, <2>1, <2>2 DEF Ticker
<1> QED
  BY <1>3, <1>4, <1>5, <1>6, <1>7, <1>8, <1>9, <1>10, SubmitsOnly DEF ProcessNext

\* A worker whose batch ends has nothing in hand.
LEMMA EndIsQuiet ==
  ASSUME EndBatch
  PROVE  WorkerQuiet' /\ HandEffect' = "none"
BY DEF EndBatch, WorkerQuiet, HandEffect

LEMMA TakenIsOnce ==
  ASSUME TypeInv, QueuesQuiet, Take
  PROVE  /\ job' \in BatchType /\ Waiting(job') /\ worker' = "next" /\ next' = 1
         /\ HandEffect' = Kind(job')
<1>1. urgent \in Seq(BatchType) /\ normal \in Seq(BatchType)
  BY DEF TypeInv, TypeOK
<1>2. job' \in BatchType /\ Waiting(job')
  <2>1. CASE urgent # << >>
    <3>1. job' = Head(urgent) /\ Head(urgent) \in BatchType
      BY <1>1, <2>1 DEF Take, PopFront
    <3>2. Head(urgent) \in ToSet(urgent)
      BY <1>1, <2>1, ToSetHeadTail
    <3> QED BY <3>1, <3>2 DEF QueuesQuiet
  <2>2. CASE urgent = << >>
    <3>1. job' = Head(normal) /\ normal # << >> /\ Head(normal) \in BatchType
      BY <1>1, <2>2 DEF Take, PopFront
    <3>2. Head(normal) \in ToSet(normal)
      BY <1>1, <3>1, ToSetHeadTail
    <3> QED BY <3>1, <3>2 DEF QueuesQuiet
  <2> QED BY <2>1, <2>2
<1>3. worker' = "next" /\ next' = 1
  BY <1>2 DEF Take, Waiting
<1> QED BY <1>2, <1>3 DEF HandEffect, Kind

LEMMA QuietWorkerNext ==
  ASSUME Undisturbed', DeviceKnown, QueuesQuiet, WorkerQuiet, [ProcessNext]_pvars
  PROVE  WorkerQuiet'
<1>1. TypeInv /\ StateInv /\ Spent
  BY DEF DeviceKnown, DeviceInv
<1>2. ASSUME UNCHANGED <<worker, job, next, outcome>> PROVE WorkerQuiet'
  BY <1>2 DEF WorkerQuiet
<1>3. ASSUME worker' \in {"none", "idle", "exited"} PROVE WorkerQuiet'
  BY <1>3 DEF WorkerQuiet
<1>4. ASSUME UNCHANGED workerVars PROVE WorkerQuiet'
  BY <1>2, <1>4 DEF workerVars
<1>5. CASE HookedStart \/ Join
  BY <1>3, <1>5 DEF HookedStart, Start, Join
<1>6. CASE Take
  BY <1>1, <1>6, TakenIsOnce DEF WorkerQuiet, Waiting
<1>7. ~(ClaimPatch \/ DiscardPatch \/ PlanPatch)
  BY DEF WorkerQuiet, ClaimPatch, DiscardPatch, PlanPatch
<1>8. CASE FinishBatch
  BY <1>8, EndIsQuiet DEF FinishBatch
<1>9. CASE CheckSource
  <2>1. CASE EndBatch
    BY <2>1, EndIsQuiet
  <2>2. CASE ~EndBatch
    <3>1. worker = "next" /\ worker' = "call" /\ next <= Len(job.requests)
          /\ UNCHANGED <<job, next>>
      BY <1>9, <2>2 DEF CheckSource
    <3>2. next = 1
      <4>1. next = 1 \/ (next = 2 /\ Len(job.requests) = 1)
        BY <3>1 DEF WorkerQuiet
      <4>2. ~(2 <= 1)
        OBVIOUS
      <4> QED BY <3>1, <4>1, <4>2
    <3> QED BY <3>1, <3>2 DEF WorkerQuiet
  <2> QED BY <2>1, <2>2
<1>10. CASE AdapterCall
  <2>1. worker' = "record" /\ UNCHANGED <<job, next>>
    BY <1>1, <1>10, CallIsReturn DEF AdapterReturns
  <2>2. outcome' = "success" => Len(job.requests) = 1
    BY <1>1, <1>10, CallHasEffect DEF Undisturbed
  <2>3. worker = "call" /\ next = 1
    BY <1>1, <1>10, CallIsReturn DEF AdapterReturns, WorkerQuiet
  <2> QED BY <2>1, <2>2, <2>3 DEF WorkerQuiet
<1>11. CASE RecordOutcome
  <2>1. CASE EndBatch
    BY <2>1, EndIsQuiet
  <2>2. CASE ~EndBatch
    <3>1. worker = "record" /\ worker' = "next" /\ next' = next + 1 /\ UNCHANGED job
          /\ \E read \in StateReads : Succeeded(RecordOf(read))
      BY <1>11, <2>2 DEF RecordOutcome
    <3>2. outcome = "success"
      BY <3>1 DEF Succeeded, RecordOf, Record
    <3>3. next = 1 /\ Len(job.requests) = 1 /\ Once(job.requests)
      BY <3>1, <3>2 DEF WorkerQuiet
    <3> QED BY <3>1, <3>3 DEF WorkerQuiet
  <2> QED BY <2>1, <2>2
<1>12. CASE Finalize
  <2>1. CASE worker' = "exited"
    BY <1>3, <2>1
  <2>2. CASE worker' # "exited"
    <3>1. PICK actual \in SafeStates :
            /\ worker' = "next" /\ next' = 1
            /\ job' = LifecycleBatch(<< Request(actual, "finalized", EmptyMap) >>)
      BY <1>12, <2>2 DEF Finalize
    <3> DEFINE request == Request(actual, "finalized", EmptyMap)
    <3>2. job'.requests = << request >>
      BY <3>1 DEF LifecycleBatch
    <3> HIDE DEF request
    <3>3. Len(<< request >>) = 1 /\ << request >> # << >>
      OBVIOUS
    <3>4. Once(job'.requests)
      BY <3>2, <3>3 DEF Once
    <3> QED BY <3>1, <3>4 DEF WorkerQuiet
  <2> QED BY <2>1, <2>2
<1> QED
  BY <1>4, <1>5, <1>6, <1>7, <1>8, <1>9, <1>10, <1>11, <1>12, OthersKeepWorker
     DEF ProcessNext, QueueStep, WorkerReads

LEMMA QuietTickNext ==
  ASSUME StateInv, EventsQuiet, TickQuiet, TypeInv, [ProcessNext]_pvars
  PROVE  TickQuiet'
<1>1. ASSUME UNCHANGED tickVars PROVE TickQuiet'
  BY <1>1 DEF TickQuiet, tickVars
<1>2. CASE Ticker
  <2>1. CASE TickReadsState
    BY <2>1 DEF TickReadsState, TickQuiet, StateInv
  <2>2. CASE TickEvaluates(HookRequests, HandledAfter)
    <3>1. OneRequest(HookRequests, tickState)
      BY <2>2, HookAsksOnce DEF TickEvaluates, TickQuiet, EventsQuiet
    <3> QED BY <2>2, <3>1 DEF TickEvaluates, OneRequest, TickQuiet
  <2>3. CASE TickSubmits
    BY <2>3 DEF TickSubmits, TickQuiet
  <2> QED BY <1>2, <2>1, <2>2, <2>3 DEF Ticker
<1>3. CASE AdapterCall
  BY <1>1, <1>3, CallIsReturn
<1> QED
  BY <1>1, <1>2, <1>3 DEF ProcessNext, ProcessExits, NodePublishes, DeliverNodeEvent, StatusRead,
                         WorkerReads, QueueStep, pvars, processVars, remoteVars

LEMMA OrderKept ==
  ASSUME RequestsInOrder, running' => running, UNCHANGED <<state, normal>>,
         HandEffect' \in {HandEffect, "none"}, AnswerEffect' \in {AnswerEffect, "none"}
  PROVE  RequestsInOrder'
<1> SUFFICES ASSUME running'
             PROVE  InOrder(state, HandEffect', normal, AnswerEffect')
  BY DEF RequestsInOrder
<1>1. InOrder(state, HandEffect, normal, AnswerEffect)
  BY DEF RequestsInOrder
<1>2. \/ HandEffect' = HandEffect /\ AnswerEffect' = AnswerEffect
      \/ HandEffect' = "none" /\ AnswerEffect' = AnswerEffect
      \/ HandEffect' = HandEffect /\ AnswerEffect' = "none"
      \/ HandEffect' = "none" /\ AnswerEffect' = "none"
  OBVIOUS
<1> QED BY <1>1, <1>2, OrderWithoutSome

\* The answer in the making becomes the batch that is submitted.
LEMMA AnswerSubmitted ==
  ASSUME EventsQuiet, TickQuiet, TickEvaluates(HookRequests, HandledAfter)
  PROVE  AnswerEffect' \in {AnswerEffect, "none"}
<1>1. tick = "evaluate" /\ OneRequest(HookRequests, tickState) /\ tickRequests' = HookRequests
  BY HookAsksOnce DEF TickEvaluates, TickQuiet, EventsQuiet
<1>2. CASE HookRequests = << >>
  BY <1>2 DEF TickEvaluates, AnswerEffect
<1>3. CASE HookRequests # << >>
  <2>1. tick' = "submit"
    BY <1>3 DEF TickEvaluates
  <2>2. AnswerEffect' = Effect(HookRequests[1])
    BY <1>1, <2>1 DEF AnswerEffect
  <2>3. HookRequests[1].from = tickState /\ SupportedEdge(tickState, HookRequests[1].target)
    BY <1>1, <1>3 DEF OneRequest
  <2>4. Effect(HookRequests[1]) = IF tickState = "finalized" THEN "opens" ELSE "moves"
    BY <2>3 DEF Effect
  <2>5. AnswerEffect = IF tickState = "finalized" THEN "opens" ELSE "moves"
    BY <1>1 DEF AnswerEffect
  <2> QED BY <2>2, <2>4, <2>5
<1> QED BY <1>2, <1>3

LEMMA OrderNext ==
  ASSUME Undisturbed', DeviceKnown, EventsQuiet, QueuesQuiet, WorkerQuiet, TickQuiet,
         RequestsInOrder, [ProcessNext]_pvars
  PROVE  RequestsInOrder'
<1>1. /\ TypeInv /\ TickTypes /\ StateInv /\ Spent /\ FinalInv /\ LoopInv /\ StoppedIsEmpty
      /\ urgent \in Seq(BatchType) /\ normal \in Seq(BatchType)
  BY DEF DeviceKnown, DeviceInv, TypeInv, TypeOK
<1>2. ASSUME UNCHANGED workerVars PROVE HandEffect' = HandEffect
  BY <1>2 DEF workerVars, HandEffect
<1>3. ASSUME UNCHANGED tickVars PROVE AnswerEffect' = AnswerEffect
  BY <1>3 DEF tickVars, AnswerEffect
<1>4. CASE ProcessExits \/ NodePublishes \/ DeliverNodeEvent \/ StatusRead \/ UNCHANGED pvars
  <2>1. UNCHANGED <<running, normal, state, workerVars, tickVars>>
    BY <1>4 DEF ProcessExits, NodePublishes, DeliverNodeEvent, StatusRead, pvars, processVars, remoteVars,
                vars, queueVars, runtimeVars
  <2> QED BY <1>2, <1>3, <2>1, OrderKept
<1>5. ASSUME HookedStart, UNCHANGED tickVars PROVE RequestsInOrder'
  <2>1. /\ running' /\ state' = state /\ normal' = << >>
        /\ worker = "none" /\ HandEffect' = "none" /\ AnswerEffect' = "none"
    BY <1>1, <1>5 DEF HookedStart, Start, StoppedIsEmpty, HandEffect, AnswerEffect, tickVars,
                      runtimeVars
  <2>2. InOrder(state, "none", << >>, "none")
    BY DEF InOrder, Wrong
  <2> QED BY <2>1, <2>2 DEF RequestsInOrder
<1>6. CASE Stop
  BY <1>6 DEF Stop, RequestsInOrder
<1>7. ASSUME Join \/ FinishBatch, UNCHANGED tickVars PROVE RequestsInOrder'
  <2>1. UNCHANGED <<running, normal, state>>
    BY <1>7 DEF Join, FinishBatch, queueVars, runtimeVars
  <2>2. HandEffect' = "none"
    BY <1>7, EndIsQuiet DEF Join, FinishBatch, HandEffect
  <2> QED BY <1>3, <1>7, <2>1, <2>2, OrderKept
<1>8. ASSUME Submit, ~Steers, UNCHANGED tickVars PROVE RequestsInOrder'
  <2>1. HandEffect' = HandEffect /\ UNCHANGED <<running, state>> /\ AnswerEffect' = AnswerEffect
    BY <1>2, <1>3, <1>8, SubmitKeeps DEF runtimeVars
  <2>2. CASE UNCHANGED normal
    BY <2>1, <2>2, OrderKept
  <2>3. CASE normal' # normal
    <3>1. PICK path \in InputPaths, priority \in Priorities : Enqueue(path, priority)
      BY <1>8, <2>3, SubmissionIsPath
    <3> DEFINE batch == LifecycleBatch(RequestsOf(path))
    <3>2. normal' = Append(normal, batch)
      BY <2>3, <3>1 DEF Enqueue, EnqueueRequests, PushBack
    <3>3. batch \in BatchType /\ Kind(batch) = "none"
      BY <1>1, <1>8, <3>1, ClientBatch
    <3> HIDE DEF batch
    <3>4. running => InOrder(state, HandEffect, Append(normal, batch), AnswerEffect)
      BY <1>1, <3>3, OrderAppended DEF RequestsInOrder
    <3> QED BY <2>1, <3>2, <3>4 DEF RequestsInOrder
  <2> QED BY <2>2, <2>3
<1>9. ASSUME Take, UNCHANGED tickVars PROVE RequestsInOrder'
  <2>1. UNCHANGED <<running, state>> /\ AnswerEffect' = AnswerEffect /\ HandEffect' = Kind(job')
    BY <1>1, <1>3, <1>9, TakenIsOnce DEF Take, runtimeVars
  <2>2. CASE urgent # << >>
    <3>1. job' = Head(urgent) /\ normal' = normal
      BY <1>9, <2>2 DEF Take, PopFront
    <3>2. Head(urgent) \in ToSet(urgent)
      BY <1>1, <2>2, ToSetHeadTail
    <3>3. HandEffect' = "none"
      BY <2>1, <3>1, <3>2 DEF QueuesQuiet
    <3> QED BY <2>1, <3>1, <3>3, OrderKept
  <2>3. CASE urgent = << >>
    <3>1. normal # << >> /\ job' = Head(normal) /\ normal' = Tail(normal)
      BY <1>9, <2>3 DEF Take, PopFront
    <3>2. running => InOrder(state, Kind(Head(normal)), Tail(normal), AnswerEffect)
      BY <1>1, <3>1, OrderTaken DEF RequestsInOrder
    <3> QED BY <2>1, <3>1, <3>2 DEF RequestsInOrder
  <2> QED BY <2>2, <2>3
<1>10. ~(ClaimPatch \/ DiscardPatch \/ PlanPatch)
  BY DEF WorkerQuiet, ClaimPatch, DiscardPatch, PlanPatch
<1>11. ASSUME CheckSource, UNCHANGED tickVars PROVE RequestsInOrder'
  <2>1. UNCHANGED <<running, normal, state>>
    BY <1>11 DEF CheckSource, queueVars, runtimeVars
  <2>2. HandEffect' \in {HandEffect, "none"}
    <3>1. CASE EndBatch
      BY <3>1, EndIsQuiet
    <3>2. CASE ~EndBatch
      BY <1>11, <3>2 DEF CheckSource, HandEffect
    <3> QED BY <3>1, <3>2
  <2> QED BY <1>3, <1>11, <2>1, <2>2, OrderKept
<1>12. ASSUME RecordOutcome, UNCHANGED tickVars PROVE RequestsInOrder'
  <2>1. UNCHANGED <<running, normal, state>>
    BY <1>12 DEF RecordOutcome, queueVars, runtimeVars
  <2>2. HandEffect' = "none"
    <3>1. CASE EndBatch
      BY <3>1, EndIsQuiet
    <3>2. CASE ~EndBatch
      <4>1. next' = next + 1 /\ next = 1
        BY <1>12, <3>2 DEF RecordOutcome, WorkerQuiet
      <4> QED BY <4>1 DEF HandEffect
    <3> QED BY <3>1, <3>2
  <2> QED BY <1>3, <1>12, <2>1, <2>2, OrderKept
<1>13. CASE Finalize
  <2>1. ~running /\ running' = running
    BY <1>1, <1>13 DEF Finalize, LoopInv, queueVars
  <2> QED BY <2>1 DEF RequestsInOrder
<1>14. CASE AdapterCall
  <2>1. /\ UNCHANGED <<running, normal>> /\ AnswerEffect' = AnswerEffect
        /\ HandEffect' = "none"
    BY <1>1, <1>3, <1>14, CallIsReturn DEF AdapterReturns, queueVars, HandEffect
  <2>2. CASE HandEffect = "none"
    BY <1>1, <1>14, <2>1, <2>2, CallHasEffect, OrderKept DEF Undisturbed
  <2>3. CASE HandEffect # "none"
    <3>1. HandEffect = IF state = "finalized" THEN "opens" ELSE "moves"
      BY <1>1, <1>14, <2>3, CallHasEffect DEF Undisturbed
    <3>2. running => InOrder(state', "none", normal, AnswerEffect)
      BY <3>1, OrderExecuted DEF RequestsInOrder
    <3> QED BY <2>1, <3>2 DEF RequestsInOrder
  <2> QED BY <2>2, <2>3
<1>15. CASE Ticker
  <2>1. CASE TickReadsState
    <3>1. /\ UNCHANGED <<running, normal, state, workerVars>>
          /\ AnswerEffect = "none"
          /\ AnswerEffect' = IF state = "finalized" THEN "opens" ELSE "moves"
      BY <2>1 DEF TickReadsState, AnswerEffect, vars, queueVars, runtimeVars
    <3>2. running => InOrder(state, HandEffect, normal, AnswerEffect')
      BY <3>1, OrderAnswered DEF RequestsInOrder
    <3> QED BY <1>2, <3>1, <3>2 DEF RequestsInOrder
  <2>2. CASE TickEvaluates(HookRequests, HandledAfter)
    <3>1. UNCHANGED <<running, normal, state, workerVars>>
      BY <2>2 DEF TickEvaluates, vars, queueVars, runtimeVars
    <3> QED BY <1>2, <2>2, <3>1, AnswerSubmitted, OrderKept
  <2>3. CASE TickSubmits
    <3>1. AnswerEffect' = "none" /\ AnswerEffect = Effect(tickRequests[1])
      BY <2>3 DEF TickSubmits, AnswerEffect
    <3>2. CASE UNCHANGED vars
      BY <1>2, <3>1, <3>2, OrderKept DEF vars, queueVars, runtimeVars
    <3>3. CASE EnqueueRequests(tickRequests, "normal")
      <4> DEFINE batch == LifecycleBatch(tickRequests)
      <4>1. batch \in BatchType /\ Kind(batch) = AnswerEffect
        BY <1>1, <2>3, <3>1, HookBatch DEF TickTypes, TickQuiet, TickSubmits
      <4>2. /\ UNCHANGED <<running, state, workerVars>>
            /\ normal' = Append(normal, batch)
        BY <3>3 DEF EnqueueRequests, PushBack, runtimeVars
      <4> HIDE DEF batch
      <4>3. running => InOrder(state, HandEffect, Append(normal, batch), "none")
        BY <1>1, <4>1, OrderAppended DEF RequestsInOrder
      <4> QED BY <1>2, <3>1, <4>2, <4>3 DEF RequestsInOrder
    <3> QED BY <2>3, <3>2, <3>3 DEF TickSubmits
  <2> QED BY <1>15, <2>1, <2>2, <2>3 DEF Ticker
<1> QED
  BY <1>4, <1>5, <1>6, <1>7, <1>8, <1>9, <1>10, <1>11, <1>12, <1>13, <1>14, <1>15, SubmitsOnly
     DEF ProcessNext, QueueStep, WorkerReads, processVars, remoteVars

LEMMA FreshNext ==
  ASSUME Undisturbed', DeviceKnown, WorkerQuiet, RequestsInOrder, TickFresh, [ProcessNext]_pvars
  PROVE  TickFresh'
<1>1. TypeInv /\ StateInv /\ Spent
  BY DEF DeviceKnown, DeviceInv
<1>2. ASSUME UNCHANGED <<tick, tickState, state>>, running' => running PROVE TickFresh'
  BY <1>2 DEF TickFresh
<1>3. CASE ProcessExits \/ NodePublishes \/ DeliverNodeEvent \/ StatusRead \/ UNCHANGED pvars
  BY <1>2, <1>3 DEF ProcessExits, NodePublishes, DeliverNodeEvent, StatusRead, pvars, processVars, remoteVars,
                    vars, queueVars, runtimeVars, tickVars
<1>4. CASE WorkerReads
  <2>1. UNCHANGED <<queueVars, runtimeVars, tickVars>>
    BY <1>4 DEF WorkerReads, DiscardPatch, PlanPatch, CheckSource, RecordOutcome, Finalize
  <2> QED BY <1>2, <2>1 DEF queueVars, runtimeVars, tickVars
<1>5. ASSUME HookedStart, UNCHANGED tickVars PROVE TickFresh'
  BY <1>5 DEF HookedStart, Start, tickVars, TickFresh
<1>6. ASSUME Stop \/ Join \/ Submit \/ Take \/ ClaimPatch \/ FinishBatch, UNCHANGED tickVars
      PROVE  TickFresh'
  <2>1. CASE Submit
    BY <1>2, <1>6, <2>1, SubmitKeeps DEF runtimeVars, tickVars
  <2>2. CASE Stop \/ Join \/ Take \/ ClaimPatch \/ FinishBatch
    BY <1>2, <1>6, <2>2 DEF Stop, Join, Take, ClaimPatch, FinishBatch, queueVars, runtimeVars, tickVars
  <2> QED BY <1>6, <2>1, <2>2
<1>7. CASE AdapterCall
  <2>1. UNCHANGED <<running, tick, tickState>>
    BY <1>1, <1>7, CallIsReturn DEF AdapterReturns, queueVars, tickVars
  <2>2. CASE ~running \/ tick # "evaluate" \/ tickState # "finalized"
    BY <2>1, <2>2 DEF TickFresh
  <2>3. CASE running /\ tick = "evaluate" /\ tickState = "finalized"
    <3>1. ~Wrong(state, HandEffect, "opens")
      BY <2>3 DEF RequestsInOrder, InOrder, AnswerEffect
    <3>2. state \in {"finalized", "unconfigured"}
      BY <2>3 DEF TickFresh
    <3>3. CASE state = "finalized"
      BY <1>1, <1>7, <3>3, CallHasEffect DEF Undisturbed, TickFresh
    <3>4. CASE state = "unconfigured"
      <4>1. HandEffect # "moves"
        BY <3>1, <3>4 DEF Wrong
      <4>2. state' = state
        BY <1>1, <1>7, <3>4, <4>1, CallHasEffect DEF Undisturbed
      <4> QED BY <3>4, <4>2 DEF TickFresh
    <3> QED BY <3>2, <3>3, <3>4
  <2> QED BY <2>2, <2>3
<1>8. CASE Ticker
  <2>1. CASE TickReadsState
    BY <2>1 DEF TickReadsState, TickFresh, vars, runtimeVars
  <2>2. CASE TickEvaluates(HookRequests, HandledAfter) \/ TickSubmits
    BY <2>2 DEF TickEvaluates, TickSubmits, TickFresh
  <2> QED BY <1>8, <2>1, <2>2 DEF Ticker
<1> QED
  BY <1>3, <1>4, <1>5, <1>6, <1>7, <1>8 DEF ProcessNext, QueueStep, processVars, remoteVars

LEMMA ToldNext ==
  ASSUME Undisturbed, Undisturbed', DeviceKnown, EventsQuiet, EventsQuiet', WorkerQuiet, TickQuiet, TickFresh,
         Told, [ProcessNext]_pvars
  PROVE  Told'
<1>1. TypeInv /\ StateInv /\ Spent /\ FinalInv
  BY DEF DeviceKnown, DeviceInv
<1>2. ASSUME UNCHANGED <<state, child, eventVars, handled>>, running' => running PROVE Told'
  BY <1>2 DEF Told, eventVars
<1>3. ASSUME state' \notin {"inactive", "active"} \/ child' # "none" PROVE Told'
  BY <1>3 DEF Told
<1>4. ASSUME ReportExit, child' = AfterReap, UNCHANGED <<running, state, handled>> PROVE Told'
  <2>1. CASE child = "exited" /\ running
    <3>1. latestEvent' = ExitEvent /\ eventRevision' = eventRevision + 1 /\ handled' = handled
      BY <1>4, <2>1, ExitIsReported DEF RecordEvent
    <3>2. eventRevision + 1 > handled
      BY DEF EventsQuiet, ExitsOnly
    <3> QED BY <3>1, <3>2 DEF Told
  <2>2. CASE child # "exited"
    <3>1. UNCHANGED <<eventVars, child>>
      BY <1>4, <2>2, ExitIsReported DEF AfterReap
    <3> QED BY <1>2, <1>4, <3>1
  <2>3. CASE ~running
    BY <1>4, <2>3 DEF Told
  <2> QED BY <2>1, <2>2, <2>3
<1>5. CASE ProcessExits
  BY <1>3, <1>5 DEF ProcessExits
<1>6. CASE NodePublishes \/ UNCHANGED pvars
  BY <1>2, <1>6 DEF NodePublishes, pvars, processVars, remoteVars, vars, queueVars, runtimeVars, tickVars
<1>7. ~DeliverNodeEvent
  BY DEF DeliverNodeEvent, EventsQuiet
<1>8. CASE StatusRead
  BY <1>4, <1>8 DEF StatusRead, ReadState, vars, queueVars, runtimeVars, tickVars
<1>9. CASE WorkerReads
  <2>1. UNCHANGED <<queueVars, runtimeVars, tickVars>>
    BY <1>9 DEF WorkerReads, DiscardPatch, PlanPatch, CheckSource, RecordOutcome, Finalize
  <2>2. ReadState
    BY <1>9 DEF WorkerReads
  <2> QED BY <1>4, <2>1, <2>2 DEF ReadState, queueVars, runtimeVars, tickVars
<1>10. CASE QueueStep
  <2>1. UNCHANGED <<child, eventVars, handled>>
    BY <1>10 DEF QueueStep, processVars, remoteVars, tickVars
  <2>2. CASE HookedStart
    <3>1. worker = "none"
      BY <2>2 DEF HookedStart, Start
    <3>2. state = "finalized"
      BY <1>1, <3>1 DEF FinalInv, StopsWork, Undisturbed
    <3> QED BY <1>3, <2>2, <3>2 DEF HookedStart, Start, runtimeVars
  <2>3. CASE Submit
    BY <1>2, <2>1, <2>3, SubmitKeeps DEF runtimeVars
  <2>4. CASE Stop \/ Join \/ Take \/ ClaimPatch \/ FinishBatch
    BY <1>2, <2>1, <2>4 DEF Stop, Join, Take, ClaimPatch, FinishBatch, queueVars, runtimeVars
  <2> QED BY <1>10, <2>2, <2>3, <2>4 DEF QueueStep
<1>11. CASE AdapterCall
  <2>1. UNCHANGED <<running, handled>> /\ ~StopFails
    BY <1>1, <1>11, CallIsReturn, CallHasEffect DEF AdapterReturns, queueVars, tickVars, Undisturbed
  <2>2. Current.from = state
    BY <1>1, <1>11, CallHasEffect DEF Undisturbed
  <2>3. CASE Materialize
    <3>1. state' \in {"finalized", "unconfigured"}
      BY <2>2, <2>3 DEF Materialize, Calls, StartProcess, Answers
    <3> QED BY <1>3, <3>1
  <2>4. CASE Configure
    <3>1. state' \in {"finalized", "unconfigured"} \/ child' # "none"
      BY <2>1, <2>2, <2>4 DEF Configure, Calls, StartProcess, Answers
    <3> QED BY <1>3, <3>1
  <2>5. ASSUME NEW from, NEW target, Switch(from, target) PROVE Told'
    <3>1. ReportExit /\ (AfterReap # "none" => child' # "none")
          /\ (AfterReap = "none" => child' = AfterReap /\ state' = state)
      BY <2>5 DEF Switch, Answers
    <3> QED BY <1>3, <1>4, <2>1, <3>1
  <2>6. CASE Cleanup \/ Dematerialize
    <3>1. state' \in {"finalized", "unconfigured"}
      BY <2>1, <2>6 DEF Cleanup, Dematerialize, StopProcess, Answers
    <3> QED BY <1>3, <3>1
  <2>7. CASE Unsupported
    BY <1>2, <2>1, <2>7 DEF Unsupported, Answers
  <2> QED BY <1>11, <2>3, <2>4, <2>5, <2>6, <2>7 DEF AdapterCall
<1>12. CASE Ticker
  <2>1. CASE TickReadsState /\ ReadState
    BY <1>4, <2>1 DEF TickReadsState, ReadState, vars, queueVars, runtimeVars
  <2>2. CASE TickEvaluates(HookRequests, HandledAfter) /\ UNCHANGED child
    <3>1. UNCHANGED <<running, state, child, eventVars>> /\ handled' = HandledAfter
          /\ tick = "evaluate"
      BY <2>2 DEF TickEvaluates, vars, queueVars, runtimeVars
    <3>2. CASE handled' = handled
      BY <1>2, <3>1, <3>2
    <3>3. CASE handled' # handled
      <4>1. tickState = "finalized"
        BY <3>1, <3>3, HookAsksOnce DEF TickQuiet, EventsQuiet
      <4>2. CASE running
        BY <1>3, <3>1, <4>1, <4>2 DEF TickFresh
      <4>3. CASE ~running
        BY <3>1, <4>3 DEF Told
      <4> QED BY <4>2, <4>3
    <3> QED BY <3>2, <3>3
  <2>3. CASE TickSubmits /\ UNCHANGED child
    <3>1. UNCHANGED <<running, state>>
      BY <2>3 DEF TickSubmits, EnqueueRequests, vars, queueVars, runtimeVars
    <3> QED BY <1>2, <2>3, <3>1 DEF TickSubmits
  <2> QED BY <1>12, <2>1, <2>2, <2>3 DEF Ticker
<1> QED
  BY <1>5, <1>6, <1>7, <1>8, <1>9, <1>10, <1>11, <1>12 DEF ProcessNext

LEMMA QuietInit ==
  ASSUME ProcessInit
  PROVE  Quiet
<1>1. /\ urgent = << >> /\ normal = << >> /\ ~running /\ worker = "none"
      /\ tick = "waiting" /\ wire = NoEvent /\ eventRevision = 0 /\ handled = 0
  BY DEF ProcessInit, HookedInit, Init
<1>2. ToSet(<< >>) = {}
  BY DEF ToSet
<1> QED
  BY <1>1, <1>2 DEF Quiet, EventsQuiet, ExitsOnly, QueuesQuiet, WorkerQuiet, TickQuiet,
                    RequestsInOrder, TickFresh, Told

LEMMA QuietNext ==
  ASSUME DeviceKnown, Undisturbed => Quiet, [ProcessNext]_pvars
  PROVE  Undisturbed' => Quiet'
<1> SUFFICES ASSUME Undisturbed'
             PROVE  Quiet'
  OBVIOUS
<1>1. /\ TypeInv /\ StateInv /\ Spent /\ used'["event"] = 0
  BY DEF DeviceKnown, DeviceInv, Undisturbed
<1>2. Undisturbed /\ Quiet
  BY <1>1, UndisturbedBefore
<1>3. EventsQuiet'
  BY <1>1, <1>2, QuietEventsNext DEF Quiet
<1>4. QueuesQuiet' /\ WorkerQuiet' /\ TickQuiet'
  BY <1>1, <1>2, QuietQueuesNext, QuietWorkerNext, QuietTickNext DEF Quiet
<1>5. RequestsInOrder' /\ TickFresh'
  BY <1>2, OrderNext, FreshNext DEF Quiet
<1>6. Told'
  BY <1>2, <1>3, ToldNext DEF Quiet
<1> QED BY <1>3, <1>4, <1>5, <1>6 DEF Quiet

\* As long as no event of the node, no failed stop and no client that moves the
\* device came in, a configured device without a process has an unhandled exit
\* event as its latest one, however many exits and failed starts came before and
\* whatever the gate did meanwhile.
THEOREM DisappearancesAreReported == ProcessSpec => []DisappearanceReported
<1>1. ProcessSpec => []DeviceKnown
  BY ProcessStateInv DEF DeviceKnown
<1>2. ProcessInit => (Undisturbed => Quiet)
  BY QuietInit
<1>3. DeviceKnown /\ (Undisturbed => Quiet) /\ [ProcessNext]_pvars
        => (Undisturbed => Quiet)'
  BY QuietNext
<1>4. (Undisturbed => Quiet) => DisappearanceReported
  <2> SUFFICES ASSUME running, state \in {"inactive", "active"}, child = "none", Quiet
               PROVE  latestEvent = ExitEvent /\ Unhandled
    BY DEF DisappearanceReported
  <2>1. latestEvent = ExitEvent /\ eventRevision > handled
        /\ eventRevision \in Nat /\ handled \in Nat
    BY DEF Quiet, Told, EventsQuiet, ExitsOnly
  <2> QED BY <2>1 DEF Unhandled
<1> QED BY <1>1, <1>2, <1>3, <1>4, PTL DEF ProcessSpec
==============================================================================
