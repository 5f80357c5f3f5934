------------------------- MODULE DeviceQueue_proofs --------------------------
(***************************************************************************)
(* Theorems about DeviceQueue for every set of parameters, submissions,    *)
(* faults and bounds.                                                      *)
(***************************************************************************)
EXTENDS DeviceQueue, TLAPS
------------------------------------------------------------------------------
\* Parameter maps: the empty one is one, and a merge of two is one.
LEMMA EmptyMapIsMap == EmptyMap \in ParameterMaps
  <1>1. EmptyMap \in [{} -> Values]
    BY DEF EmptyMap
  <1>2. {} \in SUBSET Names
    OBVIOUS
  <1>. QED  BY <1>1, <1>2 DEF ParameterMaps

LEMMA MergeIsMap ==
  ASSUME NEW base \in ParameterMaps, NEW patch \in ParameterMaps
  PROVE  Merge(base, patch) \in ParameterMaps
  <1>1. PICK S \in SUBSET Names : base \in [S -> Values]
    BY DEF ParameterMaps
  <1>2. PICK T \in SUBSET Names : patch \in [T -> Values]
    BY DEF ParameterMaps
  <1>3. Merge(base, patch) \in [S \cup T -> Values]
    BY <1>1, <1>2 DEF Merge
  <1>4. S \cup T \in SUBSET Names
    OBVIOUS
  <1>. QED  BY <1>3, <1>4 DEF ParameterMaps

\* Merging the empty map changes nothing.
LEMMA MergeEmpty ==
  ASSUME NEW base \in ParameterMaps
  PROVE  Merge(base, EmptyMap) = base
  <1>1. PICK S \in SUBSET Names : base \in [S -> Values]
    BY DEF ParameterMaps
  <1>2. DOMAIN EmptyMap = {}
    BY DEF EmptyMap
  <1>3. Merge(base, EmptyMap) = [n \in S |-> base[n]]
    BY <1>1, <1>2 DEF Merge
  <1>. QED  BY <1>1, <1>3

LEMMA RequestIsRequest ==
  ASSUME NEW from \in LifecycleState, NEW target \in LifecycleState,
         NEW map \in ParameterMaps
  PROVE  Request(from, target, map) \in RequestType
  BY DEF Request, RequestType

LEMMA RecordIsRecord ==
  \A result \in Result, discarded \in BOOLEAN, target, actual \in LifecycleState :
    Record(result, discarded, target, actual) \in RecordType
  BY DEF Record, RecordType

\* The requests of a path are well typed.
LEMMA RequestsOfType ==
  ASSUME NEW path \in Seq(PrimaryStates \X PrimaryStates), parameters \in ParameterMaps
  PROVE  RequestsOf(path) \in Seq(RequestType)
  <1>. DEFINE request(i) == Request(path[i][1], path[i][2],
                IF path[i] = <<"unconfigured", "inactive">> THEN parameters ELSE EmptyMap)
  <1>1. ASSUME NEW i \in 1..Len(path)
        PROVE  request(i) \in RequestType
    <2>1. path[i] \in PrimaryStates \X PrimaryStates
      OBVIOUS
    <2>2. /\ path[i][1] \in LifecycleState
          /\ path[i][2] \in LifecycleState
      BY <2>1 DEF LifecycleState
    <2>. QED  BY <2>2, EmptyMapIsMap, RequestIsRequest
  <1>2. RequestsOf(path) = [i \in 1..Len(path) |-> request(i)]
    BY DEF RequestsOf
  <1>3. Len(path) \in Nat
    OBVIOUS
  <1>. HIDE DEF request
  <1>4. [i \in 1..Len(path) |-> request(i)] \in Seq(RequestType)
    BY <1>1, <1>3
  <1>. QED  BY <1>2, <1>4

\* The planned path is well typed and each of its requests starts where the
\* previous one ends.
LEMMA PlanIsPath ==
  ASSUME NEW read, NEW map \in ParameterMaps
  PROVE  /\ StandardParameterTransitions(read, map) \in Seq(RequestType)
         /\ IsContiguous(StandardParameterTransitions(read, map))
  <1>. DEFINE Edge(from, target) == Request(from, target, EmptyMap)
              configure == Request("unconfigured", "inactive", map)
              plan == StandardParameterTransitions(read, map)
  <1>1. /\ configure \in RequestType
        /\ \A from, target \in PrimaryStates : Edge(from, target) \in RequestType
    BY EmptyMapIsMap, RequestIsRequest DEF LifecycleState, PrimaryStates
  <1>2. CASE read = "active"
    <2>1. plan = << Edge("active", "inactive"), Edge("inactive", "unconfigured"),
                    configure, Edge("inactive", "active") >>
      BY <1>2 DEF StandardParameterTransitions
    <2>2. plan \in Seq(RequestType)
      BY <1>1, <2>1 DEF PrimaryStates
    <2>3. IsContiguous(plan)
      BY <2>1 DEF IsContiguous, Request
    <2>. QED  BY <2>2, <2>3
  <1>3. CASE read = "inactive"
    <2>1. plan = << Edge("inactive", "unconfigured"), configure >>
      BY <1>3 DEF StandardParameterTransitions
    <2>. QED  BY <1>1, <2>1 DEF IsContiguous, Request, PrimaryStates
  <1>4. CASE read = "finalized"
    <2>1. plan = << Edge("finalized", "unconfigured"), configure >>
      BY <1>4 DEF StandardParameterTransitions
    <2>. QED  BY <1>1, <2>1 DEF IsContiguous, Request, PrimaryStates
  <1>5. CASE read = "unconfigured"
    <2>1. plan = << configure >>
      BY <1>5 DEF StandardParameterTransitions
    <2>. QED  BY <1>1, <2>1 DEF IsContiguous, Request
  <1>6. CASE read \notin PrimaryStates
    <2>1. plan = << >>
      BY <1>6 DEF StandardParameterTransitions, PrimaryStates
    <2>. QED  BY <2>1 DEF IsContiguous
  <1>. QED  BY <1>2, <1>3, <1>4, <1>5, <1>6 DEF PrimaryStates
------------------------------------------------------------------------------
\* Batches.
LEMMA BatchTypes ==
  /\ \A requests \in Seq(RequestType) : LifecycleBatch(requests) \in BatchType
  /\ \A rev \in Nat, patch \in ParameterMaps : PatchBatch(rev, patch) \in BatchType
  /\ NoBatch \in BatchType
  BY EmptyMapIsMap DEF LifecycleBatch, PatchBatch, BatchType, NoBatch

\* What the worker can read is a state of the runtime, or that it threw.
LEMMA ReadsAreStates ==
  ASSUME state \in LifecycleState
  PROVE  /\ StateReads \subseteq LifecycleState \cup {"threw"}
         /\ SafeStates \subseteq LifecycleState
         /\ \A read \in StateReads : SafeState(read) \in LifecycleState
  <1>1. StateReads \subseteq LifecycleState \cup {"threw"}
    BY DEF StateReads
  <1>2. \A read \in StateReads : SafeState(read) \in LifecycleState
    BY <1>1 DEF SafeState, LifecycleState
  <1>. QED  BY <1>1, <1>2 DEF SafeStates

\* A call leaves the runtime in a state and has an outcome.
LEMMA OutcomesAreOutcomes ==
  ASSUME state \in LifecycleState, NEW request \in RequestType,
         NEW result \in Outcomes(request)
  PROVE  /\ result[1] \in Result \cup {"threw"}
         /\ result[2] \in LifecycleState
  <1>1. request.target \in LifecycleState
    BY DEF RequestType
  <1>2. CASE result = <<"failure", state>>
    BY <1>2 DEF Result
  <1>3. CASE result = <<"success", request.target>>
    BY <1>1, <1>3 DEF Result
  <1>4. CASE result \in (Result \cup {"threw"}) \X FaultStates
    BY <1>4, ConstantsAssumption
  <1>. QED  BY <1>2, <1>3, <1>4 DEF Outcomes
------------------------------------------------------------------------------
(***************************************************************************)
(* Type correctness.  TypeOK alone is not inductive: the target and source *)
(* of the request being executed are read from job.requests[next], so the  *)
(* index has to be known to lie in the batch.                              *)
(***************************************************************************)
InBatch == worker \in {"call", "record"} => next <= Len(job.requests)

TypeInv == TypeOK /\ InBatch

LEMMA TypeInit == Init => TypeInv
  <1>. SUFFICES ASSUME Init
                PROVE  TypeInv
    OBVIOUS
  <1>. USE EmptyMapIsMap, BatchTypes, ConstantsAssumption DEF Init
  <1>1. TypeOK
    <2>1. lastTransition \in RecordType
      BY DEF NoTransition, RecordType, LifecycleState
    <2>2. /\ state \in LifecycleState
          /\ outcome \in Result \cup {"threw"}
          /\ worker \in WorkerState
      BY DEF Result, WorkerState
    <2>3. /\ urgent \in Seq(BatchType) /\ normal \in Seq(BatchType)
          /\ job \in BatchType
          /\ revision \in Nat /\ next \in Nat \ {0}
      OBVIOUS
    <2>4. {running, stopping, enabled, finalizing} \subseteq BOOLEAN
      OBVIOUS
    <2>. QED  BY <2>1, <2>2, <2>3, <2>4 DEF TypeOK
  <1>. QED  BY <1>1 DEF TypeInv, InBatch

\* A batch that ends leaves a worker, a batch and an index of their types.
LEMMA EndBatchType ==
  ASSUME EndBatch
  PROVE  /\ worker' \in WorkerState \ {"call", "record"}
         /\ job' \in BatchType
         /\ next' \in Nat \ {0}
         /\ snapshot' \in ParameterMaps
         /\ outcome' \in Result \cup {"threw"}
  BY EmptyMapIsMap, BatchTypes DEF EndBatch, WorkerState, Result

LEMMA PushBackType ==
  ASSUME urgent \in Seq(BatchType), normal \in Seq(BatchType),
         NEW batch \in BatchType, NEW priority, PushBack(batch, priority)
  PROVE  urgent' \in Seq(BatchType) /\ normal' \in Seq(BatchType)
  <1>1. CASE priority = "urgent"
    BY <1>1 DEF PushBack
  <1>2. CASE priority # "urgent"
    BY <1>2 DEF PushBack
  <1>. QED  BY <1>1, <1>2

\* An accepted patch only touches the desired map and the gate.
LEMMA AcceptPatchType ==
  ASSUME TypeInv, NEW patch \in PatchType, AcceptPatch(patch)
  PROVE  /\ parameters' \in ParameterMaps
         /\ enabled' \in BOOLEAN
  <1>1. patch.values \in ParameterMaps
    BY DEF PatchType
  <1>2. parameters' \in ParameterMaps
    BY <1>1, MergeIsMap DEF AcceptPatch, TypeInv, TypeOK
  <1>3. enabled' \in BOOLEAN
    BY DEF AcceptPatch, EnabledAfter, TypeInv, TypeOK
  <1>. QED  BY <1>2, <1>3

\* The record of a request has its type, whatever was read back.
LEMMA RecordOfType ==
  ASSUME TypeInv, worker = "record", NEW read \in StateReads
  PROVE  RecordOf(read) \in RecordType
  <1>1. Current \in RequestType
    BY DEF Current, TypeInv, TypeOK, InBatch, BatchType
  <1>2. Current.target \in LifecycleState
    BY <1>1 DEF RequestType
  <1>3. /\ SafeState(read) \in LifecycleState
        /\ read \in LifecycleState \cup {"threw"}
    BY ReadsAreStates DEF TypeInv, TypeOK
  <1>4. CASE outcome = "threw" \/ read = "threw"
    BY <1>2, <1>3, <1>4 DEF RecordOf, Record, RecordType, Result
  <1>5. CASE ~(outcome = "threw" \/ read = "threw")
    <2>1. (IF outcome = "success" /\ read # Current.target THEN "failure" ELSE outcome)
             \in Result
      BY <1>5 DEF TypeInv, TypeOK, Result
    <2>. QED  BY <1>2, <1>3, <1>5, <2>1 DEF RecordOf, Record, RecordType
  <1>. QED  BY <1>4, <1>5
------------------------------------------------------------------------------
\* The step of the type invariant: one step per action.
LEMMA TypeNext == TypeInv /\ [Next]_vars => TypeInv'
  <1>. SUFFICES ASSUME TypeInv, [Next]_vars
                PROVE  TypeInv'
    OBVIOUS
  <1>. USE DEF TypeInv, TypeOK, InBatch, queueVars, observationVars, workerVars, runtimeVars
  <1>1. CASE Start
    BY <1>1 DEF Start, WorkerState
  <1>2. CASE Stop
    <2>1. /\ urgent' \in Seq(BatchType) /\ normal' \in Seq(BatchType)
          /\ pending' \in ParameterMaps
      BY <1>2, EmptyMapIsMap DEF Stop
    <2>2. running' \in BOOLEAN /\ stopping' \in BOOLEAN
      BY <1>2 DEF Stop
    <2>. QED  BY <1>2, <2>1, <2>2 DEF Stop
  <1>3. CASE Join
    BY <1>3 DEF Join, WorkerState
  <1>4. ASSUME NEW path \in InputPaths, NEW priority \in Priorities, Enqueue(path, priority)
        PROVE  TypeInv'
    <2>1. LifecycleBatch(RequestsOf(path)) \in BatchType
      BY ConstantsAssumption, RequestsOfType, BatchTypes
    <2>2. PushBack(LifecycleBatch(RequestsOf(path)), priority)
      BY <1>4 DEF Enqueue, EnqueueRequests
    <2>3. urgent' \in Seq(BatchType) /\ normal' \in Seq(BatchType)
      BY <2>1, <2>2, PushBackType
    <2>. QED  BY <1>4, <2>3 DEF Enqueue, EnqueueRequests
  <1>5. ASSUME NEW patch \in InputPatches, DisabledPatch(patch)
        PROVE  TypeInv'
    <2>1. AcceptPatch(patch) /\ patch \in PatchType
      BY <1>5, ConstantsAssumption DEF DisabledPatch
    <2>2. parameters' \in ParameterMaps /\ enabled' \in BOOLEAN
      BY <2>1, AcceptPatchType
    <2>. QED  BY <1>5, <2>1, <2>2, EmptyMapIsMap DEF DisabledPatch, AcceptPatch
  <1>6. ASSUME NEW patch \in InputPatches, GatePatch(patch)
        PROVE  TypeInv'
    <2>1. AcceptPatch(patch) /\ patch \in PatchType
      BY <1>6, ConstantsAssumption DEF GatePatch
    <2>2. parameters' \in ParameterMaps /\ enabled' \in BOOLEAN
      BY <2>1, AcceptPatchType
    <2>. QED  BY <1>6, <2>1, <2>2 DEF GatePatch, AcceptPatch
  <1>7. ASSUME NEW patch \in InputPatches, NEW priority \in Priorities,
               QueuePatch(patch, priority)
        PROVE  TypeInv'
    <2>1. /\ AcceptPatch(patch) /\ patch \in PatchType
          /\ patch.values \in ParameterMaps
      BY <1>7, ConstantsAssumption DEF QueuePatch, PatchType
    <2>2. parameters' \in ParameterMaps /\ enabled' \in BOOLEAN
      BY <2>1, AcceptPatchType
    <2>3. Merge(pending, patch.values) \in ParameterMaps
      BY <2>1, MergeIsMap
    <2>4. PatchToQueue(patch) \in BatchType
      BY <2>3, BatchTypes DEF PatchToQueue
    <2>5. urgent' \in Seq(BatchType) /\ normal' \in Seq(BatchType)
      BY <1>7, <2>4, PushBackType DEF QueuePatch
    <2>. QED  BY <1>7, <2>1, <2>2, <2>3, <2>5 DEF QueuePatch, AcceptPatch
  <1>8. CASE Take
    <2>1. /\ job' \in BatchType
          /\ urgent' \in Seq(BatchType) /\ normal' \in Seq(BatchType)
      <3>1. CASE urgent # << >>
        BY <1>8, <3>1 DEF Take, PopFront
      <3>2. CASE urgent = << >>
        BY <1>8, <3>2 DEF Take, PopFront
      <3>. QED  BY <3>1, <3>2
    <2>2. worker' \in {"claim", "next"}
      BY <1>8 DEF Take
    <2>. QED  BY <1>8, <2>1, <2>2 DEF Take, WorkerState
  <1>9. CASE ClaimPatch
    <2>1. /\ worker' \in {"discard", "plan"}
          /\ pending' \in ParameterMaps /\ snapshot' \in ParameterMaps
      BY <1>9, EmptyMapIsMap DEF ClaimPatch, CurrentParameters
    <2>. QED  BY <1>9, <2>1 DEF ClaimPatch, WorkerState
  <1>10. CASE DiscardPatch
    <2>1. lastTransition' \in RecordType
      <3>1. PICK actual \in SafeStates :
              lastTransition' = Record("failure", TRUE, "unknown", actual)
        BY <1>10 DEF DiscardPatch
      <3>2. actual \in LifecycleState /\ "unknown" \in LifecycleState /\ "failure" \in Result
        BY ReadsAreStates DEF LifecycleState, Result
      <3>. QED  BY <3>1, <3>2, RecordIsRecord
    <2>. QED  BY <1>10, <2>1, EndBatchType DEF DiscardPatch
  <1>11. CASE PlanPatch
    <2>1. PICK read \in StateReads :
            IF read = "threw"
            THEN /\ lastTransition' = Record("error", FALSE, "unknown", "unknown")
                 /\ EndBatch
            ELSE /\ job' = [job EXCEPT !.requests = StandardParameterTransitions(read, snapshot)]
                 /\ worker' = "next"
                 /\ UNCHANGED <<lastTransition, next, snapshot, outcome>>
      BY <1>11 DEF PlanPatch
    <2>2. CASE read = "threw"
      <3>1. lastTransition' = Record("error", FALSE, "unknown", "unknown")
        BY <2>1, <2>2
      <3>2. "error" \in Result /\ "unknown" \in LifecycleState
        BY DEF Result, LifecycleState
      <3>3. lastTransition' \in RecordType
        BY <3>1, <3>2, RecordIsRecord
      <3>. QED  BY <1>11, <2>1, <2>2, <3>3, EndBatchType DEF PlanPatch
    <2>3. CASE read # "threw"
      <3>1. job' \in BatchType
        <4>1. StandardParameterTransitions(read, snapshot) \in Seq(RequestType)
          BY PlanIsPath
        <4>. QED  BY <2>1, <2>3, <4>1 DEF BatchType
      <3>. QED  BY <1>11, <2>1, <2>3, <3>1 DEF PlanPatch, WorkerState
    <2>. QED  BY <2>2, <2>3
  <1>12. CASE FinishBatch
    BY <1>12, EndBatchType DEF FinishBatch
  <1>13. CASE CheckSource
    <2>1. PICK read \in StateReads :
            IF SourceMatches(read)
            THEN /\ worker' = "call"
                 /\ UNCHANGED <<lastTransition, job, next, snapshot, outcome>>
            ELSE /\ EndBatch
                 /\ lastTransition' =
                      IF read = "threw"
                      THEN Record("error", FALSE, Current.target, "unknown")
                      ELSE Record("failure", TRUE, Current.target, read)
      BY <1>13 DEF CheckSource
    <2>2. CASE SourceMatches(read)
      BY <1>13, <2>1, <2>2 DEF CheckSource, WorkerState
    <2>3. CASE ~SourceMatches(read)
      <3>1. Current \in RequestType
        BY <1>13 DEF CheckSource, Current, BatchType
      <3>2. Current.target \in LifecycleState /\ read \in LifecycleState \cup {"threw"}
        BY <3>1, ReadsAreStates DEF RequestType
      <3>3. lastTransition' \in RecordType
        <4>1. CASE read = "threw"
          BY <2>1, <2>3, <3>2, <4>1, RecordIsRecord DEF Result, LifecycleState
        <4>2. CASE read # "threw"
          BY <2>1, <2>3, <3>2, <4>2, RecordIsRecord DEF Result
        <4>. QED  BY <4>1, <4>2
      <3>. QED  BY <1>13, <2>1, <2>3, <3>3, EndBatchType DEF CheckSource
    <2>. QED  BY <2>2, <2>3
  <1>14. CASE RuntimeReturns
    <2>1. Current \in RequestType
      BY <1>14 DEF RuntimeReturns, Current, BatchType
    <2>2. /\ outcome' \in Result \cup {"threw"}
          /\ state' \in LifecycleState
      BY <1>14, <2>1, OutcomesAreOutcomes DEF RuntimeReturns
    <2>3. applied' \in ParameterMaps
      BY <1>14, <2>1 DEF RuntimeReturns, RequestType
    <2>. QED  BY <1>14, <2>2, <2>3 DEF RuntimeReturns, WorkerState
  <1>15. CASE RecordOutcome
    <2>1. PICK read \in StateReads :
            /\ lastTransition' = RecordOf(read)
            /\ IF Succeeded(RecordOf(read))
               THEN /\ worker' = "next"
                    /\ next' = next + 1
                    /\ outcome' = "success"
                    /\ UNCHANGED <<job, snapshot>>
               ELSE EndBatch
      BY <1>15 DEF RecordOutcome
    <2>2. lastTransition' \in RecordType
      BY <1>15, <2>1, RecordOfType DEF RecordOutcome
    <2>3. CASE Succeeded(RecordOf(read))
      BY <1>15, <2>1, <2>2, <2>3 DEF RecordOutcome, WorkerState, Result
    <2>4. CASE ~Succeeded(RecordOf(read))
      BY <1>15, <2>1, <2>2, <2>4, EndBatchType DEF RecordOutcome
    <2>. QED  BY <2>3, <2>4
  <1>16. CASE Finalize
    <2>1. PICK actual \in SafeStates :
            IF actual = "finalized"
            THEN /\ worker' = "exited"
                 /\ UNCHANGED <<job, next, finalizing>>
            ELSE /\ worker' = "next"
                 /\ job' = LifecycleBatch(<< Request(actual, "finalized", EmptyMap) >>)
                 /\ next' = 1
                 /\ finalizing' = TRUE
      BY <1>16 DEF Finalize
    <2>2. CASE actual = "finalized"
      BY <1>16, <2>1, <2>2 DEF Finalize, WorkerState
    <2>3. CASE actual # "finalized"
      <3>1. actual \in LifecycleState /\ "finalized" \in LifecycleState
        BY ReadsAreStates DEF LifecycleState, PrimaryStates
      <3>2. Request(actual, "finalized", EmptyMap) \in RequestType
        BY <3>1, EmptyMapIsMap, RequestIsRequest
      <3>3. job' \in BatchType
        <4>1. << Request(actual, "finalized", EmptyMap) >> \in Seq(RequestType)
          BY <3>2
        <4>. QED  BY <2>1, <2>3, <4>1, BatchTypes
      <3>. QED  BY <1>16, <2>1, <2>3, <3>3 DEF Finalize, WorkerState
    <2>. QED  BY <2>2, <2>3
  <1>17. CASE StateDrifts
    BY <1>17, ConstantsAssumption DEF StateDrifts
  <1>18. CASE UNCHANGED vars
    BY <1>18 DEF vars
  <1>. QED
    BY <1>1, <1>2, <1>3, <1>4, <1>5, <1>6, <1>7, <1>8, <1>9, <1>10, <1>11, <1>12, <1>13,
       <1>14, <1>15, <1>16, <1>17, <1>18
       DEF Next, Submit, Worker

\* Every variable keeps its type and the request being executed is one of the
\* batch's (DeviceQueue, Device).
THEOREM TypeCorrect == Spec => []TypeOK
  <1>1. Spec => []TypeInv
    BY TypeInit, TypeNext, PTL DEF Spec
  <1>2. TypeInv => TypeOK
    BY DEF TypeInv
  <1>. QED  BY <1>1, <1>2, PTL
------------------------------------------------------------------------------
\* Sequences as sets of their elements.
LEMMA ToSetAppend ==
  ASSUME NEW S, NEW seq \in Seq(S), NEW x \in S
  PROVE  ToSet(Append(seq, x)) = ToSet(seq) \cup {x}
  <1>1. /\ DOMAIN Append(seq, x) = DOMAIN seq \cup {Len(seq) + 1}
        /\ \A i \in DOMAIN seq : Append(seq, x)[i] = seq[i]
        /\ Append(seq, x)[Len(seq) + 1] = x
    OBVIOUS
  <1>. QED  BY <1>1, Zenon DEF ToSet

LEMMA ToSetHeadTail ==
  ASSUME NEW S, NEW seq \in Seq(S), seq # << >>
  PROVE  ToSet(seq) = {Head(seq)} \cup ToSet(Tail(seq))
  <1>1. \A i \in DOMAIN Tail(seq) : \E j \in DOMAIN seq : Tail(seq)[i] = seq[j]
    <2>1. \A i \in DOMAIN Tail(seq) : i + 1 \in DOMAIN seq /\ Tail(seq)[i] = seq[i + 1]
      OBVIOUS
    <2>. QED  BY <2>1
  <1>2. 1 \in DOMAIN seq /\ Head(seq) = seq[1]
    OBVIOUS
  <1>3. \A j \in DOMAIN seq : seq[j] # seq[1] => \E i \in DOMAIN Tail(seq) : seq[j] = Tail(seq)[i]
    <2>1. \A j \in DOMAIN seq :
            j # 1 => j - 1 \in DOMAIN Tail(seq) /\ seq[j] = Tail(seq)[j - 1]
      OBVIOUS
    <2>. QED  BY <2>1
  <1>4. {Head(seq)} \cup ToSet(Tail(seq)) \subseteq ToSet(seq)
    <2>1. Head(seq) \in ToSet(seq)
      BY <1>2 DEF ToSet
    <2>2. ASSUME NEW x \in ToSet(Tail(seq))
          PROVE  x \in ToSet(seq)
      <3>1. PICK i \in DOMAIN Tail(seq) : x = Tail(seq)[i]
        BY DEF ToSet
      <3>2. PICK j \in DOMAIN seq : x = seq[j]
        BY <1>1, <3>1
      <3>. QED  BY <3>2 DEF ToSet
    <2>. QED  BY <2>1, <2>2
  <1>5. ASSUME NEW x \in ToSet(seq), x # Head(seq)
        PROVE  x \in ToSet(Tail(seq))
    <2>1. PICK j \in DOMAIN seq : x = seq[j]
      BY <1>5 DEF ToSet
    <2>2. PICK i \in DOMAIN Tail(seq) : x = Tail(seq)[i]
      BY <1>2, <1>3, <1>5, <2>1
    <2>. QED  BY <2>2 DEF ToSet
  <1>. QED  BY <1>4, <1>5

\* The batches in both queues: a submission adds one, the worker takes one.
Queued == ToSet(urgent) \cup ToSet(normal)

LEMMA QueuedPushed ==
  ASSUME TypeInv, NEW batch \in BatchType, NEW priority, PushBack(batch, priority)
  PROVE  Queued' = Queued \cup {batch}
  <1>1. urgent \in Seq(BatchType) /\ normal \in Seq(BatchType)
    BY DEF TypeInv, TypeOK
  <1>2. CASE priority = "urgent"
    <2>1. urgent' = Append(urgent, batch) /\ normal' = normal
      BY <1>2 DEF PushBack
    <2>2. ToSet(Append(urgent, batch)) = ToSet(urgent) \cup {batch}
      BY <1>1, ToSetAppend
    <2>. QED  BY <2>1, <2>2 DEF Queued
  <1>3. CASE priority # "urgent"
    <2>1. normal' = Append(normal, batch) /\ urgent' = urgent
      BY <1>3 DEF PushBack
    <2>2. ToSet(Append(normal, batch)) = ToSet(normal) \cup {batch}
      BY <1>1, ToSetAppend
    <2>. QED  BY <2>1, <2>2 DEF Queued
  <1>. QED  BY <1>2, <1>3

LEMMA QueuedTaken ==
  ASSUME TypeInv, Take
  PROVE  Queued = Queued' \cup {job'}
  <1>1. urgent \in Seq(BatchType) /\ normal \in Seq(BatchType)
    BY DEF TypeInv, TypeOK
  <1>2. CASE urgent # << >>
    BY <1>1, <1>2, ToSetHeadTail DEF Take, PopFront, Queued
  <1>3. CASE urgent = << >>
    BY <1>1, <1>3, ToSetHeadTail DEF Take, PopFront, Queued
  <1>. QED  BY <1>2, <1>3

\* How the set of unclaimed patches changes: a submission adds its batch when it
\* is a patch, ...
LEMMA UnclaimedPushed ==
  ASSUME TypeInv, NEW batch \in BatchType, NEW priority, PushBack(batch, priority),
         worker' = worker, job' = job
  PROVE  UnclaimedPatches' = UnclaimedPatches \cup (IF IsPatch(batch) THEN {batch} ELSE {})
  BY QueuedPushed DEF UnclaimedPatches, Queued

\* ... a batch the worker takes stays unclaimed when it is a patch, ...
LEMMA UnclaimedTaken ==
  ASSUME TypeInv, Take
  PROVE  UnclaimedPatches' = UnclaimedPatches
  <1>1. worker = "idle"
    BY DEF Take
  <1>2. CASE IsPatch(job')
    <2>1. worker' = "claim"
      BY <1>2 DEF Take
    <2>. QED  BY <1>1, <1>2, <2>1, QueuedTaken DEF UnclaimedPatches, Queued
  <1>3. CASE ~IsPatch(job')
    <2>1. worker' = "next"
      BY <1>3 DEF Take
    <2>. QED  BY <1>1, <1>3, <2>1, QueuedTaken DEF UnclaimedPatches, Queued
  <1>. QED  BY <1>2, <1>3

\* ... and nothing else changes it but the claim itself and a stop.
LEMMA UnclaimedKept ==
  ASSUME urgent' = urgent, normal' = normal, worker # "claim", worker' # "claim"
  PROVE  UnclaimedPatches' = UnclaimedPatches
  BY DEF UnclaimedPatches
------------------------------------------------------------------------------
(***************************************************************************)
(* No accumulated delta is orphaned.  The invariant is inductive once the  *)
(* variables have their types: a step that adds to the accumulated patch   *)
(* queues a batch with all of it under the new revision, and the batch of  *)
(* the current revision leaves the unclaimed ones only with its delta.     *)
(***************************************************************************)
LEMMA PendingNext == TypeInv /\ PendingIsQueued /\ [Next]_vars => PendingIsQueued'
  <1>. SUFFICES ASSUME TypeInv, PendingIsQueued, [Next]_vars
                PROVE  PendingIsQueued'
    OBVIOUS
  <1>. USE DEF queueVars, observationVars, workerVars, runtimeVars
  <1>1. ASSUME UnclaimedPatches' = UnclaimedPatches,
               UNCHANGED <<pending, revision>>
        PROVE  PendingIsQueued'
    BY <1>1 DEF PendingIsQueued
  <1>2. ASSUME pending' = EmptyMap
        PROVE  PendingIsQueued'
    BY <1>2 DEF PendingIsQueued
  <1>3. CASE Start
    BY <1>3, <1>1, UnclaimedKept DEF Start
  <1>4. CASE Stop
    BY <1>4, <1>2 DEF Stop
  <1>5. CASE Join
    BY <1>5, <1>1, UnclaimedKept DEF Join
  <1>6. ASSUME NEW path \in InputPaths, NEW priority \in Priorities, Enqueue(path, priority)
        PROVE  PendingIsQueued'
    <2>. DEFINE batch == LifecycleBatch(RequestsOf(path))
    <2>1. batch \in BatchType /\ ~IsPatch(batch)
      BY ConstantsAssumption, RequestsOfType, BatchTypes
         DEF TypeInv, TypeOK, IsPatch, LifecycleBatch
    <2>2. /\ PushBack(batch, priority)
          /\ UNCHANGED <<worker, job, pending, revision>>
      BY <1>6 DEF Enqueue, EnqueueRequests
    <2>. HIDE DEF batch
    <2>3. UnclaimedPatches' = UnclaimedPatches
      BY <2>1, <2>2, UnclaimedPushed
    <2>. QED  BY <1>1, <2>2, <2>3
  <1>7. ASSUME NEW patch \in InputPatches, DisabledPatch(patch)
        PROVE  PendingIsQueued'
    BY <1>7, <1>2 DEF DisabledPatch
  <1>8. ASSUME NEW patch \in InputPatches, GatePatch(patch)
        PROVE  PendingIsQueued'
    <2>1. UNCHANGED <<urgent, normal, worker, job, pending, revision>>
      BY <1>8 DEF GatePatch, AcceptPatch
    <2>. QED  BY <1>1, <2>1 DEF UnclaimedPatches
  <1>9. ASSUME NEW patch \in InputPatches, NEW priority \in Priorities,
               QueuePatch(patch, priority)
        PROVE  PendingIsQueued'
    <2>. DEFINE batch == PatchToQueue(patch)
    <2>1. /\ patch.values \in ParameterMaps
          /\ pending \in ParameterMaps
          /\ revision \in Nat
      BY ConstantsAssumption DEF PatchType, TypeInv, TypeOK
    <2>2. batch \in BatchType
      BY <2>1, MergeIsMap, BatchTypes DEF PatchToQueue
    <2>3. /\ PushBack(batch, priority)
          /\ UNCHANGED <<worker, job>>
          /\ revision' = revision + 1
          /\ pending' = Merge(pending, patch.values)
      BY <1>9 DEF QueuePatch, AcceptPatch
    <2>4. /\ IsPatch(batch)
          /\ batch.revision = revision'
          /\ batch.patch = pending'
      BY <2>1, <2>3 DEF PatchToQueue, PatchBatch, IsPatch
    <2>. HIDE DEF batch
    <2>5. batch \in UnclaimedPatches'
      BY <2>2, <2>3, <2>4, UnclaimedPushed
    <2>. QED  BY <2>4, <2>5 DEF PendingIsQueued
  <1>10. CASE Take
    BY <1>10, <1>1, UnclaimedTaken DEF Take
  <1>11. CASE ClaimPatch
    <2>1. CASE Superseded
      <3>1. /\ UNCHANGED <<urgent, normal, pending, revision>>
            /\ worker = "claim" /\ worker' = "discard"
        BY <1>11, <2>1 DEF ClaimPatch
      <3>2. UnclaimedPatches = UnclaimedPatches' \cup {job}
        BY <3>1 DEF UnclaimedPatches
      <3>3. job.revision # revision
        BY <2>1 DEF Superseded
      <3>. QED  BY <3>1, <3>2, <3>3 DEF PendingIsQueued
    <2>2. CASE ~Superseded
      BY <1>11, <1>2, <2>2 DEF ClaimPatch
    <2>. QED  BY <2>1, <2>2
  <1>12. ASSUME worker \notin {"none", "idle", "claim"}, worker' # "claim",
                UNCHANGED <<queueVars, revision>>
         PROVE  PendingIsQueued'
    BY <1>12, <1>1, UnclaimedKept
  <1>13. CASE DiscardPatch
    BY <1>13, <1>12 DEF DiscardPatch, EndBatch
  <1>14. CASE PlanPatch
    BY <1>14, <1>12 DEF PlanPatch, EndBatch
  <1>15. CASE FinishBatch
    BY <1>15, <1>12 DEF FinishBatch, EndBatch
  <1>16. CASE CheckSource
    BY <1>16, <1>12 DEF CheckSource, EndBatch
  <1>17. CASE RuntimeReturns
    BY <1>17, <1>12 DEF RuntimeReturns
  <1>18. CASE RecordOutcome
    BY <1>18, <1>12 DEF RecordOutcome, EndBatch
  <1>19. CASE Finalize
    BY <1>19, <1>1, UnclaimedKept DEF Finalize
  <1>20. CASE StateDrifts
    BY <1>20, <1>1 DEF StateDrifts, UnclaimedPatches
  <1>21. CASE UNCHANGED vars
    BY <1>21, <1>1 DEF vars, UnclaimedPatches
  <1>. QED
    BY <1>3, <1>4, <1>5, <1>6, <1>7, <1>8, <1>9, <1>10, <1>11, <1>13, <1>14, <1>15,
       <1>16, <1>17, <1>18, <1>19, <1>20, <1>21
       DEF Next, Submit, Worker

\* While the accumulated patch holds a delta, the batch of the current revision
\* is still to be claimed and carries all of it (enqueue_parameter_patch and
\* execute_parameter_patch).
THEOREM PendingNeverOrphaned == Spec => []PendingIsQueued
  <1>1. Init => PendingIsQueued
    BY DEF Init, PendingIsQueued
  <1>2. TypeInv /\ PendingIsQueued /\ [Next]_vars => (TypeInv /\ PendingIsQueued)'
    BY TypeNext, PendingNext
  <1>3. Init => TypeInv /\ PendingIsQueued
    BY <1>1, TypeInit
  <1>. QED  BY <1>2, <1>3, PTL DEF Spec
------------------------------------------------------------------------------
LEMMA StoppedNext == StoppedIsEmpty /\ [Next]_vars => StoppedIsEmpty'
  <1>. SUFFICES ASSUME StoppedIsEmpty, [Next]_vars
                PROVE  StoppedIsEmpty'
    OBVIOUS
  <1>. USE DEF StoppedIsEmpty, queueVars
  <1>1. ASSUME UNCHANGED queueVars
        PROVE  StoppedIsEmpty'
    BY <1>1
  <1>2. ASSUME running, running' = running
        PROVE  StoppedIsEmpty'
    BY <1>2
  <1>3. CASE Start \/ Stop \/ Join
    BY <1>3 DEF Start, Stop, Join
  <1>4. CASE Submit
    BY <1>4, <1>2
       DEF Submit, Enqueue, EnqueueRequests, DisabledPatch, GatePatch, QueuePatch, AcceptPatch
  <1>5. CASE Take
    BY <1>5 DEF Take, PopFront
  <1>6. CASE ClaimPatch
    BY <1>6 DEF ClaimPatch
  <1>7. CASE DiscardPatch \/ PlanPatch \/ FinishBatch \/ CheckSource
               \/ RuntimeReturns \/ RecordOutcome \/ Finalize \/ StateDrifts
    BY <1>7, <1>1 DEF DiscardPatch, PlanPatch, FinishBatch, CheckSource, RuntimeReturns,
                      RecordOutcome, Finalize, StateDrifts
  <1>8. CASE UNCHANGED vars
    BY <1>8 DEF vars
  <1>. QED  BY <1>3, <1>4, <1>5, <1>6, <1>7, <1>8 DEF Next, Worker

\* A queue that is not running holds nothing: every submission needs it to run
\* (DeviceQueue::stop, enqueue, enqueue_parameter_patch).
THEOREM StoppedHoldsNothing == Spec => []StoppedIsEmpty
  <1>1. Init => StoppedIsEmpty
    BY DEF Init, StoppedIsEmpty
  <1>. QED  BY <1>1, StoppedNext, PTL DEF Spec
------------------------------------------------------------------------------
(***************************************************************************)
(* What is known of every batch the queue or the worker holds: its         *)
(* revision has been given out, and each of its requests starts where the  *)
(* previous one ends.                                                      *)
(***************************************************************************)
Sound(batch, given) == batch.revision <= given /\ IsContiguous(batch.requests)

BatchInv == \A batch \in Queued \cup {job} : Sound(batch, revision)

\* A lifecycle batch is sound when its requests are contiguous.
LEMMA LifecycleSound ==
  ASSUME TypeInv, NEW requests, IsContiguous(requests)
  PROVE  Sound(LifecycleBatch(requests), revision)
  BY DEF Sound, LifecycleBatch, TypeInv, TypeOK

LEMMA NoBatchSound == TypeInv => Sound(NoBatch, revision)
  <1>1. IsContiguous(<< >>)
    BY DEF IsContiguous
  <1>. QED  BY <1>1, LifecycleSound DEF NoBatch

LEMMA BatchNext == TypeInv /\ BatchInv /\ [Next]_vars => BatchInv'
  <1>. SUFFICES ASSUME TypeInv, BatchInv, [Next]_vars
                PROVE  BatchInv'
    OBVIOUS
  <1>. USE DEF queueVars, observationVars, workerVars, runtimeVars
  <1>1. TypeInv' /\ revision \in Nat /\ revision' \in Nat
    BY TypeNext DEF TypeInv, TypeOK
  <1>2. \A batch \in Queued \cup {job} : batch.revision \in Nat
    <2>1. \A batch \in BatchType : batch.revision \in Nat
      BY DEF BatchType
    <2>2. Queued \cup {job} \subseteq BatchType
      BY DEF TypeInv, TypeOK, Queued, ToSet
    <2>. QED  BY <2>1, <2>2
  <1>3. ASSUME revision <= revision', NEW batch \in Queued \cup {job}
        PROVE  Sound(batch, revision')
    BY <1>1, <1>2, <1>3 DEF BatchInv, Sound
  <1>4. ASSUME NEW batch, Queued' \cup {job'} \subseteq Queued \cup {job} \cup {batch},
               revision <= revision', Sound(batch, revision')
        PROVE  BatchInv'
    BY <1>3, <1>4 DEF BatchInv
  <1>5. Sound(NoBatch, revision')
    BY <1>1, NoBatchSound DEF NoBatch, LifecycleBatch, Sound
  <1>6. ASSUME UNCHANGED <<urgent, normal, revision>>, job' = job \/ job' = NoBatch
        PROVE  BatchInv'
    BY <1>1, <1>4, <1>5, <1>6 DEF Queued
  <1>7. CASE Start
    BY <1>7, <1>6 DEF Start
  <1>8. CASE Stop
    <2>1. Queued' = {} /\ job' = job /\ revision' = revision
      BY <1>8 DEF Stop, Queued, ToSet
    <2>. QED  BY <1>1, <1>4, <1>5, <2>1
  <1>9. CASE Join
    BY <1>9, <1>6 DEF Join
  <1>10. ASSUME NEW path \in InputPaths, NEW priority \in Priorities, Enqueue(path, priority)
         PROVE  BatchInv'
    <2>. DEFINE batch == LifecycleBatch(RequestsOf(path))
    <2>1. /\ PushBack(batch, priority) /\ batch \in BatchType
          /\ UNCHANGED <<job, revision>>
          /\ IsContiguous(RequestsOf(path))
      BY <1>10, ConstantsAssumption, RequestsOfType, BatchTypes
         DEF Enqueue, EnqueueRequests, Acceptable, TypeInv, TypeOK
    <2>2. Sound(batch, revision)
      BY <2>1, LifecycleSound
    <2>. HIDE DEF batch
    <2>3. Sound(batch, revision')
      BY <1>1, <2>1, <2>2 DEF Sound
    <2>. QED  BY <1>1, <1>4, <2>1, <2>3, QueuedPushed
  <1>11. ASSUME NEW patch \in InputPatches, DisabledPatch(patch)
         PROVE  BatchInv'
    <2>1. /\ Queued' = Queued /\ job' = job
          /\ revision' = revision + 1
      BY <1>11 DEF DisabledPatch, AcceptPatch, Queued
    <2>. QED  BY <1>1, <1>4, <1>5, <2>1
  <1>12. ASSUME NEW patch \in InputPatches, GatePatch(patch)
         PROVE  BatchInv'
    BY <1>12, <1>6 DEF GatePatch, AcceptPatch
  <1>13. ASSUME NEW patch \in InputPatches, NEW priority \in Priorities,
                QueuePatch(patch, priority)
         PROVE  BatchInv'
    <2>. DEFINE batch == PatchToQueue(patch)
    <2>1. batch \in BatchType
      BY ConstantsAssumption, MergeIsMap, BatchTypes
         DEF PatchToQueue, PatchType, TypeInv, TypeOK
    <2>2. /\ PushBack(batch, priority)
          /\ job' = job
          /\ revision' = revision + 1
      BY <1>13 DEF QueuePatch, AcceptPatch
    <2>3. Sound(batch, revision')
      BY <1>1, <2>2 DEF PatchToQueue, PatchBatch, Sound, IsContiguous
    <2>. HIDE DEF batch
    <2>. QED  BY <1>1, <1>4, <2>1, <2>2, <2>3, QueuedPushed
  <1>14. CASE Take
    <2>1. Queued' \cup {job'} \subseteq Queued /\ revision' = revision
      BY <1>14, QueuedTaken DEF Take
    <2>. QED  BY <1>1, <1>4, <1>5, <2>1
  <1>15. CASE ClaimPatch
    BY <1>15, <1>6 DEF ClaimPatch
  <1>16. CASE DiscardPatch
    BY <1>16, <1>6 DEF DiscardPatch, EndBatch
  <1>17. CASE PlanPatch
    <2>1. PICK read \in StateReads :
            \/ job' = NoBatch
            \/ job' = [job EXCEPT !.requests = StandardParameterTransitions(read, snapshot)]
      BY <1>17 DEF PlanPatch, EndBatch
    <2>2. UNCHANGED <<urgent, normal, revision>>
      BY <1>17 DEF PlanPatch
    <2>3. CASE job' = NoBatch
      BY <1>6, <2>2, <2>3
    <2>4. CASE job' = [job EXCEPT !.requests = StandardParameterTransitions(read, snapshot)]
      <3>1. IsContiguous(StandardParameterTransitions(read, snapshot))
        BY PlanIsPath DEF TypeInv, TypeOK
      <3>2. /\ job'.revision = job.revision
            /\ job'.requests = StandardParameterTransitions(read, snapshot)
        BY <2>4 DEF TypeInv, TypeOK, BatchType
      <3>3. Sound(job', revision')
        BY <1>3, <2>2, <3>1, <3>2, <1>1 DEF Sound
      <3>. QED  BY <1>1, <1>4, <2>2, <3>3 DEF Queued
    <2>. QED  BY <2>1, <2>3, <2>4
  <1>18. CASE FinishBatch
    BY <1>18, <1>6 DEF FinishBatch, EndBatch
  <1>19. CASE CheckSource
    BY <1>19, <1>6 DEF CheckSource, EndBatch
  <1>20. CASE RuntimeReturns
    BY <1>20, <1>6 DEF RuntimeReturns
  <1>21. CASE RecordOutcome
    BY <1>21, <1>6 DEF RecordOutcome, EndBatch
  <1>22. CASE Finalize
    <2>1. PICK actual \in SafeStates :
            \/ job' = job
            \/ job' = LifecycleBatch(<< Request(actual, "finalized", EmptyMap) >>)
      BY <1>22 DEF Finalize
    <2>. DEFINE batch == LifecycleBatch(<< Request(actual, "finalized", EmptyMap) >>)
    <2>2. Sound(batch, revision)
      BY LifecycleSound DEF IsContiguous
    <2>3. UNCHANGED <<urgent, normal, revision>>
      BY <1>22 DEF Finalize
    <2>4. Sound(batch, revision')
      BY <2>2, <2>3 DEF Sound
    <2>5. Queued' \cup {job'} \subseteq Queued \cup {job} \cup {batch}
      BY <2>1, <2>3 DEF Queued
    <2>. HIDE DEF batch
    <2>. QED  BY <1>1, <1>4, <2>3, <2>4, <2>5
  <1>23. CASE StateDrifts
    BY <1>23, <1>6 DEF StateDrifts
  <1>24. CASE UNCHANGED vars
    BY <1>24, <1>6 DEF vars
  <1>. QED
    BY <1>7, <1>8, <1>9, <1>10, <1>11, <1>12, <1>13, <1>14, <1>15, <1>16, <1>17, <1>18,
       <1>19, <1>20, <1>21, <1>22, <1>23, <1>24
       DEF Next, Submit, Worker
------------------------------------------------------------------------------
(***************************************************************************)
(* A patch that has been claimed plans with the newest map or has already  *)
(* been superseded.  The step needs BatchInv: a submission that changes    *)
(* the map gives out a revision above that of every batch.                 *)
(***************************************************************************)
Planned == worker = "plan" \/ (worker \in {"next", "call", "record"} /\ IsPatch(job))

LEMMA PlanNext ==
  TypeInv /\ BatchInv /\ PatchPlansNewest /\ [Next]_vars => PatchPlansNewest'
  <1>. SUFFICES ASSUME TypeInv, BatchInv, PatchPlansNewest, [Next]_vars
                PROVE  PatchPlansNewest'
    OBVIOUS
  <1>. USE DEF queueVars, observationVars, workerVars, runtimeVars
  <1>1. ASSUME ~Planned' PROVE PatchPlansNewest'
    BY <1>1 DEF PatchPlansNewest, Planned
  <1>2. ASSUME Planned' => Planned, job'.revision = job.revision,
               UNCHANGED <<parameters, snapshot, revision>>
        PROVE  PatchPlansNewest'
    BY <1>2 DEF PatchPlansNewest, Planned
  <1>3. ASSUME EndBatch PROVE PatchPlansNewest'
    BY <1>1, <1>3 DEF EndBatch, Planned
  <1>4. ASSUME job' = job, revision' = revision + 1 PROVE PatchPlansNewest'
    <2>1. job.revision \in Nat /\ revision \in Nat
      BY DEF TypeInv, TypeOK, BatchType
    <2>2. job.revision <= revision
      BY DEF BatchInv, Sound
    <2>. QED  BY <1>4, <2>1, <2>2 DEF PatchPlansNewest
  <1>5. ASSUME UNCHANGED <<worker, job, parameters, snapshot, revision>>
        PROVE  PatchPlansNewest'
    BY <1>5, <1>2 DEF Planned
  <1>6. CASE Start
    BY <1>6, <1>1 DEF Start, Planned
  <1>7. CASE Stop
    BY <1>7, <1>5 DEF Stop
  <1>8. CASE Join
    BY <1>8, <1>1 DEF Join, Planned
  <1>9. ASSUME NEW path \in InputPaths, NEW priority \in Priorities, Enqueue(path, priority)
        PROVE  PatchPlansNewest'
    BY <1>9, <1>5 DEF Enqueue, EnqueueRequests
  <1>10. ASSUME NEW patch \in InputPatches, DisabledPatch(patch)
         PROVE  PatchPlansNewest'
    BY <1>10, <1>4 DEF DisabledPatch, AcceptPatch
  <1>11. ASSUME NEW patch \in InputPatches, GatePatch(patch)
         PROVE  PatchPlansNewest'
    <2>1. parameters' = parameters
      BY <1>11, MergeEmpty DEF GatePatch, AcceptPatch, TypeInv, TypeOK
    <2>. QED  BY <1>11, <1>5, <2>1 DEF GatePatch, AcceptPatch
  <1>12. ASSUME NEW patch \in InputPatches, NEW priority \in Priorities,
                QueuePatch(patch, priority)
         PROVE  PatchPlansNewest'
    BY <1>12, <1>4 DEF QueuePatch, AcceptPatch
  <1>13. CASE Take
    BY <1>13, <1>1 DEF Take, Planned
  <1>14. CASE ClaimPatch
    <2>1. CASE Superseded
      BY <1>14, <1>1, <2>1 DEF ClaimPatch, Planned
    <2>2. CASE ~Superseded
      BY <1>14, <2>2 DEF ClaimPatch, CurrentParameters, PatchPlansNewest
    <2>. QED  BY <2>1, <2>2
  <1>15. CASE DiscardPatch
    BY <1>15, <1>3 DEF DiscardPatch
  <1>16. CASE PlanPatch
    <2>1. CASE EndBatch
      BY <1>3, <2>1
    <2>2. CASE ~EndBatch
      <3>1. job'.revision = job.revision /\ snapshot' = snapshot
        BY <1>16, <2>2 DEF PlanPatch, TypeInv, TypeOK, BatchType
      <3>2. Planned
        BY <1>16 DEF PlanPatch, Planned
      <3>. QED  BY <1>16, <1>2, <3>1, <3>2 DEF PlanPatch
    <2>. QED  BY <2>1, <2>2
  <1>17. CASE FinishBatch
    BY <1>17, <1>3 DEF FinishBatch
  <1>18. CASE CheckSource
    <2>1. CASE EndBatch
      BY <1>3, <2>1
    <2>2. CASE ~EndBatch
      BY <1>18, <1>2, <2>2 DEF CheckSource, Planned
    <2>. QED  BY <2>1, <2>2
  <1>19. CASE RuntimeReturns
    BY <1>19, <1>2 DEF RuntimeReturns, Planned
  <1>20. CASE RecordOutcome
    <2>1. CASE EndBatch
      BY <1>3, <2>1
    <2>2. CASE ~EndBatch
      BY <1>20, <1>2, <2>2 DEF RecordOutcome, Planned
    <2>. QED  BY <2>1, <2>2
  <1>21. CASE Finalize
    <2>1. worker' = "exited" \/ job'.revision = 0
      BY <1>21 DEF Finalize, LifecycleBatch
    <2>. QED  BY <1>21, <1>1, <2>1 DEF Finalize, Planned, IsPatch
  <1>22. CASE StateDrifts
    BY <1>22, <1>5 DEF StateDrifts
  <1>23. CASE UNCHANGED vars
    BY <1>23, <1>5 DEF vars
  <1>. QED
    BY <1>6, <1>7, <1>8, <1>9, <1>10, <1>11, <1>12, <1>13, <1>14, <1>15, <1>16, <1>17,
       <1>18, <1>19, <1>20, <1>21, <1>22, <1>23
       DEF Next, Submit, Worker

LEMMA BatchInit == Init => BatchInv
  <1>. SUFFICES ASSUME Init PROVE BatchInv
    OBVIOUS
  <1>1. Queued \cup {job} = {NoBatch}
    BY DEF Init, Queued, ToSet
  <1>. QED  BY <1>1, TypeInit, NoBatchSound DEF BatchInv

\* Whatever is submitted meanwhile, a patch under execution was planned from the
\* newest desired map, or a newer revision has been given out that will be
\* planned after it (execute_parameter_patch).
THEOREM PlansAreNewest == Spec => []PatchPlansNewest
  <1>. DEFINE Inv == TypeInv /\ BatchInv /\ PatchPlansNewest
  <1>1. Init => Inv
    BY TypeInit, BatchInit DEF Init, PatchPlansNewest
  <1>2. Inv /\ [Next]_vars => Inv'
    BY TypeNext, BatchNext, PlanNext
  <1>3. Inv => PatchPlansNewest
    OBVIOUS
  <1>. HIDE DEF Inv
  <1>. QED  BY <1>1, <1>2, <1>3, PTL DEF Spec
------------------------------------------------------------------------------
(***************************************************************************)
(* A batch is adjacent.  It needs the contiguity of BatchInv, and that the *)
(* worker starts every batch at its first request.                         *)
(***************************************************************************)
StartsAtFirst == worker \in {"claim", "discard", "plan"} => next = 1

AdjacentInv == StartsAtFirst /\ AdjacentExecution

LEMMA AdjacentNext ==
  TypeInv /\ BatchInv /\ AdjacentInv /\ [Next]_vars => AdjacentInv'
  <1>. SUFFICES ASSUME TypeInv, BatchInv, AdjacentInv, [Next]_vars
                PROVE  AdjacentInv'
    OBVIOUS
  <1>. USE DEF queueVars, observationVars, workerVars, runtimeVars,
               AdjacentInv, StartsAtFirst, AdjacentExecution
  <1>1. ASSUME next' = 1 PROVE AdjacentInv'
    BY <1>1
  <1>2. ASSUME worker' \notin {"claim", "discard", "plan", "next"} PROVE AdjacentInv'
    BY <1>2
  <1>3. ASSUME UNCHANGED <<worker, job, next, lastTransition>> PROVE AdjacentInv'
    BY <1>3 DEF Current
  <1>4. CASE Start
    BY <1>4, <1>2 DEF Start
  <1>5. CASE Stop
    BY <1>5, <1>3 DEF Stop
  <1>6. CASE Join
    BY <1>6, <1>2 DEF Join
  <1>7. CASE Submit
    BY <1>7, <1>3 DEF Submit, Enqueue, EnqueueRequests, DisabledPatch, GatePatch,
                      QueuePatch, AcceptPatch
  <1>8. CASE Take
    BY <1>8, <1>1 DEF Take
  <1>9. CASE ClaimPatch
    BY <1>9, <1>1 DEF ClaimPatch
  <1>10. CASE DiscardPatch
    BY <1>10, <1>1 DEF DiscardPatch, EndBatch
  <1>11. CASE PlanPatch
    <2>1. next = 1
      BY <1>11 DEF PlanPatch
    <2>. QED  BY <1>11, <1>1, <2>1 DEF PlanPatch, EndBatch
  <1>12. CASE FinishBatch
    BY <1>12, <1>1 DEF FinishBatch, EndBatch
  <1>13. CASE CheckSource
    BY <1>13, <1>1, <1>2 DEF CheckSource, EndBatch
  <1>14. CASE RuntimeReturns
    BY <1>14, <1>2 DEF RuntimeReturns
  <1>15. CASE RecordOutcome
    <2>1. PICK read \in StateReads :
            /\ lastTransition' = RecordOf(read)
            /\ IF Succeeded(RecordOf(read))
               THEN worker' = "next" /\ next' = next + 1 /\ job' = job
               ELSE next' = 1
      BY <1>15 DEF RecordOutcome, EndBatch
    <2>2. CASE ~Succeeded(RecordOf(read))
      BY <1>1, <2>1, <2>2
    <2>3. CASE Succeeded(RecordOf(read))
      <3>1. /\ lastTransition'.result = "success"
            /\ ~lastTransition'.discarded
            /\ lastTransition'.actual = Current.target
        BY <2>1, <2>3 DEF Succeeded, RecordOf, Record
      <3>2. ASSUME next' \in 2..Len(job'.requests)
            PROVE  Current.target = Current'.from
        <4>1. IsContiguous(job.requests)
          BY DEF BatchInv, Sound
        <4>2. next \in Nat \ {0} /\ Len(job.requests) \in Nat
          BY DEF TypeInv, TypeOK, BatchType
        <4>3. next + 1 \in 2..Len(job.requests)
          BY <2>1, <2>3, <3>2
        <4>4. job.requests[(next + 1) - 1].target = job.requests[next + 1].from
          <5>1. \A i \in 2..Len(job.requests) : job.requests[i - 1].target = job.requests[i].from
            BY <4>1 DEF IsContiguous
          <5>. QED  BY <4>3, <5>1, Zenon
        <4>5. (next + 1) - 1 = next
          BY <4>2
        <4>. QED  BY <2>1, <2>3, <4>4, <4>5 DEF Current
      <3>. QED  BY <2>1, <2>3, <3>1, <3>2
    <2>. QED  BY <2>2, <2>3
  <1>16. CASE Finalize
    BY <1>16, <1>1, <1>2 DEF Finalize
  <1>17. CASE StateDrifts
    BY <1>17, <1>3 DEF StateDrifts
  <1>18. CASE UNCHANGED vars
    BY <1>18, <1>3 DEF vars
  <1>. QED
    BY <1>4, <1>5, <1>6, <1>7, <1>8, <1>9, <1>10, <1>11, <1>12, <1>13, <1>14, <1>15,
       <1>16, <1>17, <1>18
       DEF Next, Worker

\* No batch goes past a request that failed, was discarded or missed its target,
\* for every runtime, however it fails, lies or throws (DeviceQueue::run, execute).
THEOREM BatchesAreAdjacent == Spec => []AdjacentExecution
  <1>. DEFINE Inv == TypeInv /\ BatchInv /\ AdjacentInv
  <1>1. Init => Inv
    BY TypeInit, BatchInit DEF Init, AdjacentInv, StartsAtFirst, AdjacentExecution
  <1>2. Inv /\ [Next]_vars => Inv'
    BY TypeNext, BatchNext, AdjacentNext
  <1>3. Inv => AdjacentExecution
    BY DEF AdjacentInv
  <1>. HIDE DEF Inv
  <1>. QED  BY <1>1, <1>2, <1>3, PTL DEF Spec
------------------------------------------------------------------------------
(***************************************************************************)
(* Handing over the accumulated patch.  PendingIsQueued says that some     *)
(* batch of the current revision carries it; for the claim it has to be    *)
(* every such batch.                                                       *)
(***************************************************************************)
NewestCarriesPending ==
  pending # EmptyMap =>
    \A batch \in UnclaimedPatches : batch.revision = revision => batch.patch = pending

LEMMA NewestNext ==
  TypeInv /\ BatchInv /\ NewestCarriesPending /\ [Next]_vars => NewestCarriesPending'
  <1>. SUFFICES ASSUME TypeInv, BatchInv, NewestCarriesPending, [Next]_vars
                PROVE  NewestCarriesPending'
    OBVIOUS
  <1>. USE DEF queueVars, observationVars, workerVars, runtimeVars
  <1>1. ASSUME UnclaimedPatches' \subseteq UnclaimedPatches,
               UNCHANGED <<pending, revision>>
        PROVE  NewestCarriesPending'
    BY <1>1 DEF NewestCarriesPending
  <1>2. ASSUME pending' = EmptyMap PROVE NewestCarriesPending'
    BY <1>2 DEF NewestCarriesPending
  <1>3. ASSUME UNCHANGED <<urgent, normal, pending, revision>>,
               worker' # "claim" \/ UNCHANGED <<worker, job>>
        PROVE  NewestCarriesPending'
    <2>1. UnclaimedPatches' \subseteq UnclaimedPatches
      BY <1>3 DEF UnclaimedPatches
    <2>. QED  BY <1>1, <1>3, <2>1
  <1>4. CASE Start
    BY <1>4, <1>3 DEF Start
  <1>5. CASE Stop
    BY <1>5, <1>2 DEF Stop
  <1>6. CASE Join
    BY <1>6, <1>3 DEF Join
  <1>7. ASSUME NEW path \in InputPaths, NEW priority \in Priorities, Enqueue(path, priority)
        PROVE  NewestCarriesPending'
    <2>. DEFINE batch == LifecycleBatch(RequestsOf(path))
    <2>1. batch \in BatchType /\ ~IsPatch(batch)
      BY ConstantsAssumption, RequestsOfType, BatchTypes
         DEF TypeInv, TypeOK, IsPatch, LifecycleBatch
    <2>2. /\ PushBack(batch, priority)
          /\ UNCHANGED <<worker, job, pending, revision>>
      BY <1>7 DEF Enqueue, EnqueueRequests
    <2>. HIDE DEF batch
    <2>3. UnclaimedPatches' = UnclaimedPatches
      BY <2>1, <2>2, UnclaimedPushed
    <2>. QED  BY <1>1, <2>2, <2>3
  <1>8. ASSUME NEW patch \in InputPatches, DisabledPatch(patch)
        PROVE  NewestCarriesPending'
    BY <1>8, <1>2 DEF DisabledPatch
  <1>9. ASSUME NEW patch \in InputPatches, GatePatch(patch)
        PROVE  NewestCarriesPending'
    BY <1>9, <1>3 DEF GatePatch, AcceptPatch
  <1>10. ASSUME NEW patch \in InputPatches, NEW priority \in Priorities,
                QueuePatch(patch, priority)
         PROVE  NewestCarriesPending'
    <2>. DEFINE new == PatchToQueue(patch)
    <2>1. new \in BatchType
      BY ConstantsAssumption, MergeIsMap, BatchTypes
         DEF PatchToQueue, PatchType, TypeInv, TypeOK
    <2>2. /\ PushBack(new, priority)
          /\ UNCHANGED <<worker, job>>
          /\ revision' = revision + 1
          /\ new.patch = pending'
      BY <1>10 DEF QueuePatch, AcceptPatch, PatchToQueue, PatchBatch
    <2>. HIDE DEF new
    <2>3. UnclaimedPatches' \subseteq UnclaimedPatches \cup {new}
      BY <2>1, <2>2, UnclaimedPushed
    <2>4. \A batch \in UnclaimedPatches : batch.revision # revision'
      <3>1. UnclaimedPatches \subseteq Queued \cup {job}
        BY DEF UnclaimedPatches, Queued
      <3>2. Queued \cup {job} \subseteq BatchType
        BY DEF TypeInv, TypeOK, Queued, ToSet
      <3>3. \A batch \in BatchType : batch.revision \in Nat
        BY DEF BatchType
      <3>4. revision \in Nat
        BY DEF TypeInv, TypeOK
      <3>5. \A batch \in UnclaimedPatches : batch.revision <= revision
        BY <3>1 DEF BatchInv, Sound
      <3>. QED  BY <2>2, <3>1, <3>2, <3>3, <3>4, <3>5
    <2>. QED  BY <2>2, <2>3, <2>4 DEF NewestCarriesPending
  <1>11. CASE Take
    BY <1>11, <1>1, UnclaimedTaken DEF Take
  <1>12. CASE ClaimPatch
    <2>1. CASE Superseded
      BY <1>12, <1>3, <2>1 DEF ClaimPatch
    <2>2. CASE ~Superseded
      BY <1>12, <1>2, <2>2 DEF ClaimPatch
    <2>. QED  BY <2>1, <2>2
  <1>13. CASE DiscardPatch \/ PlanPatch \/ FinishBatch \/ CheckSource
               \/ RuntimeReturns \/ RecordOutcome
    BY <1>13, <1>3 DEF DiscardPatch, PlanPatch, FinishBatch, CheckSource, RuntimeReturns,
                       RecordOutcome, EndBatch
  <1>14. CASE Finalize
    BY <1>14, <1>3 DEF Finalize
  <1>15. CASE StateDrifts
    BY <1>15, <1>3 DEF StateDrifts
  <1>16. CASE UNCHANGED vars
    BY <1>16, <1>3 DEF vars
  <1>. QED
    BY <1>4, <1>5, <1>6, <1>7, <1>8, <1>9, <1>10, <1>11, <1>12, <1>13, <1>14, <1>15, <1>16
       DEF Next, Submit, Worker

\* Merging into a map that holds something leaves a map that holds something.
LEMMA MergeNotEmpty ==
  ASSUME NEW base \in ParameterMaps, NEW patch \in ParameterMaps, base # EmptyMap
  PROVE  Merge(base, patch) # EmptyMap
  <1>1. PICK S \in SUBSET Names : base \in [S -> Values]
    BY DEF ParameterMaps
  <1>2. DOMAIN EmptyMap = {}
    BY DEF EmptyMap
  <1>3. S # {}
    <2>1. SUFFICES ASSUME S = {} PROVE FALSE
      OBVIOUS
    <2>2. base = EmptyMap
      BY <1>1, <2>1 DEF EmptyMap
    <2>. QED  BY <2>2
  <1>4. DOMAIN Merge(base, patch) # {}
    BY <1>1, <1>3 DEF Merge
  <1>. QED  BY <1>2, <1>4

\* What a step does that leaves no accumulated patch.
HandsOver ==
  (pending # EmptyMap /\ pending' = EmptyMap) =>
    \/ ~running'
    \/ ~enabled'
    \/ worker = "claim" /\ worker' = "plan" /\ job.patch = pending

LEMMA DeltaNext == TypeInv /\ NewestCarriesPending /\ [Next]_vars => [HandsOver]_vars
  <1>. DEFINE Given == \/ ~running'
                       \/ ~enabled'
                       \/ worker = "claim" /\ worker' = "plan" /\ job.patch = pending
  <1>. SUFFICES ASSUME TypeInv, NewestCarriesPending, Next,
                       pending # EmptyMap, pending' = EmptyMap
                PROVE  Given
    BY DEF HandsOver
  <1>1. ASSUME pending' = pending PROVE Given
    BY <1>1
  <1>2. CASE Start \/ Join \/ Take \/ DiscardPatch \/ PlanPatch \/ FinishBatch
               \/ CheckSource \/ RuntimeReturns \/ RecordOutcome \/ Finalize \/ StateDrifts
    BY <1>1, <1>2 DEF Start, Join, Take, DiscardPatch, PlanPatch, FinishBatch, CheckSource,
                      RuntimeReturns, RecordOutcome, Finalize, StateDrifts, queueVars
  <1>3. CASE Stop
    BY <1>3 DEF Stop
  <1>4. ASSUME NEW path \in InputPaths, NEW priority \in Priorities, Enqueue(path, priority)
        PROVE  Given
    BY <1>1, <1>4 DEF Enqueue, EnqueueRequests
  <1>5. ASSUME NEW patch \in InputPatches, DisabledPatch(patch)
        PROVE  Given
    BY <1>5 DEF DisabledPatch, AcceptPatch
  <1>6. ASSUME NEW patch \in InputPatches, GatePatch(patch)
        PROVE  Given
    BY <1>1, <1>6 DEF GatePatch
  <1>7. ASSUME NEW patch \in InputPatches, NEW priority \in Priorities,
               QueuePatch(patch, priority)
        PROVE  Given
    <2>1. pending' # EmptyMap
      BY <1>7, ConstantsAssumption, MergeNotEmpty
         DEF QueuePatch, PatchType, TypeInv, TypeOK
    <2>. QED  BY <2>1
  <1>8. CASE ClaimPatch
    <2>1. CASE Superseded
      BY <1>1, <1>8, <2>1 DEF ClaimPatch
    <2>2. CASE ~Superseded
      <3>1. job \in UnclaimedPatches /\ job.revision = revision
        BY <1>8, <2>2 DEF ClaimPatch, UnclaimedPatches, Superseded
      <3>2. job.patch = pending
        BY <3>1 DEF NewestCarriesPending
      <3>. QED  BY <1>8, <2>2, <3>2 DEF ClaimPatch
    <2>. QED  BY <2>1, <2>2
  <1>. QED
    BY <1>2, <1>3, <1>4, <1>5, <1>6, <1>7, <1>8 DEF Next, Submit, Worker

\* The accumulated patch is given up only by a stop, by a patch that leaves the
\* device disabled, or to a claimed batch that carries all of it.
THEOREM DeltaIsHandedOver == Spec => DeltaHandedOver
  <1>. DEFINE Inv == TypeInv /\ BatchInv /\ NewestCarriesPending
  <1>1. Init => Inv
    BY TypeInit, BatchInit DEF Init, NewestCarriesPending
  <1>2. Inv /\ [Next]_vars => Inv'
    BY TypeNext, BatchNext, NewestNext
  <1>3. Inv /\ [Next]_vars => [HandsOver]_vars
    BY DeltaNext
  <1>. HIDE DEF Inv
  <1>. QED  BY <1>1, <1>2, <1>3, PTL DEF Spec, DeltaHandedOver, HandsOver
------------------------------------------------------------------------------
LEMMA SourceNext == TypeInv /\ CalledFromSource /\ [Next]_vars => CalledFromSource'
  <1>. SUFFICES ASSUME TypeInv, CalledFromSource, [Next]_vars, DriftStates = {},
                       worker' = "call"
                PROVE  state' = Current'.from
    BY DEF CalledFromSource
  <1>. USE DEF queueVars, observationVars, workerVars, runtimeVars
  <1>1. ASSUME UNCHANGED <<worker, job, next, state>> PROVE state' = Current'.from
    BY <1>1 DEF CalledFromSource, Current
  <1>2. CASE CheckSource
    <2>1. PICK read \in StateReads : read = Current.from
      BY <1>2 DEF CheckSource, SourceMatches, EndBatch
    <2>2. Current.from # "threw"
      <3>1. Current \in RequestType
        BY <1>2 DEF CheckSource, Current, TypeInv, TypeOK, BatchType
      <3>. QED  BY <3>1 DEF RequestType, LifecycleState, PrimaryStates
    <2>3. state = Current.from
      BY <2>1, <2>2 DEF StateReads
    <2>4. UNCHANGED <<job, next, state>>
      BY <1>2 DEF CheckSource, EndBatch
    <2>. QED  BY <2>3, <2>4 DEF Current
  <1>3. CASE Stop
    BY <1>1, <1>3 DEF Stop
  <1>4. CASE Submit
    BY <1>1, <1>4 DEF Submit, Enqueue, EnqueueRequests, DisabledPatch, GatePatch,
                      QueuePatch, AcceptPatch
  <1>5. CASE StateDrifts
    BY <1>5 DEF StateDrifts
  <1>6. CASE UNCHANGED vars
    BY <1>1, <1>6 DEF vars
  <1>7. CASE Start \/ Join \/ Take \/ ClaimPatch \/ DiscardPatch \/ PlanPatch
               \/ FinishBatch \/ RuntimeReturns \/ RecordOutcome \/ Finalize
    BY <1>7 DEF Start, Join, Take, ClaimPatch, DiscardPatch, PlanPatch, FinishBatch,
                RuntimeReturns, RecordOutcome, Finalize, EndBatch
  <1>. QED  BY <1>2, <1>3, <1>4, <1>5, <1>6, <1>7 DEF Next, Worker

\* While a request runs, the runtime is in the state the request names as its
\* source, provided nobody else drives the node (DeviceQueue::execute).
THEOREM CalledFromItsSource == Spec => []CalledFromSource
  <1>1. Init => CalledFromSource
    BY DEF Init, CalledFromSource
  <1>. DEFINE Inv == TypeInv /\ CalledFromSource
  <1>3. Init => Inv
    BY <1>1, TypeInit
  <1>4. Inv /\ [Next]_vars => Inv'
    BY SourceNext, TypeNext
  <1>5. Inv => CalledFromSource
    OBVIOUS
  <1>. HIDE DEF Inv
  <1>. QED  BY <1>3, <1>4, <1>5, PTL DEF Spec
------------------------------------------------------------------------------
(***************************************************************************)
(* The worker's loop.  A queue that runs has a live worker and is not      *)
(* stopping; a worker that has left the loop for good runs finalize(),     *)
(* whose batch is the one request to FINALIZED.                            *)
(***************************************************************************)
LoopInv ==
  /\ running => ~stopping /\ worker \notin {"none", "exited"}
  /\ ~running /\ worker # "none" => stopping
  /\ finalizing /\ worker # "none" =>
       stopping /\ worker \in {"next", "call", "record", "exited"}

Finalizing == finalizing /\ worker \in {"next", "call", "record"}

LastInv ==
  Finalizing =>
    /\ ~IsPatch(job) /\ Len(job.requests) = 1
    /\ job.requests[1].target = "finalized"

LEMMA LoopInit == Init => LoopInv /\ LastInv
  BY DEF Init, LoopInv, LastInv, Finalizing

\* A submission touches neither the worker nor the flags.
LEMMA SubmitKeeps ==
  ASSUME Submit
  PROVE  UNCHANGED <<running, stopping, lastTransition, workerVars, runtimeVars>>
  BY DEF Submit, Enqueue, EnqueueRequests, DisabledPatch, GatePatch, QueuePatch,
         AcceptPatch, observationVars

LEMMA LoopNext == LoopInv /\ [Next]_vars => LoopInv'
  <1>. SUFFICES ASSUME LoopInv, [Next]_vars
                PROVE  LoopInv'
    OBVIOUS
  <1>. USE DEF LoopInv, queueVars, workerVars
  <1>0. ASSUME EndBatch, UNCHANGED <<running, stopping, finalizing>>,
               worker \in {"discard", "plan", "next", "record"}
        PROVE  LoopInv'
    <2>1. CASE finalizing
      BY <1>0, <2>1 DEF EndBatch
    <2>2. CASE ~finalizing
      BY <1>0, <2>2 DEF EndBatch
    <2>. QED  BY <2>1, <2>2
  <1>1. CASE Start \/ Stop \/ Join
    BY <1>1 DEF Start, Stop, Join
  <1>2. CASE Submit
    BY <1>2, SubmitKeeps
  <1>3. CASE Take \/ ClaimPatch \/ RuntimeReturns
    BY <1>3 DEF Take, ClaimPatch, RuntimeReturns
  <1>4. CASE DiscardPatch \/ FinishBatch
    BY <1>4, <1>0 DEF DiscardPatch, FinishBatch
  <1>5. CASE PlanPatch \/ CheckSource \/ RecordOutcome
    <2>1. /\ UNCHANGED <<running, stopping, finalizing>>
          /\ worker \in {"plan", "next", "record"}
          /\ EndBatch \/ worker' \in {"next", "call"}
      BY <1>5 DEF PlanPatch, CheckSource, RecordOutcome
    <2>2. CASE EndBatch
      BY <1>0, <2>1, <2>2
    <2>3. CASE worker' \in {"next", "call"}
      BY <2>1, <2>3
    <2>. QED  BY <2>1, <2>2, <2>3
  <1>6. CASE Finalize
    BY <1>6 DEF Finalize
  <1>7. CASE StateDrifts \/ UNCHANGED vars
    BY <1>7 DEF StateDrifts, vars
  <1>. QED  BY <1>1, <1>2, <1>3, <1>4, <1>5, <1>6, <1>7 DEF Next, Worker

LEMMA LastNext == LoopInv /\ LastInv /\ [Next]_vars => LastInv'
  <1>. SUFFICES ASSUME LoopInv, LastInv, [Next]_vars
                PROVE  LastInv'
    OBVIOUS
  <1>. USE DEF LoopInv, LastInv, Finalizing, queueVars, workerVars
  <1>1. ASSUME Finalizing' => Finalizing /\ job' = job
        PROVE  LastInv'
    BY <1>1
  <1>2. ASSUME EndBatch, finalizing' = finalizing
        PROVE  LastInv'
    BY <1>2 DEF EndBatch
  <1>3. CASE Start \/ Stop \/ Join
    BY <1>3, <1>1 DEF Start, Stop, Join
  <1>4. CASE Submit
    BY <1>4, <1>1, SubmitKeeps
  <1>5. CASE Take \/ ClaimPatch \/ RuntimeReturns
    BY <1>5, <1>1 DEF Take, ClaimPatch, RuntimeReturns
  <1>6. CASE DiscardPatch \/ PlanPatch \/ FinishBatch
    BY <1>6, <1>1, <1>2 DEF DiscardPatch, PlanPatch, FinishBatch
  <1>7. CASE CheckSource \/ RecordOutcome
    BY <1>7, <1>1, <1>2 DEF CheckSource, RecordOutcome
  <1>8. CASE Finalize
    <2>1. PICK actual \in SafeStates :
            \/ worker' = "exited"
            \/ job' = LifecycleBatch(<< Request(actual, "finalized", EmptyMap) >>)
      BY <1>8 DEF Finalize
    <2>. QED  BY <2>1 DEF LifecycleBatch, Request, IsPatch
  <1>9. CASE StateDrifts \/ UNCHANGED vars
    BY <1>9, <1>1 DEF StateDrifts, vars
  <1>. QED
    BY <1>3, <1>4, <1>5, <1>6, <1>7, <1>8, <1>9 DEF Next, Worker
------------------------------------------------------------------------------
(***************************************************************************)
(* stop() brings the runtime down.  Once finalize() has begun, a runtime   *)
(* that works is in the source state of the last request, and in FINALIZED *)
(* from the moment the call returns until the worker is joined.            *)
(***************************************************************************)
Works == ~Faulty /\ DriftStates = {}

Down == state \in PrimaryStates => state = "finalized"

DownInv ==
  Works =>
    /\ worker = "exited" \/ (worker = "none" /\ stopping) => Down
    /\ Finalizing /\ worker = "next" /\ next = 1 => Current.from = state
    /\ Finalizing /\ (worker = "record" \/ (worker = "next" /\ next # 1)) => Down

\* What a runtime that works does with the last request.
LEMMA LastCallFinalizes ==
  ASSUME Works, Current.from = state, Current.target = "finalized", RuntimeReturns
  PROVE  Down'
  <1>1. state' \in {state, "finalized"}
    BY DEF RuntimeReturns, Outcomes, Works, Faulty
  <1>2. ASSUME state \in PrimaryStates \ {"finalized"}
        PROVE  state' = "finalized"
    <2>1. SupportedEdge(Current.from, Current.target)
      BY <1>2 DEF SupportedEdge
    <2>. QED  BY <2>1 DEF RuntimeReturns, Outcomes, Works, Faulty
  <1>. QED  BY <1>1, <1>2 DEF Down

LEMMA DownNext ==
  TypeInv /\ LoopInv /\ LastInv /\ CalledFromSource /\ DownInv /\ [Next]_vars => DownInv'
  <1>. SUFFICES ASSUME TypeInv, LoopInv, LastInv, CalledFromSource, DownInv, [Next]_vars, Works
                PROVE  DownInv'
    BY DEF DownInv, Works, Faulty
  <1>. USE DEF queueVars, observationVars, workerVars, runtimeVars
  <1>1. SafeStates = {state}
    BY DEF SafeStates, SafeState, StateReads, Works, Faulty, TypeInv, TypeOK, LifecycleState,
           PrimaryStates
  <1>2. ASSUME UNCHANGED <<workerVars, stopping, state>>
        PROVE  DownInv'
    BY <1>2 DEF DownInv, Finalizing, Down, Current
  <1>3. ASSUME ~Finalizing', worker' # "exited", ~(worker' = "none" /\ stopping')
        PROVE  DownInv'
    BY <1>3 DEF DownInv
  <1>4. ASSUME EndBatch, UNCHANGED <<finalizing, state>>, worker # "next" \/ next # 1,
               worker \in {"discard", "plan", "next", "record"}
        PROVE  DownInv'
    <2>1. CASE ~finalizing
      BY <1>4, <2>1, <1>3 DEF EndBatch, Finalizing
    <2>2. CASE finalizing
      <3>1. Finalizing
        BY <1>4, <2>2 DEF LoopInv, Finalizing
      <3>. QED  BY <1>4, <3>1 DEF DownInv, Finalizing, EndBatch, Down
    <2>. QED  BY <2>1, <2>2
  <1>5. CASE Start
    BY <1>5, <1>3 DEF Start, Finalizing
  <1>6. CASE Stop
    BY <1>6 DEF Stop, DownInv, LoopInv, Finalizing, Down, Current
  <1>7. CASE Join
    BY <1>7 DEF Join, DownInv, Finalizing, Down
  <1>8. CASE Submit
    BY <1>8, <1>2, SubmitKeeps
  <1>9. CASE Take \/ ClaimPatch
    BY <1>9, <1>3 DEF Take, ClaimPatch, LoopInv, Finalizing
  <1>10. CASE DiscardPatch
    BY <1>10, <1>4 DEF DiscardPatch
  <1>11. CASE PlanPatch
    <2>1. ~finalizing /\ ~finalizing'
      BY <1>11 DEF PlanPatch, LoopInv
    <2>. QED  BY <1>11, <1>3, <2>1 DEF PlanPatch, EndBatch, Finalizing
  <1>12. CASE FinishBatch
    <2>1. CASE ~finalizing
      BY <1>12, <1>3, <2>1 DEF FinishBatch, EndBatch, Finalizing
    <2>2. CASE finalizing
      <3>1. next # 1
        BY <1>12, <2>2 DEF FinishBatch, LastInv, Finalizing
      <3>. QED  BY <1>12, <1>4, <3>1 DEF FinishBatch
    <2>. QED  BY <2>1, <2>2
  <1>13. CASE CheckSource
    <2>1. PICK read \in StateReads : IF SourceMatches(read) THEN worker' = "call" ELSE EndBatch
      BY <1>13 DEF CheckSource
    <2>2. read = state
      BY DEF StateReads, Works
    <2>3. CASE ~finalizing
      BY <1>13, <1>3, <2>3 DEF CheckSource, EndBatch, Finalizing
    <2>4. CASE finalizing
      <3>1. next = 1 /\ Finalizing
        <4>1. Finalizing /\ next \in Nat \ {0} /\ next <= Len(job.requests)
          BY <1>13, <2>4 DEF CheckSource, Finalizing, TypeInv, TypeOK
        <4>2. Len(job.requests) = 1
          BY <4>1 DEF LastInv
        <4>. QED  BY <4>1, <4>2
      <3>2. SourceMatches(read)
        BY <1>13, <2>2, <3>1 DEF CheckSource, SourceMatches, DownInv
      <3>. QED  BY <1>13, <2>1, <3>2 DEF CheckSource, DownInv
    <2>. QED  BY <2>3, <2>4
  <1>14. CASE RuntimeReturns
    <2>1. CASE ~finalizing
      BY <1>14, <1>3, <2>1 DEF RuntimeReturns, Finalizing
    <2>2. CASE finalizing
      <3>1. Current.target = "finalized"
        <4>1. Finalizing /\ next \in Nat \ {0} /\ next <= 1
          BY <1>14, <2>2 DEF RuntimeReturns, Finalizing, LastInv, TypeInv, TypeOK, InBatch
        <4>2. next = 1
          BY <4>1
        <4>. QED  BY <4>1, <4>2 DEF LastInv, Current
      <3>2. Current.from = state
        BY <1>14 DEF RuntimeReturns, CalledFromSource, Works
      <3>3. Down'
        BY <1>14, <3>1, <3>2, LastCallFinalizes
      <3>. QED  BY <1>14, <3>3 DEF RuntimeReturns, DownInv
    <2>. QED  BY <2>1, <2>2
  <1>15. CASE RecordOutcome
    <2>1. CASE EndBatch
      BY <1>15, <1>4, <2>1 DEF RecordOutcome
    <2>2. CASE ~EndBatch
      <3>1. worker' = "next" /\ next' = next + 1 /\ UNCHANGED <<finalizing, state, stopping>>
        BY <1>15, <2>2 DEF RecordOutcome
      <3>2. next' # 1
        BY <3>1 DEF TypeInv, TypeOK
      <3>3. Finalizing' => Finalizing /\ worker = "record"
        BY <1>15, <3>1 DEF RecordOutcome, Finalizing
      <3>. QED  BY <3>1, <3>2, <3>3 DEF DownInv, Down
    <2>. QED  BY <2>1, <2>2
  <1>16. CASE Finalize
    <2>1. CASE state = "finalized"
      BY <1>16, <1>1, <2>1 DEF Finalize, DownInv, Down, Finalizing
    <2>2. CASE state # "finalized"
      <3>1. /\ worker' = "next" /\ next' = 1 /\ state' = state
            /\ job' = LifecycleBatch(<< Request(state, "finalized", EmptyMap) >>)
        BY <1>16, <1>1, <2>2 DEF Finalize
      <3>2. Current'.from = state
        BY <3>1 DEF Current, LifecycleBatch, Request
      <3>. QED  BY <3>1, <3>2 DEF DownInv
    <2>. QED  BY <2>1, <2>2
  <1>17. CASE StateDrifts
    BY <1>17 DEF StateDrifts, Works
  <1>18. CASE UNCHANGED vars
    BY <1>18, <1>2 DEF vars
  <1>. QED
    BY <1>5, <1>6, <1>7, <1>8, <1>9, <1>10, <1>11, <1>12, <1>13, <1>14, <1>15, <1>16, <1>17,
       <1>18
       DEF Next, Worker

\* When stop() returns, a runtime that works and whose state is known is in
\* FINALIZED, whatever batch or patch the worker was in when stop() was called
\* (DeviceQueue::stop, run, finalize).
THEOREM StopFinalizes == Spec => []FinalizedWhenJoined
  <1>. DEFINE Inv == LoopInv /\ LastInv /\ DownInv
  <1>1. Init => Inv
    BY LoopInit DEF Init, DownInv, Finalizing
  <1>2. TypeInv /\ CalledFromSource /\ Inv /\ [Next]_vars => Inv'
    BY LoopNext, LastNext, DownNext
  <1>3. Inv => FinalizedWhenJoined
    BY DEF DownInv, Down, Works, FinalizedWhenJoined
  <1>4. Spec => []TypeInv
    BY TypeInit, TypeNext, PTL DEF Spec
  <1>. HIDE DEF Inv
  <1>. QED  BY <1>1, <1>2, <1>3, <1>4, CalledFromItsSource, PTL DEF Spec
------------------------------------------------------------------------------
(***************************************************************************)
(* A completed patch has been applied.  Every planned path configures once *)
(* and with the map it was planned from, and the worker only goes past     *)
(* that request when the runtime has carried it out: AppliedInv follows    *)
(* the request from the call to the record.                                *)
(***************************************************************************)
Configures(request) == request.from = "unconfigured" /\ request.target = "inactive"

\* The runtime cannot get to INACTIVE behind a configure it lied about.
Trustworthy == ~Faulty \/ "inactive" \notin DriftStates

PathInv ==
  (worker \in {"next", "call", "record"} /\ IsPatch(job)) =>
    /\ job.requests # << >> => \E i \in DOMAIN job.requests : Configures(job.requests[i])
    /\ \A i \in DOMAIN job.requests :
         Configures(job.requests[i]) => job.requests[i].parameters = snapshot

AppliedInv ==
  (Trustworthy /\ worker \in {"next", "call", "record"} /\ IsPatch(job)) =>
    /\ \A i \in DOMAIN job.requests :
         Configures(job.requests[i]) /\ i < next => applied = snapshot
    /\ (/\ worker = "record" /\ Configures(Current) /\ outcome = "success"
        /\ ~Faulty \/ state = "inactive") => applied = snapshot

\* A planned path is empty or configures, always with the map it was given.
LEMMA PlanConfigures ==
  ASSUME NEW read, NEW map, NEW plan, plan = StandardParameterTransitions(read, map)
  PROVE  /\ plan # << >> => \E i \in DOMAIN plan : Configures(plan[i])
         /\ \A i \in DOMAIN plan : Configures(plan[i]) => plan[i].parameters = map
  <1>. DEFINE Edge(from, target) == Request(from, target, EmptyMap)
              configure == Request("unconfigured", "inactive", map)
  <1>1. Configures(configure) /\ configure.parameters = map
    BY DEF Configures, Request
  <1>2. CASE read = "active"
    <2>1. plan = << Edge("active", "inactive"), Edge("inactive", "unconfigured"),
                    configure, Edge("inactive", "active") >>
      BY <1>2 DEF StandardParameterTransitions
    <2>2. ~Configures(Edge("active", "inactive")) /\ ~Configures(Edge("inactive", "unconfigured"))
          /\ ~Configures(Edge("inactive", "active"))
      BY DEF Configures, Request
    <2>. HIDE DEF configure, Edge
    <2>3. DOMAIN plan = 1..4 /\ plan[3] = configure
      BY <2>1
    <2>. QED  BY <1>1, <2>1, <2>2, <2>3
  <1>3. CASE read \in {"inactive", "finalized"}
    <2>1. PICK from \in {"inactive", "finalized"} :
            plan = << Edge(from, "unconfigured"), configure >>
      BY <1>3 DEF StandardParameterTransitions
    <2>2. ~Configures(Edge(from, "unconfigured"))
      BY DEF Configures, Request
    <2>. HIDE DEF configure, Edge
    <2>3. DOMAIN plan = 1..2 /\ plan[2] = configure
      BY <2>1
    <2>. QED  BY <1>1, <2>1, <2>2, <2>3
  <1>4. CASE read = "unconfigured"
    <2>1. plan = << configure >>
      BY <1>4 DEF StandardParameterTransitions
    <2>. HIDE DEF configure
    <2>. QED  BY <1>1, <2>1
  <1>5. CASE read \notin PrimaryStates
    <2>1. plan = << >>
      BY <1>5 DEF StandardParameterTransitions, PrimaryStates
    <2>. QED  BY <2>1
  <1>. QED  BY <1>2, <1>3, <1>4, <1>5 DEF PrimaryStates

LEMMA PathNext == TypeInv /\ PathInv /\ [Next]_vars => PathInv'
  <1>. SUFFICES ASSUME TypeInv, PathInv, [Next]_vars
                PROVE  PathInv'
    OBVIOUS
  <1>. USE DEF PathInv, queueVars, workerVars
  <1>1. ASSUME worker' \notin {"next", "call", "record"} \/ ~IsPatch(job')
        PROVE  PathInv'
    BY <1>1
  <1>2. ASSUME UNCHANGED <<job, snapshot>>, worker \in {"next", "call", "record"} \/ worker' = worker
        PROVE  PathInv'
    BY <1>2
  <1>3. CASE Start \/ Stop \/ Join
    BY <1>3, <1>1, <1>2 DEF Start, Stop, Join
  <1>4. CASE Submit
    BY <1>4, <1>2, SubmitKeeps
  <1>5. CASE Take \/ ClaimPatch
    BY <1>5, <1>1 DEF Take, ClaimPatch
  <1>6. CASE DiscardPatch \/ FinishBatch
    BY <1>6, <1>1 DEF DiscardPatch, FinishBatch, EndBatch
  <1>7. CASE PlanPatch
    <2>1. PICK read \in StateReads :
            \/ EndBatch
            \/ /\ job' = [job EXCEPT !.requests = StandardParameterTransitions(read, snapshot)]
               /\ snapshot' = snapshot
      BY <1>7 DEF PlanPatch
    <2>2. CASE EndBatch
      BY <1>1, <2>2 DEF EndBatch
    <2>3. CASE /\ job' = [job EXCEPT !.requests = StandardParameterTransitions(read, snapshot)]
               /\ snapshot' = snapshot
      <3>1. job'.requests = StandardParameterTransitions(read, snapshot)
        BY <2>3 DEF TypeInv, TypeOK, BatchType
      <3>. QED  BY <2>3, <3>1, PlanConfigures
    <2>. QED  BY <2>1, <2>2, <2>3
  <1>8. CASE CheckSource \/ RecordOutcome
    <2>1. EndBatch \/ UNCHANGED <<job, snapshot>>
      BY <1>8 DEF CheckSource, RecordOutcome
    <2>. QED  BY <1>8, <1>1, <1>2, <2>1 DEF CheckSource, RecordOutcome, EndBatch
  <1>9. CASE RuntimeReturns
    BY <1>9, <1>2 DEF RuntimeReturns
  <1>10. CASE Finalize
    BY <1>10, <1>1 DEF Finalize, LifecycleBatch, IsPatch
  <1>11. CASE StateDrifts \/ UNCHANGED vars
    BY <1>11, <1>2 DEF StateDrifts, vars
  <1>. QED
    BY <1>3, <1>4, <1>5, <1>6, <1>7, <1>8, <1>9, <1>10, <1>11 DEF Next, Worker

\* A configure that a runtime says it has carried out, and that left it INACTIVE,
\* or any that a working runtime says so of, has applied the request's map.
LEMMA ConfigureApplies ==
  ASSUME RuntimeReturns, Configures(Current), outcome' = "success",
         ~Faulty \/ state' = "inactive"
  PROVE  applied' = Current.parameters
  <1>1. PICK result \in Outcomes(Current) :
          /\ outcome' = result[1] /\ state' = result[2]
          /\ result = <<"success", "inactive">> => applied' = Current.parameters
    BY DEF RuntimeReturns, Configures
  <1>2. SupportedEdge(Current.from, Current.target)
    BY DEF Configures, SupportedEdge
  <1>3. \/ result = <<"success", "inactive">>
        \/ result \in (Result \cup {"threw"}) \X FaultStates
    BY <1>2 DEF Outcomes, Configures
  <1>4. ASSUME result \in (Result \cup {"threw"}) \X FaultStates
        PROVE  result = <<"success", "inactive">>
    BY <1>1, <1>4 DEF Faulty
  <1>. QED  BY <1>1, <1>3, <1>4 DEF Configures

\* A request that is recorded as a success has reached its target.
LEMMA SuccessReached ==
  ASSUME RecordOutcome, ~EndBatch, Configures(Current)
  PROVE  outcome = "success" /\ state = "inactive"
  <1>1. PICK read \in StateReads : Succeeded(RecordOf(read))
    BY DEF RecordOutcome
  <1>2. outcome = "success" /\ read = Current.target /\ read # "threw"
    BY <1>1 DEF Succeeded, RecordOf, Record
  <1>. QED  BY <1>2 DEF Configures, StateReads

LEMMA AppliedNext ==
  TypeInv /\ StartsAtFirst /\ PathInv /\ AppliedInv /\ [Next]_vars => AppliedInv'
  <1>. SUFFICES ASSUME TypeInv, StartsAtFirst, PathInv, AppliedInv, [Next]_vars, Trustworthy
                PROVE  AppliedInv'
    BY DEF AppliedInv, Trustworthy, Faulty
  <1>. USE DEF queueVars, observationVars, workerVars, runtimeVars
  <1>1. ASSUME worker' \notin {"next", "call", "record"} \/ ~IsPatch(job')
        PROVE  AppliedInv'
    BY <1>1 DEF AppliedInv
  <1>2. ASSUME UNCHANGED <<workerVars, state, applied>>
        PROVE  AppliedInv'
    BY <1>2 DEF AppliedInv, Current
  <1>3. ASSUME next' = 1, worker' # "record", DOMAIN job'.requests \subseteq Nat \ {0}
        PROVE  AppliedInv'
    BY <1>3 DEF AppliedInv
  <1>4. CASE Start \/ Stop \/ Join
    BY <1>4, <1>1, <1>2 DEF Start, Stop, Join
  <1>5. CASE Submit
    BY <1>5, <1>2, SubmitKeeps
  <1>6. CASE Take \/ ClaimPatch
    BY <1>6, <1>1 DEF Take, ClaimPatch
  <1>7. CASE DiscardPatch \/ FinishBatch
    BY <1>7, <1>1 DEF DiscardPatch, FinishBatch, EndBatch
  <1>8. CASE PlanPatch
    <2>1. CASE EndBatch
      BY <1>1, <2>1 DEF EndBatch
    <2>2. CASE ~EndBatch
      <3>1. next' = 1 /\ worker' = "next"
        BY <1>8, <2>2 DEF PlanPatch, StartsAtFirst
      <3>2. DOMAIN job'.requests \subseteq Nat \ {0}
        BY TypeNext DEF TypeInv, TypeOK, BatchType
      <3>. QED  BY <1>3, <3>1, <3>2
    <2>. QED  BY <2>1, <2>2
  <1>9. CASE CheckSource
    <2>1. CASE EndBatch
      BY <1>1, <2>1 DEF EndBatch
    <2>2. CASE ~EndBatch
      BY <1>9, <2>2 DEF CheckSource, AppliedInv
    <2>. QED  BY <2>1, <2>2
  <1>10. CASE RuntimeReturns
    <2>. SUFFICES ASSUME IsPatch(job)
                  PROVE  AppliedInv'
      BY <1>1, <1>10 DEF RuntimeReturns
    <2>1. /\ worker = "call" /\ worker' = "record"
          /\ UNCHANGED <<job, next, snapshot>>
      BY <1>10 DEF RuntimeReturns
    <2>2. applied' = applied \/ (Configures(Current) /\ applied' = Current.parameters)
      <3>1. PICK result \in Outcomes(Current) :
              applied' = IF /\ Current.from = "unconfigured" /\ Current.target = "inactive"
                            /\ result = <<"success", "inactive">>
                         THEN Current.parameters
                         ELSE applied
        BY <1>10 DEF RuntimeReturns
      <3>. QED  BY <3>1 DEF Configures
    <2>3. next \in DOMAIN job.requests
      BY <2>1 DEF TypeInv, TypeOK, InBatch, BatchType
    <2>4. Configures(Current) => Current.parameters = snapshot
      BY <2>1, <2>3 DEF PathInv, Current
    <2>5. applied = snapshot => applied' = snapshot
      BY <2>2, <2>4
    <2>6. ASSUME Configures(Current), outcome' = "success", ~Faulty \/ state' = "inactive"
          PROVE  applied' = snapshot
      BY <1>10, <2>4, <2>6, ConfigureApplies
    <2>. QED  BY <2>1, <2>5, <2>6 DEF AppliedInv, Current, Faulty
  <1>11. CASE RecordOutcome
    <2>1. CASE EndBatch
      BY <1>1, <2>1 DEF EndBatch
    <2>2. CASE ~EndBatch
      <3>. SUFFICES ASSUME IsPatch(job), NEW i \in DOMAIN job.requests,
                           Configures(job.requests[i]), i < next + 1
                    PROVE  applied = snapshot
        BY <1>11, <2>2 DEF RecordOutcome, AppliedInv
      <3>1. worker = "record" /\ next \in Nat /\ i \in Nat
        BY <1>11 DEF RecordOutcome, TypeInv, TypeOK, BatchType
      <3>2. CASE i < next
        BY <3>1, <3>2 DEF AppliedInv
      <3>3. CASE i = next
        BY <1>11, <2>2, <3>1, <3>3, SuccessReached DEF AppliedInv, Current
      <3>. QED  BY <3>1, <3>2, <3>3
    <2>. QED  BY <2>1, <2>2
  <1>12. CASE Finalize
    BY <1>12, <1>1 DEF Finalize, LifecycleBatch, IsPatch
  <1>13. CASE StateDrifts
    <2>1. /\ UNCHANGED <<workerVars, applied>>
          /\ state' \in DriftStates
      BY <1>13 DEF StateDrifts
    <2>2. (~Faulty \/ state' = "inactive") => (~Faulty \/ state = "inactive")
      BY <2>1 DEF Trustworthy
    <2>. QED  BY <2>1, <2>2 DEF AppliedInv, Current, Faulty
  <1>14. CASE UNCHANGED vars
    BY <1>14, <1>2 DEF vars
  <1>. QED
    BY <1>4, <1>5, <1>6, <1>7, <1>8, <1>9, <1>10, <1>11, <1>12, <1>13, <1>14
       DEF Next, Worker

LEMMA PathDone == TypeInv /\ PathInv /\ AppliedInv => CompletedPatchApplied
  <1>. SUFFICES ASSUME TypeInv, PathInv, AppliedInv, Trustworthy, worker = "next",
                       IsPatch(job), job.requests # << >>, next > Len(job.requests)
                PROVE  applied = snapshot
    BY DEF CompletedPatchApplied, Trustworthy
  <1>1. PICK i \in DOMAIN job.requests : Configures(job.requests[i])
    BY DEF PathInv
  <1>2. i < next
    BY DEF TypeInv, TypeOK, BatchType
  <1>. QED  BY <1>1, <1>2 DEF AppliedInv

\* A patch whose path has run to its end was applied with the map it was planned
\* from, whatever fails, lies or throws on the way (execute_parameter_patch).
THEOREM CompletedPatchIsApplied == Spec => []CompletedPatchApplied
  <1>. DEFINE Inv == PathInv /\ AppliedInv
  <1>1. Init => Inv
    BY DEF Init, PathInv, AppliedInv
  <1>2. TypeInv /\ StartsAtFirst /\ Inv /\ [Next]_vars => Inv'
    BY PathNext, AppliedNext
  <1>3. TypeInv /\ Inv => CompletedPatchApplied
    BY PathDone
  <1>4. Spec => [](TypeInv /\ BatchInv /\ AdjacentInv)
    <2>1. Init => TypeInv /\ BatchInv /\ AdjacentInv
      BY TypeInit, BatchInit DEF Init, AdjacentInv, StartsAtFirst, AdjacentExecution
    <2>. QED  BY <2>1, TypeNext, BatchNext, AdjacentNext, PTL DEF Spec
  <1>5. AdjacentInv => StartsAtFirst
    BY DEF AdjacentInv
  <1>. HIDE DEF Inv
  <1>. QED  BY <1>1, <1>2, <1>3, <1>4, <1>5, PTL DEF Spec
==============================================================================
