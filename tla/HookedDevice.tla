---------------------------- MODULE HookedDevice -----------------------------
(***************************************************************************)
(* What every device under automatic management shares on top of           *)
(* DeviceQueue: the latest event Device keeps, and the tick thread that    *)
(* evaluates the device's lifecycle hook and enqueues what it answers.     *)
(* The hook itself belongs to the runtime: ManagedDevice, ProcessDevice,  *)
(* LifecycleDevice.                                                        *)
(***************************************************************************)
EXTENDS DeviceQueue

VARIABLES
  latestEvent, eventRevision,  \* Device::latest_event, latest_event_revision
  handled,                     \* the hook's handled_event_revision
  tick,                        \* where the tick thread is with this device
  tickState, tickRequests      \* its HookContext::state, the hook's answer

eventVars == <<latestEvent, eventRevision>>
tickVars == <<handled, tick, tickState, tickRequests>>

Levels == {"ok", "error"}
EventType == [level : Levels, target : LifecycleState]
NoEvent == [level |-> "none", target |-> "unknown"]

HookedInit ==
  /\ Init
  /\ latestEvent = NoEvent
  /\ eventRevision = 0
  /\ handled = 0
  /\ tick = "waiting"
  /\ tickState = "unknown"
  /\ tickRequests = << >>

\* The event handler Device::start installs.
RecordEvent(event) ==
  /\ latestEvent' = event
  /\ eventRevision' = eventRevision + 1

\* DeviceManager::tick reaches the device; hook_context() reads the runtime's
\* state before it takes observation_mutex.
TickReadsState ==
  /\ tick = "waiting"
  /\ running
  /\ tick' = "evaluate"
  /\ tickState' = state
  /\ UNCHANGED <<vars, handled, tickRequests>>

\* hook_context() copies the observation and the hook answers; only the tick
\* thread runs the hook.
TickEvaluates(requests, handledAfter) ==
  /\ tick = "evaluate"
  /\ tickRequests' = requests
  /\ handled' = handledAfter
  /\ tick' = IF requests = << >> THEN "waiting" ELSE "submit"
  /\ tickState' = "unknown"
  /\ UNCHANGED <<vars, eventVars>>

\* The answer is enqueued, or rejected by a queue that has been stopped.
TickSubmits ==
  /\ tick = "submit"
  /\ tick' = "waiting"
  /\ tickRequests' = << >>
  /\ \/ EnqueueRequests(tickRequests, "normal")
     \/ ~running /\ UNCHANGED vars
  /\ UNCHANGED <<eventVars, handled, tickState>>

\* DeviceManagerApplication joins the tick thread before it can start again.
HookedStart == Start /\ tick = "waiting"

\* The path between two states of a configured or configurable device, and the
\* direct edge to FINALIZED; a configure request carries the parameters.
Levelled == << "unconfigured", "inactive", "active" >>
Between(from, target) ==
  LET i == CHOOSE k \in 1..3 : Levelled[k] = from
      j == CHOOSE k \in 1..3 : Levelled[k] = target
  IN IF i < j THEN SubSeq(Levelled, i, j) ELSE Reverse(SubSeq(Levelled, j, i))

LevelledPath(from, target, map) ==
  CASE from \in ToSet(Levelled) /\ target = "finalized" ->
         << Request(from, target, EmptyMap) >>
    [] from \in ToSet(Levelled) /\ target \in ToSet(Levelled) ->
         LET states == Between(from, target)
         IN [i \in 1..(Len(states) - 1) |->
               Request(states[i], states[i + 1],
                       IF states[i] = "unconfigured" THEN map ELSE EmptyMap)]
    [] OTHER -> << >>
==============================================================================
