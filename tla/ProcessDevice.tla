---------------------------- MODULE ProcessDevice ----------------------------
(***************************************************************************)
(* A device whose runtime is Ros2ProcessDeviceRuntimeAdapter: a ROS driver *)
(* hosted in a process group of its own, under the queue and the tick      *)
(* thread of HookedDevice.                                                 *)
(*                                                                         *)
(* state is cached_state_ and applied is materialized_parameters_.  The    *)
(* adapter notices the exit of the process only when somebody asks for its *)
(* state or starts a transition: the asker reaps the group, the cached     *)
(* state stays, and the exit is reported as an event with target           *)
(* FINALIZED.  Every operation holds state_mutex_ from end to end, so each *)
(* is one action; the process itself may exit between any two of them.     *)
(***************************************************************************)
EXTENDS HookedDevice

CONSTANTS
  Mapped,      \* the parameters process.parameter_mappings passes to the process
  NodeEvents,  \* the events the node publishes on <node_name>/device_event
  Budget       \* bounds on what may go wrong, by kind

\* exit: the process exits by itself; spawn: posix_spawnp fails; stop: a group
\* outlives SIGTERM and SIGKILL, or cannot be signalled; event: the node
\* publishes an event.
FaultKinds == {"exit", "spawn", "stop", "event"}

\* The adapter is constructed FINALIZED, and its state() does not throw.
ASSUME ProcessAssumption ==
  /\ InitialStates = {"finalized"} /\ FaultStates = {}
  /\ Mapped \subseteq Names
  /\ NodeEvents \subseteq EventType
  /\ Budget \in [FaultKinds -> Nat]

VARIABLES
  child,  \* child_pid_ and its group leader: "none" is -1, "exited" a zombie not
          \* yet waited for, "reaped" a leader waited for by a stop that failed
  wire,   \* a device_event message between the node and the subscription
  used,   \* how much of Budget is spent
  steered \* history: a client has queued a batch that may move the runtime

remoteVars == <<eventVars, tickVars, child, wire, used>>
processVars == <<remoteVars, steered>>
pvars == <<vars, processVars>>

ProcessInit ==
  /\ HookedInit
  /\ child = "none"
  /\ wire = NoEvent
  /\ used = [kind \in FaultKinds |-> 0]
  /\ steered = FALSE

Spend(kind) ==
  /\ used[kind] < Budget[kind]
  /\ used' = [used EXCEPT ![kind] = @ + 1]
------------------------------------------------------------------------------
\* The process and its node.

ProcessExits ==
  /\ child = "running"
  /\ Spend("exit")
  /\ child' = "exited"
  /\ UNCHANGED <<vars, eventVars, tickVars, wire, steered>>

NodePublishes ==
  /\ child = "running" /\ wire = NoEvent
  /\ Spend("event")
  /\ wire' \in NodeEvents
  /\ UNCHANGED <<vars, eventVars, tickVars, child, steered>>

\* Device::start installs the event handler before the queue starts and
\* Device::stop removes it after the queue has stopped.
Listening == running \/ worker # "none"

Report(event) == IF Listening THEN RecordEvent(event) ELSE UNCHANGED eventVars

\* The subscription hands the message on, however late.
DeliverNodeEvent ==
  /\ wire # NoEvent
  /\ Report(wire)
  /\ wire' = NoEvent
  /\ UNCHANGED <<vars, tickVars, child, used, steered>>
------------------------------------------------------------------------------
\* reap_child_locked: an exited leader is waited for with its group, and the
\* exit is reported.
ExitEvent == [level |-> "error", target |-> "finalized"]

\* Mutant: the exit is noticed but nobody is told.
ReportNoExit == UNCHANGED eventVars

ReportExit == IF child = "exited" THEN Report(ExitEvent) ELSE UNCHANGED eventVars

AfterReap == IF child = "exited" THEN "none" ELSE child

\* state(), whoever calls it.
ReadState ==
  /\ ReportExit
  /\ child' = AfterReap
  /\ UNCHANGED <<wire, used, steered>>

\* A status query or the publication timer of the ROS API asks for the state.
StatusRead == child = "exited" /\ ReadState /\ UNCHANGED <<vars, tickVars>>

\* The steps of the worker that read the authoritative state.
WorkerReads ==
  /\ DiscardPatch \/ PlanPatch \/ CheckSource \/ RecordOutcome \/ Finalize
  /\ ReadState
  /\ UNCHANGED tickVars

\* A patch that gets a batch, or a path whose first edge the adapter supports.
Steers ==
  \E priority \in Priorities :
    \/ \E patch \in InputPatches : QueuePatch(patch, priority)
    \/ \E path \in InputPaths :
         path # << >> /\ SupportedEdge(path[1][1], path[1][2]) /\ Enqueue(path, priority)

\* The steps of the queue that do not touch the runtime.
QueueStep ==
  \/ (HookedStart \/ Stop \/ Join \/ Take \/ ClaimPatch \/ FinishBatch) /\ UNCHANGED processVars
  \/ Submit /\ steered' = (steered \/ Steers) /\ UNCHANGED remoteVars
------------------------------------------------------------------------------
\* request_transition.  A call answers, leaves cached_state_, the child and the
\* parameters the process was launched with, and may have reported an exit.
Calls(from, target) ==
  /\ worker = "call"
  /\ Current.from = from /\ Current.target = target

Answers(result, cached, pid, launched) ==
  /\ outcome' = result
  /\ state' = cached
  /\ child' = pid
  /\ applied' = launched
  /\ worker' = "record"
  /\ UNCHANGED <<queueVars, observationVars, job, next, snapshot, finalizing,
                 tickVars, wire, steered>>

\* start_process_locked: every mapped parameter must be there and the process
\* must start.
StartProcess(reached, otherwise) ==
  \/ /\ Mapped \subseteq DOMAIN Current.parameters
     /\ Answers("success", reached, "running", Current.parameters)
     /\ UNCHANGED used
  \/ /\ Mapped \subseteq DOMAIN Current.parameters
     /\ Spend("spawn")
     /\ Answers("error", otherwise, "none", applied)
  \/ /\ ~(Mapped \subseteq DOMAIN Current.parameters)
     /\ Answers("error", otherwise, "none", applied)
     /\ UNCHANGED used

\* Mutant: a stop that gave up reports the state it was meant to reach.
StopGivesUpFinalized ==
  /\ child # "none"
  /\ Spend("stop")
  /\ \E left \in {child, "reaped"} : Answers("error", "finalized", left, applied)

\* stop_process_locked gives up: the child id and the cached state stay, and
\* the leader may have been waited for.
StopFails ==
  /\ child # "none"
  /\ Spend("stop")
  /\ \E left \in {child, "reaped"} : Answers("error", state, left, applied)

Materialize ==
  /\ Calls("finalized", "unconfigured")
  /\ ReportExit
  /\ IF AfterReap = "none"
     THEN StartProcess("unconfigured", state)
     ELSE Answers("success", "unconfigured", AfterReap, applied) /\ UNCHANGED used

\* Mutant: configure() never restarts a process that runs.
KeepsAnyProcess == TRUE

\* Does configure() keep the process it finds?
KeepsProcess == Current.parameters \in {EmptyMap, applied}

\* configure() launches the process when there is none, and stops and launches
\* it again when the parameters are not those it runs with.
Configure ==
  /\ Calls("unconfigured", "inactive")
  /\ ReportExit
  /\ \/ /\ AfterReap # "none" /\ KeepsProcess
        /\ Answers("success", "inactive", AfterReap, applied)
        /\ UNCHANGED used
     \/ /\ AfterReap # "none" /\ ~KeepsProcess
        /\ StopFails \/ StartProcess("inactive", "finalized")
     \/ /\ AfterReap = "none"
        /\ StartProcess("inactive", state)

\* activate() and deactivate().
Switch(from, target) ==
  /\ Calls(from, target)
  /\ ReportExit
  /\ IF AfterReap = "none"
     THEN Answers("error", state, "none", applied)
     ELSE Answers("success", target, AfterReap, applied)
  /\ UNCHANGED used

\* stop_process_locked for a transition to the given state: it does not reap
\* first, so an exit nobody has noticed is waited for without a report.
StopProcess(reached) ==
  /\ UNCHANGED eventVars
  /\ \/ Answers("success", reached, "none", applied) /\ UNCHANGED used
     \/ StopFails

Cleanup == Calls("inactive", "unconfigured") /\ StopProcess("unconfigured")

Dematerialize ==
  /\ \E from \in PrimaryStates \ {"finalized"} : Calls(from, "finalized")
  /\ StopProcess("finalized")

Unsupported ==
  /\ worker = "call" /\ ~SupportedEdge(Current.from, Current.target)
  /\ Answers("failure", state, child, applied)
  /\ UNCHANGED <<eventVars, used>>

AdapterCall ==
  \/ Materialize \/ Configure
  \/ Switch("inactive", "active") \/ Switch("active", "inactive")
  \/ Cleanup \/ Dematerialize \/ Unsupported
------------------------------------------------------------------------------
\* transitions_to: the requests that take the device from one state to another.
TransitionsTo(from, target, map) ==
  IF from = "finalized" /\ target = "unconfigured"
  THEN << Request(from, target, map) >>
  ELSE LevelledPath(from, target, map)

Unhandled == eventRevision # 0 /\ eventRevision > handled

\* The requests an unhandled event still asks for; once there are none the
\* event is handled.
EventRequests ==
  IF Unhandled THEN TransitionsTo(tickState, latestEvent.target, parameters) ELSE << >>

\* Mutant: an event is handled as soon as the hook has answered it.
HandledWhenAnswered == eventRevision

HandledAfter == IF EventRequests = << >> THEN eventRevision ELSE handled

\* Mutant: the gate is not consulted once the device is materialized.
HookForgetsGate ==
  CASE EventRequests # << >> -> EventRequests
    [] EventRequests = << >> /\ tickState = "finalized" ->
         IF enabled THEN TransitionsTo(tickState, "unconfigured", parameters) ELSE << >>
    [] OTHER -> TransitionsTo(tickState,
                              IF tickState = "unconfigured" THEN "inactive" ELSE "active",
                              parameters)

\* The hook of the process adapter: an event of any level comes first, then
\* device.enable, then the automatic advance.
HookRequests ==
  IF EventRequests # << >> THEN EventRequests
  ELSE CASE tickState = "finalized" /\ ~enabled -> << >>
         [] tickState = "finalized" /\ enabled ->
              TransitionsTo(tickState, "unconfigured", parameters)
         [] tickState # "finalized" /\ ~enabled ->
              TransitionsTo(tickState, "finalized", parameters)
         [] OTHER -> TransitionsTo(tickState,
                                   IF tickState = "unconfigured" THEN "inactive" ELSE "active",
                                   parameters)

Ticker ==
  \/ TickReadsState /\ ReadState
  \/ (TickEvaluates(HookRequests, HandledAfter) \/ TickSubmits)
       /\ UNCHANGED <<child, wire, used, steered>>
------------------------------------------------------------------------------
ProcessNext ==
  \/ ProcessExits \/ NodePublishes \/ DeliverNodeEvent
  \/ StatusRead \/ WorkerReads \/ QueueStep \/ AdapterCall \/ Ticker

ProcessSpec == ProcessInit /\ [][ProcessNext]_pvars

\* The worker and the tick thread keep running, the adapter's calls return,
\* and messages arrive.  The tick thread's fairness is strong because the bound
\* on the queue's length, which the code does not have, must not keep a hook's
\* answer out for ever.
WorkerStep ==
  \/ WorkerReads \/ AdapterCall
  \/ (Take \/ ClaimPatch \/ FinishBatch) /\ UNCHANGED processVars
ProcessFairSpec ==
  /\ ProcessSpec
  /\ WF_pvars(WorkerStep)
  /\ WF_pvars(Join /\ UNCHANGED processVars)
  /\ SF_pvars(Ticker)
  /\ WF_pvars(DeliverNodeEvent)
------------------------------------------------------------------------------
\* FINALIZED is reached by stopping and reaping the process group (README.md,
\* design.md): the adapter never answers FINALIZED while it still owns one,
\* whatever exits, fails to start or refuses to stop.
FinalizedOwnsNothing == state = "finalized" => child = "none"

\* A configured device that has lost its process has been reported: the exit
\* event is the latest one, and the hook has still to take the device to its
\* target.  So it is until something other than exits, failed starts, the gate and
\* the hook comes in: the node's own events, a failed stop, or a client that moves
\* the device (a patch with parameters is enough).
Undisturbed == ~steered /\ used["stop"] = 0 /\ used["event"] = 0

DisappearanceReported ==
  (Undisturbed /\ running /\ state \in {"inactive", "active"} /\ child = "none") =>
    latestEvent = ExitEvent /\ Unhandled

\* A device that stays enabled ends ACTIVE with its process running, however
\* often the process exited or did not start, as long as nothing of that came in.
SettlesRunning ==
  (<>[](running /\ enabled) /\ []Undisturbed) => <>[](state = "active" /\ child = "running")

\* A device that stays disabled ends FINALIZED without a process, even when
\* stops failed first and patches crossed the hook's answers, as long as the
\* node kept silent.
SettlesStopped ==
  (<>[](running /\ ~enabled) /\ [](used["event"] = 0)) =>
    <>[](state = "finalized" /\ child = "none")

\* Process disappearance is first reported as an event; the framework then
\* reaches FINALIZED (README.md).
DisappearanceFinalizes ==
  (running /\ state = "active" /\ child = "none") ~> (~running \/ state = "finalized")
==============================================================================
