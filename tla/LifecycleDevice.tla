--------------------------- MODULE LifecycleDevice ---------------------------
(***************************************************************************)
(* A device whose runtime is Ros2LifecycleDriverAdapter: a remote ROS      *)
(* lifecycle node, driven through services, under the queue and the tick   *)
(* thread of HookedDevice.                                                 *)
(*                                                                         *)
(* state is StateCache::value.  Everybody who asks for it sends a get_state*)
(* query and takes what is cached; answers and transition events come in   *)
(* later, through callbacks of the node's one callback group, so that no   *)
(* two of them overlap, but the worker's request_transition writes the     *)
(* same cache from its own thread.  Every answer carries, as history, how  *)
(* many transition events older than it are still to come.                 *)
(***************************************************************************)
EXTENDS HookedDevice

CONSTANTS
  NodeEvents,    \* the events the node publishes on <node_name>/device_event
  Incidents,     \* what may happen besides the automatic startup
  MaxIncidents,  \* bound on how often something does
  MaxEvents      \* bound on the transition events on their way

\* refuse: the node's callback refuses a transition or a parameter; slow: an
\* answer misses service_timeout_; lost: an answer or an event never arrives;
\* restart: the node's process starts again; event: it publishes an event;
\* submit: a caller submits a path or a patch; stop: one stops the manager.
IncidentKinds == {"refuse", "slow", "lost", "restart", "event", "submit", "stop"}

ASSUME LifecycleDeviceAssumption ==
  /\ NodeEvents \subseteq EventType
  /\ Incidents \subseteq IncidentKinds
  /\ MaxIncidents \in Nat /\ MaxEvents \in Nat

VARIABLES
  node,              \* the remote node's state
  nodeParameters,    \* the node's parameters
  transitions,       \* transition_event messages on their way: goal states
  query, fresh,      \* the active get_state query; the generation is still its own
  call, reply,       \* where request_transition is; the answer it has
  renewed,           \* history: the node restarted after it took the call's parameters
  sets, changes,     \* set_parameters and change_state requests at the node
  wire, used         \* a device_event message on its way; incidents so far

nodeVars == <<node, nodeParameters, transitions, sets, changes>>
cacheVars == <<query, fresh>>
callVars == <<call, reply, renewed>>
adapterVars == <<nodeVars, cacheVars, callVars, wire, used>>
lvars == <<vars, eventVars, tickVars, adapterVars>>

\* Where the worker is in request_transition.  "parameters", "change", "confirm":
\* it waits for the answer to set_parameters, change_state or get_state; "taken",
\* "changed": it has that of the one before and waits for the next service to be
\* there; "unanswered": the process that was asked for its state is gone.
CallState == {"none", "parameters", "taken", "change", "changed", "confirm",
              "unanswered", "confirmed"}

\* An answer: the node's state, and how many of the transition events on their
\* way are older than it; -1 once a newer one has been handled.
Answer(value, behind) == [value |-> value, behind |-> behind]
\* One event fewer is on its way: handled, or lost.
AfterHandled(answer) == [answer EXCEPT !.behind = IF @ = -1 THEN @ ELSE @ - 1]
AfterLost(answer) == [answer EXCEPT !.behind = IF @ > 0 THEN @ - 1 ELSE @]
NoAnswer == Answer("unknown", 0)
NewQuery == [status |-> "sent", answer |-> NoAnswer, late |-> FALSE]
NoQuery == [NewQuery EXCEPT !.status = "none"]

Spend(kind) ==
  /\ kind \in Incidents
  /\ used < MaxIncidents
  /\ used' = used + 1

\* The constructor creates the clients and the subscriptions and sends a query.
LifecycleInit ==
  /\ HookedInit
  /\ node = "unconfigured"
  /\ nodeParameters = EmptyMap
  /\ transitions = << >>
  /\ query = NewQuery
  /\ fresh = TRUE
  /\ call = "none" /\ reply = "unknown" /\ renewed = FALSE
  /\ sets = << >> /\ changes = << >>
  /\ wire = NoEvent
  /\ used = 0
------------------------------------------------------------------------------
\* The remote node.

Announce(states) == transitions' = transitions \o states

\* A new process of the node knows nothing of the parameters and the requests the
\* old one had.
NodeRestarts ==
  /\ Spend("restart")
  /\ node' = "unconfigured"
  /\ nodeParameters' = EmptyMap
  /\ sets' = << >> /\ changes' = << >>
  /\ query' = [query EXCEPT !.status = IF @ = "sent" THEN "lost" ELSE @]
  /\ call' = IF call = "confirm" THEN "unanswered" ELSE call
  /\ renewed' = (renewed \/ call = "taken")
  /\ UNCHANGED <<vars, eventVars, tickVars, transitions, fresh, reply, wire>>

NodePublishes ==
  /\ wire = NoEvent
  /\ Spend("event")
  /\ wire' \in NodeEvents
  /\ UNCHANGED <<vars, eventVars, tickVars, nodeVars, cacheVars, callVars>>

\* The node answers the get_state query.
NodeAnswers ==
  /\ query.status = "sent"
  /\ query' = [query EXCEPT !.status = "answered", !.answer = Answer(node, Len(transitions))]
  /\ UNCHANGED <<vars, eventVars, tickVars, nodeVars, fresh, callVars,
                 wire, used>>

AnswerIsLost ==
  /\ query.status = "sent"
  /\ Spend("lost")
  /\ query' = [query EXCEPT !.status = "lost"]
  /\ UNCHANGED <<vars, eventVars, tickVars, nodeVars, fresh, callVars,
                 wire>>

TransitionIsLost ==
  /\ transitions # << >>
  /\ Spend("lost")
  /\ transitions' = Tail(transitions)
  /\ IF query.status = "answered"
     THEN query' = [query EXCEPT !.answer = AfterLost(@)]
     ELSE UNCHANGED query
  /\ UNCHANGED <<vars, eventVars, tickVars, node, nodeParameters, sets, changes,
                 fresh, callVars, wire>>
------------------------------------------------------------------------------
\* The callbacks of the subscriptions and of the query.

\* Device::start installs the event handler and Device::stop removes it.
Listening == running \/ worker # "none"

DeliverNodeEvent ==
  /\ wire # NoEvent
  /\ IF Listening THEN RecordEvent(wire) ELSE UNCHANGED eventVars
  /\ wire' = NoEvent
  /\ UNCHANGED <<vars, tickVars, nodeVars, cacheVars, callVars, used>>

\* Mutant: a transition event leaves the generation alone.
EventKeepsGeneration ==
  /\ transitions # << >>
  /\ state' = Head(transitions)
  /\ transitions' = Tail(transitions)
  /\ IF query.status = "answered"
     THEN query' = [query EXCEPT !.answer = AfterHandled(@)]
     ELSE UNCHANGED query
  /\ UNCHANGED <<queueVars, observationVars, workerVars, applied, eventVars, tickVars,
                 node, nodeParameters, sets, changes, fresh, callVars, wire, used>>

\* The transition_event callback: a new generation with the event's goal state.
DeliverTransition ==
  /\ transitions # << >>
  /\ state' = Head(transitions)
  /\ fresh' = (query.status = "none")
  /\ transitions' = Tail(transitions)
  /\ IF query.status = "answered"
     THEN query' = [query EXCEPT !.answer = AfterHandled(@)]
     ELSE UNCHANGED query
  /\ UNCHANGED <<queueVars, observationVars, workerVars, applied, eventVars, tickVars,
                 node, nodeParameters, sets, changes, callVars, wire, used>>

\* The query callback: the answer is stored unless the generation has changed.
HandleAnswer ==
  /\ query.status = "answered"
  /\ state' = IF fresh THEN query.answer.value ELSE state
  /\ query' = NoQuery
  /\ fresh' = TRUE
  /\ UNCHANGED <<queueVars, observationVars, workerVars, applied, eventVars, tickVars,
                 nodeVars, callVars, wire, used>>

\* The callback has found its generation current and has not stored the answer
\* yet: what another thread does now comes in between.
Checked == query.status = "answered" /\ fresh

\* Time passes: the active query is past query_deadline_ns.
QueryIsLate ==
  /\ query.status # "none" /\ ~query.late
  /\ IF query.status = "lost" THEN UNCHANGED used ELSE Spend("slow")
  /\ query' = [query EXCEPT !.late = TRUE]
  /\ UNCHANGED <<vars, eventVars, tickVars, nodeVars, fresh, callVars,
                 wire>>

\* Mutant: a query in flight is waited for without a deadline.
NeverExpired == query.status = "none"

Expired == query.status = "none" \/ query.late

\* refresh_state(): sends a query unless one is in flight and not yet late; a
\* late one is forgotten, with its request id, its token and its generation.
Refresh ==
  IF Expired
  THEN query' = NewQuery /\ fresh' = TRUE
  ELSE UNCHANGED cacheVars

\* state() refreshes, then loads the cached value.
ReadState == Refresh /\ UNCHANGED <<nodeVars, callVars, wire, used>>

\* A status query or the publication timer of the ROS API asks for the state.
StatusRead == ReadState /\ UNCHANGED <<vars, eventVars, tickVars>>

\* ... and forgets a late query whose callback stores its answer all the same.
StatusReadRaces ==
  /\ Checked /\ query.late
  /\ ReadState
  /\ state' = query.answer.value
  /\ UNCHANGED <<queueVars, observationVars, workerVars, applied, eventVars, tickVars>>

WorkerReads ==
  /\ DiscardPatch \/ PlanPatch \/ CheckSource \/ RecordOutcome \/ Finalize
  /\ ReadState
  /\ UNCHANGED <<eventVars, tickVars>>

QueueStep ==
  /\ \/ (HookedStart \/ Join \/ Take \/ ClaimPatch \/ FinishBatch) /\ UNCHANGED used
     \/ Submit /\ Spend("submit")
     \/ Stop /\ Spend("stop")
  /\ UNCHANGED <<eventVars, tickVars, nodeVars, cacheVars, callVars, wire>>
------------------------------------------------------------------------------
\* request_transition, under transition_mutex_, on the worker's thread.

\* transition_id knows no way out of FINALIZED.
NodeEdge(from, target) == SupportedEdge(from, target) /\ from # "finalized"

Refused(request) ==
  \/ ~NodeEdge(request.from, request.target)
  \/ /\ request.parameters # EmptyMap
     /\ <<request.from, request.target>> # <<"unconfigured", "inactive">>

Return(result) ==
  /\ outcome' = result
  /\ worker' = "record"
  /\ call' = "none"
  /\ renewed' = FALSE

calling == <<queueVars, observationVars, job, next, snapshot, finalizing, eventVars,
             tickVars, wire>>

RefuseCall ==
  /\ worker = "call" /\ call = "none"
  /\ Refused(Current)
  /\ Return("failure")
  /\ UNCHANGED <<calling, runtimeVars, nodeVars, cacheVars, reply, used>>

SendChange ==
  /\ call' = "change"
  /\ changes' = Append(changes, <<Current.from, Current.target>>)

\* Mutant: the transition is requested without waiting for the parameters.
BeginWithoutParameters ==
  /\ worker = "call" /\ call = "none"
  /\ ~Refused(Current)
  /\ SendChange
  /\ sets' = IF Current.parameters = EmptyMap THEN sets ELSE Append(sets, Current.parameters)
  /\ UNCHANGED <<calling, worker, outcome, runtimeVars, node, nodeParameters,
                 transitions, cacheVars, reply, renewed, used>>

\* The first service is there: a configure request sends its parameters, the
\* others go straight to change_state.
BeginCall ==
  /\ worker = "call" /\ call = "none"
  /\ ~Refused(Current)
  /\ IF Current.parameters = EmptyMap
     THEN SendChange /\ UNCHANGED sets
     ELSE /\ call' = "parameters"
          /\ sets' = Append(sets, Current.parameters)
          /\ UNCHANGED changes
  /\ UNCHANGED <<calling, worker, outcome, runtimeVars, node, nodeParameters,
                 transitions, cacheVars, reply, renewed, used>>

\* Is the worker still waiting for the oldest of these requests?
Awaited(kind, requests) == call = kind /\ Len(requests) = 1

\* The node takes the parameters of a request, or refuses some: the others it
\* takes all the same, for each is set by itself.
NodeSetsParameters ==
  /\ sets # << >>
  /\ sets' = Tail(sets)
  /\ \/ /\ nodeParameters' = Merge(nodeParameters, Head(sets))
        /\ call' = IF Awaited("parameters", sets) THEN "taken" ELSE call
        /\ UNCHANGED <<worker, outcome, renewed, used>>
     \/ /\ Spend("refuse")
        /\ \E accepted \in (SUBSET DOMAIN Head(sets)) \ {DOMAIN Head(sets)} :
             nodeParameters' = Merge(nodeParameters, Restrict(Head(sets), accepted))
        /\ IF Awaited("parameters", sets)
           THEN Return("failure")
           ELSE UNCHANGED <<worker, outcome, call, renewed>>
  /\ UNCHANGED <<calling, runtimeVars, node, transitions, changes, cacheVars, reply>>

\* The worker has the answer and waits for change_state; once the service is
\* there, the change is sent to whatever process serves it then.
ChangeFollows ==
  /\ call = "taken"
  /\ SendChange
  /\ UNCHANGED <<calling, worker, outcome, runtimeVars, node, nodeParameters,
                 transitions, sets, cacheVars, reply, renewed, used>>

\* The node executes a change_state request, in time or after the worker gave
\* it up: it must be in the source state and its callback may still refuse.
NodeChangesState ==
  /\ changes # << >>
  /\ Len(transitions) + 2 <= MaxEvents
  /\ changes' = Tail(changes)
  /\ LET edge == Head(changes)
         awaited == Awaited("change", changes)
     IN \/ /\ node = edge[1]
           /\ node' = edge[2]
           /\ Announce(<<"transitioning", edge[2]>>)
           /\ applied' = IF edge = <<"unconfigured", "inactive">> THEN nodeParameters
                                                                  ELSE applied
           /\ call' = IF awaited THEN "changed" ELSE call
           /\ UNCHANGED <<worker, outcome, renewed, used>>
        \/ /\ \/ node = edge[1] /\ Spend("refuse") /\ Announce(<<"transitioning", node>>)
              \/ node # edge[1] /\ UNCHANGED <<used, transitions>>
           /\ IF awaited THEN Return("failure") ELSE UNCHANGED <<worker, outcome, call, renewed>>
           /\ UNCHANGED <<node, applied>>
  /\ UNCHANGED <<calling, state, nodeParameters, sets, cacheVars, reply>>

\* The worker has the answer to its change and asks for the state once get_state
\* is there.
ConfirmFollows ==
  /\ call = "changed"
  /\ call' = "confirm"
  /\ UNCHANGED <<calling, worker, outcome, runtimeVars, nodeVars, cacheVars, reply,
                 renewed, used>>

\* The node answers that request.
NodeConfirms ==
  /\ call = "confirm"
  /\ call' = "confirmed"
  /\ reply' = node
  /\ UNCHANGED <<calling, worker, outcome, runtimeVars, nodeVars, cacheVars, renewed, used>>

\* The worker stores that answer under a new generation; a query's callback
\* that has made its check may store its own after it.
StoreConfirmation ==
  /\ call = "confirmed"
  /\ \/ /\ state' = reply
        /\ fresh' = (query.status = "none")
        /\ UNCHANGED query
     \/ /\ Checked
        /\ state' = query.answer.value
        /\ query' = NoQuery
        /\ fresh' = TRUE
  /\ reply' = "unknown"
  /\ Return(IF reply = Current.target THEN "success" ELSE "failure")
  /\ UNCHANGED <<calling, applied, nodeVars, used>>

\* The node has no request left that could answer the worker.
Unanswerable ==
  \/ call = "parameters" /\ sets = << >>
  \/ call = "change" /\ changes = << >>
  \/ call = "unanswered"

\* The worker gives up waiting, for an answer or for the next service to be there:
\* service_timeout_ has passed, and the request was never sent or is executed later.
CallTimesOut ==
  /\ call \in CallState \ {"none", "confirmed"}
  /\ IF Unanswerable THEN UNCHANGED used ELSE Spend("slow")
  /\ Return("error")
  /\ sets' \in IF call = "parameters" /\ sets # << >> THEN {sets, Front(sets)} ELSE {sets}
  /\ changes' \in IF call = "change" /\ changes # << >> THEN {changes, Front(changes)}
                                                     ELSE {changes}
  /\ UNCHANGED <<calling, runtimeVars, node, nodeParameters, transitions,
                 cacheVars, reply>>

AdapterCall ==
  RefuseCall \/ BeginCall \/ ChangeFollows \/ ConfirmFollows \/ StoreConfirmation
------------------------------------------------------------------------------
\* transitions_to of this adapter: the shared one without an edge out of
\* FINALIZED.
TransitionsTo(from, target, map) == LevelledPath(from, target, map)

\* Mutant: an error is recovered from again and again.
ErrorAgain == latestEvent.level = "error"

ErrorPending == latestEvent.level = "error" /\ eventRevision > handled

\* The requests an error event not yet handled still asks for.
EventRequests ==
  IF enabled /\ ErrorPending
  THEN TransitionsTo(tickState, latestEvent.target, parameters)
  ELSE << >>

\* An event that asks for nothing any more is handled.
HandledAfter ==
  IF enabled /\ ErrorPending /\ EventRequests = << >> THEN eventRevision ELSE handled

\* The hook: nothing for a disabled device, the event's target first, then the
\* automatic advance.
HookRequests ==
  CASE ~enabled -> << >>
    [] enabled /\ EventRequests # << >> -> EventRequests
    [] OTHER -> TransitionsTo(tickState,
                              IF tickState = "unconfigured" THEN "inactive" ELSE "active",
                              parameters)

Ticker ==
  \/ TickReadsState /\ ReadState /\ UNCHANGED eventVars
  \/ (TickEvaluates(HookRequests, HandledAfter) \/ TickSubmits) /\ UNCHANGED adapterVars
------------------------------------------------------------------------------
Callbacks == DeliverNodeEvent \/ DeliverTransition \/ HandleAnswer

Node == NodeAnswers \/ NodeSetsParameters \/ NodeChangesState \/ NodeConfirms

LifecycleNext ==
  \/ NodeRestarts \/ NodePublishes \/ AnswerIsLost \/ TransitionIsLost \/ QueryIsLate
  \/ Node \/ Callbacks \/ StatusRead \/ StatusReadRaces \/ WorkerReads \/ QueueStep
  \/ AdapterCall \/ CallTimesOut \/ Ticker

LifecycleSpec == LifecycleInit /\ [][LifecycleNext]_lvars

\* The node serves what arrives, callbacks run, the worker and the tick thread
\* keep running, and time passes for whoever waits in vain.
LifecycleFairSpec ==
  /\ LifecycleSpec
  /\ WF_lvars(NodeAnswers) /\ WF_lvars(NodeSetsParameters)
  /\ WF_lvars(NodeChangesState) /\ WF_lvars(NodeConfirms)
  /\ WF_lvars(Unanswerable /\ CallTimesOut)
  /\ WF_lvars(DeliverNodeEvent) /\ WF_lvars(DeliverTransition)
  /\ WF_lvars(query.status = "lost" /\ QueryIsLate)
  /\ WF_lvars(HandleAnswer)
  /\ WF_lvars(WorkerReads \/ AdapterCall
              \/ ((Take \/ ClaimPatch \/ FinishBatch)
                    /\ UNCHANGED <<eventVars, tickVars, adapterVars>>))
  /\ WF_lvars(Join /\ UNCHANGED <<eventVars, tickVars, adapterVars>>)
  /\ WF_lvars(Ticker)
------------------------------------------------------------------------------
\* However late an answer to get_state is, and whatever was timed out and asked
\* again in between, it never overwrites what a newer transition event said.
EventsBeatAnswers == Checked => query.answer.behind >= 0

\* A configure the worker waits for finds the node with exactly the parameters of
\* its request, also when an earlier one was given up, refused in part or came in
\* late; only a process that replaced the one which took them, while the worker
\* waited for change_state, is configured without any.
ConfiguredAsAsked ==
  [][(Awaited("change", changes) /\ node = "unconfigured" /\ node' = "inactive"
        /\ call' = "changed") =>
        applied' = IF renewed THEN EmptyMap ELSE Current.parameters]_lvars

\* While the manager runs, the cache keeps catching up with the node: lost
\* answers, lost events and late ones do not leave a wrong state in it for good.
CacheCatchesUp == <>[]running => []<>(state = node)

\* A device that stays enabled ends with its node ACTIVE, whatever timed out,
\* was refused or executed late before.
SettlesActive ==
  (<>[](running /\ enabled) /\ [](node # "finalized")) => <>[](node = "active")
==============================================================================
