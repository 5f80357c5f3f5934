---------------------------- MODULE ManagedDevice ----------------------------
(***************************************************************************)
(* A device of an in-process runtime under automatic management: queue and *)
(* tick thread of HookedDevice, and a runtime whose configure may fail and *)
(* whose read or poll thread reports events.                               *)
(*                                                                         *)
(* The runtime and its hook are those of the in-process drivers (CH020,    *)
(* SMIT, PG100, TWS, Oradar and GMSL all register the same hook).          *)
(***************************************************************************)
EXTENDS HookedDevice

CONSTANTS
  ReaderEvents,   \* the events the driver's own thread reports while it runs
  MaxFailures,    \* bound on the failed configure calls
  MaxEvents       \* bound on latest_event_revision

ASSUME ManagedAssumption ==
  /\ ReaderEvents \subseteq EventType
  /\ MaxFailures \in Nat /\ MaxEvents \in Nat

VARIABLES
  failures,  \* failed configure calls so far
  disturbed  \* history: an event was reported or the open gate was closed

managedVars == <<eventVars, tickVars, failures>>
mvars == <<vars, managedVars, disturbed>>

------------------------------------------------------------------------------
ManagedInit == HookedInit /\ failures = 0 /\ disturbed = FALSE

\* The driver's thread runs from activate() until deactivate() or
\* dematerialize() has joined it; it reports a lost or a regained device.
ReaderReports ==
  /\ state = "active"
  /\ eventRevision < MaxEvents
  /\ \E event \in ReaderEvents : RecordEvent(event)
  /\ UNCHANGED <<vars, tickVars, failures>>

\* configure() cannot open the device: the runtime stays UNCONFIGURED, reports
\* connect_failed and answers ERROR.
ConfigureFails ==
  /\ worker = "call"
  /\ Current.from = "unconfigured" /\ Current.target = "inactive"
  /\ failures < MaxFailures
  /\ failures' = failures + 1
  /\ outcome' = "error"
  /\ worker' = "record"
  /\ eventRevision < MaxEvents
  /\ RecordEvent([level |-> "error", target |-> "unconfigured"])
  /\ UNCHANGED <<queueVars, observationVars, job, next, snapshot, finalizing,
                 runtimeVars, tickVars>>
------------------------------------------------------------------------------
Edges(path) == [i \in DOMAIN path |-> Request(path[i][1], path[i][2], EmptyMap)]

Ladder == << "active", "inactive", "unconfigured", "finalized" >>
Rung(level) == CHOOSE i \in 1..4 : Ladder[i] = level

\* recovery_requests: the path down the ladder from one state to a lower one.
RecoveryRequests(from, target) ==
  IF from \notin ToSet(Ladder) \/ target \notin ToSet(Ladder)
  THEN << >>
  ELSE Edges([i \in 1..(Rung(target) - Rung(from)) |->
                <<Ladder[Rung(from) + i - 1], Ladder[Rung(from) + i]>>])

\* Mutant: every recorded error is recovered from, handled or not.
NeverHandled == tickState = "active" /\ latestEvent.level = "error"

\* The hook reacts to an event once, and only in ACTIVE.
NeedsRecovery ==
  /\ tickState = "active"
  /\ latestEvent.level = "error"
  /\ eventRevision > handled

\* Mutant: a disabled device is left as it is.
HookIgnoresGate ==
  CASE tickState = "finalized" /\ enabled ->
         << Request("finalized", "unconfigured", parameters) >>
    [] tickState = "unconfigured" -> << Request("unconfigured", "inactive", parameters) >>
    [] tickState = "inactive" -> << Request("inactive", "active", EmptyMap) >>
    [] OTHER -> << >>

\* The lifecycle hook the in-process runtimes register.
HookRequests ==
  CASE ~enabled -> RecoveryRequests(tickState, "finalized")
    [] enabled /\ tickState = "finalized" ->
         << Request("finalized", "unconfigured", parameters) >>
    [] enabled /\ tickState = "unconfigured" ->
         << Request("unconfigured", "inactive", parameters) >>
    [] enabled /\ tickState = "inactive" -> << Request("inactive", "active", EmptyMap) >>
    [] enabled /\ NeedsRecovery -> RecoveryRequests("active", latestEvent.target)
    [] OTHER -> << >>

\* *handled_event_revision after the hook has answered.
HandledAfter == IF enabled /\ NeedsRecovery THEN eventRevision ELSE handled

------------------------------------------------------------------------------
QueueStep == HookedStart \/ Stop \/ Join \/ Submit \/ Worker

Ticker ==
  \/ TickReadsState /\ UNCHANGED eventVars
  \/ TickEvaluates(HookRequests, HandledAfter)
  \/ TickSubmits

\* The history of NewestUntilFault; a configure that fails reports an event too.
Remembered ==
  disturbed' = (disturbed \/ eventRevision' # eventRevision \/ (enabled /\ ~enabled'))

ManagedNext ==
  /\ \/ QueueStep /\ UNCHANGED managedVars
     \/ Ticker /\ UNCHANGED failures
     \/ ReaderReports
     \/ ConfigureFails
  /\ Remembered

ManagedSpec == ManagedInit /\ [][ManagedNext]_mvars

\* The worker and the tick thread keep running; runtime calls return.
ManagedFairSpec ==
  /\ ManagedSpec
  /\ WF_mvars(((Worker /\ UNCHANGED managedVars) \/ ConfigureFails) /\ Remembered)
  /\ WF_mvars(Join /\ UNCHANGED managedVars /\ Remembered)
  /\ WF_mvars(Ticker /\ UNCHANGED failures /\ Remembered)
------------------------------------------------------------------------------
\* Hooks copy the desired map when they are evaluated and the copy waits in the
\* queue behind and before patches; still, until the first fault (a failed
\* configure or a reported event), a quiet configured device should run with the
\* newest map ("the final applied map is always the newest one", design.md).  It
\* does until the gate is closed for the first time: a gate that closes and opens
\* again leaves answers in the queue that take the device down and up with an old
\* map.
NewestUntilFault == ~disturbed => NewestParametersApplied

\* A device that stays enabled ends in ACTIVE and stays there once its faults
\* are over: failed configures, handled events and stale hook answers left in
\* the queue cannot keep it down.
SettlesActive == <>[](running /\ enabled) => <>[](state = "active")

\* A device that stays disabled ends dematerialized and stays so.
SettlesFinalized == <>[](running /\ ~enabled) => <>[](state = "finalized")

\* Runtime serial failures do not change lifecycle state (design.md): a device
\* whose thread only reports events with target ACTIVE leaves ACTIVE only when
\* it is disabled, reconfigured or stopped.
ActiveUntilAsked ==
  [][(state = "active" /\ state' # "active") =>
        ~enabled \/ ~running \/ IsPatch(job)]_mvars

==============================================================================
