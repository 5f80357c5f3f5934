---------------------------- MODULE DriverRuntime -----------------------------
(***************************************************************************)
(* What the in-process drivers share: a runtime with the six lifecycle     *)
(* operations, called by the one worker of its DeviceQueue, and a thread   *)
(* of its own that reads or polls the device while the runtime is ACTIVE.  *)
(* The two meet in the runtime's mutex_, in join() and in the link.        *)
(*                                                                         *)
(* The definitions below are those of the serial drivers; the modules of   *)
(* the others take what they share and define what they do differently.    *)
(* Time is left out: a back-off is a step, and silent says that the stall  *)
(* clock has run out.                                                      *)
(***************************************************************************)
EXTENDS Naturals, Sequences, FiniteSets, SequencesExt

CONSTANTS
  Kinds,         \* the drivers an instance looks at
  Incidents,     \* what may go wrong, and what an operator may do
  MaxIncidents   \* bound on how often something does, for each driver

IncidentKinds == {"unplug", "mute", "refuse", "illtyped", "operator", "damage"}

\* A socket stays open when the device behind it is gone.
Sockets == {"oradar", "tws"}

DriverKinds == {"ch020", "pager", "smit", "oradar", "tws", "camera"}

ASSUME DriverAssumption ==
  /\ Kinds \subseteq DriverKinds
  /\ Incidents \subseteq IncidentKinds
  /\ MaxIncidents \in [Kinds -> Nat]

VARIABLES
  kind,               \* which driver this is
  state,              \* the runtime's state_
  op, at,             \* the operation the worker executes, and how far it is
  path,               \* the operations the worker's batch has left
  lock,               \* who holds the runtime's mutex_ across several steps
  thread, running,    \* how far the driver's thread is; running_
  link,               \* the transport; "dead" once the device has gone away
  connected,          \* the driver's connected_
  silent,             \* nothing has come for data_timeout_ms
  told, due,          \* the latest event; it still asks for a recovery
  device, used,       \* the device itself; incidents so far
  asked               \* an operator has asked for something

workerVars == <<state, op, at, path>>
linkVars == <<link, connected, silent>>
eventVars == <<told, due>>
fixed == <<kind, asked>>
worldVars == <<fixed, device, used>>
dvars == <<workerVars, lock, thread, running, linkVars, eventVars, worldVars>>

Operations ==
  {"materialize", "configure", "activate", "deactivate", "cleanup", "dematerialize"}

Spend(incident) ==
  /\ incident \in Incidents
  /\ used < MaxIncidents[kind]
  /\ used' = used + 1

DriverInit ==
  /\ kind \in Kinds
  /\ state = "finalized"
  /\ op = "none" /\ at = "enter" /\ path = << >>
  /\ lock = "none"
  /\ thread = "none" /\ running = FALSE
  /\ link = "closed" /\ connected = FALSE /\ silent = FALSE
  /\ told = "none" /\ due = FALSE
  /\ device = "present" /\ used = 0 /\ asked = FALSE
------------------------------------------------------------------------------
\* The device, and time.

Unplugs ==
  /\ device = "present" /\ Spend("unplug")
  /\ device' = "absent"
  /\ link' = IF link = "open" /\ kind \notin Sockets THEN "dead" ELSE link
  /\ UNCHANGED <<workerVars, lock, thread, running, connected, silent, eventVars, fixed>>

\* It stays connected and sends nothing.
Mutes ==
  /\ device = "present" /\ Spend("mute")
  /\ device' = "mute"
  /\ UNCHANGED <<workerVars, lock, thread, running, linkVars, eventVars, fixed>>

ComesBack ==
  /\ device # "present"
  /\ device' = "present"
  /\ UNCHANGED <<workerVars, lock, thread, running, linkVars, eventVars, fixed, used>>

\* The drivers that look for a stall.
Timed == {"ch020", "smit"}

\* data_timeout_ms passes: the device sends nothing, or nobody reads it.
GoesSilent ==
  /\ kind \in Timed /\ link # "closed" /\ ~silent
  /\ device # "present" \/ link = "dead" \/ thread = "none"
  /\ silent' = TRUE
  /\ UNCHANGED <<workerVars, lock, thread, running, link, connected, eventVars, worldVars>>

------------------------------------------------------------------------------
\* The worker chooses an operation: what is left of its batch, what the hook
\* answers, or what an operator has submitted.

Sources(operation) ==
  CASE operation = "materialize" -> {"finalized"}
    [] operation = "configure" -> {"unconfigured"}
    [] operation \in {"activate", "cleanup"} -> {"inactive"}
    [] operation = "deactivate" -> {"active"}
    [] operation = "dematerialize" -> {"unconfigured", "inactive", "active"}

Begins(operation) == op' = operation /\ at' = "enter"

idle == <<state, lock, thread, running, linkVars, told, device>>

\* The next request of the batch; a stale one ends it.
NextOfBatch ==
  /\ op = "none" /\ path # << >>
  /\ IF state \in Sources(Head(path))
     THEN Begins(Head(path)) /\ path' = Tail(path)
     ELSE path' = << >> /\ UNCHANGED <<op, at>>
  /\ UNCHANGED <<idle, due, used, fixed>>

Startup == [s \in {"finalized", "unconfigured", "inactive"} |->
              CASE s = "finalized" -> "materialize"
                [] s = "unconfigured" -> "configure"
                [] s = "inactive" -> "activate"]

\* The hook of an enabled device: up to ACTIVE, and there down again for an
\* event with target UNCONFIGURED, once.
HookAnswers ==
  /\ op = "none" /\ path = << >>
  /\ \/ /\ state \in DOMAIN Startup
        /\ Begins(Startup[state])
        /\ UNCHANGED <<path, due>>
     \/ /\ state = "active" /\ due
        /\ path' = << "deactivate", "cleanup" >>
        /\ due' = FALSE
        /\ UNCHANGED <<op, at>>
  /\ UNCHANGED <<idle, used, fixed>>

OperatorAsks ==
  /\ op = "none" /\ Spend("operator")
  /\ \E operation \in Operations : state \in Sources(operation) /\ Begins(operation)
  /\ asked' = TRUE
  /\ UNCHANGED <<idle, path, due, kind>>

WorkerChooses == NextOfBatch \/ HookAnswers

\* What goes on around the driver, the loss of its device aside.
Surroundings == Mutes \/ ComesBack \/ GoesSilent \/ OperatorAsks

Return(result) ==
  /\ op' = "none" /\ at' = "enter"
  /\ path' = IF result = "success" THEN path ELSE << >>

Goes(place) == at' = place /\ UNCHANGED <<op, path>>

\* emit_event takes the runtime's mutex_ to copy the handler; the latest event
\* replaces the one before, recovered from or not.
Tell(event) ==
  /\ lock = "none"
  /\ told' = event
  /\ due' = (event = "failed")
------------------------------------------------------------------------------
\* The six operations.

Materialize ==
  /\ op = "materialize" /\ lock = "none"
  /\ state' = "unconfigured"
  /\ Return("success")
  /\ UNCHANGED <<lock, thread, running, linkVars, eventVars, worldVars>>

\* config_from: a parameter of another type is refused before anything changes.
IllTyped == Spend("illtyped") /\ Return("failure") /\ UNCHANGED <<state, lock>>

ConfigureBegins ==
  /\ op = "configure" /\ at = "enter" /\ lock = "none"
  /\ \/ IllTyped
     \/ state' = "configuring" /\ lock' = "worker" /\ Goes("open") /\ UNCHANGED used
  /\ UNCHANGED <<thread, running, linkVars, eventVars, fixed, device>>

Opens == device # "absent" /\ link' = "open" /\ connected' = TRUE /\ silent' = FALSE

\* mutex_ is held while the device is opened.
ConfigureOpens ==
  /\ op = "configure" /\ at = "open"
  /\ lock' = "none"
  /\ \/ Opens /\ state' = "inactive" /\ Return("success")
     \/ /\ device = "absent"
        /\ state' = "unconfigured" /\ Goes("tell")
        /\ UNCHANGED linkVars
  /\ UNCHANGED <<thread, running, eventVars, worldVars>>

ConfigureTells ==
  /\ op = "configure" /\ at = "tell"
  /\ Tell("failed")
  /\ Return("error")
  /\ UNCHANGED <<state, lock, thread, running, linkVars, worldVars>>

\* activate(), deactivate(), cleanup() and dematerialize() change the state
\* under mutex_ and go on without it.
Enter(operation, between, place) ==
  /\ op = operation /\ at = "enter" /\ lock = "none"
  /\ state' = between
  /\ Goes(place)
  /\ UNCHANGED <<lock, thread, running, linkVars, eventVars, worldVars>>

Activate == Enter("activate", "active", "start")
Deactivate == Enter("deactivate", "inactive", "stop")
Cleanup == Enter("cleanup", "cleaning_up", "stop")
Dematerialize == Enter("dematerialize", "shutting_down", "stop")

\* start()
Starts ==
  /\ at = "start"
  /\ running' = TRUE
  /\ thread' = "loop"
  /\ Return("success")
  /\ UNCHANGED <<state, lock, linkVars, eventVars, worldVars>>

\* Mutant: stop() joins a thread nobody has told to end.
StopsWithoutFlag ==
  /\ at = "stop"
  /\ Goes("join")
  /\ UNCHANGED <<state, lock, thread, running, linkVars, eventVars, worldVars>>

\* stop() clears running_ ...
Stops ==
  /\ at = "stop"
  /\ running' = FALSE
  /\ Goes("join")
  /\ UNCHANGED <<state, lock, thread, linkVars, eventVars, worldVars>>

\* Mutant: a thread that is busy is left to itself.
JoinsNot ==
  /\ at = "join"
  /\ thread' = IF thread = "ended" THEN "none" ELSE thread
  /\ IF op = "deactivate" THEN Return("success") ELSE Goes("close")
  /\ UNCHANGED <<state, lock, running, linkVars, eventVars, worldVars>>

\* ... and joins the thread.
Joins ==
  /\ at = "join"
  /\ thread \in {"none", "ended"}
  /\ thread' = "none"
  /\ IF op = "deactivate" THEN Return("success") ELSE Goes("close")
  /\ UNCHANGED <<state, lock, running, linkVars, eventVars, worldVars>>

\* The driver's cleanup() closes the transport; the state follows under mutex_.
Closes ==
  /\ at = "close" /\ lock = "none"
  /\ link' = "closed" /\ connected' = FALSE
  /\ state' = IF op = "cleanup" THEN "unconfigured" ELSE "finalized"
  /\ Return("success")
  /\ UNCHANGED <<lock, thread, running, silent, eventVars, worldVars>>

Configure == ConfigureBegins \/ ConfigureOpens \/ ConfigureTells
Stopping == Stops \/ Joins \/ Closes
------------------------------------------------------------------------------
\* The read loop.

Proceeds(place) == thread' = place /\ UNCHANGED <<workerVars, lock, running, worldVars>>

\* running_ is checked at the head of the loop.
Loops ==
  /\ thread = "loop"
  /\ Proceeds(CASE ~running -> "ended"
                [] running /\ link = "closed" -> "reopen"
                [] running /\ link # "closed" -> "read")
  /\ UNCHANGED <<linkVars, eventVars>>

Reopens ==
  /\ thread = "reopen"
  /\ Opens
  /\ Proceeds("greet")
  /\ UNCHANGED eventVars

\* The back-off ends early when running_ is cleared.
ReopenFails ==
  /\ thread = "reopen" /\ device = "absent"
  /\ Proceeds("loop")
  /\ UNCHANGED <<linkVars, eventVars>>

Greets == thread = "greet" /\ Tell("online") /\ Proceeds("read") /\ UNCHANGED linkVars

\* What a read may answer: a frame, nothing within a second, an error.
Answers ==
  CASE link = "open" /\ device = "present" -> {"frame", "nothing"}
    [] link = "open" /\ device # "present" -> {"nothing"}
    [] link = "dead" -> {"nothing", "error"}
    [] link = "closed" -> {"error"}

\* running_ is checked again after the read, which may have taken a second.
ReadEnds ==
  /\ thread = "read" /\ ~running
  /\ Proceeds("ended")
  /\ UNCHANGED <<linkVars, eventVars>>

\* A frame restarts the stall clock.
ReadsFrame ==
  /\ thread = "read" /\ running /\ "frame" \in Answers
  /\ silent' = FALSE
  /\ Proceeds("stall")
  /\ UNCHANGED <<link, connected, eventVars>>

ReadsNothing ==
  /\ thread = "read" /\ running /\ "nothing" \in Answers
  /\ Proceeds("stall")
  /\ UNCHANGED <<linkVars, eventVars>>

ReadFails ==
  /\ thread = "read" /\ running /\ "error" \in Answers
  /\ Proceeds("fault")
  /\ UNCHANGED <<linkVars, eventVars>>

\* data_stalled()
Stalls ==
  /\ thread = "stall"
  /\ Proceeds(IF connected /\ silent THEN "fault" ELSE "loop")
  /\ UNCHANGED <<linkVars, eventVars>>

\* Mutant: the loss is reported only while the transport is still open.
FaultsQuietly ==
  /\ thread = "fault"
  /\ link' = "closed" /\ connected' = FALSE
  /\ Proceeds(IF link = "open" THEN "mourn" ELSE "loop")
  /\ UNCHANGED <<silent, eventVars>>

\* handle_fault() closes the transport and reports the loss of a connection.
Faults ==
  /\ thread = "fault"
  /\ link' = "closed" /\ connected' = FALSE
  /\ Proceeds(IF connected THEN "mourn" ELSE "loop")
  /\ UNCHANGED <<silent, eventVars>>

Mourns == thread = "mourn" /\ Tell("lost") /\ Proceeds("loop") /\ UNCHANGED linkVars

Notifies == Greets \/ Mourns
==============================================================================
