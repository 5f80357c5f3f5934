------------------------------ MODULE TwsBattery -----------------------------
(***************************************************************************)
(* TwsBatteryRuntime and TwsBatteryDriver: a thread polls the battery over *)
(* CAN at an interval, with the runtime's mutex_ held for the whole poll.  *)
(* A mutex of its own, poll_mutex_, guards stop_polling_ (~running): the   *)
(* thread holds it at "loop", where it waits for mutex_ as well.  One poll *)
(* that fails is not a loss; kConsecutivePollFailuresToOffline are.        *)
(***************************************************************************)
EXTENDS DriverRuntime

CONSTANT FailuresToOffline   \* kConsecutivePollFailuresToOffline

ASSUME TwsAssumption == FailuresToOffline \in Nat \ {0}

VARIABLES
  failures,    \* consecutive_poll_failures_
  everOk,      \* has_successful_poll_
  shown,       \* last_snapshot_.connected, what is published
  online,      \* the status_transition_tracker_'s
  missed       \* polls in a row without an answer, for the properties

pollVars == <<failures, everOk, shown, online>>
twsVars == <<pollVars, missed>>

TwsInit ==
  /\ failures = 0 /\ everOk = FALSE /\ shown = FALSE /\ online = FALSE
  /\ missed = 0

\* What goes may be the battery, or the adapter with its interface.
TwsUnplugs ==
  /\ device = "present" /\ Spend("unplug")
  /\ device' = "absent"
  /\ link' \in {link} \cup {l \in {"dead"} : link = "open"}
  /\ UNCHANGED <<workerVars, lock, thread, running, connected, silent, eventVars, fixed, twsVars>>

TwsForgets == failures' = 0 /\ everOk' = FALSE /\ missed' = 0
------------------------------------------------------------------------------
\* A new driver.
TwsMaterialize ==
  /\ Materialize
  /\ shown' = FALSE /\ online' = FALSE
  /\ TwsForgets

\* The socket can be opened as long as the interface is there, whether or not
\* a battery answers.  mutex_ is held from the first check to the new state.
TwsConfigures ==
  /\ op = "configure" /\ at = "enter" /\ lock = "none"
  /\ \/ IllTyped /\ UNCHANGED <<link, twsVars>>
     \/ /\ link' = "open"
        /\ state' = "inactive"
        /\ Return("success")
        /\ TwsForgets
        /\ UNCHANGED <<used, shown, online>>
     \/ /\ device = "absent"
        /\ shown' = FALSE
        /\ Goes("tell")
        /\ TwsForgets
        /\ UNCHANGED <<link, state, used, online>>
  /\ UNCHANGED <<lock, thread, running, connected, silent, eventVars, fixed, device>>

TwsConfigureTells == ConfigureTells /\ UNCHANGED twsVars
TwsActivate == Activate /\ UNCHANGED twsVars
\* start_polling()
TwsStarts == thread # "loop" /\ Starts /\ UNCHANGED twsVars
TwsDeactivate == Deactivate /\ UNCHANGED twsVars
TwsDematerialize == Dematerialize /\ UNCHANGED twsVars
\* stop_polling() needs poll_mutex_, and then waits for the thread.
TwsStops == thread # "loop" /\ Stops /\ UNCHANGED twsVars
TwsJoins == Joins /\ UNCHANGED twsVars

\* The polling has ended with deactivate().
TwsCleanup ==
  /\ op = "cleanup" /\ at = "enter" /\ lock = "none"
  /\ link' = "closed"
  /\ state' = "unconfigured"
  /\ Return("success")
  /\ TwsForgets
  /\ UNCHANGED <<lock, thread, running, connected, silent, eventVars, worldVars, shown, online>>

TwsCloses == Closes /\ TwsForgets /\ UNCHANGED <<shown, online>>

TwsOperations ==
  \/ TwsMaterialize \/ TwsConfigures \/ TwsConfigureTells
  \/ TwsActivate \/ TwsStarts \/ TwsDeactivate \/ TwsCleanup
  \/ TwsDematerialize \/ TwsStops \/ TwsJoins \/ TwsCloses

\* The hook is that of DriverRuntime.
TwsWorkerChooses == WorkerChooses /\ UNCHANGED twsVars
------------------------------------------------------------------------------
pollSteps == <<linkVars, twsVars>>

\* poll_loop(): poll_interval_ms() takes mutex_ while poll_mutex_ is held.
TwsLoops ==
  /\ thread = "loop"
  /\ running => lock = "none"
  /\ Proceeds(IF running THEN "wait" ELSE "ended")
  /\ UNCHANGED <<pollSteps, eventVars>>

\* wait_for() gives poll_mutex_ up, and ends early when polling is to stop.
TwsWaits ==
  /\ thread = "wait"
  /\ Proceeds(IF running THEN "poll" ELSE "ended")
  /\ UNCHANGED <<pollSteps, eventVars>>

\* poll_once() of the runtime: a poll only while ACTIVE.
TwsPollBegins ==
  /\ thread = "poll" /\ lock = "none"
  /\ \/ state = "active" /\ lock' = "thread" /\ thread' = "polling"
     \/ state # "active" /\ thread' = "publish" /\ UNCHANGED lock
  /\ UNCHANGED <<workerVars, running, pollSteps, eventVars, worldVars>>

PollEnds(place) ==
  /\ thread = "polling"
  /\ lock' = "none"
  /\ thread' = place
  /\ UNCHANGED <<workerVars, running, linkVars, eventVars, fixed, device>>

\* Mutant: only the offline transition resets the count of failures.
TwsPollSucceedsUncounted ==
  /\ link = "open" /\ device = "present"
  /\ \E logged \in {TRUE, ~online} : PollEnds(IF logged THEN "greet" ELSE "publish")
  /\ everOk' = TRUE /\ shown' = TRUE /\ online' = TRUE
  /\ missed' = 0
  /\ UNCHANGED <<failures, used>>

\* Whatever is logged of a poll makes it an online event: that the battery has
\* come, or a change of its work state or charge.
TwsPollSucceeds ==
  /\ link = "open" /\ device = "present"
  /\ \E logged \in {TRUE, ~online} : PollEnds(IF logged THEN "greet" ELSE "publish")
  /\ failures' = 0 /\ everOk' = TRUE /\ shown' = TRUE /\ online' = TRUE
  /\ missed' = 0
  /\ UNCHANGED used

\* make_poll_failure_result: the count saturates in the model, where no more
\* than FailuresToOffline are told apart.
TwsPollFails ==
  /\ IF link = "open" /\ device = "present" THEN Spend("refuse") ELSE UNCHANGED used
  /\ LET count == IF failures < FailuresToOffline THEN failures + 1 ELSE failures
         tolerated == shown /\ count < FailuresToOffline
     IN /\ failures' = count
        /\ shown' = (shown /\ tolerated)
        /\ online' = (online /\ tolerated)
        /\ PollEnds(IF ~tolerated /\ (online \/ ~everOk) THEN "mourn" ELSE "publish")
  /\ missed' = IF missed < FailuresToOffline THEN missed + 1 ELSE missed
  /\ UNCHANGED everOk

\* tws_battery.poll_failed asks for UNCONFIGURED.
TwsMourns ==
  /\ thread = "mourn" /\ Tell("failed") /\ Proceeds("publish")
  /\ UNCHANGED pollSteps

TwsGreets ==
  /\ thread = "greet" /\ Tell("online") /\ Proceeds("publish")
  /\ UNCHANGED pollSteps

\* snapshot() takes mutex_; what is published is the snapshot as it is now.
TwsPublishes ==
  /\ thread = "publish" /\ lock = "none"
  /\ Proceeds("loop")
  /\ UNCHANGED <<pollSteps, eventVars>>

TwsPollLoop ==
  \/ TwsLoops \/ TwsWaits \/ TwsPollBegins
  \/ TwsPollSucceeds \/ TwsPollFails \/ TwsMourns \/ TwsGreets \/ TwsPublishes
==============================================================================
