------------------------------ MODULE PagerLora ------------------------------
(***************************************************************************)
(* Pager100LoraRuntime and Pager100LoraDriver.  A third thread, the one    *)
(* that spins the runtime's node, writes to the transport the read loop    *)
(* reads from: send() holds the driver's mutex_ while it writes, and the   *)
(* read loop opens and closes the transport without it.  An idle link is   *)
(* normal: there is no stall detection.                                    *)
(***************************************************************************)
EXTENDS DriverRuntime

VARIABLES
  sending,    \* send() is writing, and holds the driver's mutex_
  cutBySend   \* the last write to fail was send()'s, and nobody has told yet

pagerVars == <<sending, cutBySend>>

PagerInit == sending = FALSE /\ cutBySend = FALSE

quiet == <<workerVars, lock, thread, running, silent, eventVars, worldVars>>

\* on_tx: the driver is there from materialize() to dematerialize(); send()
\* refuses unless its transport is open.
SendBegins ==
  /\ ~sending
  /\ state \notin {"finalized", "shutting_down"}
  /\ lock = "none"
  /\ link # "closed"
  /\ sending' = TRUE
  /\ UNCHANGED <<quiet, link, connected, cutBySend>>

\* The write succeeds on an open transport.
SendEnds ==
  /\ sending /\ link = "open"
  /\ sending' = FALSE
  /\ UNCHANGED <<quiet, link, connected, cutBySend>>

\* A write that fails closes the transport; the read loop is to open it again.
SendFails ==
  /\ sending /\ link # "open"
  /\ link' = "closed" /\ connected' = FALSE
  /\ cutBySend' = (connected \/ cutBySend)
  /\ sending' = FALSE
  /\ UNCHANGED quiet

------------------------------------------------------------------------------
PagerMaterialize == Materialize /\ UNCHANGED pagerVars
PagerConfigureBegins == ConfigureBegins /\ UNCHANGED pagerVars

\* What needs the driver's mutex_ waits for send().
PagerConfigureOpens == ~sending /\ ConfigureOpens /\ cutBySend' = FALSE /\ UNCHANGED sending

PagerConfigureTells == ConfigureTells /\ UNCHANGED pagerVars
PagerActivate == Activate /\ UNCHANGED pagerVars
PagerStarts == Starts /\ UNCHANGED pagerVars
PagerDeactivate == Deactivate /\ UNCHANGED pagerVars
PagerCleanup == Cleanup /\ UNCHANGED pagerVars
PagerDematerialize == Dematerialize /\ UNCHANGED pagerVars
PagerStops == (Stops \/ Joins) /\ UNCHANGED pagerVars
PagerCloses == ~sending /\ Closes /\ cutBySend' = FALSE /\ UNCHANGED sending

PagerOperations ==
  \/ PagerMaterialize \/ PagerConfigureBegins \/ PagerConfigureOpens \/ PagerConfigureTells
  \/ PagerActivate \/ PagerStarts \/ PagerDeactivate
  \/ PagerCleanup \/ PagerDematerialize \/ PagerStops \/ PagerCloses

\* The hook is that of DriverRuntime.
PagerWorkerChooses == WorkerChooses /\ UNCHANGED pagerVars
------------------------------------------------------------------------------
\* open() is called without mutex_, connected_ is set with it.
PagerReopens ==
  /\ thread = "reopen" /\ device # "absent"
  /\ link' = "open"
  /\ Proceeds("mark")
  /\ UNCHANGED <<connected, silent, eventVars, pagerVars>>

PagerMarks ==
  /\ thread = "mark" /\ ~sending
  /\ connected' = TRUE
  /\ Proceeds("greet")
  /\ UNCHANGED <<link, silent, eventVars, pagerVars>>

\* Frames are handed on; whatever comes, the loop goes on.
PagerReads ==
  /\ thread = "read" /\ running
  /\ Answers \cap {"frame", "nothing"} # {}
  /\ Proceeds("loop")
  /\ UNCHANGED <<linkVars, eventVars, pagerVars>>

\* handle_fault() closes the transport without mutex_ ...
PagerFaults ==
  /\ thread = "fault"
  /\ link' = "closed"
  /\ Proceeds("drop")
  /\ UNCHANGED <<connected, silent, eventVars, pagerVars>>

\* ... and looks at connected_ with it.
PagerDrops ==
  /\ thread = "drop" /\ ~sending
  /\ connected' = FALSE
  /\ Proceeds(IF connected THEN "mourn" ELSE "loop")
  /\ UNCHANGED <<link, silent, eventVars, pagerVars>>

PagerNotifies ==
  /\ Notifies
  /\ cutBySend' = (cutBySend /\ ~connected)
  /\ UNCHANGED sending

PagerLoops == Loops /\ UNCHANGED pagerVars
PagerReopenFails == ReopenFails /\ UNCHANGED pagerVars
PagerReadFails == (ReadEnds \/ ReadFails) /\ UNCHANGED pagerVars

PagerReadLoop ==
  \/ PagerLoops \/ PagerReopens \/ PagerMarks \/ PagerReopenFails
  \/ PagerReads \/ PagerReadFails \/ PagerFaults \/ PagerDrops \/ PagerNotifies
==============================================================================
