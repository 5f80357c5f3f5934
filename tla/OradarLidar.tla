----------------------------- MODULE OradarLidar -----------------------------
(***************************************************************************)
(* OradarLidarRuntime: an Ethernet lidar behind a client that talks UDP.   *)
(* The runtime owns thread and client itself; connecting, the settings and *)
(* the commands happen without its mutex_.                                 *)
(***************************************************************************)
EXTENDS DriverRuntime

VARIABLES
  client,      \* client_ is not null
  streaming,   \* the device has been told to measure and to send
  greeted      \* connected_event_emitted_

oradarVars == <<client, streaming, greeted>>

OradarInit == client = FALSE /\ streaming = FALSE /\ greeted = FALSE

kept == <<lock, connected, silent, fixed, device>>
threadVars == <<thread, running>>

\* A device that has lost its power has forgotten that it was to measure.
OradarUnplugs == Unplugs /\ streaming' \in {streaming, FALSE} /\ UNCHANGED <<client, greeted>>

\* A command over the open client: the device answers it, or does not in time.
CommandWorks == link = "open" /\ device # "absent"
CommandFails == IF CommandWorks THEN Spend("refuse") ELSE UNCHANGED used
------------------------------------------------------------------------------
OradarMaterialize == Materialize /\ UNCHANGED oradarVars

\* config_ is overwritten in any case; the client of a configure that failed
\* before is replaced, unless the address is not one.
OradarConfigureBegins ==
  /\ op = "configure" /\ at = "enter" /\ lock = "none"
  /\ \/ IllTyped /\ UNCHANGED <<client, link>>
     \/ /\ state' = "configuring" /\ Goes("open")
        /\ client' = TRUE /\ link' = "closed"
        /\ UNCHANGED <<lock, used>>
  /\ UNCHANGED <<threadVars, connected, silent, eventVars, fixed, device, streaming, greeted>>

\* connect_client and apply_device_settings: open, track_connect, and the
\* settings read, written and saved.
Connects == link' = "open" /\ device # "absent"

\* The first of them to fail decides whether the client is open afterwards.
ConnectFails ==
  /\ link' \in {link, "open"}
  /\ IF device = "absent" THEN UNCHANGED used ELSE Spend("refuse")

OradarConfigureOpens ==
  /\ op = "configure" /\ at = "open"
  /\ \/ Connects /\ Goes("settle") /\ UNCHANGED used
     \/ ConnectFails /\ Goes("revert")
  /\ UNCHANGED <<kept, threadVars, state, eventVars, oradarVars>>

\* The client stays as the failed attempt has left it.
OradarConfigureReverts ==
  /\ op = "configure" /\ at = "revert" /\ lock = "none"
  /\ state' = "unconfigured"
  /\ Goes("tell")
  /\ UNCHANGED <<kept, threadVars, link, eventVars, used, oradarVars>>

OradarConfigureTells == ConfigureTells /\ UNCHANGED oradarVars

OradarConfigureEnds ==
  /\ op = "configure" /\ at = "settle" /\ lock = "none"
  /\ state' = "inactive"
  /\ Return("success")
  /\ UNCHANGED <<kept, threadVars, link, eventVars, used, oradarVars>>

\* enable_measure and enable_data_stream come before the state changes.
OradarActivate ==
  /\ op = "activate" /\ at = "enter" /\ lock = "none"
  /\ \/ CommandWorks /\ streaming' = TRUE /\ Goes("launch") /\ UNCHANGED used
     \/ CommandFails /\ Return("error") /\ UNCHANGED streaming
  /\ UNCHANGED <<kept, threadVars, state, link, eventVars, client, greeted>>

OradarStarts ==
  /\ op = "activate" /\ at = "launch" /\ lock = "none"
  /\ state' = "active"
  /\ running' = TRUE /\ thread' = "loop"
  /\ greeted' = FALSE
  /\ Return("success")
  /\ UNCHANGED <<kept, link, eventVars, used, client, streaming>>

\* dematerialize() stops the reader before it looks at the state.
OradarDematerialize == Enter("dematerialize", state, "stop") /\ UNCHANGED oradarVars
OradarDeactivate == Deactivate /\ UNCHANGED oradarVars

OradarCleanup ==
  /\ op = "cleanup" /\ at = "enter" /\ lock = "none"
  /\ state' = "cleaning_up"
  /\ client' = FALSE
  /\ Goes("close")
  /\ UNCHANGED <<kept, threadVars, link, eventVars, used, streaming, greeted>>

\* stop_reader()
StopReader == lock = "none" /\ Stops /\ UNCHANGED oradarVars

\* The hook is that of DriverRuntime.
OradarWorkerChooses == WorkerChooses /\ UNCHANGED oradarVars

\* After the join deactivate() turns the stream off, or tries to.
OradarJoins ==
  /\ Joins
  /\ streaming' \in IF op = "deactivate" THEN {FALSE} \cup {s \in {streaming} : ~CommandWorks}
                                         ELSE {streaming}
  /\ UNCHANGED <<client, greeted>>

OradarCloses == Closes /\ client' = FALSE /\ UNCHANGED <<streaming, greeted>>

OradarOperations ==
  \/ OradarMaterialize
  \/ OradarConfigureBegins \/ OradarConfigureOpens \/ OradarConfigureReverts
  \/ OradarConfigureTells \/ OradarConfigureEnds
  \/ OradarActivate \/ OradarStarts \/ OradarDeactivate \/ OradarCleanup
  \/ OradarDematerialize \/ StopReader \/ OradarJoins \/ OradarCloses
------------------------------------------------------------------------------
OradarLoops == client /\ lock = "none" /\ Loops /\ UNCHANGED oradarVars

\* The client is not open: connect, settings and enable commands again.
OradarReopens ==
  /\ thread = "reopen"
  /\ Connects
  /\ streaming' = TRUE
  /\ Proceeds("read")
  /\ UNCHANGED <<connected, silent, eventVars, client, greeted>>

OradarReopenFails ==
  /\ thread = "reopen"
  /\ ConnectFails
  /\ thread' = "mourn"
  /\ UNCHANGED <<workerVars, kept, running, eventVars, oradarVars>>

\* get_scan_frame_data: a frame, or none within timeout_ms.
FrameComes == link = "open" /\ device = "present" /\ streaming

OradarReads ==
  /\ thread = "read" /\ FrameComes
  /\ Proceeds("frame")
  /\ UNCHANGED <<linkVars, eventVars, oradarVars>>

OradarReadFails ==
  /\ thread = "read" /\ ~FrameComes
  /\ link' = "closed"
  /\ Proceeds("mourn")
  /\ UNCHANGED <<connected, silent, eventVars, oradarVars>>

\* Online is reported with the first frame of an activation, and the frame is
\* published.
OradarPublishes ==
  /\ thread = "frame" /\ lock = "none"
  /\ greeted' = TRUE
  /\ Proceeds(IF greeted THEN "loop" ELSE "welcome")
  /\ UNCHANGED <<linkVars, eventVars, client, streaming>>

OradarGreets == thread = "welcome" /\ Tell("online") /\ Proceeds("loop") /\ UNCHANGED linkVars

OradarReadLoop ==
  \/ OradarLoops \/ OradarReopens \/ OradarReopenFails
  \/ OradarReads \/ OradarReadFails \/ OradarPublishes
  \/ (OradarGreets \/ Mourns) /\ UNCHANGED oradarVars
==============================================================================
