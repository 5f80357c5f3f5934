------------------------------- MODULE Drivers -------------------------------
(***************************************************************************)
(* Any one of the in-process drivers, its worker, its thread and its       *)
(* device: kind says which.                                                *)
(***************************************************************************)
EXTENDS Ch020Imu, PagerLora, SmitLidar, OradarLidar, TwsBattery, GmslCamera

vars == <<dvars, pagerVars, smitVars, oradarVars, twsVars, cameraVars>>

Init ==
  /\ DriverInit
  /\ PagerInit /\ SmitInit /\ OradarInit /\ TwsInit /\ CameraInit

IsCh020 == kind = "ch020" /\ UNCHANGED <<pagerVars, smitVars, oradarVars, twsVars, cameraVars>>
IsPager == kind = "pager" /\ UNCHANGED <<smitVars, oradarVars, twsVars, cameraVars>>
IsSmit == kind = "smit" /\ UNCHANGED <<pagerVars, oradarVars, twsVars, cameraVars>>
IsOradar == kind = "oradar" /\ UNCHANGED <<pagerVars, smitVars, twsVars, cameraVars>>
IsTws == kind = "tws" /\ UNCHANGED <<pagerVars, smitVars, oradarVars, cameraVars>>
IsCamera == kind = "camera" /\ UNCHANGED <<pagerVars, smitVars, oradarVars, twsVars>>

\* The one worker of the driver's DeviceQueue.
WorkerStep ==
  \/ IsCh020 /\ (WorkerChooses \/ Ch020Operations)
  \/ IsPager /\ (PagerWorkerChooses \/ PagerOperations)
  \/ IsSmit /\ (SmitWorkerChooses \/ SmitOperations)
  \/ IsOradar /\ (OradarWorkerChooses \/ OradarOperations)
  \/ IsTws /\ (TwsWorkerChooses \/ TwsOperations)
  \/ IsCamera /\ (CameraWorkerChooses \/ CameraOperations)

\* The driver's own thread.
ThreadStep ==
  \/ IsCh020 /\ Ch020ReadLoop
  \/ IsPager /\ PagerReadLoop
  \/ IsSmit /\ SmitReadLoop
  \/ IsOradar /\ OradarReadLoop
  \/ IsTws /\ TwsPollLoop
  \/ IsCamera /\ CaptureLoop

WriteEnds == IsPager /\ (SendEnds \/ SendFails)

World ==
  \/ IsCh020 /\ (Unplugs \/ Surroundings)
  \/ IsPager /\ (Unplugs \/ Surroundings) /\ UNCHANGED pagerVars
  \/ IsPager /\ SendBegins
  \/ IsSmit /\ (Unplugs \/ Surroundings) /\ UNCHANGED smitVars
  \/ IsSmit /\ MirrorTurns
  \/ IsOradar /\ Surroundings /\ UNCHANGED oradarVars
  \/ IsOradar /\ OradarUnplugs
  \/ IsTws /\ Surroundings /\ UNCHANGED twsVars
  \/ IsTws /\ TwsUnplugs
  \/ IsCamera /\ (Unplugs \/ Surroundings) /\ UNCHANGED cameraVars

Next == WorkerStep \/ ThreadStep \/ WriteEnds \/ World

TimePasses == GoesSilent /\ UNCHANGED <<pagerVars, smitVars, oradarVars, twsVars, cameraVars>>

\* Threads are scheduled, and a mutex somebody waits for is got in the end.
Spec ==
  /\ Init /\ [][Next]_vars
  /\ SF_vars(WorkerStep) /\ SF_vars(ThreadStep)
  /\ WF_vars(WriteEnds) /\ WF_vars(TimePasses)
------------------------------------------------------------------------------
\* What a driver has reported last agrees with what it knows when it goes back
\* to the head of its loop: a connection it has lost has been reported, once
\* the link is down, by the driver that closed it.  A write that fails closes
\* the port of the PG100 without a report.
LossReported ==
  thread \in {"loop", "reopen"} =>
    CASE kind \in {"ch020", "smit"} -> ~connected => told = "lost"
      [] kind = "pager" -> ~connected => told = "lost" \/ cutBySend
      [] kind = "oradar" -> link = "closed" => told = "lost"
      [] kind = "tws" -> everOk /\ ~shown => told = "failed"
      [] kind = "camera" -> lastConnected = "no" => told = "failed"

\* When no operation is in progress a driver that is not ACTIVE has no thread,
\* one that is not even INACTIVE has no device open, and the camera's sensor is
\* not left in the mode in which its OTP memory is read.  A configure of the
\* Oradar lidar that fails leaves its socket as it is.
StoppedIsQuiet ==
  op = "none" =>
    /\ state # "active" => thread = "none" /\ ~running
    /\ state = "finalized" \/ (state = "unconfigured" /\ kind # "oradar") => link = "closed"
    /\ sensor # "otp"

\* A scan that is handed on holds points of one turn, across lost packets,
\* damaged ones and a reconnect, in an activation of the driver.
ScanIsOneTurn == ~({"this", "earlier"} \subseteq published)

\* The battery is declared lost by a poll only when it has not answered for
\* FailuresToOffline polls in a row, or not once since it was configured.
OfflineNeedsFailures ==
  [][thread' = "mourn" /\ kind = "tws" => ~everOk \/ missed' >= FailuresToOffline]_vars

\* Every operation returns: no join waits for a thread that waits for it.
CallsReturn == op # "none" ~> op = "none"

\* A device that is there for good is used again.  Out of this: a port that
\* has been hung up and whose reads answer nothing for ever, which only the
\* stall detection of two drivers notices; and an operator.
LinkRecovers ==
  /\ <>[](device = "present")
  /\ [](kind \in {"oradar", "tws", "camera"} => ~asked)
  /\ kind = "pager" => <>[](link # "dead")
  => <>[](state = "active") /\ <>[](link = "open")
==============================================================================
