------------------------------ MODULE GmslCamera -----------------------------
(***************************************************************************)
(* GmslV4l2CameraRuntime: a thread captures frames from a V4L2 device.     *)
(* configure() opens the device and then reads the calibration from the    *)
(* sensor's OTP memory over I2C, for which it takes the sensor out of      *)
(* normal operation and resets it afterwards.  last_connected_ suppresses  *)
(* a report of what has been reported already.                             *)
(***************************************************************************)
EXTENDS DriverRuntime

CONSTANT OtpWindows   \* chunks in which the OTP memory is read

ASSUME CameraAssumption == OtpWindows \in Nat \ {0}

VARIABLES
  lastConnected,   \* last_connected_, "unknown" when it holds nothing
  sensor,          \* "normal"; "otp" while OTP access is set up; "stuck" when
                   \* the I2C bus has failed between the two
  left,            \* chunks of the OTP memory left to read
  otpStatus        \* config_.otp_status

cameraVars == <<lastConnected, sensor, left, otpStatus>>

CameraInit ==
  /\ lastConnected = "unknown" /\ sensor = "normal" /\ left = 0
  /\ otpStatus = "skipped"

here == <<lock, thread, running, connected, silent, fixed>>

\* emit_connection_event(): mutex_ is taken twice.
EmitConnection(isConnected, event) ==
  /\ lock = "none"
  /\ IF lastConnected = isConnected
     THEN UNCHANGED <<lastConnected, eventVars>>
     ELSE lastConnected' = isConnected /\ Tell(event)
------------------------------------------------------------------------------
CameraMaterialize == Materialize /\ UNCHANGED cameraVars

\* config_from() is done before anything changes.
CameraConfigureBegins ==
  /\ op = "configure" /\ at = "enter" /\ lock = "none"
  /\ \/ IllTyped
     \/ state' = "configuring" /\ Goes("open") /\ UNCHANGED <<used, lock>>
  /\ UNCHANGED <<thread, running, linkVars, eventVars, fixed, device, cameraVars>>

\* V4l2CaptureBackend::configure(): each of its steps may fail, and closes the
\* device again.  mutex_ is not held.
CaptureConfigures ==
  \/ /\ device # "absent" /\ link' = "open"
     /\ UNCHANGED used
     /\ Goes("opened")
  \/ /\ IF device = "absent" THEN UNCHANGED used ELSE Spend("refuse")
     /\ link' = "closed"
     /\ Goes("revert")

CameraConfigureOpens ==
  /\ op = "configure" /\ at = "open"
  /\ CaptureConfigures
  /\ UNCHANGED <<here, state, device, eventVars, cameraVars>>

\* The device is INACTIVE before its calibration is known.
CameraConfigureEnds ==
  /\ op = "configure" /\ at \in {"opened", "revert"} /\ lock = "none"
  /\ state' = IF at = "opened" THEN "inactive" ELSE "unconfigured"
  /\ lastConnected' = IF at = "opened" THEN lastConnected ELSE "unknown"
  /\ Goes(IF at = "opened" THEN "otp" ELSE "tell")
  /\ UNCHANGED <<here, link, eventVars, device, used, sensor, left, otpStatus>>

CameraConfigureTells ==
  /\ op = "configure" /\ at = "tell"
  /\ EmitConnection("no", "failed")
  /\ Return("error")
  /\ UNCHANGED <<state, here, link, device, used, sensor, left, otpStatus>>

otpSteps == <<here, state, link, eventVars, device, lastConnected>>

\* apply_otp_calibration(): whatever becomes of it, configure() succeeds.
OtpEnds(result) == otpStatus' = result /\ Return("success")

\* read_otp_on_start is off, or no bus is configured.
OtpSkipped ==
  /\ op = "configure" /\ at = "otp"
  /\ OtpEnds("skipped")
  /\ UNCHANGED <<otpSteps, used, sensor, left>>

\* initialize_ox01f10_otp_access() writes register after register.
OtpInitializes ==
  /\ op = "configure" /\ at = "otp"
  /\ sensor' = "otp" /\ left' = OtpWindows
  /\ Goes("window")
  /\ UNCHANGED <<otpSteps, used, otpStatus>>

\* The bus fails before the first of them, or between two: then nothing resets
\* the sensor.
OtpInitializeFails ==
  /\ op = "configure" /\ at = "otp" /\ Spend("refuse")
  /\ sensor' \in {sensor, "stuck"}
  /\ OtpEnds("failed")
  /\ UNCHANGED <<otpSteps, left>>

\* read_ox01f10_otp_window()
OtpReadsWindow ==
  /\ op = "configure" /\ at = "window" /\ left > 0
  /\ left' = left - 1
  /\ UNCHANGED <<workerVars, here, link, eventVars, device, lastConnected, used, sensor, otpStatus>>

\* A chunk cannot be read: fail() resets the sensor as well.
OtpWindowFails ==
  /\ op = "configure" /\ at = "window" /\ left > 0 /\ Spend("refuse")
  /\ left' = 0
  /\ Goes("reset after failure")
  /\ UNCHANGED <<otpSteps, sensor, otpStatus>>

\* soft_reset_ox01f10_sensor(), and what of the block its checksums accept.
OtpResets ==
  /\ op = "configure"
  /\ at = "window" => left = 0
  /\ at \in {"window", "reset after failure"}
  /\ \/ sensor' = "normal" /\ UNCHANGED used
     \/ sensor' = "stuck" /\ Spend("refuse")
  /\ IF at = "window" /\ sensor' = "normal"
     THEN \E decoded \in {"success", "failed"} : OtpEnds(decoded)
     ELSE OtpEnds("failed")
  /\ UNCHANGED <<otpSteps, left>>

ApplyOtpCalibration ==
  \/ OtpSkipped \/ OtpInitializes \/ OtpInitializeFails
  \/ OtpReadsWindow \/ OtpWindowFails \/ OtpResets

CameraActivate == Activate /\ UNCHANGED cameraVars
CameraStarts == Starts /\ UNCHANGED cameraVars
CameraDeactivate == Deactivate /\ UNCHANGED cameraVars

\* cleanup() and dematerialize() stop the thread before they look at the
\* state; deactivate() does it afterwards.
CameraCleanup == Enter("cleanup", state, "stop") /\ UNCHANGED cameraVars
CameraDematerialize == Enter("dematerialize", state, "stop") /\ UNCHANGED cameraVars
\* stop_capture_thread()
CameraStops == (Stops \/ Joins) /\ UNCHANGED cameraVars

\* Mutant: what has been reported is not forgotten.
CameraMovesOnAsWas ==
  /\ at = "close" /\ lock = "none"
  /\ state' = IF op = "cleanup" THEN "cleaning_up" ELSE "shutting_down"
  /\ Goes("closing")
  /\ UNCHANGED <<here, link, eventVars, device, used, cameraVars>>

CameraMovesOn ==
  /\ at = "close" /\ lock = "none"
  /\ state' = IF op = "cleanup" THEN "cleaning_up" ELSE "shutting_down"
  /\ lastConnected' = "unknown"
  /\ Goes("closing")
  /\ UNCHANGED <<here, link, eventVars, device, used, sensor, left, otpStatus>>

CameraCloses ==
  /\ at = "closing" /\ lock = "none"
  /\ link' = "closed"
  /\ state' = IF op = "cleanup" THEN "unconfigured" ELSE "finalized"
  /\ Return("success")
  /\ UNCHANGED <<here, eventVars, device, used, cameraVars>>

CameraOperations ==
  \/ CameraMaterialize \/ CameraConfigureBegins \/ CameraConfigureOpens
  \/ CameraConfigureEnds \/ CameraConfigureTells \/ ApplyOtpCalibration
  \/ CameraActivate \/ CameraStarts \/ CameraDeactivate \/ CameraStops
  \/ CameraCleanup \/ CameraDematerialize \/ CameraMovesOn \/ CameraCloses

\* The hook is that of DriverRuntime.
CameraWorkerChooses == WorkerChooses /\ UNCHANGED cameraVars
------------------------------------------------------------------------------
CameraLoops ==
  /\ thread = "loop"
  /\ running => lock = "none"
  /\ Proceeds(IF running THEN "read" ELSE "ended")
  /\ UNCHANGED <<linkVars, eventVars, cameraVars>>

FrameReady == link = "open" /\ device = "present"

\* read_frame(): a frame, or an error, a timeout being one; running_ is looked
\* at again.
CameraReads ==
  /\ thread = "read"
  /\ \/ ~running /\ Proceeds("ended")
     \/ running /\ FrameReady /\ Proceeds("frame")
     \/ running /\ ~FrameReady /\ Proceeds("fault")
  /\ UNCHANGED <<linkVars, eventVars, cameraVars>>

\* Each frame is a sign of life; it is published when the rate allows it.
CameraFrames ==
  /\ thread = "frame"
  /\ EmitConnection("yes", "online")
  /\ \E place \in {"loop", "publish"} : Proceeds(place)
  /\ UNCHANGED <<linkVars, sensor, left, otpStatus>>

CameraPublishes ==
  /\ thread = "publish" /\ lock = "none"
  /\ Proceeds("loop")
  /\ UNCHANGED <<linkVars, eventVars, cameraVars>>

\* publish_frame(): a frame whose size does not fit its format.
CameraCannotConvert ==
  /\ thread = "publish" /\ Spend("damage")
  /\ EmitConnection("no", "failed")
  /\ thread' = "loop"
  /\ UNCHANGED <<workerVars, lock, running, fixed, device, linkVars, sensor, left, otpStatus>>

\* gmsl_v4l2.capture_failed
CameraFails ==
  /\ thread = "fault"
  /\ EmitConnection("no", "failed")
  /\ Proceeds("loop")
  /\ UNCHANGED <<linkVars, sensor, left, otpStatus>>

CaptureLoop ==
  \/ CameraLoops \/ CameraReads \/ CameraFrames
  \/ CameraPublishes \/ CameraCannotConvert \/ CameraFails
==============================================================================
