------------------------------ MODULE DataPaths ------------------------------
(***************************************************************************)
(* What comes in from the devices on its way to what is published: serial  *)
(* frames, registers over CAN and images.  path says which is looked at.   *)
(***************************************************************************)
EXTENDS FrameStream, ModbusCan, CameraImage

VARIABLE path

pathVars == <<path, svars, mvars, ivars>>

Paths == {"stream", "modbus", "image"}

\* The other paths stand still, in one of their initial states.
PathInit ==
  /\ path \in Paths
  /\ StreamInit /\ ModbusInit /\ ImageInit
  /\ path # "stream" => codec = CHOOSE c \in Codecs : TRUE
  /\ path # "image" =>
       /\ options = CHOOSE o \in Options : TRUE
       /\ size = CHOOSE s \in FrameSizes : TRUE

OnStream == path = "stream" /\ StreamNext /\ UNCHANGED <<path, mvars, ivars>>
ModbusStep == path = "modbus" /\ PollSteps /\ UNCHANGED <<path, svars, ivars>>
BusStep == path = "modbus" /\ Arrives /\ UNCHANGED <<path, svars, ivars>>
OnModbus == path = "modbus" /\ ModbusNext /\ UNCHANGED <<path, svars, ivars>>
OnImage == path = "image" /\ ImageNext /\ UNCHANGED <<path, svars, mvars>>

PathNext == OnStream \/ OnModbus \/ OnImage

\* The battery goes on answering and the driver goes on polling.
PathSpec ==
  /\ PathInit /\ [][PathNext]_pathVars
  /\ WF_pathVars(ModbusStep) /\ WF_pathVars(BusStep)
------------------------------------------------------------------------------
\* When the battery answers in time again, every poll succeeds in the end:
\* late answers do not shift those that follow for ever.
PollsRecover == path = "modbus" => <>[](polled = "ok")
==============================================================================
