------------------------------ MODULE Ch020Imu -------------------------------
\* Ch020ImuRuntime and Ch020ImuDriver: the shapes of DriverRuntime as they are.
EXTENDS DriverRuntime

Ch020Operations ==
  \/ Materialize \/ Configure
  \/ Activate \/ Starts
  \/ Deactivate \/ Cleanup \/ Dematerialize \/ Stopping

Ch020ReadLoop ==
  \/ Loops \/ Reopens \/ ReopenFails \/ Notifies
  \/ ReadEnds \/ ReadsFrame \/ ReadsNothing \/ ReadFails
  \/ Stalls \/ Faults
==============================================================================
