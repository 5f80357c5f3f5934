------------------------------ MODULE SmitLidar ------------------------------
(***************************************************************************)
(* SmitLidarRuntime and SmitLidarDriver: the read loop of DriverRuntime,   *)
(* and on its thread SmitScanAssembler, which cuts the stream of points    *)
(* into scans of one turn each.  The circle has Sectors sectors; a point   *)
(* is the sector it was measured in.                                       *)
(***************************************************************************)
EXTENDS DriverRuntime

CONSTANTS
  Sectors,   \* sectors of the circle, 0..Sectors-1
  Windows    \* the windows that may be configured: <<first, last>>

ASSUME SmitAssumption ==
  /\ Sectors \in Nat /\ Sectors > 3
  /\ Windows \subseteq (0..Sectors - 1) \X (0..Sectors)

VARIABLES
  sector,        \* where the device's mirror is
  window,        \* the configured scan window
  hasConfig,     \* has_config_: a configuration frame has come
  collecting,    \* collecting_
  previous,      \* previous_raw_angle_deg_; Sectors while have_previous_ is false
  points,        \* what points_ holds: points of "this" turn, of an "earlier"
                 \* one, and points from "before" the driver was started
  published      \* the scan the last packet has completed, if it has

scanVars == <<hasConfig, collecting, previous, points, published>>
smitVars == <<sector, window, scanVars>>

SmitInit ==
  /\ sector = 0 /\ window \in Windows
  /\ hasConfig = FALSE /\ collecting = FALSE /\ previous = Sectors
  /\ points = {} /\ published = {}

\* is_full_circle_window
FullCircle == window[2] - window[1] >= Sectors - 1

\* is_raw_angle_in_window; the window may contain the angle zero.
InWindow(s) ==
  LET first == window[1]
      last == window[2] % Sectors
  IN IF first <= last THEN s \in first..last ELSE s >= first \/ s <= last

\* did_raw_angle_cross_boundary
Crossed(from, to, boundary) ==
  IF from <= to THEN from < boundary /\ to >= boundary
                ELSE from < boundary \/ to >= boundary

HavePrevious == previous # Sectors

\* reset()
ScanReset ==
  /\ points' = {} /\ collecting' = FALSE /\ previous' = Sectors
  /\ published' = {}
  /\ UNCHANGED hasConfig

\* handle_scan, publish_scan
EmitScan(scan) == published' = scan

\* add_packet for the full circle: a scan ends where the next begins.
AddToCircle(s, before) ==
  LET begins == HavePrevious /\ Crossed(previous, s, window[1])
      collects == begins \/ collecting
  IN /\ IF begins /\ collecting THEN EmitScan(before) ELSE EmitScan({})
     /\ collecting' = collects
     /\ points' = (IF begins THEN {} ELSE before) \cup (IF collects THEN {"this"} ELSE {})

\* add_packet for a window: from the first point inside to the first outside.
AddToWindow(s, before) ==
  LET begins == ~collecting /\ HavePrevious /\ ~InWindow(previous) /\ InWindow(s)
      ends == collecting /\ ~InWindow(s)
  IN /\ IF ends THEN EmitScan(before) ELSE EmitScan({})
     /\ collecting' = ((collecting \/ begins) /\ ~ends)
     /\ points' = CASE begins -> {"this"}
                    [] ends -> {}
                    [] OTHER -> IF collecting THEN before \cup {"this"} ELSE before

\* The points collected so far as they are seen from a later sector: of an
\* earlier turn once the mirror has passed the window's start.
Aged(to) ==
  IF Crossed(sector, to, window[1])
  THEN {IF p = "this" THEN "earlier" ELSE p : p \in points}
  ELSE points

\* handle_point_packet, add_packet: points are dropped before the first
\* configuration, and with one of a damaged packet everything collected.
AddPoint(s) ==
  IF ~hasConfig THEN UNCHANGED scanVars
  ELSE /\ previous' = s
       /\ IF FullCircle THEN AddToCircle(s, Aged(s))
                        ELSE AddToWindow(s, Aged(s))
       /\ UNCHANGED hasConfig
------------------------------------------------------------------------------
\* A new driver, and with it a new assembler.
SmitMaterialize ==
  /\ Materialize
  /\ hasConfig' = FALSE /\ collecting' = FALSE /\ previous' = Sectors
  /\ points' = {} /\ published' = {} /\ UNCHANGED <<sector, window>>

SmitConfigureBegins == ConfigureBegins /\ UNCHANGED smitVars

\* The driver's configure() sets the window of the assembler, which resets it,
\* before it opens the port.
SmitConfigureOpens ==
  /\ ConfigureOpens
  /\ window' \in Windows
  /\ ScanReset
  /\ UNCHANGED sector

SmitConfigureTells == ConfigureTells /\ UNCHANGED smitVars
SmitActivate == Activate /\ UNCHANGED smitVars

\* start() leaves the assembler as the thread before has left it.
SmitStarts ==
  /\ Starts
  /\ points' = {"before" : p \in points}
  /\ UNCHANGED <<sector, window, hasConfig, collecting, previous, published>>

SmitDeactivate == Deactivate /\ UNCHANGED smitVars
SmitCleanup == Cleanup /\ UNCHANGED smitVars
SmitDematerialize == Dematerialize /\ UNCHANGED smitVars
SmitStops == Stops /\ UNCHANGED smitVars
SmitJoins == Joins /\ UNCHANGED smitVars
SmitCloses == Closes /\ UNCHANGED smitVars

SmitOperations ==
  \/ SmitMaterialize \/ SmitConfigureBegins \/ SmitConfigureOpens \/ SmitConfigureTells
  \/ SmitActivate \/ SmitStarts \/ SmitDeactivate
  \/ SmitCleanup \/ SmitDematerialize \/ SmitStops \/ SmitJoins \/ SmitCloses

\* The hook is that of DriverRuntime.
SmitWorkerChooses == WorkerChooses /\ UNCHANGED smitVars
------------------------------------------------------------------------------
\* While nobody reads, the mirror turns on, and what it measures is lost.
MirrorTurns ==
  /\ thread \in {"none", "reopen"} \/ link # "open"
  /\ sector' = (sector + 1) % Sectors
  /\ points' = Aged(sector')
  /\ UNCHANGED <<dvars, window, hasConfig, collecting, previous, published>>

\* Mutant: the assembler keeps its points when the port is opened again.
SmitReopensAsWas == Reopens /\ UNCHANGED smitVars

\* After the port has been opened again a scan starts from nothing; the
\* configuration of the device is still known.
SmitReopens == Reopens /\ ScanReset /\ UNCHANGED <<sector, window>>

\* A configuration frame.
SmitReadsConfig ==
  /\ ReadsFrame
  /\ hasConfig' = TRUE
  /\ UNCHANGED <<sector, window, collecting, previous, points, published>>

\* A good packet with the next point; one point before it may have been lost.
SmitReadsPoint ==
  /\ ReadsFrame
  /\ \E lost \in {0, 1} :
       /\ sector' = (sector + 1 + lost) % Sectors
       /\ AddPoint(sector')
  /\ UNCHANGED window

\* A packet with a wrong checksum: it counts as a sign of life.
SmitReadsDamaged ==
  /\ thread = "read" /\ running /\ "frame" \in Answers
  /\ Spend("damage")
  /\ silent' = FALSE
  /\ thread' = "stall"
  /\ sector' = (sector + 1) % Sectors
  /\ IF hasConfig THEN ScanReset ELSE UNCHANGED scanVars
  /\ UNCHANGED <<workerVars, lock, running, link, connected, eventVars, fixed, device, window>>

SmitLoops == Loops /\ UNCHANGED smitVars
SmitReopenFails == ReopenFails /\ UNCHANGED smitVars
SmitNotifies == Notifies /\ UNCHANGED smitVars
SmitReadsNothing == (ReadEnds \/ ReadsNothing \/ ReadFails) /\ UNCHANGED smitVars
SmitStalls == Stalls /\ UNCHANGED smitVars
SmitFaults == Faults /\ UNCHANGED smitVars

SmitReadLoop ==
  \/ SmitLoops \/ SmitReopens \/ SmitReopenFails \/ SmitNotifies
  \/ SmitReadsConfig \/ SmitReadsPoint \/ SmitReadsDamaged \/ SmitReadsNothing
  \/ SmitStalls \/ SmitFaults
==============================================================================
