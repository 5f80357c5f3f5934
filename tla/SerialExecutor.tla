--------------------------- MODULE SerialExecutor ----------------------------
(***************************************************************************)
(* What a device's queue promises its callers: one ordered backlog, urgent *)
(* entries before normal ones and first-come-first-served in each class;   *)
(* one entry at a time, whose runtime calls never overlap; closing drops   *)
(* the backlog, lets the entry in hand end and makes at most one last call.*)
(***************************************************************************)
EXTENDS Integers, Sequences, SequencesExt

VARIABLES open,     \* submissions are accepted
          backlog,  \* accepted entries in the order they will run
          phase,    \* what the executor is doing
          last      \* it is making its last call

vars == <<open, backlog, phase, last>>

Init ==
  /\ open = FALSE
  /\ backlog = << >>
  /\ phase = "closed"
  /\ last = FALSE

Open ==
  /\ ~open /\ phase = "closed"
  /\ open' = TRUE
  /\ phase' = "waiting"
  /\ last' = FALSE
  /\ UNCHANGED backlog

\* One entry joins the backlog behind every entry of its class and, when it is
\* urgent, before every normal one.
Submit ==
  /\ open
  /\ Len(backlog') = Len(backlog) + 1
  /\ \E place \in DOMAIN backlog' :
       /\ RemoveAt(backlog', place) = backlog
       /\ \A i \in DOMAIN backlog' :
            /\ i > place => backlog'[place].urgent /\ ~backlog'[i].urgent
            /\ i < place => backlog'[i].urgent \/ ~backlog'[place].urgent
  /\ UNCHANGED <<open, phase, last>>

Close ==
  /\ open
  /\ open' = FALSE
  /\ backlog' = << >>
  /\ UNCHANGED <<phase, last>>

Take ==
  /\ open
  /\ phase = "waiting" /\ phase' = "working"
  /\ backlog # << >>
  /\ backlog' = Tail(backlog)
  /\ UNCHANGED <<open, last>>

Call ==
  /\ phase = "working" /\ phase' = "calling"
  /\ UNCHANGED <<open, backlog, last>>

Return ==
  /\ phase = "calling"
  /\ phase' = IF last THEN "ended" ELSE "working"
  /\ UNCHANGED <<open, backlog, last>>

\* The entry in hand is finished or given up.
Rest ==
  /\ phase \in {"working", "ended"}
  /\ phase' = IF last THEN "done" ELSE "waiting"
  /\ UNCHANGED <<open, backlog, last>>

\* Closed and at rest: one last entry, or nothing left to do.
WindUp ==
  /\ ~open
  /\ phase = "waiting"
  /\ \/ phase' = "working" /\ last' = TRUE
     \/ phase' = "done" /\ last' = last
  /\ UNCHANGED <<open, backlog>>

Gone ==
  /\ ~open
  /\ phase = "done" /\ phase' = "closed"
  /\ UNCHANGED <<open, backlog, last>>

Next == Open \/ Submit \/ Close \/ Take \/ Call \/ Return \/ Rest \/ WindUp \/ Gone

Spec == Init /\ [][Next]_vars
==============================================================================
