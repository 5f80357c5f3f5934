-------------------------- MODULE HookedDevice_proofs --------------------------
(***************************************************************************)
(* The queue of a device implements the serial executor: its two queues    *)
(* are one backlog, and every step of the queue is a step of the executor  *)
(* or changes nothing the executor knows of.  Then the same queue under a  *)
(* lifecycle hook and a runtime adapter, whatever the two do: what         *)
(* DeviceQueue promises stays true of every device built on HookedDevice.  *)
(***************************************************************************)
EXTENDS HookedDevice, DeviceQueue_proofs

EntryType == [batch : BatchType, urgent : BOOLEAN]

\* Backlog as a function of the two queues.
BacklogOf(first, second) ==
  [i \in DOMAIN first |-> Entry(first[i], TRUE)]
    \o [i \in DOMAIN second |-> Entry(second[i], FALSE)]

LEMMA EntriesAreSeq ==
  ASSUME NEW seq \in Seq(BatchType), NEW class \in BOOLEAN
  PROVE  LET entries == [i \in DOMAIN seq |-> Entry(seq[i], class)]
         IN  /\ entries \in Seq(EntryType) /\ Len(entries) = Len(seq)
             /\ \A i \in 1..Len(seq) : entries[i] = Entry(seq[i], class)
  <1>. DEFINE entry(i) == Entry(seq[i], class)
  <1>1. Len(seq) \in Nat /\ DOMAIN seq = 1..Len(seq)
    OBVIOUS
  <1>2. \A i \in 1..Len(seq) : entry(i) \in EntryType
    BY DEF Entry, EntryType
  <1>. HIDE DEF entry
  <1>3. /\ [i \in 1..Len(seq) |-> entry(i)] \in Seq(EntryType)
        /\ Len([i \in 1..Len(seq) |-> entry(i)]) = Len(seq)
    BY <1>1, <1>2
  <1>. QED  BY <1>1, <1>3 DEF entry

LEMMA BacklogShape ==
  ASSUME NEW first \in Seq(BatchType), NEW second \in Seq(BatchType)
  PROVE  /\ BacklogOf(first, second) \in Seq(EntryType)
         /\ Len(BacklogOf(first, second)) = Len(first) + Len(second)
         /\ \A i \in 1..(Len(first) + Len(second)) :
              BacklogOf(first, second)[i] =
                IF i <= Len(first) THEN Entry(first[i], TRUE)
                ELSE Entry(second[i - Len(first)], FALSE)
  <1>. DEFINE a == [i \in DOMAIN first |-> Entry(first[i], TRUE)]
              b == [i \in DOMAIN second |-> Entry(second[i], FALSE)]
  <1>1. \A batch \in BatchType, class \in BOOLEAN : Entry(batch, class) \in EntryType
    BY DEF Entry, EntryType
  <1>2. /\ a \in Seq(EntryType) /\ Len(a) = Len(first)
        /\ \A i \in 1..Len(first) : a[i] = Entry(first[i], TRUE)
    BY <1>1, EntriesAreSeq
  <1>3. /\ b \in Seq(EntryType) /\ Len(b) = Len(second)
        /\ \A i \in 1..Len(second) : b[i] = Entry(second[i], FALSE)
    BY <1>1, EntriesAreSeq
  <1>. HIDE DEF a, b
  <1>4. a \o b \in Seq(EntryType) /\ Len(a \o b) = Len(a) + Len(b)
    BY <1>2, <1>3
  <1>5. \A i \in 1..(Len(a) + Len(b)) : (a \o b)[i] = IF i <= Len(a) THEN a[i] ELSE b[i - Len(a)]
    BY <1>2, <1>3
  <1>6. BacklogOf(first, second) = a \o b
    BY DEF BacklogOf, a, b
  <1>7. ASSUME NEW i \in 1..(Len(first) + Len(second))
        PROVE  (a \o b)[i] = IF i <= Len(first) THEN Entry(first[i], TRUE)
                             ELSE Entry(second[i - Len(first)], FALSE)
    <2>1. Len(first) \in Nat /\ Len(second) \in Nat
      OBVIOUS
    <2>2. CASE i <= Len(first)
      <3>1. i \in 1..Len(first)
        BY <2>1, <2>2
      <3>. QED  BY <1>2, <1>3, <1>5, <2>2, <3>1
    <2>3. CASE ~(i <= Len(first))
      <3>1. i - Len(first) \in 1..Len(second)
        BY <2>1, <2>3
      <3>. QED  BY <1>2, <1>3, <1>5, <2>3, <3>1
    <2>. QED  BY <2>2, <2>3
  <1>. QED  BY <1>2, <1>3, <1>4, <1>6, <1>7

\* Two sequences with the same elements in the same places are the same.
LEMMA SameElements ==
  ASSUME NEW S, NEW s \in Seq(S), NEW t \in Seq(S), Len(s) = Len(t),
         \A i \in 1..Len(s) : s[i] = t[i]
  PROVE  s = t
  OBVIOUS

\* Taking out the one element a longer sequence has more.
LEMMA RemoveInserted ==
  ASSUME NEW S, NEW s \in Seq(S), NEW t \in Seq(S), Len(t) = Len(s) + 1,
         NEW place \in 1..Len(t),
         \A i \in 1..Len(s) : IF i < place THEN t[i] = s[i] ELSE t[i + 1] = s[i]
  PROVE  Executor!RemoveAt(t, place) = s
  <1>. DEFINE front == SubSeq(t, 1, place - 1)
              back == SubSeq(t, place + 1, Len(t))
  <1>1. Len(s) \in Nat /\ place \in Nat
    OBVIOUS
  <1>2. /\ front \in Seq(S) /\ Len(front) = place - 1
        /\ \A i \in 1..(place - 1) : front[i] = t[i]
    BY <1>1
  <1>3. /\ back \in Seq(S) /\ Len(back) = Len(t) - place
        /\ \A i \in 1..(Len(t) - place) : back[i] = t[place + i]
    BY <1>1
  <1>. HIDE DEF front, back
  <1>4. /\ front \o back \in Seq(S) /\ Len(front \o back) = Len(s)
        /\ \A i \in 1..Len(s) : (front \o back)[i] =
                                  IF i < place THEN front[i] ELSE back[i - (place - 1)]
    BY <1>1, <1>2, <1>3
  <1>5. ASSUME NEW i \in 1..Len(s)
        PROVE  (front \o back)[i] = s[i]
    <2>1. CASE i < place
      BY <1>1, <1>2, <1>4, <2>1
    <2>2. CASE ~(i < place)
      <3>1. i - (place - 1) \in 1..(Len(t) - place) /\ place + (i - (place - 1)) = i + 1
        BY <1>1, <2>2
      <3>. QED  BY <1>1, <1>3, <1>4, <2>2, <3>1
    <2>. QED  BY <2>1, <2>2
  <1>6. front \o back = s
    BY <1>4, <1>5, SameElements
  <1>. QED  BY <1>6 DEF Executor!RemoveAt, front, back
------------------------------------------------------------------------------
LEMMA TailElements ==
  ASSUME NEW S, NEW s \in Seq(S), s # << >>
  PROVE  /\ Len(s) \in Nat \ {0}
         /\ Tail(s) \in Seq(S) /\ Len(Tail(s)) = Len(s) - 1
         /\ \A i \in 1..(Len(s) - 1) : Tail(s)[i] = s[i + 1]
  OBVIOUS

LEMMA AppendElements ==
  ASSUME NEW S, NEW s \in Seq(S), NEW x \in S
  PROVE  /\ Append(s, x) \in Seq(S) /\ Len(Append(s, x)) = Len(s) + 1
         /\ \A i \in 1..Len(s) : Append(s, x)[i] = s[i]
  OBVIOUS

\* What happens to the backlog: a pop takes its head, ...
LEMMA TailOfBacklog ==
  ASSUME NEW u \in Seq(BatchType), NEW n \in Seq(BatchType),
         NEW v \in Seq(BatchType), NEW m \in Seq(BatchType),
         \/ u # << >> /\ v = Tail(u) /\ m = n
         \/ u = << >> /\ n # << >> /\ v = u /\ m = Tail(n)
  PROVE  BacklogOf(u, n) # << >> /\ BacklogOf(v, m) = Tail(BacklogOf(u, n))
  <1>. DEFINE s == BacklogOf(u, n)
              t == BacklogOf(v, m)
  <1>1. Len(u) \in Nat /\ Len(n) \in Nat /\ Len(v) \in Nat /\ Len(m) \in Nat
    OBVIOUS
  <1>2. /\ s \in Seq(EntryType) /\ Len(s) = Len(u) + Len(n)
        /\ \A i \in 1..(Len(u) + Len(n)) :
             s[i] = IF i <= Len(u) THEN Entry(u[i], TRUE) ELSE Entry(n[i - Len(u)], FALSE)
    BY BacklogShape
  <1>3. /\ t \in Seq(EntryType) /\ Len(t) = Len(v) + Len(m)
        /\ \A i \in 1..(Len(v) + Len(m)) :
             t[i] = IF i <= Len(v) THEN Entry(v[i], TRUE) ELSE Entry(m[i - Len(v)], FALSE)
    BY BacklogShape
  <1>. HIDE DEF s, t
  <1>4. ASSUME Len(t) = Len(s) - 1, Len(s) # 0,
               \A i \in 1..Len(t) : t[i] = s[i + 1]
        PROVE  s # << >> /\ t = Tail(s)
    <2>1. s # << >>
      BY <1>4
    <2>2. Tail(s) \in Seq(EntryType) /\ \A i \in 1..Len(t) : t[i] = Tail(s)[i]
      BY <1>2, <1>4, <2>1, TailElements
    <2>. QED  BY <1>2, <1>3, <1>4, <2>1, <2>2, TailElements, SameElements
  <1>5. CASE u # << >> /\ v = Tail(u) /\ m = n
    <2>1. /\ Len(u) # 0 /\ Len(v) = Len(u) - 1
          /\ Len(m) = Len(n)
          /\ \A i \in 1..Len(v) : v[i] = u[i + 1]
      BY <1>5, TailElements
    <2>2. Len(t) = Len(s) - 1 /\ Len(s) # 0
      BY <1>1, <1>2, <1>3, <2>1
    <2>3. ASSUME NEW i \in 1..Len(t)
          PROVE  t[i] = s[i + 1]
      <3>1. i + 1 \in 1..(Len(u) + Len(n)) /\ i \in 1..(Len(v) + Len(m))
        BY <1>1, <1>2, <1>3, <2>2
      <3>2. CASE i <= Len(v)
        <4>1. i \in 1..Len(v) /\ i + 1 <= Len(u)
          BY <1>1, <2>1, <3>1, <3>2
        <4>. QED  BY <1>2, <1>3, <2>1, <3>1, <3>2, <4>1
      <3>3. CASE ~(i <= Len(v))
        <4>1. ~(i + 1 <= Len(u)) /\ (i + 1) - Len(u) = i - Len(v)
          BY <1>1, <2>1, <3>1, <3>3
        <4>2. s[i + 1] = Entry(n[(i + 1) - Len(u)], FALSE)
          BY <1>2, <3>1, <4>1
        <4>3. t[i] = Entry(m[i - Len(v)], FALSE)
          BY <1>3, <3>1, <3>3
        <4>. QED  BY <1>5, <4>1, <4>2, <4>3
      <3>. QED  BY <3>2, <3>3
    <2>. QED  BY <1>4, <2>2, <2>3 DEF s, t
  <1>6. CASE u = << >> /\ n # << >> /\ v = u /\ m = Tail(n)
    <2>1. /\ Len(u) = 0 /\ Len(v) = 0 /\ Len(n) # 0 /\ Len(m) = Len(n) - 1
          /\ \A i \in 1..Len(m) : m[i] = n[i + 1]
      BY <1>6, TailElements
    <2>2. Len(t) = Len(s) - 1 /\ Len(s) # 0 /\ Len(t) = Len(m) /\ Len(s) = Len(n)
      BY <1>1, <1>2, <1>3, <2>1
    <2>3. ASSUME NEW i \in 1..Len(t)
          PROVE  t[i] = s[i + 1]
      <3>1. /\ i + 1 \in 1..(Len(u) + Len(n)) /\ i \in 1..(Len(v) + Len(m))
            /\ ~(i + 1 <= Len(u)) /\ ~(i <= Len(v))
            /\ (i + 1) - Len(u) = i + 1 /\ i - Len(v) = i /\ i \in 1..Len(m)
        BY <1>1, <2>1, <2>2
      <3>2. s[i + 1] = Entry(n[i + 1], FALSE)
        BY <1>2, <3>1
      <3>3. t[i] = Entry(m[i], FALSE)
        BY <1>3, <3>1
      <3>. QED  BY <2>1, <3>1, <3>2, <3>3
    <2>. QED  BY <1>4, <2>2, <2>3 DEF s, t
  <1>. QED  BY <1>5, <1>6

LEMMA BacklogTaken ==
  ASSUME TypeInv, PopFront
  PROVE  Backlog # << >> /\ Backlog' = Tail(Backlog)
  <1>1. /\ urgent \in Seq(BatchType) /\ normal \in Seq(BatchType)
        /\ urgent' \in Seq(BatchType) /\ normal' \in Seq(BatchType)
        /\ \/ urgent # << >> /\ urgent' = Tail(urgent) /\ normal' = normal
           \/ urgent = << >> /\ normal # << >> /\ urgent' = urgent /\ normal' = Tail(normal)
    BY TailElements DEF TypeInv, TypeOK, PopFront
  <1>2. Backlog = BacklogOf(urgent, normal) /\ Backlog' = BacklogOf(urgent', normal')
    BY DEF Backlog, BacklogOf
  <1>. QED  BY <1>1, <1>2, TailOfBacklog

\* ... and a submission puts an entry behind those of its class.
LEMMA EntryInBacklog ==
  ASSUME NEW u \in Seq(BatchType), NEW n \in Seq(BatchType),
         NEW v \in Seq(BatchType), NEW m \in Seq(BatchType), NEW batch \in BatchType,
         NEW place, NEW s, NEW t, s = BacklogOf(u, n), t = BacklogOf(v, m),
         \/ v = Append(u, batch) /\ m = n /\ place = Len(u) + 1
         \/ v = u /\ m = Append(n, batch) /\ place = Len(u) + Len(n) + 1
  PROVE  /\ Len(t) = Len(s) + 1
         /\ place \in DOMAIN t
         /\ Executor!RemoveAt(t, place) = s
         /\ \A i \in DOMAIN t :
              /\ i > place => t[place].urgent /\ ~t[i].urgent
              /\ i < place => t[i].urgent \/ ~t[place].urgent
  <1>1. /\ Len(u) \in Nat /\ Len(n) \in Nat /\ Len(v) \in Nat /\ Len(m) \in Nat
        /\ Len(v) + Len(m) = Len(u) + Len(n) + 1
        /\ place \in 1..(Len(u) + Len(n) + 1)
        /\ \A i \in 1..Len(u) : v[i] = u[i]
        /\ \A i \in 1..Len(n) : m[i] = n[i]
    <2>1. Len(u) \in Nat /\ Len(n) \in Nat
      OBVIOUS
    <2>2. CASE v = Append(u, batch) /\ m = n /\ place = Len(u) + 1
      <3>1. Len(v) = Len(u) + 1 /\ \A i \in 1..Len(u) : v[i] = u[i]
        BY <2>2, AppendElements
      <3>. QED  BY <2>1, <2>2, <3>1
    <2>3. CASE v = u /\ m = Append(n, batch) /\ place = Len(u) + Len(n) + 1
      <3>1. Len(m) = Len(n) + 1 /\ \A i \in 1..Len(n) : m[i] = n[i]
        BY <2>3, AppendElements
      <3>. QED  BY <2>1, <2>3, <3>1
    <2>. QED  BY <2>2, <2>3
  <1>2. /\ s \in Seq(EntryType) /\ Len(s) = Len(u) + Len(n)
        /\ \A i \in 1..(Len(u) + Len(n)) :
             s[i] = IF i <= Len(u) THEN Entry(u[i], TRUE) ELSE Entry(n[i - Len(u)], FALSE)
    BY BacklogShape
  <1>3. /\ t \in Seq(EntryType) /\ Len(t) = Len(v) + Len(m)
        /\ \A i \in 1..(Len(v) + Len(m)) :
             t[i] = IF i <= Len(v) THEN Entry(v[i], TRUE) ELSE Entry(m[i - Len(v)], FALSE)
    BY BacklogShape
  <1>4. \/ Len(v) = Len(u) + 1 /\ place = Len(u) + 1
        \/ Len(v) = Len(u) /\ place = Len(u) + Len(n) + 1
    BY AppendElements
  <1>5. ASSUME NEW i \in 1..Len(s)
        PROVE  IF i < place THEN t[i] = s[i] ELSE t[i + 1] = s[i]
    <2>1. /\ i \in 1..(Len(u) + Len(n)) /\ i \in 1..(Len(v) + Len(m))
          /\ i + 1 \in 1..(Len(v) + Len(m))
      BY <1>1, <1>2
    <2>2. CASE i <= Len(u)
      <3>1. i < place /\ i \in 1..Len(u) /\ i <= Len(v)
        BY <1>1, <1>4, <2>1, <2>2
      <3>. QED  BY <1>1, <1>2, <1>3, <2>1, <2>2, <3>1
    <2>3. CASE ~(i <= Len(u)) /\ place = Len(u) + 1 /\ Len(v) = Len(u) + 1
      <3>1. /\ ~(i < place) /\ i - Len(u) \in 1..Len(n)
            /\ ~(i + 1 <= Len(v)) /\ (i + 1) - Len(v) = i - Len(u)
        BY <1>1, <2>1, <2>3
      <3>2. s[i] = Entry(n[i - Len(u)], FALSE)
        BY <1>2, <2>1, <2>3
      <3>3. t[i + 1] = Entry(m[i - Len(u)], FALSE)
        BY <1>3, <2>1, <3>1
      <3>. QED  BY <1>1, <3>1, <3>2, <3>3
    <2>4. CASE ~(i <= Len(u)) /\ place = Len(u) + Len(n) + 1 /\ Len(v) = Len(u)
      <3>1. /\ i < place /\ i - Len(u) \in 1..Len(n)
            /\ ~(i <= Len(v)) /\ i - Len(v) = i - Len(u)
        BY <1>1, <2>1, <2>4
      <3>2. s[i] = Entry(n[i - Len(u)], FALSE)
        BY <1>2, <2>1, <2>4
      <3>3. t[i] = Entry(m[i - Len(u)], FALSE)
        BY <1>3, <2>1, <3>1
      <3>. QED  BY <1>1, <3>1, <3>2, <3>3
    <2>. QED  BY <1>4, <2>2, <2>3, <2>4
  <1>6. Len(t) = Len(s) + 1 /\ place \in 1..Len(t) /\ DOMAIN t = 1..Len(t)
    BY <1>1, <1>2, <1>3
  <1>7. Executor!RemoveAt(t, place) = s
    BY <1>2, <1>3, <1>5, <1>6, RemoveInserted
  <1>8. ASSUME NEW i \in 1..Len(t)
        PROVE  /\ i <= Len(v) => t[i].urgent = TRUE
               /\ ~(i <= Len(v)) => t[i].urgent = FALSE
    <2>1. \A b : Entry(b, TRUE).urgent = TRUE /\ Entry(b, FALSE).urgent = FALSE
      BY DEF Entry
    <2>2. i \in 1..(Len(v) + Len(m))
      BY <1>3
    <2>3. CASE i <= Len(v)
      BY <1>3, <2>1, <2>2, <2>3
    <2>4. CASE ~(i <= Len(v))
      <3>1. t[i] = Entry(m[i - Len(v)], FALSE)
        BY <1>3, <2>2, <2>4
      <3>. QED  BY <2>1, <2>4, <3>1
    <2>. QED  BY <2>3, <2>4
  <1>9. ASSUME NEW i \in 1..Len(t)
        PROVE  /\ i > place => t[place].urgent /\ ~t[i].urgent
               /\ i < place => t[i].urgent \/ ~t[place].urgent
    <2>1. place <= Len(v) \/ ~(place <= Len(v))
      OBVIOUS
    <2>2. i > place => place <= Len(v) /\ ~(i <= Len(v))
      BY <1>1, <1>3, <1>4, <1>6
    <2>3. i < place => i <= Len(v) \/ ~(place <= Len(v))
      BY <1>1, <1>4, <1>6
    <2>. QED  BY <1>6, <1>8, <2>2, <2>3
  <1>. QED  BY <1>6, <1>7, <1>9

LEMMA BacklogPushed ==
  ASSUME TypeInv, running, UNCHANGED <<running, Phase, finalizing>>,
         NEW batch \in BatchType, NEW priority, PushBack(batch, priority)
  PROVE  Executor!Submit
  <1>. DEFINE place == IF priority = "urgent" THEN Len(urgent) + 1
                       ELSE Len(urgent) + Len(normal) + 1
  <1>1. /\ urgent \in Seq(BatchType) /\ normal \in Seq(BatchType)
        /\ urgent' \in Seq(BatchType) /\ normal' \in Seq(BatchType)
    BY PushBackType DEF TypeInv, TypeOK
  <1>2. \/ urgent' = Append(urgent, batch) /\ normal' = normal /\ place = Len(urgent) + 1
        \/ urgent' = urgent /\ normal' = Append(normal, batch)
             /\ place = Len(urgent) + Len(normal) + 1
    BY DEF PushBack
  <1>3. Backlog = BacklogOf(urgent, normal) /\ Backlog' = BacklogOf(urgent', normal')
    BY DEF Backlog, BacklogOf
  <1>. HIDE DEF place
  <1>4. /\ Len(Backlog') = Len(Backlog) + 1
        /\ place \in DOMAIN Backlog'
        /\ Executor!RemoveAt(Backlog', place) = Backlog
        /\ \A i \in DOMAIN Backlog' :
             /\ i > place => Backlog'[place].urgent /\ ~Backlog'[i].urgent
             /\ i < place => Backlog'[i].urgent \/ ~Backlog'[place].urgent
    BY <1>1, <1>2, <1>3, EntryInBacklog
  <1>. QED  BY <1>4 DEF Executor!Submit

\* Two empty queues are an empty backlog.
LEMMA BacklogEmpty == BacklogOf(<< >>, << >>) = << >>
  <1>1. [i \in DOMAIN << >> |-> Entry(<< >>[i], TRUE)] = << >>
    OBVIOUS
  <1>2. [i \in DOMAIN << >> |-> Entry(<< >>[i], FALSE)] = << >>
    OBVIOUS
  <1>. QED  BY <1>1, <1>2 DEF BacklogOf

\* A step that leaves the queues alone leaves the backlog alone.
LEMMA BacklogKept ==
  ASSUME UNCHANGED <<urgent, normal>>
  PROVE  Backlog' = Backlog
  BY DEF Backlog, Entry
------------------------------------------------------------------------------
(***************************************************************************)
(* The steps, one by one.                                                  *)
(***************************************************************************)
QueueInv == TypeInv /\ StartsAtFirst /\ LoopInv /\ LastInv

\* Phase as a function of the worker's state, and its value in each.
PhaseOf(where, ending, request) ==
  CASE where = "none" -> "closed"
    [] where = "idle" -> "waiting"
    [] where = "exited" -> "done"
    [] where = "call" -> "calling"
    [] ending /\ (where = "record" \/ (where = "next" /\ request > 1)) -> "ended"
    [] OTHER -> "working"

Preparing == {"claim", "discard", "plan"}

LEMMA PhaseIs ==
  ASSUME NEW where \in WorkerState, NEW ending \in BOOLEAN, NEW request \in Nat
  PROVE  /\ where = "none" => PhaseOf(where, ending, request) = "closed"
         /\ where = "idle" => PhaseOf(where, ending, request) = "waiting"
         /\ where = "exited" => PhaseOf(where, ending, request) = "done"
         /\ where = "call" => PhaseOf(where, ending, request) = "calling"
         /\ where \in Preparing => PhaseOf(where, ending, request) = "working"
         /\ where = "record" =>
              PhaseOf(where, ending, request) = IF ending THEN "ended" ELSE "working"
         /\ where = "next" =>
              PhaseOf(where, ending, request) = IF ending /\ request > 1 THEN "ended" ELSE "working"
  <1>1. CASE ending = TRUE /\ where = "next" /\ request > 1
    <2>1. ending /\ (where = "record" \/ (where = "next" /\ request > 1))
      BY <1>1
    <2>2. PhaseOf(where, ending, request) = "ended"
      BY <1>1, <2>1 DEF PhaseOf
    <2>3. (IF ending /\ request > 1 THEN "ended" ELSE "working") = "ended"
      BY <1>1
    <2>. QED  BY <1>1, <2>2, <2>3 DEF Preparing
  <1>2. CASE ending = TRUE /\ where = "next" /\ ~(request > 1)
    BY <1>2 DEF PhaseOf
  <1>3. CASE ending = TRUE /\ where # "next"
    BY <1>3 DEF PhaseOf, Preparing
  <1>4. CASE ending = FALSE
    BY <1>4 DEF PhaseOf, Preparing
  <1>. QED  BY <1>1, <1>2, <1>3, <1>4

\* A step of the worker that takes no batch: where it goes decides.
LEMMA WorkerPhase ==
  ASSUME TypeOK, TypeOK', UNCHANGED <<running, urgent, normal>>, finalizing' = finalizing,
         \/ Phase' = Phase
         \/ Executor!Call \/ Executor!Return
         \/ Phase \in {"working", "ended"} /\ Phase' = IF finalizing THEN "done" ELSE "waiting"
  PROVE  [Executor!Next]_(Executor!vars)
  <1>1. Backlog' = Backlog
    BY BacklogKept
  <1>. QED  BY <1>1 DEF Executor!Next, Executor!Rest, Executor!vars

LEMMA NextRefines ==
  QueueInv /\ TypeInv' /\ [Next]_vars => [Executor!Next]_(Executor!vars)
  <1>. SUFFICES ASSUME QueueInv, TypeInv', [Next]_vars
                PROVE  [Executor!Next]_(Executor!vars)
    OBVIOUS
  <1>1. /\ TypeOK /\ TypeOK' /\ StartsAtFirst /\ LoopInv /\ LastInv /\ InBatch
    BY DEF QueueInv, TypeInv
  <1>2. \/ Phase = "closed" /\ worker = "none"
        \/ Phase = "waiting" /\ worker = "idle"
        \/ Phase = "done" /\ worker = "exited"
        \/ Phase = "calling" /\ worker = "call"
        \/ Phase = "working" /\ worker \in Preparing
        \/ Phase = (IF finalizing THEN "ended" ELSE "working") /\ worker = "record"
        \/ Phase = (IF finalizing /\ next > 1 THEN "ended" ELSE "working") /\ worker = "next"
    <2>1. worker \in WorkerState /\ finalizing \in BOOLEAN /\ next \in Nat
      BY <1>1 DEF TypeOK
    <2>2. worker \in {"none", "idle", "exited", "call"} \cup Preparing \cup {"record", "next"}
      BY <2>1 DEF WorkerState, Preparing
    <2>3. Phase = PhaseOf(worker, finalizing, next)
      BY DEF Phase, PhaseOf
    <2>. QED  BY <2>1, <2>2, <2>3, PhaseIs
  <1>3. /\ worker' = "none" => Phase' = "closed"
        /\ worker' = "idle" => Phase' = "waiting"
        /\ worker' = "exited" => Phase' = "done"
        /\ worker' = "call" => Phase' = "calling"
        /\ worker' \in Preparing => Phase' = "working"
        /\ worker' = "record" => Phase' = IF finalizing' THEN "ended" ELSE "working"
        /\ worker' = "next" => Phase' = IF finalizing' /\ next' > 1 THEN "ended" ELSE "working"
    <2>1. worker' \in WorkerState /\ finalizing' \in BOOLEAN /\ next' \in Nat
      BY <1>1 DEF TypeOK
    <2>2. Phase' = PhaseOf(worker', finalizing', next')
      BY DEF Phase, PhaseOf
    <2>. QED  BY <2>1, <2>2, PhaseIs
  <1>4. finalizing \in BOOLEAN /\ finalizing' \in BOOLEAN /\ next \in Nat \ {0}
    BY <1>1 DEF TypeOK
  <1>5. ASSUME UNCHANGED <<running, urgent, normal, finalizing>>,
               Phase \in {"working", "ended"},
               worker' = IF finalizing THEN "exited" ELSE "idle"
        PROVE  [Executor!Next]_(Executor!vars)
    <2>1. Phase' = IF finalizing THEN "done" ELSE "waiting"
      BY <1>3, <1>5 DEF Preparing
    <2>2. finalizing' = finalizing
      BY <1>5
    <2>. QED  BY <1>1, <1>5, <2>1, <2>2, WorkerPhase
  <1>6. ASSUME UNCHANGED <<running, urgent, normal, finalizing>>, Phase' = Phase
        PROVE  [Executor!Next]_(Executor!vars)
    BY <1>1, <1>6, WorkerPhase
  <1>7. ASSUME UNCHANGED <<workerVars, running>> PROVE UNCHANGED <<running, Phase, finalizing>>
    BY <1>7 DEF workerVars, Phase
  <1>8. CASE Start
    <2>1. Phase = "closed" /\ Phase' = "waiting"
      BY <1>2, <1>3, <1>8 DEF Start, Preparing
    <2>2. ~running /\ running' = TRUE /\ finalizing' = FALSE /\ Backlog' = Backlog
      BY <1>8, BacklogKept DEF Start
    <2>. QED  BY <2>1, <2>2 DEF Executor!Next, Executor!Open
  <1>9. CASE Stop
    <2>1. Backlog' = << >>
      <3>1. urgent' = << >> /\ normal' = << >>
        BY <1>9 DEF Stop
      <3>2. Backlog' = BacklogOf(urgent', normal')
        BY DEF Backlog, BacklogOf
      <3>. QED  BY <3>1, <3>2, BacklogEmpty
    <2>2. running /\ running' = FALSE /\ Phase' = Phase /\ finalizing' = finalizing
      BY <1>9 DEF Stop, workerVars, Phase
    <2>. QED  BY <2>1, <2>2 DEF Executor!Next, Executor!Close
  <1>10. CASE Join
    <2>1. Phase = "done" /\ Phase' = "closed"
      BY <1>2, <1>3, <1>10 DEF Join, Preparing
    <2>2. ~running /\ running' = running /\ finalizing' = finalizing /\ Backlog' = Backlog
      BY <1>10, BacklogKept DEF Join, queueVars
    <2>. QED  BY <2>1, <2>2 DEF Executor!Next, Executor!Gone
  <1>11. CASE Submit
    <2>1. CASE \E path \in InputPaths, priority \in Priorities : Enqueue(path, priority)
      <3>1. PICK path \in InputPaths, priority \in Priorities : Enqueue(path, priority)
        BY <2>1
      <3>2. LifecycleBatch(RequestsOf(path)) \in BatchType
        BY <1>1, ConstantsAssumption, RequestsOfType, BatchTypes DEF TypeOK
      <3>3. /\ running /\ PushBack(LifecycleBatch(RequestsOf(path)), priority)
            /\ UNCHANGED <<running, Phase, finalizing>>
        BY <1>7, <3>1 DEF Enqueue, EnqueueRequests
      <3>. QED  BY <3>2, <3>3, BacklogPushed DEF QueueInv, Executor!Next
    <2>2. ASSUME NEW patch \in InputPatches,
                 NEW priority \in Priorities, QueuePatch(patch, priority)
          PROVE  [Executor!Next]_(Executor!vars)
      <3>1. PatchToQueue(patch) \in BatchType
        <4>1. patch.values \in ParameterMaps
          BY ConstantsAssumption DEF PatchType
        <4>2. Merge(pending, patch.values) \in ParameterMaps
          BY <1>1, <4>1, MergeIsMap DEF TypeOK
        <4>. QED  BY <1>1, <4>2, BatchTypes DEF PatchToQueue, TypeOK
      <3>2. /\ running /\ PushBack(PatchToQueue(patch), priority)
            /\ UNCHANGED <<running, Phase, finalizing>>
        BY <1>7, <2>2 DEF QueuePatch, AcceptPatch
      <3>. QED  BY <3>1, <3>2, BacklogPushed DEF QueueInv, Executor!Next
    <2>3. ASSUME NEW patch \in InputPatches, DisabledPatch(patch) \/ GatePatch(patch)
          PROVE  [Executor!Next]_(Executor!vars)
      <3>1. UNCHANGED <<urgent, normal, workerVars, running>>
        BY <2>3 DEF DisabledPatch, GatePatch, AcceptPatch
      <3>. QED  BY <1>6, <1>7, <3>1
    <2>. QED  BY <1>11, <2>1, <2>2, <2>3 DEF Submit
  <1>12. CASE Take
    <2>1. worker = "idle" /\ ~stopping /\ PopFront
      BY <1>12 DEF Take
    <2>2. running /\ ~finalizing
      BY <1>1, <1>4, <2>1 DEF LoopInv
    <2>3. /\ UNCHANGED <<running, finalizing>> /\ worker' \in {"claim", "next"} /\ next' = 1
      BY <1>12 DEF Take
    <2>4. Phase = "waiting" /\ Phase' = "working"
      BY <1>2, <1>3, <2>1, <2>2, <2>3 DEF Preparing
    <2>5. Backlog # << >> /\ Backlog' = Tail(Backlog)
      BY <2>1, BacklogTaken DEF QueueInv
    <2>. QED  BY <2>2, <2>3, <2>4, <2>5 DEF Executor!Next, Executor!Take
  <1>13. CASE ClaimPatch
    <2>1. /\ worker = "claim" /\ worker' \in {"discard", "plan"}
          /\ UNCHANGED <<running, urgent, normal, finalizing>> /\ next' = next /\ next = 1
      BY <1>1, <1>13 DEF ClaimPatch, StartsAtFirst
    <2>2. Phase' = Phase
      BY <1>2, <1>3, <2>1 DEF Preparing
    <2>. QED  BY <1>6, <2>1, <2>2
  <1>14. CASE DiscardPatch
    <2>1. /\ worker = "discard" /\ worker' = IF finalizing THEN "exited" ELSE "idle"
          /\ UNCHANGED <<running, urgent, normal, finalizing>>
      BY <1>14 DEF DiscardPatch, EndBatch, queueVars
    <2>. QED  BY <1>2, <1>5, <2>1 DEF Preparing
  <1>15. CASE PlanPatch
    <2>1. /\ worker = "plan" /\ next = 1
          /\ UNCHANGED <<running, urgent, normal, finalizing>>
          /\ \/ worker' = IF finalizing THEN "exited" ELSE "idle"
             \/ worker' = "next" /\ next' = next
      BY <1>1, <1>15 DEF PlanPatch, EndBatch, queueVars, StartsAtFirst
    <2>2. CASE worker' = IF finalizing THEN "exited" ELSE "idle"
      BY <1>2, <1>5, <2>1, <2>2 DEF Preparing
    <2>3. CASE worker' = "next" /\ next' = next
      <3>1. Phase' = Phase
        BY <1>2, <1>3, <2>1, <2>3 DEF Preparing
      <3>. QED  BY <1>6, <2>1, <3>1
    <2>. QED  BY <2>1, <2>2, <2>3
  <1>16. CASE FinishBatch
    <2>1. /\ worker = "next" /\ worker' = IF finalizing THEN "exited" ELSE "idle"
          /\ UNCHANGED <<running, urgent, normal, finalizing>>
      BY <1>16 DEF FinishBatch, EndBatch, queueVars
    <2>. QED  BY <1>2, <1>5, <2>1 DEF Preparing
  <1>17. CASE CheckSource
    <2>1. /\ worker = "next" /\ next <= Len(job.requests)
          /\ UNCHANGED <<running, urgent, normal, finalizing>>
          /\ \/ worker' = IF finalizing THEN "exited" ELSE "idle"
             \/ worker' = "call"
      BY <1>17 DEF CheckSource, EndBatch, queueVars
    <2>2. CASE worker' = IF finalizing THEN "exited" ELSE "idle"
      BY <1>2, <1>5, <2>1, <2>2 DEF Preparing
    <2>3. CASE worker' = "call"
      <3>1. ASSUME finalizing, next > 1 PROVE FALSE
        <4>1. Finalizing
          BY <2>1, <3>1 DEF Finalizing
        <4>2. Len(job.requests) = 1
          BY <1>1, <4>1 DEF LastInv
        <4>. QED  BY <1>4, <2>1, <3>1, <4>2
      <3>2. Phase = "working" /\ Phase' = "calling"
        BY <1>2, <1>3, <2>1, <2>3, <3>1 DEF Preparing
      <3>3. Executor!Call
        BY <2>1, <3>2, BacklogKept DEF Executor!Call
      <3>. QED  BY <3>3 DEF Executor!Next
    <2>. QED  BY <2>1, <2>2, <2>3
  <1>18. CASE RuntimeReturns
    <2>1. /\ worker = "call" /\ worker' = "record"
          /\ UNCHANGED <<running, urgent, normal, finalizing>>
      BY <1>18 DEF RuntimeReturns, queueVars
    <2>2. Phase = "calling" /\ Phase' = IF finalizing THEN "ended" ELSE "working"
      <3>1. Phase' = IF finalizing' THEN "ended" ELSE "working"
        BY <1>3, <2>1
      <3>2. finalizing' = finalizing /\ Phase = "calling"
        BY <1>2, <2>1 DEF Preparing
      <3>. QED  BY <1>4, <3>1, <3>2
    <2>3. Executor!Return
      BY <2>1, <2>2, BacklogKept DEF Executor!Return
    <2>. QED  BY <2>3 DEF Executor!Next
  <1>19. CASE RecordOutcome
    <2>1. /\ worker = "record"
          /\ UNCHANGED <<running, urgent, normal, finalizing>>
          /\ \/ worker' = IF finalizing THEN "exited" ELSE "idle"
             \/ worker' = "next" /\ next' = next + 1
      BY <1>19 DEF RecordOutcome, EndBatch, queueVars
    <2>2. CASE worker' = IF finalizing THEN "exited" ELSE "idle"
      BY <1>2, <1>5, <2>1, <2>2 DEF Preparing
    <2>3. CASE worker' = "next" /\ next' = next + 1
      <3>1. next' > 1
        BY <1>4, <2>3
      <3>2. Phase' = Phase
        <4>1. Phase' = IF finalizing' THEN "ended" ELSE "working"
          BY <1>3, <2>3, <3>1
        <4>2. Phase = IF finalizing THEN "ended" ELSE "working"
          BY <1>2, <2>1 DEF Preparing
        <4>3. finalizing' = finalizing
          BY <2>1
        <4>. QED  BY <4>1, <4>2, <4>3
      <3>. QED  BY <1>6, <2>1, <3>2
    <2>. QED  BY <2>1, <2>2, <2>3
  <1>20. CASE Finalize
    <2>1. /\ worker = "idle" /\ stopping /\ running' = running
          /\ UNCHANGED <<urgent, normal>>
          /\ \/ worker' = "exited" /\ finalizing' = finalizing
             \/ worker' = "next" /\ next' = 1 /\ finalizing' = TRUE
      BY <1>20 DEF Finalize, queueVars
    <2>2. ~running /\ Phase = "waiting" /\ Backlog' = Backlog
      BY <1>1, <1>2, <2>1, BacklogKept DEF LoopInv, Preparing
    <2>3. \/ Phase' = "done" /\ finalizing' = finalizing
          \/ Phase' = "working" /\ finalizing' = TRUE
      BY <1>3, <2>1 DEF Preparing
    <2>. QED  BY <2>1, <2>2, <2>3 DEF Executor!Next, Executor!WindUp
  <1>21. CASE StateDrifts \/ UNCHANGED vars
    <2>1. UNCHANGED <<urgent, normal, workerVars, running>>
      BY <1>21 DEF StateDrifts, vars, queueVars
    <2>2. UNCHANGED <<running, Phase, finalizing>>
      BY <1>7, <2>1
    <2>. QED  BY <1>6, <2>1, <2>2
  <1>. QED  BY <1>8, <1>9, <1>10, <1>11, <1>12, <1>13, <1>14, <1>15, <1>16, <1>17,
               <1>18, <1>19, <1>20, <1>21 DEF Next, Worker

LEMMA QueueInit == Init => Executor!Init
  <1>. SUFFICES ASSUME Init
                PROVE  Executor!Init
    OBVIOUS
  <1>1. Backlog = << >>
    <2>1. Backlog = BacklogOf(urgent, normal)
      BY DEF Backlog, BacklogOf
    <2>. QED  BY <2>1, BacklogEmpty DEF Init
  <1>2. Phase = "closed"
    BY DEF Init, Phase
  <1>. QED  BY <1>1, <1>2 DEF Init, Executor!Init

(***************************************************************************)
(* The two queues and the worker thread behave as one ordered backlog,     *)
(* served one entry at a time: urgent before normal, first come first      *)
(* served in each class, no two runtime calls at once, and after a stop at *)
(* most one last call (DeviceQueue::run, push and finalize).               *)
(***************************************************************************)
THEOREM QueueIsSerialExecutor == Spec => ImplementsSerialExecutor
  <1>1. Init => TypeInv /\ BatchInv /\ AdjacentInv /\ LoopInv /\ LastInv
    BY TypeInit, BatchInit, LoopInit DEF Init, AdjacentInv, StartsAtFirst, AdjacentExecution
  <1>2. TypeInv /\ BatchInv /\ AdjacentInv /\ LoopInv /\ LastInv /\ [Next]_vars
          => (TypeInv /\ BatchInv /\ AdjacentInv /\ LoopInv /\ LastInv)'
    BY TypeNext, BatchNext, AdjacentNext, LoopNext, LastNext
  <1>3. TypeInv /\ AdjacentInv /\ LoopInv /\ LastInv /\ TypeInv' /\ [Next]_vars
          => [Executor!Next]_(Executor!vars)
    BY NextRefines DEF QueueInv, AdjacentInv
  <1>. QED  BY <1>1, <1>2, <1>3, QueueInit, PTL DEF Spec, ImplementsSerialExecutor, Executor!Spec
------------------------------------------------------------------------------
(***************************************************************************)
(* The queue under a hook and under an adapter.  The runtime of DeviceQueue *)
(* answers a call in one step, and callers submit the paths of InputPaths; *)
(* a hooked device also enqueues what its hook answered some time ago, and *)
(* its adapter answers with any result and leaves the runtime anywhere.    *)
(* What the queue promises without a word about the runtime survives both. *)
(***************************************************************************)
HookSubmits == \E requests \in Seq(RequestType) : EnqueueRequests(requests, "normal")

AdapterReturns ==
  /\ worker = "call" /\ worker' = "record"
  /\ outcome' \in Result \cup {"threw"}
  /\ state' \in LifecycleState /\ applied' \in ParameterMaps
  /\ UNCHANGED <<queueVars, observationVars, job, next, snapshot, finalizing>>

RuntimeMoves ==
  /\ state' \in LifecycleState /\ applied' \in ParameterMaps
  /\ UNCHANGED <<queueVars, observationVars, workerVars>>

HookStep == HookSubmits \/ AdapterReturns \/ RuntimeMoves

DeviceStep == [Next]_vars \/ HookStep

\* What DeviceQueue_proofs knows of a queue, in one invariant.
DeviceInv ==
  /\ TypeInv /\ StoppedIsEmpty
  /\ PendingIsQueued /\ NewestCarriesPending
  /\ BatchInv /\ PatchPlansNewest /\ AdjacentInv
  /\ LoopInv /\ LastInv

LEMMA DeviceInit == Init => DeviceInv
  BY TypeInit, BatchInit, LoopInit
     DEF Init, DeviceInv, StoppedIsEmpty, PendingIsQueued, NewestCarriesPending,
         PatchPlansNewest, AdjacentInv, StartsAtFirst, AdjacentExecution

LEMMA HookKeepsType ==
  ASSUME TypeInv, HookStep
  PROVE  TypeInv'
  <1>. USE DEF TypeInv, TypeOK, InBatch, queueVars, observationVars, workerVars, runtimeVars
  <1>1. ASSUME NEW requests \in Seq(RequestType), EnqueueRequests(requests, "normal")
        PROVE  TypeInv'
    <2>1. LifecycleBatch(requests) \in BatchType
      BY BatchTypes
    <2>2. PushBack(LifecycleBatch(requests), "normal")
      BY <1>1 DEF EnqueueRequests
    <2>3. urgent' \in Seq(BatchType) /\ normal' \in Seq(BatchType)
      BY <2>1, <2>2, PushBackType
    <2>. QED  BY <1>1, <2>3 DEF EnqueueRequests
  <1>2. CASE AdapterReturns
    BY <1>2 DEF AdapterReturns, WorkerState
  <1>3. CASE RuntimeMoves
    BY <1>3 DEF RuntimeMoves
  <1>. QED  BY <1>1, <1>2, <1>3 DEF HookStep, HookSubmits

\* A hook's batch is no patch; the adapter's answer concerns no queue.
LEMMA HookKeepsPatches ==
  ASSUME TypeInv, HookStep
  PROVE  /\ StoppedIsEmpty => StoppedIsEmpty'
         /\ PendingIsQueued => PendingIsQueued'
         /\ NewestCarriesPending => NewestCarriesPending'
  <1>1. CASE HookSubmits
    <2>1. PICK requests \in Seq(RequestType) : EnqueueRequests(requests, "normal")
      BY <1>1 DEF HookSubmits
    <2>2. LifecycleBatch(requests) \in BatchType /\ ~IsPatch(LifecycleBatch(requests))
      BY BatchTypes DEF LifecycleBatch, IsPatch
    <2>3. /\ PushBack(LifecycleBatch(requests), "normal") /\ worker' = worker /\ job' = job
          /\ running' = running /\ running /\ pending' = pending /\ revision' = revision
      BY <2>1 DEF EnqueueRequests, workerVars, observationVars
    <2>4. UnclaimedPatches' = UnclaimedPatches
      BY <2>2, <2>3, UnclaimedPushed
    <2>. QED  BY <2>3, <2>4 DEF StoppedIsEmpty, PendingIsQueued, NewestCarriesPending
  <1>2. CASE AdapterReturns \/ RuntimeMoves
    <2>1. /\ UNCHANGED <<running, urgent, normal, pending, revision, job>>
          /\ worker' = "claim" <=> worker = "claim"
      BY <1>2 DEF AdapterReturns, RuntimeMoves, queueVars, observationVars, workerVars
    <2>2. UnclaimedPatches' = UnclaimedPatches
      BY <2>1 DEF UnclaimedPatches
    <2>. QED  BY <2>1, <2>2 DEF StoppedIsEmpty, PendingIsQueued, NewestCarriesPending
  <1>. QED  BY <1>1, <1>2 DEF HookStep

\* A hook's batch is contiguous, enqueue sees to that.
LEMMA HookKeepsBatches ==
  ASSUME TypeInv, BatchInv, HookStep
  PROVE  BatchInv'
  <1>1. CASE HookSubmits
    <2>1. PICK requests \in Seq(RequestType) : EnqueueRequests(requests, "normal")
      BY <1>1 DEF HookSubmits
    <2>2. /\ PushBack(LifecycleBatch(requests), "normal") /\ job' = job
          /\ IsContiguous(requests) /\ revision' = revision
      BY <2>1 DEF EnqueueRequests, Acceptable, workerVars, observationVars
    <2>3. LifecycleBatch(requests) \in BatchType
      BY BatchTypes
    <2>4. Queued' = Queued \cup {LifecycleBatch(requests)}
      BY <2>2, <2>3, QueuedPushed
    <2>5. Sound(LifecycleBatch(requests), revision)
      BY <2>2, LifecycleSound
    <2>. QED  BY <2>2, <2>4, <2>5 DEF BatchInv
  <1>2. CASE AdapterReturns \/ RuntimeMoves
    BY <1>2 DEF AdapterReturns, RuntimeMoves, queueVars, observationVars, workerVars,
                BatchInv, Queued
  <1>. QED  BY <1>1, <1>2 DEF HookStep

\* Neither touches what the worker has planned, recorded or left to do.
LEMMA HookKeepsWorker ==
  ASSUME HookStep
  PROVE  /\ PatchPlansNewest => PatchPlansNewest'
         /\ AdjacentInv => AdjacentInv'
         /\ LoopInv => LoopInv'
         /\ LastInv => LastInv'
  <1>. USE DEF PatchPlansNewest, AdjacentInv, StartsAtFirst, AdjacentExecution, LoopInv, LastInv,
               Finalizing, Current
  <1>1. CASE HookSubmits \/ RuntimeMoves
    BY <1>1 DEF HookSubmits, EnqueueRequests, RuntimeMoves, queueVars, observationVars, workerVars
  <1>2. CASE AdapterReturns
    BY <1>2 DEF AdapterReturns, queueVars, observationVars
  <1>. QED  BY <1>1, <1>2 DEF HookStep

\* Every step of a hooked device keeps the queue's invariant.
LEMMA DeviceNext == DeviceInv /\ DeviceStep => DeviceInv'
  <1>1. DeviceInv /\ [Next]_vars => DeviceInv'
    BY TypeNext, StoppedNext, PendingNext, NewestNext, BatchNext, PlanNext, AdjacentNext,
       LoopNext, LastNext DEF DeviceInv
  <1>2. DeviceInv /\ HookStep => DeviceInv'
    BY HookKeepsType, HookKeepsPatches, HookKeepsBatches, HookKeepsWorker DEF DeviceInv
  <1>. QED  BY <1>1, <1>2 DEF DeviceStep

\* ... hands the accumulated patch over only as the queue may,
LEMMA DeviceHandsOver == DeviceInv /\ DeviceStep => [HandsOver]_vars
  <1>1. DeviceInv /\ [Next]_vars => [HandsOver]_vars
    BY DeltaNext DEF DeviceInv
  <1>2. HookStep => pending' = pending
    BY DEF HookStep, HookSubmits, EnqueueRequests, AdapterReturns, RuntimeMoves, queueVars
  <1>. QED  BY <1>1, <1>2 DEF DeviceStep, HandsOver

\* ... and is a step of the serial executor.
LEMMA DeviceRefines == DeviceInv /\ DeviceStep => [Executor!Next]_(Executor!vars)
  <1>. SUFFICES ASSUME DeviceInv, DeviceStep
                PROVE  [Executor!Next]_(Executor!vars)
    OBVIOUS
  <1>1. DeviceInv'
    BY DeviceNext
  <1>2. TypeInv /\ TypeInv' /\ QueueInv
    BY <1>1 DEF DeviceInv, QueueInv, AdjacentInv
  <1>3. CASE [Next]_vars
    BY <1>2, <1>3, NextRefines
  <1>4. CASE HookSubmits
    <2>1. PICK requests \in Seq(RequestType) : EnqueueRequests(requests, "normal")
      BY <1>4 DEF HookSubmits
    <2>2. LifecycleBatch(requests) \in BatchType
      BY BatchTypes
    <2>3. /\ running /\ PushBack(LifecycleBatch(requests), "normal")
          /\ UNCHANGED <<running, workerVars>>
      BY <2>1 DEF EnqueueRequests
    <2>4. UNCHANGED <<running, Phase, finalizing>>
      BY <2>3 DEF workerVars, Phase
    <2>5. Executor!Submit
      BY <1>2, <2>2, <2>3, <2>4, BacklogPushed
    <2>. QED  BY <2>5 DEF Executor!Next
  <1>5. CASE AdapterReturns
    <2>1. /\ worker = "call" /\ worker' = "record"
          /\ UNCHANGED <<running, urgent, normal, finalizing>>
      BY <1>5 DEF AdapterReturns, queueVars
    <2>2. /\ worker \in WorkerState /\ finalizing \in BOOLEAN /\ next \in Nat
          /\ worker' \in WorkerState /\ finalizing' \in BOOLEAN /\ next' \in Nat
      BY <1>2 DEF TypeInv, TypeOK
    <2>3. /\ Phase = PhaseOf(worker, finalizing, next)
          /\ Phase' = PhaseOf(worker', finalizing', next')
      BY DEF Phase, PhaseOf
    <2>4. Phase = "calling" /\ Phase' = IF finalizing' THEN "ended" ELSE "working"
      BY <2>1, <2>2, <2>3, PhaseIs
    <2>5. finalizing' = finalizing
      BY <2>1
    <2>6. Executor!Return
      BY <2>1, <2>2, <2>4, <2>5, BacklogKept DEF Executor!Return
    <2>. QED  BY <2>6 DEF Executor!Next
  <1>6. CASE RuntimeMoves
    <2>1. UNCHANGED <<running, urgent, normal, workerVars>>
      BY <1>6 DEF RuntimeMoves, queueVars
    <2>2. UNCHANGED <<running, Phase, finalizing>>
      BY <2>1 DEF workerVars, Phase
    <2>. QED  BY <2>1, <2>2, BacklogKept DEF Executor!vars
  <1>. QED  BY <1>3, <1>4, <1>5, <1>6 DEF DeviceStep, HookStep
------------------------------------------------------------------------------
(***************************************************************************)
(* The tick thread.  What it carries from the hook to the queue is a       *)
(* sequence of requests; for the queue its steps are a submission or       *)
(* nothing.                                                                *)
(***************************************************************************)
TickTypes ==
  /\ tick \in {"waiting", "evaluate", "submit"}
  /\ tickState \in LifecycleState
  /\ tickRequests \in Seq(RequestType)

LEMMA TickTypesInit == HookedInit => TickTypes
  <1>1. HookedInit => tickRequests = << >> /\ tick = "waiting" /\ tickState = "unknown"
    BY DEF HookedInit
  <1>. QED  BY <1>1 DEF TickTypes, LifecycleState

LEMMA TickIsDeviceStep ==
  ASSUME TypeInv, TickTypes, NEW requests \in Seq(RequestType), NEW handledAfter,
         TickReadsState \/ TickEvaluates(requests, handledAfter) \/ TickSubmits
  PROVE  DeviceStep /\ TickTypes'
  <1>1. CASE TickReadsState
    BY <1>1 DEF TickReadsState, TickTypes, TypeInv, TypeOK, DeviceStep, vars, runtimeVars
  <1>2. CASE TickEvaluates(requests, handledAfter)
    <2>1. /\ tickState' = "unknown" /\ tickRequests' = requests
          /\ tick' = "waiting" \/ tick' = "submit"
      BY <1>2 DEF TickEvaluates
    <2>. QED  BY <1>2, <2>1 DEF TickEvaluates, TickTypes, DeviceStep, LifecycleState
  <1>3. CASE TickSubmits
    <2>1. tick' = "waiting" /\ tickRequests' = << >> /\ tickState' = tickState
      BY <1>3 DEF TickSubmits
    <2>2. TickTypes'
      BY <2>1 DEF TickTypes
    <2>3. EnqueueRequests(tickRequests, "normal") \/ UNCHANGED vars
      BY <1>3 DEF TickSubmits
    <2>. QED  BY <2>2, <2>3 DEF TickTypes, DeviceStep, HookStep, HookSubmits
  <1>. QED  BY <1>1, <1>2, <1>3

LEMMA PartOfSequence ==
  ASSUME NEW S, NEW s \in Seq(S), NEW i \in 1..Len(s), NEW j \in 1..Len(s)
  PROVE  SubSeq(s, i, j) \in Seq(S)
  OBVIOUS

LEMMA ReversedSequence ==
  ASSUME NEW S, NEW s \in Seq(S)
  PROVE  Reverse(s) \in Seq(S) /\ Len(Reverse(s)) = Len(s)
  <1>1. Reverse(s) = [i \in 1..Len(s) |-> s[(Len(s) - i) + 1]]
    BY DEF Reverse
  <1>2. \A i \in 1..Len(s) : (Len(s) - i) + 1 \in 1..Len(s)
    OBVIOUS
  <1>. QED  BY <1>1, <1>2

\* The path between two levels is a sequence of states.
LEMMA BetweenIsPath ==
  ASSUME NEW from \in ToSet(Levelled), NEW target \in ToSet(Levelled)
  PROVE  Between(from, target) \in Seq(PrimaryStates)
  <1>. DEFINE i == CHOOSE k \in 1..3 : Levelled[k] = from
              j == CHOOSE k \in 1..3 : Levelled[k] = target
  <1>1. DOMAIN Levelled = 1..3 /\ Levelled \in Seq(PrimaryStates)
    BY DEF Levelled, PrimaryStates
  <1>2. i \in 1..3 /\ j \in 1..3
    BY <1>1 DEF ToSet
  <1>. HIDE DEF i, j
  <1>3. Len(Levelled) = 3
    BY <1>1
  <1>4. /\ SubSeq(Levelled, i, j) \in Seq(PrimaryStates)
        /\ SubSeq(Levelled, j, i) \in Seq(PrimaryStates)
    BY <1>1, <1>2, <1>3, PartOfSequence
  <1>5. Reverse(SubSeq(Levelled, j, i)) \in Seq(PrimaryStates)
    BY <1>4, ReversedSequence
  <1>. QED  BY <1>4, <1>5 DEF Between, i, j

LEMMA LevelledPathType ==
  ASSUME NEW from, NEW target, NEW map \in ParameterMaps
  PROVE  LevelledPath(from, target, map) \in Seq(RequestType)
  <1>. DEFINE path == LevelledPath(from, target, map)
  <1>1. CASE from \in ToSet(Levelled) /\ target = "finalized"
    <2>0. target \notin ToSet(Levelled)
      BY <1>1 DEF Levelled, ToSet
    <2>1. path = << Request(from, target, EmptyMap) >>
      BY <1>1, <2>0 DEF LevelledPath
    <2>2. from \in LifecycleState /\ target \in LifecycleState
      BY <1>1 DEF Levelled, ToSet, LifecycleState, PrimaryStates
    <2>3. Request(from, target, EmptyMap) \in RequestType
      BY <2>2, EmptyMapIsMap, RequestIsRequest
    <2>. QED  BY <2>1, <2>3
  <1>2. CASE from \in ToSet(Levelled) /\ target \in ToSet(Levelled)
    <2>. DEFINE states == Between(from, target)
                request(i) == Request(states[i], states[i + 1],
                                IF states[i] = "unconfigured" THEN map ELSE EmptyMap)
    <2>1. target # "finalized"
      BY <1>2 DEF Levelled, ToSet
    <2>2. path = [i \in 1..(Len(states) - 1) |-> request(i)]
      BY <1>2, <2>1 DEF LevelledPath
    <2>3. states \in Seq(PrimaryStates)
      BY <1>2, BetweenIsPath
    <2>. HIDE DEF path, states
    <2>4. Len(states) \in Nat /\ \A k \in 1..Len(states) : states[k] \in LifecycleState
      BY <2>3 DEF LifecycleState
    <2>5. \A k \in 1..(Len(states) - 1) : request(k) \in RequestType
      BY <2>4, EmptyMapIsMap DEF Request, RequestType
    <2>. HIDE DEF request
    <2>6. CASE Len(states) = 0
      <3>1. path = << >>
        BY <2>2, <2>6
      <3>. QED  BY <3>1 DEF path
    <2>7. CASE Len(states) # 0
      <3>1. Len(states) - 1 \in Nat
        BY <2>4, <2>7
      <3>2. path \in Seq(RequestType)
        BY <2>2, <2>5, <3>1
      <3>. QED  BY <3>2 DEF path
    <2>. QED  BY <2>6, <2>7
  <1>3. CASE ~(from \in ToSet(Levelled) /\ (target = "finalized" \/ target \in ToSet(Levelled)))
    <2>1. path = << >>
      BY <1>3 DEF LevelledPath
    <2>. QED  BY <2>1
  <1>. QED  BY <1>1, <1>2, <1>3
==============================================================================
